--------------------------- MODULE DockerRuntime ---------------------------
(***************************************************************************)
(* The Docker runtime of a runner (internal/runner/runtime/docker), for one *)
(* sandbox id and the containers made for it one after the other.           *)
(*                                                                         *)
(* Docker restarts a container that dies, on an address of its choice, and  *)
(* reports the death on an event stream.  The runner marks the sandbox as   *)
(* restarted unless it expected the stop, and serves a marked sandbox only  *)
(* after a wake has pointed its network rules at the new address.           *)
(*                                                                         *)
(* Create, wake, stop and delete run concurrently: the runtime serializes   *)
(* nothing but wakes (singleflight).                                        *)
(***************************************************************************)
EXTENDS Integers, FiniteSets, SequencesExt

CONSTANTS
    Containers,   \* container ids, in the order they are made
    Addresses,    \* addresses Docker may give
    MaxCrashes,   \* bound: deaths nobody asked for
    MaxFaults,    \* bound: failing Docker and iptables calls
    MaxOps,       \* bound: stops and deletes
    NoAddress     \* a container that does not run has none

ASSUME DockerAssumption ==
    /\ IsFiniteSet(Containers) /\ Containers \subseteq Nat \ {0}
    /\ MaxCrashes \in Nat /\ MaxFaults \in Nat /\ MaxOps \in Nat
    /\ NoAddress \notin Addresses

VARIABLES
    \* Docker and the host
    state,      \* state[c]: "none", "created", "running", "restarting", "exited", "removed"
    ip,         \* ip[c]
    rules,      \* rules[c]: the address the rules of c name, NoAddress if there are none
    pipe,       \* die events: [container, asked]
    \* Runtime
    imageReady,
    expected,   \* expectedStops[c]: the token, 0 if none
    expired,    \* the mark of c is older than expectedStopTTL
    stopToken,
    restarted,  \* the sandbox is in m.restarted
    \* operations
    pc,         \* pc[o]: the next step of operation o
    on,         \* on[o]: its container
    token,      \* token[o]
    saw,        \* saw[o]: the state it inspected
    addr,       \* addr[o]: the address it read
    recovering, \* of the wake
    \* bounds and history
    crashes, faults, ops,
    made,       \* containers whose create succeeded: the API has their row
    owed,       \* owed[c]: c died unasked and no wake has reported it
    stray,      \* containers whose mark has no death to excuse
    lost,       \* containers whose last crash went unnoticed
    loose       \* containers a wake left running without repairing their rules

host == <<state, ip, rules, pipe>>
marks == <<expected, expired, stopToken, restarted>>
calls == <<pc, on, token, saw, addr, recovering>>
bounds == <<crashes, faults, ops, made>>
history == <<owed, stray, lost, loose>>
vars == <<host, imageReady, marks, calls, bounds, history>>

Ops == {"create", "wake", "stop", "delete"}

Init ==
    /\ state = [c \in Containers |-> "none"]
    /\ ip = [c \in Containers |-> NoAddress]
    /\ rules = [c \in Containers |-> NoAddress]
    /\ pipe = <<>>
    /\ imageReady = FALSE
    /\ expected = [c \in Containers |-> 0] /\ expired = [c \in Containers |-> FALSE]
    /\ stopToken = 0 /\ restarted = FALSE
    /\ pc = [o \in Ops |-> "idle"] /\ on = [o \in Ops |-> 0]
    /\ token = [o \in Ops |-> 0] /\ saw = [o \in Ops |-> "none"]
    /\ addr = [o \in Ops |-> NoAddress] /\ recovering = FALSE
    /\ crashes = 0 /\ faults = 0 /\ ops = 0 /\ made = {}
    /\ owed = [c \in Containers |-> FALSE] /\ stray = {} /\ lost = {} /\ loose = {}

Fault == faults < MaxFaults /\ faults' = faults + 1 /\ UNCHANGED <<crashes, ops, made>>

Exists(c) == state[c] \notin {"none", "removed"}

\* FindContainerIDByLabel.
Found == {c \in Containers : Exists(c)}

At(o, step) == pc[o] = step

Goto(o, step) == pc' = [pc EXCEPT ![o] = step]

\* The operation returns; its locals are dead.
Return(o) ==
    /\ Goto(o, "idle")
    /\ on' = [on EXCEPT ![o] = 0]
    /\ token' = [token EXCEPT ![o] = 0]
    /\ saw' = [saw EXCEPT ![o] = "none"]
    /\ addr' = [addr EXCEPT ![o] = NoAddress]
    /\ recovering' = IF o = "wake" THEN FALSE ELSE recovering

Step(o, step) == Goto(o, step) /\ UNCHANGED <<on, token, saw, addr, recovering>>

-----------------------------------------------------------------------------
(* Docker, outside the runner.                                             *)

\* A process of c ends: the event names the container and the sandbox.
Die(c, asked) == pipe' = Append(pipe, [container |-> c, asked |-> asked])

\* The guest dies, and the restart policy will bring it back.
Crash(c) ==
    /\ state[c] = "running" /\ crashes < MaxCrashes
    /\ crashes' = crashes + 1
    /\ state' = [state EXCEPT ![c] = "restarting"]
    /\ ip' = [ip EXCEPT ![c] = NoAddress]
    /\ Die(c, FALSE)
    /\ owed' = [owed EXCEPT ![c] = TRUE]
    /\ lost' = lost \ {c} /\ loose' = loose \ {c}
    /\ UNCHANGED <<rules, imageReady, marks, calls, faults, ops, made, stray>>

\* It comes back, on the address it had or another one.
Restart(c, a) ==
    /\ state[c] = "restarting"
    /\ state' = [state EXCEPT ![c] = "running"]
    /\ ip' = [ip EXCEPT ![c] = a]
    /\ UNCHANGED <<rules, pipe, imageReady, marks, calls, bounds, history>>

\* stopContainer on c: a process that runs dies, a pending restart is called
\* off, and a container that does not run stays as it is.
StopContainer(c) ==
    /\ Exists(c)
    /\ state' = [state EXCEPT ![c] = IF @ = "created" THEN @ ELSE "exited"]
    /\ ip' = [ip EXCEPT ![c] = NoAddress]
    /\ IF state[c] = "running" THEN Die(c, TRUE) ELSE UNCHANGED pipe
    /\ owed' = [owed EXCEPT ![c] = FALSE]
    /\ lost' = lost \ {c} /\ loose' = loose \ {c}

\* removeContainer on c; a container that is gone counts as removed.
RemoveContainer(c) ==
    /\ state' = [state EXCEPT ![c] = "removed"]
    /\ ip' = [ip EXCEPT ![c] = NoAddress]
    /\ IF state[c] = "running" THEN Die(c, TRUE) ELSE UNCHANGED pipe
    /\ owed' = [owed EXCEPT ![c] = FALSE]
    /\ lost' = lost \ {c} /\ loose' = loose \ {c}

-----------------------------------------------------------------------------
(* crash.go.                                                               *)

\* expectStop, which also sweeps the marks that have expired.
ExpectStop(o, c) ==
    /\ stopToken' = stopToken + 1
    /\ expected' = [x \in Containers |->
          IF x = c THEN stopToken + 1 ELSE IF expired[x] THEN 0 ELSE expected[x]]
    /\ expired' = [x \in Containers |-> FALSE]
    /\ token' = [token EXCEPT ![o] = stopToken + 1]
    /\ UNCHANGED restarted

\* forgetExpectedStop: the mark goes if it is still the caller's own.
ForgetExpectedStop(o, c) ==
    /\ expected' = [expected EXCEPT ![c] = IF @ = token[o] THEN 0 ELSE @]
    /\ expired' = [expired EXCEPT ![c] = @ /\ expected[c] # token[o]]
    /\ UNCHANGED <<stopToken, restarted>>

\* A mark gets older than expectedStopTTL.  Docker reports a stop long before.
MarkExpires(c) ==
    /\ expected[c] # 0 /\ ~expired[c]
    /\ \A o \in Ops : on[o] = c => token[o] # expected[c]
    /\ \A n \in 1..Len(pipe) : pipe[n].container # c
    /\ expired' = [expired EXCEPT ![c] = TRUE]
    /\ UNCHANGED <<host, imageReady, expected, stopToken, restarted, calls, bounds,
                   history>>

\* takeExpectedStop consumes the mark.
Take(c) ==
    /\ expected' = [expected EXCEPT ![c] = 0]
    /\ expired' = [expired EXCEPT ![c] = FALSE]

\* The call that recorded the mark of c is in progress.
Stopping(c) == \E o \in Ops : on[o] = c /\ token[o] # 0 /\ token[o] = expected[c]

\* handleContainerDeath: an unexpected death marks the sandbox.  A crash is lost
\* when a stop in progress or a stray mark excuses it, or when a recovery that is
\* past its checks will clear the mark.
HandleContainerDeath ==
    /\ pipe # <<>>
    /\ LET c == Head(pipe).container
           excused == expected[c] # 0 /\ ~expired[c]
           crash == IF Head(pipe).asked THEN {} ELSE {c}
       IN /\ Take(c)
          /\ restarted' = (restarted \/ ~excused)
          /\ lost' = IF \/ excused /\ (Stopping(c) \/ c \in stray)
                        \/ ~excused /\ recovering /\ At("wake", "clear")
                     THEN lost \cup crash ELSE lost
          /\ stray' = stray \ {c}
    /\ pipe' = Tail(pipe)
    /\ UNCHANGED <<state, ip, rules, imageReady, stopToken, calls, bounds, owed, loose>>

\* The event stream breaks and reconnects: what it held is not replayed.
StreamBreaks ==
    /\ pipe # <<>> /\ Fault
    /\ pipe' = <<>>
    /\ lost' = lost \cup {e.container : e \in {x \in Range(pipe) : ~x.asked}}
    /\ stray' = stray \cup {e.container : e \in Range(pipe)}
    /\ UNCHANGED <<state, ip, rules, imageReady, marks, calls, owed, loose>>

-----------------------------------------------------------------------------
(* Steps shared by the operations.                                         *)

\* expectStop, before the Docker call it excuses.
RecordStop(o) ==
    /\ pc[o] \in {"mark stop", "mark remove"}
    /\ ExpectStop(o, on[o])
    /\ Goto(o, IF At(o, "mark stop") THEN "stop" ELSE "remove")
    /\ stray' = stray \ {on[o]}
    /\ UNCHANGED <<host, imageReady, on, saw, addr, recovering, bounds, owed, lost, loose>>

\* A stop that inspected a running container, or the cleanup of a failed wake,
\* finds the container not running: its mark has no death to excuse.
Strays(o) ==
    IF /\ token[o] # 0 /\ state[on[o]] # "running"
       /\ o = "stop" => saw[o] = "running"
    THEN {on[o]} ELSE {}

\* StopSandboxContainer and cleanupWakeFailure: Docker stops the container.
StopNow(o) ==
    /\ At(o, "stop") /\ StopContainer(on[o])
    /\ stray' = stray \cup Strays(o)
    /\ IF o = "wake" THEN Step(o, "teardown") ELSE Return(o)
    /\ UNCHANGED <<rules, imageReady, marks, bounds>>

\* removeContainerAndTeardownRules.
RemoveNow(o) ==
    /\ At(o, "remove") /\ RemoveContainer(on[o])
    /\ Step(o, "teardown")
    /\ UNCHANGED <<rules, imageReady, marks, bounds, stray>>

\* The call fails: before it did anything, or after, or for want of a container.
\* A cleanup that fails leaves a container that nothing marks.
StopFails(o) ==
    /\ pc[o] \in {"stop", "remove"}
    /\ \/ /\ Exists(on[o]) /\ Fault
          /\ loose' = IF o = "wake" /\ ~recovering THEN loose \cup {on[o]} ELSE loose
          /\ UNCHANGED <<state, ip, pipe, owed, stray, lost>>
       \/ /\ At(o, "stop") /\ Fault /\ StopContainer(on[o])
          /\ stray' = stray \cup Strays(o)
       \/ /\ At(o, "remove") /\ Exists(on[o]) /\ Fault /\ RemoveContainer(on[o])
          /\ UNCHANGED stray
       \/ /\ At(o, "stop") /\ ~Exists(on[o])
          /\ UNCHANGED <<state, ip, pipe, bounds, history>>
    /\ Step(o, "forget")
    /\ UNCHANGED <<rules, imageReady, marks>>

Forget(o) ==
    /\ At(o, "forget")
    /\ ForgetExpectedStop(o, on[o])
    /\ Return(o)
    /\ UNCHANGED <<host, imageReady, bounds, history>>

\* Mutant: the rules come down before the container does.
TeardownFirst(o) == pc[o] \in {"mark remove", "teardown"}

MayTeardown(o) == At(o, "teardown")

\* netrules.Teardown: the rules of the container, or an error that is logged.
TeardownRules(o) ==
    /\ MayTeardown(o)
    /\ \/ rules' = [rules EXCEPT ![on[o]] = NoAddress] /\ UNCHANGED bounds
       \/ Fault /\ UNCHANGED rules
    /\ IF o = "delete" THEN Step(o, "deleted") ELSE Return(o)
    /\ UNCHANGED <<state, ip, pipe, imageReady, marks, history>>

\* containerIP: a container that does not run has no address.
ReadAddress(o) ==
    /\ At(o, "address")
    /\ \/ /\ state[on[o]] = "running"
          /\ addr' = [addr EXCEPT ![o] = ip[on[o]]]
          /\ Goto(o, "apply")
          /\ UNCHANGED <<on, token, saw, recovering, bounds>>
       \/ /\ IF state[on[o]] = "running" THEN Fault ELSE UNCHANGED bounds
          /\ Step(o, IF o = "create" THEN "mark remove" ELSE "mark stop")
    /\ UNCHANGED <<host, imageReady, marks, history>>

\* netrules.ApplyPolicy: the old rules come down, the new ones go in.
ApplyPolicy(o) ==
    /\ At(o, "apply")
    /\ \/ /\ rules' = [rules EXCEPT ![on[o]] = addr[o]]
          /\ loose' = loose \ {on[o]}
          /\ Step(o, "daemon") /\ UNCHANGED bounds
       \/ /\ Fault /\ UNCHANGED loose
          /\ \E left \in {NoAddress, rules[on[o]]} : rules' = [rules EXCEPT ![on[o]] = left]
          /\ Step(o, IF o = "create" THEN "mark remove" ELSE "mark stop")
    /\ UNCHANGED <<state, ip, pipe, imageReady, marks, owed, stray, lost>>

\* waitForDaemon: the daemon answers on the address, or the time is over.
WaitForDaemon(o) ==
    LET answers == state[on[o]] = "running" /\ ip[on[o]] = addr[o] IN
    /\ At(o, "daemon")
    /\ \/ /\ answers /\ UNCHANGED <<crashes, faults, ops>>
          /\ IF o = "create" THEN Return(o) /\ made' = made \cup {on[o]}
             ELSE Step(o, "clear") /\ UNCHANGED made
       \/ /\ IF answers THEN Fault ELSE UNCHANGED bounds
          /\ Step(o, IF o = "create" THEN "mark remove" ELSE "mark stop")
    /\ UNCHANGED <<host, imageReady, marks, history>>

-----------------------------------------------------------------------------
(* CreateSandbox, EnsureSandboxRunning, StopSandbox, DeleteSandbox.        *)

\* EnsureSandboxImage retries until the pull works.
PullImage ==
    /\ ~imageReady
    /\ imageReady' = TRUE
    /\ UNCHANGED <<host, marks, calls, bounds, history>>

\* createContainer.  The name is taken while a container of the id exists, and
\* the gateway's sandbox lock keeps a create and a delete of one id apart.
CreateContainer(c) ==
    /\ At("create", "idle") /\ At("delete", "idle") /\ imageReady
    /\ Found = {}
    /\ state[c] = "none" /\ \A d \in Containers : d < c => state[d] = "removed"
    /\ state' = [state EXCEPT ![c] = "created"]
    /\ Goto("create", "start")
    /\ on' = [on EXCEPT !["create"] = c]
    /\ UNCHANGED <<ip, rules, pipe, imageReady, marks, token, saw, addr, recovering,
                   bounds, history>>

\* startContainer in a create and in a wake.
StartContainer(o, a) ==
    LET c == on[o] IN
    /\ At(o, "start")
    /\ \/ /\ state[c] \in {"created", "exited"}
          /\ state' = [state EXCEPT ![c] = "running"]
          /\ ip' = [ip EXCEPT ![c] = a]
          /\ Step(o, "address") /\ UNCHANGED bounds
       \/ /\ state[c] = "running"
          /\ Step(o, "address") /\ UNCHANGED <<state, ip, bounds>>
       \/ /\ IF state[c] \in {"restarting", "removed"} THEN UNCHANGED bounds ELSE Fault
          /\ IF o = "create" THEN Step(o, "mark remove") ELSE Return(o)
          /\ UNCHANGED <<state, ip>>
    /\ UNCHANGED <<rules, pipe, imageReady, marks, history>>

\* ensureSandboxRunningOnce: find and inspect.
WakeInspect(c) ==
    /\ At("wake", "idle") /\ c \in Found \cap made
    /\ saw' = [saw EXCEPT !["wake"] = state[c]]
    /\ on' = [on EXCEPT !["wake"] = c]
    /\ Goto("wake", "decide")
    /\ UNCHANGED <<host, imageReady, marks, token, addr, recovering, bounds, history>>

\* What is left to do for a container in this state; one that is ready is not
\* started, and one that is restarting cannot be.
AfterInspect(seen) ==
    IF seen = "running" THEN "address" ELSE IF seen = "restarting" THEN "idle" ELSE "start"

\* wasRestarted is read after the inspect.
WakeDecide ==
    /\ At("wake", "decide")
    /\ IF restarted
       THEN /\ Goto("wake", "await") /\ recovering' = TRUE
            /\ UNCHANGED <<on, token, saw, addr>>
       ELSE IF saw["wake"] \in {"running", "restarting"} THEN Return("wake")
       ELSE Step("wake", "start")
    /\ UNCHANGED <<host, imageReady, marks, bounds, history>>

\* awaitContainerRestart polls until the container is settled.
AwaitContainerRestart ==
    LET s == state[on["wake"]] IN
    /\ At("wake", "await")
    /\ \/ /\ s \notin {"restarting", "removed"}
          /\ saw' = [saw EXCEPT !["wake"] = s]
          /\ Goto("wake", AfterInspect(s))
          /\ UNCHANGED <<on, token, addr, recovering, bounds>>
       \/ /\ IF s = "removed" THEN UNCHANGED bounds ELSE Fault
          /\ Return("wake")
    /\ UNCHANGED <<host, imageReady, marks, history>>

\* The sandbox is admitted again, and a recovery is reported to the client.
WakeReturns ==
    /\ At("wake", "clear")
    /\ restarted' = (restarted /\ ~recovering)
    /\ owed' = [owed EXCEPT ![on["wake"]] = @ /\ ~recovering]
    /\ Return("wake")
    /\ UNCHANGED <<host, imageReady, expected, expired, stopToken, bounds, stray, lost,
                   loose>>

\* Mutant: a container that Docker restarts gets a mark too.
StopStepAlways(seen) == "mark stop"

\* A pending restart is called off without a mark: its death was reported.
StopStep(seen) == IF seen = "restarting" THEN "stop" ELSE "mark stop"

\* StopSandboxContainer: find and inspect.
StopInspect(c) ==
    /\ At("stop", "idle") /\ c \in Found \cap made /\ ops < MaxOps
    /\ state[c] \in {"running", "restarting"}
    /\ ops' = ops + 1
    /\ saw' = [saw EXCEPT !["stop"] = state[c]]
    /\ on' = [on EXCEPT !["stop"] = c]
    /\ Goto("stop", StopStep(state[c]))
    /\ UNCHANGED <<host, imageReady, marks, token, addr, recovering, crashes, faults,
                   made, history>>

\* DeleteSandbox: find the container.
DeleteFind(c) ==
    /\ At("delete", "idle") /\ At("create", "idle") /\ c \in Found /\ ops < MaxOps
    /\ ops' = ops + 1
    /\ on' = [on EXCEPT !["delete"] = c]
    /\ Goto("delete", "mark remove")
    /\ UNCHANGED <<host, imageReady, marks, token, saw, addr, recovering, crashes, faults,
                   made, history>>

\* clearRestarted ends a delete.
DeleteReturns ==
    /\ At("delete", "deleted")
    /\ restarted' = FALSE
    /\ Return("delete")
    /\ UNCHANGED <<host, imageReady, expected, expired, stopToken, bounds, history>>

\* The runner restarts: its memory is lost, and New and Shutdown remove every
\* managed container with its rules (reconcileContainers).
RunnerRestarts ==
    /\ Fault
    /\ state' = [c \in Containers |-> IF Exists(c) THEN "removed" ELSE state[c]]
    /\ ip' = [c \in Containers |-> NoAddress]
    /\ rules' = [c \in Containers |-> IF Exists(c) THEN NoAddress ELSE rules[c]]
    /\ pipe' = <<>> /\ imageReady' = FALSE
    /\ expected' = [c \in Containers |-> 0] /\ expired' = [c \in Containers |-> FALSE]
    /\ stopToken' = 0 /\ restarted' = FALSE
    /\ pc' = [o \in Ops |-> "idle"] /\ on' = [o \in Ops |-> 0]
    /\ token' = [o \in Ops |-> 0] /\ saw' = [o \in Ops |-> "none"]
    /\ addr' = [o \in Ops |-> NoAddress] /\ recovering' = FALSE
    /\ owed' = [c \in Containers |-> FALSE] /\ stray' = {} /\ lost' = {} /\ loose' = {}

-----------------------------------------------------------------------------
Advance(o) ==
    \/ RecordStop(o) \/ StopNow(o) \/ RemoveNow(o) \/ StopFails(o) \/ Forget(o)
    \/ TeardownRules(o) \/ ReadAddress(o) \/ ApplyPolicy(o) \/ WaitForDaemon(o)
    \/ \E a \in Addresses : StartContainer(o, a)

WakeStep == Advance("wake") \/ WakeDecide \/ AwaitContainerRestart \/ WakeReturns

Wake == \E c \in Containers : WakeInspect(c)

Next ==
    \/ \E c \in Containers :
          \/ Crash(c) \/ MarkExpires(c) \/ CreateContainer(c)
          \/ StopInspect(c) \/ DeleteFind(c)
          \/ \E a \in Addresses : Restart(c, a)
    \/ Wake \/ WakeStep
    \/ \E o \in Ops \ {"wake"} : Advance(o)
    \/ DeleteReturns
    \/ HandleContainerDeath \/ StreamBreaks
    \/ PullImage \/ RunnerRestarts

Spec == Init /\ [][Next]_vars

-----------------------------------------------------------------------------
(* Properties.                                                             *)

\* The types of the containers, the marks and the operations' locals.
TypeOK ==
    /\ state \in [Containers -> {"none", "created", "running", "restarting", "exited",
                                 "removed"}]
    /\ ip \in [Containers -> Addresses \cup {NoAddress}]
    /\ \A c \in Containers : ip[c] # NoAddress <=> state[c] = "running"
    /\ rules \in [Containers -> Addresses \cup {NoAddress}]
    /\ expected \in [Containers -> 0..stopToken]
    /\ expired \in [Containers -> BOOLEAN]
    /\ restarted \in BOOLEAN /\ imageReady \in BOOLEAN /\ recovering \in BOOLEAN
    /\ on \in [Ops -> Containers \cup {0}]
    /\ token \in [Ops -> 0..stopToken]
    /\ owed \in [Containers -> BOOLEAN]

\* What DaemonURL's first read, of the mark, lets pass.  It inspects the container
\* later, so that it also hands out a process that Docker or a wake has started in
\* between: the properties speak of what the mark says, not of that window.
Admitted(c) == ~restarted /\ state[c] = "running"

\* Nothing is on its way that will settle what is known about c: an event, a
\* wake that starts it, or a delete.
Settled(c) ==
    /\ \A n \in 1..Len(pipe) : pipe[n].container # c
    /\ recovering \/ pc["wake"] \notin {"address", "apply", "mark stop", "stop", "forget"}
    /\ At("delete", "idle")

\* A sandbox that lost its memory in a crash is not served before a wake has told
\* the client, and only under rules that name its address (handleContainerDeath,
\* DaemonURL, ensureSandboxRunningOnce).  One crash of a container passes, and the
\* next is noticed again, when its event was lost with the stream, arrived while a
\* stop was in progress, met the mark of a stop that found the container already
\* dead, or arrived between the daemon's answer to a recovery and the clearing of
\* the mark.  Rules are stale after such a crash, and after a wake whose cleanup
\* failed too.
CrashesNoticed ==
    \A c \in made : Admitted(c) /\ Settled(c) =>
        /\ owed[c] => c \in lost
        /\ rules[c] # ip[c] => c \in lost \cup loose

\* While no call fails and the event stream does not break, a sandbox that crashed
\* is reported: once no call is in progress and every event has arrived, DaemonURL
\* admits it only if a wake has told the client (watchGuestDeaths).
OnlyStreamLossIsSilent ==
    (faults = 0 /\ pipe = <<>> /\ \A o \in Ops : At(o, "idle")) =>
        \A c \in made : Admitted(c) => ~owed[c]

\* The rules of a container come down only when it does not run
\* (removeContainerAndTeardownRules, cleanupWakeFailure).
RulesOutliveContainer ==
    [][\A c \in Containers :
          rules[c] # NoAddress /\ rules'[c] = NoAddress /\ ~At("wake", "apply")
          /\ ~At("create", "apply") => state'[c] # "running"]_vars
=============================================================================
