--------------------------- MODULE SandboxLifecycle ---------------------------
(***************************************************************************)
(* The life of one sandbox id as the API gateway sees it: its row in the   *)
(* store, the sandboxes the runners hold under that id, and the four kinds *)
(* of process that touch them.                                             *)
(*                                                                         *)
(*   - proxied requests (handlers.go, sandboxProxyHandler), which take no  *)
(*     lock and write the row when the runner's answer arrives;            *)
(*   - creates that name their id and deletes (handlers.go), which hold    *)
(*     LockSandbox for the whole handler;                                  *)
(*   - the idle sweeper (ttl.go), which lists candidates without the lock, *)
(*     then takes it and reads the row again;                              *)
(*   - the runners, which may fail a call, lose the API or restart.        *)
(*                                                                         *)
(* Time is kept as ages.  idle is the time since the row's LastActiveAt;   *)
(* age[p] is the time since the instant the handler p reads its clock (the *)
(* fence of a request, "now" of a create, "now" of a sweep).  A comparison *)
(* LastActiveAt <= now - d of the code is idle - age[p] >= d here.         *)
(***************************************************************************)
EXTENDS Integers, FiniteSets

CONSTANTS
  Clients,         \* handler goroutines of the API pods
  Sweeper,         \* the one sweep in progress (TryRun's advisory lock)
  Runners,         \* runners a sandbox can be placed on
  Nil,             \* no runner, no lock holder
  StopAfter,       \* cfg.IdleStopAfter in seconds, 0 disables
  DeleteAfter,     \* cfg.IdleDeleteAfter in seconds, 0 disables
  SafetyBuffer,    \* cfg.IdleDeleteSafetyBuffer
  Firecracker,     \* the runners' runtime: TRUE Firecracker, FALSE Docker
  MaxLatency,      \* bound: the age of a request stops counting there
  MaxCall,         \* bound: length of a sweep or of a locked handler
  MaxIdle,         \* bound: idle stops counting there
  MaxOps,          \* bound: client calls
  MaxFaults        \* bound: failed calls, lost replies, lost runners

(***************************************************************************)
(* The configuration loader makes the buffer positive when a window is     *)
(* (config.go 396-398), and StartIdleSweeper returns when both windows are *)
(* off.  Nothing bounds how long a proxied request may take.               *)
(***************************************************************************)
ASSUME LifecycleAssumption ==
  /\ StopAfter \in Nat /\ DeleteAfter \in Nat
  /\ StopAfter > 0 \/ DeleteAfter > 0
  /\ SafetyBuffer \in Nat \ {0}
  /\ MaxLatency \in Nat /\ MaxLatency >= SafetyBuffer
  /\ MaxCall \in Nat
  /\ MaxIdle \in Nat
  /\ MaxIdle >= StopAfter + SafetyBuffer + MaxCall
  /\ MaxIdle >= DeleteAfter + SafetyBuffer + MaxCall
  /\ MaxOps \in Nat /\ MaxFaults \in Nat
  /\ Firecracker \in BOOLEAN
  /\ Sweeper \notin Clients
  /\ Nil \notin Clients \cup Runners \cup {Sweeper}

VARIABLES
  status,    \* the row's status; "none" when the store has no row
  idle,      \* time since the row's LastActiveAt
  ephemeral, \* the row's Ephemeral
  host,      \* the row's runner
  vm,        \* per runner: what it holds under the id
  prior,     \* per runner: what it held when the delete in progress began
  link,      \* per runner: "linked", "lost", or "gone" long enough to reap
  lock,      \* holder of LockSandbox(id)
  pc,        \* where each handler stands
  op,        \* what it is doing
  target,    \* the runner it talks to, as read from the row
  age,       \* time since it read its clock
  ops,       \* client calls so far
  faults     \* faults so far

rowVars == <<status, idle, ephemeral, host>>
runnerVars == <<vm, prior, link>>
procVars == <<pc, op, target, age>>
vars == <<rowVars, runnerVars, lock, procVars, ops, faults>>

Procs == Clients \cup {Sweeper}

Statuses == {"none", "running", "stopped"}

RequestSteps == {"proxied", "served", "unserved", "gone", "marked"}

CreateSteps == {"place", "insert"}

DeleteSteps == {"delete", "deleting", "drop"}

SweepSteps ==
  {"stopPhase", "stopWait", "stopRpc", "stopSave",
   "deletePhase", "deleteWait", "ephemeralPhase", "ephemeralWait"}

Steps == {"idle"} \cup RequestSteps \cup CreateSteps \cup DeleteSteps
           \cup SweepSteps

Kinds == {"none", "exec", "execDelete", "create", "createEphemeral", "delete",
          "rollback", "stop", "idleDelete", "ephemeralDelete"}

\* The types of the row, of what the runners hold and of the handlers' locals; a
\* row names a runner exactly when there is one (SandboxRecord).
TypeOK ==
  /\ status \in Statuses
  /\ idle \in 0..MaxIdle
  /\ ephemeral \in BOOLEAN
  /\ host \in Runners \cup {Nil}
  /\ status = "none" <=> host = Nil
  /\ vm \in [Runners -> {"none", "running", "stopped", "deleting", "broken"}]
  /\ prior \in [Runners -> {"none", "running", "stopped", "broken"}]
  /\ link \in [Runners -> {"linked", "lost", "gone"}]
  /\ lock \in Procs \cup {Nil}
  /\ pc \in [Procs -> Steps]
  /\ op \in [Procs -> Kinds]
  /\ target \in [Procs -> Runners \cup {Nil}]
  /\ age \in [Procs -> 0..(MaxLatency + MaxCall)]
  /\ ops \in 0..MaxOps
  /\ faults \in 0..MaxFaults

Init ==
  /\ status = "none" /\ idle = 0 /\ ephemeral = FALSE /\ host = Nil
  /\ vm = [r \in Runners |-> "none"]
  /\ prior = [r \in Runners |-> "none"]
  /\ link = [r \in Runners |-> "linked"]
  /\ lock = Nil
  /\ pc = [p \in Procs |-> "idle"]
  /\ op = [p \in Procs |-> "none"]
  /\ target = [p \in Procs |-> Nil]
  /\ age = [p \in Procs |-> 0]
  /\ ops = 0 /\ faults = 0

Fault == faults < MaxFaults /\ faults' = faults + 1

NoFault == UNCHANGED faults

-----------------------------------------------------------------------------
(* Windows and cutoffs. *)

\* ephemeralIdleWindow.
EphemeralIdleWindow == IF StopAfter > 0 THEN StopAfter ELSE DeleteAfter

Window == IF ephemeral THEN EphemeralIdleWindow ELSE DeleteAfter

\* isPastIdleDeleteWindow: the fence of requests and of creates.
IsPastIdleDeleteWindow == Window > 0 /\ idle > Window

\* Mutant: a cutoff that forgets the buffer.
DeleteCutoffBare(window) == window

\* What a sweep deletes has been idle for its window and the buffer.
DeleteCutoff(window) == window + SafetyBuffer

\* rec.LastActiveAt <= now - cutoff, with the sweep's own "now".
IdleSince(cutoff) == idle - age[Sweeper] >= cutoff

-----------------------------------------------------------------------------
(* The store.  An UPDATE or a DELETE of a missing row does nothing. *)

Row == status # "none"

SetRow(s, i, e, h) ==
  status' = s /\ idle' = i /\ ephemeral' = e /\ host' = h

UpdateStatus(s) ==
  /\ status' = (IF Row THEN s ELSE "none")
  /\ UNCHANGED <<idle, ephemeral, host>>

UpdateLastActive ==
  idle' = 0 /\ UNCHANGED <<status, ephemeral, host>>

DeleteRow == SetRow("none", 0, FALSE, Nil)

\* One store statement, which may fail and then changes nothing.
Store(statement) ==
  \/ statement /\ NoFault
  \/ UNCHANGED rowVars /\ Fault

\* LockSandbox: a caller gets the lock once nobody holds it.
LockFree == lock = Nil

Unlock(p) == lock' = IF lock = p THEN Nil ELSE lock

-----------------------------------------------------------------------------
(* Handlers. *)

At(p, s) == pc[p] = s

Goto(p, s) == pc' = [pc EXCEPT ![p] = s]

\* Where a handler goes when its call is over: a sweep to its next phase.
AfterCall(kind) ==
  IF kind = "stop" THEN "deletePhase"
  ELSE IF kind = "idleDelete" THEN "ephemeralPhase"
  ELSE "idle"

Move(p, s) == Goto(p, s) /\ UNCHANGED <<op, target, age>>

Begin(p, s, kind, r) ==
  /\ Goto(p, s)
  /\ op' = [op EXCEPT ![p] = kind]
  /\ target' = [target EXCEPT ![p] = r]

Return(p) ==
  /\ Begin(p, AfterCall(op[p]), "none", Nil)
  /\ age' = [age EXCEPT ![p] = IF AfterCall(op[p]) = "idle" THEN 0 ELSE @]

\* The deferred unlock runs when the handler returns.
ReturnLocked(p) == Return(p) /\ Unlock(p)

\* A new client call.
Call(c) == At(c, "idle") /\ ops < MaxOps /\ ops' = ops + 1

Reachable(r) == link[r] = "linked"

\* The runner answers ErrSandboxNotFound: Firecracker also for a sandbox it is
\* deleting.
NotFound(r) == vm[r] = "none" \/ (vm[r] = "deleting" /\ Firecracker)

\* The runner knows the sandbox and can neither use, start nor stop it: the
\* remains of a failed delete, or a container Docker is removing.
NotUsable(r) == vm[r] = "broken" \/ (vm[r] = "deleting" /\ ~Firecracker)

-----------------------------------------------------------------------------
(* Proxied requests: sandboxProxyHandler and the runner's resolveDaemonURL. *)

\* Get, then the fence; a request past it is answered 404 and changes nothing.
Admit(c, kind) ==
  /\ Call(c)
  /\ Row /\ ~IsPastIdleDeleteWindow
  /\ Begin(c, "proxied", kind, host)
  /\ UNCHANGED <<rowVars, runnerVars, lock, age, faults>>

\* The daemon answers; a stopped sandbox is woken for any other request than an
\* execution DELETE.
Serve(c) ==
  LET r == target[c] IN
  /\ At(c, "proxied") /\ Reachable(r)
  /\ \/ vm[r] = "running"
     \/ vm[r] = "stopped" /\ op[c] = "exec"
  /\ vm' = [vm EXCEPT ![r] = "running"]
  /\ Move(c, "served")
  /\ UNCHANGED <<rowVars, prior, link, lock, ops>> /\ NoFault

\* writeExecutionGone: an execution DELETE on a sandbox that is not running
\* gets 204 without waking it.
ExecutionGone(c) ==
  /\ At(c, "proxied") /\ op[c] = "execDelete" /\ Reachable(target[c])
  /\ vm[target[c]] = "stopped" \/ NotUsable(target[c])
  /\ Move(c, "unserved")
  /\ UNCHANGED <<rowVars, runnerVars, lock, ops>> /\ NoFault

\* writeSandboxNotFound, with the header that says the sandbox is gone.
SandboxGone(c) ==
  /\ At(c, "proxied") /\ Reachable(target[c]) /\ NotFound(target[c])
  /\ Move(c, "gone")
  /\ UNCHANGED <<rowVars, runnerVars, lock, ops>> /\ NoFault

\* A 5xx: the runner cannot be reached or cannot start the sandbox, or the wake
\* or the daemon failed.
Unavailable(c) ==
  LET r == target[c] IN
  /\ At(c, "proxied")
  /\ IF ~Reachable(r) \/ (NotUsable(r) /\ op[c] = "exec")
       THEN NoFault ELSE Fault
  /\ Return(c)
  /\ UNCHANGED <<rowVars, runnerVars, lock, ops>>

\* markSandboxActive is two statements, without the lock: first last_active_at...
MarkLastActive(c) ==
  /\ pc[c] \in {"served", "unserved"}
  /\ Store(UpdateLastActive)
  /\ Move(c, "marked")
  /\ UNCHANGED <<runnerVars, lock, ops>>

\* ... then the status.
MarkRunning(c) ==
  /\ At(c, "marked")
  /\ Store(UpdateStatus("running"))
  /\ Return(c)
  /\ UNCHANGED <<runnerVars, lock, ops>>

\* reapSandboxIfRunnerGone: the row goes, whatever it says by now.
ReapSandboxIfRunnerGone(c) ==
  /\ At(c, "gone")
  /\ Store(DeleteRow)
  /\ Return(c)
  /\ UNCHANGED <<runnerVars, lock, ops>>

-----------------------------------------------------------------------------
(* Creates and deletes by id: handleCreateSandbox, handleDeleteSandbox.  The  *)
(* lock is taken and the row read in one step: until it has the lock a        *)
(* handler has done nothing.                                                  *)

\* An id whose sandbox is still within its window is answered with it and
\* nothing changes; a sandbox past it is deleted first.
CreateSandbox(c, kind) ==
  /\ Call(c) /\ LockFree
  /\ Row => IsPastIdleDeleteWindow
  /\ lock' = c
  /\ IF Row THEN Begin(c, "delete", kind, host)
            ELSE Begin(c, "place", kind, Nil)
  /\ UNCHANGED <<rowVars, runnerVars, age, faults>>

DeleteSandbox(c) ==
  /\ Call(c) /\ LockFree /\ Row
  /\ lock' = c
  /\ Begin(c, "delete", "delete", host)
  /\ UNCHANGED <<rowVars, runnerVars, age, faults>>

\* placeSandbox: a linked runner makes the sandbox.  The reply may be lost.
PlaceSandbox(c, r) ==
  /\ At(c, "place") /\ Reachable(r) /\ vm[r] = "none"
  /\ vm' = [vm EXCEPT ![r] = "running"]
  /\ \/ /\ Goto(c, "insert")
        /\ target' = [target EXCEPT ![c] = r]
        /\ UNCHANGED <<op, age, lock>> /\ NoFault
     \/ ReturnLocked(c) /\ Fault
  /\ UNCHANGED <<rowVars, prior, link, ops>>

\* The runner tried already holds the id, none is linked, or the create fails.
PlaceFails(c) ==
  /\ At(c, "place")
  /\ IF (\E r \in Runners : Reachable(r) /\ vm[r] # "none")
          \/ (\A r \in Runners : ~Reachable(r))
       THEN NoFault ELSE Fault
  /\ ReturnLocked(c)
  /\ UNCHANGED <<rowVars, runnerVars, ops>>

\* LastActiveAt is the instant read before the runner was called.
SaveRow(c) ==
  SetRow("running", age[c], op[c] = "createEphemeral", target[c])

InsertSandbox(c) ==
  /\ At(c, "insert")
  /\ SaveRow(c)
  /\ ReturnLocked(c)
  /\ UNCHANGED <<runnerVars, ops, faults>>

\* A failed insert, which may have saved the row all the same, is undone on the
\* runner (rollbackRunnerCreate).
InsertFails(c) ==
  /\ At(c, "insert") /\ Fault
  /\ SaveRow(c) \/ UNCHANGED rowVars
  /\ Begin(c, "delete", "rollback", target[c])
  /\ UNCHANGED <<runnerVars, lock, age, ops>>

-----------------------------------------------------------------------------
(* DeleteSandbox on the runner, called by creates, deletes and the sweep.     *)

\* A sandbox the runner does not find counts as deleted; the call fails when the
\* runner is out of reach or Docker is already removing the container.
CallDelete(p) ==
  LET r == target[p] IN
  /\ At(p, "delete")
  /\ \/ /\ ~Reachable(r) \/ (vm[r] = "deleting" /\ ~Firecracker)
        /\ ReturnLocked(p)
        /\ UNCHANGED <<vm, prior>>
     \/ /\ Reachable(r) /\ NotFound(r)
        /\ Move(p, "drop")
        /\ UNCHANGED <<vm, prior, lock>>
     \/ /\ Reachable(r) /\ vm[r] \in {"running", "stopped", "broken"}
        /\ vm' = [vm EXCEPT ![r] = "deleting"]
        /\ prior' = [prior EXCEPT ![r] = vm[r]]
        /\ Move(p, "deleting")
        /\ UNCHANGED lock
  /\ UNCHANGED <<rowVars, link, ops, faults>>

\* The runner works under its own budget, whatever becomes of the caller.
RunnerDeletes(r) ==
  /\ vm[r] = "deleting"
  /\ vm' = [vm EXCEPT ![r] = "none"]
  /\ prior' = [prior EXCEPT ![r] = "none"]
  /\ UNCHANGED <<rowVars, link, lock, procVars, ops, faults>>

\* Firecracker has killed the guest by the time a delete can fail.
RunnerDeleteFails(r) ==
  /\ vm[r] = "deleting" /\ Fault
  /\ vm' = [vm EXCEPT ![r] =
              IF prior[r] = "running" /\ Firecracker THEN "broken"
                                                     ELSE prior[r]]
  /\ prior' = [prior EXCEPT ![r] = "none"]
  /\ UNCHANGED <<rowVars, link, lock, procVars, ops>>

\* Mutant: an error of the runner counts as deleted.
DeleteReturnsDropping(p) ==
  /\ At(p, "deleting") /\ Reachable(target[p]) /\ vm[target[p]] # "deleting"
  /\ Move(p, "drop") /\ UNCHANGED lock
  /\ UNCHANGED <<rowVars, runnerVars, ops, faults>>

DeleteReturns(p) ==
  /\ At(p, "deleting") /\ Reachable(target[p]) /\ vm[target[p]] # "deleting"
  /\ IF vm[target[p]] = "none" THEN Move(p, "drop") /\ UNCHANGED lock
                               ELSE ReturnLocked(p)
  /\ UNCHANGED <<rowVars, runnerVars, ops, faults>>

\* The caller gives up: its client or its deadline is gone, or the link is.
AbandonDelete(p) ==
  /\ At(p, "deleting")
  /\ IF Reachable(target[p]) THEN Fault ELSE NoFault
  /\ ReturnLocked(p)
  /\ UNCHANGED <<rowVars, runnerVars, ops>>

\* The row follows the sandbox; a create goes on to place its own.
DropRow(p) ==
  /\ At(p, "drop")
  /\ \/ /\ op[p] \in {"create", "createEphemeral"}
        /\ DeleteRow /\ NoFault
        /\ Begin(p, "place", op[p], Nil)
        /\ age' = [age EXCEPT ![p] = 0]
        /\ UNCHANGED lock
     \/ /\ op[p] \in {"delete", "idleDelete", "ephemeralDelete"}
        /\ DeleteRow /\ NoFault
        /\ ReturnLocked(p)
     \/ /\ op[p] = "rollback"
        /\ UNCHANGED rowVars /\ NoFault
        /\ ReturnLocked(p)
     \/ /\ op[p] # "rollback"
        /\ UNCHANGED rowVars /\ Fault
        /\ ReturnLocked(p)
  /\ UNCHANGED <<runnerVars, ops>>

-----------------------------------------------------------------------------
(* The idle sweeper: sweepIdleSandboxes and its three phases.  Each phase     *)
(* lists its candidates, then locks the sandbox, reads the row again and acts *)
(* on it (withLockedSandbox).                                                 *)

\* Mutant: no replica ever gets the sweep's advisory lock.
NoSweep == FALSE

\* sweepIdleSandboxes begins, under TryRun's lock.
StartSweep ==
  /\ At(Sweeper, "idle")
  /\ Move(Sweeper, "stopPhase")
  /\ UNCHANGED <<rowVars, runnerVars, lock, ops, faults>>

\* Mutant: a list that forgets the ephemeral column.
ListForIdleReapStopAny(cutoff, wantEphemeral) ==
  status = "running" /\ IdleSince(cutoff)

\* ListForIdleReapStop.
ListForIdleReapStop(cutoff, wantEphemeral) ==
  status = "running" /\ IdleSince(cutoff) /\ ephemeral = wantEphemeral

ListForIdleReapDelete(cutoff) ==
  status = "stopped" /\ IdleSince(cutoff)

\* One phase's listing: on to its candidate, or to the next phase.  A failed
\* query ends the phase.
ListPhase(phase, candidate, wait, next) ==
  /\ At(Sweeper, phase)
  /\ \/ candidate /\ Goto(Sweeper, wait) /\ UNCHANGED age /\ NoFault
     \/ /\ Goto(Sweeper, next)
        /\ age' = [age EXCEPT ![Sweeper] = IF next = "idle" THEN 0 ELSE @]
        /\ IF candidate THEN Fault ELSE NoFault
  /\ UNCHANGED <<rowVars, runnerVars, lock, op, target, ops>>

SweepIdleStop ==
  ListPhase("stopPhase",
            StopAfter > 0 /\ ListForIdleReapStop(StopAfter, FALSE),
            "stopWait", "deletePhase")

SweepIdleDelete ==
  ListPhase("deletePhase",
            DeleteAfter > 0 /\ ListForIdleReapDelete(DeleteCutoff(DeleteAfter)),
            "deleteWait", "ephemeralPhase")

SweepEphemeral ==
  ListPhase("ephemeralPhase",
            ListForIdleReapStop(DeleteCutoff(EphemeralIdleWindow), TRUE),
            "ephemeralWait", "idle")

\* orphanReapDue: the row's runner has been gone for the reap buffer.
OrphanReapDue == host # Nil /\ link[host] = "gone"

\* withLockedSandbox: act if the row, read again, is still due.
Locked(wait, due, kind, rpc) ==
  /\ At(Sweeper, wait) /\ LockFree
  /\ IF due /\ ~OrphanReapDue
       THEN /\ lock' = Sweeper
            /\ Begin(Sweeper, rpc, kind, host)
            /\ UNCHANGED <<rowVars, age>> /\ NoFault
       ELSE /\ Goto(Sweeper, AfterCall(kind))
            /\ age' = [age EXCEPT ![Sweeper] =
                         IF AfterCall(kind) = "idle" THEN 0 ELSE @]
            /\ IF due THEN Store(DeleteRow) ELSE UNCHANGED rowVars /\ NoFault
            /\ UNCHANGED <<op, target, lock>>
  /\ UNCHANGED <<runnerVars, ops>>

LockForStop ==
  Locked("stopWait", status = "running" /\ IdleSince(StopAfter),
         "stop", "stopRpc")

LockForIdleDelete ==
  Locked("deleteWait",
         status = "stopped" /\ IdleSince(DeleteCutoff(DeleteAfter)),
         "idleDelete", "delete")

LockForEphemeral ==
  Locked("ephemeralWait",
         status = "running" /\ IdleSince(DeleteCutoff(EphemeralIdleWindow)),
         "ephemeralDelete", "delete")

\* StopSandbox on the runner.  A sandbox that is stopped already or not found
\* counts as stopped; a stop that fails has stopped the guest or not.
StopSandbox ==
  LET r == target[Sweeper] IN
  /\ At(Sweeper, "stopRpc")
  /\ \/ /\ Reachable(r) /\ ~NotUsable(r)
        /\ vm' = [vm EXCEPT ![r] = IF @ = "running" THEN "stopped" ELSE @]
        /\ Move(Sweeper, "stopSave")
        /\ NoFault /\ UNCHANGED lock
     \/ /\ Reachable(r) /\ vm[r] = "running"
        /\ \E after \in {"running", "stopped"} :
             vm' = [vm EXCEPT ![r] = after]
        /\ ReturnLocked(Sweeper)
        /\ Fault
     \/ /\ ~Reachable(r) \/ NotUsable(r)
        /\ ReturnLocked(Sweeper)
        /\ NoFault /\ UNCHANGED vm
  /\ UNCHANGED <<rowVars, prior, link, ops>>

SaveStopped ==
  /\ At(Sweeper, "stopSave")
  /\ Store(UpdateStatus("stopped"))
  /\ ReturnLocked(Sweeper)
  /\ UNCHANGED <<runnerVars, ops>>

-----------------------------------------------------------------------------
(* Runners and time. *)

\* A guest dies; the runner keeps the sandbox, to be started again.
GuestDies(r) ==
  /\ vm[r] = "running" /\ Fault
  /\ vm' = [vm EXCEPT ![r] = "stopped"]
  /\ UNCHANGED <<rowVars, prior, link, lock, procVars, ops>>

\* The API loses a runner: a partition, or a restart, whose startup reconcile
\* removes every sandbox.
RunnerLost(r) ==
  /\ link[r] = "linked" /\ Fault
  /\ link' = [link EXCEPT ![r] = "lost"]
  /\ \/ UNCHANGED <<vm, prior>>
     \/ /\ vm' = [vm EXCEPT ![r] = "none"]
        /\ prior' = [prior EXCEPT ![r] = "none"]
  /\ UNCHANGED <<rowVars, lock, procVars, ops>>

\* GoneLongEnough: the reap buffer has passed since the runner was lost.
GoneLongEnough(r) ==
  /\ link[r] = "lost"
  /\ link' = [link EXCEPT ![r] = "gone"]
  /\ UNCHANGED <<rowVars, vm, prior, lock, procVars, ops, faults>>

RunnerBack(r) ==
  /\ link[r] # "linked"
  /\ link' = [link EXCEPT ![r] = "linked"]
  /\ UNCHANGED <<rowVars, vm, prior, lock, procVars, ops, faults>>

Busy(p) == pc[p] # "idle"

\* A second passes.
Tick ==
  /\ \A p \in Procs : Busy(p) /\ pc[p] \notin RequestSteps => age[p] < MaxCall
  /\ idle' = IF Row /\ idle < MaxIdle THEN idle + 1 ELSE idle
  /\ age' = [p \in Procs |->
       IF Busy(p) /\ (pc[p] \in RequestSteps => age[p] < MaxLatency)
         THEN age[p] + 1 ELSE age[p]]
  /\ UNCHANGED <<status, ephemeral, host, runnerVars, lock, pc, op, target,
                 ops, faults>>

-----------------------------------------------------------------------------
RequestStep(c) ==
  \/ Serve(c) \/ ExecutionGone(c) \/ SandboxGone(c) \/ Unavailable(c)
  \/ MarkLastActive(c) \/ MarkRunning(c) \/ ReapSandboxIfRunnerGone(c)

CreateStep(c) ==
  \/ \E r \in Runners : PlaceSandbox(c, r)
  \/ PlaceFails(c) \/ InsertSandbox(c) \/ InsertFails(c)

DeleteStep(p) ==
  CallDelete(p) \/ DeleteReturns(p) \/ AbandonDelete(p) \/ DropRow(p)

ClientCall(c) ==
  \/ \E kind \in {"exec", "execDelete"} : Admit(c, kind)
  \/ \E kind \in {"create", "createEphemeral"} : CreateSandbox(c, kind)
  \/ DeleteSandbox(c)

SweepStep ==
  \/ StartSweep
  \/ SweepIdleStop \/ SweepIdleDelete \/ SweepEphemeral
  \/ LockForStop \/ LockForIdleDelete \/ LockForEphemeral
  \/ StopSandbox \/ SaveStopped

RunnerStep(r) ==
  \/ RunnerDeletes(r) \/ RunnerDeleteFails(r) \/ GuestDies(r)
  \/ RunnerLost(r) \/ GoneLongEnough(r) \/ RunnerBack(r)

Next ==
  \/ \E c \in Clients : ClientCall(c) \/ RequestStep(c) \/ CreateStep(c)
  \/ \E p \in Procs : DeleteStep(p)
  \/ SweepStep
  \/ \E r \in Runners : RunnerStep(r)
  \/ Tick

Spec == Init /\ [][Next]_vars

\* Handlers, the sweep's ticker and the runners keep running, and time passes.
\* Clients may stop calling, and a runner may stay away.
FairSpec ==
  /\ Spec
  /\ \A c \in Clients : WF_vars(RequestStep(c) \/ CreateStep(c) \/ DeleteStep(c))
  /\ WF_vars(SweepStep \/ DeleteStep(Sweeper))
  /\ \A r \in Runners : WF_vars(RunnerDeletes(r)) /\ WF_vars(GoneLongEnough(r))
  /\ WF_vars(Tick)

-----------------------------------------------------------------------------
(* Properties. *)

(***************************************************************************)
(* An ephemeral sandbox never has status "stopped" (store.go, Ephemeral).  *)
(* The stop phase filters the list on it but not the row it reads again    *)
(* under the lock, so this rests on every row inserted since the list      *)
(* being too young for the phase's cutoff.                                 *)
(***************************************************************************)
EphemeralNeverStopped == ephemeral => status # "stopped"

SweepDeletes == pc[Sweeper] \in {"delete", "deleting"}

(***************************************************************************)
(* The race guard: when the sweep decides on the irreversible delete, every *)
(* request still on its way passed the fence at least the safety buffer     *)
(* earlier, although requests take no lock, other requests mark the row     *)
(* active, and the sweep's "now" is that of its start.  Slower requests can *)
(* be cut off; a newer one never is.                                        *)
(***************************************************************************)
IdleDeleteSparesRequests ==
  [][~SweepDeletes /\ SweepDeletes' =>
       \A c \in Clients : pc[c] \in RequestSteps => age[c] >= SafetyBuffer]_vars

\* The sandbox the row names is one its runner could still use.
HostsSandbox == Row /\ host # Nil /\ vm[host] \in {"running", "stopped", "broken"}

(***************************************************************************)
(* The lock makes "delete on the runner, then in the store" one operation: *)
(* no locked handler takes away the row of a sandbox a runner still holds, *)
(* the one a concurrent create has just made included.  Only a reap of a   *)
(* lost runner's row and the unlocked reap of a request may.               *)
(***************************************************************************)
RowOutlivesSandbox ==
  [][HostsSandbox /\ status' = "none" =>
       \/ link[host] = "gone"
       \/ \E c \in Clients : pc[c] = "gone" /\ pc'[c] = "idle"]_vars

(***************************************************************************)
(* Once clients stop calling, every row is removed: the idle windows, the  *)
(* retries of failed calls and the orphan reap together leave nothing.     *)
(***************************************************************************)
IdleSandboxesReclaimed == Row ~> ~Row

(***************************************************************************)
(* "A failed delete keeps its slot because the API retries deletes every   *)
(* sweep" (firecracker.ee/README.md): what a failed delete leaves behind   *)
(* is deleted in the end.                                                  *)
(***************************************************************************)
FailedDeleteRetried ==
  \A r \in Runners : vm[r] = "broken" ~> vm[r] # "broken"

================================================================================
