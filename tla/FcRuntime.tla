----------------------------- MODULE FcRuntime -----------------------------
(***************************************************************************)
(* The Firecracker runtime of a runner (internal/runner/runtime/           *)
(* firecracker.ee): slots, the per-sandbox transition claim, the microVM   *)
(* and its host resources, the slot wirer, guest deaths and Shutdown.      *)
(*                                                                         *)
(* A goroutine that runs a lifecycle operation is a thread.  One step of a *)
(* thread is one critical section under r.mu, or one host call, so every   *)
(* interleaving of the code's lock sections and host commands is a         *)
(* behaviour.  A sandboxState is an incarnation, numbered in the order of  *)
(* creation: the code compares *sandboxState pointers, and an id that was  *)
(* deleted and created again is a new incarnation of the same id.          *)
(***************************************************************************)
EXTENDS Integers, FiniteSets

CONSTANTS
    Ids,            \* sandbox ids
    Threads,        \* goroutines that run lifecycle operations
    Capacity,       \* len(r.slots)
    MaxIncarnations,\* bound: sandboxState objects ever created
    MaxOps,         \* bound: operations ever started
    MaxFaults,      \* bound: host calls that fail
    MaxCrashes,     \* bound: guests that die on their own
    MayShutdown,    \* whether Shutdown may be called
    Nil             \* the empty sandbox id of a free slot, the free netMu

ASSUME ConstantsAssumption ==
    /\ Capacity \in Nat \ {0}
    /\ MaxIncarnations \in Nat
    /\ MaxOps \in Nat
    /\ MaxFaults \in Nat
    /\ MaxCrashes \in Nat
    /\ MayShutdown \in BOOLEAN
    /\ Ids # {}
    /\ Nil \notin Ids
    /\ Nil \notin Threads

Slots == 0 .. Capacity - 1
NoSlot == -1                      \* no slot, no proxy
NoProcess == -1                   \* a nil process handle
Incarnations == 1 .. MaxIncarnations
NoIncarnation == 0                \* an id r.sandboxes does not hold

Labels ==
    {"idle",
     "cloneAssets", "prepareJail", "setupNetwork", "readGeneration",
     "startJailer", "publishProcess", "waitForSocket", "startGuest",
     "newProxy", "publishProxy", "probeDaemon", "activated",
     "stop", "pauseVM", "createSnapshot", "unpin", "resumeVM", "released",
     "wake", "reserveWakeSlot",
     "claimDeath", "checkStale",
     "delete", "removeDataDir", "deleted", "untrack",
     "teardown", "kill", "clearSlot", "cleanupScript",
     "nextDelete", "endTransition"}

VARIABLES
    \* Runtime, under r.mu
    sandboxes,  \* r.sandboxes: id -> incarnation, or NoIncarnation
    slots,      \* r.slots[_].sandboxID
    wireCh,     \* r.wireCh holds a token
    \* slotState, under the slot's netMu, and the namespace on the host
    wired,      \* slot -> slotState.wired
    netMu,      \* slot -> the thread clearing it, or Nil
    netns,      \* slot -> the named namespace
    wirerPc, wirerSlot,     \* the wireSlots loop
    \* sandboxState, by incarnation
    made,       \* incarnations created so far
    idOf, blockEgress,      \* fixed at creation
    slot,       \* state.slot
    url,        \* netnsName and daemonURL: the slot they were derived from
    process,    \* the process handle: the generation its callback captured
    proxy,      \* the proxy handle: the slot whose port it listens on
    generation, running, stopped, transition, mustColdBoot,
    \* the host
    guests,     \* live Firecracker processes
    exits,      \* processes that exited, whose onExit has not run yet
    ports,      \* slot -> the incarnation whose proxy listens on its port
    jails,      \* ids whose jail directory holds bind mounts
    disk,       \* id -> the snapshot files against the rootfs beside them
    \* threads: program counter, operation, the sandboxState held, and locals
    pc, op, inc,
    died,       \* the incarnation whose death is handled
    captured,   \* the generation captured by an activation or a death
    coldBoot,   \* which way startGuest goes
    takenProcess, takenProxy, takenSlot,    \* what a teardown took
    failed,     \* a step of deleteSandbox failed
    toDelete,   \* the incarnations Shutdown still has to delete
    phase,      \* "up", then "shutdown" while Shutdown runs, then "exited"
    deaths,     \* history: the exits recordGuestDeath counted
    killed,     \* history: the processes the runner killed
    lateWakes,  \* history: incarnations that a wake claimed after Shutdown began
    ops, faults, crashes    \* what is left of the bounds

registry == <<sandboxes, slots, wireCh>>
network == <<wired, netMu, netns>>
wirer == <<wirerPc, wirerSlot>>
identity == <<made, idOf, blockEgress>>
place == <<slot, url>>
handles == <<process, proxy, generation>>
status == <<running, stopped, transition, mustColdBoot>>
sandbox == <<identity, place, handles, status>>
host == <<guests, exits, ports, jails, disk>>
taken == <<takenProcess, takenProxy, takenSlot>>
locals == <<op, inc, died, captured, coldBoot, taken, failed>>
ending == <<toDelete, phase>>
history == <<deaths, killed, lateWakes>>
bounds == <<ops, faults, crashes>>
vars == <<registry, network, wirer, sandbox, host, pc, locals, ending,
          history, bounds>>

(***************************************************************************)
(* A live Firecracker process.  netns is the slot whose named namespace it *)
(* is in, or NoSlot once that name was deleted or given to a new namespace *)
(* (the kernel keeps the old one alive for the process).                   *)
(***************************************************************************)
Guests == [inc : Incarnations, generation : Nat,
           netns : Slots \cup {NoSlot}, run : {"booting", "running", "paused"}]
Guest(i, n, s, run) == [inc |-> i, generation |-> n, netns |-> s, run |-> run]

-----------------------------------------------------------------------------
(* Helpers.                                                                *)

At(t, label) == pc[t] = label /\ phase # "exited"
Goto(t, label) == pc' = [pc EXCEPT ![t] = label]

\* A thread is free again once its operation returns.
Return(t) ==
    /\ pc' = [pc EXCEPT ![t] = "idle"]
    /\ op' = [op EXCEPT ![t] = "none"]
    /\ inc' = [inc EXCEPT ![t] = NoIncarnation]
    /\ died' = [died EXCEPT ![t] = NoIncarnation]
    /\ captured' = [captured EXCEPT ![t] = 0]
    /\ coldBoot' = [coldBoot EXCEPT ![t] = FALSE]
    /\ takenProcess' = [takenProcess EXCEPT ![t] = NoProcess]
    /\ takenProxy' = [takenProxy EXCEPT ![t] = NoSlot]
    /\ takenSlot' = [takenSlot EXCEPT ![t] = NoSlot]
    /\ failed' = [failed EXCEPT ![t] = FALSE]

\* A host call succeeds, or one of the bounded failures is spent on it.
Succeeds == faults' = faults
Fails == faults > 0 /\ faults' = faults - 1

\* current == state: the map still holds this incarnation.
Tracked(i) == sandboxes[idOf[i]] = i

\* state.deleting()
Deleting(i) == transition[i] = "deleting"

\* Mutant: the ownership is not rechecked.
ActivationNeverAbandoned(i) == FALSE

\* activationAbandonedLocked
ActivationAbandoned(i) == ~Tracked(i) \/ Deleting(i)

\* reserveSlotLocked picks the first free slot.
FreeSlots == {s \in Slots : slots[s] = Nil}
FirstFree(s) == s \in FreeSlots /\ \A other \in FreeSlots : s <= other

\* Mutant: the slot is never handed back.
ReleaseSlotKept(i) == UNCHANGED <<slots, wireCh>>

\* Mutant: the wirer is not woken.
ReleaseSlotSilently(i) ==
    IF slot[i] # NoSlot /\ slots[slot[i]] = idOf[i]
    THEN slots' = [slots EXCEPT ![slot[i]] = Nil] /\ UNCHANGED wireCh
    ELSE UNCHANGED <<slots, wireCh>>

\* slotOwnedByLocked guarding releaseSlotLocked: the slot goes back and the
\* wirer is woken, unless the slot is no longer reserved for this id.
ReleaseSlot(i) ==
    IF slot[i] # NoSlot /\ slots[slot[i]] = idOf[i]
    THEN slots' = [slots EXCEPT ![slot[i]] = Nil] /\ wireCh' = TRUE
    ELSE UNCHANGED <<slots, wireCh>>

\* The Firecracker process behind the API socket of an id's jail.
GuestAt(g, id) == g \in guests /\ idOf[g.inc] = id
HasGuest(id, runs) == \E g \in guests : GuestAt(g, id) /\ g.run \in runs
SetRun(g, run) ==
    guests' = (guests \ {g}) \cup {Guest(g.inc, g.generation, g.netns, run)}

\* Deleting a slot's namespace leaves a guest still inside it isolated.
Isolate(s) == {IF g.netns = s THEN Guest(g.inc, g.generation, NoSlot, g.run)
                              ELSE g : g \in guests}

-----------------------------------------------------------------------------
Init ==
    /\ sandboxes = [id \in Ids |-> NoIncarnation]
    /\ slots = [s \in Slots |-> Nil]
    /\ wireCh = FALSE
    /\ wired = [s \in Slots |-> FALSE]
    /\ netMu = [s \in Slots |-> Nil]
    /\ netns = [s \in Slots |-> "absent"]
    /\ wirerPc = "scan" /\ wirerSlot = 0
    /\ made = 0
    /\ idOf = [i \in Incarnations |-> CHOOSE id \in Ids : TRUE]
    /\ blockEgress = [i \in Incarnations |-> FALSE]
    /\ slot = [i \in Incarnations |-> NoSlot]
    /\ url = [i \in Incarnations |-> 0]
    /\ process = [i \in Incarnations |-> NoProcess]
    /\ proxy = [i \in Incarnations |-> NoSlot]
    /\ generation = [i \in Incarnations |-> 0]
    /\ running = [i \in Incarnations |-> FALSE]
    /\ stopped = [i \in Incarnations |-> FALSE]
    /\ transition = [i \in Incarnations |-> "none"]
    /\ mustColdBoot = [i \in Incarnations |-> FALSE]
    /\ guests = {} /\ exits = {}
    /\ ports = [s \in Slots |-> NoIncarnation]
    /\ jails = {}
    /\ disk = [id \in Ids |-> "absent"]
    /\ pc = [t \in Threads |-> "idle"]
    /\ op = [t \in Threads |-> "none"]
    /\ inc = [t \in Threads |-> NoIncarnation]
    /\ died = [t \in Threads |-> NoIncarnation]
    /\ captured = [t \in Threads |-> 0]
    /\ coldBoot = [t \in Threads |-> FALSE]
    /\ takenProcess = [t \in Threads |-> NoProcess]
    /\ takenProxy = [t \in Threads |-> NoSlot]
    /\ takenSlot = [t \in Threads |-> NoSlot]
    /\ failed = [t \in Threads |-> FALSE]
    /\ toDelete = {} /\ phase = "up"
    /\ deaths = {} /\ killed = {} /\ lateWakes = {}
    /\ ops = MaxOps /\ faults = MaxFaults /\ crashes = MaxCrashes

-----------------------------------------------------------------------------
(* CreateSandbox up to its activation.                                     *)

\* reserveSandbox.  Its refusals (duplicate id, unreadable assets, disk floor,
\* no free slot) change nothing.  block is the sandbox's egress "none" mode.
\* The control server is stopped before Shutdown is called, so no create starts
\* then; a stop, wake or delete that was waiting for a claim still can.
ReserveSandbox(t, id, block) ==
    LET i == made + 1 IN
    /\ At(t, "idle")
    /\ phase = "up"
    /\ ops > 0
    /\ made < MaxIncarnations
    /\ sandboxes[id] = NoIncarnation
    /\ \E s \in Slots :
        /\ FirstFree(s)
        /\ slots' = [slots EXCEPT ![s] = id]
        /\ slot' = [slot EXCEPT ![i] = s]
        /\ url' = [url EXCEPT ![i] = s]
    /\ sandboxes' = [sandboxes EXCEPT ![id] = i]
    /\ made' = i
    /\ idOf' = [idOf EXCEPT ![i] = id]
    /\ blockEgress' = [blockEgress EXCEPT ![i] = block]
    /\ transition' = [transition EXCEPT ![i] = "creating"]
    /\ Goto(t, "cloneAssets")
    /\ op' = [op EXCEPT ![t] = "create"]
    /\ inc' = [inc EXCEPT ![t] = i]
    /\ ops' = ops - 1
    /\ UNCHANGED <<wireCh, network, wirer, handles, running, stopped,
                   mustColdBoot, host, died, captured, coldBoot, taken,
                   failed, ending, history, faults, crashes>>

\* cloneRootfs and cloneGoldenSnapshot: the new rootfs and the golden snapshot
\* describe the same moment.  A failure goes to cleanupOnError.
CloneAssets(t) ==
    LET id == idOf[inc[t]] IN
    /\ At(t, "cloneAssets")
    /\ \/ /\ Succeeds
          /\ disk' = [disk EXCEPT ![id] = "match"]
          /\ Goto(t, "prepareJail")
       \/ /\ Fails
          /\ disk' = [disk EXCEPT ![id] = "stale"]
          /\ Goto(t, "delete")
    /\ UNCHANGED <<registry, network, wirer, sandbox, guests, exits, ports,
                   jails, locals, ending, history, ops, crashes>>

-----------------------------------------------------------------------------
(* activateSandboxVM, shared by create and wake.  A failed activation is   *)
(* deleted by a create's cleanupOnError and torn down by a wake's rollback. *)

\* Mutant: a failed wake releases its slot without a teardown.
RollbackWithoutTeardown(t) == IF op[t] = "create" THEN "delete" ELSE "released"

Rollback(t) == IF op[t] = "create" THEN "delete" ELSE "teardown"

\* prepareJail mounts the sandbox's files, so it needs its data dir.  A
\* failing script may have mounted some of them.
PrepareJail(t) ==
    LET id == idOf[inc[t]] IN
    /\ At(t, "prepareJail")
    /\ jails' = jails \cup {id}
    /\ \/ /\ disk[id] # "absent"
          /\ Succeeds
          /\ Goto(t, "setupNetwork")
       \/ /\ IF disk[id] = "absent" THEN Succeeds ELSE Fails
          /\ Goto(t, Rollback(t))
    /\ UNCHANGED <<registry, network, wirer, sandbox, guests, exits, ports,
                   disk, locals, ending, history, ops, crashes>>

\* Mutant: setupNetwork returns early on a slot that was pre-wired.
EgressOfUnwired(s, block) ==
    IF wired[s] THEN netns[s] ELSE IF block THEN "blocked" ELSE "default"

\* The namespace setupNetwork leaves behind: the DROP is added to a pre-wired
\* one as well.
EgressOf(s, block) ==
    IF block THEN "blocked" ELSE IF wired[s] THEN netns[s] ELSE "default"

\* setupNetwork under the slot's netMu: the build of an unwired slot, which
\* first deletes what the slot's names still hold, then the egress DROP.
\* done says whether it succeeded.
SetupNetwork(s, block, done) ==
    /\ netMu[s] = Nil
    /\ \/ /\ done
          /\ Succeeds
          /\ wired' = [wired EXCEPT ![s] = TRUE]
          /\ netns' = [netns EXCEPT ![s] = EgressOf(s, block)]
          /\ guests' = IF wired[s] THEN guests ELSE Isolate(s)
       \/ \* ensureHostNATReady or SetupScript fails
          /\ ~done
          /\ ~wired[s]
          /\ Fails
          /\ netns' = [netns EXCEPT ![s] = "unknown"]
          /\ guests' = Isolate(s)
          /\ UNCHANGED wired
       \/ \* BlockEgressScript fails on a built namespace
          /\ ~done
          /\ block
          /\ Fails
          /\ wired' = [wired EXCEPT ![s] = TRUE]
          /\ netns' = [netns EXCEPT ![s] = EgressOf(s, FALSE)]
          /\ guests' = IF wired[s] THEN guests ELSE Isolate(s)

\* An activation keeps its slot to its end unless Shutdown lost its claim; a
\* slot of -1 would end the process with an index panic.
ActivateNetwork(t) ==
    /\ At(t, "setupNetwork")
    /\ slot[inc[t]] \in Slots
    /\ \E done \in BOOLEAN :
        /\ SetupNetwork(slot[inc[t]], blockEgress[inc[t]], done)
        /\ Goto(t, IF done THEN "readGeneration" ELSE Rollback(t))
    /\ UNCHANGED <<registry, netMu, wirer, sandbox, exits, ports, jails, disk,
                   locals, ending, history, ops, crashes>>

\* The generation the exit callback will carry.
ReadGeneration(t) ==
    /\ At(t, "readGeneration")
    /\ captured' = [captured EXCEPT ![t] = generation[inc[t]]]
    /\ Goto(t, "startJailer")
    /\ UNCHANGED <<registry, network, wirer, sandbox, host, op, inc, died,
                   coldBoot, taken, failed, ending, history, bounds>>

\* startJailer: the process joins the namespace that netnsName names.
StartJailer(t) ==
    LET s == url[inc[t]]
        named == netns[s] \in {"default", "blocked"}
    IN
    /\ At(t, "startJailer")
    /\ \/ /\ named
          /\ Succeeds
          /\ guests' = guests \cup
                {Guest(inc[t], captured[t], s, "booting")}
          /\ Goto(t, "publishProcess")
       \/ /\ IF named THEN Fails ELSE Succeeds
          /\ UNCHANGED guests
          /\ Goto(t, Rollback(t))
    /\ UNCHANGED <<registry, network, wirer, sandbox, exits, ports, jails,
                   disk, locals, ending, history, ops, crashes>>

\* The handle is published before the ownership is rechecked, so that the
\* rollback of an abandoned activation finds the process and kills it.
PublishProcess(t) ==
    /\ At(t, "publishProcess")
    /\ process' = [process EXCEPT ![inc[t]] = captured[t]]
    /\ Goto(t, IF ActivationAbandoned(inc[t]) THEN Rollback(t)
                                               ELSE "waitForSocket")
    /\ UNCHANGED <<registry, network, wirer, identity, place, proxy,
                   generation, status, host, locals, ending, history, bounds>>

\* Mutant: the pin is left to the end of the activation.
PinLate(i) == UNCHANGED mustColdBoot

\* The snapshot may not be restored again.
Pin(i) == mustColdBoot' = [mustColdBoot EXCEPT ![i] = TRUE]

\* waitForSocket, then the first half of startGuest: the pin decides between
\* restore and cold boot, and is set before the request.
PinGuest(t) ==
    /\ At(t, "waitForSocket")
    /\ \/ /\ Succeeds
          /\ coldBoot' = [coldBoot EXCEPT ![t] = mustColdBoot[inc[t]]]
          /\ Pin(inc[t])
          /\ Goto(t, "startGuest")
       \/ /\ Fails
          /\ Goto(t, Rollback(t))
          /\ UNCHANGED <<coldBoot, mustColdBoot>>
    /\ UNCHANGED <<registry, network, wirer, identity, place, handles,
                   running, stopped, transition, host, op, inc, died,
                   captured, taken, failed, ending, history, ops, crashes>>

\* The second half of startGuest: one request resumes the guest from its
\* snapshot, or boots it from its rootfs.  From then on the guest writes to
\* the rootfs, so the snapshot no longer describes it.  The request can take
\* effect and still be reported as failed; verifyKernelPin and a guest that
\* already died fail it without effect.
StartGuest(t) ==
    LET id == idOf[inc[t]]
        ready == coldBoot[t] \/ disk[id] # "absent"
        resume(g) == /\ GuestAt(g, id)
                     /\ g.run = "booting"
                     /\ SetRun(g, "running")
                     /\ disk' = [disk EXCEPT ![id] = "stale"]
    IN
    /\ At(t, "startGuest")
    /\ \/ /\ ready
          /\ Succeeds
          /\ \E g \in guests : resume(g)
          /\ Goto(t, "newProxy")
       \/ /\ ready
          /\ Fails
          /\ \E g \in guests : resume(g)
          /\ Goto(t, Rollback(t))
       \/ /\ IF ready /\ HasGuest(id, {"booting"}) THEN Fails ELSE Succeeds
          /\ Goto(t, Rollback(t))
          /\ UNCHANGED <<guests, disk>>
    /\ UNCHANGED <<registry, network, wirer, sandbox, exits, ports, jails,
                   locals, ending, history, ops, crashes>>

\* newProxy binds the slot's port.
NewProxy(t) ==
    LET port == url[inc[t]] IN
    /\ At(t, "newProxy")
    /\ \/ /\ ports[port] = NoIncarnation
          /\ Succeeds
          /\ ports' = [ports EXCEPT ![port] = inc[t]]
          /\ takenProxy' = [takenProxy EXCEPT ![t] = port]
          /\ Goto(t, "publishProxy")
       \/ /\ IF ports[port] = NoIncarnation THEN Fails ELSE Succeeds
          /\ Goto(t, Rollback(t))
          /\ UNCHANGED <<ports, takenProxy>>
    /\ UNCHANGED <<registry, network, wirer, sandbox, guests, exits, jails,
                   disk, op, inc, died, captured, coldBoot, takenProcess,
                   takenSlot, failed, ending, history, ops, crashes>>

PublishProxy(t) ==
    /\ At(t, "publishProxy")
    /\ proxy' = [proxy EXCEPT ![inc[t]] = takenProxy[t]]
    /\ Goto(t, IF ActivationAbandoned(inc[t]) THEN Rollback(t)
                                               ELSE "probeDaemon")
    /\ UNCHANGED <<registry, network, wirer, identity, place, process,
                   generation, status, host, locals, ending, history, bounds>>

\* probeDaemon reaches the guest through the port and the slot's namespace.
Reachable(i) ==
    /\ ports[url[i]] = i
    /\ \E g \in guests : /\ g.inc = i
                         /\ g.run = "running"
                         /\ g.netns = url[i]

ProbeDaemon(t) ==
    /\ At(t, "probeDaemon")
    /\ \/ /\ Reachable(inc[t])
          /\ Succeeds
          /\ Goto(t, "activated")
       \/ /\ IF Reachable(inc[t]) THEN Fails ELSE Succeeds
          /\ Goto(t, Rollback(t))
    /\ UNCHANGED <<registry, network, wirer, sandbox, host, locals, ending,
                   history, ops, crashes>>

\* The end of CreateSandbox, which releases its own claim.
FinishCreate(t) ==
    /\ At(t, "activated")
    /\ op[t] = "create"
    /\ running' = [running EXCEPT ![inc[t]] = TRUE]
    /\ transition' = [transition EXCEPT ![inc[t]] = "none"]
    /\ Return(t)
    /\ UNCHANGED <<registry, network, wirer, identity, place, handles,
                   stopped, mustColdBoot, host, ending, history, bounds>>

\* The end of ensureSandboxRunningOnce; its deferred endTransition follows.
FinishWake(t) ==
    /\ At(t, "activated")
    /\ op[t] = "wake"
    /\ running' = [running EXCEPT ![inc[t]] = TRUE]
    /\ stopped' = [stopped EXCEPT ![inc[t]] = FALSE]
    /\ Goto(t, "endTransition")
    /\ UNCHANGED <<registry, network, wirer, identity, place, handles,
                   transition, mustColdBoot, host, locals, ending, history,
                   bounds>>

-----------------------------------------------------------------------------
(* The transition claim.                                                   *)

\* Mutant: only a delete keeps other operations out.
ClaimableUnlessDeleting(i) == transition[i] # "deleting"

\* beginTransition's condition for taking the claim.
Claimable(i) == transition[i] = "none"

Claim(kind) == IF kind = "stop" THEN "stopping"
               ELSE IF kind = "wake" THEN "waking" ELSE "deleting"

\* beginTransition for StopSandbox, EnsureSandboxRunning and DeleteSandbox.
\* A caller that finds the claim held polls, and one that finds the sandbox
\* gone or being deleted returns: neither changes anything.
BeginTransition(t, id, kind) ==
    LET i == sandboxes[id] IN
    /\ At(t, "idle")
    /\ ops > 0
    /\ i # NoIncarnation
    /\ Claimable(i)
    /\ transition' = [transition EXCEPT ![i] = Claim(kind)]
    /\ Goto(t, kind)
    /\ op' = [op EXCEPT ![t] = kind]
    /\ inc' = [inc EXCEPT ![t] = i]
    /\ lateWakes' = IF phase # "up" /\ kind = "wake" THEN lateWakes \cup {i}
                    ELSE lateWakes
    /\ ops' = ops - 1
    /\ UNCHANGED <<registry, network, wirer, identity, place, handles,
                   running, stopped, mustColdBoot, host, died, captured,
                   coldBoot, taken, failed, ending, deaths, killed, faults,
                   crashes>>

\* Mutant: the claim is not given back.
EndTransitionHeld(t) ==
    /\ At(t, "endTransition")
    /\ Return(t)
    /\ UNCHANGED <<registry, network, wirer, sandbox, host, ending, history,
                   bounds>>

\* endTransition, deferred by stop, wake and the death handler.
EndTransition(t) ==
    /\ At(t, "endTransition")
    /\ transition' = [transition EXCEPT ![inc[t]] = "none"]
    /\ Return(t)
    /\ UNCHANGED <<registry, network, wirer, identity, place, handles,
                   running, stopped, mustColdBoot, host, ending, history,
                   bounds>>

-----------------------------------------------------------------------------
(* StopSandbox.                                                            *)

\* A stopped sandbox is a success, one that is not running an error; both
\* only release the claim, as does ensureDiskSpaceForSnapshot's refusal.
CheckStop(t) ==
    LET proceed == ~stopped[inc[t]] /\ running[inc[t]] IN
    /\ At(t, "stop")
    /\ \/ proceed /\ Succeeds /\ Goto(t, "pauseVM")
       \/ /\ IF proceed THEN Fails ELSE Succeeds
          /\ Goto(t, "endTransition")
    /\ UNCHANGED <<registry, network, wirer, sandbox, host, locals, ending,
                   history, ops, crashes>>

\* pauseVM may take effect and still be reported as failed.
PauseVM(t) ==
    LET pause(g) == /\ GuestAt(g, idOf[inc[t]])
                    /\ g.run = "running"
                    /\ SetRun(g, "paused")
    IN
    /\ At(t, "pauseVM")
    /\ \/ /\ Succeeds
          /\ \E g \in guests : pause(g)
          /\ Goto(t, "createSnapshot")
       \/ /\ Fails
          /\ \E g \in guests : pause(g)
          /\ Goto(t, "resumeVM")
       \/ /\ IF HasGuest(idOf[inc[t]], {"running"}) THEN Fails ELSE Succeeds
          /\ Goto(t, "resumeVM")
          /\ UNCHANGED guests
    /\ UNCHANGED <<registry, network, wirer, sandbox, exits, ports, jails,
                   disk, locals, ending, history, ops, crashes>>

\* createSnapshot of a paused guest.  A failure may leave it half written.
CreateSnapshot(t) ==
    LET id == idOf[inc[t]]
        possible == HasGuest(id, {"paused"}) /\ disk[id] # "absent"
    IN
    /\ At(t, "createSnapshot")
    /\ \/ /\ possible
          /\ Succeeds
          /\ disk' = [disk EXCEPT ![id] = "match"]
          /\ Goto(t, "unpin")
       \/ /\ IF possible
             THEN Fails /\ disk' = [disk EXCEPT ![id] = "stale"]
             ELSE Succeeds /\ UNCHANGED disk
          /\ Goto(t, "resumeVM")
    /\ UNCHANGED <<registry, network, wirer, sandbox, guests, exits, ports,
                   jails, locals, ending, history, ops, crashes>>

\* The snapshot and the rootfs describe the same moment again.
Unpin(t) ==
    /\ At(t, "unpin")
    /\ mustColdBoot' = [mustColdBoot EXCEPT ![inc[t]] = FALSE]
    /\ Goto(t, "teardown")
    /\ UNCHANGED <<registry, network, wirer, identity, place, handles,
                   running, stopped, transition, host, locals, ending,
                   history, bounds>>

\* resumeAfterFailedStop: a guest that may still be paused is torn down like
\* a crashed one.
ResumeVM(t) ==
    /\ At(t, "resumeVM")
    /\ \/ /\ Succeeds
          /\ \E g \in guests : /\ GuestAt(g, idOf[inc[t]])
                               /\ g.run # "booting"
                               /\ SetRun(g, "running")
          /\ Goto(t, "endTransition")
       \/ /\ IF HasGuest(idOf[inc[t]], {"running", "paused"})
             THEN Fails ELSE Succeeds
          /\ Goto(t, "teardown")
          /\ UNCHANGED guests
    /\ UNCHANGED <<registry, network, wirer, sandbox, exits, ports, jails,
                   disk, locals, ending, history, ops, crashes>>

\* The block that ends a stop, a failed resume, a failed wake and a death:
\* the sandbox is an ordinary stopped one, whatever host cleanup left behind.
\* The death handler alone leaves the handles to its teardown.
BecomeStopped(t) ==
    LET i == inc[t] IN
    /\ At(t, "released")
    /\ ReleaseSlot(i)
    /\ running' = [running EXCEPT ![i] = FALSE]
    /\ stopped' = [stopped EXCEPT ![i] = TRUE]
    /\ slot' = [slot EXCEPT ![i] = NoSlot]
    /\ IF op[t] = "crash"
       THEN UNCHANGED <<process, proxy>>
       ELSE /\ process' = [process EXCEPT ![i] = NoProcess]
            /\ proxy' = [proxy EXCEPT ![i] = NoSlot]
    /\ Goto(t, "endTransition")
    /\ UNCHANGED <<sandboxes, network, wirer, identity, url, generation,
                   transition, mustColdBoot, host, locals, ending, history,
                   bounds>>

-----------------------------------------------------------------------------
(* EnsureSandboxRunning.  The singleflight makes one wake of the waiters;  *)
(* they share its result.                                                  *)

CheckWake(t) ==
    /\ At(t, "wake")
    /\ Goto(t, IF running[inc[t]] \/ ~stopped[inc[t]]
               THEN "endTransition" ELSE "reserveWakeSlot")
    /\ UNCHANGED <<registry, network, wirer, sandbox, host, locals, ending,
                   history, bounds>>

ReserveWakeSlot(t) ==
    /\ At(t, "reserveWakeSlot")
    /\ \/ \E s \in Slots :
            /\ FirstFree(s)
            /\ slots' = [slots EXCEPT ![s] = idOf[inc[t]]]
            /\ slot' = [slot EXCEPT ![inc[t]] = s]
            /\ url' = [url EXCEPT ![inc[t]] = s]
            /\ Goto(t, "prepareJail")
       \/ /\ FreeSlots = {}
          /\ Goto(t, "endTransition")
          /\ UNCHANGED <<slots, place>>
    /\ UNCHANGED <<sandboxes, wireCh, network, wirer, identity, handles,
                   status, host, locals, ending, history, bounds>>

-----------------------------------------------------------------------------
(* teardownRunningVM, shared by every operation that ends a microVM.       *)

\* Mutant: the generation is not bumped before the kill.
KeepGeneration(i) == UNCHANGED generation

BumpGeneration(i) == generation' = [generation EXCEPT ![i] = @ + 1]

\* The generation is bumped and the handles and the slot are taken in one
\* critical section, before the kill.
TakeHandles(t) ==
    LET i == inc[t] IN
    /\ At(t, "teardown")
    /\ BumpGeneration(i)
    /\ takenProcess' = [takenProcess EXCEPT ![t] = process[i]]
    /\ takenProxy' = [takenProxy EXCEPT ![t] = proxy[i]]
    /\ takenSlot' = [takenSlot EXCEPT ![t] = slot[i]]
    /\ process' = [process EXCEPT ![i] = NoProcess]
    /\ proxy' = [proxy EXCEPT ![i] = NoSlot]
    /\ Goto(t, "kill")
    /\ UNCHANGED <<registry, network, wirer, identity, place, status, host,
                   op, inc, died, captured, coldBoot, failed, ending, history,
                   bounds>>

\* Where a teardown returns to.
AfterTeardown(t) ==
    IF op[t] \in {"stop", "wake", "crash"} THEN "released" ELSE "removeDataDir"

\* proxy.Stop, process.Kill and cleanupHost.  SIGKILL ends the process; the
\* exit callback runs later.  They are one step because no other thread can tell
\* them apart: probeDaemon fails as soon as the port or the process is gone, and
\* the jail concerns prepareJail alone, which waits for nothing.
StopAndKill(t) ==
    LET victims == {g \in guests : /\ g.inc = inc[t]
                                   /\ g.generation = takenProcess[t]}
        gone == {<<g.inc, g.generation>> : g \in victims}
    IN
    /\ At(t, "kill")
    /\ guests' = guests \ victims
    /\ exits' = exits \cup gone
    /\ killed' = killed \cup gone
    /\ ports' = [s \in Slots |-> IF s = takenProxy[t] THEN NoIncarnation
                                                      ELSE ports[s]]
    /\ \E done \in BOOLEAN :
        /\ IF done THEN Succeeds ELSE Fails
        /\ jails' = IF done THEN jails \ {idOf[inc[t]]} ELSE jails
        /\ failed' = [failed EXCEPT ![t] = @ \/ ~done]
    /\ Goto(t, IF takenSlot[t] = NoSlot THEN AfterTeardown(t) ELSE "clearSlot")
    /\ UNCHANGED <<registry, network, wirer, sandbox, disk, op, inc, died,
                   captured, coldBoot, taken, ending, deaths, lateWakes, ops,
                   crashes>>

\* clearSlotNetwork takes the slot's netMu and re-reads the owner under it.
\* A teardown passes its own sandboxState, Shutdown's last loop none.
MayClear(t) ==
    LET owner == slots[takenSlot[t]] IN
    \/ owner = Nil
    \/ /\ inc[t] # NoIncarnation
       /\ owner = idOf[inc[t]]
       /\ sandboxes[owner] \in {NoIncarnation, inc[t]}

\* After a slot is cleared.
AfterClear(t, ok) ==
    \/ /\ inc[t] # NoIncarnation
       /\ Goto(t, AfterTeardown(t))
       /\ failed' = [failed EXCEPT ![t] = @ \/ ~ok]
       /\ UNCHANGED <<op, inc, died, captured, coldBoot, taken, phase>>
    \/ \* Shutdown's last loop goes on to the next slot
       /\ inc[t] = NoIncarnation
       /\ takenSlot[t] < Capacity - 1
       /\ takenSlot' = [takenSlot EXCEPT ![t] = @ + 1]
       /\ Goto(t, "clearSlot")
       /\ UNCHANGED <<op, inc, died, captured, coldBoot, takenProcess,
                      takenProxy, failed, phase>>
    \/ /\ inc[t] = NoIncarnation
       /\ takenSlot[t] = Capacity - 1
       /\ phase' = "exited"
       /\ Return(t)

ClearSlotNetwork(t) ==
    LET s == takenSlot[t] IN
    /\ At(t, "clearSlot")
    /\ netMu[s] = Nil
    /\ \/ /\ MayClear(t)
          /\ netMu' = [netMu EXCEPT ![s] = t]
          /\ wired' = [wired EXCEPT ![s] = FALSE]
          /\ Goto(t, "cleanupScript")
          /\ UNCHANGED <<locals, phase>>
       \/ /\ ~MayClear(t)
          /\ AfterClear(t, TRUE)
          /\ UNCHANGED <<netMu, wired>>
    /\ UNCHANGED <<registry, netns, wirer, sandbox, host, toDelete, history,
                   bounds>>

RunCleanupScript(t) ==
    LET s == takenSlot[t] IN
    /\ At(t, "cleanupScript")
    /\ \E ok \in BOOLEAN :
        /\ IF ok THEN Succeeds ELSE Fails
        /\ netns' = [netns EXCEPT ![s] = IF ok THEN "absent" ELSE "unknown"]
        /\ AfterClear(t, ok)
    /\ guests' = Isolate(s)
    /\ netMu' = [netMu EXCEPT ![s] = Nil]
    /\ UNCHANGED <<registry, wired, wirer, sandbox, exits, ports, jails, disk,
                   toDelete, history, ops, crashes>>

-----------------------------------------------------------------------------
(* deleteSandbox, for DeleteSandbox, a failed create and Shutdown.         *)

\* The claim is upgraded for a create and re-asserted for the others.
MarkDeleting(t) ==
    LET i == inc[t] IN
    /\ At(t, "delete")
    /\ IF Tracked(i)
       THEN /\ running' = [running EXCEPT ![i] = FALSE]
            /\ transition' = [transition EXCEPT ![i] = "deleting"]
       ELSE UNCHANGED <<running, transition>>
    /\ failed' = [failed EXCEPT ![t] = FALSE]
    /\ Goto(t, "teardown")
    /\ UNCHANGED <<registry, network, wirer, identity, place, handles,
                   stopped, mustColdBoot, host, op, inc, died, captured,
                   coldBoot, taken, ending, history, bounds>>

\* removeSandboxDataDir runs whether or not the teardown failed.
RemoveDataDir(t) ==
    /\ At(t, "removeDataDir")
    /\ \E ok \in BOOLEAN :
        /\ IF ok THEN Succeeds ELSE Fails
        /\ disk' = [disk EXCEPT ![idOf[inc[t]]] = IF ok THEN "absent" ELSE @]
        /\ failed' = [failed EXCEPT ![t] = @ \/ ~ok]
        /\ Goto(t, IF ok /\ ~failed[t] THEN "untrack" ELSE "deleted")
    /\ UNCHANGED <<registry, network, wirer, sandbox, guests, exits, ports,
                   jails, op, inc, died, captured, coldBoot, taken, ending,
                   history, ops, crashes>>

\* A delete that failed leaves the sandbox tracked, holding its slot.  A
\* create untracks it all the same.
KeepAfterFailedDelete(t) ==
    /\ At(t, "deleted")
    /\ transition' = IF Tracked(inc[t])
                     THEN [transition EXCEPT ![inc[t]] = "none"]
                     ELSE transition
    /\ \/ op[t] = "create" /\ Goto(t, "untrack") /\ UNCHANGED locals
       \/ op[t] = "shutdown" /\ Goto(t, "nextDelete") /\ UNCHANGED locals
       \/ op[t] \notin {"create", "shutdown"} /\ Return(t)
    /\ UNCHANGED <<registry, network, wirer, identity, place, handles,
                   running, stopped, mustColdBoot, host, ending, history,
                   bounds>>

\* untrackSandbox: a no-op once another incarnation took over the id.
UntrackSandbox(t) ==
    LET i == inc[t] IN
    /\ At(t, "untrack")
    /\ IF Tracked(i)
       THEN /\ sandboxes' = [sandboxes EXCEPT ![idOf[i]] = NoIncarnation]
            /\ ReleaseSlot(i)
       ELSE UNCHANGED registry
    /\ \/ op[t] = "shutdown" /\ Goto(t, "nextDelete") /\ UNCHANGED locals
       \/ op[t] # "shutdown" /\ Return(t)
    /\ UNCHANGED <<network, wirer, sandbox, host, ending, history, bounds>>

-----------------------------------------------------------------------------
(* Guest deaths.                                                           *)

\* A guest dies on its own: PID 1 exits, or the VMM crashes.
GuestDies(g) ==
    /\ phase # "exited"
    /\ crashes > 0
    /\ crashes' = crashes - 1
    /\ guests' = guests \ {g}
    /\ exits' = exits \cup {<<g.inc, g.generation>>}
    /\ UNCHANGED <<registry, network, wirer, sandbox, ports, jails, disk, pc,
                   locals, ending, history, ops, faults>>

\* recordGuestDeath, on the goroutine that waited for the process: an exit
\* that carries an old generation is one the runner caused.
RecordGuestDeath(t, x) ==
    /\ At(t, "idle")
    /\ exits' = exits \ {x}
    /\ IF generation[x[1]] = x[2]
       THEN /\ deaths' = deaths \cup {x}
            /\ Goto(t, "claimDeath")
            /\ op' = [op EXCEPT ![t] = "crash"]
            /\ died' = [died EXCEPT ![t] = x[1]]
            /\ captured' = [captured EXCEPT ![t] = x[2]]
       ELSE UNCHANGED <<deaths, pc, op, died, captured>>
    /\ UNCHANGED <<registry, network, wirer, sandbox, guests, ports, jails,
                   disk, inc, coldBoot, taken, failed, ending, killed,
                   lateWakes, bounds>>

\* Mutant: the death handler does not wait for a claim that is held.
GivesUpWhenBusy(i) == i # NoIncarnation => transition[i] # "none"

\* beginTransition's ErrSandboxNotFound.
GivesUp(i) == i # NoIncarnation => Deleting(i)

\* beginTransition by id: a sandbox that is gone or being deleted needs
\* nothing, and the incarnation it claims can be a later one.
ClaimDeath(t) ==
    LET i == sandboxes[idOf[died[t]]] IN
    /\ At(t, "claimDeath")
    /\ \/ /\ GivesUp(i)
          /\ Return(t)
          /\ UNCHANGED transition
       \/ /\ ~GivesUp(i)
          /\ Claimable(i)
          /\ transition' = [transition EXCEPT ![i] = "stopping"]
          /\ inc' = [inc EXCEPT ![t] = i]
          /\ Goto(t, "checkStale")
          /\ UNCHANGED <<op, died, captured, coldBoot, taken, failed>>
    /\ UNCHANGED <<registry, network, wirer, identity, place, handles,
                   running, stopped, mustColdBoot, host, ending, history,
                   bounds>>

CheckStale(t) ==
    /\ At(t, "checkStale")
    /\ Goto(t, IF \/ inc[t] # died[t]
                  \/ generation[inc[t]] # captured[t]
               THEN "endTransition" ELSE "teardown")
    /\ UNCHANGED <<registry, network, wirer, sandbox, host, locals, ending,
                   history, bounds>>

-----------------------------------------------------------------------------
(* Shutdown, which does not wait for a claim it finds held.                *)

Shutdown(t) ==
    LET found == {i \in 1 .. made : Tracked(i) /\ ~Deleting(i)} IN
    /\ At(t, "idle")
    /\ MayShutdown
    /\ phase = "up"
    /\ phase' = "shutdown"
    /\ toDelete' = found
    /\ running' = [i \in Incarnations |-> running[i] /\ i \notin found]
    /\ transition' = [i \in Incarnations |->
                         IF i \in found THEN "deleting" ELSE transition[i]]
    /\ op' = [op EXCEPT ![t] = "shutdown"]
    /\ Goto(t, "nextDelete")
    /\ UNCHANGED <<registry, network, wirer, identity, place, handles,
                   stopped, mustColdBoot, host, inc, died, captured, coldBoot,
                   taken, failed, history, bounds>>

\* The next sandbox of Shutdown's loop, then the free slots.
ShutdownNext(t) ==
    /\ At(t, "nextDelete")
    /\ \/ \E i \in toDelete :
            /\ toDelete' = toDelete \ {i}
            /\ inc' = [inc EXCEPT ![t] = i]
            /\ Goto(t, "delete")
            /\ UNCHANGED takenSlot
       \/ /\ toDelete = {}
          /\ inc' = [inc EXCEPT ![t] = NoIncarnation]
          /\ takenSlot' = [takenSlot EXCEPT ![t] = 0]
          /\ Goto(t, "clearSlot")
          /\ UNCHANGED toDelete
    /\ UNCHANGED <<registry, network, wirer, sandbox, host, op, died,
                   captured, coldBoot, takenProcess, takenProxy, failed,
                   phase, history, bounds>>

-----------------------------------------------------------------------------
(* wireSlots, which stops with the context Shutdown runs after.            *)

\* Mutant: the loop runs one slot too far.
NextSlotBeyond ==
    IF wirerSlot = Capacity THEN wirerPc' = "wait" /\ wirerSlot' = 0
    ELSE wirerPc' = "scan" /\ wirerSlot' = wirerSlot + 1

NextSlot ==
    IF wirerSlot = Capacity - 1 THEN wirerPc' = "wait" /\ wirerSlot' = 0
    ELSE wirerPc' = "scan" /\ wirerSlot' = wirerSlot + 1

WirerScan ==
    /\ phase = "up"
    /\ wirerPc = "scan"
    /\ IF slots[wirerSlot] = Nil THEN wirerPc' = "build" /\ UNCHANGED wirerSlot
                                 ELSE NextSlot
    /\ UNCHANGED <<registry, network, sandbox, host, pc, locals, ending,
                   history, bounds>>

\* A failed build is skipped.
WirerBuild ==
    /\ phase = "up"
    /\ wirerPc = "build"
    /\ \E done \in BOOLEAN : SetupNetwork(wirerSlot, FALSE, done)
    /\ NextSlot
    /\ UNCHANGED <<registry, netMu, sandbox, exits, ports, jails, disk, pc,
                   locals, ending, history, ops, crashes>>

WirerWait ==
    /\ phase = "up"
    /\ wirerPc = "wait"
    /\ wireCh
    /\ wireCh' = FALSE
    /\ wirerPc' = "scan" /\ wirerSlot' = 0
    /\ UNCHANGED <<sandboxes, slots, network, sandbox, host, pc, locals,
                   ending, history, bounds>>

-----------------------------------------------------------------------------
Activate(t) ==
    \/ PrepareJail(t) \/ ActivateNetwork(t) \/ ReadGeneration(t)
    \/ StartJailer(t) \/ PublishProcess(t) \/ PinGuest(t) \/ StartGuest(t)
    \/ NewProxy(t) \/ PublishProxy(t) \/ ProbeDaemon(t)

\* Everything a thread that runs an operation does next.
Step(t) ==
    \/ CloneAssets(t) \/ Activate(t) \/ FinishCreate(t) \/ FinishWake(t)
    \/ EndTransition(t)
    \/ CheckStop(t) \/ PauseVM(t) \/ CreateSnapshot(t) \/ Unpin(t)
    \/ ResumeVM(t) \/ BecomeStopped(t)
    \/ CheckWake(t) \/ ReserveWakeSlot(t)
    \/ TakeHandles(t) \/ StopAndKill(t) \/ ClearSlotNetwork(t)
    \/ RunCleanupScript(t)
    \/ MarkDeleting(t) \/ RemoveDataDir(t) \/ KeepAfterFailedDelete(t)
    \/ UntrackSandbox(t)
    \/ ClaimDeath(t) \/ CheckStale(t)
    \/ ShutdownNext(t)

Start(t) ==
    \/ \E id \in Ids, block \in BOOLEAN : ReserveSandbox(t, id, block)
    \/ \E id \in Ids, kind \in {"stop", "wake", "delete"} :
          BeginTransition(t, id, kind)
    \/ Shutdown(t)

Wirer == WirerScan \/ WirerBuild \/ WirerWait

Next ==
    \/ \E t \in Threads : Start(t) \/ Step(t)
    \/ \E t \in Threads, x \in exits : RecordGuestDeath(t, x)
    \/ \E g \in guests : GuestDies(g)
    \/ Wirer

Spec == Init /\ [][Next]_vars

\* Goroutines run, the process watcher runs its callback, the wirer loops.
\* Nobody is obliged to start an operation, and no guest to die.
Fairness ==
    /\ \A t \in Threads : WF_vars(Step(t))
    /\ WF_vars(\E t \in Threads, x \in exits : RecordGuestDeath(t, x))
    /\ WF_vars(Wirer)

FairSpec == Spec /\ Fairness

-----------------------------------------------------------------------------
(* What the runtime answers to the request path.                           *)

\* DaemonURL: what a proxied request is told about a sandbox.
DaemonURL(id) ==
    LET i == sandboxes[id] IN
    IF i = NoIncarnation THEN "ErrSandboxNotFound"
    ELSE IF Deleting(i) THEN "ErrSandboxNotFound"
    ELSE IF \/ transition[i] # "none"
            \/ stopped[i]
            \/ ~running[i] THEN "ErrSandboxNotRunning"
    ELSE "url"

-----------------------------------------------------------------------------
(* Properties.                                                             *)

TypeRuntime ==
    /\ sandboxes \in [Ids -> Incarnations \cup {NoIncarnation}]
    /\ slots \in [Slots -> Ids \cup {Nil}]
    /\ wireCh \in BOOLEAN
    /\ wired \in [Slots -> BOOLEAN]
    /\ netMu \in [Slots -> Threads \cup {Nil}]
    /\ netns \in [Slots -> {"absent", "default", "blocked", "unknown"}]
    /\ wirerPc \in {"scan", "build", "wait"}
    /\ wirerSlot \in Slots

TypeSandbox ==
    /\ made \in 0 .. MaxIncarnations
    /\ idOf \in [Incarnations -> Ids]
    /\ blockEgress \in [Incarnations -> BOOLEAN]
    /\ slot \in [Incarnations -> Slots \cup {NoSlot}]
    /\ url \in [Incarnations -> Slots]
    /\ process \in [Incarnations -> Nat \cup {NoProcess}]
    /\ proxy \in [Incarnations -> Slots \cup {NoSlot}]
    /\ generation \in [Incarnations -> Nat]
    /\ running \in [Incarnations -> BOOLEAN]
    /\ stopped \in [Incarnations -> BOOLEAN]
    /\ transition \in [Incarnations -> {"none", "creating", "stopping",
                                        "waking", "deleting"}]
    /\ mustColdBoot \in [Incarnations -> BOOLEAN]

TypeHost ==
    /\ guests \subseteq Guests
    /\ exits \subseteq Incarnations \X Nat
    /\ ports \in [Slots -> Incarnations \cup {NoIncarnation}]
    /\ jails \subseteq Ids
    /\ disk \in [Ids -> {"absent", "match", "stale"}]

TypeThreads ==
    /\ pc \in [Threads -> Labels]
    /\ op \in [Threads -> {"none", "create", "stop", "wake", "delete",
                           "crash", "shutdown"}]
    /\ inc \in [Threads -> Incarnations \cup {NoIncarnation}]
    /\ died \in [Threads -> Incarnations \cup {NoIncarnation}]
    /\ captured \in [Threads -> Nat]
    /\ coldBoot \in [Threads -> BOOLEAN]
    /\ takenProcess \in [Threads -> Nat \cup {NoProcess}]
    /\ takenProxy \in [Threads -> Slots \cup {NoSlot}]
    /\ takenSlot \in [Threads -> Slots \cup {NoSlot}]
    /\ failed \in [Threads -> BOOLEAN]

TypeHistory ==
    /\ toDelete \subseteq Incarnations
    /\ phase \in {"up", "shutdown", "exited"}
    /\ deaths \subseteq Incarnations \X Nat
    /\ killed \subseteq Incarnations \X Nat
    /\ lateWakes \subseteq Incarnations
    /\ ops \in 0 .. MaxOps
    /\ faults \in 0 .. MaxFaults
    /\ crashes \in 0 .. MaxCrashes

\* The types of sandboxState, slotState and the modelled host.
TypeOK ==
    /\ TypeRuntime
    /\ TypeSandbox
    /\ TypeHost
    /\ TypeThreads
    /\ TypeHistory

\* A snapshot is restored only onto the rootfs it describes: whenever
\* startGuest is about to load a snapshot, no guest has run on the rootfs since
\* that snapshot was taken.  Restoring another one corrupts the sandbox's
\* filesystem without any error (sandboxState.mustColdBoot).
RestoreMatchesDisk ==
    \A t \in Threads :
        /\ At(t, "startGuest")
        /\ ~coldBoot[t]
        /\ \E g \in guests : GuestAt(g, idOf[inc[t]]) /\ g.run = "booting"
        => disk[idOf[inc[t]]] # "stale"

\* A failed create that has nothing left to do but untrack its sandbox.
GaveUp(t) == op[t] = "create" /\ pc[t] = "untrack"

\* Create, stop, wake, delete and death handling exclude each other on one
\* sandboxState (beginTransition).  A create whose cleanup failed is the
\* exception: it has given up its claim when it untracks the sandbox.
OperationsExclusive ==
    phase = "up" =>
        \A t, u \in Threads :
            /\ t # u
            /\ inc[t] # NoIncarnation
            /\ ~GaveUp(t) /\ ~GaveUp(u)
            => inc[t] # inc[u]

\* No slot is lost and none is handed out twice: outside Shutdown, a slot is
\* occupied exactly when a tracked sandbox holds it.  Capacity counts on it.
SlotsAccounted ==
    phase = "up" =>
        \A s \in Slots, id \in Ids :
            slots[s] = id <=> /\ sandboxes[id] # NoIncarnation
                              /\ slot[sandboxes[id]] = s

\* A request is only ever sent to a guest that can answer it: the port is the
\* sandbox's own, its guest (unless it just died) runs unpaused inside the
\* slot's named namespace, and that namespace carries the sandbox's egress.
ServedGuestAnswers ==
    \A id \in Ids :
        phase = "up" /\ DaemonURL(id) = "url" =>
            LET i == sandboxes[id]
                s == url[i]
            IN /\ slots[s] = id
               /\ ports[s] = i
               /\ \A g \in guests : g.inc = i => g.run = "running" /\ g.netns = s
               /\ netns[s] = IF blockEgress[i] THEN "blocked" ELSE "default"

\* Outside Shutdown, every live microVM can still be killed: its handle is on
\* its sandboxState, or an operation has it in hand.
NoOrphanGuest ==
    phase = "up" => \A g \in guests :
        \/ process[g.inc] = g.generation
        \/ \E t \in Threads :
              /\ inc[t] = g.inc
              /\ \/ /\ pc[t] = "kill"
                    /\ takenProcess[t] = g.generation
                 \/ /\ pc[t] = "publishProcess"
                    /\ captured[t] = g.generation

\* An exit the runner caused is never counted as a guest death: teardown bumps
\* the generation before it kills (recordGuestDeath).
KillIsNotDeath == deaths \cap killed = {}

\* Once Shutdown has begun and no operation is left, every microVM still alive
\* belongs to a wake that claimed its sandbox after Shutdown began, unless a host
\* call failed.  Shutdown does not wait for an activation and sees no handle of a
\* microVM that is starting: the activation itself finds out that it was
\* abandoned (activateSandboxVM).  The exception is real: a stop that Shutdown
\* overtook gives back a claim that is no longer its own (endTransition), and a
\* wake that waited for it in beginTransition takes it.
ShutdownLeavesNoGuest ==
    /\ phase # "up"
    /\ faults = MaxFaults
    /\ \A t \in Threads : pc[t] = "idle"
    => \A g \in guests : g.inc \in lateWakes

\* An operation always finishes and gives its claim back, unless the runner exits.
OperationsFinish ==
    \A t \in Threads : pc[t] # "idle" ~> (pc[t] = "idle" \/ phase = "exited")

\* A released slot is rebuilt by the wirer unless a sandbox takes it first.
FreeSlotsGetWired ==
    \A s \in Slots :
        slots[s] = Nil ~> (wired[s] \/ slots[s] # Nil \/ phase # "up")

\* A sandbox whose guest died does not stay marked running while the runner runs.
DeathIsHandled ==
    \A i \in Incarnations :
        (running[i] /\ \A g \in guests : g.inc # i)
            ~> (~running[i] \/ ~Tracked(i) \/ phase = "exited")

=============================================================================
