---------------------------- MODULE FcInvariant ----------------------------
(***************************************************************************)
(* The inductive invariant of the Firecracker runtime, part by part: which *)
(* sandboxState a goroutine is bound to, its claim, the microVM it         *)
(* handles, the slot it occupies and the snapshot it may restore.          *)
(***************************************************************************)
EXTENDS FcRuntime

-----------------------------------------------------------------------------
(* Threads and claims (beginTransition and everything that ends a claim).  *)

\* Every thread that works on a sandboxState has one that was created, and a
\* thread that clears a slot has a slot.  Only Shutdown's thread runs without.
BoundMap ==
    /\ \A id \in Ids : sandboxes[id] <= made
    /\ toDelete \subseteq 1 .. made

BoundThreads ==
    \A t \in Threads :
        /\ inc[t] <= made
        /\ \/ inc[t] # NoIncarnation
           \/ pc[t] \in {"idle", "claimDeath", "nextDelete",
                         "clearSlot", "cleanupScript"}
        /\ pc[t] = "claimDeath" => died[t] # NoIncarnation
        /\ pc[t] \in {"clearSlot", "cleanupScript"} => takenSlot[t] # NoSlot
        /\ op[t] = "shutdown" => phase # "up"

Bound == BoundMap /\ BoundThreads

\* An operation holds the claim of its sandboxState until it returns, a failed
\* create until it untracks the sandbox.  Only Shutdown loops.
Claimed ==
    phase = "up" => \A t \in Threads :
        /\ pc[t] # "nextDelete"
        /\ inc[t] # NoIncarnation /\ ~GaveUp(t)
               => transition[inc[t]] # "none"

ExclusionInv == TypeOK /\ Bound /\ Claimed /\ OperationsExclusive

-----------------------------------------------------------------------------
(* MicroVMs, their handles and their generation (activateSandboxVM,        *)
(* teardownRunningVM and recordGuestDeath).                                *)

\* A microVM of a sandboxState was started with this generation.
Live(i, n) == \E g \in guests : g.inc = i /\ g.generation = n
Used(i, n) == Live(i, n) \/ <<i, n>> \in exits \/ <<i, n>> \in deaths

\* The sandboxState has no handle, and its generation no microVM yet.
Bare(i) == process[i] = NoProcess /\ ~Used(i, generation[i])

\* An operation has no microVM before startJailer and after its teardown took
\* the handles.
BareAt == {"cloneAssets", "reserveWakeSlot", "prepareJail", "setupNetwork",
           "readGeneration", "startJailer", "kill", "clearSlot",
           "cleanupScript", "removeDataDir", "deleted", "released"}

\* Where a stopped sandbox can have a microVM: it is waking up, or its failed
\* wake is torn down.  (Nothing is claimed of a thread without a claim.)
Active == {"idle", "claimDeath", "publishProcess", "waitForSocket",
           "startGuest", "newProxy", "publishProxy", "probeDaemon",
           "activated", "teardown", "untrack"}

\* What an operation can rely on while it holds its sandboxState.
ThreadOK(t) ==
    LET i == inc[t] IN
    /\ pc[t] = "claimDeath" => op[t] # "create"
    /\ i # NoIncarnation =>
        /\ pc[t] \in BareAt => Bare(i)
        /\ pc[t] = "publishProcess" => process[i] = NoProcess
        /\ pc[t] \in {"startJailer", "publishProcess"}
               => captured[t] = generation[i]
        /\ pc[t] = "kill" => takenProcess[t] < generation[i]
        /\ pc[t] \notin Active /\ stopped[i] => Bare(i)
        /\ op[t] = "create" /\ pc[t] # "untrack" => ~stopped[i]
        /\ pc[t] = "released" => op[t] # "create"

\* What holds of a sandboxState, claimed or not.
SandboxOK(i) ==
    /\ \A n \in Nat : Used(i, n) => n <= generation[i]
    /\ process[i] <= generation[i]
    /\ i > made => ~stopped[i] /\ process[i] = NoProcess
    /\ i > made => \A n \in Nat : ~Used(i, n)
    /\ transition[i] = "none" /\ stopped[i] => Bare(i)

\* No two microVMs of a sandboxState carry the same generation.
Unique == \A g, h \in guests :
              g.inc = h.inc /\ g.generation = h.generation => g = h

HostOK ==
    /\ NoOrphanGuest
    /\ Unique
    /\ \A g \in guests : <<g.inc, g.generation>> \notin exits \cup deaths
    /\ \A x \in killed : x[2] < generation[x[1]]
    /\ KillIsNotDeath

GuestsOK ==
    /\ \A t \in Threads : ThreadOK(t)
    /\ \A i \in Incarnations : SandboxOK(i)
    /\ HostOK

GuestInv == ExclusionInv /\ (phase = "up" => GuestsOK)

\* The state between two steps, outside Shutdown.
Up == ExclusionInv /\ phase = "up" /\ GuestsOK

-----------------------------------------------------------------------------
(* Slots (reserveSlotLocked, releaseSlotLocked and slotOwnedByLocked).     *)

\* What is left of a sandbox whose create failed: it neither runs nor is it
\* stopped, and it has no microVM.
Spent(i) == ~running[i] /\ ~stopped[i] /\ Bare(i)

\* Where a stop, a wake or the death handler has not looked at the sandbox yet,
\* or has nothing more to do with it.
Harmless == {"stop", "wake", "checkStale", "endTransition"}

\* The operations that give a slot back and keep the sandbox.
SlotOps == {"stop", "wake", "crash"}

\* The labels of a delete, of a create, of a wake that holds its slot, and those
\* that only a create or a delete reaches.
DeleteAt == {"delete", "teardown", "kill", "clearSlot", "cleanupScript",
             "removeDataDir", "deleted", "untrack"}
ActivateAt == {"prepareJail", "setupNetwork", "readGeneration", "startJailer",
               "publishProcess", "waitForSocket", "startGuest", "newProxy",
               "publishProxy", "probeDaemon", "activated"}
CreateAt == DeleteAt \cup ActivateAt \cup {"cloneAssets"}
WakeAt == ActivateAt \cup {"teardown", "kill", "clearSlot", "cleanupScript",
                           "released"}
DisposeAt == {"cloneAssets", "delete", "removeDataDir", "deleted", "untrack"}

\* Which operation is at which label.
OpAt(t) ==
    /\ pc[t] \in {"idle", "claimDeath"} => inc[t] = NoIncarnation
    /\ op[t] = "none" => pc[t] = "idle"
    /\ op[t] = "delete" => pc[t] \in DeleteAt
    /\ op[t] = "create" => pc[t] \in CreateAt
    /\ op[t] \in SlotOps => pc[t] \notin DisposeAt
    /\ pc[t] \in {"wake", "reserveWakeSlot"} => op[t] = "wake"

\* An operation that gives a slot back works on a tracked sandbox, or finds
\* nothing to do.
OnTracked(t) ==
    op[t] \in SlotOps /\ inc[t] # NoIncarnation =>
        Tracked(inc[t]) \/ (pc[t] \in Harmless /\ Spent(inc[t]))

\* Whoever else has the sandbox of a failed create deletes it or finds nothing
\* to do.
BesideFailed(t) ==
    GaveUp(t) =>
        /\ Spent(inc[t])
        /\ \A u \in Threads \ {t} : inc[u] = inc[t]
               => op[u] = "delete" \/ pc[u] \in Harmless

SlotThread(t) ==
    /\ OpAt(t)
    /\ OnTracked(t)
    /\ BesideFailed(t)
    /\ op[t] = "create" /\ inc[t] # NoIncarnation => ~running[inc[t]]
    /\ pc[t] \in {"claimDeath", "checkStale"}
           => <<died[t], captured[t]>> \in deaths
    /\ pc[t] = "reserveWakeSlot" => stopped[inc[t]]

\* r.sandboxes holds every sandboxState under its own id.
MapOK == \A id \in Ids :
             sandboxes[id] # NoIncarnation => idOf[sandboxes[id]] = id

\* A stopped sandbox that has a slot is waking up.
StoppedOK ==
    \A i \in Incarnations : stopped[i] /\ slot[i] # NoSlot =>
        \E t \in Threads : inc[t] = i /\ op[t] = "wake" /\ pc[t] \in WakeAt

UnmadeOK == \A i \in Incarnations : i > made => ~running[i]

SlotsOK ==
    /\ \A t \in Threads : SlotThread(t)
    /\ MapOK
    /\ StoppedOK
    /\ UnmadeOK
    /\ SlotsAccounted

\* The state between two steps, outside Shutdown.
SlotUp == Up /\ SlotsOK

SlotInv == GuestInv /\ (phase = "up" => SlotsOK)

-----------------------------------------------------------------------------
(* Snapshots and pins (startGuest and StopSandbox).                        *)

\* Where the sandbox is pinned, and where a stop has unpinned it.
PinnedAt == {"startGuest", "newProxy", "publishProxy", "probeDaemon",
             "activated", "pauseVM", "createSnapshot"}
TearAt == {"teardown", "kill", "clearSlot", "cleanupScript", "released"}
StopAt == {"stop", "pauseVM", "createSnapshot", "unpin"}
MakeAt == DeleteAt \cup {"cloneAssets"}

\* Where an operation works on the sandbox's files or on its guest.
WorksAt == ActivateAt \cup {"cloneAssets", "pauseVM", "createSnapshot", "unpin"}

\* A create that has not cloned its files, or deletes them again.
Making(t) == op[t] = "create" /\ pc[t] \in MakeAt

\* A stop that ends the guest it has taken a snapshot of.
Tearing(t) == op[t] = "stop" /\ pc[t] \in TearAt

DiskThread(t) ==
    /\ op[t] = "create" => /\ inc[t] # NoIncarnation
                           /\ Tracked(inc[t]) \/ GaveUp(t)
    /\ pc[t] \in StopAt => op[t] = "stop"
    /\ pc[t] \in PinnedAt => mustColdBoot[inc[t]]
    /\ pc[t] = "unpin" \/ (pc[t] = "startGuest" /\ ~coldBoot[t])
           => disk[idOf[inc[t]]] # "stale"

\* The snapshot of a tracked sandbox is fit to be restored, or it is pinned.
PinOK(i) ==
    Tracked(i) /\ disk[idOf[i]] = "stale" =>
        mustColdBoot[i] \/ \E t \in Threads : inc[t] = i /\ Making(t)

\* A running sandbox is pinned until a stop has its snapshot.
RunOK(i) ==
    running[i] =>
        mustColdBoot[i] \/ \E t \in Threads : inc[t] = i /\ Tearing(t)

DiskOK ==
    /\ \A t \in Threads : DiskThread(t)
    /\ \A i \in Incarnations : PinOK(i) /\ RunOK(i)

DiskUp == SlotUp /\ DiskOK

DiskInv == SlotInv /\ (phase = "up" => DiskOK)
=============================================================================
