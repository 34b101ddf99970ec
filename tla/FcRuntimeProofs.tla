-------------------------- MODULE FcRuntimeProofs --------------------------
(***************************************************************************)
(* Type correctness of the Firecracker runtime, the exclusion its          *)
(* transition claims give, and what rests on them: every microVM keeps a   *)
(* handle that can kill it, the generation tells a kill from a death,      *)
(* every slot keeps its owner, and no stale snapshot is restored.          *)
(***************************************************************************)
EXTENDS FcGuestProofs

\* The initial state is typed and bound.
LEMMA TypeInit == Init => TypeOK /\ Bound
<1> SUFFICES ASSUME Init PROVE TypeOK /\ Bound
    BY Zenon
<1> USE ConstantsAssumption DEF Init, NoIncarnation, NoSlot, NoProcess
<1>1. TypeRuntime
  <2>1. 0 \in Slots
    BY DEF Slots
  <2>2. QED
    BY Zenon, <2>1 DEF TypeRuntime
<1>2. TypeSandbox
    BY DEF TypeSandbox, Slots
<1>3. TypeHost
    BY Zenon DEF TypeHost
<1>4. TypeThreads
    BY Zenon DEF TypeThreads, Labels
<1>5. TypeHistory
    BY DEF TypeHistory
<1>6. Bound
    BY DEF Bound, BoundMap, BoundThreads
<1>7. QED
    BY Zenon, <1>1, <1>2, <1>3, <1>4, <1>5, <1>6 DEF TypeOK

-----------------------------------------------------------------------------
(* What the steps that actions are made of do to types and bindings.       *)

\* What a step leaves alone keeps its type.
LEMMA FrameRuntime ==
    ASSUME TypeRuntime, UNCHANGED registry, UNCHANGED network, UNCHANGED wirer
    PROVE  TypeRuntime'
BY Zenon DEF TypeRuntime, registry, network, wirer

LEMMA FrameSandbox ==
    ASSUME TypeSandbox, UNCHANGED sandbox
    PROVE  TypeSandbox'
BY Zenon DEF TypeSandbox, sandbox, identity, place, handles, status

LEMMA FrameHost ==
    ASSUME TypeHost, UNCHANGED host
    PROVE  TypeHost'
BY Zenon DEF TypeHost, host

LEMMA FrameThreads ==
    ASSUME TypeThreads, UNCHANGED pc, UNCHANGED locals
    PROVE  TypeThreads'
BY Zenon DEF TypeThreads, locals, taken

LEMMA FrameHistory ==
    ASSUME TypeHistory, UNCHANGED ending, UNCHANGED history, UNCHANGED bounds
    PROVE  TypeHistory'
BY Zenon DEF TypeHistory, ending, history, bounds

LEMMA FrameBoundMap ==
    ASSUME BoundMap, UNCHANGED registry, UNCHANGED made, UNCHANGED ending
    PROVE  BoundMap'
BY Zenon DEF BoundMap, registry, ending

Unheld == {"idle", "claimDeath", "nextDelete", "clearSlot", "cleanupScript"}

\* A thread in the middle of an operation has a sandboxState that was created.
LEMMA Working ==
    ASSUME TypeOK, Bound, NEW t \in Threads, pc[t] \notin Unheld
    PROVE  inc[t] \in 1 .. made /\ inc[t] \in Incarnations
<1>1. inc[t] \in Incarnations \cup {NoIncarnation} /\ made \in 0 .. MaxIncarnations
    BY Zenon DEF TypeOK, TypeThreads, TypeSandbox
<1>2. inc[t] <= made /\ inc[t] # NoIncarnation
    BY Zenon DEF Bound, BoundThreads, Unheld
<1>3. QED
    BY <1>1, <1>2, ConstantsAssumption DEF Incarnations, NoIncarnation

\* A step to the next label of an operation.
LEMMA GotoKeeps ==
    ASSUME TypeOK, Bound, NEW t \in Threads, inc[t] # NoIncarnation,
           NEW l \in Labels \ {"claimDeath", "clearSlot", "cleanupScript"},
           Goto(t, l), UNCHANGED <<made, locals, phase>>
    PROVE  TypeThreads' /\ BoundThreads'
<1>1. TypeThreads'
    BY Zenon DEF TypeOK, TypeThreads, Goto, locals, taken
<1>2. BoundThreads'
    BY Zenon DEF TypeOK, TypeThreads, Bound, BoundThreads, Goto, locals, taken
<1>3. QED
    BY Zenon, <1>1, <1>2

\* The return of an operation.
LEMMA ReturnKeeps ==
    ASSUME TypeOK, Bound, NEW t \in Threads, Return(t),
           UNCHANGED made, phase' = phase \/ phase' = "exited"
    PROVE  TypeThreads' /\ BoundThreads'
<1> USE ConstantsAssumption DEF NoIncarnation, NoSlot, NoProcess
<1>1. TypeThreads'
    BY Zenon DEF TypeOK, TypeThreads, Return, Labels
<1>2. made \in Nat
    BY DEF TypeOK, TypeSandbox
<1>3. BoundThreads'
    BY <1>2 DEF TypeOK, TypeThreads, Bound, BoundThreads, Return
<1>4. QED
    BY Zenon, <1>1, <1>3

\* Taking a slot's namespace away from its guests.
LEMMA IsolateType ==
    ASSUME TypeOK, NEW s \in Slots
    PROVE  Isolate(s) \subseteq Guests
<1>1. guests \subseteq Guests
    BY Zenon DEF TypeOK, TypeHost
<1>2. ASSUME NEW g \in guests
      PROVE  Guest(g.inc, g.generation, NoSlot, g.run) \in Guests /\ g \in Guests
    BY Zenon, <1>1 DEF Guests, Guest
<1>3. QED
    BY Zenon, <1>2 DEF Isolate

\* A guest that is resumed or paused.
LEMMA SetRunType ==
    ASSUME TypeOK, NEW g \in guests, NEW run \in {"running", "paused"},
           SetRun(g, run)
    PROVE  guests' \subseteq Guests
<1>1. guests \subseteq Guests
    BY Zenon DEF TypeOK, TypeHost
<1>2. Guest(g.inc, g.generation, g.netns, run) \in Guests
    BY Zenon, <1>1 DEF Guests, Guest
<1>3. QED
    BY Zenon, <1>1, <1>2 DEF SetRun

\* A host call costs at most one of the bounded faults.
LEMMA FaultsType ==
    ASSUME TypeOK, Succeeds \/ Fails
    PROVE  faults' \in 0 .. MaxFaults
BY ConstantsAssumption DEF TypeOK, TypeHistory, Succeeds, Fails

\* A build of a slot's network.
LEMMA SetupNetworkType ==
    ASSUME TypeOK, NEW s \in Slots, NEW block \in BOOLEAN,
           NEW done \in BOOLEAN, SetupNetwork(s, block, done)
    PROVE  /\ wired' \in [Slots -> BOOLEAN]
           /\ netns' \in [Slots -> {"absent", "default", "blocked", "unknown"}]
           /\ guests' \subseteq Guests
           /\ faults' \in 0 .. MaxFaults
<1>1. Isolate(s) \subseteq Guests /\ guests \subseteq Guests
    BY Zenon, IsolateType DEF TypeOK, TypeHost
<1>2. guests' \subseteq Guests
    BY Zenon, <1>1 DEF SetupNetwork
<1>3. faults' \in 0 .. MaxFaults
    BY Zenon, FaultsType DEF SetupNetwork
<1>4. EgressOf(s, block) \in {"absent", "default", "blocked", "unknown"}
    BY Zenon DEF EgressOf, TypeOK, TypeRuntime
<1>5. EgressOf(s, FALSE) \in {"absent", "default", "blocked", "unknown"}
    BY Zenon DEF EgressOf, TypeOK, TypeRuntime
<1>6. wired' \in [Slots -> BOOLEAN]
    BY Zenon DEF SetupNetwork, TypeOK, TypeRuntime
<1>7. netns' \in [Slots -> {"absent", "default", "blocked", "unknown"}]
    BY Zenon, <1>4, <1>5 DEF SetupNetwork, TypeOK, TypeRuntime
<1>8. QED
    BY Zenon, <1>2, <1>3, <1>6, <1>7

\* The wirer's step to the next slot.
LEMMA NextSlotType ==
    ASSUME TypeOK, NextSlot
    PROVE  wirerPc' \in {"scan", "build", "wait"} /\ wirerSlot' \in Slots
<1>1. wirerSlot \in Slots
    BY Zenon DEF TypeOK, TypeRuntime
<1>2. QED
    BY <1>1, ConstantsAssumption DEF NextSlot, Slots

\* A slot that is handed back.
LEMMA ReleaseSlotType ==
    ASSUME TypeOK, NEW i \in Incarnations, ReleaseSlot(i)
    PROVE  slots' \in [Slots -> Ids \cup {Nil}] /\ wireCh' \in BOOLEAN
<1>1. slot[i] \in Slots \cup {NoSlot}
    BY Zenon DEF TypeOK, TypeSandbox
<1>2. QED
    BY Zenon, <1>1 DEF ReleaseSlot, TypeOK, TypeRuntime

\* The end of clearSlotNetwork, in a teardown and in Shutdown's last loop.
LEMMA AfterClearKeeps ==
    ASSUME TypeOK, Bound, NEW t \in Threads, NEW ok \in BOOLEAN,
           AfterClear(t, ok), takenSlot[t] \in Slots, UNCHANGED made
    PROVE  /\ TypeThreads' /\ BoundThreads'
           /\ phase' \in {"up", "shutdown", "exited"}
<1> USE ConstantsAssumption DEF NoIncarnation, NoSlot
<1>1. CASE inc[t] # NoIncarnation
  <2>1. /\ pc' = [pc EXCEPT ![t] = AfterTeardown(t)]
        /\ failed' = [failed EXCEPT ![t] = failed[t] \/ ~ok]
        /\ UNCHANGED <<op, inc, died, captured, coldBoot, taken, phase>>
    BY Zenon, <1>1 DEF AfterClear, Goto
  <2>2. AfterTeardown(t) \in {"released", "removeDataDir"}
    BY Zenon DEF AfterTeardown
  <2>3. TypeThreads'
    BY Zenon, <2>1, <2>2 DEF TypeOK, TypeThreads, taken, Labels
  <2>4. BoundThreads'
    BY Zenon, <1>1, <2>1, <2>2 DEF TypeOK, TypeThreads, Bound, BoundThreads,
                             taken
  <2>5. QED
    BY Zenon, <2>1, <2>3, <2>4 DEF TypeOK, TypeHistory
<1>2. CASE inc[t] = NoIncarnation /\ takenSlot[t] < Capacity - 1
  <2>1. /\ pc' = [pc EXCEPT ![t] = "clearSlot"]
        /\ takenSlot' = [takenSlot EXCEPT ![t] = takenSlot[t] + 1]
        /\ UNCHANGED <<op, inc, died, captured, coldBoot, takenProcess,
                       takenProxy, failed, phase>>
    BY <1>2 DEF AfterClear, Goto
  <2>2. takenSlot[t] + 1 \in Slots
    BY <1>2 DEF Slots
  <2>3. TypeThreads'
    BY Zenon, <2>1, <2>2 DEF TypeOK, TypeThreads, Labels
  <2>4. BoundThreads'
    BY <2>1 DEF Bound, BoundThreads, Slots
  <2>5. QED
    BY Zenon, <2>1, <2>3, <2>4 DEF TypeOK, TypeHistory
<1>3. CASE inc[t] = NoIncarnation /\ takenSlot[t] = Capacity - 1
  <2>1. Return(t) /\ phase' = "exited"
    BY <1>3 DEF AfterClear, Slots
  <2>2. QED
    BY Zenon, <2>1, ReturnKeeps
<1>4. QED
    BY Zenon, <1>1, <1>2, <1>3 DEF AfterClear

-----------------------------------------------------------------------------
(* Each action keeps the types and the binding of threads to sandboxStates: *)
(* one lemma per action.                                                   *)

LEMMA TypeReserveSandbox ==
    ASSUME TypeOK, Bound, NEW t \in Threads, NEW id \in Ids, NEW block \in BOOLEAN, ReserveSandbox(t, id, block)
    PROVE  TypeOK' /\ Bound'
<1> USE ConstantsAssumption
<1>1. TypeHost'
  BY Zenon, FrameHost DEF ReserveSandbox, TypeOK
<1>2. made + 1 \in Incarnations /\ made \in Nat
  BY DEF ReserveSandbox, TypeOK, TypeSandbox, Incarnations
<1>3. TypeRuntime'
  BY <1>2 DEF ReserveSandbox, TypeOK, TypeRuntime, network, wirer
<1>4. TypeSandbox'
  BY <1>2 DEF ReserveSandbox, TypeOK, TypeSandbox, handles
<1>5. TypeThreads'
  BY Zenon, <1>2 DEF ReserveSandbox, TypeOK, TypeThreads, Goto, taken, Labels
<1>6. BoundThreads'
  BY <1>2 DEF ReserveSandbox, Bound, BoundThreads, Goto, TypeOK, TypeThreads, taken,
     NoIncarnation, Incarnations
<1>7. BoundMap'
  BY <1>2 DEF ReserveSandbox, Bound, BoundMap, TypeOK, TypeRuntime, ending, Incarnations,
     NoIncarnation
<1>8. TypeHistory'
  BY DEF ReserveSandbox, TypeOK, TypeHistory, ending, history
<1>9. QED
  BY Zenon, <1>1, <1>3, <1>4, <1>5, <1>6, <1>7, <1>8 DEF TypeOK, Bound

LEMMA TypeCloneAssets ==
    ASSUME TypeOK, Bound, NEW t \in Threads, CloneAssets(t)
    PROVE  TypeOK' /\ Bound'
<1> USE ConstantsAssumption
<1>1. pc[t] = "cloneAssets"
  BY Zenon DEF CloneAssets, At
<1>2. inc[t] \in 1 .. made /\ inc[t] \in Incarnations
  BY Zenon, <1>1, Working DEF Unheld
<1>3. TypeRuntime' /\ TypeSandbox'
  BY Zenon, FrameRuntime, FrameSandbox DEF CloneAssets, TypeOK
<1>4. \E l \in {"prepareJail", "delete"} : Goto(t, l)
  BY Zenon DEF CloneAssets
<1>5. UNCHANGED <<made, locals, phase>>
  BY Zenon DEF CloneAssets, sandbox, identity, ending
<1>6. TypeThreads' /\ BoundThreads'
  BY <1>2, <1>4, <1>5, GotoKeeps DEF NoIncarnation, Labels
<1>7. TypeHost'
  BY Zenon, <1>2 DEF CloneAssets, At, Succeeds, Fails, TypeOK, TypeHost,
         host, TypeSandbox, TypeThreads, TypeRuntime, Guests, NoIncarnation,
         NoSlot, NoProcess, Incarnations
<1>8. TypeHistory'
  BY Zenon, FaultsType DEF CloneAssets, TypeOK, TypeHistory, ending, history,
         bounds
<1>9. BoundMap'
  BY Zenon, FrameBoundMap DEF CloneAssets, Bound, sandbox, identity
<1>10. QED
  BY Zenon, <1>3, <1>6, <1>7, <1>8, <1>9 DEF TypeOK, Bound

LEMMA TypePrepareJail ==
    ASSUME TypeOK, Bound, NEW t \in Threads, PrepareJail(t)
    PROVE  TypeOK' /\ Bound'
<1> USE ConstantsAssumption
<1>1. pc[t] = "prepareJail"
  BY Zenon DEF PrepareJail, At
<1>2. inc[t] \in 1 .. made /\ inc[t] \in Incarnations
  BY Zenon, <1>1, Working DEF Unheld
<1>3. TypeRuntime' /\ TypeSandbox'
  BY Zenon, FrameRuntime, FrameSandbox DEF PrepareJail, TypeOK
<1>4. \E l \in {"setupNetwork", "delete", "teardown"} : Goto(t, l)
  BY Zenon DEF PrepareJail, Rollback
<1>5. UNCHANGED <<made, locals, phase>>
  BY Zenon DEF PrepareJail, sandbox, identity, ending
<1>6. TypeThreads' /\ BoundThreads'
  BY <1>2, <1>4, <1>5, GotoKeeps DEF NoIncarnation, Labels
<1>7. TypeHost'
  BY <1>2 DEF PrepareJail, TypeOK, TypeHost, TypeSandbox
<1>8. TypeHistory'
  BY Zenon, FaultsType DEF PrepareJail, TypeOK, TypeHistory, ending, history,
         bounds
<1>9. BoundMap'
  BY Zenon, FrameBoundMap DEF PrepareJail, Bound, sandbox, identity
<1>10. QED
  BY Zenon, <1>3, <1>6, <1>7, <1>8, <1>9 DEF TypeOK, Bound

LEMMA TypeActivateNetwork ==
    ASSUME TypeOK, Bound, NEW t \in Threads, ActivateNetwork(t)
    PROVE  TypeOK' /\ Bound'
<1> USE ConstantsAssumption
<1>1. pc[t] = "setupNetwork"
  BY Zenon DEF ActivateNetwork, At
<1>2. inc[t] \in 1 .. made /\ inc[t] \in Incarnations
  BY Zenon, <1>1, Working DEF Unheld
<1>3. TypeSandbox'
  BY Zenon, FrameSandbox DEF ActivateNetwork, TypeOK
<1>4. \E l \in {"readGeneration", "delete", "teardown"} : Goto(t, l)
  BY Zenon DEF ActivateNetwork, Rollback
<1>5. UNCHANGED <<made, locals, phase>>
  BY Zenon DEF ActivateNetwork, sandbox, identity, ending
<1>6. TypeThreads' /\ BoundThreads'
  BY <1>2, <1>4, <1>5, GotoKeeps DEF NoIncarnation, Labels
<1>7. \E block, done \in BOOLEAN : SetupNetwork(slot[inc[t]], block, done)
        /\ slot[inc[t]] \in Slots
  BY Zenon, <1>2 DEF ActivateNetwork, TypeOK, TypeSandbox
<1>8. /\ wired' \in [Slots -> BOOLEAN]
      /\ netns' \in [Slots -> {"absent", "default", "blocked", "unknown"}]
      /\ guests' \subseteq Guests
      /\ faults' \in 0 .. MaxFaults
  BY Zenon, <1>7, SetupNetworkType
<1>9. TypeRuntime'
  BY Zenon, <1>7, <1>8 DEF ActivateNetwork, TypeOK, TypeRuntime, registry,
         wirer
<1>10. TypeHost'
  BY Zenon, <1>8 DEF ActivateNetwork, TypeOK, TypeHost
<1>11. TypeHistory'
  BY Zenon, <1>8 DEF ActivateNetwork, TypeOK, TypeHistory, ending, history
<1>12. BoundMap'
  BY Zenon, FrameBoundMap DEF ActivateNetwork, Bound, sandbox, identity
<1>13. QED
  BY Zenon, <1>3, <1>6, <1>9, <1>10, <1>11, <1>12 DEF TypeOK, Bound

LEMMA TypeReadGeneration ==
    ASSUME TypeOK, Bound, NEW t \in Threads, ReadGeneration(t)
    PROVE  TypeOK' /\ Bound'
<1> USE ConstantsAssumption
<1>1. pc[t] = "readGeneration"
  BY Zenon DEF ReadGeneration, At
<1>2. inc[t] \in 1 .. made /\ inc[t] \in Incarnations
  BY Zenon, <1>1, Working DEF Unheld
<1>3. TypeRuntime' /\ TypeSandbox' /\ TypeHost' /\ TypeHistory'
  BY Zenon, FrameRuntime, FrameSandbox, FrameHost, FrameHistory DEF ReadGeneration,
         TypeOK
<1>4. TypeThreads'
  BY Zenon, <1>2 DEF ReadGeneration, At, Goto, TypeOK, TypeThreads, locals,
         taken, TypeSandbox, TypeRuntime, TypeHost, Labels, NoIncarnation,
         NoSlot, NoProcess, Incarnations
<1>5. BoundThreads'
  BY Zenon, <1>2 DEF ReadGeneration, At, Goto, Bound, BoundThreads, TypeOK,
         TypeThreads, TypeSandbox, sandbox, identity, locals, taken, ending,
         NoIncarnation
<1>6. BoundMap'
  BY Zenon, FrameBoundMap DEF ReadGeneration, Bound, sandbox, identity
<1>7. QED
  BY Zenon, <1>3, <1>4, <1>5, <1>6 DEF TypeOK, Bound

LEMMA TypeStartJailer ==
    ASSUME TypeOK, Bound, NEW t \in Threads, StartJailer(t)
    PROVE  TypeOK' /\ Bound'
<1> USE ConstantsAssumption
<1>1. pc[t] = "startJailer"
  BY Zenon DEF StartJailer, At
<1>2. inc[t] \in 1 .. made /\ inc[t] \in Incarnations
  BY Zenon, <1>1, Working DEF Unheld
<1>3. TypeRuntime' /\ TypeSandbox'
  BY Zenon, FrameRuntime, FrameSandbox DEF StartJailer, TypeOK
<1>4. \E l \in {"publishProcess", "delete", "teardown"} : Goto(t, l)
  BY Zenon DEF StartJailer, Rollback
<1>5. UNCHANGED <<made, locals, phase>>
  BY Zenon DEF StartJailer, sandbox, identity, ending
<1>6. TypeThreads' /\ BoundThreads'
  BY <1>2, <1>4, <1>5, GotoKeeps DEF NoIncarnation, Labels
<1>7. TypeHost'
  BY <1>2 DEF StartJailer, Guest, TypeOK, TypeHost, TypeSandbox, TypeThreads, Guests
<1>8. TypeHistory'
  BY Zenon, FaultsType DEF StartJailer, TypeOK, TypeHistory, ending, history,
         bounds
<1>9. BoundMap'
  BY Zenon, FrameBoundMap DEF StartJailer, Bound, sandbox, identity
<1>10. QED
  BY Zenon, <1>3, <1>6, <1>7, <1>8, <1>9 DEF TypeOK, Bound

LEMMA TypePublishProcess ==
    ASSUME TypeOK, Bound, NEW t \in Threads, PublishProcess(t)
    PROVE  TypeOK' /\ Bound'
<1> USE ConstantsAssumption
<1>1. pc[t] = "publishProcess"
  BY Zenon DEF PublishProcess, At
<1>2. inc[t] \in 1 .. made /\ inc[t] \in Incarnations
  BY Zenon, <1>1, Working DEF Unheld
<1>3. TypeRuntime' /\ TypeHost' /\ TypeHistory'
  BY Zenon, FrameRuntime, FrameHost, FrameHistory DEF PublishProcess, TypeOK
<1>4. \E l \in {"waitForSocket", "delete", "teardown"} : Goto(t, l)
  BY Zenon DEF PublishProcess, Rollback
<1>5. UNCHANGED <<made, locals, phase>>
  BY Zenon DEF PublishProcess, sandbox, identity, ending
<1>6. TypeThreads' /\ BoundThreads'
  BY <1>2, <1>4, <1>5, GotoKeeps DEF NoIncarnation, Labels
<1>7. TypeSandbox'
  BY Zenon, <1>2 DEF PublishProcess, TypeOK, TypeThreads, TypeSandbox,
         identity, place, status
<1>8. BoundMap'
  BY Zenon, FrameBoundMap DEF PublishProcess, Bound, sandbox, identity
<1>9. QED
  BY Zenon, <1>3, <1>6, <1>7, <1>8 DEF TypeOK, Bound

LEMMA TypePinGuest ==
    ASSUME TypeOK, Bound, NEW t \in Threads, PinGuest(t)
    PROVE  TypeOK' /\ Bound'
<1> USE ConstantsAssumption
<1>1. pc[t] = "waitForSocket"
  BY Zenon DEF PinGuest, At
<1>2. inc[t] \in 1 .. made /\ inc[t] \in Incarnations
  BY Zenon, <1>1, Working DEF Unheld
<1>3. TypeRuntime' /\ TypeHost'
  BY Zenon, FrameRuntime, FrameHost DEF PinGuest, TypeOK
<1>4. \E l \in {"startGuest", "delete", "teardown"} : Goto(t, l)
  BY Zenon DEF PinGuest, Rollback
<1>5. TypeThreads'
  BY <1>2, <1>4 DEF PinGuest, TypeOK, TypeThreads, TypeSandbox, Goto, taken, Labels
<1>6. BoundThreads'
  BY <1>2, <1>4 DEF PinGuest, Bound, BoundThreads, Goto, identity, taken, ending, NoIncarnation
<1>7. TypeSandbox'
  BY Zenon, <1>2 DEF PinGuest, Pin, TypeOK, TypeSandbox, identity, place, handles
<1>8. TypeHistory'
  BY Zenon, FaultsType DEF PinGuest, TypeOK, TypeHistory, ending, history,
         bounds
<1>9. BoundMap'
  BY Zenon, FrameBoundMap DEF PinGuest, Bound, sandbox, identity
<1>10. QED
  BY Zenon, <1>3, <1>5, <1>6, <1>7, <1>8, <1>9 DEF TypeOK, Bound

LEMMA TypeStartGuest ==
    ASSUME TypeOK, Bound, NEW t \in Threads, StartGuest(t)
    PROVE  TypeOK' /\ Bound'
<1> USE ConstantsAssumption
<1>1. pc[t] = "startGuest"
  BY Zenon DEF StartGuest, At
<1>2. inc[t] \in 1 .. made /\ inc[t] \in Incarnations
  BY Zenon, <1>1, Working DEF Unheld
<1>3. TypeRuntime' /\ TypeSandbox'
  BY Zenon, FrameRuntime, FrameSandbox DEF StartGuest, TypeOK
<1>4. \E l \in {"newProxy", "delete", "teardown"} : Goto(t, l)
  BY Zenon DEF StartGuest, Rollback
<1>5. UNCHANGED <<made, locals, phase>>
  BY Zenon DEF StartGuest, sandbox, identity, ending
<1>6. TypeThreads' /\ BoundThreads'
  BY <1>2, <1>4, <1>5, GotoKeeps DEF NoIncarnation, Labels
<1>7. guests' = guests \/ \E g \in guests : SetRun(g, "running")
  BY Zenon DEF StartGuest
<1>8. guests' \subseteq Guests
  BY Zenon, <1>7, SetRunType DEF TypeOK, TypeHost
<1>9. TypeHost'
  BY Zenon, <1>8, <1>2 DEF StartGuest, TypeOK, TypeHost, TypeSandbox
<1>10. TypeHistory'
  BY Zenon, FaultsType DEF StartGuest, TypeOK, TypeHistory, ending, history,
         bounds
<1>11. BoundMap'
  BY Zenon, FrameBoundMap DEF StartGuest, Bound, sandbox, identity
<1>12. QED
  BY Zenon, <1>3, <1>6, <1>9, <1>10, <1>11 DEF TypeOK, Bound

LEMMA TypeNewProxy ==
    ASSUME TypeOK, Bound, NEW t \in Threads, NewProxy(t)
    PROVE  TypeOK' /\ Bound'
<1> USE ConstantsAssumption
<1>1. pc[t] = "newProxy"
  BY Zenon DEF NewProxy, At
<1>2. inc[t] \in 1 .. made /\ inc[t] \in Incarnations
  BY Zenon, <1>1, Working DEF Unheld
<1>3. TypeRuntime' /\ TypeSandbox'
  BY Zenon, FrameRuntime, FrameSandbox DEF NewProxy, TypeOK
<1>4. \E l \in {"publishProxy", "delete", "teardown"} : Goto(t, l)
  BY Zenon DEF NewProxy, Rollback
<1>5. url[inc[t]] \in Slots
  BY Zenon, <1>2 DEF TypeOK, TypeSandbox
<1>6. TypeThreads'
  BY <1>4, <1>5 DEF NewProxy, TypeOK, TypeThreads, Goto, Labels
<1>7. BoundThreads'
  BY <1>2, <1>4 DEF NewProxy, Bound, BoundThreads, Goto, sandbox, identity, ending,
     NoIncarnation
<1>8. TypeHost'
  BY Zenon, <1>2 DEF NewProxy, At, Goto, Succeeds, Fails, Rollback, TypeOK,
         TypeHost, host, TypeSandbox, TypeThreads, TypeRuntime, Guests,
         NoIncarnation, NoSlot, NoProcess, Incarnations
<1>9. TypeHistory'
  BY Zenon, FaultsType DEF NewProxy, TypeOK, TypeHistory, ending, history,
         bounds
<1>10. BoundMap'
  BY Zenon, FrameBoundMap DEF NewProxy, Bound, sandbox, identity
<1>11. QED
  BY Zenon, <1>3, <1>6, <1>7, <1>8, <1>9, <1>10 DEF TypeOK, Bound

LEMMA TypePublishProxy ==
    ASSUME TypeOK, Bound, NEW t \in Threads, PublishProxy(t)
    PROVE  TypeOK' /\ Bound'
<1> USE ConstantsAssumption
<1>1. pc[t] = "publishProxy"
  BY Zenon DEF PublishProxy, At
<1>2. inc[t] \in 1 .. made /\ inc[t] \in Incarnations
  BY Zenon, <1>1, Working DEF Unheld
<1>3. TypeRuntime' /\ TypeHost' /\ TypeHistory'
  BY Zenon, FrameRuntime, FrameHost, FrameHistory DEF PublishProxy, TypeOK
<1>4. \E l \in {"probeDaemon", "delete", "teardown"} : Goto(t, l)
  BY Zenon DEF PublishProxy, Rollback
<1>5. UNCHANGED <<made, locals, phase>>
  BY Zenon DEF PublishProxy, sandbox, identity, ending
<1>6. TypeThreads' /\ BoundThreads'
  BY <1>2, <1>4, <1>5, GotoKeeps DEF NoIncarnation, Labels
<1>7. TypeSandbox'
  BY Zenon, <1>2 DEF PublishProxy, TypeOK, TypeThreads, TypeSandbox,
         identity, place, status
<1>8. BoundMap'
  BY Zenon, FrameBoundMap DEF PublishProxy, Bound, sandbox, identity
<1>9. QED
  BY Zenon, <1>3, <1>6, <1>7, <1>8 DEF TypeOK, Bound

LEMMA TypeProbeDaemon ==
    ASSUME TypeOK, Bound, NEW t \in Threads, ProbeDaemon(t)
    PROVE  TypeOK' /\ Bound'
<1> USE ConstantsAssumption
<1>1. pc[t] = "probeDaemon"
  BY Zenon DEF ProbeDaemon, At
<1>2. inc[t] \in 1 .. made /\ inc[t] \in Incarnations
  BY Zenon, <1>1, Working DEF Unheld
<1>3. TypeRuntime' /\ TypeSandbox' /\ TypeHost'
  BY Zenon, FrameRuntime, FrameSandbox, FrameHost DEF ProbeDaemon, TypeOK
<1>4. \E l \in {"activated", "delete", "teardown"} : Goto(t, l)
  BY Zenon DEF ProbeDaemon, Rollback
<1>5. UNCHANGED <<made, locals, phase>>
  BY Zenon DEF ProbeDaemon, sandbox, identity, ending
<1>6. TypeThreads' /\ BoundThreads'
  BY <1>2, <1>4, <1>5, GotoKeeps DEF NoIncarnation, Labels
<1>7. TypeHistory'
  BY Zenon, FaultsType DEF ProbeDaemon, TypeOK, TypeHistory, ending,
         history, bounds
<1>8. BoundMap'
  BY Zenon, FrameBoundMap DEF ProbeDaemon, Bound, sandbox, identity
<1>9. QED
  BY Zenon, <1>3, <1>6, <1>7, <1>8 DEF TypeOK, Bound

LEMMA TypeFinishCreate ==
    ASSUME TypeOK, Bound, NEW t \in Threads, FinishCreate(t)
    PROVE  TypeOK' /\ Bound'
<1> USE ConstantsAssumption
<1>1. pc[t] = "activated"
  BY Zenon DEF FinishCreate, At
<1>2. inc[t] \in 1 .. made /\ inc[t] \in Incarnations
  BY Zenon, <1>1, Working DEF Unheld
<1>3. TypeRuntime' /\ TypeHost' /\ TypeHistory'
  BY Zenon, FrameRuntime, FrameHost, FrameHistory DEF FinishCreate, TypeOK
<1>4. TypeThreads' /\ BoundThreads'
  BY Zenon, ReturnKeeps DEF FinishCreate, identity, ending
<1>5. TypeSandbox'
  BY Zenon, <1>2 DEF FinishCreate, TypeOK, TypeSandbox, sandbox, identity, place,
         handles, status
<1>6. BoundMap'
  BY Zenon, FrameBoundMap DEF FinishCreate, Bound, sandbox, identity
<1>7. QED
  BY Zenon, <1>3, <1>4, <1>5, <1>6 DEF TypeOK, Bound

LEMMA TypeFinishWake ==
    ASSUME TypeOK, Bound, NEW t \in Threads, FinishWake(t)
    PROVE  TypeOK' /\ Bound'
<1> USE ConstantsAssumption
<1>1. pc[t] = "activated"
  BY Zenon DEF FinishWake, At
<1>2. inc[t] \in 1 .. made /\ inc[t] \in Incarnations
  BY Zenon, <1>1, Working DEF Unheld
<1>3. TypeRuntime' /\ TypeHost' /\ TypeHistory'
  BY Zenon, FrameRuntime, FrameHost, FrameHistory DEF FinishWake, TypeOK
<1>4. \E l \in {"endTransition"} : Goto(t, l)
  BY Zenon DEF FinishWake
<1>5. UNCHANGED <<made, locals, phase>>
  BY Zenon DEF FinishWake, sandbox, identity, ending
<1>6. TypeThreads' /\ BoundThreads'
  BY <1>2, <1>4, <1>5, GotoKeeps DEF NoIncarnation, Labels
<1>7. TypeSandbox'
  BY Zenon, <1>2 DEF FinishWake, TypeOK, TypeSandbox, sandbox, identity, place,
         handles, status
<1>8. BoundMap'
  BY Zenon, FrameBoundMap DEF FinishWake, Bound, sandbox, identity
<1>9. QED
  BY Zenon, <1>3, <1>6, <1>7, <1>8 DEF TypeOK, Bound

LEMMA TypeBeginTransition ==
    ASSUME TypeOK, Bound, NEW t \in Threads, NEW id \in Ids, NEW kind \in {"stop", "wake", "delete"}, BeginTransition(t, id, kind)
    PROVE  TypeOK' /\ Bound'
<1> USE ConstantsAssumption
<1>1. TypeRuntime' /\ TypeHost'
  BY Zenon, FrameRuntime, FrameHost DEF BeginTransition, TypeOK
<1>2. TypeSandbox'
  BY Zenon DEF BeginTransition, At, Goto, Claim, Claimable, TypeOK, TypeSandbox,
         sandbox, identity, place, handles, status, TypeThreads, TypeRuntime,
         TypeHost, Slots, NoIncarnation, NoSlot, NoProcess, Incarnations
<1>3. TypeThreads'
  BY Zenon DEF BeginTransition, At, Goto, Claim, Claimable, TypeOK, TypeThreads,
         locals, taken, TypeSandbox, TypeRuntime, TypeHost, Labels,
         NoIncarnation, NoSlot, NoProcess, Incarnations
<1>4. TypeHistory'
  <2>1. sandboxes[id] \in Incarnations
    BY Zenon DEF BeginTransition, TypeOK, TypeRuntime
  <2>2. lateWakes' \subseteq Incarnations
    BY Zenon, <2>1 DEF BeginTransition, TypeOK, TypeHistory
  <2>3. ops' \in 0 .. MaxOps
    BY DEF BeginTransition, TypeOK, TypeHistory
  <2>4. QED
    BY Zenon, <2>2, <2>3 DEF BeginTransition, TypeOK, TypeHistory, ending
<1>5. BoundThreads'
  <2>1. sandboxes[id] # NoIncarnation /\ sandboxes[id] <= made
    BY Zenon DEF BeginTransition, Bound, BoundMap
  <2>2. kind \notin {"claimDeath", "clearSlot", "cleanupScript", "shutdown"}
    BY Zenon
  <2>3. QED
    BY Zenon, <2>1, <2>2 DEF BeginTransition, Goto, Bound, BoundThreads,
           TypeOK, TypeThreads, identity, taken, ending
<1>6. BoundMap'
  BY Zenon, FrameBoundMap DEF BeginTransition, Bound, sandbox, identity
<1>7. QED
  BY Zenon, <1>1, <1>2, <1>3, <1>4, <1>5, <1>6 DEF TypeOK, Bound

LEMMA TypeEndTransition ==
    ASSUME TypeOK, Bound, NEW t \in Threads, EndTransition(t)
    PROVE  TypeOK' /\ Bound'
<1> USE ConstantsAssumption
<1>1. pc[t] = "endTransition"
  BY Zenon DEF EndTransition, At
<1>2. inc[t] \in 1 .. made /\ inc[t] \in Incarnations
  BY Zenon, <1>1, Working DEF Unheld
<1>3. TypeRuntime' /\ TypeHost' /\ TypeHistory'
  BY Zenon, FrameRuntime, FrameHost, FrameHistory DEF EndTransition, TypeOK
<1>4. TypeThreads' /\ BoundThreads'
  BY Zenon, ReturnKeeps DEF EndTransition, identity, ending
<1>5. TypeSandbox'
  BY Zenon, <1>2 DEF EndTransition, TypeOK, TypeSandbox, sandbox, identity, place,
         handles, status
<1>6. BoundMap'
  BY Zenon, FrameBoundMap DEF EndTransition, Bound, sandbox, identity
<1>7. QED
  BY Zenon, <1>3, <1>4, <1>5, <1>6 DEF TypeOK, Bound

LEMMA TypeCheckStop ==
    ASSUME TypeOK, Bound, NEW t \in Threads, CheckStop(t)
    PROVE  TypeOK' /\ Bound'
<1> USE ConstantsAssumption
<1>1. pc[t] = "stop"
  BY Zenon DEF CheckStop, At
<1>2. inc[t] \in 1 .. made /\ inc[t] \in Incarnations
  BY Zenon, <1>1, Working DEF Unheld
<1>3. TypeRuntime' /\ TypeSandbox' /\ TypeHost'
  BY Zenon, FrameRuntime, FrameSandbox, FrameHost DEF CheckStop, TypeOK
<1>4. \E l \in {"pauseVM", "endTransition"} : Goto(t, l)
  BY Zenon DEF CheckStop
<1>5. UNCHANGED <<made, locals, phase>>
  BY Zenon DEF CheckStop, sandbox, identity, ending
<1>6. TypeThreads' /\ BoundThreads'
  BY <1>2, <1>4, <1>5, GotoKeeps DEF NoIncarnation, Labels
<1>7. TypeHistory'
  BY Zenon, FaultsType DEF CheckStop, TypeOK, TypeHistory, ending, history,
         bounds
<1>8. BoundMap'
  BY Zenon, FrameBoundMap DEF CheckStop, Bound, sandbox, identity
<1>9. QED
  BY Zenon, <1>3, <1>6, <1>7, <1>8 DEF TypeOK, Bound

LEMMA TypePauseVM ==
    ASSUME TypeOK, Bound, NEW t \in Threads, PauseVM(t)
    PROVE  TypeOK' /\ Bound'
<1> USE ConstantsAssumption
<1>1. pc[t] = "pauseVM"
  BY Zenon DEF PauseVM, At
<1>2. inc[t] \in 1 .. made /\ inc[t] \in Incarnations
  BY Zenon, <1>1, Working DEF Unheld
<1>3. TypeRuntime' /\ TypeSandbox'
  BY Zenon, FrameRuntime, FrameSandbox DEF PauseVM, TypeOK
<1>4. \E l \in {"createSnapshot", "resumeVM"} : Goto(t, l)
  BY Zenon DEF PauseVM
<1>5. UNCHANGED <<made, locals, phase>>
  BY Zenon DEF PauseVM, sandbox, identity, ending
<1>6. TypeThreads' /\ BoundThreads'
  BY <1>2, <1>4, <1>5, GotoKeeps DEF NoIncarnation, Labels
<1>7. guests' = guests \/ \E g \in guests : SetRun(g, "paused")
  BY Zenon DEF PauseVM
<1>8. guests' \subseteq Guests
  BY Zenon, <1>7, SetRunType DEF TypeOK, TypeHost
<1>9. TypeHost'
  BY Zenon, <1>8, <1>2 DEF PauseVM, TypeOK, TypeHost, TypeSandbox
<1>10. TypeHistory'
  BY Zenon, FaultsType DEF PauseVM, TypeOK, TypeHistory, ending, history,
         bounds
<1>11. BoundMap'
  BY Zenon, FrameBoundMap DEF PauseVM, Bound, sandbox, identity
<1>12. QED
  BY Zenon, <1>3, <1>6, <1>9, <1>10, <1>11 DEF TypeOK, Bound

LEMMA TypeCreateSnapshot ==
    ASSUME TypeOK, Bound, NEW t \in Threads, CreateSnapshot(t)
    PROVE  TypeOK' /\ Bound'
<1> USE ConstantsAssumption
<1>1. pc[t] = "createSnapshot"
  BY Zenon DEF CreateSnapshot, At
<1>2. inc[t] \in 1 .. made /\ inc[t] \in Incarnations
  BY Zenon, <1>1, Working DEF Unheld
<1>3. TypeRuntime' /\ TypeSandbox'
  BY Zenon, FrameRuntime, FrameSandbox DEF CreateSnapshot, TypeOK
<1>4. \E l \in {"unpin", "resumeVM"} : Goto(t, l)
  BY Zenon DEF CreateSnapshot
<1>5. UNCHANGED <<made, locals, phase>>
  BY Zenon DEF CreateSnapshot, sandbox, identity, ending
<1>6. TypeThreads' /\ BoundThreads'
  BY <1>2, <1>4, <1>5, GotoKeeps DEF NoIncarnation, Labels
<1>7. disk' = disk \/ \E d \in {"match", "stale"} :
        disk' = [disk EXCEPT ![idOf[inc[t]]] = d]
  BY Zenon DEF CreateSnapshot
<1>8. TypeHost'
  BY Zenon, <1>7, <1>2 DEF CreateSnapshot, TypeOK, TypeHost, TypeSandbox
<1>9. TypeHistory'
  BY Zenon, FaultsType DEF CreateSnapshot, TypeOK, TypeHistory, ending,
         history, bounds
<1>10. BoundMap'
  BY Zenon, FrameBoundMap DEF CreateSnapshot, Bound, sandbox, identity
<1>11. QED
  BY Zenon, <1>3, <1>6, <1>8, <1>9, <1>10 DEF TypeOK, Bound

LEMMA TypeUnpin ==
    ASSUME TypeOK, Bound, NEW t \in Threads, Unpin(t)
    PROVE  TypeOK' /\ Bound'
<1> USE ConstantsAssumption
<1>1. pc[t] = "unpin"
  BY Zenon DEF Unpin, At
<1>2. inc[t] \in 1 .. made /\ inc[t] \in Incarnations
  BY Zenon, <1>1, Working DEF Unheld
<1>3. TypeRuntime' /\ TypeHost' /\ TypeHistory'
  BY Zenon, FrameRuntime, FrameHost, FrameHistory DEF Unpin, TypeOK
<1>4. \E l \in {"teardown"} : Goto(t, l)
  BY Zenon DEF Unpin
<1>5. UNCHANGED <<made, locals, phase>>
  BY Zenon DEF Unpin, sandbox, identity, ending
<1>6. TypeThreads' /\ BoundThreads'
  BY <1>2, <1>4, <1>5, GotoKeeps DEF NoIncarnation, Labels
<1>7. TypeSandbox'
  BY Zenon, <1>2 DEF Unpin, TypeOK, TypeSandbox, sandbox, identity, place, handles,
         status
<1>8. BoundMap'
  BY Zenon, FrameBoundMap DEF Unpin, Bound, sandbox, identity
<1>9. QED
  BY Zenon, <1>3, <1>6, <1>7, <1>8 DEF TypeOK, Bound

LEMMA TypeResumeVM ==
    ASSUME TypeOK, Bound, NEW t \in Threads, ResumeVM(t)
    PROVE  TypeOK' /\ Bound'
<1> USE ConstantsAssumption
<1>1. pc[t] = "resumeVM"
  BY Zenon DEF ResumeVM, At
<1>2. inc[t] \in 1 .. made /\ inc[t] \in Incarnations
  BY Zenon, <1>1, Working DEF Unheld
<1>3. TypeRuntime' /\ TypeSandbox'
  BY Zenon, FrameRuntime, FrameSandbox DEF ResumeVM, TypeOK
<1>4. \E l \in {"endTransition", "teardown"} : Goto(t, l)
  BY Zenon DEF ResumeVM
<1>5. UNCHANGED <<made, locals, phase>>
  BY Zenon DEF ResumeVM, sandbox, identity, ending
<1>6. TypeThreads' /\ BoundThreads'
  BY <1>2, <1>4, <1>5, GotoKeeps DEF NoIncarnation, Labels
<1>7. guests' = guests \/ \E g \in guests : SetRun(g, "running")
  BY Zenon DEF ResumeVM
<1>8. guests' \subseteq Guests
  BY Zenon, <1>7, SetRunType DEF TypeOK, TypeHost
<1>9. TypeHost'
  BY Zenon, <1>8, <1>2 DEF ResumeVM, TypeOK, TypeHost, TypeSandbox
<1>10. TypeHistory'
  BY Zenon, FaultsType DEF ResumeVM, TypeOK, TypeHistory, ending, history,
         bounds
<1>11. BoundMap'
  BY Zenon, FrameBoundMap DEF ResumeVM, Bound, sandbox, identity
<1>12. QED
  BY Zenon, <1>3, <1>6, <1>9, <1>10, <1>11 DEF TypeOK, Bound

LEMMA TypeBecomeStopped ==
    ASSUME TypeOK, Bound, NEW t \in Threads, BecomeStopped(t)
    PROVE  TypeOK' /\ Bound'
<1> USE ConstantsAssumption
<1>1. pc[t] = "released"
  BY Zenon DEF BecomeStopped, At
<1>2. inc[t] \in 1 .. made /\ inc[t] \in Incarnations
  BY Zenon, <1>1, Working DEF Unheld
<1>3. TypeHost' /\ TypeHistory'
  BY Zenon, FrameHost, FrameHistory DEF BecomeStopped, TypeOK
<1>4. \E l \in {"endTransition"} : Goto(t, l)
  BY Zenon DEF BecomeStopped
<1>5. UNCHANGED <<made, locals, phase>>
  BY Zenon DEF BecomeStopped, sandbox, identity, ending
<1>6. TypeThreads' /\ BoundThreads'
  BY <1>2, <1>4, <1>5, GotoKeeps DEF NoIncarnation, Labels
<1>7. slots' \in [Slots -> Ids \cup {Nil}] /\ wireCh' \in BOOLEAN
  BY Zenon, <1>2, ReleaseSlotType DEF BecomeStopped
<1>8. TypeRuntime'
  BY Zenon, <1>7 DEF BecomeStopped, TypeOK, TypeRuntime, network, wirer
<1>9. TypeSandbox'
  BY Zenon, <1>2 DEF BecomeStopped, ReleaseSlot, TypeOK, TypeSandbox, sandbox,
         identity, place, handles, status
<1>10. BoundMap'
  BY Zenon DEF BecomeStopped, Bound, BoundMap, registry, sandbox, identity, ending
<1>11. QED
  BY Zenon, <1>3, <1>6, <1>8, <1>9, <1>10 DEF TypeOK, Bound

LEMMA TypeCheckWake ==
    ASSUME TypeOK, Bound, NEW t \in Threads, CheckWake(t)
    PROVE  TypeOK' /\ Bound'
<1> USE ConstantsAssumption
<1>1. pc[t] = "wake"
  BY Zenon DEF CheckWake, At
<1>2. inc[t] \in 1 .. made /\ inc[t] \in Incarnations
  BY Zenon, <1>1, Working DEF Unheld
<1>3. TypeRuntime' /\ TypeSandbox' /\ TypeHost' /\ TypeHistory'
  BY Zenon, FrameRuntime, FrameSandbox, FrameHost, FrameHistory DEF CheckWake,
         TypeOK
<1>4. \E l \in {"endTransition", "reserveWakeSlot"} : Goto(t, l)
  BY Zenon DEF CheckWake
<1>5. UNCHANGED <<made, locals, phase>>
  BY Zenon DEF CheckWake, sandbox, identity, ending
<1>6. TypeThreads' /\ BoundThreads'
  BY <1>2, <1>4, <1>5, GotoKeeps DEF NoIncarnation, Labels
<1>7. BoundMap'
  BY Zenon, FrameBoundMap DEF CheckWake, Bound, sandbox, identity
<1>8. QED
  BY Zenon, <1>3, <1>6, <1>7 DEF TypeOK, Bound

LEMMA TypeReserveWakeSlot ==
    ASSUME TypeOK, Bound, NEW t \in Threads, ReserveWakeSlot(t)
    PROVE  TypeOK' /\ Bound'
<1> USE ConstantsAssumption
<1>1. pc[t] = "reserveWakeSlot"
  BY Zenon DEF ReserveWakeSlot, At
<1>2. inc[t] \in 1 .. made /\ inc[t] \in Incarnations
  BY Zenon, <1>1, Working DEF Unheld
<1>3. TypeHost' /\ TypeHistory'
  BY Zenon, FrameHost, FrameHistory DEF ReserveWakeSlot, TypeOK
<1>4. \E l \in {"prepareJail", "endTransition"} : Goto(t, l)
  BY Zenon DEF ReserveWakeSlot
<1>5. UNCHANGED <<made, locals, phase>>
  BY Zenon DEF ReserveWakeSlot, sandbox, identity, ending
<1>6. TypeThreads' /\ BoundThreads'
  BY <1>2, <1>4, <1>5, GotoKeeps DEF NoIncarnation, Labels
<1>7. idOf[inc[t]] \in Ids
  BY Zenon, <1>2 DEF TypeOK, TypeSandbox
<1>8. TypeRuntime'
  BY Zenon, <1>7 DEF ReserveWakeSlot, TypeOK, TypeRuntime, network, wirer
<1>9. TypeSandbox'
  BY DEF ReserveWakeSlot, TypeOK, TypeSandbox, identity, place, handles, status
<1>10. BoundMap'
  BY Zenon DEF ReserveWakeSlot, Bound, BoundMap, registry, sandbox, identity,
         ending
<1>11. QED
  BY Zenon, <1>3, <1>6, <1>8, <1>9, <1>10 DEF TypeOK, Bound

LEMMA TypeTakeHandles ==
    ASSUME TypeOK, Bound, NEW t \in Threads, TakeHandles(t)
    PROVE  TypeOK' /\ Bound'
<1> USE ConstantsAssumption
<1>1. pc[t] = "teardown"
  BY Zenon DEF TakeHandles, At
<1>2. inc[t] \in 1 .. made /\ inc[t] \in Incarnations
  BY Zenon, <1>1, Working DEF Unheld
<1>3. TypeRuntime' /\ TypeHost' /\ TypeHistory'
  BY Zenon, FrameRuntime, FrameHost, FrameHistory DEF TakeHandles, TypeOK
<1>4. generation' \in [Incarnations -> Nat]
  BY <1>2 DEF TakeHandles, BumpGeneration, TypeOK, TypeSandbox
<1>5. TypeSandbox'
  BY Zenon, <1>2, <1>4 DEF TakeHandles, TypeOK, TypeSandbox, identity, place, status
<1>6. TypeThreads'
  BY Zenon, <1>2 DEF TakeHandles, Goto, TypeOK, TypeThreads, TypeSandbox, Labels
<1>7. BoundThreads'
  BY Zenon, <1>2 DEF TakeHandles, At, Goto, Bound, BoundThreads, TypeOK,
         TypeThreads, TypeSandbox, sandbox, identity, locals, taken, ending,
         NoIncarnation
<1>8. BoundMap'
  BY Zenon, FrameBoundMap DEF TakeHandles, Bound, sandbox, identity
<1>9. QED
  BY Zenon, <1>3, <1>5, <1>6, <1>7, <1>8 DEF TypeOK, Bound

LEMMA TypeStopAndKill ==
    ASSUME TypeOK, Bound, NEW t \in Threads, StopAndKill(t)
    PROVE  TypeOK' /\ Bound'
<1> USE ConstantsAssumption
<1>1. pc[t] = "kill"
  BY Zenon DEF StopAndKill, At
<1>2. inc[t] \in 1 .. made /\ inc[t] \in Incarnations
  BY Zenon, <1>1, Working DEF Unheld
<1>3. TypeRuntime' /\ TypeSandbox'
  BY Zenon, FrameRuntime, FrameSandbox DEF StopAndKill, TypeOK
<1>4. \A g \in guests : <<g.inc, g.generation>> \in Incarnations \X Nat
  BY Zenon DEF TypeOK, TypeHost, Guests
<1>5. guests' \subseteq Guests /\ exits' \subseteq Incarnations \X Nat
      /\ killed' \subseteq Incarnations \X Nat
  <2> DEFINE gone == {<<g.inc, g.generation>> :
                         g \in {h \in guests : /\ h.inc = inc[t]
                                               /\ h.generation = takenProcess[t]}}
  <2>1. gone \subseteq Incarnations \X Nat
    BY Zenon, <1>4
  <2>2. exits' = exits \cup gone /\ killed' = killed \cup gone
    BY Zenon DEF StopAndKill
  <2>3. guests' \subseteq guests
    BY Zenon DEF StopAndKill
  <2> HIDE DEF gone
  <2>4. QED
    BY Zenon, <2>1, <2>2, <2>3 DEF TypeOK, TypeHost, TypeHistory
<1>6. jails' \subseteq Ids /\ ports' \in [Slots -> Incarnations \cup {NoIncarnation}]
  BY Zenon, <1>2 DEF StopAndKill, TypeOK, TypeHost, TypeSandbox
<1>7. TypeHost'
  BY Zenon, <1>5, <1>6 DEF StopAndKill, TypeOK, TypeHost
<1>8. faults' \in 0 .. MaxFaults
  BY Zenon, FaultsType DEF StopAndKill
<1>9. TypeHistory'
  BY Zenon, <1>5, <1>8 DEF StopAndKill, TypeOK, TypeHistory, ending
<1>10. TypeThreads'
  BY Zenon DEF StopAndKill, Goto, AfterTeardown, TypeOK, TypeThreads, taken, Labels
<1>11. BoundThreads'
  <2>1. PICK l \in {"released", "removeDataDir", "clearSlot"} :
            Goto(t, l) /\ (l = "clearSlot" => takenSlot[t] # NoSlot)
    BY Zenon DEF StopAndKill, AfterTeardown
  <2>2. UNCHANGED <<made, op, inc, died, takenSlot, phase>>
    BY Zenon DEF StopAndKill, sandbox, identity, taken, ending
  <2>3. QED
    BY <1>2, <2>1, <2>2 DEF Goto, Bound, BoundThreads, NoIncarnation
<1>12. BoundMap'
  BY Zenon, FrameBoundMap DEF StopAndKill, Bound, sandbox, identity
<1>13. QED
  BY Zenon, <1>3, <1>7, <1>9, <1>10, <1>11, <1>12 DEF TypeOK, Bound

LEMMA TypeClearSlotNetwork ==
    ASSUME TypeOK, Bound, NEW t \in Threads, ClearSlotNetwork(t)
    PROVE  TypeOK' /\ Bound'
<1> USE ConstantsAssumption
<1>1. pc[t] = "clearSlot"
  BY Zenon DEF ClearSlotNetwork, At
<1>2. takenSlot[t] \in Slots
  BY Zenon, <1>1 DEF TypeOK, TypeThreads, Bound, BoundThreads,
                      NoSlot
<1>3. TypeSandbox' /\ TypeHost'
  BY Zenon, FrameSandbox, FrameHost DEF ClearSlotNetwork, TypeOK
<1>4. \/ Goto(t, "cleanupScript") /\ UNCHANGED <<locals, phase>>
      \/ AfterClear(t, TRUE)
  BY Zenon DEF ClearSlotNetwork
<1>5. UNCHANGED made
  BY Zenon DEF ClearSlotNetwork, sandbox, identity
<1>6. AfterClear(t, TRUE) => TypeThreads' /\ BoundThreads' /\ phase' \in {"up", "shutdown", "exited"}
  BY Zenon, <1>2, <1>5, AfterClearKeeps
<1>7. Goto(t, "cleanupScript") /\ UNCHANGED <<locals, phase>> =>
        TypeThreads' /\ BoundThreads' /\ phase' \in {"up", "shutdown", "exited"}
  BY <1>1, <1>5 DEF TypeOK, TypeThreads, TypeHistory, Bound, BoundThreads, Goto, locals, taken,
     Labels
<1>8. TypeThreads' /\ BoundThreads' /\ phase' \in {"up", "shutdown", "exited"}
  BY Zenon, <1>4, <1>6, <1>7
<1>9. TypeHistory'
  BY Zenon, <1>8 DEF ClearSlotNetwork, TypeOK, TypeHistory, history, bounds
<1>10. netMu' \in [Slots -> Threads \cup {Nil}] /\ wired' \in [Slots -> BOOLEAN]
  <2>1. \/ /\ netMu' = [netMu EXCEPT ![takenSlot[t]] = t]
           /\ wired' = [wired EXCEPT ![takenSlot[t]] = FALSE]
        \/ UNCHANGED <<netMu, wired>>
    BY Zenon DEF ClearSlotNetwork
  <2>2. /\ netMu \in [Slots -> Threads \cup {Nil}]
        /\ wired \in [Slots -> BOOLEAN]
    BY Zenon DEF TypeOK, TypeRuntime
  <2>3. QED
    BY Zenon, <1>2, <2>1, <2>2
<1>11. TypeRuntime'
  BY Zenon, <1>10 DEF ClearSlotNetwork, TypeOK, TypeRuntime, registry, wirer
<1>12. BoundMap'
  BY Zenon DEF ClearSlotNetwork, Bound, BoundMap, registry, sandbox, identity,
         ending
<1>13. QED
  BY Zenon, <1>3, <1>8, <1>9, <1>11, <1>12 DEF TypeOK, Bound

LEMMA TypeRunCleanupScript ==
    ASSUME TypeOK, Bound, NEW t \in Threads, RunCleanupScript(t)
    PROVE  TypeOK' /\ Bound'
<1> USE ConstantsAssumption
<1>1. pc[t] = "cleanupScript"
  BY Zenon DEF RunCleanupScript, At
<1>2. takenSlot[t] \in Slots
  BY Zenon, <1>1 DEF TypeOK, TypeThreads, Bound, BoundThreads,
                      NoSlot
<1>3. TypeSandbox'
  BY Zenon, FrameSandbox DEF RunCleanupScript, TypeOK
<1>4. \E ok \in BOOLEAN : AfterClear(t, ok)
  BY Zenon DEF RunCleanupScript
<1>5. UNCHANGED made
  BY Zenon DEF RunCleanupScript, sandbox, identity
<1>6. TypeThreads' /\ BoundThreads' /\ phase' \in {"up", "shutdown", "exited"}
  BY Zenon, <1>2, <1>4, <1>5, AfterClearKeeps
<1>7. faults' \in 0 .. MaxFaults
  BY Zenon, FaultsType DEF RunCleanupScript
<1>8. TypeHistory'
  BY Zenon, <1>6, <1>7 DEF RunCleanupScript, TypeOK, TypeHistory, history
<1>9. TypeHost'
  BY Zenon, <1>2, IsolateType DEF RunCleanupScript, TypeOK, TypeHost
<1>10. TypeRuntime'
  BY Zenon, <1>2 DEF RunCleanupScript, TypeOK, TypeRuntime, registry, wirer
<1>11. BoundMap'
  BY Zenon DEF RunCleanupScript, Bound, BoundMap, registry, sandbox, identity,
         ending
<1>12. QED
  BY Zenon, <1>3, <1>6, <1>8, <1>9, <1>10, <1>11 DEF TypeOK, Bound

LEMMA TypeMarkDeleting ==
    ASSUME TypeOK, Bound, NEW t \in Threads, MarkDeleting(t)
    PROVE  TypeOK' /\ Bound'
<1> USE ConstantsAssumption
<1>1. pc[t] = "delete"
  BY Zenon DEF MarkDeleting, At
<1>2. inc[t] \in 1 .. made /\ inc[t] \in Incarnations
  BY Zenon, <1>1, Working DEF Unheld
<1>3. TypeRuntime' /\ TypeHost' /\ TypeHistory'
  BY Zenon, FrameRuntime, FrameHost, FrameHistory DEF MarkDeleting, TypeOK
<1>4. TypeSandbox'
  BY Zenon, <1>2 DEF MarkDeleting, TypeOK, TypeSandbox, sandbox, identity, place,
         handles, status
<1>5. TypeThreads'
  BY Zenon DEF MarkDeleting, Goto, TypeOK, TypeThreads, taken, Labels
<1>6. BoundThreads'
  BY <1>2 DEF MarkDeleting, Goto, Bound, BoundThreads, identity, taken, ending, NoIncarnation
<1>7. BoundMap'
  BY Zenon, FrameBoundMap DEF MarkDeleting, Bound, sandbox, identity
<1>8. QED
  BY Zenon, <1>3, <1>4, <1>5, <1>6, <1>7 DEF TypeOK, Bound

LEMMA TypeRemoveDataDir ==
    ASSUME TypeOK, Bound, NEW t \in Threads, RemoveDataDir(t)
    PROVE  TypeOK' /\ Bound'
<1> USE ConstantsAssumption
<1>1. pc[t] = "removeDataDir"
  BY Zenon DEF RemoveDataDir, At
<1>2. inc[t] \in 1 .. made /\ inc[t] \in Incarnations
  BY Zenon, <1>1, Working DEF Unheld
<1>3. TypeRuntime' /\ TypeSandbox'
  BY Zenon, FrameRuntime, FrameSandbox DEF RemoveDataDir, TypeOK
<1>4. \E l \in {"untrack", "deleted"} : Goto(t, l)
  BY Zenon DEF RemoveDataDir
<1>5. idOf[inc[t]] \in Ids
  BY Zenon, <1>2 DEF TypeOK, TypeSandbox
<1>6. TypeHost'
  BY Zenon, <1>5 DEF RemoveDataDir, TypeOK, TypeHost
<1>7. /\ UNCHANGED <<made, op, inc, died, captured, coldBoot, taken, ending>>
      /\ \E v \in BOOLEAN : failed' = [failed EXCEPT ![t] = v]
  BY Zenon DEF RemoveDataDir, TypeOK, TypeThreads, sandbox, identity
<1>8. BoundThreads' /\ TypeThreads'
  <2>1. BoundThreads'
    BY <1>2, <1>4, <1>7 DEF Bound, BoundThreads, Goto, taken, ending, NoIncarnation
  <2>2. TypeThreads'
    BY <1>4, <1>7 DEF Goto, TypeOK, TypeThreads, taken, Labels
  <2>3. QED
    BY Zenon, <2>1, <2>2
<1>9. TypeHistory'
  BY Zenon, FaultsType DEF RemoveDataDir, TypeOK, TypeHistory, ending,
         history, bounds
<1>10. BoundMap'
  BY Zenon, FrameBoundMap DEF RemoveDataDir, Bound, sandbox, identity
<1>11. QED
  BY Zenon, <1>3, <1>6, <1>7, <1>8, <1>9, <1>10 DEF TypeOK, Bound

LEMMA TypeKeepAfterFailedDelete ==
    ASSUME TypeOK, Bound, NEW t \in Threads, KeepAfterFailedDelete(t)
    PROVE  TypeOK' /\ Bound'
<1> USE ConstantsAssumption
<1>1. pc[t] = "deleted"
  BY Zenon DEF KeepAfterFailedDelete, At
<1>2. inc[t] \in 1 .. made /\ inc[t] \in Incarnations
  BY Zenon, <1>1, Working DEF Unheld
<1>3. TypeRuntime' /\ TypeHost' /\ TypeHistory'
  BY Zenon, FrameRuntime, FrameHost, FrameHistory DEF KeepAfterFailedDelete, TypeOK
<1>4. Return(t) \/ \E l \in {"untrack", "nextDelete"} : Goto(t, l) /\ UNCHANGED locals
  BY Zenon DEF KeepAfterFailedDelete
<1>5. UNCHANGED <<made, phase>>
  BY Zenon DEF KeepAfterFailedDelete, sandbox, identity, ending
<1>6. TypeThreads' /\ BoundThreads'
  BY <1>2, <1>4, <1>5, GotoKeeps, ReturnKeeps DEF NoIncarnation,
         Labels
<1>7. TypeSandbox'
  BY Zenon, <1>2 DEF KeepAfterFailedDelete, TypeOK, TypeSandbox, sandbox, identity,
         place, handles, status
<1>8. BoundMap'
  BY Zenon, FrameBoundMap DEF KeepAfterFailedDelete, Bound, sandbox, identity
<1>9. QED
  BY Zenon, <1>3, <1>6, <1>7, <1>8 DEF TypeOK, Bound

LEMMA TypeUntrackSandbox ==
    ASSUME TypeOK, Bound, NEW t \in Threads, UntrackSandbox(t)
    PROVE  TypeOK' /\ Bound'
<1> USE ConstantsAssumption
<1>1. pc[t] = "untrack"
  BY Zenon DEF UntrackSandbox, At
<1>2. inc[t] \in 1 .. made /\ inc[t] \in Incarnations
  BY Zenon, <1>1, Working DEF Unheld
<1>3. TypeSandbox' /\ TypeHost' /\ TypeHistory'
  BY Zenon, FrameSandbox, FrameHost, FrameHistory DEF UntrackSandbox, TypeOK
<1>4. idOf[inc[t]] \in Ids /\ made \in Nat
  BY <1>2 DEF TypeOK, TypeSandbox
<1>5. slots' \in [Slots -> Ids \cup {Nil}] /\ wireCh' \in BOOLEAN
  BY Zenon, <1>2, ReleaseSlotType DEF UntrackSandbox, registry, TypeOK,
         TypeRuntime
<1>6. sandboxes' = sandboxes
      \/ sandboxes' = [sandboxes EXCEPT ![idOf[inc[t]]] = NoIncarnation]
  BY Zenon DEF UntrackSandbox, registry
<1>7. TypeRuntime'
  BY Zenon, <1>4, <1>5, <1>6 DEF UntrackSandbox, TypeOK, TypeRuntime,
         network, wirer
<1>8. Return(t) \/ \E l \in {"nextDelete"} : Goto(t, l) /\ UNCHANGED locals
  BY Zenon DEF UntrackSandbox
<1>9. UNCHANGED <<made, phase>>
  BY Zenon DEF UntrackSandbox, sandbox, identity, ending
<1>10. TypeThreads' /\ BoundThreads'
  BY <1>2, <1>8, <1>9, GotoKeeps, ReturnKeeps DEF NoIncarnation,
         Labels
<1>11. BoundMap'
  <2>1. UNCHANGED <<made, toDelete>>
    BY Zenon DEF UntrackSandbox, sandbox, identity, ending
  <2>2. \A other \in Ids : sandboxes'[other] <= made
    BY <1>4, <1>6 DEF TypeOK, TypeRuntime, Bound, BoundMap, NoIncarnation
  <2>3. QED
    BY Zenon, <2>1, <2>2 DEF Bound, BoundMap
<1>12. QED
  BY Zenon, <1>3, <1>7, <1>10, <1>11 DEF TypeOK, Bound

LEMMA TypeGuestDies ==
    ASSUME TypeOK, Bound, NEW g \in guests, GuestDies(g)
    PROVE  TypeOK' /\ Bound'
<1> USE ConstantsAssumption
<1>1. TypeRuntime' /\ TypeSandbox' /\ TypeThreads'
  BY Zenon, FrameRuntime, FrameSandbox, FrameThreads DEF GuestDies, TypeOK
<1>2. TypeHost'
  BY DEF GuestDies, TypeOK, TypeHost, Guests
<1>3. TypeHistory'
  BY DEF GuestDies, TypeOK, TypeHistory, ending, history
<1>4. BoundThreads'
  BY Zenon DEF GuestDies, Bound, BoundThreads, TypeOK, TypeThreads,
         TypeSandbox, sandbox, identity, locals, taken, ending,
         NoIncarnation
<1>5. BoundMap'
  BY Zenon, FrameBoundMap DEF GuestDies, Bound, sandbox, identity
<1>6. QED
  BY Zenon, <1>1, <1>2, <1>3, <1>4, <1>5 DEF TypeOK, Bound

LEMMA TypeRecordGuestDeath ==
    ASSUME TypeOK, Bound, NEW t \in Threads, NEW x \in exits, RecordGuestDeath(t, x)
    PROVE  TypeOK' /\ Bound'
<1> USE ConstantsAssumption
<1>1. TypeRuntime' /\ TypeSandbox'
  BY Zenon, FrameRuntime, FrameSandbox DEF RecordGuestDeath, TypeOK
<1>2. x \in Incarnations \X Nat /\ x[1] \in Incarnations /\ x[2] \in Nat
  BY Zenon DEF TypeOK, TypeHost
<1>3. TypeHistory'
  BY Zenon, <1>2 DEF RecordGuestDeath, TypeOK, TypeHistory, ending, bounds
<1>4. TypeThreads'
  BY <1>2 DEF RecordGuestDeath, TypeOK, TypeThreads, Goto, taken, Labels
<1>5. x[1] # NoIncarnation
  BY <1>2 DEF NoIncarnation, Incarnations
<1>6. BoundThreads'
  <2>1. UNCHANGED <<made, inc, takenSlot, phase>>
    BY Zenon DEF RecordGuestDeath, sandbox, identity, taken, ending
  <2>2. CASE UNCHANGED <<pc, op, died>>
    BY Zenon, <2>1, <2>2 DEF Bound, BoundThreads
  <2>3. CASE /\ Goto(t, "claimDeath")
             /\ op' = [op EXCEPT ![t] = "crash"]
             /\ died' = [died EXCEPT ![t] = x[1]]
    <3>1. /\ pc'[t] = "claimDeath" /\ died'[t] = x[1] /\ op'[t] = "crash"
          /\ \A u \in Threads \ {t} : pc'[u] = pc[u] /\ op'[u] = op[u] /\ died'[u] = died[u]
      BY Zenon, <2>3 DEF Goto, TypeOK, TypeThreads
    <3>2. QED
      BY Zenon, <2>1, <3>1, <1>5 DEF Bound, BoundThreads
  <2>4. QED
    BY Zenon, <2>2, <2>3 DEF RecordGuestDeath
<1>7. TypeHost'
  BY Zenon DEF RecordGuestDeath, TypeOK, TypeHost
<1>8. BoundMap'
  BY Zenon, FrameBoundMap DEF RecordGuestDeath, Bound, sandbox, identity
<1>9. QED
  BY Zenon, <1>1, <1>3, <1>4, <1>6, <1>7, <1>8 DEF TypeOK, Bound

LEMMA TypeClaimDeath ==
    ASSUME TypeOK, Bound, NEW t \in Threads, ClaimDeath(t)
    PROVE  TypeOK' /\ Bound'
<1> USE ConstantsAssumption
<1>1. pc[t] = "claimDeath"
  BY Zenon DEF ClaimDeath, At
<1>2. died[t] \in Incarnations
  BY Zenon, <1>1 DEF TypeOK, TypeThreads, Bound, BoundThreads
<1>3. TypeRuntime' /\ TypeHost' /\ TypeHistory'
  BY Zenon, FrameRuntime, FrameHost, FrameHistory DEF ClaimDeath, TypeOK
<1>4. \/ Return(t)
      \/ \E id \in Ids : /\ sandboxes[id] # NoIncarnation
                          /\ inc' = [inc EXCEPT ![t] = sandboxes[id]]
                          /\ Goto(t, "checkStale")
                          /\ UNCHANGED <<op, died, captured, coldBoot, taken, failed>>
  BY Zenon, <1>1, <1>2 DEF ClaimDeath, GivesUp, TypeOK, TypeSandbox
<1>5. UNCHANGED <<made, phase>>
  BY Zenon DEF ClaimDeath, identity, ending
<1>6. Return(t) => TypeThreads' /\ BoundThreads'
  BY Zenon, <1>5, ReturnKeeps
<1>7. \A id \in Ids : sandboxes[id] \in Incarnations \cup {NoIncarnation}
                         /\ sandboxes[id] <= made
  BY Zenon DEF TypeOK, TypeRuntime, Bound, BoundMap
<1>8. ~Return(t) => TypeThreads'
  BY <1>4, <1>7 DEF TypeOK, TypeThreads, Goto, taken, Labels
<1>9. ~Return(t) => BoundThreads'
  BY <1>4, <1>5, <1>7 DEF TypeOK, TypeThreads, Bound, BoundThreads, Goto, taken
<1>10. TypeThreads' /\ BoundThreads'
  BY Zenon, <1>6, <1>8, <1>9
<1>11. TypeSandbox'
  BY Zenon DEF ClaimDeath, TypeOK, TypeSandbox, identity, place, handles
<1>12. BoundMap'
  BY Zenon, FrameBoundMap DEF ClaimDeath, Bound, sandbox, identity
<1>13. QED
  BY Zenon, <1>3, <1>10, <1>11, <1>12 DEF TypeOK, Bound

LEMMA TypeCheckStale ==
    ASSUME TypeOK, Bound, NEW t \in Threads, CheckStale(t)
    PROVE  TypeOK' /\ Bound'
<1> USE ConstantsAssumption
<1>1. pc[t] = "checkStale"
  BY Zenon DEF CheckStale, At
<1>2. inc[t] \in 1 .. made /\ inc[t] \in Incarnations
  BY Zenon, <1>1, Working DEF Unheld
<1>3. TypeRuntime' /\ TypeSandbox' /\ TypeHost' /\ TypeHistory'
  BY Zenon, FrameRuntime, FrameSandbox, FrameHost, FrameHistory DEF CheckStale,
         TypeOK
<1>4. \E l \in {"endTransition", "teardown"} : Goto(t, l)
  BY Zenon DEF CheckStale
<1>5. UNCHANGED <<made, locals, phase>>
  BY Zenon DEF CheckStale, sandbox, identity, ending
<1>6. TypeThreads' /\ BoundThreads'
  BY <1>2, <1>4, <1>5, GotoKeeps DEF NoIncarnation, Labels
<1>7. BoundMap'
  BY Zenon, FrameBoundMap DEF CheckStale, Bound, sandbox, identity
<1>8. QED
  BY Zenon, <1>3, <1>6, <1>7 DEF TypeOK, Bound

LEMMA TypeShutdown ==
    ASSUME TypeOK, Bound, NEW t \in Threads, Shutdown(t)
    PROVE  TypeOK' /\ Bound'
<1> USE ConstantsAssumption
<1>1. TypeRuntime' /\ TypeHost'
  BY Zenon, FrameRuntime, FrameHost DEF Shutdown, TypeOK
<1>2. toDelete' \subseteq 1 .. made /\ 1 .. made \subseteq Incarnations
  BY DEF Shutdown, TypeOK, TypeSandbox, Incarnations
<1>3. TypeHistory'
  BY Zenon, <1>2 DEF Shutdown, TypeOK, TypeHistory, history, bounds
<1>4. BoundMap'
  BY Zenon, <1>2 DEF Shutdown, Bound, BoundMap, registry, identity
<1>5. BoundThreads'
  BY Zenon DEF Shutdown, At, Bound, BoundThreads, Goto, TypeOK, TypeThreads,
         identity, taken
<1>6. TypeSandbox'
  BY Zenon DEF Shutdown, TypeOK, TypeSandbox, identity, place, handles
<1>7. TypeThreads'
  BY Zenon DEF Shutdown, At, Goto, Deleting, Tracked, TypeOK, TypeThreads, locals,
         taken, TypeSandbox, TypeRuntime, TypeHost, Labels, NoIncarnation,
         NoSlot, NoProcess, Incarnations
<1>8. QED
  BY Zenon, <1>1, <1>3, <1>4, <1>5, <1>6, <1>7 DEF TypeOK, Bound

LEMMA TypeShutdownNext ==
    ASSUME TypeOK, Bound, NEW t \in Threads, ShutdownNext(t)
    PROVE  TypeOK' /\ Bound'
<1> USE ConstantsAssumption
<1>1. TypeRuntime' /\ TypeSandbox' /\ TypeHost'
  BY Zenon, FrameRuntime, FrameSandbox, FrameHost DEF ShutdownNext, TypeOK
<1>2. \/ \E i \in toDelete : /\ toDelete' = toDelete \ {i}
                            /\ inc' = [inc EXCEPT ![t] = i]
                            /\ Goto(t, "delete")
                            /\ UNCHANGED takenSlot
      \/ /\ inc' = [inc EXCEPT ![t] = NoIncarnation]
         /\ takenSlot' = [takenSlot EXCEPT ![t] = 0]
         /\ Goto(t, "clearSlot") /\ UNCHANGED toDelete
  BY Zenon DEF ShutdownNext
<1>3. toDelete \subseteq 1 .. made /\ made \in Nat
  BY DEF Bound, BoundMap, TypeOK, TypeSandbox
<1>4. toDelete \subseteq Incarnations /\ 0 \in Slots
  BY DEF TypeOK, TypeHistory, Slots
<1>5. TypeThreads'
  BY <1>4 DEF ShutdownNext, TypeOK, TypeThreads, Goto, Labels
<1>6. BoundThreads'
  BY <1>3 DEF ShutdownNext, TypeOK, TypeThreads, Bound, BoundThreads, Goto, sandbox, identity,
     NoIncarnation, NoSlot
<1>7. BoundMap'
  BY Zenon, <1>2, <1>3 DEF ShutdownNext, Bound, BoundMap, registry, sandbox,
         identity
<1>8. TypeHistory'
  BY Zenon DEF ShutdownNext, TypeOK, TypeHistory, ending, history, bounds
<1>9. QED
  BY Zenon, <1>1, <1>5, <1>6, <1>7, <1>8 DEF TypeOK, Bound

LEMMA TypeWirerScan ==
    ASSUME TypeOK, Bound, WirerScan
    PROVE  TypeOK' /\ Bound'
<1> USE ConstantsAssumption
<1>1. TypeSandbox' /\ TypeHost' /\ TypeThreads' /\ TypeHistory'
  BY Zenon, FrameSandbox, FrameHost, FrameThreads, FrameHistory DEF WirerScan,
         TypeOK
<1>2. TypeRuntime'
  BY DEF WirerScan, NextSlot, TypeOK, TypeRuntime, registry, network, Slots
<1>3. BoundThreads'
  BY Zenon DEF WirerScan, Bound, BoundThreads, TypeOK, TypeThreads,
         TypeSandbox, sandbox, identity, locals, taken, ending,
         NoIncarnation
<1>4. BoundMap'
  BY Zenon, FrameBoundMap DEF WirerScan, Bound, sandbox, identity
<1>5. QED
  BY Zenon, <1>1, <1>2, <1>3, <1>4 DEF TypeOK, Bound

LEMMA TypeWirerBuild ==
    ASSUME TypeOK, Bound, WirerBuild
    PROVE  TypeOK' /\ Bound'
<1> USE ConstantsAssumption
<1>1. TypeSandbox' /\ TypeThreads'
  BY Zenon, FrameSandbox, FrameThreads DEF WirerBuild, TypeOK
<1>2. \E done \in BOOLEAN : SetupNetwork(wirerSlot, FALSE, done)
        /\ wirerSlot \in Slots
  BY Zenon DEF WirerBuild, TypeOK, TypeRuntime
<1>3. /\ wired' \in [Slots -> BOOLEAN]
      /\ netns' \in [Slots -> {"absent", "default", "blocked", "unknown"}]
      /\ guests' \subseteq Guests
      /\ faults' \in 0 .. MaxFaults
  BY Zenon, <1>2, SetupNetworkType
<1>4. TypeRuntime'
  BY Zenon, <1>3, NextSlotType DEF WirerBuild, TypeOK, TypeRuntime, registry
<1>5. TypeHost'
  BY Zenon, <1>3 DEF WirerBuild, TypeOK, TypeHost
<1>6. TypeHistory'
  BY Zenon, <1>3 DEF WirerBuild, TypeOK, TypeHistory, ending, history
<1>7. BoundThreads'
  BY Zenon DEF WirerBuild, Bound, BoundThreads, TypeOK, TypeThreads,
         TypeSandbox, sandbox, identity, locals, taken, ending,
         NoIncarnation
<1>8. BoundMap'
  BY Zenon, FrameBoundMap DEF WirerBuild, Bound, sandbox, identity
<1>9. QED
  BY Zenon, <1>1, <1>4, <1>5, <1>6, <1>7, <1>8 DEF TypeOK, Bound

LEMMA TypeWirerWait ==
    ASSUME TypeOK, Bound, WirerWait
    PROVE  TypeOK' /\ Bound'
<1> USE ConstantsAssumption
<1>1. TypeSandbox' /\ TypeHost' /\ TypeThreads' /\ TypeHistory'
  BY Zenon, FrameSandbox, FrameHost, FrameThreads, FrameHistory DEF WirerWait,
         TypeOK
<1>2. 0 \in Slots
  BY DEF Slots
<1>3. TypeRuntime'
  BY Zenon, <1>2 DEF WirerWait, TypeOK, TypeRuntime, network
<1>4. BoundThreads'
  BY Zenon DEF WirerWait, Bound, BoundThreads, TypeOK, TypeThreads,
         TypeSandbox, sandbox, identity, locals, taken, ending,
         NoIncarnation
<1>5. BoundMap'
  BY Zenon DEF WirerWait, Bound, BoundMap, registry, sandbox, identity, ending
<1>6. QED
  BY Zenon, <1>1, <1>3, <1>4, <1>5 DEF TypeOK, Bound

-----------------------------------------------------------------------------
\* Every step keeps the types and the binding of threads to sandboxStates.
LEMMA TypeStep == TypeOK /\ Bound /\ [Next]_vars => TypeOK' /\ Bound'
<1> SUFFICES ASSUME TypeOK, Bound, [Next]_vars PROVE TypeOK' /\ Bound'
    BY Zenon
<1>1. CASE UNCHANGED vars
  <2> USE <1>1 DEF vars, registry, network, wirer, sandbox, identity, place,
            handles, status, host, locals, taken, ending, history, bounds
  <2>1. TypeRuntime' /\ TypeSandbox'
    BY Zenon DEF TypeOK, TypeRuntime, TypeSandbox
  <2>2. TypeHost' /\ TypeThreads' /\ TypeHistory'
    BY Zenon DEF TypeOK, TypeHost, TypeThreads, TypeHistory
  <2>3. Bound'
    BY Zenon DEF Bound, BoundMap, BoundThreads
  <2>4. QED
    BY Zenon, <2>1, <2>2, <2>3 DEF TypeOK
<1>2. QED
    BY Zenon, <1>1, TypeReserveSandbox, TypeCloneAssets, TypePrepareJail,
       TypeActivateNetwork, TypeReadGeneration, TypeStartJailer,
       TypePublishProcess, TypePinGuest, TypeStartGuest, TypeNewProxy,
       TypePublishProxy, TypeProbeDaemon, TypeFinishCreate, TypeFinishWake,
       TypeBeginTransition, TypeEndTransition, TypeCheckStop, TypePauseVM,
       TypeCreateSnapshot, TypeUnpin, TypeResumeVM, TypeBecomeStopped,
       TypeCheckWake, TypeReserveWakeSlot, TypeTakeHandles, TypeStopAndKill,
       TypeClearSlotNetwork, TypeRunCleanupScript, TypeMarkDeleting,
       TypeRemoveDataDir, TypeKeepAfterFailedDelete, TypeUntrackSandbox,
       TypeGuestDies, TypeRecordGuestDeath, TypeClaimDeath, TypeCheckStale,
       TypeShutdown, TypeShutdownNext, TypeWirerScan, TypeWirerBuild,
       TypeWirerWait
    DEF Next, Start, Step, Activate, Wirer

\* Every reachable state is typed: the types of sandboxState, slotState, the
\* wirer, the goroutines and the host hold for every number of slots, sandboxes,
\* goroutines, faults and crashes.
THEOREM TypeCorrect == Spec => []TypeOK
<1>1. Init => TypeOK /\ Bound
    BY Zenon, TypeInit
<1>2. TypeOK /\ Bound /\ [Next]_vars => TypeOK' /\ Bound'
    BY Zenon, TypeStep
<1>3. QED
    BY <1>1, <1>2, PTL DEF Spec

-----------------------------------------------------------------------------
(***************************************************************************)
(* The transition claim gives every lifecycle operation its sandboxState   *)
(* alone (beginTransition and everything that releases a claim).           *)
(***************************************************************************)

\* The functions the argument is about.
ClaimFunctions ==
    /\ pc \in [Threads -> Labels]
    /\ op \in [Threads -> {"none", "create", "stop", "wake", "delete",
                           "crash", "shutdown"}]
    /\ inc \in [Threads -> Incarnations \cup {NoIncarnation}]
    /\ transition \in [Incarnations -> {"none", "creating", "stopping",
                                        "waking", "deleting"}]

-----------------------------------------------------------------------------
(* What a step does to the claims.                                         *)

OthersStay(t) ==
    \A u \in Threads \ {t} :
        inc'[u] = inc[u] /\ pc'[u] = pc[u] /\ op'[u] = op[u]

\* The thread keeps its claim or gives it back and is done with the sandbox.
KeepsClaim(t) ==
    phase' = "up" =>
        /\ phase = "up" /\ OthersStay(t) /\ pc'[t] # "nextDelete"
        /\ \/ inc'[t] = inc[t] /\ ~GaveUp(t)
           \/ inc'[t] = NoIncarnation
        /\ \A i \in Incarnations :
              \/ transition'[i] = transition[i]
              \/ transition'[i] # "none"
              \/ /\ i = inc[t] /\ ~GaveUp(t)
                 /\ inc'[t] = NoIncarnation \/ GaveUp(t)'

\* The thread takes the claim of a sandboxState nobody holds.
TakesClaim(t) ==
    phase' = "up" =>
        /\ phase = "up" /\ OthersStay(t) /\ pc'[t] # "nextDelete"
        /\ \E i \in Incarnations :
              /\ inc'[t] = i
              /\ transition[i] = "none" \/ \A u \in Threads : inc[u] # i
              /\ transition'[i] # "none"
              /\ \A j \in Incarnations \ {i} : transition'[j] = transition[j]

\* The thread goes on within its operation.
Moves(t) ==
    /\ pc[t] # "untrack"
    /\ \E l \in Labels \ {"nextDelete"} : pc' = [pc EXCEPT ![t] = l]
    /\ UNCHANGED <<inc, op, transition, phase>>

LEMMA TypedFunctions == ASSUME TypeOK PROVE ClaimFunctions
BY Zenon DEF TypeOK, TypeThreads, TypeSandbox, ClaimFunctions

LEMMA MovesKeep ==
    ASSUME ClaimFunctions, NEW t \in Threads, Moves(t)
    PROVE  KeepsClaim(t)
BY Zenon DEF ClaimFunctions, Moves, KeepsClaim, OthersStay, GaveUp

LEMMA KeepsExclusion ==
    ASSUME ClaimFunctions, Claimed, OperationsExclusive,
           NEW t \in Threads, KeepsClaim(t)
    PROVE  Claimed' /\ OperationsExclusive'
<1> SUFFICES ASSUME phase' = "up"
             PROVE  Claimed' /\ OperationsExclusive'
    BY Zenon DEF Claimed, OperationsExclusive
<1>1. /\ phase = "up" /\ OthersStay(t) /\ pc'[t] # "nextDelete"
      /\ \/ inc'[t] = inc[t] /\ ~GaveUp(t)
         \/ inc'[t] = NoIncarnation
      /\ \A i \in Incarnations :
            \/ transition'[i] = transition[i]
            \/ transition'[i] # "none"
            \/ /\ i = inc[t] /\ ~GaveUp(t)
               /\ inc'[t] = NoIncarnation \/ GaveUp(t)'
    BY Zenon DEF KeepsClaim
<1>2. ASSUME NEW u \in Threads, NEW v \in Threads, u # v,
             inc'[u] # NoIncarnation, ~GaveUp(u)', ~GaveUp(v)'
      PROVE  inc'[u] # inc'[v]
    BY <1>1, <1>2 DEF OperationsExclusive, OthersStay, GaveUp
<1>3. ASSUME NEW u \in Threads
      PROVE  /\ pc'[u] # "nextDelete"
             /\ inc'[u] # NoIncarnation /\ ~GaveUp(u)'
                    => transition'[inc'[u]] # "none"
  <2>1. CASE u = t
    BY Zenon, <1>1, <2>1 DEF Claimed, ClaimFunctions
  <2>2. CASE u # t
    BY <1>1, <2>2 DEF Claimed, OperationsExclusive, OthersStay,
       ClaimFunctions, GaveUp
  <2>3. QED
    BY Zenon, <2>1, <2>2
<1>4. QED
    BY Zenon, <1>2, <1>3 DEF Claimed, OperationsExclusive

LEMMA TakesExclusion ==
    ASSUME ClaimFunctions, Claimed, OperationsExclusive,
           NoIncarnation \notin Incarnations,
           NEW t \in Threads, TakesClaim(t)
    PROVE  Claimed' /\ OperationsExclusive'
<1> SUFFICES ASSUME phase' = "up"
             PROVE  Claimed' /\ OperationsExclusive'
    BY Zenon DEF Claimed, OperationsExclusive
<1>1. phase = "up" /\ OthersStay(t) /\ pc'[t] # "nextDelete"
    BY Zenon DEF TakesClaim
<1>2. PICK i \in Incarnations :
              /\ inc'[t] = i
              /\ transition[i] = "none" \/ \A u \in Threads : inc[u] # i
              /\ transition'[i] # "none"
              /\ \A j \in Incarnations \ {i} : transition'[j] = transition[j]
    BY Zenon DEF TakesClaim
<1>3. ASSUME NEW u \in Threads \ {t}, inc'[u] = i
      PROVE  GaveUp(u)'
  <2>1. inc[u] = i /\ pc'[u] = pc[u] /\ op'[u] = op[u] /\ i # NoIncarnation
    BY Zenon, <1>1, <1>3 DEF OthersStay
  <2>2. GaveUp(u)
    BY Zenon, <1>1, <1>2, <2>1 DEF Claimed
  <2>3. QED
    BY Zenon, <2>1, <2>2 DEF GaveUp
<1>4. ASSUME NEW u \in Threads, NEW v \in Threads, u # v,
             inc'[u] # NoIncarnation, ~GaveUp(u)', ~GaveUp(v)'
      PROVE  inc'[u] # inc'[v]
    BY <1>1, <1>2, <1>3, <1>4 DEF OperationsExclusive, OthersStay, GaveUp
<1>5. ASSUME NEW u \in Threads
      PROVE  /\ pc'[u] # "nextDelete"
             /\ inc'[u] # NoIncarnation /\ ~GaveUp(u)'
                    => transition'[inc'[u]] # "none"
  <2>1. CASE u = t
    BY Zenon, <1>1, <1>2, <2>1
  <2>2. CASE u # t
    BY <1>1, <1>2, <1>3, <2>2 DEF Claimed, OthersStay, ClaimFunctions, GaveUp
  <2>3. QED
    BY Zenon, <2>1, <2>2
<1>6. QED
    BY Zenon, <1>4, <1>5 DEF Claimed, OperationsExclusive

-----------------------------------------------------------------------------
(* The steps within an operation.                                          *)

LEMMA CloneAssetsMoves ==
    ASSUME NEW t \in Threads, CloneAssets(t)
    PROVE  Moves(t)
BY Zenon DEF CloneAssets, At, Goto, Moves, Labels, sandbox, status, locals,
   ending

LEMMA PrepareJailMoves ==
    ASSUME NEW t \in Threads, PrepareJail(t)
    PROVE  Moves(t)
BY Zenon DEF PrepareJail, At, Goto, Moves, Labels, sandbox, status, locals,
   ending, Rollback

LEMMA ActivateNetworkMoves ==
    ASSUME NEW t \in Threads, ActivateNetwork(t)
    PROVE  Moves(t)
BY Zenon DEF ActivateNetwork, At, Goto, Moves, Labels, sandbox, status,
   locals, ending, Rollback

LEMMA ReadGenerationMoves ==
    ASSUME NEW t \in Threads, ReadGeneration(t)
    PROVE  Moves(t)
BY Zenon DEF ReadGeneration, At, Goto, Moves, Labels, sandbox, status, locals,
   ending

LEMMA StartJailerMoves ==
    ASSUME NEW t \in Threads, StartJailer(t)
    PROVE  Moves(t)
BY Zenon DEF StartJailer, At, Goto, Moves, Labels, sandbox, status, locals,
   ending, Rollback

LEMMA PublishProcessMoves ==
    ASSUME NEW t \in Threads, PublishProcess(t)
    PROVE  Moves(t)
BY Zenon DEF PublishProcess, At, Goto, Moves, Labels, sandbox, status, locals,
   ending, Rollback

LEMMA PinGuestMoves ==
    ASSUME NEW t \in Threads, PinGuest(t)
    PROVE  Moves(t)
BY Zenon DEF PinGuest, At, Goto, Moves, Labels, sandbox, status, locals,
   ending, Rollback, Pin

LEMMA StartGuestMoves ==
    ASSUME NEW t \in Threads, StartGuest(t)
    PROVE  Moves(t)
BY Zenon DEF StartGuest, At, Goto, Moves, Labels, sandbox, status, locals,
   ending, Rollback

LEMMA NewProxyMoves ==
    ASSUME NEW t \in Threads, NewProxy(t)
    PROVE  Moves(t)
BY Zenon DEF NewProxy, At, Goto, Moves, Labels, sandbox, status, locals,
   ending, Rollback

LEMMA PublishProxyMoves ==
    ASSUME NEW t \in Threads, PublishProxy(t)
    PROVE  Moves(t)
BY Zenon DEF PublishProxy, At, Goto, Moves, Labels, sandbox, status, locals,
   ending, Rollback

LEMMA ProbeDaemonMoves ==
    ASSUME NEW t \in Threads, ProbeDaemon(t)
    PROVE  Moves(t)
BY Zenon DEF ProbeDaemon, At, Goto, Moves, Labels, sandbox, status, locals,
   ending, Rollback

LEMMA FinishWakeMoves ==
    ASSUME NEW t \in Threads, FinishWake(t)
    PROVE  Moves(t)
BY Zenon DEF FinishWake, At, Goto, Moves, Labels, sandbox, status, locals,
   ending

LEMMA CheckStopMoves ==
    ASSUME NEW t \in Threads, CheckStop(t)
    PROVE  Moves(t)
BY Zenon DEF CheckStop, At, Goto, Moves, Labels, sandbox, status, locals,
   ending

LEMMA PauseVMMoves ==
    ASSUME NEW t \in Threads, PauseVM(t)
    PROVE  Moves(t)
BY Zenon DEF PauseVM, At, Goto, Moves, Labels, sandbox, status, locals, ending

LEMMA CreateSnapshotMoves ==
    ASSUME NEW t \in Threads, CreateSnapshot(t)
    PROVE  Moves(t)
BY Zenon DEF CreateSnapshot, At, Goto, Moves, Labels, sandbox, status, locals,
   ending

LEMMA UnpinMoves ==
    ASSUME NEW t \in Threads, Unpin(t)
    PROVE  Moves(t)
BY Zenon DEF Unpin, At, Goto, Moves, Labels, sandbox, status, locals, ending

LEMMA ResumeVMMoves ==
    ASSUME NEW t \in Threads, ResumeVM(t)
    PROVE  Moves(t)
BY Zenon DEF ResumeVM, At, Goto, Moves, Labels, sandbox, status, locals, ending

LEMMA BecomeStoppedMoves ==
    ASSUME NEW t \in Threads, BecomeStopped(t)
    PROVE  Moves(t)
BY Zenon DEF BecomeStopped, At, Goto, Moves, Labels, sandbox, status, locals,
   ending

LEMMA CheckWakeMoves ==
    ASSUME NEW t \in Threads, CheckWake(t)
    PROVE  Moves(t)
BY Zenon DEF CheckWake, At, Goto, Moves, Labels, sandbox, status, locals,
   ending

LEMMA ReserveWakeSlotMoves ==
    ASSUME NEW t \in Threads, ReserveWakeSlot(t)
    PROVE  Moves(t)
BY Zenon DEF ReserveWakeSlot, At, Goto, Moves, Labels, sandbox, status,
   locals, ending

LEMMA TakeHandlesMoves ==
    ASSUME NEW t \in Threads, TakeHandles(t)
    PROVE  Moves(t)
BY Zenon DEF TakeHandles, At, Goto, Moves, Labels, sandbox, status, locals,
   ending

LEMMA StopAndKillMoves ==
    ASSUME NEW t \in Threads, StopAndKill(t)
    PROVE  Moves(t)
BY Zenon DEF StopAndKill, At, Goto, Moves, Labels, sandbox, status, locals,
   ending, AfterTeardown

LEMMA RemoveDataDirMoves ==
    ASSUME NEW t \in Threads, RemoveDataDir(t)
    PROVE  Moves(t)
BY Zenon DEF RemoveDataDir, At, Goto, Moves, Labels, sandbox, status, locals,
   ending

LEMMA CheckStaleMoves ==
    ASSUME NEW t \in Threads, CheckStale(t)
    PROVE  Moves(t)
BY Zenon DEF CheckStale, At, Goto, Moves, Labels, sandbox, status, locals,
   ending

-----------------------------------------------------------------------------
(* The steps that release a claim, and those of Shutdown.                  *)

LEMMA MarkDeletingKeeps ==
    ASSUME ClaimFunctions, NEW t \in Threads, MarkDeleting(t)
    PROVE  KeepsClaim(t)
<1>1. /\ pc[t] = "delete" /\ pc' = [pc EXCEPT ![t] = "teardown"]
      /\ UNCHANGED <<inc, op, phase>>
      /\ \/ transition' = [transition EXCEPT ![inc[t]] = "deleting"]
         \/ transition' = transition
    BY Zenon DEF MarkDeleting, At, Goto, ending
<1>2. QED
    BY Zenon, <1>1 DEF KeepsClaim, OthersStay, ClaimFunctions, GaveUp

\* A claim released on return.
LEMMA ReturnKeepsClaim ==
    ASSUME ClaimFunctions, NEW t \in Threads, Return(t), phase' = phase,
           \/ transition' = transition
           \/ /\ pc[t] # "untrack"
              /\ transition' = [transition EXCEPT ![inc[t]] = "none"]
    PROVE  KeepsClaim(t)
<1>1. /\ pc' = [pc EXCEPT ![t] = "idle"]
      /\ op' = [op EXCEPT ![t] = "none"]
      /\ inc' = [inc EXCEPT ![t] = NoIncarnation]
    BY Zenon DEF Return
<1>2. QED
    BY Zenon, <1>1 DEF KeepsClaim, OthersStay, ClaimFunctions, GaveUp

LEMMA FinishCreateKeeps ==
    ASSUME ClaimFunctions, NEW t \in Threads, FinishCreate(t) \/ EndTransition(t)
    PROVE  KeepsClaim(t)
<1>1. /\ Return(t) /\ phase' = phase /\ pc[t] # "untrack"
      /\ transition' = [transition EXCEPT ![inc[t]] = "none"]
    BY Zenon DEF FinishCreate, EndTransition, At, ending
<1>2. QED
    BY Zenon, <1>1, ReturnKeepsClaim

LEMMA ClearKeeps ==
    ASSUME ClaimFunctions, NEW t \in Threads,
           ClearSlotNetwork(t) \/ RunCleanupScript(t)
    PROVE  KeepsClaim(t)
<1>1. pc[t] # "untrack" /\ transition' = transition
    BY Zenon DEF ClearSlotNetwork, RunCleanupScript, At, sandbox, status
<1>2. \/ \E ok \in BOOLEAN : AfterClear(t, ok)
      \/ /\ pc' = [pc EXCEPT ![t] = "cleanupScript"]
         /\ UNCHANGED <<inc, op, phase>>
    BY Zenon DEF ClearSlotNetwork, RunCleanupScript, Goto, locals
<1>3. CASE /\ pc' = [pc EXCEPT ![t] = "cleanupScript"]
           /\ UNCHANGED <<inc, op, phase>>
  <2>1. Moves(t)
    BY Zenon, <1>1, <1>3 DEF Moves, Labels
  <2>2. QED
    BY Zenon, <2>1, MovesKeep
<1>4. ASSUME NEW ok \in BOOLEAN, AfterClear(t, ok)
      PROVE  KeepsClaim(t)
  <2>1. CASE phase' = "exited"
    BY Zenon, <2>1 DEF KeepsClaim
  <2>2. CASE phase' # "exited"
    <3>1. Moves(t)
      BY Zenon, <1>1, <1>4, <2>2 DEF AfterClear, AfterTeardown, Moves, Goto,
         Labels
    <3>2. QED
      BY Zenon, <3>1, MovesKeep
  <2>3. QED
    BY Zenon, <2>1, <2>2
<1>5. QED
    BY Zenon, <1>2, <1>3, <1>4

LEMMA KeepAfterFailedDeleteKeeps ==
    ASSUME ClaimFunctions, BoundThreads, NEW t \in Threads, KeepAfterFailedDelete(t)
    PROVE  KeepsClaim(t)
<1>1. /\ pc[t] = "deleted" /\ phase' = phase
      /\ \/ transition' = [transition EXCEPT ![inc[t]] = "none"]
         \/ transition' = transition
    BY Zenon DEF KeepAfterFailedDelete, At, ending
<1>2. CASE Return(t)
    BY Zenon, <1>1, <1>2, ReturnKeepsClaim
<1>3. CASE /\ op[t] = "create" /\ pc' = [pc EXCEPT ![t] = "untrack"]
           /\ UNCHANGED <<inc, op>>
    BY Zenon, <1>1, <1>3 DEF KeepsClaim, OthersStay, ClaimFunctions, GaveUp
<1>4. CASE op[t] = "shutdown"
    BY Zenon, <1>1, <1>4 DEF BoundThreads, KeepsClaim
<1>5. QED
    BY Zenon, <1>2, <1>3, <1>4 DEF KeepAfterFailedDelete, Goto, locals

LEMMA UntrackSandboxKeeps ==
    ASSUME ClaimFunctions, BoundThreads, NEW t \in Threads, UntrackSandbox(t)
    PROVE  KeepsClaim(t)
<1>1. phase' = phase /\ transition' = transition
    BY Zenon DEF UntrackSandbox, ending, sandbox, status
<1>2. CASE Return(t)
    BY Zenon, <1>1, <1>2, ReturnKeepsClaim
<1>3. CASE op[t] = "shutdown"
    BY Zenon, <1>1, <1>3 DEF BoundThreads, KeepsClaim
<1>4. QED
    BY Zenon, <1>2, <1>3 DEF UntrackSandbox

LEMMA RecordGuestDeathKeeps ==
    ASSUME ClaimFunctions, NEW t \in Threads, NEW x, RecordGuestDeath(t, x)
    PROVE  KeepsClaim(t)
<1>1. /\ pc[t] = "idle" /\ phase' = phase /\ transition' = transition
      /\ inc' = inc
      /\ pc' = pc \/ pc' = [pc EXCEPT ![t] = "claimDeath"]
      /\ op' = op \/ op' = [op EXCEPT ![t] = "crash"]
    BY Zenon DEF RecordGuestDeath, At, Goto, ending, sandbox, status
<1>2. QED
    BY Zenon, <1>1 DEF KeepsClaim, OthersStay, ClaimFunctions, GaveUp

LEMMA ShutdownKeeps ==
    ASSUME Claimed, NEW t \in Threads, Shutdown(t) \/ ShutdownNext(t)
    PROVE  KeepsClaim(t)
<1>1. phase' # "up"
    BY Zenon DEF Shutdown, ShutdownNext, Claimed, At
<1>2. QED
    BY Zenon, <1>1 DEF KeepsClaim

-----------------------------------------------------------------------------
(* The steps that take a claim.                                            *)

LEMMA BeginTransitionTakes ==
    ASSUME ClaimFunctions, TypeRuntime, NEW t \in Threads, NEW id \in Ids,
           NEW kind \in {"stop", "wake", "delete"}, BeginTransition(t, id, kind)
    PROVE  TakesClaim(t)
<1> DEFINE i == sandboxes[id]
<1>1. /\ i \in Incarnations /\ transition[i] = "none" /\ phase' = phase
      /\ transition' = [transition EXCEPT ![i] = Claim(kind)]
      /\ pc' = [pc EXCEPT ![t] = kind]
      /\ op' = [op EXCEPT ![t] = kind]
      /\ inc' = [inc EXCEPT ![t] = i]
    BY Zenon DEF BeginTransition, Claimable, Goto, TypeRuntime, ending
<1>2. Claim(kind) # "none" /\ kind # "nextDelete"
    BY Zenon DEF Claim
<1>3. QED
    BY Zenon, <1>1, <1>2 DEF TakesClaim, OthersStay, ClaimFunctions

LEMMA ReserveSandboxTakes ==
    ASSUME ClaimFunctions, BoundThreads, TypeSandbox, NEW t \in Threads, NEW id,
           NEW block, ReserveSandbox(t, id, block)
    PROVE  TakesClaim(t)
<1> DEFINE i == made + 1
<1>1. /\ made < MaxIncarnations /\ phase' = phase
      /\ transition' = [transition EXCEPT ![i] = "creating"]
      /\ pc' = [pc EXCEPT ![t] = "cloneAssets"]
      /\ op' = [op EXCEPT ![t] = "create"]
      /\ inc' = [inc EXCEPT ![t] = i]
    BY Zenon DEF ReserveSandbox, Goto, ending
<1>2. made \in Nat /\ i \in Incarnations
    BY <1>1, ConstantsAssumption DEF TypeSandbox, Incarnations
<1>3. \A u \in Threads : inc[u] # i
    BY <1>2 DEF BoundThreads, ClaimFunctions, Incarnations, NoIncarnation
<1>4. QED
    BY Zenon, <1>1, <1>2, <1>3 DEF TakesClaim, OthersStay, ClaimFunctions

LEMMA ClaimDeathClaims ==
    ASSUME ClaimFunctions, TypeRuntime, TypeSandbox, TypeThreads, BoundThreads,
           NEW t \in Threads, ClaimDeath(t)
    PROVE  KeepsClaim(t) \/ TakesClaim(t)
<1> DEFINE i == sandboxes[idOf[died[t]]]
<1>1. phase' = phase /\ pc[t] = "claimDeath"
    BY Zenon DEF ClaimDeath, ending, At
<1>2. CASE Return(t) /\ transition' = transition
    BY Zenon, <1>1, <1>2, ReturnKeepsClaim
<1>3. CASE /\ i # NoIncarnation /\ transition[i] = "none"
           /\ transition' = [transition EXCEPT ![i] = "stopping"]
           /\ inc' = [inc EXCEPT ![t] = i]
           /\ pc' = [pc EXCEPT ![t] = "checkStale"]
           /\ op' = op
  <2>1. died[t] \in Incarnations
    BY Zenon, <1>1 DEF BoundThreads, TypeThreads
  <2>2. i \in Incarnations
    BY Zenon, <1>3, <2>1 DEF TypeSandbox, TypeRuntime
  <2>3. TakesClaim(t)
    <3>1. PICK j \in Incarnations : j = i
      BY Zenon, <2>2
    <3>2. inc'[t] = j /\ pc'[t] = "checkStale"
      BY Zenon, <1>3, <3>1 DEF ClaimFunctions
    <3>3. OthersStay(t)
      BY Zenon, <1>3 DEF OthersStay, ClaimFunctions
    <3>4. /\ transition[j] = "none" /\ transition'[j] # "none"
          /\ \A k \in Incarnations \ {j} : transition'[k] = transition[k]
      BY Zenon, <1>3, <3>1 DEF ClaimFunctions
    <3>5. QED
      BY Zenon, <1>1, <3>2, <3>3, <3>4 DEF TakesClaim
  <2>4. QED
    BY Zenon, <2>3
<1>4. QED
    BY Zenon, <1>2, <1>3 DEF ClaimDeath, GivesUp, Claimable, Goto

-----------------------------------------------------------------------------
LEMMA InitExclusion == Init => Claimed /\ OperationsExclusive
<1> SUFFICES ASSUME Init PROVE Claimed /\ OperationsExclusive
    BY Zenon
<1>1. \A t \in Threads : pc[t] = "idle" /\ inc[t] = NoIncarnation
    BY Zenon DEF Init
<1>2. QED
    BY Zenon, <1>1 DEF Claimed, OperationsExclusive

\* What a step does to the claims, and to nothing but the claims of one thread.
LEMMA StepClaims ==
    ASSUME ExclusionInv, [Next]_vars
    PROVE  \/ UNCHANGED <<pc, inc, op, transition, phase>>
           \/ \E t \in Threads : KeepsClaim(t) \/ TakesClaim(t)
<1>1. /\ TypeOK /\ ClaimFunctions /\ BoundThreads /\ Claimed
      /\ TypeRuntime /\ TypeSandbox /\ TypeThreads
    BY Zenon, TypedFunctions DEF ExclusionInv, Bound, TypeOK
<1>2. CASE UNCHANGED vars
    BY Zenon, <1>2 DEF vars, locals, sandbox, status, ending
<1>3. CASE Wirer
    BY Zenon, <1>3 DEF Wirer, WirerScan, WirerBuild, WirerWait, locals,
       sandbox, status, ending
<1>4. CASE \E g \in guests : GuestDies(g)
    BY Zenon, <1>4 DEF GuestDies, locals, sandbox, status, ending
<1>5. ASSUME NEW t \in Threads, Start(t)
      PROVE  KeepsClaim(t) \/ TakesClaim(t)
    BY Zenon, <1>1, <1>5, ReserveSandboxTakes, BeginTransitionTakes,
       ShutdownKeeps DEF Start
<1>6. ASSUME NEW t \in Threads, Activate(t)
      PROVE  KeepsClaim(t) \/ TakesClaim(t)
    BY Zenon, <1>1, <1>6, MovesKeep, PrepareJailMoves, ActivateNetworkMoves,
       ReadGenerationMoves, StartJailerMoves, PublishProcessMoves,
       PinGuestMoves, StartGuestMoves, NewProxyMoves, PublishProxyMoves,
       ProbeDaemonMoves DEF Activate
<1>7. ASSUME NEW t \in Threads, Step(t)
      PROVE  KeepsClaim(t) \/ TakesClaim(t)
    BY Zenon, <1>1, <1>6, <1>7, MovesKeep, CloneAssetsMoves, FinishCreateKeeps,
       FinishWakeMoves, CheckStopMoves, PauseVMMoves, CreateSnapshotMoves,
       UnpinMoves, ResumeVMMoves, BecomeStoppedMoves, CheckWakeMoves,
       ReserveWakeSlotMoves, TakeHandlesMoves, StopAndKillMoves, ClearKeeps,
       MarkDeletingKeeps, RemoveDataDirMoves, KeepAfterFailedDeleteKeeps,
       UntrackSandboxKeeps, ClaimDeathClaims, CheckStaleMoves, ShutdownKeeps
    DEF Step
<1>8. ASSUME NEW t \in Threads, NEW x, RecordGuestDeath(t, x)
       PROVE  KeepsClaim(t) \/ TakesClaim(t)
    BY Zenon, <1>1, <1>8, RecordGuestDeathKeeps
<1>9. QED
    BY Zenon, <1>2, <1>3, <1>4, <1>5, <1>7, <1>8 DEF Next

\* Nothing leaves Shutdown again.
LEMMA StepPhase ==
    ASSUME ExclusionInv, [Next]_vars, phase' = "up"
    PROVE  phase = "up"
BY Zenon, StepClaims DEF KeepsClaim, TakesClaim

\* Every step keeps the claims exclusive.
LEMMA NextExclusion ==
    ExclusionInv /\ [Next]_vars => Claimed' /\ OperationsExclusive'
<1> SUFFICES ASSUME ExclusionInv, [Next]_vars
             PROVE  Claimed' /\ OperationsExclusive'
    BY Zenon
<1>1. ClaimFunctions /\ Claimed /\ OperationsExclusive
    BY Zenon, TypedFunctions DEF ExclusionInv
<1>2. NoIncarnation \notin Incarnations
    BY DEF NoIncarnation, Incarnations
<1>3. ASSUME UNCHANGED <<pc, inc, op, transition, phase>>
      PROVE  Claimed' /\ OperationsExclusive'
    BY Zenon, <1>1, <1>3 DEF Claimed, OperationsExclusive, GaveUp
<1>4. ASSUME NEW t \in Threads, KeepsClaim(t) \/ TakesClaim(t)
      PROVE  Claimed' /\ OperationsExclusive'
    BY Zenon, <1>1, <1>2, <1>4, KeepsExclusion, TakesExclusion
<1>5. QED
    BY Zenon, <1>3, <1>4, StepClaims

\* Outside Shutdown and for any number of sandboxes, goroutines, slots, faults
\* and crashes, a lifecycle operation holds its sandboxState alone, except while
\* a failed create untracks what its cleanup could not delete.
THEOREM ExclusionHolds == Spec => []OperationsExclusive
<1>1. Init => ExclusionInv
    BY Zenon, TypeInit, InitExclusion DEF ExclusionInv
<1>2. ExclusionInv /\ [Next]_vars => ExclusionInv'
    BY Zenon, TypeStep, NextExclusion DEF ExclusionInv
<1>3. ExclusionInv => OperationsExclusive
    BY Zenon DEF ExclusionInv
<1>4. QED
    BY <1>1, <1>2, <1>3, PTL DEF Spec

-----------------------------------------------------------------------------
(* MicroVMs, slots and snapshots, from what FcGuestProofs shows of every    *)
(* step.                                                                   *)

LEMMA GuestInvInductive ==
    /\ Init => GuestInv
    /\ GuestInv /\ [Next]_vars => GuestInv'
<1>1. Init => GuestInv
    BY Zenon, TypeInit, InitExclusion, InitGuests DEF GuestInv, ExclusionInv
<1>2. ASSUME GuestInv, [Next]_vars
      PROVE  GuestInv'
  <2>1. ExclusionInv'
    BY Zenon, <1>2, TypeStep, NextExclusion DEF GuestInv, ExclusionInv
  <2>2. phase' = "up" => GuestsOK'
    BY Zenon, <1>2, StepPhase, NextGuests DEF GuestInv, Up
  <2>3. QED
    BY Zenon, <2>1, <2>2 DEF GuestInv
<1>3. QED
    BY Zenon, <1>1, <1>2

\* Outside Shutdown, for any number of sandboxes, goroutines, slots, faults and
\* crashes, every live microVM can still be killed: activateSandboxVM publishes
\* the handle before it can give up, and teardownRunningVM takes it in one
\* critical section with the bump of the generation.
THEOREM NoOrphanGuestHolds == Spec => []NoOrphanGuest
<1>1. GuestInv => NoOrphanGuest
    BY Zenon DEF GuestInv, GuestsOK, HostOK, NoOrphanGuest
<1>2. QED
    BY <1>1, GuestInvInductive, PTL DEF Spec

\* Outside Shutdown, recordGuestDeath never counts an exit the runner caused.
THEOREM KillIsNotDeathHolds == Spec => [](phase = "up" => KillIsNotDeath)
<1>1. GuestInv => (phase = "up" => KillIsNotDeath)
    BY Zenon DEF GuestInv, GuestsOK, HostOK
<1>2. QED
    BY <1>1, GuestInvInductive, PTL DEF Spec

LEMMA SlotInvInductive ==
    /\ Init => SlotInv
    /\ SlotInv /\ [Next]_vars => SlotInv'
<1>1. Init => SlotInv
    BY Zenon, GuestInvInductive, InitSlots DEF SlotInv
<1>2. ASSUME SlotInv, [Next]_vars
      PROVE  SlotInv'
  <2>1. GuestInv /\ GuestInv'
    BY Zenon, <1>2, GuestInvInductive DEF SlotInv
  <2>2. ASSUME phase' = "up" PROVE SlotsOK'
    <3>1. phase = "up"
      BY Zenon, <1>2, <2>1, <2>2, StepPhase DEF GuestInv
    <3>2. SlotUp
      BY Zenon, <1>2, <3>1 DEF SlotInv, GuestInv, SlotUp, Up
    <3>3. QED
      BY Zenon, <1>2, <2>2, <3>2, NextSlots
  <2>3. QED
    BY Zenon, <2>1, <2>2 DEF SlotInv
<1>3. QED
    BY Zenon, <1>1, <1>2

\* Outside Shutdown, for any number of sandboxes, goroutines, slots, faults and
\* crashes, a slot is marked for a sandbox exactly when that sandbox has it:
\* reserveSlotLocked never hands out a slot that is in use, and every path that
\* gives a sandbox up or stops it gives its slot back.
THEOREM SlotsAccountedHolds == Spec => []SlotsAccounted
<1>1. SlotInv => SlotsAccounted
    BY Zenon DEF SlotInv, SlotsOK, SlotsAccounted
<1>2. QED
    BY <1>1, SlotInvInductive, PTL DEF Spec

\* Outside Shutdown, for any number of sandboxes, goroutines, faults and
\* crashes, startGuest never loads a snapshot of an older rootfs: not after a
\* crash, a failed snapshot, a failed delete that left its files, or a wake that
\* was rolled back.
THEOREM RestoreMatchesDiskHolds == Spec => [](phase = "up" => RestoreMatchesDisk)
<1>1. Init => DiskInv
    BY Zenon, SlotInvInductive, TypeInit, InitDisk DEF DiskInv
<1>2. ASSUME DiskInv, [Next]_vars
      PROVE  DiskInv'
  <2>1. SlotInv /\ SlotInv'
    BY Zenon, <1>2, SlotInvInductive DEF DiskInv
  <2>2. ASSUME phase' = "up" PROVE DiskOK'
    <3>1. phase = "up"
      BY Zenon, <1>2, <2>1, <2>2, StepPhase DEF SlotInv, GuestInv
    <3>2. DiskUp
      BY Zenon, <1>2, <3>1 DEF DiskInv, SlotInv, GuestInv, DiskUp, SlotUp, Up
    <3>3. QED
      BY Zenon, <1>2, <2>2, <3>2, NextDisk
  <2>3. QED
    BY Zenon, <2>1, <2>2 DEF DiskInv
<1>3. DiskInv => (phase = "up" => RestoreMatchesDisk)
    BY Zenon DEF DiskInv, DiskOK, DiskThread, RestoreMatchesDisk, At
<1>4. QED
    BY <1>1, <1>2, <1>3, PTL DEF Spec
=============================================================================
