--------------------------- MODULE LifecycleProofs ---------------------------
(***************************************************************************)
(* The sweep spares recent requests and never stops an ephemeral           *)
(* sandbox, for any number of clients and runners and any windows.         *)
(***************************************************************************)
EXTENDS SandboxLifecycle, TLAPS

ClientSteps == {"idle"} \cup RequestSteps \cup CreateSteps \cup DeleteSteps
ClientKinds == {"none", "exec", "execDelete", "create", "createEphemeral", "delete", "rollback"}
LockedSteps == CreateSteps \cup DeleteSteps \cup {"stopRpc", "stopSave"}

\* Clients and the sweep run their own code.
Roles ==
  /\ \A c \in Clients : pc[c] \in ClientSteps /\ op[c] \in ClientKinds
  /\ pc[Sweeper] \in {"idle"} \cup SweepSteps \cup DeleteSteps
  /\ pc[Sweeper] \in {"stopRpc", "stopSave"} => op[Sweeper] = "stop"
  /\ pc[Sweeper] \in DeleteSteps => op[Sweeper] \in {"idleDelete", "ephemeralDelete"}

\* A handler holds the lock as long as it needs it.
Holds == \A p \in Procs : pc[p] \in LockedSteps => lock = p

\* A handler reads its clock when it begins; the age of a request counts to its bound.
Clocks ==
  /\ \A p \in Procs : pc[p] = "idle" => age[p] = 0
  /\ \A p \in Procs : pc[p] \in RequestSteps => age[p] <= MaxLatency
  /\ \A p \in Procs : pc[p] \notin RequestSteps => age[p] <= MaxCall

\* A request whose age still counts.
Fresh(c) == pc[c] \in RequestSteps /\ age[c] < MaxLatency

\* The row of a request in flight was within its window when the request passed the
\* fence, or is a later one.
Fenced ==
  \A c \in Clients : (Fresh(c) /\ Row /\ Window > 0) => idle - age[c] <= Window

\* A create that is placing its sandbox has no row, so no request passed the fence
\* and no sweep listed the id since it read its clock.
Placing ==
  \A p \in Procs : pc[p] \in CreateSteps =>
    /\ ~Row
    /\ pc[p] = "insert" => target[p] \in Runners
    /\ \A c \in Clients : Fresh(c) => age[p] <= age[c]
    /\ pc[Sweeper] \in {"stopWait", "ephemeralWait"} => age[p] <= age[Sweeper]

\* A row of the other kind than the sweep listed was inserted since the sweep began.
Listed ==
  /\ pc[Sweeper] = "stopWait" =>
       StopAfter > 0 /\ (Row /\ ephemeral => idle <= age[Sweeper])
  /\ pc[Sweeper] = "deleteWait" => DeleteAfter > 0
  /\ pc[Sweeper] = "ephemeralWait" => (Row /\ ~ephemeral => idle <= age[Sweeper])

\* What the sweep found under the lock stays true while it holds it.
Stopping == (pc[Sweeper] \in {"stopRpc", "stopSave"} /\ Row) => ~ephemeral

\* A delete acts on the runner its row names, and Docker has nothing under the id
\* when it drops the row.
Dropping ==
  \A p \in Procs : pc[p] \in DeleteSteps =>
    /\ target[p] \in Runners
    /\ (op[p] # "rollback" /\ Row) => host = target[p]
    /\ (pc[p] = "drop" /\ ~Firecracker) => vm[target[p]] = "none"

Inv ==
  /\ TypeOK /\ Roles /\ Holds /\ Clocks /\ Fenced /\ Placing
  /\ Listed /\ Stopping /\ Dropping /\ EphemeralNeverStopped

------------------------------------------------------------------------------
\* Every step preserves the invariant: one lemma per action, one step per group of
\* related parts.

USE DEF Procs, Statuses, Steps, RequestSteps, CreateSteps, DeleteSteps, SweepSteps, Kinds,
        ClientSteps, ClientKinds, LockedSteps, At, Goto, Move, Row, Fault, NoFault,
        rowVars, runnerVars, procVars, Fresh


LEMMA AdmitKeeps ==
  ASSUME Inv, NEW c \in Clients, NEW kind \in {"exec", "execDelete"}, Admit(c, kind)
  PROVE  Inv'
<1>1. TypeOK'
    BY LifecycleAssumption DEF Inv, Admit, Begin, Call, TypeOK
<1>2. (Roles /\ Holds /\ Clocks)'
    BY LifecycleAssumption DEF Inv, Admit, Begin, Call, Roles, Holds, Clocks
<1>3. (Fenced /\ Placing)'
    BY LifecycleAssumption DEF Inv, Admit, Begin, IsPastIdleDeleteWindow, Window,
       EphemeralIdleWindow, Fenced, Placing, TypeOK
<1>4. (Listed /\ Stopping /\ EphemeralNeverStopped)'
    BY DEF Inv, Admit, Begin, IsPastIdleDeleteWindow, Listed, Stopping,
       EphemeralNeverStopped
<1>5. Dropping'
    BY DEF Inv, Admit, Begin, Call, Dropping
<1>6. QED
    BY Zenon, <1>1, <1>2, <1>3, <1>4, <1>5 DEF Inv

LEMMA AnswerKeeps ==
  ASSUME Inv, NEW c \in Clients, Serve(c) \/ ExecutionGone(c) \/ SandboxGone(c)
  PROVE  Inv'
<1>1. TypeOK'
    BY DEF Inv, Serve, ExecutionGone, SandboxGone, TypeOK
<1>2. (Roles /\ Holds /\ Clocks)'
    BY LifecycleAssumption DEF Inv, Serve, ExecutionGone, SandboxGone, Roles, TypeOK, Holds, Clocks
<1>3. (Fenced /\ Placing)'
    BY DEF Inv, Serve, ExecutionGone, SandboxGone, Fenced, Window, Placing, TypeOK
<1>4. (Listed /\ Stopping /\ EphemeralNeverStopped)'
    BY DEF Inv, Serve, ExecutionGone, SandboxGone, Listed, TypeOK, Stopping, EphemeralNeverStopped
<1>5. Dropping'
    BY DEF Inv, Serve, ExecutionGone, SandboxGone, Dropping, TypeOK
<1>6. QED
    BY Zenon, <1>1, <1>2, <1>3, <1>4, <1>5 DEF Inv

LEMMA UnavailableKeeps == ASSUME Inv, NEW c \in Clients, Unavailable(c) PROVE Inv'
<1>1. TypeOK'
    BY LifecycleAssumption DEF Inv, Unavailable, Return, AfterCall, Begin, TypeOK
<1>2. (Roles /\ Holds /\ Clocks)'
    BY LifecycleAssumption DEF Inv, Unavailable, Return, AfterCall, Begin, Roles, TypeOK, Holds, Clocks
<1>3. (Fenced /\ Placing)'
    BY DEF Inv, Unavailable, Return, AfterCall, Begin, Fenced, Window, Placing, TypeOK
<1>4. (Listed /\ Stopping /\ EphemeralNeverStopped)'
    BY DEF Inv, Unavailable, Return, AfterCall, Begin, Listed, Stopping,
       EphemeralNeverStopped
<1>5. Dropping'
    BY DEF Inv, Unavailable, Return, AfterCall, Begin, Dropping
<1>6. QED
    BY Zenon, <1>1, <1>2, <1>3, <1>4, <1>5 DEF Inv

LEMMA MarkLastActiveKeeps == ASSUME Inv, NEW c \in Clients, MarkLastActive(c) PROVE Inv'
<1>1. TypeOK'
    BY LifecycleAssumption DEF Inv, MarkLastActive, Store, UpdateLastActive, TypeOK
<1>2. (Roles /\ Holds /\ Clocks)'
    BY LifecycleAssumption DEF Inv, MarkLastActive, Roles, Holds, Clocks
<1>3. (Fenced /\ Placing)'
    BY LifecycleAssumption DEF Inv, MarkLastActive, Store, UpdateLastActive, Fenced, Window,
       EphemeralIdleWindow, Placing, TypeOK
<1>4. (Listed /\ Stopping /\ EphemeralNeverStopped)'
    BY DEF Inv, MarkLastActive, Store, UpdateLastActive, Listed, TypeOK, Stopping, EphemeralNeverStopped
<1>5. Dropping'
    BY DEF Inv, MarkLastActive, Store, UpdateLastActive, Dropping
<1>6. QED
    BY Zenon, <1>1, <1>2, <1>3, <1>4, <1>5 DEF Inv

LEMMA MarkRunningKeeps == ASSUME Inv, NEW c \in Clients, MarkRunning(c) PROVE Inv'
<1>1. TypeOK'
    BY LifecycleAssumption DEF Inv, MarkRunning, Return, AfterCall, Begin, Store, UpdateStatus,
       TypeOK
<1>2. (Roles /\ Holds /\ Clocks)'
    BY LifecycleAssumption DEF Inv, MarkRunning, Return, AfterCall, Begin, Roles, TypeOK, Holds, Clocks
<1>3. (Fenced /\ Placing)'
    BY DEF Inv, MarkRunning, Return, AfterCall, Begin, Store, UpdateStatus, Fenced, Window,
       Placing, TypeOK
<1>4. (Listed /\ Stopping /\ EphemeralNeverStopped)'
    BY DEF Inv, MarkRunning, Return, Begin, Store, UpdateStatus, Listed, Roles, Stopping, EphemeralNeverStopped
<1>5. Dropping'
    BY DEF Inv, MarkRunning, Return, AfterCall, Begin, Store, UpdateStatus, Dropping
<1>6. QED
    BY Zenon, <1>1, <1>2, <1>3, <1>4, <1>5 DEF Inv

LEMMA ReapSandboxIfRunnerGoneKeeps ==
  ASSUME Inv, NEW c \in Clients, ReapSandboxIfRunnerGone(c)
  PROVE  Inv'
<1>1. TypeOK'
  <2>1. ephemeral' \in BOOLEAN
    BY Zenon DEF Inv, ReapSandboxIfRunnerGone, DeleteRow, SetRow, Store, TypeOK
  <2>2. QED
    BY <2>1, LifecycleAssumption DEF Inv, ReapSandboxIfRunnerGone, DeleteRow, SetRow, Return,
       AfterCall, Begin, Store, TypeOK
<1>2. (Roles /\ Holds /\ Clocks)'
    BY LifecycleAssumption DEF Inv, ReapSandboxIfRunnerGone, Return, AfterCall, Begin, Roles, TypeOK, Holds, Clocks
<1>3. (Fenced /\ Placing)'
    BY DEF Inv, ReapSandboxIfRunnerGone, DeleteRow, SetRow, Return, AfterCall, Begin, Store,
       Fenced, Window, Placing, TypeOK
<1>4. (Listed /\ Stopping /\ EphemeralNeverStopped)'
    BY DEF Inv, ReapSandboxIfRunnerGone, DeleteRow, SetRow, Return, AfterCall, Begin, Store,
       Listed, Stopping, EphemeralNeverStopped
<1>5. Dropping'
    BY DEF Inv, ReapSandboxIfRunnerGone, DeleteRow, SetRow, Return, AfterCall, Begin, Store,
       Dropping
<1>6. QED
    BY Zenon, <1>1, <1>2, <1>3, <1>4, <1>5 DEF Inv

LEMMA CreateSandboxKeeps ==
  ASSUME Inv, NEW c \in Clients, NEW kind \in {"create", "createEphemeral"}, CreateSandbox(c, kind)
  PROVE  Inv'
<1>1. TypeOK'
    BY LifecycleAssumption DEF Inv, CreateSandbox, Begin, Call, TypeOK
<1>2. (Roles /\ Holds /\ Clocks)'
    BY LifecycleAssumption DEF Inv, CreateSandbox, Begin, Call, LockFree, Roles, TypeOK, Holds, Clocks
<1>3. (Fenced /\ Placing)'
    BY DEF Inv, CreateSandbox, Begin, Call, Window, Fenced, Clocks, Placing, TypeOK
<1>4. (Listed /\ Stopping /\ EphemeralNeverStopped)'
    BY LifecycleAssumption DEF Inv, CreateSandbox, Begin, LockFree, Listed, TypeOK, Stopping,
       Holds, EphemeralNeverStopped
<1>5. Dropping'
    BY DEF Inv, CreateSandbox, Begin, Dropping, TypeOK
<1>6. QED
    BY Zenon, <1>1, <1>2, <1>3, <1>4, <1>5 DEF Inv

LEMMA DeleteSandboxKeeps == ASSUME Inv, NEW c \in Clients, DeleteSandbox(c) PROVE Inv'
<1>1. TypeOK'
    BY LifecycleAssumption DEF Inv, DeleteSandbox, Begin, Call, TypeOK
<1>2. (Roles /\ Holds /\ Clocks)'
    BY LifecycleAssumption DEF Inv, DeleteSandbox, Begin, Call, LockFree, Roles, Holds, Clocks
<1>3. (Fenced /\ Placing)'
    BY DEF Inv, DeleteSandbox, Begin, Fenced, Window, Placing
<1>4. (Listed /\ Stopping /\ EphemeralNeverStopped)'
    BY LifecycleAssumption DEF Inv, DeleteSandbox, Begin, Listed, Stopping, Window, EphemeralNeverStopped
<1>5. Dropping'
    BY DEF Inv, DeleteSandbox, Begin, Dropping, TypeOK
<1>6. QED
    BY Zenon, <1>1, <1>2, <1>3, <1>4, <1>5 DEF Inv

LEMMA PlaceSandboxKeeps ==
  ASSUME Inv, NEW c \in Clients, NEW r \in Runners, PlaceSandbox(c, r)
  PROVE  Inv'
<1>1. TypeOK'
    BY LifecycleAssumption DEF Inv, PlaceSandbox, ReturnLocked, Return, AfterCall, Begin,
       Unlock, TypeOK
<1>2. (Roles /\ Holds /\ Clocks)'
    BY LifecycleAssumption DEF Inv, PlaceSandbox, ReturnLocked, Return, AfterCall, Begin, Roles, TypeOK, Holds,
       Clocks
<1>3. (Fenced /\ Placing)'
    BY DEF Inv, PlaceSandbox, ReturnLocked, Return, AfterCall, Begin, Fenced, Placing, TypeOK
<1>4. (Listed /\ Stopping /\ EphemeralNeverStopped)'
    BY DEF Inv, PlaceSandbox, ReturnLocked, Return, Begin, Listed, Roles, TypeOK, Stopping,
       Holds, EphemeralNeverStopped
<1>5. Dropping'
    BY DEF Inv, PlaceSandbox, ReturnLocked, Return, AfterCall, Begin, Dropping, Holds, TypeOK
<1>6. QED
    BY Zenon, <1>1, <1>2, <1>3, <1>4, <1>5 DEF Inv

LEMMA PlaceFailsKeeps == ASSUME Inv, NEW c \in Clients, PlaceFails(c) PROVE Inv'
<1>1. TypeOK'
    BY LifecycleAssumption DEF Inv, PlaceFails, ReturnLocked, Return, AfterCall, Begin, Unlock,
       TypeOK
<1>2. (Roles /\ Holds /\ Clocks)'
    BY LifecycleAssumption DEF Inv, PlaceFails, ReturnLocked, Return, AfterCall, Begin, Roles, TypeOK, Holds, Clocks
<1>3. (Fenced /\ Placing)'
    BY DEF Inv, PlaceFails, ReturnLocked, Return, AfterCall, Begin, Fenced, Placing, TypeOK
<1>4. (Listed /\ Stopping /\ EphemeralNeverStopped)'
    BY DEF Inv, PlaceFails, ReturnLocked, Return, Begin, Listed, Roles, Stopping, Holds, EphemeralNeverStopped
<1>5. Dropping'
    BY DEF Inv, PlaceFails, ReturnLocked, Return, AfterCall, Begin, Dropping
<1>6. QED
    BY Zenon, <1>1, <1>2, <1>3, <1>4, <1>5 DEF Inv

LEMMA InsertSandboxKeeps == ASSUME Inv, NEW c \in Clients, InsertSandbox(c) PROVE Inv'
<1>1. TypeOK'
  <2>1. ephemeral' \in BOOLEAN
    BY Zenon DEF Inv, InsertSandbox, SaveRow, SetRow, TypeOK
  <2>2. QED
    BY <2>1, LifecycleAssumption DEF Inv, InsertSandbox, ReturnLocked, Return, AfterCall, Begin,
       Unlock, SaveRow, SetRow, TypeOK, Placing, Clocks
<1>2. (Roles /\ Holds /\ Clocks)'
    BY LifecycleAssumption DEF Inv, InsertSandbox, ReturnLocked, Return, AfterCall, Begin, Roles, TypeOK, Holds,
       Clocks
<1>3. (Fenced /\ Placing)'
    BY LifecycleAssumption DEF Inv, InsertSandbox, ReturnLocked, Return, AfterCall, Begin,
       SaveRow, SetRow, Fenced, Window, EphemeralIdleWindow, Placing, TypeOK, Holds
<1>4. (Listed /\ Stopping /\ EphemeralNeverStopped)'
    BY DEF Inv, InsertSandbox, ReturnLocked, Return, Begin, SaveRow, SetRow, Listed, Placing,
       Roles, Stopping, Holds, EphemeralNeverStopped
<1>5. Dropping'
    BY DEF Inv, InsertSandbox, ReturnLocked, Return, AfterCall, Begin, Dropping, Holds
<1>6. QED
    BY Zenon, <1>1, <1>2, <1>3, <1>4, <1>5 DEF Inv

LEMMA InsertFailsKeeps == ASSUME Inv, NEW c \in Clients, InsertFails(c) PROVE Inv'
<1>1. TypeOK'
  <2>1. ephemeral' \in BOOLEAN
    BY Zenon DEF Inv, InsertFails, SaveRow, SetRow, TypeOK
  <2>2. QED
    BY <2>1, LifecycleAssumption DEF Inv, InsertFails, Begin, SaveRow, SetRow, TypeOK, Placing, Clocks
<1>2. (Roles /\ Holds /\ Clocks)'
    BY LifecycleAssumption DEF Inv, InsertFails, Begin, Roles, Holds, Clocks
<1>3. (Fenced /\ Placing)'
    BY LifecycleAssumption DEF Inv, InsertFails, Begin, SaveRow, SetRow, Fenced, Window,
       EphemeralIdleWindow, Placing, TypeOK, Holds
<1>4. (Listed /\ Stopping /\ EphemeralNeverStopped)'
    BY DEF Inv, InsertFails, Begin, SaveRow, SetRow, Listed, Placing, Roles, Stopping, Holds, EphemeralNeverStopped
<1>5. Dropping'
    BY DEF Inv, InsertFails, Begin, SaveRow, SetRow, Dropping, Holds, Placing
<1>6. QED
    BY Zenon, <1>1, <1>2, <1>3, <1>4, <1>5 DEF Inv

LEMMA CallDeleteKeeps == ASSUME Inv, NEW p \in Procs, CallDelete(p) PROVE Inv'
<1>1. TypeOK'
    BY LifecycleAssumption DEF Inv, CallDelete, ReturnLocked, Return, AfterCall, Begin, Unlock,
       TypeOK
<1>2. (Roles /\ Holds /\ Clocks)'
    BY LifecycleAssumption DEF Inv, CallDelete, ReturnLocked, Return, AfterCall, Begin, Roles, TypeOK, Holds, Clocks
<1>3. (Fenced /\ Placing)'
    BY DEF Inv, CallDelete, ReturnLocked, Return, AfterCall, Begin, Fenced, Window, Placing,
       TypeOK
<1>4. (Listed /\ Stopping /\ EphemeralNeverStopped)'
    BY DEF Inv, CallDelete, ReturnLocked, Return, AfterCall, Begin, Listed, TypeOK, Stopping, Window, EphemeralNeverStopped
<1>5. Dropping'
    BY DEF Inv, CallDelete, ReturnLocked, Return, AfterCall, Begin, NotFound, Dropping, TypeOK
<1>6. QED
    BY Zenon, <1>1, <1>2, <1>3, <1>4, <1>5 DEF Inv

LEMMA DeleteReturnsKeeps == ASSUME Inv, NEW p \in Procs, DeleteReturns(p) PROVE Inv'
<1>1. TypeOK'
    BY LifecycleAssumption DEF Inv, DeleteReturns, ReturnLocked, Return, AfterCall, Begin,
       Unlock, TypeOK
<1>2. (Roles /\ Holds /\ Clocks)'
    BY LifecycleAssumption DEF Inv, DeleteReturns, ReturnLocked, Return, AfterCall, Begin, Roles, TypeOK, Holds,
       Clocks
<1>3. (Fenced /\ Placing)'
    BY DEF Inv, DeleteReturns, ReturnLocked, Return, AfterCall, Begin, Fenced, Window, Placing,
       TypeOK
<1>4. (Listed /\ Stopping /\ EphemeralNeverStopped)'
    BY DEF Inv, DeleteReturns, ReturnLocked, Return, AfterCall, Begin, Listed, TypeOK, Stopping,
       Holds, EphemeralNeverStopped
<1>5. Dropping'
    BY DEF Inv, DeleteReturns, ReturnLocked, Return, AfterCall, Begin, Dropping, TypeOK
<1>6. QED
    BY Zenon, <1>1, <1>2, <1>3, <1>4, <1>5 DEF Inv

LEMMA AbandonDeleteKeeps == ASSUME Inv, NEW p \in Procs, AbandonDelete(p) PROVE Inv'
<1>1. TypeOK'
    BY LifecycleAssumption DEF Inv, AbandonDelete, ReturnLocked, Return, AfterCall, Begin,
       Unlock, TypeOK
<1>2. (Roles /\ Holds /\ Clocks)'
    BY LifecycleAssumption DEF Inv, AbandonDelete, ReturnLocked, Return, AfterCall, Begin, Roles, TypeOK, Holds,
       Clocks
<1>3. (Fenced /\ Placing)'
    BY DEF Inv, AbandonDelete, ReturnLocked, Return, AfterCall, Begin, Fenced, Window, Placing
<1>4. (Listed /\ Stopping /\ EphemeralNeverStopped)'
    BY DEF Inv, AbandonDelete, ReturnLocked, Return, AfterCall, Begin, Listed, TypeOK, Stopping,
       Holds, EphemeralNeverStopped
<1>5. Dropping'
    BY DEF Inv, AbandonDelete, ReturnLocked, Return, AfterCall, Begin, Dropping, TypeOK
<1>6. QED
    BY Zenon, <1>1, <1>2, <1>3, <1>4, <1>5 DEF Inv

LEMMA DropRowKeeps == ASSUME Inv, NEW p \in Procs, DropRow(p) PROVE Inv'
<1>1. TypeOK'
  <2>1. ephemeral' \in BOOLEAN
    BY Zenon DEF Inv, DropRow, DeleteRow, SetRow, TypeOK
  <2>2. QED
    BY <2>1, LifecycleAssumption DEF Inv, DropRow, Begin, DeleteRow, SetRow, ReturnLocked,
       Return, AfterCall, Unlock, TypeOK
<1>2. (Roles /\ Holds /\ Clocks)'
    BY LifecycleAssumption DEF Inv, DropRow, Begin, ReturnLocked, Return, AfterCall, Roles, TypeOK, Holds, Clocks
<1>3. (Fenced /\ Placing)'
    BY DEF Inv, DropRow, Begin, DeleteRow, SetRow, ReturnLocked, Return, AfterCall, Fenced,
       Window, Placing, TypeOK
<1>4. (Listed /\ Stopping /\ EphemeralNeverStopped)'
    BY DEF Inv, DropRow, Begin, DeleteRow, SetRow, ReturnLocked, Return, AfterCall, Listed,
       TypeOK, Stopping, Window, EphemeralNeverStopped
<1>5. Dropping'
    BY DEF Inv, DropRow, Begin, DeleteRow, SetRow, ReturnLocked, Return, AfterCall, Dropping,
       TypeOK
<1>6. QED
    BY Zenon, <1>1, <1>2, <1>3, <1>4, <1>5 DEF Inv

\* Listing changes nothing but where the sweep stands; a candidate has a row.
Lists ==
  /\ UNCHANGED <<status, idle, ephemeral, host>> /\ UNCHANGED <<vm, prior, link>>
  /\ UNCHANGED <<lock, op, target, ops>>
  /\ faults' \in 0..MaxFaults
  /\ \E step \in {"idle"} \cup (SweepSteps \ {"stopRpc", "stopSave"}), read \in {0, age[Sweeper]} :
       /\ pc' = [pc EXCEPT ![Sweeper] = step]
       /\ age' = [age EXCEPT ![Sweeper] = read]
       /\ step = "idle" => read = 0
       /\ step = "stopWait" => StopAfter > 0 /\ status # "none" /\ ~ephemeral
       /\ step = "deleteWait" => DeleteAfter > 0
       /\ step = "ephemeralWait" => status # "none" /\ ephemeral

LEMMA ListPhaseLists ==
  ASSUME Inv, NEW phase, NEW candidate \in BOOLEAN,
         NEW wait \in SweepSteps \ {"stopRpc", "stopSave"},
         NEW next \in {"deletePhase", "ephemeralPhase", "idle"},
         ListPhase(phase, candidate, wait, next),
         candidate =>
           /\ wait = "stopWait" => StopAfter > 0 /\ status # "none" /\ ~ephemeral
           /\ wait = "deleteWait" => DeleteAfter > 0
           /\ wait = "ephemeralWait" => status # "none" /\ ephemeral
  PROVE  Lists
<1>1. CASE candidate /\ Goto(Sweeper, wait) /\ UNCHANGED age /\ NoFault
    BY Zenon, <1>1 DEF Inv, TypeOK, ListPhase, Lists
<1>2. CASE /\ Goto(Sweeper, next)
           /\ age' = [age EXCEPT ![Sweeper] = IF next = "idle" THEN 0 ELSE @]
           /\ IF candidate THEN Fault ELSE NoFault
  <2>1. faults' \in 0..MaxFaults
    BY <1>2, LifecycleAssumption DEF Inv, TypeOK
  <2>2. \E read \in {0, age[Sweeper]} :
          age' = [age EXCEPT ![Sweeper] = read] /\ (next = "idle" => read = 0)
    BY Zenon, <1>2
  <2>3. next \notin {"stopWait", "deleteWait", "ephemeralWait"}
    BY Zenon
  <2>4. QED
    BY Zenon, <1>2, <2>1, <2>2, <2>3 DEF ListPhase, Lists
<1>3. QED
    BY Zenon, <1>1, <1>2 DEF ListPhase

LEMMA ListKeeps ==
  ASSUME Inv, StartSweep \/ SweepIdleStop \/ SweepIdleDelete \/ SweepEphemeral
  PROVE  Inv'
<1>1. Lists
  <2>1. CASE StartSweep
    <3>1. age' = [age EXCEPT ![Sweeper] = age[Sweeper]] /\ faults' \in 0..MaxFaults
      BY <2>1 DEF Inv, TypeOK, StartSweep
    <3>2. pc' = [pc EXCEPT ![Sweeper] = "stopPhase"]
      BY Zenon, <2>1 DEF StartSweep
    <3>3. "stopPhase" \in {"idle"} \cup (SweepSteps \ {"stopRpc", "stopSave"})
      OBVIOUS
    <3>4. QED
      BY Zenon, <2>1, <3>1, <3>2, <3>3 DEF StartSweep, Lists
  <2>2. CASE SweepIdleStop
    BY Zenon, <2>2, ListPhaseLists DEF SweepIdleStop, ListForIdleReapStop
  <2>3. CASE SweepIdleDelete
    BY Zenon, <2>3, ListPhaseLists DEF SweepIdleDelete, ListForIdleReapDelete, IdleSince
  <2>4. CASE SweepEphemeral
    BY Zenon, <2>4, ListPhaseLists DEF SweepEphemeral, ListForIdleReapStop
  <2>5. QED
    BY Zenon, <2>1, <2>2, <2>3, <2>4
<1>2. TypeOK'
    BY <1>1, LifecycleAssumption DEF Inv, Lists, TypeOK
<1>3. (Roles /\ Holds /\ Clocks)'
    BY <1>1, LifecycleAssumption DEF Inv, Lists, TypeOK, Roles, Holds, Clocks
<1>4. (Fenced /\ Placing)'
    BY <1>1 DEF Inv, Lists, TypeOK, Fenced, Window, Placing
<1>5. (Listed /\ Stopping /\ EphemeralNeverStopped)'
    BY <1>1 DEF Inv, Lists, TypeOK, Listed, Stopping,
       EphemeralNeverStopped
<1>6. Dropping'
    BY <1>1, LifecycleAssumption DEF Inv, Lists, TypeOK, Dropping
<1>7. QED
    BY Zenon, <1>2, <1>3, <1>4, <1>5, <1>6 DEF Inv

LEMMA LockForStopKeeps == ASSUME Inv, LockForStop PROVE Inv'
<1>1. TypeOK'
  <2>1. ephemeral' \in BOOLEAN
    BY Zenon DEF Inv, LockForStop, Locked, DeleteRow, SetRow, Store, TypeOK
  <2>2. QED
    BY <2>1, LifecycleAssumption DEF Inv, LockForStop, Locked, AfterCall, Begin, DeleteRow,
       SetRow, Store, TypeOK
<1>2. (Roles /\ Holds /\ Clocks)'
    BY LifecycleAssumption DEF Inv, LockForStop, Locked, AfterCall, Begin, LockFree, Roles,
       TypeOK, Holds, Clocks
<1>3. (Fenced /\ Placing)'
    BY DEF Inv, LockForStop, Locked, AfterCall, Begin, DeleteRow, SetRow, Store, Fenced, Window,
       Placing, TypeOK
<1>4. (Listed /\ Stopping /\ EphemeralNeverStopped)'
    BY LifecycleAssumption DEF Inv, LockForStop, IdleSince, Locked, AfterCall, Begin, DeleteRow,
       SetRow, Store, Listed, TypeOK, Stopping, EphemeralNeverStopped
<1>5. Dropping'
    BY DEF Inv, LockForStop, Locked, AfterCall, Begin, DeleteRow, SetRow, Store, Dropping,
       TypeOK
<1>6. QED
    BY Zenon, <1>1, <1>2, <1>3, <1>4, <1>5 DEF Inv

LEMMA LockForIdleDeleteKeeps == ASSUME Inv, LockForIdleDelete PROVE Inv'
<1>1. TypeOK'
  <2>1. ephemeral' \in BOOLEAN
    BY Zenon DEF Inv, LockForIdleDelete, Locked, DeleteRow, SetRow, Store, TypeOK
  <2>2. QED
    BY <2>1, LifecycleAssumption DEF Inv, LockForIdleDelete, Locked, AfterCall, Begin,
       DeleteRow, SetRow, Store, TypeOK
<1>2. (Roles /\ Holds /\ Clocks)'
    BY LifecycleAssumption DEF Inv, LockForIdleDelete, Locked, AfterCall, Begin, LockFree,
       Roles, TypeOK, Holds, Clocks
<1>3. (Fenced /\ Placing)'
    BY DEF Inv, LockForIdleDelete, Locked, AfterCall, Begin, DeleteRow, SetRow, Store, Fenced,
       Window, Placing, TypeOK
<1>4. (Listed /\ Stopping /\ EphemeralNeverStopped)'
    BY LifecycleAssumption DEF Inv, LockForIdleDelete, DeleteCutoff, IdleSince, Locked,
       AfterCall, Begin, DeleteRow, SetRow, Store, Listed, TypeOK, Stopping, Window, Fenced, Clocks, EphemeralNeverStopped
<1>5. Dropping'
    BY DEF Inv, LockForIdleDelete, Locked, AfterCall, Begin, DeleteRow, SetRow, Store, Dropping,
       TypeOK
<1>6. QED
    BY Zenon, <1>1, <1>2, <1>3, <1>4, <1>5 DEF Inv

LEMMA LockForEphemeralKeeps == ASSUME Inv, LockForEphemeral PROVE Inv'
<1>1. TypeOK'
  <2>1. ephemeral' \in BOOLEAN
    BY Zenon DEF Inv, LockForEphemeral, Locked, DeleteRow, SetRow, Store, TypeOK
  <2>2. QED
    BY <2>1, LifecycleAssumption DEF Inv, LockForEphemeral, Locked, AfterCall, Begin, DeleteRow,
       SetRow, Store, TypeOK
<1>2. (Roles /\ Holds /\ Clocks)'
    BY LifecycleAssumption DEF Inv, LockForEphemeral, Locked, AfterCall, Begin, LockFree, Roles,
       TypeOK, Holds, Clocks
<1>3. (Fenced /\ Placing)'
    BY DEF Inv, LockForEphemeral, Locked, AfterCall, Begin, DeleteRow, SetRow, Store, Fenced,
       Window, Placing, TypeOK
<1>4. (Listed /\ Stopping /\ EphemeralNeverStopped)'
    BY LifecycleAssumption DEF Inv, LockForEphemeral, DeleteCutoff, EphemeralIdleWindow,
       IdleSince, Locked, AfterCall, Begin, DeleteRow, SetRow, Store, Listed, TypeOK, Stopping, Window, Fenced, Clocks, EphemeralNeverStopped
<1>5. Dropping'
    BY DEF Inv, LockForEphemeral, Locked, AfterCall, Begin, DeleteRow, SetRow, Store, Dropping,
       TypeOK
<1>6. QED
    BY Zenon, <1>1, <1>2, <1>3, <1>4, <1>5 DEF Inv

LEMMA StopSandboxKeeps == ASSUME Inv, StopSandbox PROVE Inv'
<1>1. TypeOK'
    BY LifecycleAssumption DEF Inv, StopSandbox, ReturnLocked, Return, AfterCall, Begin, Unlock,
       TypeOK
<1>2. (Roles /\ Holds /\ Clocks)'
    BY LifecycleAssumption DEF Inv, StopSandbox, ReturnLocked, Return, AfterCall, Begin, Roles, TypeOK, Holds,
       Clocks
<1>3. (Fenced /\ Placing)'
    BY DEF Inv, StopSandbox, ReturnLocked, Return, AfterCall, Begin, Fenced, Window, Placing,
       TypeOK
<1>4. (Listed /\ Stopping /\ EphemeralNeverStopped)'
    BY DEF Inv, StopSandbox, ReturnLocked, Return, AfterCall, Begin, Listed, TypeOK, Stopping, EphemeralNeverStopped
<1>5. Dropping'
    BY DEF Inv, StopSandbox, ReturnLocked, Return, AfterCall, Begin, Dropping, TypeOK
<1>6. QED
    BY Zenon, <1>1, <1>2, <1>3, <1>4, <1>5 DEF Inv

LEMMA SaveStoppedKeeps == ASSUME Inv, SaveStopped PROVE Inv'
<1>1. TypeOK'
    BY LifecycleAssumption DEF Inv, SaveStopped, ReturnLocked, Return, AfterCall, Begin, Unlock,
       Store, UpdateStatus, TypeOK
<1>2. (Roles /\ Holds /\ Clocks)'
    BY LifecycleAssumption DEF Inv, SaveStopped, ReturnLocked, Return, AfterCall, Begin, Roles, TypeOK, Holds,
       Clocks
<1>3. (Fenced /\ Placing)'
    BY DEF Inv, SaveStopped, ReturnLocked, Return, AfterCall, Begin, Store, UpdateStatus,
       Fenced, Window, Placing
<1>4. (Listed /\ Stopping /\ EphemeralNeverStopped)'
    BY DEF Inv, SaveStopped, ReturnLocked, Return, AfterCall, Begin, Store, UpdateStatus,
       Listed, Stopping, EphemeralNeverStopped
<1>5. Dropping'
    BY DEF Inv, SaveStopped, ReturnLocked, Return, AfterCall, Begin, Dropping, Holds
<1>6. QED
    BY Zenon, <1>1, <1>2, <1>3, <1>4, <1>5 DEF Inv

LEMMA RunnerStepKeeps == ASSUME Inv, NEW r \in Runners, RunnerStep(r) PROVE Inv'
<1>1. TypeOK'
    BY LifecycleAssumption DEF Inv, RunnerStep, GoneLongEnough, GuestDies, RunnerBack,
       RunnerDeleteFails, RunnerDeletes, RunnerLost, TypeOK
<1>2. UNCHANGED <<status, idle, ephemeral, host, lock, pc, op, target, age>>
    BY Zenon DEF RunnerStep, GoneLongEnough, GuestDies, RunnerBack, RunnerDeleteFails,
       RunnerDeletes, RunnerLost
<1>3. \A q \in Runners : vm[q] = "none" => vm'[q] = "none"
    BY DEF Inv, TypeOK, RunnerStep, GoneLongEnough, GuestDies, RunnerBack, RunnerDeleteFails,
       RunnerDeletes, RunnerLost
<1>4. (Roles /\ Holds /\ Clocks /\ Fenced /\ Placing)'
    BY Zenon, <1>2 DEF Inv, Roles, Holds, Clocks, Fenced, Window, Placing
<1>5. (Listed /\ Stopping /\ EphemeralNeverStopped)'
    BY Zenon, <1>2 DEF Inv, Listed, Stopping, Window, EphemeralNeverStopped
<1>6. Dropping'
    BY Zenon, <1>2, <1>3 DEF Inv, Dropping
<1>7. QED
    BY Zenon, <1>1, <1>4, <1>5, <1>6 DEF Inv

LEMMA TickKeeps == ASSUME Inv, Tick PROVE Inv'
<1>1. TypeOK'
    BY LifecycleAssumption DEF Inv, Tick, TypeOK
<1>2. (Roles /\ Holds /\ Clocks)'
    BY LifecycleAssumption DEF Inv, Tick, Busy, Roles, TypeOK, Holds, Clocks
<1>3. (Fenced /\ Placing)'
    BY LifecycleAssumption DEF Inv, Tick, Busy, Fenced, Window, EphemeralIdleWindow, Placing,
       TypeOK
<1>4. (Listed /\ Stopping /\ EphemeralNeverStopped)'
    BY LifecycleAssumption DEF Inv, Tick, Busy, Listed, TypeOK, Stopping,
       Window, EphemeralIdleWindow, EphemeralNeverStopped
<1>5. Dropping'
    BY Zenon DEF Inv, Tick, Dropping
<1>6. QED
    BY Zenon, <1>1, <1>2, <1>3, <1>4, <1>5 DEF Inv

LEMMA InitInv == Init => Inv
<1> SUFFICES ASSUME Init PROVE Inv
    OBVIOUS
<1>1. ephemeral \in BOOLEAN
    BY Zenon DEF Init
<1>2. TypeOK
    BY <1>1, LifecycleAssumption DEF Init, TypeOK
<1>3. Roles /\ Holds /\ Clocks /\ Placing /\ Dropping
    BY LifecycleAssumption DEF Init, Roles, Holds, Clocks, Placing, Dropping
<1>4. Fenced /\ Listed /\ Stopping /\ EphemeralNeverStopped
    BY LifecycleAssumption DEF Init, Fenced, Listed, Stopping, EphemeralNeverStopped
<1>5. QED
    BY Zenon, <1>2, <1>3, <1>4 DEF Inv

LEMMA NextInv == Inv /\ [Next]_vars => Inv'
<1> SUFFICES ASSUME Inv, [Next]_vars PROVE Inv'
    OBVIOUS
<1>1. ASSUME NEW c \in Clients, ClientCall(c) PROVE Inv'
    BY Zenon, <1>1, AdmitKeeps, CreateSandboxKeeps, DeleteSandboxKeeps DEF ClientCall
<1>2. ASSUME NEW c \in Clients, RequestStep(c) PROVE Inv'
    BY Zenon, <1>2, AnswerKeeps, UnavailableKeeps, MarkLastActiveKeeps, MarkRunningKeeps,
       ReapSandboxIfRunnerGoneKeeps DEF RequestStep
<1>3. ASSUME NEW c \in Clients, CreateStep(c) PROVE Inv'
    BY Zenon, <1>3, PlaceSandboxKeeps, PlaceFailsKeeps, InsertSandboxKeeps, InsertFailsKeeps DEF CreateStep
<1>4. ASSUME NEW p \in Procs, DeleteStep(p) PROVE Inv'
    BY Zenon, <1>4, CallDeleteKeeps, DeleteReturnsKeeps, AbandonDeleteKeeps, DropRowKeeps DEF DeleteStep
<1>5. CASE SweepStep
    BY Zenon, <1>5, ListKeeps, LockForStopKeeps, LockForIdleDeleteKeeps, LockForEphemeralKeeps,
       StopSandboxKeeps, SaveStoppedKeeps DEF SweepStep
<1>6. CASE UNCHANGED vars
  <2>1. /\ UNCHANGED <<status, idle, ephemeral, host>> /\ UNCHANGED <<vm, prior, link>>
        /\ UNCHANGED <<lock, pc, op, target, age, ops, faults>>
    BY Zenon, <1>6 DEF vars
  <2>2. TypeOK'
    BY Zenon, <2>1 DEF Inv, TypeOK
  <2>3. (Roles /\ Holds /\ Clocks /\ EphemeralNeverStopped)'
    BY Zenon, <2>1 DEF Inv, Roles, Holds, Clocks, EphemeralNeverStopped
  <2>4. (Fenced /\ Placing /\ Listed /\ Stopping /\ Dropping)'
    BY Zenon, <2>1 DEF Inv, Fenced, Placing, Listed, Stopping, Dropping, Window
  <2>5. QED
    BY Zenon, <2>2, <2>3, <2>4 DEF Inv
<1>7. QED
    BY Zenon, <1>1, <1>2, <1>3, <1>4, <1>5, <1>6, RunnerStepKeeps, TickKeeps DEF Next

LEMMA AlwaysInv == Spec => []Inv
BY InitInv, NextInv, PTL DEF Spec

\* For any windows, clients and runners, no row of an ephemeral sandbox is ever
\* "stopped", although sweepIdleStopSandboxes does not read the column again under the lock.
THEOREM EphemeralNeverStoppedHolds == Spec => [](TypeOK /\ EphemeralNeverStopped)
<1>1. Inv => TypeOK /\ EphemeralNeverStopped
    BY Zenon DEF Inv
<1>2. QED
    BY <1>1, AlwaysInv, PTL

\* The sweep decides on a delete only under the lock, for a row that is due.
LEMMA DecidesDelete ==
  ASSUME Inv, [Next]_vars, ~SweepDeletes, SweepDeletes'
  PROVE  LockForIdleDelete \/ LockForEphemeral
<1>0. pc[Sweeper] \notin {"delete", "deleting"} /\ pc'[Sweeper] \in {"delete", "deleting"}
    BY Zenon DEF SweepDeletes
<1>1. ASSUME NEW c \in Clients, ClientCall(c) \/ RequestStep(c) \/ CreateStep(c) \/ DeleteStep(c)
      PROVE  pc'[Sweeper] = pc[Sweeper]
    <2>1. ASSUME ClientCall(c) PROVE \E x : pc' = [pc EXCEPT ![c] = x]
        BY Zenon, <2>1 DEF ClientCall, Admit, CreateSandbox, DeleteSandbox, Begin
    <2>2. ASSUME RequestStep(c) PROVE \E x : pc' = [pc EXCEPT ![c] = x]
        BY Zenon, <2>2 DEF RequestStep, Serve, ExecutionGone, SandboxGone, Unavailable, MarkLastActive,
           MarkRunning, ReapSandboxIfRunnerGone, Return, Begin
    <2>3. ASSUME CreateStep(c) PROVE \E x : pc' = [pc EXCEPT ![c] = x]
        BY Zenon, <2>3 DEF CreateStep, PlaceSandbox, PlaceFails, InsertSandbox, InsertFails, ReturnLocked,
           Return, Begin
    <2>4. ASSUME DeleteStep(c) PROVE \E x : pc' = [pc EXCEPT ![c] = x]
        BY Zenon, <2>4 DEF DeleteStep, CallDelete, DeleteReturns, AbandonDelete, DropRow, ReturnLocked,
           Return, Begin
    <2>5. PICK x : pc' = [pc EXCEPT ![c] = x]
        BY Zenon, <1>1, <2>1, <2>2, <2>3, <2>4
    <2>6. c # Sweeper /\ pc \in [Procs -> Steps]
        BY Zenon, <1>1, LifecycleAssumption DEF Inv, TypeOK
    <2>7. QED
        BY Zenon, <2>5, <2>6
<1>2. DeleteStep(Sweeper) => pc[Sweeper] \in {"delete", "deleting", "drop"}
    BY Zenon DEF DeleteStep, CallDelete, DeleteReturns, AbandonDelete, DropRow
<1>3. ASSUME DeleteStep(Sweeper), pc[Sweeper] = "drop" PROVE pc'[Sweeper] = "idle" \/ pc'[Sweeper] = "ephemeralPhase"
    <2>1. DropRow(Sweeper)
        BY Zenon, <1>3 DEF DeleteStep, CallDelete, DeleteReturns, AbandonDelete
    <2>2. op[Sweeper] \in {"idleDelete", "ephemeralDelete"}
        BY Zenon, <1>3 DEF Inv, Roles
    <2>3. pc' = [pc EXCEPT ![Sweeper] = AfterCall(op[Sweeper])]
        BY Zenon, <2>1, <2>2 DEF DropRow, ReturnLocked, Return, Begin
    <2>4. QED
        BY Zenon, <2>2, <2>3 DEF Inv, TypeOK, AfterCall
<1>4. StartSweep \/ LockForStop \/ StopSandbox \/ SaveStopped => pc'[Sweeper] \notin {"delete", "deleting"}
    BY DEF Inv, TypeOK, Roles, StartSweep, LockForStop, Locked, StopSandbox, SaveStopped, ReturnLocked, Return,
       Begin, AfterCall
<1>5. SweepIdleStop \/ SweepIdleDelete \/ SweepEphemeral => pc'[Sweeper] \notin {"delete", "deleting"}
    BY DEF Inv, TypeOK, SweepIdleStop, SweepIdleDelete, SweepEphemeral, ListPhase
<1>6. \A r \in Runners : RunnerStep(r) => UNCHANGED pc
    BY Zenon DEF RunnerStep, GoneLongEnough, GuestDies, RunnerBack, RunnerDeleteFails, RunnerDeletes, RunnerLost
<1>7. (Tick \/ UNCHANGED vars) => UNCHANGED pc
    BY Zenon DEF Tick, vars
<1>8. CASE \E p \in Procs : DeleteStep(p)
    BY Zenon, <1>0, <1>1, <1>2, <1>3, <1>8
<1>9. QED
    BY Zenon, <1>0, <1>1, <1>4, <1>5, <1>6, <1>7, <1>8 DEF Next, SweepStep

\* A row that is due for deletion was within its window SafetyBuffer ago at the latest.
LEMMA DueRow ==
  ASSUME Inv, LockForIdleDelete \/ LockForEphemeral, SweepDeletes'
  PROVE  Row /\ Window > 0 /\ idle >= Window + SafetyBuffer
<1>1. pc'[Sweeper] \in {"delete", "deleting"}
    BY Zenon DEF SweepDeletes
<1>2. CASE LockForIdleDelete
    BY <1>1, <1>2, LifecycleAssumption DEF Inv, TypeOK, LockForIdleDelete, Locked, AfterCall, DeleteCutoff, IdleSince,
       Listed, EphemeralNeverStopped, Window
<1>3. CASE LockForEphemeral
    BY <1>1, <1>3, LifecycleAssumption DEF Inv, TypeOK, LockForEphemeral, Locked, AfterCall, DeleteCutoff, IdleSince,
       Listed, Window, EphemeralIdleWindow
<1>4. QED
    BY Zenon, <1>2, <1>3

\* For any windows and buffer and however long requests take, every request on its way
\* when the sweep decides on a delete passed the fence at least the buffer earlier
\* (isPastIdleDeleteWindow, sweepIdleDeleteSandboxes, sweepEphemeralSandboxes).
THEOREM IdleDeleteSparesRequestsHolds == Spec => IdleDeleteSparesRequests
<1>1. ASSUME Inv, [Next]_vars
      PROVE  ~SweepDeletes /\ SweepDeletes' =>
               \A c \in Clients : pc[c] \in RequestSteps => age[c] >= SafetyBuffer
    <2>1. SUFFICES ASSUME ~SweepDeletes, SweepDeletes', NEW c \in Clients, pc[c] \in RequestSteps
                   PROVE  age[c] >= SafetyBuffer
        BY Zenon
    <2>2. Row /\ Window > 0 /\ idle >= Window + SafetyBuffer
        BY Zenon, <1>1, <2>1, DecidesDelete, DueRow
    <2>3. CASE age[c] < MaxLatency
        <3>1. idle - age[c] <= Window
            BY Zenon, <1>1, <2>1, <2>2, <2>3 DEF Inv, Fenced
        <3>2. Window \in Nat /\ idle \in Int /\ age[c] \in Int /\ SafetyBuffer \in Nat
            BY <1>1, <2>1, LifecycleAssumption DEF Inv, TypeOK, Window, EphemeralIdleWindow
        <3>3. QED
            BY SMT, <2>2, <3>1, <3>2
    <2>4. CASE ~(age[c] < MaxLatency)
        BY <1>1, <2>4, LifecycleAssumption DEF Inv, TypeOK
    <2>5. QED
        BY Zenon, <2>3, <2>4
<1>2. QED
    BY <1>1, AlwaysInv, PTL DEF Spec, IdleDeleteSparesRequests

LEMMA RowsGoLast ==
  ASSUME Inv, ~Firecracker, [Next]_vars, HostsSandbox, status' = "none"
  PROVE  link[host] = "gone" \/ \E c \in Clients : pc[c] = "gone" /\ pc'[c] = "idle"
<1>1. status # "none"
    BY Zenon DEF HostsSandbox
<1>2. ASSUME NEW c \in Clients, ClientCall(c) PROVE FALSE
    BY Zenon, <1>1, <1>2 DEF ClientCall, Admit, CreateSandbox, DeleteSandbox
<1>3. ASSUME NEW c \in Clients, RequestStep(c), ~ReapSandboxIfRunnerGone(c) PROVE FALSE
    BY <1>1, <1>3 DEF RequestStep, Serve, ExecutionGone, SandboxGone, Unavailable, MarkLastActive,
       MarkRunning, Store, UpdateLastActive, UpdateStatus
<1>4. ASSUME NEW c \in Clients, ReapSandboxIfRunnerGone(c)
      PROVE  pc[c] = "gone" /\ pc'[c] = "idle"
    BY Zenon, <1>4 DEF ReapSandboxIfRunnerGone, Return, Begin, AfterCall, Inv, TypeOK, Roles
<1>5. ASSUME NEW c \in Clients, CreateStep(c) PROVE FALSE
    BY Zenon, <1>1, <1>5 DEF CreateStep, PlaceSandbox, PlaceFails, InsertSandbox, InsertFails, SaveRow, SetRow
<1>6. ASSUME NEW p \in Procs, DeleteStep(p) PROVE FALSE
  <2>1. CASE DropRow(p)
    BY Zenon, <1>1, <2>1 DEF DropRow, HostsSandbox, Inv, Dropping
  <2>2. QED
    BY Zenon, <1>1, <1>6, <2>1 DEF DeleteStep, CallDelete, DeleteReturns, AbandonDelete
<1>7. ASSUME LockForStop \/ LockForIdleDelete \/ LockForEphemeral PROVE link[host] = "gone"
    BY <1>1, <1>7 DEF LockForStop, LockForIdleDelete, LockForEphemeral, Locked, OrphanReapDue
<1>8. ASSUME SweepStep, ~(LockForStop \/ LockForIdleDelete \/ LockForEphemeral) PROVE FALSE
    BY Zenon, <1>1, <1>8 DEF SweepStep, StartSweep, SweepIdleStop, SweepIdleDelete, SweepEphemeral, ListPhase,
       StopSandbox, SaveStopped, Store, UpdateStatus
<1>9. ASSUME NEW r \in Runners, RunnerStep(r) PROVE FALSE
    BY <1>1, <1>9 DEF RunnerStep, RunnerDeletes, RunnerDeleteFails, GuestDies, RunnerLost, GoneLongEnough, RunnerBack
<1>10. ASSUME Tick \/ UNCHANGED vars PROVE FALSE
    BY <1>1, <1>10 DEF Tick, vars
<1>11. QED
    BY Zenon, <1>2, <1>3, <1>4, <1>5, <1>6, <1>7, <1>8, <1>9, <1>10 DEF Next

\* On Docker runners, for any number of them and of clients, no locked handler takes
\* away the row of a sandbox its runner still holds: the runner's delete comes first and
\* both are under LockSandbox (handlers.go, deleteIdleSandbox).  On Firecracker a second delete is told "not found" while
\* the first one may still fail.
THEOREM RowOutlivesSandboxHolds == ASSUME ~Firecracker PROVE Spec => RowOutlivesSandbox
<1>1. Inv /\ [Next]_vars =>
        [HostsSandbox /\ status' = "none" =>
           \/ link[host] = "gone"
           \/ \E c \in Clients : pc[c] = "gone" /\ pc'[c] = "idle"]_vars
    BY Zenon, RowsGoLast
<1>2. QED
    BY <1>1, AlwaysInv, PTL DEF Spec, RowOutlivesSandbox
=============================================================================
