-------------------------- MODULE PlacementProofs --------------------------
(***************************************************************************)
(* A create leaves at most one sandbox, and the memory registry lists no     *)
(* runner without a stream, for any number of runners, streams and creates.  *)
(***************************************************************************)
EXTENDS Placement, FiniteSetTheorems, TLAPS

------------------------------------------------------------------------------
\* The create: what placeSandbox knows of the calls it made.

Answers == {"none", "sent", "create", "building", "refused", "unavailable", "ok", "error"}

PlacementTypes ==
    /\ pc \in [Creates -> {"idle", "pick", "commit", "call", "done"}]
    /\ target \in [Creates -> Fleet \cup {None}]
    /\ call \in [Creates \X Fleet -> Answers]
    /\ made \in [Creates -> SUBSET Fleet]
    /\ result \in [Creates -> {None, "placed", "no capacity", "failed"}]

\* Runner r has begun to create something for c, or still may.
Touched(c, r) == r \in made[c] \/ Unanswered(c, r)

\* Nothing is left of the calls of c.
Untouched(c) == \A r \in Fleet : ~Touched(c, r)

\* A create that waits for an answer touched no other runner, and a runner that has
\* refused was not touched.
Accounted(c) ==
    /\ pc[c] \in {"idle", "pick", "commit"} => Untouched(c)
    /\ IF pc[c] \in {"commit", "call"} THEN target[c] \in Fleet ELSE target[c] = None
    /\ pc[c] = "call" => \A r \in Fleet : Touched(c, r) => r = target[c]
    /\ \A r \in Fleet : call[<<c, r>>] = "refused" => pc[c] = "call" /\ r = target[c] /\ Untouched(c)
    /\ \A r \in Fleet : call[<<c, r>>] \in {"sent", "create"} => r \notin made[c]
    /\ \A q, r \in Fleet : Touched(c, q) /\ Touched(c, r) => q = r
    /\ result[c] = "no capacity" => pc[c] = "done" /\ Untouched(c)

PlaceInv == PlacementTypes /\ \A c \in Creates : Accounted(c)

\* What is known of create c does not change.
Same(c) ==
    /\ pc'[c] = pc[c] /\ target'[c] = target[c] /\ made'[c] = made[c] /\ result'[c] = result[c]
    /\ \A r \in Fleet : call'[<<c, r>>] = call[<<c, r>>]

LEMMA SameKeeps == ASSUME PlaceInv, NEW c \in Creates, Same(c) PROVE Accounted(c)'
<1>1. \A r \in Fleet : Touched(c, r)' <=> Touched(c, r)
    BY DEF Same, Touched, Unanswered
<1>2. Untouched(c)' <=> Untouched(c)
    BY <1>1 DEF Untouched
<1>3. QED
    BY Zenon, <1>1, <1>2 DEF PlaceInv, Same, Accounted

\* The runner moves on with the create of c, and everything else stays as it is.
MovesOn(c, r) ==
    /\ Unanswered(c, r)
    /\ pc'[c] = pc[c] /\ target'[c] = target[c] /\ result'[c] = result[c]
    /\ \A q \in Fleet \ {r} : call'[<<c, q>>] = call[<<c, q>>]
    /\ made'[c] \in {made[c], made[c] \cup {r}}
    /\ call'[<<c, r>>] \in {"sent", "create", "refused"} =>
          call[<<c, r>>] \in {"sent", "create"} /\ made'[c] = made[c]
    /\ call'[<<c, r>>] = "refused" => target[c] = r

LEMMA MovesOnKeeps == ASSUME PlaceInv, NEW c \in Creates, NEW r \in Fleet, MovesOn(c, r) PROVE Accounted(c)'
<1> USE DEF Touched, Untouched, Unanswered
<1>1. \A q \in Fleet : Touched(c, q) => q = r
    BY Zenon DEF PlaceInv, Accounted, MovesOn
<1>2. pc[c] \in {"call", "done"} /\ result[c] # "no capacity"
    BY DEF PlaceInv, PlacementTypes, Accounted, MovesOn
<1>3. \A q \in Fleet : Touched(c, q)' => q = r
    BY <1>1 DEF MovesOn
<1>4. pc[c] = "call" => target[c] = r
    BY Zenon DEF PlaceInv, Accounted, MovesOn
<1>5. \A q \in Fleet : call'[<<c, q>>] = "refused" => pc'[c] = "call" /\ q = target'[c] /\ Untouched(c)'
  <2> SUFFICES ASSUME NEW q \in Fleet, call'[<<c, q>>] = "refused"
               PROVE  pc'[c] = "call" /\ q = target'[c] /\ Untouched(c)'
    OBVIOUS
  <2>1. q = r
    BY <1>1 DEF PlaceInv, Accounted, MovesOn
  <2>2. target[c] = r /\ r \notin made'[c]
    BY <2>1 DEF PlaceInv, Accounted, MovesOn
  <2>3. pc[c] = "call"
    BY <1>2, <2>2, PlacementAssumption, RegistryAssumption DEF PlaceInv, Accounted, Fleet
  <2>4. QED
    BY <1>3, <2>1, <2>2, <2>3 DEF MovesOn
<1>6. \A q \in Fleet : call'[<<c, q>>] \in {"sent", "create"} => q \notin made'[c]
    BY <1>3 DEF PlaceInv, Accounted, MovesOn
<1>7. IF pc'[c] \in {"commit", "call"} THEN target'[c] \in Fleet ELSE target'[c] = None
    BY Zenon DEF PlaceInv, Accounted, MovesOn
<1>8. QED
    BY <1>2, <1>3, <1>4, <1>5, <1>6, <1>7 DEF Accounted, MovesOn

LEMMA BeginCreateKeeps == ASSUME PlaceInv, NEW c \in Creates, BeginCreate(c) PROVE PlaceInv'
<1>1. PlacementTypes'
    BY DEF PlaceInv, PlacementTypes, BeginCreate, Set, Creates
<1>2. \A d \in Creates \ {c} : Same(d)
    BY DEF PlaceInv, PlacementTypes, BeginCreate, Same, Set, Creates
<1>3. Accounted(c)'
    BY DEF PlaceInv, PlacementTypes, Accounted, Touched, Untouched, Unanswered, BeginCreate, Set, Creates
<1>4. QED
    BY Zenon, <1>1, <1>2, <1>3, SameKeeps DEF PlaceInv

LEMMA PickKeeps == ASSUME PlaceInv, NEW c \in Creates, Pick(c) PROVE PlaceInv'
<1>1. PICK r \in Fleet :
        /\ target' = Set(target, c, r)
        /\ \/ pc' = Set(pc, c, "commit") /\ UNCHANGED call
           \/ pc' = Set(pc, c, "call") /\ call' = Set(call, <<c, r>>, "sent")
  <2>1. PICK locked \in MayBeLocked : \E r \in Candidates(c, locked) \cup (Others \ refusedBy[c]) :
           /\ target' = Set(target, c, r)
           /\ IF backend = "postgres"
              THEN pc' = Set(pc, c, "commit") /\ UNCHANGED call
              ELSE pc' = Set(pc, c, "call") /\ call' = Set(call, <<c, r>>, "sent")
    BY Zenon DEF Pick
  <2>2. \A r \in Candidates(c, locked) \cup (Others \ refusedBy[c]) : r \in Fleet
    BY Zenon DEF Candidates, Fleet
  <2>3. QED
    BY Zenon, <2>1, <2>2
<1>2. pc[c] = "pick" /\ UNCHANGED <<result, made>>
    BY DEF Pick
<1>3. PlacementTypes'
    BY <1>1, <1>2 DEF PlaceInv, PlacementTypes, Set, Answers
<1>4. \A d \in Creates \ {c} : Same(d)
    BY <1>1, <1>2 DEF PlaceInv, PlacementTypes, Same, Set
<1>5. Untouched(c) /\ result[c] # "no capacity"
    BY <1>2 DEF PlaceInv, Accounted
<1>6. target'[c] = r /\ pc'[c] \in {"commit", "call"} /\ result'[c] = result[c] /\ made'[c] = made[c]
    BY <1>1, <1>2 DEF PlaceInv, PlacementTypes, Set
<1>7. CASE pc'[c] = "commit"
  <2>1. UNCHANGED call
    BY <1>1, <1>7 DEF PlaceInv, PlacementTypes, Set
  <2>2. Accounted(c)'
    BY <1>2, <1>5, <1>6, <1>7, <2>1 DEF PlaceInv, Accounted, Touched, Untouched, Unanswered
  <2>3. QED
    BY Zenon, <1>3, <1>4, <2>2, SameKeeps DEF PlaceInv
<1>8. CASE pc'[c] = "call"
  <2>1. call'[<<c, r>>] = "sent" /\ \A q \in Fleet \ {r} : call'[<<c, q>>] = call[<<c, q>>]
    BY <1>1, <1>8 DEF PlaceInv, PlacementTypes, Set
  <2>2. Accounted(c)'
    <3>1. \A q \in Fleet : q \notin made'[c] /\ (Touched(c, q)' => q = r)
      BY <1>5, <1>6, <2>1 DEF Touched, Untouched, Unanswered
    <3>2. \A q \in Fleet : call'[<<c, q>>] # "refused"
      BY <1>2, <2>1 DEF PlaceInv, Accounted
    <3>3. QED
      BY <1>5, <1>6, <1>8, <3>1, <3>2 DEF Accounted
  <2>3. QED
    BY Zenon, <1>3, <1>4, <2>2, SameKeeps DEF PlaceInv
<1>9. QED
    BY <1>6, <1>7, <1>8

LEMMA CommitPickKeeps == ASSUME PlaceInv, NEW c \in Creates, CommitPick(c) PROVE PlaceInv'
<1>1. PlacementTypes'
    BY DEF PlaceInv, PlacementTypes, CommitPick, Finish, Set, Answers
<1>2. \A d \in Creates \ {c} : Same(d)
    BY DEF PlaceInv, PlacementTypes, CommitPick, Finish, Same, Set
<1>3. Untouched(c) /\ target[c] \in Fleet /\ result[c] # "no capacity"
    BY DEF PlaceInv, Accounted, CommitPick
<1>4. made'[c] = made[c]
    BY DEF CommitPick
<1>5. CASE pc'[c] = "call"
  <2>1. /\ target'[c] = target[c] /\ result'[c] = result[c] /\ call'[<<c, target[c]>>] = "sent"
        /\ \A q \in Fleet \ {target[c]} : call'[<<c, q>>] = call[<<c, q>>]
    BY <1>3, <1>5 DEF PlaceInv, PlacementTypes, CommitPick, Finish, Set
  <2>2. \A q \in Fleet : q \notin made'[c] /\ (Touched(c, q)' => q = target[c])
    BY <1>3, <1>4, <2>1 DEF Touched, Untouched, Unanswered
  <2>3. \A q \in Fleet : call'[<<c, q>>] # "refused"
    BY <2>1 DEF PlaceInv, Accounted, CommitPick
  <2>4. Accounted(c)'
    BY <1>3, <1>5, <2>1, <2>2, <2>3 DEF Accounted
  <2>5. QED
    BY Zenon, <1>1, <1>2, <2>4, SameKeeps DEF PlaceInv
<1>6. CASE pc'[c] = "done"
  <2>1. target'[c] = None /\ result'[c] = "failed" /\ UNCHANGED call
    BY <1>6 DEF PlaceInv, PlacementTypes, CommitPick, Finish, Set
  <2>2. QED
    BY <1>1, <1>2, <1>3, <1>4, <1>6, <2>1, SameKeeps
       DEF PlaceInv, Accounted, Touched, Untouched, Unanswered, CommitPick
<1>7. QED
    BY <1>5, <1>6 DEF PlaceInv, PlacementTypes, CommitPick, Finish, Set

LEMMA NoRunnersKeeps == ASSUME PlaceInv, NEW c \in Creates, NoRunners(c) PROVE PlaceInv'
<1>1. PlacementTypes'
    BY DEF PlaceInv, PlacementTypes, NoRunners, Finish, Set
<1>2. \A d \in Creates \ {c} : Same(d)
    BY DEF PlaceInv, PlacementTypes, NoRunners, Finish, Same, Set
<1>3. Accounted(c)'
    BY DEF PlaceInv, PlacementTypes, Accounted, Touched, Untouched, Unanswered, NoRunners, Finish, Set
<1>4. QED
    BY Zenon, <1>1, <1>2, <1>3, SameKeeps DEF PlaceInv

LEMMA AnsweredKeeps == ASSUME PlaceInv, NEW c \in Creates, Answered(c) PROVE PlaceInv'
<1>1. PlacementTypes'
    BY DEF PlaceInv, PlacementTypes, Answered, Finish, IsCapacityRefusal, Set, Answers
<1>2. \A d \in Creates \ {c} : Same(d)
    BY DEF PlaceInv, PlacementTypes, Answered, Finish, IsCapacityRefusal, Same, Set
<1>3. /\ pc[c] = "call" /\ target[c] \in Fleet /\ result[c] # "no capacity" /\ made'[c] = made[c]
      /\ ~Unanswered(c, target[c])
    BY DEF PlaceInv, Accounted, Answered
<1>4. /\ call'[<<c, target[c]>>] = "none"
      /\ \A q \in Fleet \ {target[c]} : call'[<<c, q>>] = call[<<c, q>>]
    BY <1>3 DEF PlaceInv, PlacementTypes, Answered, Set
<1>5. \A q \in Fleet : (Touched(c, q)' <=> Touched(c, q)) /\ call'[<<c, q>>] # "refused"
  <2>1. \A q \in Fleet \ {target[c]} : call[<<c, q>>] # "refused"
    BY Zenon, <1>3 DEF PlaceInv, Accounted
  <2>2. \A q \in Fleet : Touched(c, q)' <=> Touched(c, q)
    BY <1>3, <1>4 DEF Touched, Unanswered
  <2>3. QED
    BY <1>4, <2>1, <2>2
<1>6. CASE pc'[c] = "pick"
  <2>1. target'[c] = None /\ result'[c] = result[c] /\ call[<<c, target[c]>>] = "refused"
    BY <1>6 DEF PlaceInv, PlacementTypes, Answered, Finish, IsCapacityRefusal, Set
  <2>2. Untouched(c)
    BY Zenon, <1>3, <2>1 DEF PlaceInv, Accounted
  <2>3. Accounted(c)'
    BY <1>3, <1>4, <1>5, <1>6, <2>1, <2>2 DEF PlaceInv, Accounted, Untouched
  <2>4. QED
    BY Zenon, <1>1, <1>2, <2>3, SameKeeps DEF PlaceInv
<1>7. CASE pc'[c] = "done"
  <2>1. target'[c] = None /\ (result'[c] = "no capacity" => call[<<c, target[c]>>] = "refused")
    BY <1>7 DEF PlaceInv, PlacementTypes, Answered, Finish, IsCapacityRefusal, Set
  <2>2. result'[c] = "no capacity" => Untouched(c)
    BY Zenon, <1>3, <2>1 DEF PlaceInv, Accounted
  <2>3. Accounted(c)'
    BY <1>3, <1>4, <1>5, <1>7, <2>1, <2>2 DEF PlaceInv, Accounted, Untouched
  <2>4. QED
    BY Zenon, <1>1, <1>2, <2>3, SameKeeps DEF PlaceInv
<1>8. QED
    BY <1>6, <1>7 DEF PlaceInv, PlacementTypes, Answered, Finish, IsCapacityRefusal, Set

LEMMA CallLostKeeps == ASSUME PlaceInv, NEW c \in Creates, CallLost(c) PROVE PlaceInv'
<1>1. PlacementTypes'
    BY DEF PlaceInv, PlacementTypes, CallLost, Finish, Set
<1>2. \A d \in Creates \ {c} : Same(d)
    BY DEF PlaceInv, PlacementTypes, CallLost, Finish, Same, Set
<1>3. Accounted(c)'
    BY DEF PlaceInv, PlacementTypes, Accounted, Touched, Untouched, Unanswered, CallLost, Finish, Set
<1>4. QED
    BY Zenon, <1>1, <1>2, <1>3, SameKeeps DEF PlaceInv

LEMMA RunnerKeeps ==
  ASSUME PlaceInv, NEW c \in Creates, NEW r \in Runners,
         ControlCreate(c, r) \/ RefuseCreate(c, r) \/ ReserveSandbox(c, r) \/ FinishSandbox(c, r)
  PROVE  PlaceInv'
<1> r \in Fleet
    BY DEF Fleet
<1>1. PlacementTypes'
  <2>1. /\ UNCHANGED <<pc, target, result>>
        /\ \E a \in Answers : call' = Set(call, <<c, r>>, a)
    BY DEF ControlCreate, RefuseCreate, ReserveSandbox, FinishSandbox, Reply, Answers
  <2>2. made' = made \/ made' = Set(made, c, made[c] \cup {r})
    BY DEF ControlCreate, RefuseCreate, ReserveSandbox, FinishSandbox
  <2>3. call' \in [Creates \X Fleet -> Answers]
    BY <2>1 DEF PlaceInv, PlacementTypes, Set
  <2>4. made \in [Creates -> SUBSET Fleet] /\ made[c] \cup {r} \in SUBSET Fleet
    BY DEF PlaceInv, PlacementTypes
  <2>5. made' \in [Creates -> SUBSET Fleet]
    BY <2>2, <2>4 DEF Set
  <2>6. QED
    BY <2>1, <2>3, <2>5 DEF PlaceInv, PlacementTypes
<1>2. \A d \in Creates \ {c} : Same(d)
  <2>1. /\ UNCHANGED <<pc, target, result>>
        /\ \E a \in Answers : call' = Set(call, <<c, r>>, a)
    BY DEF ControlCreate, RefuseCreate, ReserveSandbox, FinishSandbox, Reply, Answers
  <2>2. made' = made \/ made' = Set(made, c, made[c] \cup {r})
    BY DEF ControlCreate, RefuseCreate, ReserveSandbox, FinishSandbox
  <2>3. QED
    BY <2>1, <2>2 DEF PlaceInv, PlacementTypes, Same, Set
<1>3. MovesOn(c, r)
    BY DEF PlaceInv, PlacementTypes, ControlCreate, RefuseCreate, ReserveSandbox, FinishSandbox, Reply, MovesOn,
       Unanswered, Set
<1>4. QED
    BY Zenon, <1>1, <1>2, <1>3, SameKeeps, MovesOnKeeps DEF PlaceInv

LEMMA OtherCreateKeeps == ASSUME PlaceInv, NEW c \in Creates, NEW o \in Others, OtherCreate(c, o) PROVE PlaceInv'
<1> o \in Fleet
    BY DEF Fleet
<1>1. PICK answer \in {"refused", "unavailable", "ok", "error"}, began \in SUBSET {o} :
        /\ answer = "refused" => began = {}
        /\ Reply(c, o, answer) /\ made' = Set(made, c, made[c] \cup began)
    BY Zenon DEF OtherCreate
<1>2. call[<<c, o>>] = "sent" /\ UNCHANGED <<pc, target, result>>
    BY Zenon DEF OtherCreate
<1>3. began = {} \/ began = {o}
    BY Zenon
<1>4. PlacementTypes'
    BY <1>1, <1>2, <1>3 DEF PlaceInv, PlacementTypes, Reply, Set, Answers
<1>5. \A d \in Creates \ {c} : Same(d)
    BY <1>1, <1>2 DEF PlaceInv, PlacementTypes, Reply, Same, Set
<1>6. MovesOn(c, o)
  <2>1. made'[c] = made[c] \cup began
    BY <1>1 DEF PlaceInv, PlacementTypes, Set
  <2>2. made'[c] \in {made[c], made[c] \cup {o}} /\ (answer = "refused" => made'[c] = made[c])
    BY <1>1, <1>3, <2>1
  <2>3. /\ call'[<<c, o>>] = IF target[c] = o THEN answer ELSE "none"
        /\ \A q \in Fleet \ {o} : call'[<<c, q>>] = call[<<c, q>>]
    BY <1>1 DEF PlaceInv, PlacementTypes, Reply, Set
  <2>4. QED
    BY <1>2, <2>2, <2>3 DEF MovesOn, Unanswered
<1>7. QED
    BY Zenon, <1>4, <1>5, <1>6, SameKeeps, MovesOnKeeps DEF PlaceInv

LEMMA ProcessGoneKeeps == ASSUME PlaceInv, NEW r \in Runners, ShutDown(r) \/ Crash(r) PROVE PlaceInv'
<1>1. CallsCut(r) /\ UNCHANGED <<pc, target, result, made>>
    BY DEF ShutDown, Crash
<1>2. PlacementTypes'
    BY <1>1 DEF PlaceInv, PlacementTypes, CallsCut, Unanswered, Answers
<1>3. \A c \in Creates, q \in Fleet :
        call'[<<c, q>>] = IF q = r /\ Unanswered(c, r) THEN "unavailable" ELSE call[<<c, q>>]
    BY <1>1 DEF CallsCut
<1>4. ASSUME NEW c \in Creates PROVE Accounted(c)'
  <2>1. CASE Unanswered(c, r)
    <3>1. r \in Fleet /\ MovesOn(c, r)
      BY <1>1, <1>3, <2>1 DEF MovesOn, Fleet
    <3>2. QED
      BY Zenon, <3>1, MovesOnKeeps
  <2>2. CASE ~Unanswered(c, r)
    <3>1. Same(c)
      BY <1>1, <1>3, <2>2 DEF Same
    <3>2. QED
      BY Zenon, <3>1, SameKeeps
  <2>3. QED
    BY <2>1, <2>2
<1>5. QED
    BY Zenon, <1>2, <1>4 DEF PlaceInv

LEMMA PlaceStutterKeeps ==
  ASSUME PlaceInv, UNCHANGED <<pc, target, result, call, made>> PROVE PlaceInv'
<1>1. PlacementTypes'
    BY DEF PlaceInv, PlacementTypes
<1>2. \A c \in Creates : Same(c)
    BY Zenon DEF Same
<1>3. QED
    BY Zenon, <1>1, <1>2, SameKeeps DEF PlaceInv

LEMMA PlaceInvInductive == PlaceInv /\ [Next]_vars => PlaceInv'
<1> SUFFICES ASSUME PlaceInv, [Next]_vars PROVE PlaceInv'
    OBVIOUS
<1>1. CASE RegistrationNext /\ Registration
    BY <1>1, PlaceStutterKeeps DEF Registration, placementVars
<1>2. ASSUME NEW c \in Creates,
             BeginCreate(c) \/ Pick(c) \/ CommitPick(c) \/ NoRunners(c) \/ Answered(c) \/ CallLost(c)
      PROVE  PlaceInv'
    BY Zenon, <1>2, BeginCreateKeeps, PickKeeps, CommitPickKeeps, NoRunnersKeeps, AnsweredKeeps, CallLostKeeps
<1>3. ASSUME NEW c \in Creates, NEW r \in Runners,
             \/ ControlCreate(c, r) \/ RefuseCreate(c, r) \/ ReserveSandbox(c, r)
             \/ FinishSandbox(c, r) \/ DeleteSandbox(c, r)
      PROVE  PlaceInv'
    BY <1>3, RunnerKeeps, PlaceStutterKeeps DEF DeleteSandbox
<1>4. ASSUME NEW c \in Creates, NEW o \in Others, OtherCreate(c, o) PROVE PlaceInv'
    BY Zenon, <1>4, OtherCreateKeeps
<1>5. ASSUME NEW r \in Runners, ShutDown(r) \/ Crash(r) PROVE PlaceInv'
    BY Zenon, <1>5, ProcessGoneKeeps
<1>6. CASE UNCHANGED vars
    BY <1>6, PlaceStutterKeeps DEF vars, placementVars
<1>7. QED
    BY Zenon, <1>1, <1>2, <1>3, <1>4, <1>5, <1>6 DEF Next

LEMMA CreatedOnceFollows == PlaceInv => CreatedOnce
<1> SUFFICES ASSUME PlaceInv, NEW c \in Creates
             PROVE  Cardinality(made[c]) <= 1 /\ (result[c] = "no capacity" => made[c] = {})
    BY Zenon DEF CreatedOnce
<1>1. made[c] \subseteq Fleet /\ \A q, r \in made[c] : q = r
    BY DEF PlaceInv, PlacementTypes, Accounted, Touched
<1>2. result[c] = "no capacity" => made[c] = {}
    BY <1>1 DEF PlaceInv, Accounted, Touched, Untouched
<1>3. CASE made[c] = {}
    BY <1>2, <1>3, FS_EmptySet
<1>4. CASE made[c] # {}
  <2>1. PICK r : r \in made[c]
    BY <1>4
  <2>2. made[c] = {r}
    BY <1>1, <2>1
  <2>3. Cardinality({r}) = 1
    BY FS_Singleton
  <2>4. Cardinality({r}) <= 1
    BY <2>3
  <2>5. QED
    BY Zenon, <1>2, <2>2, <2>4
<1>5. QED
    BY <1>3, <1>4

\* placeSandbox never leaves two sandboxes for one create, and none when it answers
\* that there is no capacity, for any fleet, any number of attempts, both runtimes and
\* both registries: a refusal is the only answer that moves it to another runner.
THEOREM CreatedOnceHolds == Spec => []CreatedOnce
<1>1. Init => PlaceInv
  <2> SUFFICES ASSUME Init PROVE PlaceInv
    OBVIOUS
  <2>1. PlacementTypes
    BY DEF Init, PlacementTypes, Answers
  <2>2. ASSUME NEW c \in Creates PROVE Accounted(c)
    <3>1. pc[c] = "idle" /\ target[c] = None /\ made[c] = {} /\ result[c] = None
      BY <2>2 DEF Init
    <3>2. \A r \in Fleet : call[<<c, r>>] = "none"
      BY <2>2 DEF Init
    <3>3. Untouched(c)
      BY <3>1, <3>2 DEF Untouched, Touched, Unanswered
    <3>4. QED
      BY <3>1, <3>2, <3>3, PlacementAssumption DEF Accounted, Untouched
  <2>3. QED
    BY Zenon, <2>1, <2>2 DEF PlaceInv
<1>2. QED
    BY <1>1, PlaceInvInductive, CreatedOnceFollows, PTL DEF Spec

------------------------------------------------------------------------------
\* The registry: an entry of the memory registry is backed by an open stream.

StreamTypes ==
    /\ handler \in [Streams -> {"free", "open", "gone"}]
    /\ owner \in [Streams -> Runners \cup {None}]
    /\ committed \in [Streams -> BOOLEAN]
    /\ reg = [r \in Runners |-> reg[r]]

OpenOwned == \A s \in Streams : handler[s] = "open" => owner[s] \in Runners

StreamInv == StreamTypes /\ OpenOwned /\ NoGhostRunner

\* Removal takes the entry only of the runner whose stream ends, and a stream that is
\* reset was not the one behind another runner's entry.
LEMMA HandlerReturnsKeeps ==
  ASSUME StreamInv, NEW s \in Streams, HandlerReturns(s), UNCHANGED backend PROVE StreamInv'
<1>1. StreamTypes'
    BY DEF StreamInv, StreamTypes, HandlerReturns, RemoveOnReturn, Remove, ResetStream, registryVars, Set
<1>2. handler[s] = "open" /\ owner[s] \in Runners
    BY DEF StreamInv, OpenOwned, HandlerReturns, Abandoned
<1>3. \A z \in Streams \ {s} : handler'[z] = handler[z] /\ owner'[z] = owner[z] /\ committed'[z] = committed[z]
    BY DEF StreamInv, StreamTypes, HandlerReturns, ResetStream, Set
<1>4. OpenOwned'
    BY <1>3 DEF StreamInv, StreamTypes, OpenOwned, HandlerReturns, ResetStream, Set
<1>5. ASSUME backend = "memory", NEW r \in Runners, reg'[r] # None
      PROVE  reg[r] # None /\ ~(committed[s] /\ owner[s] = r)
    BY <1>2, <1>5 DEF StreamInv, StreamTypes, HandlerReturns, RemoveOnReturn, Remove, registryVars, Set
<1>6. ASSUME backend = "memory", NEW r \in Runners, reg'[r] # None
      PROVE  \E z \in Streams : handler'[z] = "open" /\ owner'[z] = r /\ committed'[z]
  <2>1. PICK z \in Streams : handler[z] = "open" /\ owner[z] = r /\ committed[z]
    BY <1>5, <1>6 DEF StreamInv, NoGhostRunner, OpenHandlers
  <2>2. z # s
    BY <1>5, <1>6, <2>1
  <2>3. QED
    BY <1>3, <2>1, <2>2
<1>7. NoGhostRunner'
    BY <1>6 DEF NoGhostRunner, OpenHandlers
<1>8. QED
    BY <1>1, <1>4, <1>7 DEF StreamInv

LEMMA ReceiveKeeps == ASSUME StreamInv, NEW s \in Streams, Receive(s), UNCHANGED backend PROVE StreamInv'
<1>1. StreamTypes'
    BY DEF StreamInv, StreamTypes, Receive, Upsert, registryVars, Set
<1>2. OpenOwned'
    BY DEF StreamInv, OpenOwned, Receive
<1>3. handler' = handler /\ owner' = owner /\ committed' = [committed EXCEPT ![s] = TRUE] /\ handler[s] = "open"
    BY DEF Receive, Set
<1>4. ASSUME NEW r \in Runners, reg'[r] # None PROVE reg[r] # None \/ r = owner[s]
    BY <1>4 DEF StreamInv, StreamTypes, Receive, Upsert, registryVars, Set
<1>5. ASSUME backend = "memory", NEW r \in Runners, reg'[r] # None
      PROVE  \E z \in Streams : handler'[z] = "open" /\ owner'[z] = r /\ committed'[z]
  <2>1. CASE r = owner[s]
    BY <1>3, <2>1 DEF StreamInv, StreamTypes
  <2>2. CASE reg[r] # None
    BY <1>3, <1>5, <2>2 DEF StreamInv, StreamTypes, NoGhostRunner, OpenHandlers
  <2>3. QED
    BY <1>4, <1>5, <2>1, <2>2
<1>6. NoGhostRunner'
    BY <1>5 DEF NoGhostRunner, OpenHandlers
<1>7. QED
    BY <1>1, <1>2, <1>6 DEF StreamInv

LEMMA ConnectKeeps == ASSUME StreamInv, NEW r \in Runners, Connect(r), UNCHANGED backend PROVE StreamInv'
<1>1. PICK s \in Streams : handler[s] = "free" /\ handler' = Set(handler, s, "open") /\ owner' = Set(owner, s, r)
    BY DEF Connect
<1>2. UNCHANGED <<committed, reg>>
    BY DEF Connect, registryVars
<1>3. StreamTypes' /\ OpenOwned'
    BY <1>1, <1>2 DEF StreamInv, StreamTypes, OpenOwned, Set
<1>4. \A z \in Streams : handler[z] = "open" => handler'[z] = "open" /\ owner'[z] = owner[z]
    BY <1>1 DEF StreamInv, StreamTypes, Set
<1>5. NoGhostRunner'
    BY <1>2, <1>4 DEF StreamInv, NoGhostRunner, OpenHandlers
<1>6. QED
    BY <1>3, <1>5 DEF StreamInv

LEMMA NoticesRestartKeeps ==
  ASSUME StreamInv, NEW r \in Runners, NoticesRestart(r), UNCHANGED backend PROVE StreamInv'
<1>1. StreamTypes'
    BY Zenon DEF StreamInv, StreamTypes, NoticesRestart, ResetStream, registryVars, Set
<1>2. \A z \in Streams : handler[z] = "open" => handler'[z] = "open" /\ owner'[z] = owner[z] /\ committed'[z] = committed[z]
    BY DEF StreamInv, StreamTypes, NoticesRestart, ResetStream, Set
<1>3. \A z \in Streams : handler'[z] = "open" => handler[z] = "open"
    BY DEF StreamInv, StreamTypes, NoticesRestart, ResetStream, Set
<1>4. OpenOwned'
    BY <1>2, <1>3 DEF StreamInv, OpenOwned
<1>5. NoGhostRunner'
    BY <1>2 DEF StreamInv, NoGhostRunner, OpenHandlers, NoticesRestart, registryVars
<1>6. QED
    BY <1>1, <1>4, <1>5 DEF StreamInv

LEMMA ApiRestartKeeps == ASSUME StreamInv, ApiRestart, UNCHANGED backend PROVE StreamInv'
<1>1. StreamTypes'
    BY DEF StreamInv, StreamTypes, ApiRestart, Abandoned, registryVars
<1>2. OpenOwned'
    BY DEF StreamInv, OpenOwned, ApiRestart, Abandoned
<1>3. NoGhostRunner'
    BY DEF NoGhostRunner, ApiRestart
<1>4. QED
    BY <1>1, <1>2, <1>3 DEF StreamInv

LEMMA StreamStutterKeeps ==
  ASSUME StreamInv, UNCHANGED <<backend, handler, owner, committed, reg>> PROVE StreamInv'
BY DEF StreamInv, StreamTypes, OpenOwned, NoGhostRunner, OpenHandlers

LEMMA StreamInvInductive == StreamInv /\ [Next]_vars => StreamInv'
<1> SUFFICES ASSUME StreamInv, [Next]_vars PROVE StreamInv'
    OBVIOUS
<1> USE DEF streamVars, registryVars
<1>1. CASE RegistrationNext /\ Registration
  <2>1. UNCHANGED backend
    BY <1>1 DEF Registration
  <2>2. ASSUME NEW r \in Runners,
               \/ Start(r) \/ Listen(r) \/ Prepare(r) \/ Terminate(r)
               \/ \E v \in BOOLEAN : HandleSetRunnerCordon(r, v)
               \/ Compose(r) \/ Send(r) \/ Ticked(r) \/ CordonChanged(r) \/ BecameReady(r) \/ StreamBreaks(r)
        PROVE  StreamInv'
    <3>1. UNCHANGED <<handler, owner, committed, reg>>
      BY Zenon, <2>2
         DEF Start, Listen, Prepare, Terminate, HandleSetRunnerCordon, Compose, Send, Ticked, CordonChanged,
             BecameReady, StreamBreaks
    <3>2. QED
      BY Zenon, <2>1, <3>1, StreamStutterKeeps
  <2>3. ASSUME NEW r \in Runners, Connect(r) \/ NoticesRestart(r) PROVE StreamInv'
    BY Zenon, <2>1, <2>3, ConnectKeeps, NoticesRestartKeeps
  <2>4. ASSUME NEW s \in Streams, Receive(s) \/ HandlerReturns(s) PROVE StreamInv'
    BY Zenon, <2>1, <2>4, ReceiveKeeps, HandlerReturnsKeeps
  <2>5. CASE ApiRestart
    BY Zenon, <2>1, <2>5, ApiRestartKeeps
  <2>6. CASE Elapse
    BY <2>1, <2>6, StreamStutterKeeps DEF Elapse
  <2>7. QED
    BY Zenon, <1>1, <2>2, <2>3, <2>4, <2>5, <2>6 DEF RegistrationNext
<1>2. ASSUME NEW c \in Creates,
             BeginCreate(c) \/ Pick(c) \/ CommitPick(c) \/ NoRunners(c) \/ Answered(c) \/ CallLost(c)
      PROVE  StreamInv'
  <2>1. Placing
    BY Zenon, <1>2 DEF BeginCreate, Pick, CommitPick, NoRunners, Answered, CallLost
  <2>2. QED
    BY <2>1, StreamStutterKeeps DEF Placing
<1>3. ASSUME NEW c \in Creates, NEW r \in Runners,
             \/ ControlCreate(c, r) \/ RefuseCreate(c, r) \/ ReserveSandbox(c, r)
             \/ FinishSandbox(c, r) \/ DeleteSandbox(c, r)
      PROVE  StreamInv'
  <2>1. Placing
    BY Zenon, <1>3 DEF ControlCreate, RefuseCreate, ReserveSandbox, FinishSandbox, DeleteSandbox
  <2>2. QED
    BY <2>1, StreamStutterKeeps DEF Placing
<1>4. ASSUME NEW c \in Creates, NEW o \in Others, OtherCreate(c, o) PROVE StreamInv'
    BY <1>4, StreamStutterKeeps DEF OtherCreate, Placing
<1>5. ASSUME NEW r \in Runners, ShutDown(r) \/ Crash(r) PROVE StreamInv'
    BY <1>5, StreamStutterKeeps DEF ShutDown, Crash
<1>6. CASE UNCHANGED vars
    BY <1>6, StreamStutterKeeps DEF vars, registrationVars
<1>7. QED
    BY Zenon, <1>1, <1>2, <1>3, <1>4, <1>5, <1>6 DEF Next

\* Whatever streams a runner has open at once and in whatever order they end, the
\* memory registry lists it only while a handler that will remove it is running
\* (the deferred Remove of Connect in runner_server.go).
THEOREM NoGhostRunnerHolds == Spec => []NoGhostRunner
<1>1. Init => StreamInv
  <2> SUFFICES ASSUME RegistryInit PROVE StreamInv
    BY DEF Init
  <2>1. stream \in [Runners -> Streams]
    BY DEF RegistryInit, Injection, IsInjective
  <2>2. StreamTypes
    BY <2>1 DEF RegistryInit, StreamTypes
  <2>3. OpenOwned
    BY <2>1 DEF RegistryInit, OpenOwned
  <2>4. ASSUME NEW r \in Runners PROVE \E s \in OpenHandlers(r) : committed[s]
    <3>1. stream[r] \in Streams /\ owner[stream[r]] = r
      BY <2>1 DEF RegistryInit
    <3>2. handler[stream[r]] = "open" /\ committed[stream[r]]
      BY <3>1 DEF RegistryInit
    <3>3. QED
      BY <3>1, <3>2 DEF OpenHandlers
  <2>5. QED
    BY <2>2, <2>3, <2>4 DEF StreamInv, NoGhostRunner
<1>2. StreamInv => NoGhostRunner
    BY DEF StreamInv
<1>3. QED
    BY <1>1, <1>2, StreamInvInductive, PTL DEF Spec

------------------------------------------------------------------------------
\* Types of the registration.

ProcessTypes ==
    /\ proc \in [Runners -> {"down", "starting", "serving", "draining"}]
    /\ ready \in [Runners -> BOOLEAN] /\ cordoned \in [Runners -> BOOLEAN]
    /\ changed \in [Runners -> BOOLEAN] /\ cordons \in 0 .. MaxCordons

ClientTypes ==
    /\ client \in [Runners -> {"off", "connect", "compose", "send", "select"}]
    /\ stream \in [Runners -> Streams \cup {None}]
    /\ hb \in [Runners -> Heartbeat \cup {None}]
    /\ awaitReady \in [Runners -> BOOLEAN] /\ tick \in [Runners -> Nat]

HandlerTypes ==
    /\ handler \in [Streams -> {"free", "open", "gone"}]
    /\ owner \in [Streams -> Runners \cup {None}]
    /\ committed \in [Streams -> BOOLEAN] /\ applied \in [Streams -> BOOLEAN]
    /\ queue \in [Streams -> Seq(Heartbeat)]

EntryTypes ==
    /\ reg \in [Runners -> Heartbeat \cup {None}]
    /\ seen \in [Runners -> 0 .. MaxAge]
    /\ removed \in [Runners -> 0 .. MaxAge \cup {None}]

\* The slots that are taken, and the budgets.
HostTypes ==
    /\ backend \in Backends
    /\ sandboxes \in [Runners -> SUBSET Sandboxes]
    /\ faults \in 0 .. MaxFaults

LEMMA RegistryTypeParts ==
    RegistryTypeOK <=> ProcessTypes /\ ClientTypes /\ HandlerTypes /\ EntryTypes /\ HostTypes
BY Zenon DEF RegistryTypeOK, ProcessTypes, ClientTypes, HandlerTypes, EntryTypes, HostTypes

\* What the lemmas below need of the constants.
LEMMA Bounds ==
    /\ MaxAge \in Nat /\ 0 \in 0 .. MaxAge /\ MaxFaults \in Nat /\ MaxCordons \in Nat /\ Interval \in Nat
    /\ \A a \in 0 .. MaxAge : Older(a) \in 0 .. MaxAge /\ Older(a) <= a + 1 /\ a \in Nat
<1>1. MaxAge \in Nat
    BY SMT, RegistryAssumption DEF MaxAge
<1>2. \A a \in 0 .. MaxAge : Older(a) \in 0 .. MaxAge /\ Older(a) <= a + 1 /\ a \in Nat
    BY SMT, <1>1 DEF Older
<1>3. MaxFaults \in Nat /\ MaxCordons \in Nat /\ Interval \in Nat
    BY Zenon, RegistryAssumption
<1>4. QED
    BY SMT, <1>1, <1>2, <1>3

LEMMA FaultType == ASSUME HostTypes, Fault PROVE faults' \in 0 .. MaxFaults /\ faults' = faults + 1
<1>1. faults \in 0 .. MaxFaults /\ faults < MaxFaults /\ faults' = faults + 1 /\ MaxFaults \in Nat
    BY Zenon, Bounds DEF HostTypes, Fault
<1>2. QED
    BY SMT, <1>1

\* A heartbeat reports how many of the sandboxes there are.
LEMMA UsedType == ASSUME HostTypes, NEW r \in Runners PROVE Used(r) \in 0 .. Cardinality(Sandboxes)
<1>1. sandboxes[r] \subseteq Sandboxes /\ IsFiniteSet(Sandboxes)
    BY Zenon, RegistryAssumption DEF HostTypes
<1>2. IsFiniteSet(sandboxes[r]) /\ Cardinality(sandboxes[r]) <= Cardinality(Sandboxes)
    BY Zenon, <1>1, FS_Subset
<1>3. Cardinality(sandboxes[r]) \in Nat /\ Cardinality(Sandboxes) \in Nat
    BY Zenon, <1>1, <1>2, FS_CardinalityType
<1>4. QED
    BY SMT, <1>2, <1>3 DEF Used

LEMMA ClientStopsTypes ==
    ASSUME ClientTypes, NEW r \in Runners, ClientStops(r) \/ Disconnects(r)
    PROVE  ClientTypes'
<1>1. 0 \in Nat
    BY SMT
<1>2. client' \in [Runners -> {"off", "connect", "compose", "send", "select"}]
    BY Zenon DEF ClientTypes, ClientStops, Disconnects, Set
<1>3. stream' \in [Runners -> Streams \cup {None}] /\ hb' \in [Runners -> Heartbeat \cup {None}]
    BY Zenon DEF ClientTypes, ClientStops, Disconnects, Set
<1>4. awaitReady' \in [Runners -> BOOLEAN] /\ tick' \in [Runners -> Nat]
    BY Zenon, <1>1 DEF ClientTypes, ClientStops, Disconnects, Set
<1>5. QED
    BY Zenon, <1>2, <1>3, <1>4 DEF ClientTypes

LEMMA ProcessStepTypes ==
    ASSUME RegistryTypeOK, UNCHANGED backend, NEW r \in Runners, Start(r) \/ Listen(r) \/ Prepare(r)
    PROVE  RegistryTypeOK'
<1>1. ProcessTypes'
    BY Zenon DEF RegistryTypeOK, ProcessTypes, Start, Listen, Prepare, Set
<1>2. client' \in [Runners -> {"off", "connect", "compose", "send", "select"}]
    BY Zenon DEF RegistryTypeOK, Start, Listen, Prepare, Set, clientVars
<1>3. UNCHANGED <<sandboxes, stream, hb, awaitReady, tick, streamVars, registryVars, faults>>
    BY Zenon DEF Start, Listen, Prepare, clientVars
<1>4. QED
    BY Zenon, <1>1, <1>2, <1>3 DEF RegistryTypeOK, ProcessTypes, streamVars, registryVars

LEMMA TerminateTypes ==
    ASSUME RegistryTypeOK, UNCHANGED backend, NEW r \in Runners, Terminate(r)
    PROVE  RegistryTypeOK'
<1>1. ClientTypes' /\ faults' \in 0 .. MaxFaults
    BY Zenon, RegistryTypeParts, ClientStopsTypes, FaultType DEF Terminate
<1>2. proc' \in [Runners -> {"down", "starting", "serving", "draining"}]
    BY Zenon DEF RegistryTypeOK, Terminate, Set
<1>3. UNCHANGED <<ready, cordoned, changed, cordons, sandboxes, streamVars, registryVars>>
    BY Zenon DEF Terminate
<1>4. QED
    BY Zenon, <1>1, <1>2, <1>3 DEF RegistryTypeOK, ClientTypes, streamVars, registryVars

LEMMA CordonTypes ==
    ASSUME RegistryTypeOK, UNCHANGED backend, NEW r \in Runners, NEW v \in BOOLEAN,
           HandleSetRunnerCordon(r, v)
    PROVE  RegistryTypeOK'
<1>1. cordons \in 0 .. MaxCordons /\ cordons < MaxCordons /\ cordons' = cordons + 1 /\ MaxCordons \in Nat
    BY Zenon, Bounds DEF RegistryTypeOK, HandleSetRunnerCordon
<1>2. cordons' \in 0 .. MaxCordons
    BY SMT, <1>1
<1>3. cordoned' \in [Runners -> BOOLEAN] /\ changed' \in [Runners -> BOOLEAN]
    BY Zenon DEF RegistryTypeOK, HandleSetRunnerCordon, SetCordon, Set
<1>4. UNCHANGED <<proc, ready, sandboxes, clientVars, streamVars, registryVars, faults>>
    BY Zenon DEF HandleSetRunnerCordon
<1>5. QED
    BY Zenon, <1>2, <1>3, <1>4 DEF RegistryTypeOK, clientVars, streamVars, registryVars

LEMMA ConnectTypes ==
    ASSUME RegistryTypeOK, UNCHANGED backend, NEW r \in Runners, Connect(r)
    PROVE  RegistryTypeOK'
<1>0. 0 \in Nat
    BY SMT
<1>1. PICK s \in Streams : handler' = Set(handler, s, "open") /\ owner' = Set(owner, s, r)
                           /\ stream' = Set(stream, r, s)
    BY Zenon DEF Connect
<1>2. /\ handler' \in [Streams -> {"free", "open", "gone"}] /\ owner' \in [Streams -> Runners \cup {None}]
      /\ stream' \in [Runners -> Streams \cup {None}]
    BY Zenon, <1>1 DEF RegistryTypeOK, Set
<1>3. client' \in [Runners -> {"off", "connect", "compose", "send", "select"}]
    BY Zenon DEF RegistryTypeOK, Connect, Set
<1>4. awaitReady' \in [Runners -> BOOLEAN] /\ tick' \in [Runners -> Nat]
    BY Zenon, <1>0 DEF RegistryTypeOK, Connect, Set
<1>5. UNCHANGED <<processVars, sandboxes, hb, committed, applied, queue, registryVars, faults>>
    BY Zenon DEF Connect
<1>6. QED
    BY Zenon, <1>2, <1>3, <1>4, <1>5 DEF RegistryTypeOK, processVars, registryVars

LEMMA ComposeTypes ==
    ASSUME RegistryTypeOK, UNCHANGED backend, NEW r \in Runners, Compose(r)
    PROVE  RegistryTypeOK'
<1>1. Used(r) \in 0 .. Cardinality(Sandboxes)
    BY Zenon, RegistryTypeParts, UsedType
<1>2. [healthy |-> ready[r], cordoned |-> cordoned[r], used |-> Used(r)] \in Heartbeat
    BY Zenon, <1>1 DEF RegistryTypeOK, Heartbeat
<1>3. hb' \in [Runners -> Heartbeat \cup {None}]
    BY Zenon, <1>2 DEF RegistryTypeOK, Compose, Set
<1>4. client' \in [Runners -> {"off", "connect", "compose", "send", "select"}]
    BY Zenon DEF RegistryTypeOK, Compose, Set
<1>5. UNCHANGED <<processVars, sandboxes, stream, awaitReady, tick, streamVars, registryVars, faults>>
    BY Zenon DEF Compose
<1>6. QED
    BY Zenon, <1>3, <1>4, <1>5 DEF RegistryTypeOK, processVars, streamVars, registryVars

LEMMA SelectTypes ==
    ASSUME RegistryTypeOK, UNCHANGED backend, NEW r \in Runners, Ticked(r) \/ CordonChanged(r) \/ BecameReady(r)
    PROVE  RegistryTypeOK'
<1>0. 0 \in Nat
    BY SMT
<1>1. client' = Set(client, r, "compose")
    BY Zenon DEF Ticked, CordonChanged, BecameReady
<1>2. tick' = Set(tick, r, 0) \/ UNCHANGED tick
    BY Zenon DEF Ticked, CordonChanged, BecameReady
<1>3. changed' = Set(changed, r, FALSE) \/ UNCHANGED changed
    BY Zenon DEF Ticked, CordonChanged, BecameReady, processVars
<1>4. awaitReady' = Set(awaitReady, r, FALSE) \/ UNCHANGED awaitReady
    BY Zenon DEF Ticked, CordonChanged, BecameReady
<1>5. UNCHANGED <<proc, ready, cordoned, cordons, sandboxes, stream, hb, streamVars, registryVars, faults>>
    BY Zenon DEF Ticked, CordonChanged, BecameReady, processVars
<1>6. client' \in [Runners -> {"off", "connect", "compose", "send", "select"}]
    BY Zenon, <1>1 DEF RegistryTypeOK, Set
<1>7. tick' \in [Runners -> Nat]
    BY Zenon, <1>0, <1>2 DEF RegistryTypeOK, Set
<1>8. changed' \in [Runners -> BOOLEAN]
    BY Zenon, <1>3 DEF RegistryTypeOK, Set
<1>9. awaitReady' \in [Runners -> BOOLEAN]
    BY Zenon, <1>4 DEF RegistryTypeOK, Set
<1>10. QED
    BY Zenon, <1>5, <1>6, <1>7, <1>8, <1>9 DEF RegistryTypeOK, streamVars, registryVars

LEMMA StreamBreaksTypes ==
    ASSUME RegistryTypeOK, UNCHANGED backend, NEW r \in Runners, StreamBreaks(r)
    PROVE  RegistryTypeOK'
<1>1. ClientTypes' /\ faults' \in 0 .. MaxFaults
    BY Zenon, RegistryTypeParts, ClientStopsTypes, FaultType DEF StreamBreaks
<1>2. UNCHANGED <<processVars, sandboxes, streamVars, registryVars>>
    BY Zenon DEF StreamBreaks
<1>3. QED
    BY Zenon, <1>1, <1>2 DEF RegistryTypeOK, ClientTypes, processVars, streamVars, registryVars

LEMMA ResetStreamTypes ==
    ASSUME HandlerTypes, NEW s, ResetStream(s)
    PROVE  HandlerTypes'
<1>1. <<>> \in Seq(Heartbeat)
    BY SMT
<1>2. queue' \in [Streams -> Seq(Heartbeat)]
    BY Zenon, <1>1 DEF HandlerTypes, ResetStream, Set
<1>3. handler' \in [Streams -> {"free", "open", "gone"}] /\ owner' \in [Streams -> Runners \cup {None}]
    BY Zenon DEF HandlerTypes, ResetStream, Set
<1>4. committed' \in [Streams -> BOOLEAN] /\ applied' \in [Streams -> BOOLEAN]
    BY Zenon DEF HandlerTypes, ResetStream, Set
<1>5. QED
    BY Zenon, <1>2, <1>3, <1>4 DEF HandlerTypes

LEMMA NoticesRestartTypes ==
    ASSUME RegistryTypeOK, UNCHANGED backend, NEW r \in Runners, NoticesRestart(r)
    PROVE  RegistryTypeOK'
<1>1. ClientTypes' /\ HandlerTypes'
    BY Zenon, RegistryTypeParts, ClientStopsTypes, ResetStreamTypes DEF NoticesRestart
<1>2. UNCHANGED <<processVars, sandboxes, registryVars, faults>>
    BY Zenon DEF NoticesRestart
<1>3. QED
    BY Zenon, <1>1, <1>2 DEF RegistryTypeOK, ClientTypes, HandlerTypes, processVars, registryVars

LEMMA SendTypes ==
    ASSUME RegistryTypeOK, UNCHANGED backend, NEW r \in Runners, hb[r] # None, Send(r)
    PROVE  RegistryTypeOK'
<1>1. client' \in [Runners -> {"off", "connect", "compose", "send", "select"}]
      /\ hb' \in [Runners -> Heartbeat \cup {None}]
    BY Zenon DEF RegistryTypeOK, Send, Set
<1>2. \A q \in Seq(Heartbeat) : Append(q, hb[r]) \in Seq(Heartbeat)
    <2>1. hb[r] \in Heartbeat
        BY Zenon DEF RegistryTypeOK
    <2>2. QED
        BY SMT, <2>1
<1>3. queue' \in [Streams -> Seq(Heartbeat)]
    BY Zenon, <1>2 DEF RegistryTypeOK, Send, Set
<1>4. UNCHANGED <<processVars, sandboxes, stream, awaitReady, tick, handler, owner, committed, applied,
                  registryVars, faults>>
    BY Zenon DEF Send
<1>5. QED
    BY Zenon, <1>1, <1>3, <1>4 DEF RegistryTypeOK, processVars, registryVars

LEMMA UpsertTypes ==
    ASSUME EntryTypes, NEW r, NEW h \in Heartbeat, Upsert(r, h)
    PROVE  EntryTypes'
<1>1. reg' \in [Runners -> Heartbeat \cup {None}]
    BY Zenon DEF EntryTypes, Upsert, Set
<1>2. seen' \in [Runners -> 0 .. MaxAge]
    BY Zenon, Bounds DEF EntryTypes, Upsert, Set
<1>3. removed' \in [Runners -> 0 .. MaxAge \cup {None}]
    BY Zenon DEF EntryTypes, Upsert, Set
<1>4. QED
    BY Zenon, <1>1, <1>2, <1>3 DEF EntryTypes

LEMMA RemoveTypes ==
    ASSUME EntryTypes, NEW s, RemoveOnReturn(s)
    PROVE  EntryTypes'
<1>1. CASE UNCHANGED registryVars
    BY Zenon, <1>1 DEF EntryTypes, registryVars
<1>2. CASE /\ reg' = Set(reg, owner[s], None)
           /\ seen' = Set(seen, owner[s], 0)
           /\ removed' = Set(removed, owner[s], 0)
    <2>1. reg' \in [Runners -> Heartbeat \cup {None}]
        BY Zenon, <1>2 DEF EntryTypes, Set
    <2>2. seen' \in [Runners -> 0 .. MaxAge]
        BY Zenon, <1>2, Bounds DEF EntryTypes, Set
    <2>3. removed' \in [Runners -> 0 .. MaxAge \cup {None}]
        BY Zenon, <1>2, Bounds DEF EntryTypes, Set
    <2>4. QED
        BY Zenon, <2>1, <2>2, <2>3 DEF EntryTypes
<1>3. QED
    BY Zenon, <1>1, <1>2 DEF RemoveOnReturn, Remove

LEMMA ReceiveTypes ==
    ASSUME RegistryTypeOK, UNCHANGED backend, NEW s \in Streams, Receive(s)
    PROVE  RegistryTypeOK'
<1>1. queue[s] \in Seq(Heartbeat) /\ queue[s] # <<>>
    BY Zenon DEF RegistryTypeOK, Receive
<1>2. Head(queue[s]) \in Heartbeat /\ Tail(queue[s]) \in Seq(Heartbeat)
    BY SMT, <1>1
<1>3. queue' \in [Streams -> Seq(Heartbeat)] /\ committed' \in [Streams -> BOOLEAN]
    BY Zenon, <1>2 DEF RegistryTypeOK, Receive, Set
<1>4. CASE Upsert(owner[s], Head(queue[s])) /\ applied' = Set(applied, s, TRUE) /\ UNCHANGED faults
    <2>1. EntryTypes' /\ UNCHANGED faults
        BY Zenon, <1>2, <1>4, RegistryTypeParts, UpsertTypes
    <2>2. applied' \in [Streams -> BOOLEAN]
        BY Zenon, <1>4 DEF RegistryTypeOK, Set
    <2>3. QED
        BY Zenon, <1>3, <2>1, <2>2 DEF RegistryTypeOK, EntryTypes, Receive, processVars, clientVars
<1>5. CASE Fault /\ UNCHANGED <<registryVars, applied>>
    <2>1. faults' \in 0 .. MaxFaults /\ UNCHANGED <<registryVars, applied>>
        BY Zenon, <1>5, RegistryTypeParts, FaultType
    <2>2. QED
        BY Zenon, <1>3, <2>1 DEF RegistryTypeOK, Receive, processVars, clientVars, registryVars
<1>6. QED
    BY Zenon, <1>4, <1>5 DEF Receive

LEMMA HandlerReturnsTypes ==
    ASSUME RegistryTypeOK, UNCHANGED backend, NEW s \in Streams, HandlerReturns(s)
    PROVE  RegistryTypeOK'
<1>1. EntryTypes' /\ HandlerTypes'
    BY Zenon, RegistryTypeParts, RemoveTypes, ResetStreamTypes DEF HandlerReturns
<1>2. UNCHANGED <<processVars, sandboxes, clientVars, faults>>
    BY Zenon DEF HandlerReturns
<1>3. QED
    BY Zenon, <1>1, <1>2 DEF RegistryTypeOK, EntryTypes, HandlerTypes, processVars, clientVars

LEMMA ApiRestartTypes ==
    ASSUME RegistryTypeOK, UNCHANGED backend, ApiRestart
    PROVE  RegistryTypeOK'
<1>1. handler' \in [Streams -> {"free", "open", "gone"}]
    BY Zenon DEF RegistryTypeOK, ApiRestart
<1>2. owner' \in [Streams -> Runners \cup {None}]
    BY Zenon DEF RegistryTypeOK, ApiRestart
<1>3. <<>> \in Seq(Heartbeat)
    BY SMT
<1>4. /\ committed' \in [Streams -> BOOLEAN] /\ applied' \in [Streams -> BOOLEAN]
      /\ queue' \in [Streams -> Seq(Heartbeat)]
    BY Zenon, <1>3 DEF ApiRestart
<1>5. EntryTypes'
    <2>1. CASE backend = "memory"
        BY Zenon, <2>1, Bounds DEF EntryTypes, ApiRestart
    <2>2. CASE backend # "memory"
        BY Zenon, <2>2 DEF RegistryTypeOK, EntryTypes, ApiRestart, registryVars
    <2>3. QED
        BY Zenon, <2>1, <2>2
<1>6. faults' \in 0 .. MaxFaults
    BY Zenon, RegistryTypeParts, FaultType DEF ApiRestart
<1>7. UNCHANGED <<processVars, sandboxes, clientVars>>
    BY Zenon DEF ApiRestart
<1>8. QED
    BY Zenon, <1>1, <1>2, <1>4, <1>5, <1>6, <1>7 DEF RegistryTypeOK, EntryTypes, processVars, clientVars

LEMMA ElapseTypes ==
    ASSUME RegistryTypeOK, UNCHANGED backend, Elapse
    PROVE  RegistryTypeOK'
<1>1. \A n \in Nat : n + 1 \in Nat /\ 0 \in Nat
    BY SMT
<1>2. tick' \in [Runners -> Nat]
    BY Zenon, <1>1 DEF RegistryTypeOK, Elapse
<1>3. seen' \in [Runners -> 0 .. MaxAge]
    BY Zenon, Bounds DEF RegistryTypeOK, Elapse
<1>4. removed' \in [Runners -> 0 .. MaxAge \cup {None}]
    BY Zenon, Bounds DEF RegistryTypeOK, Elapse
<1>5. UNCHANGED <<processVars, sandboxes, client, stream, hb, awaitReady, streamVars, reg, faults>>
    BY Zenon DEF Elapse
<1>6. QED
    BY Zenon, <1>2, <1>3, <1>4, <1>5 DEF RegistryTypeOK, processVars, streamVars

LEMMA ProcessEndsTypes ==
    ASSUME RegistryTypeOK, NEW r \in Runners, ShutDown(r) \/ Crash(r)
    PROVE  RegistryTypeOK'
<1>1. ProcessEnds(r) /\ UNCHANGED <<backend, streamVars, registryVars>> /\ (Fault \/ UNCHANGED faults)
    BY Zenon DEF ShutDown, Crash
<1>2. faults' \in 0 .. MaxFaults
    BY Zenon, <1>1, RegistryTypeParts, FaultType DEF HostTypes
<1>3. ClientTypes' /\ UNCHANGED cordons
    BY Zenon, <1>1, RegistryTypeParts, ClientStopsTypes DEF ProcessEnds
<1>4. proc' \in [Runners -> {"down", "starting", "serving", "draining"}] /\ ready' \in [Runners -> BOOLEAN]
    BY Zenon, <1>1 DEF RegistryTypeOK, ProcessEnds, Set
<1>5. cordoned' \in [Runners -> BOOLEAN] /\ changed' \in [Runners -> BOOLEAN]
    BY Zenon, <1>1 DEF RegistryTypeOK, ProcessEnds, Set
<1>6. sandboxes' \in [Runners -> SUBSET Sandboxes]
    BY Zenon, <1>1 DEF RegistryTypeOK, ProcessEnds, Set
<1>7. QED
    BY Zenon, <1>1, <1>2, <1>3, <1>4, <1>5, <1>6
    DEF RegistryTypeOK, ClientTypes, streamVars, registryVars

\* The creates take and give back slots of runners, and use up the faults.
PlacingStep(c) ==
    \/ BeginCreate(c) \/ Pick(c) \/ CommitPick(c) \/ NoRunners(c) \/ Answered(c) \/ CallLost(c)
    \/ \E r \in Runners :
          \/ ControlCreate(c, r) \/ RefuseCreate(c, r) \/ ReserveSandbox(c, r)
          \/ FinishSandbox(c, r) \/ DeleteSandbox(c, r)
    \/ \E o \in Others : OtherCreate(c, o)

LEMMA PlacingEffect ==
    ASSUME NEW c \in Creates, PlacingStep(c)
    PROVE  /\ Placing /\ (Fault \/ UNCHANGED faults)
           /\ \/ UNCHANGED sandboxes
              \/ \E r \in Runners : sandboxes' = Set(sandboxes, r, sandboxes[r] \cup {c})
              \/ \E r \in Runners : sandboxes' = Set(sandboxes, r, sandboxes[r] \ {c})
<1>1. CASE BeginCreate(c) \/ Pick(c) \/ NoRunners(c) \/ Answered(c)
    BY Zenon, <1>1 DEF BeginCreate, Pick, NoRunners, Answered
<1>2. CASE CommitPick(c) \/ CallLost(c)
    BY Zenon, <1>2 DEF CommitPick, CallLost
<1>3. ASSUME NEW r \in Runners, ControlCreate(c, r) \/ RefuseCreate(c, r)
      PROVE  Placing /\ UNCHANGED <<faults, sandboxes>>
    BY Zenon, <1>3 DEF ControlCreate, RefuseCreate
<1>4. ASSUME NEW r \in Runners, ReserveSandbox(c, r)
      PROVE  Placing /\ UNCHANGED faults /\ sandboxes' = Set(sandboxes, r, sandboxes[r] \cup {c})
    BY Zenon, <1>4 DEF ReserveSandbox
<1>5. ASSUME NEW r \in Runners, FinishSandbox(c, r) \/ DeleteSandbox(c, r)
      PROVE  /\ Placing /\ (Fault \/ UNCHANGED faults)
             /\ UNCHANGED sandboxes \/ sandboxes' = Set(sandboxes, r, sandboxes[r] \ {c})
    BY Zenon, <1>5 DEF FinishSandbox, DeleteSandbox
<1>6. ASSUME NEW o \in Others, OtherCreate(c, o)
      PROVE  Placing /\ UNCHANGED <<faults, sandboxes>>
    BY Zenon, <1>6 DEF OtherCreate
<1>7. QED
    BY Zenon, <1>1, <1>2, <1>3, <1>4, <1>5, <1>6 DEF PlacingStep

LEMMA PlacingTypes ==
    ASSUME RegistryTypeOK, NEW c \in Creates, PlacingStep(c)
    PROVE  RegistryTypeOK'
<1>1. Placing /\ faults' \in 0 .. MaxFaults
    BY Zenon, PlacingEffect, RegistryTypeParts, FaultType DEF HostTypes
<1>2. sandboxes' \in [Runners -> SUBSET Sandboxes]
    <2>1. sandboxes \in [Runners -> SUBSET Sandboxes] /\ c \in Sandboxes
        BY Zenon DEF RegistryTypeOK, Creates
    <2>2. CASE \E r \in Runners : sandboxes' = Set(sandboxes, r, sandboxes[r] \cup {c})
        BY Zenon, <2>1, <2>2 DEF Set
    <2>3. CASE \E r \in Runners : sandboxes' = Set(sandboxes, r, sandboxes[r] \ {c})
        BY Zenon, <2>1, <2>3 DEF Set
    <2>4. QED
        BY Zenon, <2>1, <2>2, <2>3, PlacingEffect
<1>3. QED
    BY Zenon, <1>1, <1>2 DEF RegistryTypeOK, Placing, processVars, clientVars, streamVars, registryVars

------------------------------------------------------------------------------
\* What the registry knows of a runner that has a stream.

\* A stream that is open was opened by a runner; a free one has no trace of an earlier use.
StreamOK(s) ==
    /\ handler[s] = "open" => owner[s] \in Runners
    /\ handler[s] = "free" => owner[s] = None /\ ~applied[s]

\* A client in a stream owns it, and the stream is in use.
LinkOK(r) ==
    /\ Live(r) => stream[r] \in Streams /\ owner[stream[r]] = r /\ handler[stream[r]] # "free"
    /\ ~Live(r) => stream[r] = None
    /\ client[r] = "send" => hb[r] # None
    /\ proc[r] = "down" => client[r] = "off"

\* The client has its stream open.
Connected(r) == Live(r) /\ handler[stream[r]] = "open"

\* No other stream of r may still write, or remove, its entry.
Sole(r) ==
    \A z \in Streams : handler[z] = "open" /\ owner[z] = r /\ committed[z] => z = stream[r]

\* As long as no change waits to be sent, the newest heartbeat has the cordon: the one
\* composed, the last one on the way, or the one applied.
CordonOK(r) ==
    backend = "memory" /\ Connected(r) /\ ~changed[r] =>
        LET q == queue[stream[r]] IN
        /\ client[r] = "send" => hb[r].cordoned = cordoned[r]
        /\ client[r] = "select" /\ q # <<>> => q[Len(q)].cordoned = cordoned[r]
        /\ (client[r] = "select" /\ q = <<>> /\ reg[r] # None /\ Sole(r))
              => reg[r].cordoned = cordoned[r]

\* Every heartbeat sent was applied.
AtRest(r) == client[r] = "select" /\ queue[stream[r]] = <<>>

\* The entry is away no longer than the client takes to send the next heartbeat.
MemoryAge(r) ==
    reg[r] = None /\ removed[r] # None =>
        removed[r] <= Interval /\ (AtRest(r) => removed[r] <= tick[r])

\* Each failed write lets the row age by one interval.
PostgresAge(r) ==
    /\ seen[r] <= (faults + 1) * Interval
    /\ AtRest(r) => seen[r] <= faults * Interval + tick[r]

AgeOK(r) ==
    /\ tick[r] <= Interval
    /\ backend # "memory" => reg[r] # None
    /\ Connected(r) /\ applied[stream[r]] =>
          IF backend = "memory" THEN MemoryAge(r) ELSE PostgresAge(r)

RunnerOK(r) == LinkOK(r) /\ CordonOK(r) /\ AgeOK(r)

RegistryInv ==
    /\ RegistryTypeOK
    /\ \A s \in Streams : StreamOK(s)
    /\ \A r \in Runners : RunnerOK(r)

\* A step that changes nothing RunnerOK says of r.
ClientSame(r) ==
    /\ client'[r] = client[r] /\ stream'[r] = stream[r] /\ hb'[r] = hb[r] /\ tick'[r] = tick[r]
    /\ proc'[r] = "down" => proc[r] = "down"

CordonSame(r) == changed'[r] = changed[r] /\ cordoned'[r] = cordoned[r]

StreamSame(z) ==
    /\ handler'[z] = handler[z] /\ owner'[z] = owner[z]
    /\ committed'[z] = committed[z] /\ applied'[z] = applied[z] /\ queue'[z] = queue[z]

StreamsSame(r) == \A z \in Streams : owner[z] = r => StreamSame(z)

EntrySame(r) == reg'[r] = reg[r] /\ seen'[r] = seen[r] /\ removed'[r] = removed[r]

BudgetOK == backend' = backend /\ faults' \in {faults, faults + 1}

HeldSame(r) == Live(r) => StreamSame(stream[r])

LEMMA StreamsSameHeld ==
    ASSUME NEW r \in Runners, LinkOK(r), StreamsSame(r)
    PROVE  HeldSame(r)
BY Zenon DEF LinkOK, StreamsSame, HeldSame

LEMMA ClientLink ==
    ASSUME NEW r \in Runners, LinkOK(r), ClientSame(r), HeldSame(r)
    PROVE  LinkOK(r)' /\ (Live(r)' <=> Live(r))
BY Zenon DEF LinkOK, Live, ClientSame, HeldSame, StreamSame

LEMMA SameConnected ==
    ASSUME NEW r \in Runners, LinkOK(r), ClientSame(r), HeldSame(r), Connected(r)'
    PROVE  Connected(r) /\ StreamSame(stream[r]) /\ stream'[r] = stream[r]
<1>1. Live(r)
    BY Zenon, ClientLink DEF Connected
<1>2. StreamSame(stream[r]) /\ stream'[r] = stream[r]
    BY Zenon, <1>1 DEF ClientSame, HeldSame
<1>3. QED
    BY Zenon, <1>1, <1>2 DEF Connected, StreamSame

LEMMA SameSole ==
    ASSUME NEW r \in Runners, ClientSame(r), StreamsSame(r), Sole(r)'
    PROVE  Sole(r)
BY Zenon DEF Sole, ClientSame, StreamsSame, StreamSame

LEMMA SameCordon ==
    ASSUME NEW r \in Runners, LinkOK(r), CordonOK(r), ClientSame(r), CordonSame(r), HeldSame(r), BudgetOK,
           backend = "memory" /\ reg'[r] # None /\ Sole(r)' => Sole(r) /\ reg'[r] = reg[r]
    PROVE  CordonOK(r)'
<1> SUFFICES ASSUME backend' = "memory", Connected(r)', ~changed'[r] PROVE CordonOK(r)'
    BY Zenon DEF CordonOK
<1>1. backend = "memory" /\ Connected(r) /\ ~changed[r] /\ cordoned'[r] = cordoned[r]
    BY Zenon, SameConnected DEF BudgetOK, CordonSame
<1>2. stream'[r] = stream[r] /\ queue'[stream[r]] = queue[stream[r]]
    BY Zenon, SameConnected DEF StreamSame
<1>3. client'[r] = client[r] /\ hb'[r] = hb[r]
    BY Zenon DEF ClientSame
<1>4. QED
    BY Zenon, <1>1, <1>2, <1>3 DEF CordonOK

\* One more fault, one more interval.
LEMMA OneMoreFault ==
    ASSUME NEW f \in Nat, NEW g \in {f, f + 1}, NEW n \in Nat
    PROVE  /\ f * n <= g * n /\ (f + 1) * n <= (g + 1) * n /\ (f + 1) * n = f * n + n
           /\ f * n \in Nat /\ g * n \in Nat /\ (f + 1) * n \in Nat /\ (g + 1) * n \in Nat
BY SMT

LEMMA MoreFaults ==
    ASSUME NEW f \in Nat, NEW g \in Nat, f <= g, NEW n \in Nat
    PROVE  f * n <= g * n
BY SMT

LEMMA AgeTypes ==
    ASSUME RegistryTypeOK, NEW r \in Runners
    PROVE  /\ tick[r] \in Nat /\ seen[r] \in Nat /\ faults \in Nat /\ Interval \in Nat
           /\ removed[r] # None => removed[r] \in Nat
<1>1. tick[r] \in Nat /\ seen[r] \in 0 .. MaxAge /\ faults \in 0 .. MaxFaults /\ Interval \in Nat
    BY Zenon, Bounds DEF RegistryTypeOK
<1>2. removed[r] # None => removed[r] \in 0 .. MaxAge
    BY Zenon DEF RegistryTypeOK
<1>3. seen[r] \in Nat /\ faults \in Nat
    BY SMT, <1>1
<1>4. removed[r] # None => removed[r] \in Nat
    BY Zenon, <1>2, Bounds
<1>5. QED
    BY Zenon, <1>1, <1>3, <1>4

\* The bound of a row holds on when writes fail.
LEMMA SamePostgresAge ==
    ASSUME RegistryTypeOK, NEW r \in Runners, PostgresAge(r), BudgetOK, seen'[r] = seen[r],
           AtRest(r)' => AtRest(r) /\ tick'[r] = tick[r]
    PROVE  PostgresAge(r)'
<1>1. /\ faults * Interval <= faults' * Interval /\ (faults + 1) * Interval <= (faults' + 1) * Interval
      /\ faults * Interval \in Nat /\ faults' * Interval \in Nat /\ tick[r] \in Nat /\ seen[r] \in Nat
      /\ (faults + 1) * Interval \in Nat /\ (faults' + 1) * Interval \in Nat
    <2>1. faults \in Nat /\ Interval \in Nat /\ faults' \in {faults, faults + 1} /\ tick[r] \in Nat /\ seen[r] \in Nat
        BY Zenon, AgeTypes DEF BudgetOK
    <2>2. QED
        BY Zenon, <2>1, OneMoreFault
<1>2. seen[r] <= (faults + 1) * Interval
    BY Zenon DEF PostgresAge
<1>3. seen'[r] <= (faults' + 1) * Interval
    BY SMT, <1>1, <1>2
<1>4. ASSUME AtRest(r)' PROVE seen'[r] <= faults' * Interval + tick'[r]
    <2>1. seen[r] <= faults * Interval + tick[r] /\ tick'[r] = tick[r]
        BY Zenon, <1>4 DEF PostgresAge
    <2>2. QED
        BY SMT, <1>1, <2>1
<1>5. QED
    BY Zenon, <1>3, <1>4 DEF PostgresAge

LEMMA SameAge ==
    ASSUME RegistryTypeOK, NEW r \in Runners, LinkOK(r), AgeOK(r), ClientSame(r), HeldSame(r),
           EntrySame(r), BudgetOK
    PROVE  AgeOK(r)'
<1>1. tick'[r] = tick[r] /\ client'[r] = client[r] /\ seen'[r] = seen[r] /\ backend' = backend
      /\ reg'[r] = reg[r] /\ removed'[r] = removed[r]
    BY Zenon DEF ClientSame, EntrySame, BudgetOK
<1>2. ASSUME Connected(r)', applied'[stream'[r]]
      PROVE  IF backend = "memory" THEN MemoryAge(r)' ELSE PostgresAge(r)'
    <2>1. Connected(r) /\ applied[stream[r]] /\ stream'[r] = stream[r] /\ queue'[stream[r]] = queue[stream[r]]
        BY Zenon, SameConnected, <1>2 DEF StreamSame
    <2>2. AtRest(r)' <=> AtRest(r)
        BY Zenon, <1>1, <2>1 DEF AtRest
    <2>3. CASE backend = "memory"
        <3>1. MemoryAge(r)
            BY Zenon, <2>1, <2>3 DEF AgeOK
        <3>2. QED
            BY Zenon, <1>1, <2>2, <2>3, <3>1 DEF MemoryAge
    <2>4. CASE backend # "memory"
        <3>1. PostgresAge(r)
            BY Zenon, <2>1, <2>4 DEF AgeOK
        <3>2. QED
            BY Zenon, <1>1, <2>2, <2>4, <3>1, SamePostgresAge
    <2>5. QED
        BY Zenon, <2>3, <2>4
<1>3. QED
    BY Zenon, <1>1, <1>2 DEF AgeOK

\* So nothing of another runner, and no placement, disturbs what the registry knows of r.
Undisturbed(r) ==
    ClientSame(r) /\ CordonSame(r) /\ StreamsSame(r) /\ EntrySame(r) /\ BudgetOK

LEMMA UndisturbedKeeps ==
    ASSUME RegistryTypeOK, NEW r \in Runners, RunnerOK(r), Undisturbed(r)
    PROVE  RunnerOK(r)'
<1>1. LinkOK(r) /\ CordonOK(r) /\ AgeOK(r) /\ ClientSame(r) /\ CordonSame(r) /\ EntrySame(r) /\ BudgetOK
    BY Zenon DEF RunnerOK, Undisturbed
<1>2. HeldSame(r) /\ (Sole(r)' => Sole(r))
    BY Zenon, <1>1, StreamsSameHeld, SameSole DEF Undisturbed
<1>3. CordonOK(r)'
    BY Zenon, <1>1, <1>2, SameCordon DEF EntrySame
<1>4. QED
    BY Zenon, <1>1, <1>2, <1>3, ClientLink, SameAge DEF RunnerOK

\* Without a stream there is nothing to know.
LEMMA StreamlessKeeps ==
    ASSUME NEW r \in Runners, AgeOK(r), backend' = backend, reg'[r] = reg[r],
           client'[r] \in {"off", "connect"}, stream'[r] = None, tick'[r] <= Interval,
           proc'[r] = "down" => client'[r] = "off"
    PROVE  RunnerOK(r)'
<1>1. ~Live(r)' /\ client'[r] # "send"
    BY Zenon DEF Live
<1>2. LinkOK(r)' /\ ~Connected(r)'
    BY Zenon, <1>1 DEF LinkOK, Connected
<1>3. QED
    BY Zenon, <1>2 DEF RunnerOK, CordonOK, AgeOK

\* What a step leaves alone.
LEMMA QuietStreams ==
    ASSUME UNCHANGED streamVars, \A s \in Streams : StreamOK(s)
    PROVE  (\A r \in Runners : StreamsSame(r)) /\ (\A s \in Streams : StreamOK(s)')
BY Zenon DEF streamVars, StreamsSame, StreamSame, StreamOK

LEMMA QuietEntries == ASSUME UNCHANGED registryVars PROVE \A r \in Runners : EntrySame(r)
BY Zenon DEF registryVars, EntrySame

LEMMA QuietCordons == ASSUME UNCHANGED <<cordoned, changed>> PROVE \A r \in Runners : CordonSame(r)
BY Zenon DEF CordonSame

LEMMA QuietBudget == ASSUME UNCHANGED backend, Fault \/ UNCHANGED faults PROVE BudgetOK
BY Zenon DEF Fault, BudgetOK

LEMMA QuietClients == ASSUME UNCHANGED <<proc, clientVars>> PROVE \A r \in Runners : ClientSame(r)
BY Zenon DEF clientVars, ClientSame

\* g differs from f at x at most.
OnlyAt(f, g, x) == \A y \in DOMAIN f : y # x => g[y] = f[y]

LEMMA SetOnlyAt == ASSUME NEW f, NEW g, NEW x, NEW v, g = f \/ g = Set(f, x, v) PROVE OnlyAt(f, g, x)
BY Zenon DEF Set, OnlyAt

LEMMA SetHere ==
    ASSUME NEW S, NEW T, NEW f \in [S -> T], NEW x \in S, NEW v
    PROVE  Set(f, x, v)[x] = v
BY Zenon DEF Set

LEMMA Domains ==
    ASSUME RegistryTypeOK
    PROVE  /\ DOMAIN client = Runners /\ DOMAIN stream = Runners /\ DOMAIN hb = Runners
           /\ DOMAIN tick = Runners /\ DOMAIN proc = Runners
           /\ DOMAIN cordoned = Runners /\ DOMAIN changed = Runners
           /\ DOMAIN reg = Runners /\ DOMAIN seen = Runners /\ DOMAIN removed = Runners
           /\ DOMAIN handler = Streams /\ DOMAIN owner = Streams /\ DOMAIN committed = Streams
           /\ DOMAIN applied = Streams /\ DOMAIN queue = Streams
BY Zenon DEF RegistryTypeOK

\* A step of the client of q.
LEMMA ClientsElsewhere ==
    ASSUME RegistryTypeOK, NEW q, NEW r \in Runners, q # r,
           OnlyAt(client, client', q), OnlyAt(stream, stream', q), OnlyAt(hb, hb', q),
           OnlyAt(tick, tick', q), OnlyAt(proc, proc', q)
    PROVE  ClientSame(r)
BY Zenon, Domains DEF OnlyAt, ClientSame

LEMMA CordonsElsewhere ==
    ASSUME RegistryTypeOK, NEW q, NEW r \in Runners, q # r,
           OnlyAt(cordoned, cordoned', q), OnlyAt(changed, changed', q)
    PROVE  CordonSame(r)
BY Zenon, Domains DEF OnlyAt, CordonSame

LEMMA EntriesElsewhere ==
    ASSUME RegistryTypeOK, NEW q, NEW r \in Runners, q # r,
           OnlyAt(reg, reg', q), OnlyAt(seen, seen', q), OnlyAt(removed, removed', q)
    PROVE  EntrySame(r)
BY Zenon, Domains DEF OnlyAt, EntrySame

\* A step of stream s.
StreamsOnlyAt(s) ==
    /\ OnlyAt(handler, handler', s) /\ OnlyAt(owner, owner', s) /\ OnlyAt(committed, committed', s)
    /\ OnlyAt(applied, applied', s) /\ OnlyAt(queue, queue', s)

LEMMA StreamsElsewhere ==
    ASSUME RegistryTypeOK, NEW s, NEW z \in Streams, s # z, StreamsOnlyAt(s)
    PROVE  StreamSame(z) /\ (StreamOK(z) => StreamOK(z)')
<1>1. StreamSame(z)
    BY Zenon, Domains DEF StreamsOnlyAt, OnlyAt, StreamSame
<1>2. QED
    BY Zenon, <1>1 DEF StreamSame, StreamOK

ClientsOnlyAt(q) ==
    /\ OnlyAt(client, client', q) /\ OnlyAt(stream, stream', q) /\ OnlyAt(hb, hb', q)
    /\ OnlyAt(tick, tick', q) /\ OnlyAt(proc, proc', q)

CordonsOnlyAt(q) == OnlyAt(cordoned, cordoned', q) /\ OnlyAt(changed, changed', q)

Kept == (\A s \in Streams : StreamOK(s)') /\ (\A r \in Runners : RunnerOK(r)')

\* A step of one runner, apart from its streams and its entry, has to look after that
\* runner alone.
LEMMA OneRunner ==
    ASSUME RegistryInv, NEW q \in Runners, ClientsOnlyAt(q), CordonsOnlyAt(q),
           UNCHANGED <<streamVars, registryVars>>, BudgetOK, RunnerOK(q)'
    PROVE  Kept
<1>1. RegistryTypeOK /\ \A r \in Runners : RunnerOK(r)
    BY Zenon DEF RegistryInv
<1>2. \A s \in Streams : StreamOK(s)'
    BY Zenon, QuietStreams DEF RegistryInv
<1>3. ASSUME NEW r \in Runners, r # q PROVE RunnerOK(r)'
    <2>1. ClientSame(r)
        BY Zenon, <1>1, <1>3, ClientsElsewhere DEF ClientsOnlyAt
    <2>2. CordonSame(r)
        BY Zenon, <1>1, <1>3, CordonsElsewhere DEF CordonsOnlyAt
    <2>3. StreamsSame(r) /\ EntrySame(r)
        BY Zenon, QuietStreams, QuietEntries DEF RegistryInv
    <2>4. QED
        BY Zenon, <1>1, <2>1, <2>2, <2>3, UndisturbedKeeps DEF Undisturbed
<1>4. QED
    BY Zenon, <1>2, <1>3 DEF Kept

LEMMA ClientStopsAt ==
    ASSUME NEW r, ClientStops(r) \/ Disconnects(r)
    PROVE  /\ OnlyAt(client, client', r) /\ OnlyAt(stream, stream', r) /\ OnlyAt(hb, hb', r)
           /\ OnlyAt(tick, tick', r)
<1>1. \E v : client' = Set(client, r, v)
    BY Zenon DEF ClientStops, Disconnects
<1>2. stream' = Set(stream, r, None) /\ hb' = Set(hb, r, None) /\ tick' = Set(tick, r, 0)
    BY Zenon DEF ClientStops, Disconnects
<1>3. QED
    BY Zenon, <1>1, <1>2, SetOnlyAt

LEMMA ClientStopsHere ==
    ASSUME RegistryTypeOK, NEW r \in Runners, ClientStops(r) \/ Disconnects(r)
    PROVE  /\ client'[r] \in {"off", "connect"} /\ (ClientStops(r) => client'[r] = "off")
           /\ stream'[r] = None /\ tick'[r] <= Interval
<1>1. /\ client' = Set(client, r, "off") \/ client' = Set(client, r, "connect")
      /\ ClientStops(r) => client' = Set(client, r, "off")
    BY Zenon DEF ClientStops, Disconnects
<1>2. client'[r] \in {"off", "connect"} /\ (ClientStops(r) => client'[r] = "off")
    BY Zenon, <1>1 DEF RegistryTypeOK, Set
<1>3. stream' = Set(stream, r, None) /\ tick' = Set(tick, r, 0)
    BY Zenon DEF ClientStops, Disconnects
<1>4. stream'[r] = None /\ tick'[r] = 0
    BY Zenon, <1>3 DEF RegistryTypeOK, Set
<1>5. 0 <= Interval
    BY SMT, Bounds
<1>6. QED
    BY Zenon, <1>2, <1>4, <1>5

LEMMA StartKeeps ==
    ASSUME RegistryInv, UNCHANGED backend, NEW r \in Runners, Start(r)
    PROVE  Kept
<1>1. RegistryTypeOK /\ LinkOK(r) /\ AgeOK(r)
    BY Zenon DEF RegistryInv, RunnerOK
<1>2. /\ proc[r] = "down" /\ proc' = Set(proc, r, "starting") /\ client' = Set(client, r, "connect")
      /\ UNCHANGED <<stream, hb, tick, cordoned, changed, streamVars, registryVars, faults>>
    BY Zenon DEF Start
<1>3. ClientsOnlyAt(r) /\ CordonsOnlyAt(r) /\ BudgetOK
    BY Zenon, <1>2, SetOnlyAt, QuietBudget DEF ClientsOnlyAt, CordonsOnlyAt
<1>4. client'[r] = "connect" /\ proc'[r] = "starting"
    BY Zenon, <1>1, <1>2 DEF RegistryTypeOK, Set
<1>5. client[r] = "off" /\ stream'[r] = None
    BY Zenon, <1>1, <1>2 DEF LinkOK, Live
<1>6. tick'[r] <= Interval /\ reg'[r] = reg[r]
    BY Zenon, <1>1, <1>2 DEF AgeOK, registryVars
<1>7. RunnerOK(r)'
    BY Zenon, <1>1, <1>4, <1>5, <1>6, StreamlessKeeps
<1>8. QED
    BY Zenon, <1>2, <1>3, <1>7, OneRunner

LEMMA ListenKeeps ==
    ASSUME RegistryInv, UNCHANGED backend, NEW r \in Runners, Listen(r) \/ Prepare(r)
    PROVE  Kept
<1>1. RegistryTypeOK /\ RunnerOK(r)
    BY Zenon DEF RegistryInv
<1>2. /\ proc' = Set(proc, r, "serving") \/ UNCHANGED proc
      /\ UNCHANGED <<clientVars, cordoned, changed, streamVars, registryVars, faults>>
    BY Zenon DEF Listen, Prepare
<1>3. ClientsOnlyAt(r) /\ CordonsOnlyAt(r) /\ BudgetOK
    BY Zenon, <1>2, SetOnlyAt, QuietBudget DEF ClientsOnlyAt, CordonsOnlyAt, clientVars
<1>4. proc'[r] = "down" => proc[r] = "down"
    BY Zenon, <1>1, <1>2 DEF RegistryTypeOK, Set
<1>5. ClientSame(r)
    BY Zenon, <1>2, <1>4 DEF clientVars, ClientSame
<1>6. StreamsSame(r) /\ EntrySame(r) /\ CordonSame(r)
    BY Zenon, <1>2, QuietStreams, QuietEntries, QuietCordons DEF RegistryInv
<1>7. RunnerOK(r)'
    BY Zenon, <1>1, <1>3, <1>5, <1>6, UndisturbedKeeps DEF Undisturbed
<1>8. QED
    BY Zenon, <1>2, <1>3, <1>7, OneRunner

\* The client is off, or has lost its stream, after each of these.
LEMMA ClientGoneKeeps ==
    ASSUME RegistryInv, UNCHANGED <<backend, streamVars, registryVars>>, NEW r \in Runners, NEW p,
           proc' = proc \/ proc' = Set(proc, r, p), CordonsOnlyAt(r), Fault \/ UNCHANGED faults,
           ClientStops(r) \/ (Disconnects(r) /\ Live(r) /\ UNCHANGED proc)
    PROVE  Kept
<1>1. RegistryTypeOK /\ LinkOK(r) /\ AgeOK(r)
    BY Zenon DEF RegistryInv, RunnerOK
<1>2. ClientsOnlyAt(r) /\ BudgetOK
    BY Zenon, ClientStopsAt, SetOnlyAt, QuietBudget DEF ClientsOnlyAt
<1>3. client'[r] \in {"off", "connect"} /\ stream'[r] = None /\ tick'[r] <= Interval
    BY Zenon, <1>1, ClientStopsHere
<1>4. proc'[r] = "down" => client'[r] = "off"
    <2>1. CASE ClientStops(r)
        BY Zenon, <1>1, <2>1, ClientStopsHere
    <2>2. CASE Disconnects(r) /\ Live(r) /\ UNCHANGED proc
        BY Zenon, <1>1, <2>2 DEF LinkOK, Live
    <2>3. QED
        BY Zenon, <2>1, <2>2
<1>5. RunnerOK(r)'
    BY Zenon, <1>1, <1>3, <1>4, StreamlessKeeps DEF registryVars
<1>6. QED
    BY Zenon, <1>2, <1>5, OneRunner

LEMMA TerminateKeeps ==
    ASSUME RegistryInv, UNCHANGED backend, NEW r \in Runners, Terminate(r)
    PROVE  Kept
<1>1. /\ proc' = Set(proc, r, "draining") /\ Fault /\ ClientStops(r)
      /\ UNCHANGED <<cordoned, changed, streamVars, registryVars>>
    BY Zenon DEF Terminate
<1>2. CordonsOnlyAt(r)
    BY Zenon, <1>1 DEF CordonsOnlyAt, OnlyAt
<1>3. QED
    BY Zenon, <1>1, <1>2, ClientGoneKeeps

LEMMA StreamBreaksKeeps ==
    ASSUME RegistryInv, UNCHANGED backend, NEW r \in Runners, StreamBreaks(r)
    PROVE  Kept
<1>1. /\ UNCHANGED proc /\ Fault /\ Disconnects(r) /\ Live(r)
      /\ UNCHANGED <<cordoned, changed, streamVars, registryVars>>
    BY Zenon DEF StreamBreaks, processVars
<1>2. CordonsOnlyAt(r)
    BY Zenon, <1>1 DEF CordonsOnlyAt, OnlyAt
<1>3. QED
    BY Zenon, <1>1, <1>2, ClientGoneKeeps

LEMMA ProcessEndsKeeps ==
    ASSUME RegistryInv, NEW r \in Runners, ShutDown(r) \/ Crash(r)
    PROVE  Kept
<1>1. /\ UNCHANGED <<backend, streamVars, registryVars>> /\ (Fault \/ UNCHANGED faults)
      /\ proc' = Set(proc, r, "down") /\ ClientStops(r)
      /\ cordoned' = Set(cordoned, r, FALSE) /\ changed' = Set(changed, r, FALSE)
    BY Zenon DEF ShutDown, Crash, ProcessEnds
<1>2. CordonsOnlyAt(r)
    BY Zenon, <1>1, SetOnlyAt DEF CordonsOnlyAt
<1>3. QED
    BY Zenon, <1>1, <1>2, ClientGoneKeeps

LEMMA SetCordonKeeps ==
    ASSUME RegistryInv, UNCHANGED backend, NEW r \in Runners, NEW v \in BOOLEAN, HandleSetRunnerCordon(r, v)
    PROVE  Kept
<1>1. RegistryTypeOK /\ LinkOK(r) /\ AgeOK(r)
    BY Zenon DEF RegistryInv, RunnerOK
<1>2. /\ cordoned[r] # v /\ cordoned' = Set(cordoned, r, v)
      /\ changed' = Set(changed, r, changed[r] \/ cordoned[r] # v)
      /\ UNCHANGED <<proc, clientVars, streamVars, registryVars, faults>>
    BY Zenon DEF HandleSetRunnerCordon, SetCordon
<1>3. ClientsOnlyAt(r) /\ BudgetOK
    BY Zenon, <1>2, QuietBudget DEF ClientsOnlyAt, OnlyAt, clientVars
<1>4. CordonsOnlyAt(r)
    BY Zenon, <1>2, SetOnlyAt DEF CordonsOnlyAt
<1>5. changed'[r]
    BY Zenon, <1>1, <1>2 DEF RegistryTypeOK, Set
<1>6. ClientSame(r) /\ HeldSame(r) /\ EntrySame(r)
    BY Zenon, <1>1, <1>2, QuietClients, QuietStreams, StreamsSameHeld, QuietEntries DEF RegistryInv
<1>7. LinkOK(r)' /\ AgeOK(r)'
    BY Zenon, <1>1, <1>3, <1>6, ClientLink, SameAge
<1>8. RunnerOK(r)'
    BY Zenon, <1>5, <1>7 DEF RunnerOK, CordonOK
<1>9. QED
    BY Zenon, <1>2, <1>3, <1>4, <1>8, OneRunner

\* A client that is about to send a heartbeat: what counts is in that heartbeat, and the
\* entry may age until it is applied.
LEMMA SendingKeeps ==
    ASSUME RegistryInv, NEW r \in Runners, Live(r), client'[r] \in {"compose", "send"},
           client'[r] = "send" => hb'[r] # None /\ hb'[r].cordoned = cordoned'[r],
           UNCHANGED <<proc, stream, streamVars, registryVars>>, tick'[r] <= Interval, BudgetOK
    PROVE  RunnerOK(r)'
<1>1. RegistryTypeOK /\ LinkOK(r) /\ AgeOK(r)
    BY Zenon DEF RegistryInv, RunnerOK
<1>2. Live(r)' /\ client'[r] # "select" /\ client[r] # "off"
    BY Zenon DEF Live
<1>3. LinkOK(r)'
    BY Zenon, <1>1, <1>2 DEF LinkOK, streamVars
<1>4. CordonOK(r)'
    BY Zenon, <1>2 DEF CordonOK
<1>5. ASSUME Connected(r)', applied'[stream'[r]]
      PROVE  IF backend' = "memory" THEN MemoryAge(r)' ELSE PostgresAge(r)'
    <2>1. Connected(r) /\ applied[stream[r]] /\ ~AtRest(r)' /\ backend' = backend
        BY Zenon, <1>2, <1>5 DEF Connected, AtRest, streamVars, BudgetOK
    <2>2. CASE backend = "memory"
        BY Zenon, <1>1, <2>1, <2>2 DEF AgeOK, MemoryAge, registryVars
    <2>3. CASE backend # "memory"
        <3>1. PostgresAge(r) /\ seen'[r] = seen[r]
            BY Zenon, <1>1, <2>1, <2>3 DEF AgeOK, registryVars
        <3>2. QED
            BY Zenon, <1>1, <2>1, <2>3, <3>1, SamePostgresAge
    <2>4. QED
        BY Zenon, <2>2, <2>3
<1>6. AgeOK(r)'
    BY Zenon, <1>1, <1>5 DEF AgeOK, registryVars, BudgetOK
<1>7. QED
    BY Zenon, <1>3, <1>4, <1>6 DEF RunnerOK

LEMMA ComposeKeeps ==
    ASSUME RegistryInv, UNCHANGED backend, NEW r \in Runners, Compose(r)
    PROVE  Kept
<1>1. RegistryTypeOK /\ AgeOK(r) /\ Live(r)
    BY Zenon DEF RegistryInv, RunnerOK, Compose, Live
<1> DEFINE h == [healthy |-> ready[r], cordoned |-> cordoned[r], used |-> Used(r)]
<1>2. /\ hb' = Set(hb, r, h) /\ client' = Set(client, r, "send")
      /\ UNCHANGED <<proc, cordoned, changed, stream, tick, streamVars, registryVars, faults>>
    BY Zenon DEF Compose, processVars
<1>3. h \in Heartbeat /\ h.cordoned = cordoned[r] /\ h # None
    <2>1. Used(r) \in 0 .. Cardinality(Sandboxes)
        BY Zenon, <1>1, RegistryTypeParts, UsedType
    <2>2. h \in Heartbeat
        BY Zenon, <1>1, <2>1 DEF RegistryTypeOK, Heartbeat
    <2>3. QED
        BY Zenon, <2>2, RegistryAssumption
<1> HIDE DEF h
<1>4. ClientsOnlyAt(r) /\ CordonsOnlyAt(r) /\ BudgetOK
    BY Zenon, <1>2, SetOnlyAt, QuietBudget DEF ClientsOnlyAt, CordonsOnlyAt
<1>5. client'[r] = "send" /\ hb'[r] = h
    BY Zenon, <1>1, <1>2 DEF RegistryTypeOK, Set
<1>6. tick'[r] <= Interval /\ cordoned'[r] = cordoned[r]
    BY Zenon, <1>1, <1>2 DEF AgeOK
<1>7. RunnerOK(r)'
    BY Zenon, <1>1, <1>2, <1>3, <1>4, <1>5, <1>6, SendingKeeps
<1>8. QED
    BY Zenon, <1>2, <1>4, <1>7, OneRunner

LEMMA SelectKeeps ==
    ASSUME RegistryInv, UNCHANGED backend, NEW r \in Runners, Ticked(r) \/ CordonChanged(r) \/ BecameReady(r)
    PROVE  Kept
<1>1. RegistryTypeOK /\ AgeOK(r)
    BY Zenon DEF RegistryInv, RunnerOK
<1>2. client[r] = "select" /\ client' = Set(client, r, "compose")
    BY Zenon DEF Ticked, TickDue, CordonChanged, BecameReady
<1>3. tick' = Set(tick, r, 0) \/ tick' = tick
    BY Zenon DEF Ticked, CordonChanged, BecameReady
<1>4. changed' = Set(changed, r, FALSE) \/ changed' = changed
    BY Zenon DEF Ticked, CordonChanged, BecameReady, processVars
<1>5. UNCHANGED <<proc, cordoned, stream, hb, streamVars, registryVars, faults>>
    BY Zenon DEF Ticked, CordonChanged, BecameReady, processVars
<1>6. ClientsOnlyAt(r)
    BY Zenon, <1>2, <1>3, <1>5, SetOnlyAt DEF ClientsOnlyAt
<1>7. CordonsOnlyAt(r) /\ BudgetOK
    BY Zenon, <1>4, <1>5, SetOnlyAt, QuietBudget DEF CordonsOnlyAt
<1>8. client'[r] = "compose" /\ Live(r)
    BY Zenon, <1>1, <1>2 DEF RegistryTypeOK, Set, Live
<1>9. tick'[r] <= Interval
    <2>1. tick'[r] = 0 \/ tick'[r] = tick[r]
        BY Zenon, <1>1, <1>3 DEF RegistryTypeOK, Set
    <2>2. 0 <= Interval
        BY SMT, Bounds
    <2>3. QED
        BY Zenon, <1>1, <2>1, <2>2 DEF AgeOK
<1>10. RunnerOK(r)'
    BY Zenon, <1>5, <1>7, <1>8, <1>9, SendingKeeps
<1>11. QED
    BY Zenon, <1>5, <1>6, <1>7, <1>10, OneRunner

EntriesOnlyAt(q) ==
    OnlyAt(reg, reg', q) /\ OnlyAt(seen, seen', q) /\ OnlyAt(removed, removed', q)

\* The same for a step on a stream of one runner, or on a free one.
LEMMA OneStream ==
    ASSUME RegistryInv, NEW q \in Runners, NEW s \in Streams, owner[s] = q \/ owner[s] = None,
           StreamsOnlyAt(s), ClientsOnlyAt(q), CordonsOnlyAt(q), EntriesOnlyAt(q), BudgetOK,
           StreamOK(s)', RunnerOK(q)'
    PROVE  Kept
<1>1. RegistryTypeOK /\ (\A r \in Runners : RunnerOK(r)) /\ (\A z \in Streams : StreamOK(z))
    BY Zenon DEF RegistryInv
<1>2. ASSUME NEW z \in Streams, z # s PROVE StreamSame(z) /\ StreamOK(z)'
    BY Zenon, <1>1, <1>2, StreamsElsewhere
<1>3. ASSUME NEW r \in Runners, r # q PROVE RunnerOK(r)'
    <2>1. ClientSame(r)
        BY Zenon, <1>1, <1>3, ClientsElsewhere DEF ClientsOnlyAt
    <2>2. CordonSame(r)
        BY Zenon, <1>1, <1>3, CordonsElsewhere DEF CordonsOnlyAt
    <2>3. EntrySame(r)
        BY Zenon, <1>1, <1>3, EntriesElsewhere DEF EntriesOnlyAt
    <2>4. None \notin Runners
        BY Zenon, RegistryAssumption
    <2>5. StreamsSame(r)
        BY Zenon, <1>2, <1>3, <2>4 DEF StreamsSame
    <2>6. QED
        BY Zenon, <1>1, <2>1, <2>2, <2>3, <2>5, UndisturbedKeeps DEF Undisturbed
<1>4. QED
    BY Zenon, <1>2, <1>3 DEF Kept

LEMMA QuietRunner ==
    ASSUME NEW q
    PROVE  /\ UNCHANGED <<client, stream, hb, tick, proc>> => ClientsOnlyAt(q)
           /\ UNCHANGED <<cordoned, changed>> => CordonsOnlyAt(q)
           /\ UNCHANGED registryVars => EntriesOnlyAt(q)
BY Zenon DEF ClientsOnlyAt, CordonsOnlyAt, EntriesOnlyAt, OnlyAt, registryVars

LEMMA ConnectKeepsRunners ==
    ASSUME RegistryInv, UNCHANGED backend, NEW r \in Runners, Connect(r)
    PROVE  Kept
<1>1. RegistryTypeOK /\ LinkOK(r) /\ AgeOK(r)
    BY Zenon DEF RegistryInv, RunnerOK
<1>2. PICK s \in Streams : /\ handler[s] = "free" /\ handler' = Set(handler, s, "open")
                           /\ owner' = Set(owner, s, r) /\ stream' = Set(stream, r, s)
    BY Zenon DEF Connect
<1>3. /\ client[r] = "connect" /\ client' = Set(client, r, "compose") /\ tick' = Set(tick, r, 0)
      /\ UNCHANGED <<proc, cordoned, changed, hb, committed, applied, queue, registryVars, faults>>
    BY Zenon DEF Connect, processVars
<1>4. owner[s] = None /\ ~applied[s]
    BY Zenon, <1>2 DEF RegistryInv, StreamOK
<1>5. StreamsOnlyAt(s)
    BY Zenon, <1>2, <1>3, SetOnlyAt DEF StreamsOnlyAt
<1>6. ClientsOnlyAt(r)
    BY Zenon, <1>2, <1>3, SetOnlyAt DEF ClientsOnlyAt
<1>7. CordonsOnlyAt(r) /\ EntriesOnlyAt(r) /\ BudgetOK
    BY Zenon, <1>3, QuietRunner, QuietBudget
<1>8. handler'[s] = "open" /\ owner'[s] = r /\ applied'[s] = applied[s]
    BY Zenon, <1>1, <1>2, <1>3 DEF RegistryTypeOK, Set
<1>9. client'[r] = "compose" /\ stream'[r] = s /\ tick'[r] = 0
    BY Zenon, <1>1, <1>2, <1>3 DEF RegistryTypeOK, Set
<1>10. StreamOK(s)'
    BY Zenon, <1>8 DEF StreamOK
<1>11. RunnerOK(r)'
    <2>1. Live(r)' /\ proc'[r] # "down"
        BY Zenon, <1>1, <1>3, <1>9 DEF Live, LinkOK
    <2>2. LinkOK(r)'
        BY Zenon, <1>8, <1>9, <2>1 DEF LinkOK
    <2>3. CordonOK(r)'
        BY Zenon, <1>9 DEF CordonOK
    <2>4. 0 <= Interval
        BY SMT, Bounds
    <2>5. AgeOK(r)'
        BY Zenon, <1>1, <1>3, <1>4, <1>8, <1>9, <2>4 DEF AgeOK, registryVars
    <2>6. QED
        BY Zenon, <2>2, <2>3, <2>5 DEF RunnerOK
<1>12. QED
    BY Zenon, <1>4, <1>5, <1>6, <1>7, <1>10, <1>11, OneStream

LEMMA ResetStreamAt ==
    ASSUME RegistryTypeOK, NEW s \in Streams, ResetStream(s)
    PROVE  StreamsOnlyAt(s) /\ StreamOK(s)' /\ handler'[s] = "free" /\ owner'[s] = None
<1>1. StreamsOnlyAt(s)
    BY Zenon, SetOnlyAt DEF ResetStream, StreamsOnlyAt
<1>2. handler'[s] = "free" /\ owner'[s] = None /\ applied'[s] = FALSE
    BY Zenon DEF RegistryTypeOK, ResetStream, Set
<1>3. QED
    BY Zenon, <1>1, <1>2 DEF StreamOK

LEMMA NoticesRestartKeepsRunners ==
    ASSUME RegistryInv, UNCHANGED backend, NEW r \in Runners, NoticesRestart(r)
    PROVE  Kept
<1>1. RegistryTypeOK /\ LinkOK(r) /\ AgeOK(r)
    BY Zenon DEF RegistryInv, RunnerOK
<1>2. PICK s : s = stream[r]
    OBVIOUS
<1>3. /\ Live(r) /\ Disconnects(r) /\ ResetStream(s)
      /\ UNCHANGED <<proc, cordoned, changed, registryVars, faults>>
    BY Zenon, <1>2 DEF NoticesRestart, processVars
<1>4. s \in Streams /\ owner[s] = r
    BY Zenon, <1>1, <1>2, <1>3 DEF LinkOK
<1>5. StreamsOnlyAt(s) /\ StreamOK(s)'
    BY Zenon, <1>1, <1>3, <1>4, ResetStreamAt
<1>6. ClientsOnlyAt(r)
    BY Zenon, <1>3, ClientStopsAt, SetOnlyAt DEF ClientsOnlyAt
<1>7. CordonsOnlyAt(r) /\ EntriesOnlyAt(r) /\ BudgetOK
    BY Zenon, <1>3, QuietRunner, QuietBudget
<1>8. client'[r] \in {"off", "connect"} /\ stream'[r] = None /\ tick'[r] <= Interval
    BY Zenon, <1>1, <1>3, ClientStopsHere
<1>9. proc'[r] # "down"
    BY Zenon, <1>1, <1>3 DEF LinkOK, Live
<1>10. RunnerOK(r)'
    BY Zenon, <1>1, <1>3, <1>8, <1>9, StreamlessKeeps DEF registryVars
<1>11. QED
    BY Zenon, <1>4, <1>5, <1>6, <1>7, <1>10, OneStream

\* The ends of a queue of heartbeats.
LEMMA AppendLast ==
    ASSUME NEW q \in Seq(Heartbeat), NEW h \in Heartbeat, NEW p, p = Append(q, h)
    PROVE  p # <<>> /\ p[Len(p)] = h
BY SMT

LEMMA TailLast ==
    ASSUME NEW q \in Seq(Heartbeat), q # <<>>, NEW p, p = Tail(q)
    PROVE  /\ p # <<>> => p[Len(p)] = q[Len(q)]
           /\ p = <<>> => Head(q) = q[Len(q)]
<1>1. p # <<>> => p[Len(p)] = q[Len(q)]
    BY SMT
<1>2. Len(p) = Len(q) - 1 /\ Len(q) \in Nat
    BY SMT
<1>3. Len(<<>>) = 0 /\ \A n \in Nat : n - 1 = 0 => n = 1
    BY SMT
<1>4. ASSUME p = <<>> PROVE Len(q) = 1
    BY Zenon, <1>2, <1>3, <1>4
<1>5. Head(q) = q[1]
    BY SMT
<1>6. QED
    BY Zenon, <1>1, <1>4, <1>5

LEMMA SendKeepsRunners ==
    ASSUME RegistryInv, UNCHANGED backend, NEW r \in Runners, Send(r)
    PROVE  Kept
<1>1. RegistryTypeOK /\ LinkOK(r) /\ CordonOK(r) /\ AgeOK(r)
    BY Zenon DEF RegistryInv, RunnerOK
<1>2. PICK s : s = stream[r]
    OBVIOUS
<1>3. /\ client[r] = "send" /\ handler[s] = "open"
      /\ queue' = Set(queue, s, Append(queue[s], hb[r])) /\ hb' = Set(hb, r, None)
      /\ client' = Set(client, r, "select")
      /\ UNCHANGED <<proc, cordoned, changed, stream, tick, handler, owner, committed, applied,
                     registryVars, faults>>
    BY Zenon, <1>2 DEF Send, processVars
<1>4. Live(r) /\ Connected(r)
    BY Zenon, <1>2, <1>3 DEF Live, Connected
<1>5. s \in Streams /\ owner[s] = r
    BY Zenon, <1>1, <1>2, <1>4 DEF LinkOK
<1>6. StreamsOnlyAt(s)
    BY Zenon, <1>3, SetOnlyAt DEF StreamsOnlyAt
<1>7. ClientsOnlyAt(r)
    BY Zenon, <1>3, SetOnlyAt DEF ClientsOnlyAt
<1>8. CordonsOnlyAt(r) /\ EntriesOnlyAt(r) /\ BudgetOK
    BY Zenon, <1>3, QuietRunner, QuietBudget
<1>9. StreamOK(s)'
    BY Zenon, <1>3, <1>5 DEF RegistryInv, StreamOK
<1>10. queue[s] \in Seq(Heartbeat) /\ hb[r] \in Heartbeat
    BY Zenon, <1>1, <1>3, <1>5 DEF RegistryTypeOK, LinkOK
<1>11. queue'[s] = Append(queue[s], hb[r]) /\ client'[r] = "select" /\ stream'[r] = s
    BY Zenon, <1>1, <1>2, <1>3, <1>5 DEF RegistryTypeOK, Set
<1>12. queue'[s] # <<>> /\ queue'[s][Len(queue'[s])] = hb[r]
    <2>1. PICK p : p = queue'[s]
        BY Zenon
    <2>2. p = Append(queue[s], hb[r])
        BY Zenon, <1>11, <2>1
    <2>3. p # <<>> /\ p[Len(p)] = hb[r]
        BY Zenon, <1>10, <2>2, AppendLast
    <2>4. QED
        BY Zenon, <2>1, <2>3
<1>13. LinkOK(r)'
    BY Zenon, <1>1, <1>3, <1>4, <1>11 DEF LinkOK, Live
<1>14. CordonOK(r)'
    <2> SUFFICES ASSUME backend' = "memory", ~changed'[r] PROVE CordonOK(r)'
        BY Zenon DEF CordonOK
    <2>1. hb[r].cordoned = cordoned'[r]
        BY Zenon, <1>1, <1>3, <1>4 DEF CordonOK
    <2>2. QED
        BY Zenon, <1>11, <1>12, <2>1 DEF CordonOK
<1>15. AgeOK(r)'
    <2>1. ~AtRest(r)'
        BY Zenon, <1>11, <1>12 DEF AtRest
    <2>2. ASSUME applied'[stream'[r]]
          PROVE  IF backend' = "memory" THEN MemoryAge(r)' ELSE PostgresAge(r)'
        <3>1. applied[stream[r]]
            BY Zenon, <1>3, <2>2
        <3>2. CASE backend = "memory"
            BY Zenon, <1>1, <1>3, <1>4, <2>1, <3>1, <3>2 DEF AgeOK, MemoryAge, registryVars
        <3>3. CASE backend # "memory"
            <4>1. PostgresAge(r) /\ seen'[r] = seen[r]
                BY Zenon, <1>1, <1>3, <1>4, <3>1, <3>3 DEF AgeOK, registryVars
            <4>2. QED
                BY Zenon, <1>1, <1>8, <2>1, <3>3, <4>1, SamePostgresAge
        <3>4. QED
            BY Zenon, <3>2, <3>3
    <2>3. QED
        BY Zenon, <1>1, <1>3, <2>2 DEF AgeOK, registryVars
<1>16. QED
    BY Zenon, <1>5, <1>6, <1>7, <1>8, <1>9, <1>13, <1>14, <1>15, OneStream DEF RunnerOK

\* What a handler that receives a heartbeat changes, apart from the entry.
LEMMA ReceiveEffect ==
    ASSUME RegistryInv, NEW s \in Streams, Receive(s)
    PROVE  /\ owner[s] \in Runners /\ handler[s] = "open" /\ queue[s] # <<>>
           /\ queue[s] \in Seq(Heartbeat) /\ Head(queue[s]) \in Heartbeat
           /\ committed'[s] /\ queue'[s] = Tail(queue[s])
           /\ committed' = Set(committed, s, TRUE) /\ queue' = Set(queue, s, Tail(queue[s]))
           /\ UNCHANGED <<proc, cordoned, changed, client, stream, hb, tick, handler, owner>>
<1>1. /\ handler[s] = "open" /\ queue[s] # <<>>
      /\ committed' = Set(committed, s, TRUE) /\ queue' = Set(queue, s, Tail(queue[s]))
      /\ UNCHANGED <<proc, cordoned, changed, client, stream, hb, tick, handler, owner>>
    BY Zenon DEF Receive, processVars, clientVars
<1>2. owner[s] \in Runners /\ queue[s] \in Seq(Heartbeat)
    BY Zenon, <1>1 DEF RegistryInv, StreamOK, RegistryTypeOK
<1>3. Head(queue[s]) \in Heartbeat
    BY SMT, <1>1, <1>2
<1>4. committed'[s] /\ queue'[s] = Tail(queue[s])
    BY Zenon, <1>1 DEF RegistryInv, RegistryTypeOK, Set
<1>5. QED
    BY Zenon, <1>1, <1>2, <1>3, <1>4

LEMMA ReceivedCordon ==
    ASSUME RegistryInv, UNCHANGED backend, NEW s \in Streams, NEW r \in Runners, r = owner[s], Receive(s),
           reg'[r] = Head(queue[s])
    PROVE  CordonOK(r)'
<1>1. CordonOK(r)
    BY Zenon DEF RegistryInv, RunnerOK
<1>2. /\ handler[s] = "open" /\ queue[s] # <<>> /\ queue[s] \in Seq(Heartbeat)
      /\ committed'[s] /\ queue'[s] = Tail(queue[s]) /\ queue' = Set(queue, s, Tail(queue[s]))
      /\ UNCHANGED <<cordoned, changed, client, stream, hb, handler, owner>>
    BY Zenon, ReceiveEffect
<1> SUFFICES ASSUME backend' = "memory", Connected(r)', ~changed'[r] PROVE CordonOK(r)'
    BY Zenon DEF CordonOK
<1>3. backend = "memory" /\ Connected(r) /\ ~changed[r]
    BY Zenon, <1>2 DEF Connected, Live
<1>4. client'[r] = "send" => hb'[r].cordoned = cordoned'[r]
    BY Zenon, <1>1, <1>2, <1>3 DEF CordonOK
<1>5. CASE s = stream[r]
    <2>1. PICK p : p = queue'[s]
        BY Zenon
    <2>2. PICK q : q = queue[s]
        BY Zenon
    <2>3. /\ p # <<>> => p[Len(p)] = q[Len(q)]
          /\ p = <<>> => Head(q) = q[Len(q)]
        BY Zenon, <1>2, <2>1, <2>2, TailLast
    <2>4. client[r] = "select" => q[Len(q)].cordoned = cordoned[r]
        BY Zenon, <1>1, <1>2, <1>3, <1>5, <2>2 DEF CordonOK
    <2>5. client'[r] = "select" /\ p # <<>> => p[Len(p)].cordoned = cordoned'[r]
        BY Zenon, <1>2, <2>3, <2>4
    <2>6. client'[r] = "select" /\ p = <<>> => reg'[r].cordoned = cordoned'[r]
        BY Zenon, <1>2, <2>2, <2>3, <2>4
    <2>7. p = queue'[stream'[r]]
        BY Zenon, <1>2, <1>5, <2>1
    <2>8. QED
        BY Zenon, <1>4, <2>5, <2>6, <2>7 DEF CordonOK
<1>6. CASE s # stream[r]
    <2>1. ~Sole(r)'
        BY Zenon, <1>2, <1>6 DEF Sole
    <2>2. PICK z \in Streams : z = stream[r]
        BY Zenon, <1>3 DEF RegistryInv, RunnerOK, LinkOK, Connected
    <2>3. queue'[z] = queue[z]
        BY Zenon, <1>2, <1>6, <2>2 DEF RegistryInv, RegistryTypeOK, Set
    <2>4. client[r] = "select" /\ queue[z] # <<>> => queue[z][Len(queue[z])].cordoned = cordoned[r]
        BY Zenon, <1>1, <1>3, <2>2 DEF CordonOK
    <2>5. client'[r] = "select" /\ queue'[z] # <<>> => queue'[z][Len(queue'[z])].cordoned = cordoned'[r]
        BY Zenon, <1>2, <2>3, <2>4
    <2>6. z = stream'[r]
        BY Zenon, <1>2, <2>2
    <2>7. QED
        BY Zenon, <1>4, <2>1, <2>5, <2>6 DEF CordonOK
<1>7. QED
    BY Zenon, <1>5, <1>6

LEMMA FreshPostgresAge ==
    ASSUME RegistryTypeOK', NEW r \in Runners, seen'[r] = 0
    PROVE  PostgresAge(r)'
<1>1. tick'[r] \in Nat /\ faults' \in 0 .. MaxFaults /\ Interval \in Nat /\ MaxFaults \in Nat
    BY Zenon, Bounds DEF RegistryTypeOK
<1>2. faults' \in Nat
    BY SMT, <1>1
<1>3. faults' * Interval \in Nat /\ (faults' + 1) * Interval \in Nat
    BY Zenon, <1>1, <1>2, OneMoreFault
<1>4. \A a \in Nat, b \in Nat : 0 <= a /\ 0 <= a + b
    BY SMT
<1>5. 0 <= (faults' + 1) * Interval /\ 0 <= faults' * Interval + tick'[r]
    BY Zenon, <1>1, <1>3, <1>4
<1>6. QED
    BY Zenon, <1>5 DEF PostgresAge

\* A heartbeat that is written.
LEMMA ReceivedKeeps ==
    ASSUME RegistryInv, RegistryTypeOK', UNCHANGED backend, NEW s \in Streams, Receive(s),
           Upsert(owner[s], Head(queue[s])), applied' = Set(applied, s, TRUE), UNCHANGED faults
    PROVE  Kept
<1>1. PICK r \in Runners : r = owner[s]
    BY Zenon, ReceiveEffect
<1>2. RegistryTypeOK /\ LinkOK(r) /\ AgeOK(r)
    BY Zenon DEF RegistryInv, RunnerOK
<1>3. /\ handler[s] = "open" /\ Head(queue[s]) \in Heartbeat
      /\ committed' = Set(committed, s, TRUE) /\ queue' = Set(queue, s, Tail(queue[s]))
      /\ UNCHANGED <<proc, cordoned, changed, client, stream, hb, tick, handler, owner>>
    BY Zenon, ReceiveEffect
<1>4. /\ reg' = Set(reg, r, Head(queue[s])) /\ seen' = Set(seen, r, 0) /\ removed' = Set(removed, r, None)
    BY Zenon, <1>1 DEF Upsert
<1>5. reg'[r] = Head(queue[s]) /\ seen'[r] = 0
    <2>1. reg \in [Runners -> Heartbeat \cup {None}] /\ seen \in [Runners -> 0 .. MaxAge]
        BY Zenon, <1>2 DEF RegistryTypeOK
    <2>2. PICK h : h = Head(queue[s])
        BY Zenon
    <2>3. reg' = Set(reg, r, h)
        BY Zenon, <1>4, <2>2
    <2>4. reg'[r] = h
        BY Zenon, <2>1, <2>3 DEF Set
    <2>5. seen'[r] = 0
        BY Zenon, <1>4, <2>1 DEF Set
    <2>6. QED
        BY Zenon, <2>2, <2>4, <2>5
<1>6. reg'[r] # None
    BY Zenon, <1>3, <1>5, RegistryAssumption
<1>7. StreamsOnlyAt(s)
    BY Zenon, <1>3, SetOnlyAt DEF StreamsOnlyAt
<1>8. EntriesOnlyAt(r)
    BY Zenon, <1>4, SetOnlyAt DEF EntriesOnlyAt
<1>9. ClientsOnlyAt(r) /\ CordonsOnlyAt(r) /\ BudgetOK
    BY Zenon, <1>3, QuietRunner, QuietBudget
<1>10. StreamOK(s)'
    BY Zenon, <1>1, <1>3 DEF StreamOK
<1>11. LinkOK(r)'
    BY Zenon, <1>2, <1>3 DEF LinkOK, Live
<1>12. CordonOK(r)'
    BY Zenon, <1>1, <1>5, ReceivedCordon
<1>13. AgeOK(r)'
    <2>1. MemoryAge(r)' /\ PostgresAge(r)'
        BY Zenon, <1>5, <1>6, FreshPostgresAge DEF MemoryAge
    <2>2. QED
        BY Zenon, <1>2, <1>3, <1>6, <2>1 DEF AgeOK
<1>14. QED
    BY Zenon, <1>1, <1>7, <1>8, <1>9, <1>10, <1>11, <1>12, <1>13, OneStream DEF RunnerOK

\* A heartbeat whose write failed: the row is one interval older when the next comes.
LEMMA LostWriteKeeps ==
    ASSUME RegistryInv, UNCHANGED backend, NEW s \in Streams, Receive(s),
           backend = "postgres", Fault, UNCHANGED <<registryVars, applied>>
    PROVE  Kept
<1>1. PICK r \in Runners : r = owner[s]
    BY Zenon, ReceiveEffect
<1>2. RegistryTypeOK /\ LinkOK(r) /\ AgeOK(r)
    BY Zenon DEF RegistryInv, RunnerOK
<1>3. /\ handler[s] = "open"
      /\ committed' = Set(committed, s, TRUE) /\ queue' = Set(queue, s, Tail(queue[s]))
      /\ UNCHANGED <<proc, cordoned, changed, client, stream, hb, tick, handler, owner>>
    BY Zenon, ReceiveEffect
<1>4. StreamsOnlyAt(s)
    BY Zenon, <1>3, SetOnlyAt DEF StreamsOnlyAt
<1>5. ClientsOnlyAt(r) /\ CordonsOnlyAt(r) /\ EntriesOnlyAt(r) /\ BudgetOK
    BY Zenon, <1>3, QuietRunner, QuietBudget
<1>6. StreamOK(s)'
    BY Zenon, <1>1, <1>3 DEF StreamOK
<1>7. LinkOK(r)'
    BY Zenon, <1>2, <1>3 DEF LinkOK, Live
<1>8. CordonOK(r)' /\ backend' # "memory"
    <2>1. backend' # "memory"
        BY Zenon
    <2>2. QED
        BY Zenon, <2>1 DEF CordonOK
<1>9. ASSUME Connected(r)', applied'[stream'[r]]
      PROVE  PostgresAge(r)'
    <2>1. PostgresAge(r)
        BY Zenon, <1>2, <1>3, <1>9 DEF AgeOK, Connected, Live
    <2>2. /\ seen[r] \in Nat /\ tick[r] \in Nat /\ faults \in Nat /\ Interval \in Nat
          /\ faults' = faults + 1 /\ seen'[r] = seen[r] /\ tick'[r] = tick[r]
        BY Zenon, <1>2, <1>3, AgeTypes DEF Fault, registryVars
    <2>3. /\ (faults + 1) * Interval <= (faults' + 1) * Interval
          /\ (faults + 1) * Interval \in Nat /\ (faults' + 1) * Interval \in Nat
        BY Zenon, <2>2, OneMoreFault DEF Fault
    <2>4. seen[r] <= (faults + 1) * Interval
        BY Zenon, <2>1 DEF PostgresAge
    <2>5. seen'[r] <= (faults' + 1) * Interval /\ seen'[r] <= (faults + 1) * Interval + tick'[r]
        BY SMT, <2>2, <2>3, <2>4
    <2>6. QED
        BY Zenon, <2>2, <2>5 DEF PostgresAge
<1>10. AgeOK(r)'
    BY Zenon, <1>2, <1>3, <1>8, <1>9 DEF AgeOK, registryVars
<1>11. QED
    BY Zenon, <1>1, <1>4, <1>5, <1>6, <1>7, <1>8, <1>10, OneStream DEF RunnerOK

LEMMA ReceiveKeepsRunners ==
    ASSUME RegistryInv, RegistryTypeOK', UNCHANGED backend, NEW s \in Streams, Receive(s)
    PROVE  Kept
BY Zenon, ReceivedKeeps, LostWriteKeeps DEF Receive

LEMMA ReturnKeepsRunners ==
    ASSUME RegistryInv, RegistryTypeOK', UNCHANGED backend, NEW s \in Streams, HandlerReturns(s)
    PROVE  Kept
<1>1. /\ handler[s] = "open" /\ stream[owner[s]] # s /\ RemoveOnReturn(s) /\ ResetStream(s)
      /\ UNCHANGED <<proc, cordoned, changed, client, stream, hb, tick, faults>>
    BY Zenon DEF HandlerReturns, Abandoned, processVars, clientVars
<1>2. PICK r \in Runners : r = owner[s]
    BY Zenon, <1>1 DEF RegistryInv, StreamOK
<1>3. RegistryTypeOK /\ LinkOK(r) /\ CordonOK(r) /\ AgeOK(r)
    BY Zenon DEF RegistryInv, RunnerOK
<1>4. StreamsOnlyAt(s) /\ StreamOK(s)' /\ handler'[s] = "free"
    BY Zenon, <1>1, <1>3, ResetStreamAt
<1>5. ASSUME NEW z \in Streams, z # s PROVE StreamSame(z)
    BY Zenon, <1>3, <1>4, <1>5, StreamsElsewhere
<1>6. ClientsOnlyAt(r) /\ CordonsOnlyAt(r) /\ BudgetOK
    BY Zenon, <1>1, QuietRunner, QuietBudget
<1>7. ClientSame(r) /\ CordonSame(r)
    BY Zenon, <1>1 DEF ClientSame, CordonSame
<1>8. HeldSame(r)
    BY Zenon, <1>1, <1>2, <1>3, <1>5 DEF HeldSame, LinkOK
<1>9. LinkOK(r)'
    BY Zenon, <1>3, <1>7, <1>8, ClientLink
<1>10. CASE committed[s] /\ backend = "memory"
    <2>1. reg' = Set(reg, r, None) /\ seen' = Set(seen, r, 0) /\ removed' = Set(removed, r, 0)
        BY Zenon, <1>1, <1>2, <1>10 DEF RemoveOnReturn, Remove
    <2>2. EntriesOnlyAt(r)
        BY Zenon, <2>1, SetOnlyAt DEF EntriesOnlyAt
    <2>3. reg'[r] = None /\ removed'[r] = 0
        <3>1. DOMAIN reg = Runners /\ DOMAIN removed = Runners
            BY Zenon, <1>3, Domains
        <3>2. QED
            BY Zenon, <2>1, <3>1 DEF Set
    <2>4. CordonOK(r)'
        BY Zenon, <1>3, <1>6, <1>7, <1>8, <2>3, SameCordon
    <2>5. tick'[r] \in Nat /\ Interval \in Nat
        BY Zenon, Bounds DEF RegistryTypeOK
    <2>6. 0 <= tick'[r] /\ 0 <= Interval
        BY SMT, <2>5
    <2>7. MemoryAge(r)'
        BY Zenon, <2>3, <2>6 DEF MemoryAge
    <2>8. AgeOK(r)'
        BY Zenon, <1>1, <1>3, <1>10, <2>7 DEF AgeOK
    <2>9. QED
        BY Zenon, <1>2, <1>4, <1>6, <1>9, <2>2, <2>4, <2>8, OneStream DEF RunnerOK
<1>11. CASE ~(committed[s] /\ backend = "memory")
    <2>1. UNCHANGED registryVars
        BY Zenon, <1>1, <1>11 DEF RemoveOnReturn, Remove
    <2>2. EntriesOnlyAt(r) /\ EntrySame(r)
        BY Zenon, <2>1, QuietRunner, QuietEntries
    <2>3. ASSUME backend = "memory", Sole(r)' PROVE Sole(r)
        <3>1. ASSUME NEW z \in Streams, handler[z] = "open", owner[z] = r, committed[z] PROVE z = stream[r]
            <4>1. StreamSame(z)
                BY Zenon, <1>5, <1>11, <2>3, <3>1
            <4>2. QED
                BY Zenon, <1>1, <2>3, <3>1, <4>1 DEF Sole, StreamSame
        <3>2. QED
            BY Zenon, <3>1 DEF Sole
    <2>4. CordonOK(r)'
        BY Zenon, <1>3, <1>6, <1>7, <1>8, <2>2, <2>3, SameCordon DEF EntrySame
    <2>5. AgeOK(r)'
        BY Zenon, <1>3, <1>6, <1>7, <1>8, <2>2, SameAge
    <2>6. QED
        BY Zenon, <1>2, <1>4, <1>6, <1>9, <2>2, <2>4, <2>5, OneStream DEF RunnerOK
<1>12. QED
    BY Zenon, <1>10, <1>11

LEMMA ApiRestartKeepsRunners ==
    ASSUME RegistryInv, UNCHANGED backend, ApiRestart
    PROVE  Kept
<1>1. RegistryTypeOK /\ (\A s \in Streams : StreamOK(s)) /\ (\A r \in Runners : LinkOK(r) /\ AgeOK(r))
    BY Zenon DEF RegistryInv, RunnerOK
<1>2. /\ handler' = [s \in Streams |-> IF handler[s] = "open" /\ ~Abandoned(s) THEN "gone"
                                       ELSE IF handler[s] = "open" THEN "free" ELSE handler[s]]
      /\ owner' = [s \in Streams |-> IF Abandoned(s) THEN None ELSE owner[s]]
      /\ applied' = [s \in Streams |-> FALSE]
      /\ backend = "memory" \/ reg' = reg
      /\ UNCHANGED <<proc, client, stream, hb, tick>>
    BY Zenon DEF ApiRestart, processVars, clientVars, registryVars
<1>3. ASSUME NEW s \in Streams PROVE StreamOK(s)'
    <2>1. StreamOK(s)
        BY Zenon, <1>1
    <2>2. handler'[s] # "open" /\ ~applied'[s]
        BY Zenon, <1>2
    <2>3. ASSUME handler'[s] = "free" PROVE owner'[s] = None
        BY Zenon, <1>2, <2>1, <2>3 DEF Abandoned, StreamOK
    <2>4. QED
        BY Zenon, <2>2, <2>3 DEF StreamOK
<1>4. ASSUME NEW r \in Runners PROVE RunnerOK(r)'
    <2>1. LinkOK(r) /\ AgeOK(r)
        BY Zenon, <1>1
    <2>2. ASSUME Live(r) PROVE stream'[r] \in Streams /\ owner'[stream'[r]] = r /\ handler'[stream'[r]] = "gone"
        <3>1. PICK s \in Streams : s = stream[r] /\ owner[s] = r /\ handler[s] # "free"
            BY Zenon, <2>1, <2>2 DEF LinkOK
        <3>2. ~Abandoned(s) /\ handler[s] \in {"open", "gone"}
            BY Zenon, <1>1, <3>1 DEF Abandoned, RegistryTypeOK
        <3>3. owner'[s] = r /\ handler'[s] = "gone"
            BY Zenon, <1>2, <3>1, <3>2
        <3>4. QED
            BY Zenon, <1>2, <3>1, <3>3
    <2>3. Live(r)' <=> Live(r)
        BY Zenon, <1>2 DEF Live
    <2>4. LinkOK(r)'
        BY Zenon, <1>2, <2>1, <2>2, <2>3 DEF LinkOK
    <2>5. ~Connected(r)'
        BY Zenon, <2>2, <2>3 DEF Connected
    <2>6. AgeOK(r)'
        BY Zenon, <1>2, <2>1, <2>5 DEF AgeOK
    <2>7. QED
        BY Zenon, <2>4, <2>5, <2>6 DEF RunnerOK, CordonOK
<1>5. QED
    BY Zenon, <1>3, <1>4 DEF Kept

\* Time passes only once every client has sent what was due and its heartbeats have been
\* received, so that an entry that is gone, or a row, ages with the client's ticker.
LEMMA ElapseKeepsRunners ==
    ASSUME RegistryInv, UNCHANGED backend, Elapse
    PROVE  Kept
<1>1. RegistryTypeOK
    BY Zenon DEF RegistryInv
<1>2. UNCHANGED <<proc, cordoned, changed, client, stream, hb, streamVars, reg, faults>>
    BY Zenon DEF Elapse, processVars
<1>3. \A s \in Streams : StreamOK(s)'
    BY Zenon, <1>2, QuietStreams DEF RegistryInv
<1>4. ASSUME NEW r \in Runners PROVE RunnerOK(r)'
    <2>1. LinkOK(r) /\ CordonOK(r) /\ AgeOK(r)
        BY Zenon DEF RegistryInv, RunnerOK
    <2>2. LinkOK(r)'
        BY Zenon, <1>2, <2>1 DEF LinkOK, Live, streamVars
    <2>3. CordonOK(r)'
        BY Zenon, <1>2, <2>1 DEF CordonOK, Connected, Live, Sole, streamVars
    <2>4. tick[r] \in Nat /\ seen[r] \in Nat /\ Interval \in Nat /\ (removed[r] # None => removed[r] \in Nat)
        BY Zenon, <1>1, AgeTypes
    <2>5. CASE ~Live(r)
        <3>1. ~Connected(r)' /\ tick'[r] = 0
            BY Zenon, <1>2, <2>5 DEF Connected, Live, Elapse
        <3>2. 0 <= Interval
            BY SMT, <2>4
        <3>3. AgeOK(r)'
            BY Zenon, <1>2, <2>1, <3>1, <3>2 DEF AgeOK
        <3>4. QED
            BY Zenon, <2>2, <2>3, <3>3 DEF RunnerOK
    <2>6. CASE Live(r)
        <3>1. client[r] = "select" /\ ~(tick[r] >= Interval) /\ tick'[r] = tick[r] + 1
              /\ (handler[stream[r]] = "open" => queue[stream[r]] = <<>>)
            BY Zenon, <2>6 DEF Elapse, Settled, TickDue
        <3>2. tick'[r] <= Interval /\ tick'[r] = tick[r] + 1
            BY SMT, <2>4, <3>1
        <3>3. ASSUME Connected(r)', applied'[stream'[r]], backend = "memory" PROVE MemoryAge(r)'
            <4>1. Connected(r) /\ applied[stream[r]]
                BY Zenon, <1>2, <3>3 DEF Connected, Live, streamVars
            <4>2. MemoryAge(r) /\ AtRest(r)
                BY Zenon, <2>1, <3>1, <3>3, <4>1 DEF AgeOK, AtRest, Connected
            <4>3. ASSUME reg'[r] = None, removed'[r] # None
                  PROVE  removed'[r] <= Interval /\ removed'[r] <= tick'[r]
                <5>1. reg[r] = None /\ removed[r] # None /\ removed'[r] = Older(removed[r])
                    BY Zenon, <1>2, <4>3 DEF Elapse
                <5>2. removed[r] <= tick[r] /\ removed[r] \in 0 .. MaxAge
                    BY Zenon, <1>1, <4>2, <5>1 DEF MemoryAge, RegistryTypeOK
                <5>3. Older(removed[r]) <= removed[r] + 1 /\ Older(removed[r]) \in 0 .. MaxAge
                      /\ removed[r] \in Nat /\ MaxAge \in Nat
                    BY Zenon, <5>2, Bounds
                <5>4. \A a, b \in Nat, c \in 0 .. MaxAge : a <= b /\ c <= a + 1 => c <= b + 1
                    BY SMT
                <5>5. \A b \in Nat, c \in 0 .. MaxAge : c <= b + 1 /\ b + 1 <= Interval => c <= Interval
                    BY SMT, <2>4
                <5>6. removed'[r] <= tick[r] + 1
                    BY Zenon, <2>4, <5>1, <5>2, <5>3, <5>4
                <5>7. QED
                    BY Zenon, <2>4, <3>2, <5>1, <5>3, <5>5, <5>6
            <4>4. QED
                BY Zenon, <4>3 DEF MemoryAge
        <3>4. ASSUME Connected(r)', applied'[stream'[r]], backend # "memory" PROVE PostgresAge(r)'
            <4>1. Connected(r) /\ applied[stream[r]]
                BY Zenon, <1>2, <3>4 DEF Connected, Live, streamVars
            <4>2. PostgresAge(r) /\ AtRest(r) /\ reg[r] # None
                BY Zenon, <2>1, <3>1, <3>4, <4>1 DEF AgeOK, AtRest, Connected
            <4>3. seen[r] <= faults * Interval + tick[r] /\ seen'[r] = Older(seen[r])
                BY Zenon, <4>2 DEF PostgresAge, Elapse
            <4>4. seen[r] \in 0 .. MaxAge /\ faults \in Nat
                BY Zenon, <1>1, AgeTypes DEF RegistryTypeOK
            <4>5. Older(seen[r]) <= seen[r] + 1 /\ Older(seen[r]) \in 0 .. MaxAge /\ MaxAge \in Nat
                BY Zenon, <4>4, Bounds
            <4>6. faults * Interval \in Nat /\ (faults + 1) * Interval = faults * Interval + Interval
                BY Zenon, <2>4, <4>4, OneMoreFault
            <4>7. \A a, b, d \in Nat, c \in 0 .. MaxAge : a <= d + b /\ c <= a + 1 => c <= d + (b + 1)
                BY SMT
            <4>8. \A b, d \in Nat, c \in 0 .. MaxAge :
                    c <= d + (b + 1) /\ b + 1 <= Interval => c <= d + Interval
                BY SMT, <2>4
            <4>9. seen'[r] <= faults * Interval + tick'[r]
                BY Zenon, <2>4, <3>2, <4>3, <4>5, <4>6, <4>7
            <4>10. seen'[r] <= faults * Interval + Interval
                BY Zenon, <2>4, <3>2, <4>3, <4>5, <4>6, <4>8, <4>9
            <4>11. QED
                BY Zenon, <1>2, <4>6, <4>9, <4>10 DEF PostgresAge
        <3>5. AgeOK(r)'
            BY Zenon, <1>2, <2>1, <3>2, <3>3, <3>4 DEF AgeOK
        <3>6. QED
            BY Zenon, <2>2, <2>3, <3>5 DEF RunnerOK
    <2>7. QED
        BY Zenon, <2>5, <2>6
<1>5. QED
    BY Zenon, <1>3, <1>4 DEF Kept

\* Placing leaves the registration alone.
LEMMA QuietKeepsRunners ==
    ASSUME RegistryInv, Placing, Fault \/ UNCHANGED faults
    PROVE  Kept
<1>1. UNCHANGED <<backend, proc, cordoned, changed, clientVars, streamVars, registryVars>>
    BY Zenon DEF Placing, processVars
<1>2. \A s \in Streams : StreamOK(s)'
    BY Zenon, <1>1, QuietStreams DEF RegistryInv
<1>3. ASSUME NEW r \in Runners PROVE Undisturbed(r)
    <2>1. ClientSame(r) /\ CordonSame(r) /\ EntrySame(r)
        BY Zenon, <1>1, QuietClients, QuietCordons, QuietEntries
    <2>2. StreamsSame(r) /\ BudgetOK
        BY Zenon, <1>1, QuietStreams, QuietBudget DEF RegistryInv
    <2>3. QED
        BY Zenon, <2>1, <2>2 DEF Undisturbed
<1>4. QED
    BY Zenon, <1>2, <1>3, UndisturbedKeeps DEF RegistryInv, Kept

LEMMA RegistrationKeepsRunners ==
    ASSUME RegistryInv, UNCHANGED backend, RegistrationNext
    PROVE  RegistryTypeOK' /\ Kept
<1>0. RegistryTypeOK
    BY Zenon DEF RegistryInv
<1>1. ASSUME NEW r \in Runners, Start(r) \/ Listen(r) \/ Prepare(r) PROVE RegistryTypeOK' /\ Kept
    BY Zenon, <1>0, <1>1, ProcessStepTypes, StartKeeps, ListenKeeps
<1>2. ASSUME NEW r \in Runners, Terminate(r) PROVE RegistryTypeOK' /\ Kept
    BY Zenon, <1>0, <1>2, TerminateTypes, TerminateKeeps
<1>3. ASSUME NEW r \in Runners, NEW v \in BOOLEAN, HandleSetRunnerCordon(r, v) PROVE RegistryTypeOK' /\ Kept
    BY Zenon, <1>0, <1>3, CordonTypes, SetCordonKeeps
<1>4. ASSUME NEW r \in Runners, Connect(r) PROVE RegistryTypeOK' /\ Kept
    BY Zenon, <1>0, <1>4, ConnectTypes, ConnectKeepsRunners
<1>5. ASSUME NEW r \in Runners, Compose(r) PROVE RegistryTypeOK' /\ Kept
    BY Zenon, <1>0, <1>5, ComposeTypes, ComposeKeeps
<1>6. ASSUME NEW r \in Runners, Send(r) PROVE RegistryTypeOK' /\ Kept
    <2>1. client[r] = "send" /\ LinkOK(r)
        BY Zenon, <1>6 DEF Send, RegistryInv, RunnerOK
    <2>2. hb[r] # None
        BY Zenon, <2>1 DEF LinkOK
    <2>3. QED
        BY Zenon, <1>0, <1>6, <2>2, SendTypes, SendKeepsRunners
<1>7. ASSUME NEW r \in Runners, Ticked(r) \/ CordonChanged(r) \/ BecameReady(r) PROVE RegistryTypeOK' /\ Kept
    BY Zenon, <1>0, <1>7, SelectTypes, SelectKeeps
<1>8. ASSUME NEW r \in Runners, StreamBreaks(r) PROVE RegistryTypeOK' /\ Kept
    BY Zenon, <1>0, <1>8, StreamBreaksTypes, StreamBreaksKeeps
<1>9. ASSUME NEW r \in Runners, NoticesRestart(r) PROVE RegistryTypeOK' /\ Kept
    BY Zenon, <1>0, <1>9, NoticesRestartTypes, NoticesRestartKeepsRunners
<1>10. ASSUME NEW s \in Streams, Receive(s) PROVE RegistryTypeOK' /\ Kept
    BY Zenon, <1>0, <1>10, ReceiveTypes, ReceiveKeepsRunners
<1>11. ASSUME NEW s \in Streams, HandlerReturns(s) PROVE RegistryTypeOK' /\ Kept
    BY Zenon, <1>0, <1>11, HandlerReturnsTypes, ReturnKeepsRunners
<1>12. ASSUME ApiRestart PROVE RegistryTypeOK' /\ Kept
    BY Zenon, <1>0, <1>12, ApiRestartTypes, ApiRestartKeepsRunners
<1>13. ASSUME Elapse PROVE RegistryTypeOK' /\ Kept
    BY Zenon, <1>0, <1>13, ElapseTypes, ElapseKeepsRunners
<1>14. QED
    BY Zenon, <1>1, <1>2, <1>3, <1>4, <1>5, <1>6, <1>7, <1>8, <1>9, <1>10, <1>11, <1>12, <1>13
    DEF RegistrationNext

LEMMA RegistryInvInductive == RegistryInv /\ [Next]_vars => RegistryInv'
<1> SUFFICES ASSUME RegistryInv, [Next]_vars PROVE RegistryTypeOK' /\ Kept
    BY Zenon DEF RegistryInv, Kept
<1>0. RegistryTypeOK
    BY Zenon DEF RegistryInv
<1>1. CASE RegistrationNext /\ Registration
    BY Zenon, <1>1, RegistrationKeepsRunners DEF Registration
<1>2. ASSUME NEW c \in Creates, PlacingStep(c) PROVE RegistryTypeOK' /\ Kept
    BY Zenon, <1>0, <1>2, PlacingTypes, PlacingEffect, QuietKeepsRunners
<1>3. ASSUME NEW r \in Runners, ShutDown(r) \/ Crash(r) PROVE RegistryTypeOK' /\ Kept
    BY Zenon, <1>0, <1>3, ProcessEndsTypes, ProcessEndsKeeps
<1>4. CASE UNCHANGED vars
    <2>1. Placing /\ UNCHANGED <<sandboxes, faults>>
        BY Zenon, <1>4 DEF vars, registrationVars, Placing
    <2>2. RegistryTypeOK'
        BY Zenon, <1>0, <2>1
        DEF RegistryTypeOK, Placing, processVars, clientVars, streamVars, registryVars
    <2>3. QED
        BY Zenon, <2>1, <2>2, QuietKeepsRunners
<1>5. QED
    BY Zenon, <1>1, <1>2, <1>3, <1>4 DEF Next, PlacingStep

LEMMA RegistryInitHolds == RegistryInit => RegistryInv
<1> SUFFICES ASSUME RegistryInit PROVE RegistryInv
    OBVIOUS
<1>0. [healthy |-> TRUE, cordoned |-> FALSE, used |-> 0] \in Heartbeat
    <2>1. Cardinality(Sandboxes) \in Nat
        BY Zenon, RegistryAssumption, FS_CardinalityType
    <2>2. 0 \in 0 .. Cardinality(Sandboxes)
        BY SMT, <2>1
    <2>3. QED
        BY Zenon, <2>2 DEF Heartbeat
<1>1. stream \in [Runners -> Streams]
    BY Zenon DEF RegistryInit, Injection, IsInjective
<1>2. RegistryTypeOK
    <2>1. ProcessTypes
        <3>1. 0 \in 0 .. MaxCordons
            BY SMT, Bounds
        <3>2. QED
            BY Zenon, <3>1 DEF RegistryInit, ProcessTypes
    <2>2. ClientTypes
        <3>1. 0 \in Nat
            BY SMT
        <3>2. QED
            BY Zenon, <1>1, <3>1 DEF RegistryInit, ClientTypes
    <2>3. HandlerTypes
        <3>1. <<>> \in Seq(Heartbeat)
            BY SMT
        <3>2. QED
            BY Zenon, <3>1 DEF RegistryInit, HandlerTypes
    <2>4. EntryTypes
        BY Zenon, <1>0, Bounds DEF RegistryInit, EntryTypes
    <2>5. HostTypes
        <3>1. 0 \in 0 .. MaxFaults
            BY SMT, Bounds
        <3>2. QED
            BY Zenon, <3>1 DEF RegistryInit, HostTypes
    <2>6. QED
        BY Zenon, <2>1, <2>2, <2>3, <2>4, <2>5, RegistryTypeParts
<1>3. ASSUME NEW s \in Streams PROVE StreamOK(s)
    <2>1. CASE \E r \in Runners : stream[r] = s
        BY Zenon, <2>1 DEF RegistryInit, StreamOK
    <2>2. CASE ~ \E r \in Runners : stream[r] = s
        BY Zenon, <2>2 DEF RegistryInit, StreamOK
    <2>3. QED
        BY Zenon, <2>1, <2>2
<1>4. ASSUME NEW r \in Runners PROVE RunnerOK(r)
    <2>1. PICK s \in Streams : s = stream[r]
        BY Zenon, <1>1
    <2>2. owner[s] = r /\ handler[s] = "open" /\ client[r] = "select" /\ proc[r] = "serving" /\ queue[s] = <<>>
        BY Zenon, <2>1 DEF RegistryInit
    <2>3. LinkOK(r)
        BY Zenon, <2>1, <2>2 DEF LinkOK, Live
    <2>4. reg[r].cordoned = FALSE /\ cordoned[r] = FALSE /\ reg[r] \in Heartbeat \cup {None}
        BY Zenon, <1>2 DEF RegistryInit, RegistryTypeOK
    <2>5. CordonOK(r)
        BY Zenon, <2>1, <2>2, <2>4 DEF CordonOK
    <2>6. tick[r] = 0 /\ seen[r] = 0 /\ faults = 0 /\ removed[r] = None
        BY Zenon DEF RegistryInit
    <2>7. 0 <= Interval /\ 0 <= (0 + 1) * Interval /\ 0 <= 0 * Interval + 0
        BY SMT, Bounds
    <2>8. reg[r] # None
        BY Zenon, <1>0, RegistryAssumption DEF RegistryInit
    <2>9. AgeOK(r)
        BY Zenon, <2>6, <2>7, <2>8 DEF AgeOK, MemoryAge, PostgresAge
    <2>10. QED
        BY Zenon, <2>3, <2>5, <2>9 DEF RunnerOK
<1>5. QED
    BY Zenon, <1>2, <1>3, <1>4 DEF RegistryInv

LEMMA RegistryInvHolds == Spec => []RegistryInv
<1>1. Init => RegistryInv
    BY Zenon, RegistryInitHolds DEF Init
<1>2. QED
    BY <1>1, RegistryInvInductive, PTL DEF Spec

\* Whatever order a cordon, the heartbeats of the old and the new stream of a runner and
\* the end of the old one take, once the runner is at rest on one stream the memory
\* registry has its cordon or no entry (State.Set, connectOnce, the deferred Remove).
THEOREM CordonKnownHolds == Spec => []CordonKnown
<1>1. ASSUME RegistryInv PROVE CordonKnown
    <2> SUFFICES ASSUME NEW r \in Runners, backend = "memory", Settled(r), OpenHandlers(r) = {stream[r]},
                        reg[r] # None
                 PROVE  reg[r].cordoned = cordoned[r]
        BY Zenon DEF CordonKnown
    <2>1. CordonOK(r)
        BY Zenon, <1>1 DEF RegistryInv, RunnerOK
    <2>2. client[r] = "select" /\ ~changed[r]
        BY Zenon DEF Settled
    <2>3. handler[stream[r]] = "open"
        BY Zenon DEF OpenHandlers
    <2>4. Connected(r) /\ queue[stream[r]] = <<>>
        BY Zenon, <2>2, <2>3 DEF Connected, Live, Settled
    <2>5. Sole(r)
        BY Zenon DEF OpenHandlers, Sole
    <2>6. QED
        BY Zenon, <2>1, <2>2, <2>4, <2>5 DEF CordonOK
<1>2. QED
    BY <1>1, RegistryInvHolds, PTL

\* With any number of lost writes, broken streams and restarts within the buffer, the
\* reap never takes a runner for gone whose stream is up and has brought a heartbeat into
\* the registry (GoneLongEnough, the ticker of connectOnce).
THEOREM LiveRunnerNotOrphanedHolds == Spec => []LiveRunnerNotOrphaned
<1>1. ASSUME RegistryInv PROVE LiveRunnerNotOrphaned
    <2> SUFFICES ASSUME NEW r \in Runners, Live(r), handler[stream[r]] = "open", applied[stream[r]],
                        GoneLongEnough(r)
                 PROVE  FALSE
        BY Zenon DEF LiveRunnerNotOrphaned
    <2>1. AgeOK(r) /\ RegistryTypeOK /\ Connected(r)
        BY Zenon, <1>1 DEF RegistryInv, RunnerOK, Connected
    <2>2. /\ MaxFaults \in Nat /\ Interval \in Nat /\ OrphanReapBuffer \in Nat
          /\ (MaxFaults + 1) * Interval < OrphanReapBuffer
        BY Zenon, RegistryAssumption, Bounds
    <2>3. faults + 1 \in Nat /\ faults + 1 <= MaxFaults + 1 /\ MaxFaults + 1 \in Nat /\ 1 <= MaxFaults + 1
        <3>1. faults \in 0 .. MaxFaults
            BY Zenon, <2>1 DEF RegistryTypeOK
        <3>2. QED
            BY SMT, <2>2, <3>1
    <2>4. /\ (faults + 1) * Interval <= (MaxFaults + 1) * Interval
          /\ 1 * Interval <= (MaxFaults + 1) * Interval
        <3>1. 1 \in Nat
            BY SMT
        <3>2. QED
            BY Zenon, <2>2, <2>3, <3>1, MoreFaults
    <2>5. (faults + 1) * Interval \in Nat /\ (MaxFaults + 1) * Interval \in Nat /\ 1 * Interval = Interval
        BY SMT, <2>2, <2>3
    <2>6. \A a, n, m, b \in Nat : a <= n /\ n <= m /\ m < b => ~(a >= b)
        BY SMT
    <2>7. CASE backend = "memory"
        <3>1. MemoryAge(r) /\ reg[r] = None /\ removed[r] # None /\ removed[r] >= OrphanReapBuffer
            BY Zenon, <2>1, <2>7 DEF AgeOK, GoneLongEnough
        <3>2. removed[r] <= Interval /\ removed[r] \in Nat
            BY Zenon, <2>1, <3>1, AgeTypes DEF MemoryAge
        <3>3. Interval <= (MaxFaults + 1) * Interval
            BY Zenon, <2>4, <2>5
        <3>4. QED
            BY Zenon, <2>2, <2>5, <2>6, <3>1, <3>2, <3>3
    <2>8. CASE backend # "memory"
        <3>1. PostgresAge(r) /\ seen[r] >= OrphanReapBuffer
            BY Zenon, <2>1, <2>8 DEF AgeOK, GoneLongEnough
        <3>2. seen[r] <= (faults + 1) * Interval /\ seen[r] \in Nat
            BY Zenon, <2>1, <3>1, AgeTypes DEF PostgresAge
        <3>3. QED
            BY Zenon, <2>2, <2>4, <2>5, <2>6, <3>1, <3>2
    <2>9. QED
        BY Zenon, <2>7, <2>8
<1>2. QED
    BY <1>1, RegistryInvHolds, PTL

=============================================================================
