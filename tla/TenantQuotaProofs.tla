------------------------- MODULE TenantQuotaProofs -------------------------
(***************************************************************************)
(* Proofs that a tenant's quota holds: in the store for any number of API  *)
(* pods, and before the runner on a single pod.                            *)
(***************************************************************************)
EXTENDS TenantQuota, FiniteSetTheorems, TLAPS

\* All creates are served by pod p.
OnlyPod(p) == \A c \in Creates : PodOf[c] = p

\* While reserve is between the start of a read and its decision, the pod's
\* entry is not forgotten: saved has not restarted.
ReserveInv ==
    \A c \in Creates : pc[c] \in {"count", "decide"} =>
        savedBefore[c] <= saved[PodOf[c]] /\ limit[c] > 0

\* A row is saved late in its create, which then releases with saved.
SavedInv ==
    \A c \in rows : /\ pc[c] \in {"rollback", "release", "done"}
                    /\ pc[c] # "done" => mayBeSaved[c]

\* Every limit a create is checked against was in force.
LimitInv ==
    /\ maxSandboxes \in limitsSeen
    /\ \A c \in Creates : pc[c] \notin {"idle", "done"} => limit[c] \in limitsSeen

\* What makes the unlocked read safe.  A saved sandbox that no create in
\* progress accounts for was there when the count was read, or was released as
\* saved since the read started.
ReadInv ==
    \A p \in Pods : OnlyPod(p) /\ 0 \notin limitsSeen =>
        \A c \in Creates : pc[c] = "decide" =>
            Cardinality(rows \ Reserved(p)) + savedBefore[c] <= n[c] + saved[p]

Inv ==
    /\ TypeOK
    /\ EntryAccounted
    /\ ReserveInv
    /\ SavedInv
    /\ LimitInv
    /\ ReadInv
    /\ OnePodQuota

Held == {"place", "save", "tally", "insert", "rollback", "release"}

-----------------------------------------------------------------------------
(* Sets of creates and their sizes                                         *)

LEMMA LimitsNat == \A l \in Limits : l \in Nat
BY Zenon, QuotaAssumption

\* Sets of creates are finite.
LEMMA Finite ==
    ASSUME NEW S \in SUBSET Creates
    PROVE  IsFiniteSet(S) /\ Cardinality(S) \in Nat
<1>1. IsFiniteSet(S)
    BY Zenon, QuotaAssumption, FS_Subset
<1>2. QED
    BY Zenon, <1>1, FS_CardinalityType

\* Where a create goes decides whether it holds a slot and whether it reads.
LEMMA ReservedStep ==
    ASSUME TypeOK, NEW c \in Creates, NEW l \in Labels, Goto(c, l),
           UNCHANGED limit, NEW p \in Pods
    PROVE  Reserved(p)' = IF PodOf[c] = p /\ limit[c] > 0 /\ l \in Held
                          THEN Reserved(p) \cup {c} ELSE Reserved(p) \ {c}
BY Zenon DEF TypeOK, Goto, Reserved, Counted, Held

LEMMA ReadingStep ==
    ASSUME TypeOK, NEW c \in Creates, NEW l \in Labels, Goto(c, l),
           NEW p \in Pods
    PROVE  Reading(p)' = IF PodOf[c] = p /\ l \in {"count", "decide"}
                         THEN Reading(p) \cup {c} ELSE Reading(p) \ {c}
BY Zenon DEF TypeOK, Goto, Reading

\* The sizes of the sets of a pod after one create moved.
LEMMA Sizes ==
    ASSUME NEW S \in SUBSET Creates, NEW c \in Creates
    PROVE  /\ Cardinality(S \cup {c}) =
                IF c \in S THEN Cardinality(S) ELSE Cardinality(S) + 1
           /\ Cardinality(S \ {c}) =
                IF c \in S THEN Cardinality(S) - 1 ELSE Cardinality(S)
           /\ Cardinality(S) \in Nat
           /\ c \in S => Cardinality(S) > 0
<1>1. IsFiniteSet(S) /\ Cardinality(S) \in Nat
    BY Zenon, Finite
<1>2. c \in S => Cardinality(S) # 0
    BY Zenon, <1>1, FS_EmptySet
<1>3. Cardinality(S \cup {c}) =
          IF c \in S THEN Cardinality(S) ELSE Cardinality(S) + 1
    BY Zenon, <1>1, FS_AddElement
<1>4. Cardinality(S \ {c}) =
          IF c \in S THEN Cardinality(S) - 1 ELSE Cardinality(S)
    BY Zenon, <1>1, FS_RemoveElement
<1>5. QED
    BY <1>1, <1>2, <1>3, <1>4

LEMMA NonEmpty ==
    ASSUME NEW S \in SUBSET Creates, NEW c \in S
    PROVE  Cardinality(S) # 0
<1>1. IsFiniteSet(S)
    BY Zenon, Finite
<1>2. Cardinality(S) = 0 <=> S = {}
    BY Zenon, <1>1, FS_EmptySet
<1>3. QED
    BY Zenon, <1>2

\* Fewer sandboxes and more limits seen keep the quota.
LEMMA WithinShrinks ==
    ASSUME NEW S \in SUBSET Creates, NEW T \in SUBSET S, Within(S), TypeOK,
           limitsSeen \subseteq limitsSeen'
    PROVE  \E l \in limitsSeen' : l = 0 \/ Cardinality(T) <= l
<1>1. Cardinality(T) <= Cardinality(S) /\ Cardinality(T) \in Nat /\ Cardinality(S) \in Nat
    BY Zenon, Finite, FS_Subset
<1>2. limitsSeen \subseteq Nat
    BY Zenon, QuotaAssumption DEF TypeOK
<1>3. PICK l \in limitsSeen : l = 0 \/ Cardinality(S) <= l
    BY Zenon DEF Within
<1>4. l \in limitsSeen' /\ (l = 0 \/ Cardinality(T) <= l)
    BY <1>1, <1>2, <1>3
<1>5. QED
    BY Zenon, <1>4

\* The size of a union is at most the sum over its disjoint halves.
LEMMA UnionSize ==
    ASSUME NEW S \in SUBSET Creates, NEW T \in SUBSET Creates
    PROVE  Cardinality(S \cup T) = Cardinality(S \ T) + Cardinality(T)
<1>1. (S \ T) \cup T = S \cup T /\ (S \ T) \cap T = {}
    OBVIOUS
<1>2. IsFiniteSet(S \ T) /\ IsFiniteSet(T) /\ Cardinality(S \ T) \in Nat
      /\ Cardinality(T) \in Nat
    BY Zenon, Finite
<1>3. Cardinality((S \ T) \cup T) =
          Cardinality(S \ T) + Cardinality(T) - Cardinality((S \ T) \cap T)
    BY Zenon, <1>2, FS_Union
<1>4. Cardinality((S \ T) \cap T) = 0
    BY Zenon, <1>1, FS_EmptySet
<1>5. Cardinality((S \ T) \cup T) = Cardinality(S \cup T)
    BY Zenon, <1>1
<1>6. QED
    BY <1>2, <1>3, <1>4, <1>5

\* The counters agree with the creates when only those of one pod changed.
LEMMA EntryStep ==
    ASSUME NEW p \in Pods, EntryAccounted,
           \A q \in Pods \ {p} :
              /\ Reserved(q)' = Reserved(q) /\ Reading(q)' = Reading(q)
              /\ inProgress[q]' = inProgress[q] /\ saved[q]' = saved[q]
              /\ reading[q]' = reading[q],
           inProgress[p]' = Cardinality(Reserved(p)'),
           reading[p]' = Cardinality(Reading(p)'),
           inProgress[p]' + reading[p]' = 0 => saved[p]' = 0
    PROVE  EntryAccounted'
<1> SUFFICES ASSUME NEW q \in Pods
             PROVE  /\ inProgress[q]' = Cardinality(Reserved(q)')
                    /\ reading[q]' = Cardinality(Reading(q)')
                    /\ inProgress[q]' + reading[q]' = 0 => saved[q]' = 0
    BY Zenon DEF EntryAccounted
<1>1. CASE q = p
    BY Zenon, <1>1
<1>2. CASE q # p
    BY Zenon, <1>2 DEF EntryAccounted
<1>3. QED
    BY Zenon, <1>1, <1>2

-----------------------------------------------------------------------------
(* Each step keeps the invariant                                           *)

\* A create that moves without touching the counters of its pod, its limit or
\* the rows, and neither takes nor gives back a slot nor enters a read.
LEMMA MoveKeeps ==
    ASSUME Inv, NEW c \in Creates, NEW l \in Labels, Goto(c, l),
           NEW b \in BOOLEAN, mayBeSaved' = [mayBeSaved EXCEPT ![c] = b],
           UNCHANGED <<creates, limit, read, savedBefore, n, rows,
                       maxSandboxes, limitsSeen, tenant>>,
           pc[c] \in Held, l \in Held,
           c \in rows => l \in {"rollback", "release"} /\ b,
           locker' \in Creates \cup {Nil}, onRunner' \subseteq Creates,
           untracked' \subseteq Creates, UNCHANGED deleting
    PROVE  Inv'
<1>1. TypeOK'
    BY Zenon DEF Inv, TypeOK, Goto, creates
<1>2. \A p \in Pods : Reserved(p)' = Reserved(p) /\ Reading(p)' = Reading(p)
    BY ReservedStep, ReadingStep DEF Inv, Held, Reserved, Reading, Counted
<1>3. EntryAccounted'
    BY Zenon, <1>2 DEF Inv, EntryAccounted, creates
<1>4. ReserveInv'
    BY Zenon DEF Inv, TypeOK, ReserveInv, Goto, Held, creates
<1>5. LimitInv'
    BY Zenon DEF Inv, TypeOK, LimitInv, Goto, Held
<1>6. ReadInv'
    BY Zenon, <1>2 DEF Inv, TypeOK, ReadInv, OnlyPod, Goto, Held, creates
<1>7. OnePodQuota'
    BY Zenon, <1>2 DEF Inv, OnePodQuota, Within
<1>8. SavedInv'
    BY Zenon DEF Inv, TypeOK, SavedInv, Goto, Held
<1>9. QED
    BY Zenon, <1>1, <1>3, <1>4, <1>5, <1>6, <1>7, <1>8 DEF Inv

LEMMA ReserveKeeps ==
    ASSUME Inv, NEW c \in Creates, Reserve(c)
    PROVE  Inv'
<1> DEFINE p == PodOf[c]
<1>0. p \in Pods
    BY Zenon, QuotaAssumption
<1>1. /\ pc[c] = "idle" /\ UNCHANGED <<store, runner, inProgress, saved>>
      /\ UNCHANGED <<n, mayBeSaved>>
    BY Zenon DEF Reserve, creates, locals
<1>2. CASE /\ Goto(c, "done")
           /\ UNCHANGED <<reading, limit, read, savedBefore>>
  <2>1. TypeOK'
    BY Zenon, <1>1, <1>2 DEF Inv, TypeOK, Goto, Labels, store, runner
  <2>2. \A q \in Pods : Reserved(q)' = Reserved(q) /\ Reading(q)' = Reading(q)
    BY Zenon, <1>1, <1>2 DEF Inv, TypeOK, Goto, Reserved, Reading, Counted
  <2>3. EntryAccounted'
    BY Zenon, <1>1, <1>2, <2>2 DEF Inv, EntryAccounted
  <2>4. ReserveInv' /\ LimitInv' /\ SavedInv'
    BY Zenon, <1>1, <1>2 DEF Inv, TypeOK, ReserveInv, LimitInv, SavedInv, Goto, store
  <2>5. ReadInv'
    BY Zenon, <1>1, <1>2, <2>2 DEF Inv, TypeOK, ReadInv, OnlyPod, Goto, store
  <2>6. OnePodQuota'
    BY Zenon, <1>1, <2>2 DEF Inv, OnePodQuota, Within, store
  <2>7. QED
    BY Zenon, <2>1, <2>3, <2>4, <2>5, <2>6 DEF Inv
<1>3. CASE /\ Goto(c, "place") /\ maxSandboxes = 0
           /\ limit' = [limit EXCEPT ![c] = maxSandboxes]
           /\ UNCHANGED <<reading, read, savedBefore>>
  <2>1. TypeOK'
    BY Zenon, <1>1, <1>3 DEF Inv, TypeOK, Goto, Labels, store, runner
  <2>2. \A q \in Pods : Reserved(q)' = Reserved(q) /\ Reading(q)' = Reading(q)
    BY <1>1, <1>3 DEF Inv, TypeOK, Goto, Reserved, Reading, Counted
  <2>3. EntryAccounted'
    BY Zenon, <1>1, <1>3, <2>2 DEF Inv, EntryAccounted
  <2>4. ReserveInv' /\ LimitInv' /\ SavedInv'
    BY Zenon, <1>1, <1>3 DEF Inv, TypeOK, ReserveInv, LimitInv, SavedInv, Goto, store
  <2>5. ReadInv'
    BY Zenon, <1>1, <1>3, <2>2 DEF Inv, TypeOK, ReadInv, OnlyPod, Goto, store
  <2>6. OnePodQuota'
    BY Zenon, <1>1, <2>2 DEF Inv, OnePodQuota, Within, store
  <2>7. QED
    BY Zenon, <2>1, <2>3, <2>4, <2>5, <2>6 DEF Inv
<1>4. CASE /\ Goto(c, "count") /\ maxSandboxes # 0
           /\ limit' = [limit EXCEPT ![c] = maxSandboxes]
           /\ reading' = [reading EXCEPT ![p] = @ + 1]
           /\ read' = [read EXCEPT ![c] = 1]
           /\ savedBefore' = [savedBefore EXCEPT ![c] = saved[p]]
  <2>0. maxSandboxes \in Nat
    BY Zenon, QuotaAssumption DEF Inv, TypeOK
  <2>1. TypeOK'
    BY <1>0, <1>1, <1>4, QuotaAssumption
       DEF Inv, TypeOK, Goto, Labels, store, runner
  <2>2. \A q \in Pods : Reserved(q)' = Reserved(q)
    BY Zenon, <1>1, <1>4 DEF Inv, TypeOK, Goto, Reserved, Counted
  <2>3. \A q \in Pods : Reading(q)' = IF q = p THEN Reading(q) \cup {c}
                                               ELSE Reading(q)
    BY <1>1, <1>4 DEF Inv, TypeOK, Goto, Reading
  <2>4. c \notin Reading(p) /\ Reading(p) \subseteq Creates
    BY Zenon, <1>1 DEF Reading
  <2>5. Cardinality(Reading(p) \cup {c}) = Cardinality(Reading(p)) + 1
    BY Zenon, <2>4, Sizes
  <2>6. EntryAccounted'
    <3>1. /\ reading[p]' = reading[p] + 1 /\ reading[p] \in Nat
          /\ inProgress[p]' = inProgress[p] /\ inProgress[p] \in Nat
          /\ \A q \in Pods \ {p} : reading[q]' = reading[q]
      BY Zenon, <1>0, <1>1, <1>4 DEF Inv, TypeOK
    <3>2. /\ inProgress[p] = Cardinality(Reserved(p))
          /\ reading[p] = Cardinality(Reading(p)) /\ EntryAccounted
      BY Zenon, <1>0 DEF Inv, EntryAccounted
    <3>3. \A q \in Pods \ {p} :
              /\ Reserved(q)' = Reserved(q) /\ Reading(q)' = Reading(q)
              /\ inProgress[q]' = inProgress[q] /\ saved[q]' = saved[q]
              /\ reading[q]' = reading[q]
      BY Zenon, <1>1, <2>2, <2>3, <3>1
    <3>4. Reading(p)' = Reading(p) \cup {c} /\ Reserved(p)' = Reserved(p)
      BY Zenon, <1>0, <2>2, <2>3
    <3>5. /\ inProgress[p]' = Cardinality(Reserved(p)')
          /\ reading[p]' = Cardinality(Reading(p)')
      BY Zenon, <2>5, <3>1, <3>2, <3>4
    <3>6. inProgress[p]' + reading[p]' = 0 => saved[p]' = 0
      BY <3>1
    <3>7. QED
      BY Zenon, <1>0, <3>2, <3>3, <3>5, <3>6, EntryStep
  <2>7. ReserveInv' /\ LimitInv' /\ SavedInv'
    BY <1>0, <1>1, <1>4, <2>0 DEF Inv, TypeOK, ReserveInv, LimitInv, SavedInv,
       Goto, store
  <2>8. ReadInv'
    BY Zenon, <1>1, <1>4, <2>2 DEF Inv, TypeOK, ReadInv, OnlyPod, Goto, store
  <2>9. OnePodQuota'
    BY Zenon, <1>1, <2>2 DEF Inv, OnePodQuota, Within, store
  <2>10. QED
    BY Zenon, <2>1, <2>6, <2>7, <2>8, <2>9 DEF Inv
<1>5. QED
    BY Zenon, <1>2, <1>3, <1>4 DEF Reserve, creates, locals

\* While a create of the pod reads, the pod's entry is not forgotten.
LEMMA NotForgotten ==
    ASSUME NEW p \in Pods, NEW i, NEW s, NEW r, SetCreates(p, i, s, r),
           inProgress \in [Pods -> Nat], saved \in [Pods -> Nat],
           reading \in [Pods -> Nat], EntryAccounted',
           NEW d \in Creates, PodOf[d] = p, pc'[d] \in {"count", "decide"}
    PROVE  saved'[p] = s
<1>1. d \in Reading(p)' /\ Reading(p)' \subseteq Creates
    BY Zenon DEF Reading
<1>2. Cardinality(Reading(p)') # 0 /\ Cardinality(Reading(p)') = reading'[p]
  <2>1. Cardinality(Reading(p)') = reading'[p]
    BY Zenon DEF EntryAccounted
  <2>2. Reading(p)' \in SUBSET Creates
    BY Zenon, <1>1
  <2>3. QED
    BY Zenon, <1>1, <2>1, <2>2, NonEmpty
<1>3. r # 0
    BY Zenon, <1>2 DEF SetCreates
<1>4. QED
    BY Zenon, <1>3 DEF SetCreates

\* The end of reserve: the read failed, the quota is full, or a slot is taken.
LEMMA ReserveEnds ==
    ASSUME Inv, NEW c \in Creates, NEW l \in {"done", "refused", "place"},
           pc[c] \in {"count", "decide"}, Goto(c, l),
           SetCreates(PodOf[c],
                      IF l = "place" THEN inProgress[PodOf[c]] + 1
                                     ELSE inProgress[PodOf[c]],
                      saved[PodOf[c]], reading[PodOf[c]] - 1),
           l = "place" => pc[c] = "decide" /\ BelowLimit(c),
           UNCHANGED <<store, runner, locals>>
    PROVE  Inv'
<1> DEFINE p == PodOf[c]
           i == IF l = "place" THEN inProgress[p] + 1 ELSE inProgress[p]
<1>0. p \in Pods /\ l \in Labels
    BY Zenon, QuotaAssumption DEF Labels
<1>1. /\ inProgress \in [Pods -> Nat] /\ saved \in [Pods -> Nat]
      /\ reading \in [Pods -> Nat] /\ TypeOK /\ EntryAccounted
    BY Zenon DEF Inv, TypeOK
<1>2. limit[c] > 0 /\ limit' = limit /\ rows' = rows /\ limitsSeen' = limitsSeen
    BY Zenon DEF Inv, ReserveInv, locals, store
<1>3. c \in Reading(p) /\ Reading(p) \subseteq Creates
    BY Zenon DEF Reading
<1>4. c \notin Reserved(p) /\ Reserved(p) \subseteq Creates
    BY Zenon DEF Reserved
<1>5. Reading(p)' = Reading(p) \ {c}
    BY Zenon, <1>0, <1>1, ReadingStep
<1>6. Reserved(p)' = IF l = "place" THEN Reserved(p) \cup {c} ELSE Reserved(p)
  <2>1. Reserved(p)' = IF l \in Held THEN Reserved(p) \cup {c}
                                     ELSE Reserved(p) \ {c}
    BY Zenon, <1>0, <1>1, <1>2, ReservedStep
  <2>2. Reserved(p) \ {c} = Reserved(p) /\ (l \in Held <=> l = "place")
    BY Zenon, <1>4 DEF Held
  <2>3. QED
    BY Zenon, <2>1, <2>2
<1>7. \A q \in Pods \ {p} : /\ Reserved(q)' = Reserved(q)
                            /\ Reading(q)' = Reading(q)
    BY Zenon, <1>2 DEF Inv, TypeOK, Goto, Reserved, Reading, Counted
<1>8. /\ Cardinality(Reading(p)') = reading[p] - 1 /\ reading[p] > 0
      /\ Cardinality(Reserved(p)') = i /\ i \in Nat
  <2>1. /\ Cardinality(Reading(p)) = reading[p] /\ reading[p] \in Nat
        /\ Cardinality(Reserved(p)) = inProgress[p] /\ inProgress[p] \in Nat
    BY Zenon, <1>0, <1>1 DEF EntryAccounted
  <2>2. Cardinality(Reading(p) \ {c}) = reading[p] - 1 /\ reading[p] > 0
    BY <1>3, <2>1, Sizes
  <2>3. Cardinality(Reserved(p) \cup {c}) = inProgress[p] + 1
    BY <1>4, <2>1, Sizes
  <2>4. QED
    BY <1>5, <1>6, <2>1, <2>2, <2>3
<1>9. /\ inProgress' = [inProgress EXCEPT ![p] = i]
      /\ reading' = [reading EXCEPT ![p] = reading[p] - 1]
      /\ saved' = [saved EXCEPT ![p] = IF i = 0 /\ reading[p] - 1 = 0 THEN 0
                                       ELSE saved[p]]
    BY Zenon DEF SetCreates
<1>10. EntryAccounted'
  <2>1. /\ inProgress[p]' = i /\ reading[p]' = reading[p] - 1
        /\ inProgress[p]' + reading[p]' = 0 => saved[p]' = 0
    BY <1>0, <1>1, <1>8, <1>9
  <2>2. \A q \in Pods \ {p} :
            /\ inProgress[q]' = inProgress[q] /\ saved[q]' = saved[q]
            /\ reading[q]' = reading[q]
    BY Zenon, <1>0, <1>1, <1>9
  <2>3. /\ inProgress[p]' = Cardinality(Reserved(p)')
        /\ reading[p]' = Cardinality(Reading(p)')
    BY Zenon, <1>8, <2>1
  <2>4. \A q \in Pods \ {p} :
            /\ Reserved(q)' = Reserved(q) /\ Reading(q)' = Reading(q)
            /\ inProgress[q]' = inProgress[q] /\ saved[q]' = saved[q]
            /\ reading[q]' = reading[q]
    BY Zenon, <1>7, <2>2
  <2>5. QED
    BY Zenon, <1>0, <1>1, <2>1, <2>3, <2>4, EntryStep
<1>11. TypeOK'
  <2>1. /\ inProgress' \in [Pods -> Nat] /\ saved' \in [Pods -> Nat]
        /\ reading' \in [Pods -> Nat]
    BY <1>0, <1>1, <1>8, <1>9
  <2>2. pc' \in [Creates -> Labels]
    BY Zenon, <1>0, <1>1 DEF TypeOK, Goto
  <2>3. QED
    BY Zenon, <1>1, <2>1, <2>2 DEF TypeOK, store, runner, locals
<1>12. \A d \in Creates : pc'[d] \in {"count", "decide"} =>
          /\ pc[d] = pc'[d] /\ saved'[PodOf[d]] = saved[PodOf[d]]
  <2> SUFFICES ASSUME NEW d \in Creates, pc'[d] \in {"count", "decide"}
               PROVE  pc[d] = pc'[d] /\ saved'[PodOf[d]] = saved[PodOf[d]]
    BY Zenon
  <2>1. pc[d] = pc'[d]
    BY Zenon, <1>1 DEF TypeOK, Goto
  <2>2. CASE PodOf[d] = p
    BY <1>0, <1>1, <1>10, <2>1, <2>2, NotForgotten
  <2>3. CASE PodOf[d] # p
    BY Zenon, <1>0, <1>1, <1>9, <2>1, <2>3, QuotaAssumption
  <2>4. QED
    BY <2>1, <2>2, <2>3
<1>13. ReserveInv'
    BY Zenon, <1>12 DEF Inv, ReserveInv, locals
<1>14. SavedInv' /\ LimitInv'
    BY Zenon, <1>1, <1>2 DEF Inv, TypeOK, SavedInv, LimitInv, Goto, store, locals
<1>15. ReadInv'
  <2> SUFFICES ASSUME NEW q \in Pods, OnlyPod(q), 0 \notin limitsSeen,
                      NEW d \in Creates, pc'[d] = "decide"
               PROVE  Cardinality(rows \ Reserved(q)') + savedBefore[d]
                          <= n[d] + saved'[q]
    BY Zenon, <1>2 DEF ReadInv, OnlyPod, locals
  <2>1. q = p /\ PodOf[d] = p
    BY Zenon DEF OnlyPod
  <2>2. pc[d] = "decide" /\ saved'[p] = saved[p]
    BY Zenon, <1>12, <2>1
  <2>3. Cardinality(rows \ Reserved(p)) + savedBefore[d] <= n[d] + saved[p]
    BY Zenon, <2>1, <2>2 DEF Inv, ReadInv
  <2>4. Cardinality(rows \ Reserved(p)') <= Cardinality(rows \ Reserved(p))
    <3>1. rows \ Reserved(p)' \subseteq rows \ Reserved(p)
      BY Zenon, <1>6
    <3>2. IsFiniteSet(rows \ Reserved(p))
      BY Zenon, <1>1, Finite DEF TypeOK
    <3>3. QED
      BY Zenon, <3>1, <3>2, FS_Subset
  <2>5. /\ Cardinality(rows \ Reserved(p)) \in Nat
        /\ Cardinality(rows \ Reserved(p)') \in Nat
        /\ savedBefore[d] \in Nat /\ n[d] \in Nat /\ saved[p] \in Nat
    <3>1. rows \ Reserved(p) \subseteq Creates /\ rows \ Reserved(p)' \subseteq Creates
      BY Zenon, <1>1 DEF TypeOK
    <3>2. QED
      BY Zenon, <1>0, <1>1, <3>1, Finite DEF TypeOK
  <2>6. Cardinality(rows \ Reserved(p)') + savedBefore[d] <= n[d] + saved[p]
    BY <2>3, <2>4, <2>5
  <2>7. QED
    BY Zenon, <2>1, <2>2, <2>6
<1>16. OnePodQuota'
  <2> SUFFICES ASSUME NEW q \in Pods, OnlyPod(q)
               PROVE  \E m \in limitsSeen :
                          m = 0 \/ Cardinality(rows \cup Reserved(q)') <= m
    BY Zenon, <1>2 DEF OnePodQuota, OnlyPod, Within
  <2>0. q = p
    BY Zenon DEF OnlyPod
  <2>1. CASE l # "place" \/ 0 \in limitsSeen
    BY Zenon, <1>6, <2>0, <2>1 DEF Inv, OnePodQuota, Within, OnlyPod
  <2>2. CASE l = "place" /\ 0 \notin limitsSeen
    <3>1. Cardinality(rows \ Reserved(p)) + savedBefore[c] <= n[c] + saved[p]
      BY Zenon, <2>0, <2>2 DEF Inv, ReadInv
    <3>2. n[c] + inProgress[p] + (saved[p] - savedBefore[c]) < limit[c]
      BY Zenon, <2>2 DEF BelowLimit, SavedDuring
    <3>3. /\ rows \subseteq Creates /\ Reserved(p)' \subseteq Creates
          /\ rows \ Reserved(p)' \subseteq rows \ Reserved(p)
          /\ rows \ Reserved(p) \subseteq Creates
          /\ rows \ Reserved(p)' \subseteq Creates
      BY Zenon, <1>1, <1>4, <1>6 DEF TypeOK
    <3>4. Cardinality(rows \cup Reserved(p)') =
              Cardinality(rows \ Reserved(p)') + Cardinality(Reserved(p)')
      BY Zenon, <3>3, UnionSize
    <3>5. Cardinality(rows \ Reserved(p)') <= Cardinality(rows \ Reserved(p))
      BY Zenon, <3>3, Finite, FS_Subset
    <3>6. /\ Cardinality(rows \ Reserved(p)') \in Nat
          /\ Cardinality(rows \ Reserved(p)) \in Nat
      BY Zenon, <3>3, Finite
    <3>7. Cardinality(Reserved(p)') = inProgress[p] + 1
      BY Zenon, <1>8, <2>2
    <3>8. /\ n[c] \in Nat /\ savedBefore[c] \in Nat /\ limit[c] \in Nat
          /\ saved[p] \in Nat /\ inProgress[p] \in Nat
      <4>1. limit[c] \in limitsSeen /\ limitsSeen \subseteq Limits
        BY Zenon, <1>1 DEF Inv, LimitInv, TypeOK
      <4>2. n[c] \in Nat /\ savedBefore[c] \in Nat
        BY Zenon, <1>1 DEF TypeOK
      <4>3. limit[c] \in Nat
        BY Zenon, <4>1, LimitsNat
      <4>4. saved[p] \in Nat /\ inProgress[p] \in Nat
        BY Zenon, <1>0, <1>1
      <4>5. QED
        BY Zenon, <4>2, <4>3, <4>4
    <3>9. Cardinality(rows \cup Reserved(p)') <= limit[c]
      BY <3>1, <3>2, <3>4, <3>5, <3>6, <3>7, <3>8
    <3>10. limit[c] \in limitsSeen
      BY Zenon DEF Inv, LimitInv
    <3>11. QED
      BY Zenon, <2>0, <3>9, <3>10
  <2>3. QED
    BY Zenon, <2>1, <2>2
<1>17. QED
    BY Zenon, <1>10, <1>11, <1>13, <1>14, <1>15, <1>16 DEF Inv

LEMMA CountUnlockedKeeps ==
    ASSUME Inv, NEW c \in Creates, CountUnlocked(c)
    PROVE  Inv'
<1> DEFINE p == PodOf[c]
<1>0. p \in Pods
    BY Zenon, QuotaAssumption
<1>1. /\ pc[c] = "count" /\ UNCHANGED <<store, runner>>
      /\ UNCHANGED <<limit, read, savedBefore, mayBeSaved>>
    BY Zenon DEF CountUnlocked
<1>2. CASE /\ SetCreates(p, inProgress[p], saved[p], reading[p] - 1)
           /\ Goto(c, "done") /\ UNCHANGED n
    BY Zenon, <1>1, <1>2, ReserveEnds DEF locals
<1>3. CASE /\ n' = [n EXCEPT ![c] = Cardinality(rows)]
           /\ Goto(c, "decide") /\ UNCHANGED creates
  <2>0. Cardinality(rows) \in Nat
    BY Zenon, Finite DEF Inv, TypeOK
  <2>1. TypeOK'
    BY Zenon, <1>1, <1>3, <2>0 DEF Inv, TypeOK, Goto, Labels, store, runner, creates
  <2>2. \A q \in Pods : Reserved(q)' = Reserved(q) /\ Reading(q)' = Reading(q)
    BY Zenon, <1>1, <1>3 DEF Inv, TypeOK, Goto, Reserved, Reading, Counted
  <2>3. EntryAccounted'
    BY Zenon, <1>3, <2>2 DEF Inv, EntryAccounted, creates
  <2>4. ReserveInv' /\ LimitInv' /\ SavedInv'
    BY Zenon, <1>1, <1>3 DEF Inv, TypeOK, ReserveInv, LimitInv, SavedInv, Goto, store,
       creates
  <2>5. ReadInv'
    <3> SUFFICES ASSUME NEW q \in Pods, OnlyPod(q), 0 \notin limitsSeen,
                        NEW d \in Creates, pc'[d] = "decide"
                 PROVE  Cardinality(rows \ Reserved(q)) + savedBefore[d]
                            <= n'[d] + saved[q]
      BY Zenon, <1>1, <1>3, <2>2 DEF ReadInv, OnlyPod, store, creates
    <3>1. CASE d = c
      <4>1. q = p /\ n'[c] = Cardinality(rows) /\ savedBefore[c] <= saved[p]
            /\ savedBefore[c] \in Nat /\ saved[p] \in Nat
        BY Zenon, <1>0, <1>1, <1>3 DEF OnlyPod, Inv, ReserveInv, TypeOK
      <4>2. rows \ Reserved(q) \subseteq rows /\ rows \subseteq Creates
            /\ rows \ Reserved(q) \subseteq Creates
        BY Zenon DEF Inv, TypeOK
      <4>3. /\ Cardinality(rows \ Reserved(q)) <= Cardinality(rows)
            /\ Cardinality(rows \ Reserved(q)) \in Nat
        BY Zenon, <4>2, Finite, FS_Subset
      <4>4. QED
        BY <2>0, <3>1, <4>1, <4>3
    <3>2. CASE d # c
      <4>1. pc[d] = "decide" /\ n'[d] = n[d]
        BY Zenon, <1>1, <1>3, <3>2 DEF Inv, TypeOK, Goto
      <4>2. QED
        BY Zenon, <4>1 DEF Inv, ReadInv
    <3>3. QED
      BY Zenon, <3>1, <3>2
  <2>6. OnePodQuota'
    BY Zenon, <1>1, <2>2 DEF Inv, OnePodQuota, Within, store
  <2>7. QED
    BY Zenon, <2>1, <2>3, <2>4, <2>5, <2>6 DEF Inv
<1>4. QED
    BY Zenon, <1>2, <1>3 DEF CountUnlocked

LEMMA DecideKeeps ==
    ASSUME Inv, NEW c \in Creates, Decide(c)
    PROVE  Inv'
<1> DEFINE p == PodOf[c]
<1>0. p \in Pods
    BY Zenon, QuotaAssumption
<1>1. /\ pc[c] = "decide" /\ UNCHANGED <<store, runner>>
      /\ UNCHANGED <<limit, n, mayBeSaved>>
    BY Zenon DEF Decide
<1>2. CASE /\ BelowLimit(c)
           /\ SetCreates(p, inProgress[p] + 1, saved[p], reading[p] - 1)
           /\ Goto(c, "place") /\ UNCHANGED <<read, savedBefore>>
    BY Zenon, <1>1, <1>2, ReserveEnds DEF locals
<1>3. CASE /\ SetCreates(p, inProgress[p], saved[p], reading[p] - 1)
           /\ Goto(c, "refused") /\ UNCHANGED <<read, savedBefore>>
    BY Zenon, <1>1, <1>3, ReserveEnds DEF locals
<1>4. CASE /\ ~LastRead(c)
           /\ read' = [read EXCEPT ![c] = @ + 1]
           /\ savedBefore' = [savedBefore EXCEPT ![c] = saved[p]]
           /\ Goto(c, "count") /\ UNCHANGED creates
  <2>1. TypeOK'
    <3>1. read[c] + 1 \in 0 .. MaxReads
      BY <1>4, QuotaAssumption DEF Inv, TypeOK, LastRead
    <3>2. QED
      BY Zenon, <1>0, <1>1, <1>4, <3>1
         DEF Inv, TypeOK, Goto, Labels, store, runner, creates
  <2>2. \A q \in Pods : Reserved(q)' = Reserved(q) /\ Reading(q)' = Reading(q)
    BY Zenon, <1>1, <1>4 DEF Inv, TypeOK, Goto, Reserved, Reading, Counted
  <2>3. EntryAccounted'
    BY Zenon, <1>4, <2>2 DEF Inv, EntryAccounted, creates
  <2>4. ReserveInv' /\ LimitInv' /\ SavedInv'
    BY <1>0, <1>1, <1>4 DEF Inv, TypeOK, ReserveInv, LimitInv, SavedInv, Goto,
       store, creates
  <2>5. ReadInv'
    BY Zenon, <1>1, <1>4, <2>2 DEF Inv, TypeOK, ReadInv, OnlyPod, Goto, store, creates
  <2>6. OnePodQuota'
    BY Zenon, <1>1, <2>2 DEF Inv, OnePodQuota, Within, store
  <2>7. QED
    BY Zenon, <2>1, <2>3, <2>4, <2>5, <2>6 DEF Inv
<1>5. QED
    BY Zenon, <1>2, <1>3, <1>4 DEF Decide

\* The create is placed, locks the tenant, counts or rolls back: it keeps its
\* slot.
LEMMA PlaceKeeps ==
    ASSUME Inv, NEW c \in Creates,
           \/ Place(c) \/ LockTenant(c) \/ CountSandboxes(c)
           \/ RollbackRunnerCreate(c)
    PROVE  Inv'
<1>1. /\ mayBeSaved[c] \in BOOLEAN
      /\ mayBeSaved = [mayBeSaved EXCEPT ![c] = mayBeSaved[c]]
      /\ rows \subseteq Creates /\ onRunner \subseteq Creates
      /\ untracked \subseteq Creates /\ locker \in Creates \cup {Nil}
    BY Zenon DEF Inv, TypeOK
<1>2. PICK l \in {"save", "tally", "insert", "rollback", "release"} :
          Goto(c, l) /\ (pc[c] = "rollback" => l = "release")
    BY Zenon DEF Place, LockTenant, CountSandboxes, RollbackRunnerCreate
<1>3. /\ pc[c] \in {"place", "save", "tally", "rollback"}
      /\ UNCHANGED <<creates, limit, read, savedBefore, n, rows, maxSandboxes,
                     limitsSeen, tenant, deleting>>
      /\ locker' \in Creates \cup {Nil}
      /\ onRunner' \subseteq Creates /\ untracked' \subseteq Creates
    BY Zenon, <1>1 DEF Place, LockTenant, CountSandboxes, RollbackRunnerCreate,
       store, runner, locals
<1>4. PICK b \in BOOLEAN : /\ mayBeSaved' = [mayBeSaved EXCEPT ![c] = b]
                           /\ pc[c] = "rollback" => b = mayBeSaved[c]
    BY Zenon, <1>1 DEF Place, LockTenant, CountSandboxes, RollbackRunnerCreate,
       locals
<1>5. c \in rows => l \in {"rollback", "release"} /\ b
    BY Zenon, <1>2, <1>3, <1>4 DEF Inv, SavedInv
<1>6. l \in Labels /\ l \in Held /\ pc[c] \in Held
    BY Zenon, <1>3 DEF Labels, Held
<1>7. QED
    BY Zenon, <1>2, <1>3, <1>4, <1>5, <1>6, MoveKeeps

LEMMA InsertSandboxKeeps ==
    ASSUME Inv, NEW c \in Creates, InsertSandbox(c)
    PROVE  Inv'
<1>1. /\ pc[c] = "insert" /\ locker' = Nil
      /\ UNCHANGED <<creates, limit, read, savedBefore, n, maxSandboxes,
                     limitsSeen, tenant, onRunner, untracked, deleting>>
      /\ mayBeSaved' = [mayBeSaved EXCEPT ![c] = TRUE]
    BY Zenon DEF InsertSandbox, runner
<1>2. onRunner \subseteq Creates /\ untracked \subseteq Creates
    BY Zenon DEF Inv, TypeOK
<1>3. c \notin rows
    BY Zenon, <1>1 DEF Inv, SavedInv
<1>4. CASE UNCHANGED rows
  <2>1. TRUE \in BOOLEAN
    BY Zenon
  <2>2. PICK l \in {"rollback", "release"} : Goto(c, l)
    BY Zenon DEF InsertSandbox
  <2>3. l \in Labels /\ l \in Held /\ pc[c] \in Held
    BY Zenon, <1>1 DEF Labels, Held
  <2>4. /\ locker' \in Creates \cup {Nil}
        /\ onRunner' \subseteq Creates /\ untracked' \subseteq Creates
    BY Zenon, <1>1, <1>2
  <2>5. QED
    BY Zenon, <1>1, <1>3, <1>4, <2>1, <2>2, <2>3, <2>4, MoveKeeps
<1>5. CASE /\ rows' = rows \cup {c}
           /\ \E l \in {"release", "rollback"} : Goto(c, l)
  <2>1. PICK l \in {"release", "rollback"} : Goto(c, l)
    BY Zenon, <1>5
  <2>2. TypeOK'
    BY Zenon, <1>1, <1>5, <2>1 DEF Inv, TypeOK, Goto, Labels, creates
  <2>3. \A q \in Pods : Reserved(q)' = Reserved(q) /\ Reading(q)' = Reading(q)
    BY Zenon, <1>1, <2>1 DEF Inv, TypeOK, Goto, Reserved, Reading, Counted
  <2>4. EntryAccounted'
    BY Zenon, <1>1, <2>3 DEF Inv, EntryAccounted, creates
  <2>5. ReserveInv' /\ LimitInv'
    BY Zenon, <1>1, <2>1 DEF Inv, TypeOK, ReserveInv, LimitInv, Goto, creates
  <2>6. SavedInv'
    BY <1>1, <1>5, <2>1 DEF Inv, TypeOK, SavedInv, Goto
  <2>7. 0 \notin limitsSeen => \A q \in Pods : OnlyPod(q) => c \in Reserved(q)
    <3> SUFFICES ASSUME 0 \notin limitsSeen, NEW q \in Pods, OnlyPod(q)
                 PROVE  c \in Reserved(q)
      BY Zenon
    <3>1. limit[c] \in limitsSeen /\ limitsSeen \subseteq Limits
      BY Zenon, <1>1 DEF Inv, LimitInv, TypeOK
    <3>2. limit[c] \in Nat /\ limit[c] # 0
      BY Zenon, <3>1, LimitsNat
    <3>3. QED
      BY <1>1, <3>2 DEF Reserved, OnlyPod, Counted
  <2>8. ReadInv'
    <3> SUFFICES ASSUME NEW q \in Pods, OnlyPod(q), 0 \notin limitsSeen,
                        NEW d \in Creates, pc'[d] = "decide"
                 PROVE  Cardinality(rows' \ Reserved(q)) + savedBefore[d]
                            <= n[d] + saved[q]
      BY Zenon, <1>1, <2>3 DEF ReadInv, OnlyPod, creates
    <3>1. rows' \ Reserved(q) = rows \ Reserved(q)
      BY Zenon, <1>5, <2>7
    <3>2. pc[d] = "decide"
      BY Zenon, <1>1, <2>1 DEF Inv, TypeOK, Goto
    <3>3. QED
      BY Zenon, <3>1, <3>2 DEF Inv, ReadInv
  <2>9. OnePodQuota'
    <3> SUFFICES ASSUME NEW q \in Pods, OnlyPod(q)
                 PROVE  \E m \in limitsSeen :
                            m = 0 \/ Cardinality(rows' \cup Reserved(q)) <= m
      BY Zenon, <1>1, <2>3 DEF OnePodQuota, OnlyPod, Within
    <3>1. CASE 0 \in limitsSeen
      BY Zenon, <3>1
    <3>2. CASE 0 \notin limitsSeen
      <4>1. rows' \cup Reserved(q) = rows \cup Reserved(q)
        BY Zenon, <1>5, <2>7, <3>2
      <4>2. QED
        BY Zenon, <4>1 DEF Inv, OnePodQuota, OnlyPod, Within
    <3>3. QED
      BY Zenon, <3>1, <3>2
  <2>10. QED
    BY Zenon, <2>2, <2>4, <2>5, <2>6, <2>8, <2>9 DEF Inv
<1>6. QED
    BY Zenon, <1>4, <1>5 DEF InsertSandbox

LEMMA ReleaseKeeps ==
    ASSUME Inv, NEW c \in Creates, Release(c)
    PROVE  Inv'
<1> DEFINE p == PodOf[c]
           s == IF mayBeSaved[c] THEN saved[p] + 1 ELSE saved[p]
<1>0. p \in Pods /\ "done" \in Labels
    BY Zenon, QuotaAssumption DEF Labels
<1>1. /\ pc[c] = "release" /\ Goto(c, "done")
      /\ UNCHANGED <<rows, limitsSeen, maxSandboxes, limit, savedBefore, n,
                     mayBeSaved, locker, tenant, read, onRunner, untracked,
                     deleting>>
    BY Zenon DEF Release, store, runner, locals
<1>2. /\ inProgress \in [Pods -> Nat] /\ saved \in [Pods -> Nat]
      /\ reading \in [Pods -> Nat] /\ TypeOK /\ EntryAccounted
      /\ rows \subseteq Creates
    BY Zenon DEF Inv, TypeOK
<1>3. \A q \in Pods : Reading(q)' = Reading(q)
    BY Zenon, <1>1 DEF Inv, TypeOK, Goto, Reading
<1>4. \A q \in Pods : Reserved(q)' = Reserved(q) \ {c}
    BY <1>0, <1>1, <1>2, ReservedStep DEF Held
<1>5. pc' \in [Creates -> Labels]
    BY Zenon, <1>0, <1>1 DEF Inv, TypeOK, Goto
<1>6. \A d \in Creates : pc'[d] \in {"count", "decide"} => pc[d] = pc'[d]
    BY Zenon, <1>1 DEF Inv, TypeOK, Goto
<1>7. SavedInv' /\ LimitInv'
    BY Zenon, <1>1 DEF Inv, TypeOK, SavedInv, LimitInv, Goto
<1>9. OnePodQuota'
  <2> SUFFICES ASSUME NEW q \in Pods, OnlyPod(q)
               PROVE  \E m \in limitsSeen' :
                          m = 0 \/ Cardinality(rows \cup Reserved(q)') <= m
    BY Zenon, <1>1 DEF OnePodQuota, OnlyPod, Within
  <2>1. /\ rows \cup Reserved(q)' \subseteq rows \cup Reserved(q)
        /\ rows \cup Reserved(q) \subseteq Creates
        /\ limitsSeen \subseteq limitsSeen'
    BY Zenon, <1>1, <1>2, <1>4 DEF Reserved
  <2>2. Within(rows \cup Reserved(q))
    BY Zenon DEF Inv, OnePodQuota, OnlyPod
  <2>3. QED
    BY Zenon, <1>2, <2>1, <2>2, WithinShrinks
<1>10. CASE ~Counted(c)
  <2>1. UNCHANGED creates
    BY Zenon, <1>10 DEF Release
  <2>2. \A q \in Pods : Reserved(q)' = Reserved(q)
    BY Zenon, <1>4, <1>10 DEF Reserved
  <2>3. TypeOK'
    BY Zenon, <1>1, <1>5, <2>1 DEF Inv, TypeOK, creates
  <2>4. EntryAccounted'
    BY Zenon, <1>2, <1>3, <2>1, <2>2 DEF EntryAccounted, creates
  <2>5. ReserveInv'
    BY Zenon, <1>1, <1>6, <2>1 DEF Inv, ReserveInv, creates
  <2>6. ReadInv'
    BY Zenon, <1>1, <1>6, <2>1, <2>2 DEF Inv, ReadInv, OnlyPod, creates
  <2>7. QED
    BY Zenon, <1>7, <1>9, <2>3, <2>4, <2>5, <2>6 DEF Inv
<1>11. CASE Counted(c)
  <2>1. SetCreates(p, inProgress[p] - 1, s, reading[p])
    BY Zenon, <1>11 DEF Release
  <2>2. /\ c \in Reserved(p) /\ Reserved(p) \subseteq Creates
        /\ \A q \in Pods \ {p} : c \notin Reserved(q)
    BY Zenon, <1>1, <1>11 DEF Reserved
  <2>3. /\ Cardinality(Reserved(p)') = inProgress[p] - 1
        /\ inProgress[p] \in Nat /\ inProgress[p] > 0
    <3>1. Cardinality(Reserved(p)) = inProgress[p] /\ inProgress[p] \in Nat
      BY Zenon, <1>0, <1>2 DEF EntryAccounted
    <3>2. /\ Cardinality(Reserved(p) \ {c}) = Cardinality(Reserved(p)) - 1
          /\ Cardinality(Reserved(p)) > 0
      BY Zenon, <2>2, Sizes
    <3>3. Reserved(p)' = Reserved(p) \ {c}
      BY Zenon, <1>0, <1>4
    <3>4. QED
      BY Zenon, <3>1, <3>2, <3>3
  <2>4. s \in Nat /\ s >= saved[p]
    BY <1>0, <1>2
  <2>5. /\ inProgress' = [inProgress EXCEPT ![p] = inProgress[p] - 1]
        /\ reading' = [reading EXCEPT ![p] = reading[p]]
        /\ saved' = [saved EXCEPT ![p] =
                        IF inProgress[p] - 1 = 0 /\ reading[p] = 0
                        THEN 0 ELSE s]
    BY Zenon, <2>1 DEF SetCreates
  <2>6. EntryAccounted'
    <3>1. /\ inProgress[p]' = inProgress[p] - 1 /\ reading[p]' = reading[p]
          /\ inProgress[p]' + reading[p]' = 0 => saved[p]' = 0
      BY <1>0, <1>2, <2>3, <2>5
    <3>2. \A q \in Pods \ {p} :
              /\ inProgress[q]' = inProgress[q] /\ saved[q]' = saved[q]
              /\ reading[q]' = reading[q]
      BY Zenon, <1>0, <1>2, <2>5
    <3>3. \A q \in Pods \ {p} : Reserved(q) \ {c} = Reserved(q)
      BY Zenon, <2>2
    <3>4. \A q \in Pods \ {p} :
              /\ Reserved(q)' = Reserved(q) /\ Reading(q)' = Reading(q)
              /\ inProgress[q]' = inProgress[q] /\ saved[q]' = saved[q]
              /\ reading[q]' = reading[q]
      BY Zenon, <1>3, <1>4, <3>2, <3>3
    <3>5. /\ inProgress[p]' = Cardinality(Reserved(p)')
          /\ reading[p]' = Cardinality(Reading(p)')
      BY Zenon, <1>0, <1>2, <1>3, <2>3, <3>1 DEF EntryAccounted
    <3>6. QED
      BY Zenon, <1>0, <1>2, <3>1, <3>4, <3>5, EntryStep
  <2>7. TypeOK'
    <3>1. /\ inProgress' \in [Pods -> Nat] /\ saved' \in [Pods -> Nat]
          /\ reading' \in [Pods -> Nat]
      BY <1>0, <1>2, <2>3, <2>4, <2>5
    <3>2. QED
      BY Zenon, <1>1, <1>2, <1>5, <3>1 DEF TypeOK
  <2>8. \A d \in Creates : pc'[d] \in {"count", "decide"} =>
            saved'[PodOf[d]] = IF PodOf[d] = p THEN s ELSE saved[PodOf[d]]
    <3> SUFFICES ASSUME NEW d \in Creates, pc'[d] \in {"count", "decide"}
                 PROVE  saved'[PodOf[d]] =
                            IF PodOf[d] = p THEN s ELSE saved[PodOf[d]]
      BY Zenon
    <3>1. CASE PodOf[d] = p
      <4>1. saved'[p] = s
        BY <1>0, <1>2, <2>1, <2>6, <3>1, NotForgotten
      <4>2. QED
        BY Zenon, <3>1, <4>1
    <3>2. CASE PodOf[d] # p
      BY Zenon, <1>0, <1>2, <2>5, <3>2, QuotaAssumption
    <3>3. QED
      BY Zenon, <3>1, <3>2
  <2>9. ReserveInv'
    <3> SUFFICES ASSUME NEW d \in Creates, pc'[d] \in {"count", "decide"}
                 PROVE  savedBefore[d] <= saved'[PodOf[d]] /\ limit[d] > 0
      BY Zenon, <1>1 DEF ReserveInv
    <3>1. savedBefore[d] <= saved[PodOf[d]] /\ limit[d] > 0
      BY Zenon, <1>6 DEF Inv, ReserveInv
    <3>2. savedBefore[d] \in Nat /\ PodOf[d] \in Pods /\ saved[PodOf[d]] \in Nat
      BY Zenon, <1>2, QuotaAssumption DEF TypeOK
    <3>3. QED
      BY <1>0, <2>4, <2>8, <3>1, <3>2
  <2>10. ReadInv'
    <3> SUFFICES ASSUME NEW q \in Pods, OnlyPod(q), 0 \notin limitsSeen,
                        NEW d \in Creates, pc'[d] = "decide"
                 PROVE  Cardinality(rows \ Reserved(q)') + savedBefore[d]
                            <= n[d] + saved'[q]
      BY Zenon, <1>1 DEF ReadInv, OnlyPod
    <3>1. q = p /\ PodOf[d] = p /\ pc[d] = "decide"
      BY Zenon, <1>6 DEF OnlyPod
    <3>2. saved'[p] = s /\ Reserved(p)' = Reserved(p) \ {c}
      BY Zenon, <1>0, <1>4, <2>8, <3>1
    <3>3. Cardinality(rows \ Reserved(p)) + savedBefore[d] <= n[d] + saved[p]
      BY Zenon, <3>1 DEF Inv, ReadInv
    <3>4. /\ savedBefore[d] \in Nat /\ n[d] \in Nat /\ saved[p] \in Nat
      BY Zenon, <1>0, <1>2 DEF TypeOK
    <3>5. rows \ Reserved(p) \in SUBSET Creates /\ c \notin rows \ Reserved(p)
      BY Zenon, <1>2, <2>2
    <3>6. /\ Cardinality((rows \ Reserved(p)) \cup {c}) =
                 Cardinality(rows \ Reserved(p)) + 1
          /\ Cardinality(rows \ Reserved(p)) \in Nat
      BY Zenon, <3>5, Sizes
    <3>7. CASE c \in rows
      <4>1. mayBeSaved[c]
        BY Zenon, <1>1, <3>7 DEF Inv, SavedInv
      <4>2. rows \ Reserved(p)' = (rows \ Reserved(p)) \cup {c}
        BY Zenon, <2>2, <3>2, <3>7
      <4>3. s = saved[p] + 1
        BY Zenon, <4>1
      <4>4. /\ Cardinality(rows \ Reserved(q)') =
                   Cardinality(rows \ Reserved(p)) + 1
            /\ saved'[q] = saved[p] + 1
        BY Zenon, <3>1, <3>2, <3>6, <4>2, <4>3
      <4>5. QED
        BY <3>3, <3>4, <3>6, <4>4
    <3>8. CASE c \notin rows
      <4>1. rows \ Reserved(p)' = rows \ Reserved(p)
        BY Zenon, <2>2, <3>2, <3>8
      <4>2. /\ Cardinality(rows \ Reserved(q)') =
                   Cardinality(rows \ Reserved(p))
            /\ saved'[q] = s
        BY Zenon, <3>1, <3>2, <4>1
      <4>3. QED
        BY <2>4, <3>3, <3>4, <3>6, <4>2
    <3>9. QED
      BY Zenon, <3>7, <3>8
  <2>11. QED
    BY Zenon, <1>7, <1>9, <2>6, <2>7, <2>9, <2>10 DEF Inv
<1>12. QED
    BY Zenon, <1>10, <1>11

\* Rows that go, limits that are added and the end of the tenant keep the rest.
LEMMA OutsideKeeps ==
    ASSUME Inv, UNCHANGED <<creates, pc, locals>>,
           rows' \subseteq rows, limitsSeen \subseteq limitsSeen',
           limitsSeen' \subseteq Limits, maxSandboxes' \in limitsSeen',
           onRunner' \subseteq Creates, untracked' \subseteq Creates,
           deleting' \subseteq Creates,
           tenant' \in BOOLEAN, locker' \in Creates \cup {Nil}
    PROVE  Inv'
<1>1. TypeOK'
    BY Zenon DEF Inv, TypeOK, creates, locals
<1>2. \A q \in Pods : Reserved(q)' = Reserved(q) /\ Reading(q)' = Reading(q)
    BY Zenon DEF Reserved, Reading, Counted, locals
<1>3. EntryAccounted'
    BY Zenon, <1>2 DEF Inv, EntryAccounted, creates
<1>4. ReserveInv' /\ SavedInv' /\ LimitInv'
    BY Zenon DEF Inv, ReserveInv, SavedInv, LimitInv, creates, locals
<1>5. ReadInv'
  <2> SUFFICES ASSUME NEW q \in Pods, OnlyPod(q), 0 \notin limitsSeen',
                      NEW d \in Creates, pc[d] = "decide"
               PROVE  Cardinality(rows' \ Reserved(q)) + savedBefore[d]
                          <= n[d] + saved[q]
    BY Zenon, <1>2 DEF ReadInv, OnlyPod, creates, locals
  <2>1. Cardinality(rows \ Reserved(q)) + savedBefore[d] <= n[d] + saved[q]
    BY Zenon DEF Inv, ReadInv
  <2>2. /\ rows' \ Reserved(q) \subseteq rows \ Reserved(q)
        /\ rows \ Reserved(q) \subseteq Creates
        /\ rows' \ Reserved(q) \subseteq Creates
    BY Zenon DEF Inv, TypeOK
  <2>3. /\ Cardinality(rows' \ Reserved(q)) <= Cardinality(rows \ Reserved(q))
        /\ Cardinality(rows' \ Reserved(q)) \in Nat
        /\ Cardinality(rows \ Reserved(q)) \in Nat
    BY Zenon, <2>2, Finite, FS_Subset
  <2>4. savedBefore[d] \in Nat /\ n[d] \in Nat /\ saved[q] \in Nat
    BY Zenon DEF Inv, TypeOK
  <2>5. QED
    BY <2>1, <2>3, <2>4
<1>6. OnePodQuota'
  <2> SUFFICES ASSUME NEW q \in Pods, OnlyPod(q)
               PROVE  \E m \in limitsSeen' :
                          m = 0 \/ Cardinality(rows' \cup Reserved(q)) <= m
    BY Zenon, <1>2 DEF OnePodQuota, OnlyPod, Within
  <2>1. /\ rows' \cup Reserved(q) \subseteq rows \cup Reserved(q)
        /\ rows \cup Reserved(q) \subseteq Creates /\ TypeOK
    BY Zenon DEF Reserved, Inv, TypeOK
  <2>2. Within(rows \cup Reserved(q))
    BY Zenon DEF Inv, OnePodQuota, OnlyPod
  <2>3. QED
    BY Zenon, <2>1, <2>2, WithinShrinks
<1>7. QED
    BY Zenon, <1>1, <1>3, <1>4, <1>5, <1>6 DEF Inv

LEMMA InitInv == Init => Inv
<1> SUFFICES ASSUME Init
             PROVE  Inv
    OBVIOUS
<1>1. TypeOK
    BY QuotaAssumption DEF Init, TypeOK, Labels
<1>2. \A p \in Pods : Reserved(p) = {} /\ Reading(p) = {}
    BY Zenon DEF Init, Reserved, Reading
<1>3. Cardinality({}) = 0
    BY Zenon, FS_EmptySet
<1>4. EntryAccounted
    BY Zenon, <1>2, <1>3 DEF Init, EntryAccounted
<1>5. ReserveInv /\ SavedInv /\ LimitInv /\ ReadInv
    BY Zenon DEF Init, ReserveInv, SavedInv, LimitInv, ReadInv
<1>6. maxSandboxes \in limitsSeen /\ 0 <= maxSandboxes /\ rows = {}
    BY LimitsNat DEF Init
<1>7. OnePodQuota
  <2>1. \A p \in Pods : rows \cup Reserved(p) = {}
    BY Zenon, <1>2, <1>6
  <2>2. QED
    BY Zenon, <1>3, <1>6, <2>1 DEF OnePodQuota, Within
<1>8. QED
    BY Zenon, <1>1, <1>4, <1>5, <1>7 DEF Inv

LEMMA NextInv == Inv /\ [Next]_vars => Inv'
<1> SUFFICES ASSUME Inv, [Next]_vars
             PROVE  Inv'
    OBVIOUS
<1>1. ASSUME NEW c \in Creates, Create(c)
      PROVE  Inv'
    BY Zenon, <1>1, ReserveKeeps, CountUnlockedKeeps, DecideKeeps, PlaceKeeps,
       InsertSandboxKeeps, ReleaseKeeps DEF Create
<1>2. /\ rows \subseteq Creates /\ onRunner \subseteq Creates
      /\ untracked \subseteq Creates /\ deleting \subseteq Creates
      /\ tenant \in BOOLEAN /\ locker \in Creates \cup {Nil}
      /\ maxSandboxes \in limitsSeen /\ limitsSeen \subseteq Limits
    BY Zenon DEF Inv, TypeOK, LimitInv
<1>3. ASSUME NEW c \in Creates, Remove(c)
      PROVE  Inv'
  <2>1. /\ UNCHANGED <<creates, pc, locals, tenant, maxSandboxes, limitsSeen,
                       locker>>
        /\ rows' \subseteq rows /\ onRunner' \subseteq Creates
        /\ untracked' \subseteq Creates /\ deleting' \subseteq Creates
    BY Zenon, <1>2, <1>3 DEF Remove, DeleteOnRunner, DeleteRow, ReapGone,
       ReapOrphan, store, runner
  <2>2. QED
    BY Zenon, <1>2, <2>1, OutsideKeeps
<1>4. ASSUME NEW l \in Limits, UpdateTenantLimits(l)
      PROVE  Inv'
    BY Zenon, <1>2, <1>4, OutsideKeeps DEF UpdateTenantLimits, runner
<1>5. CASE DeleteTenant
    BY Zenon, <1>2, <1>5, OutsideKeeps DEF DeleteTenant, runner
<1>6. CASE UNCHANGED vars
    BY Zenon, <1>2, <1>6, OutsideKeeps DEF vars, store, runner
<1>7. QED
    BY Zenon, <1>1, <1>3, <1>4, <1>5, <1>6 DEF Next

LEMMA AlwaysInv == Spec => []Inv
BY InitInv, NextInv, PTL DEF Spec

\* With a single pod, for any number of creates, limits and reads, the creates
\* that passed reserve and the saved sandboxes together stay within the largest
\* limit, although the saved count is read with the mutex released.
THEOREM OnePodQuotaHolds == Spec => []OnePodQuota
<1>1. Inv => OnePodQuota
    BY Zenon DEF Inv
<1>2. QED
    BY <1>1, AlwaysInv, PTL

\* tenantCreates is exact on every pod: every slot taken by reserve is released
\* once, and forgetIfIdle forgets no entry in use.
THEOREM EntryAccountedHolds == Spec => [](TypeOK /\ EntryAccounted)
<1>1. Inv => TypeOK /\ EntryAccounted
    BY Zenon DEF Inv
<1>2. QED
    BY <1>1, AlwaysInv, PTL

-----------------------------------------------------------------------------
(* The tenant's row, its sandboxes' rows and the runners                   *)

\* The create between the count and the commit holds the row lock, and has found
\* the tenant under it; the room its count found is still there.
LockInv ==
    /\ \A c \in Creates : pc[c] \in {"tally", "insert"} => locker = c
    /\ locker # Nil => tenant
    /\ \A c \in Creates : pc[c] = "insert" =>
          maxSandboxes = 0 \/ Cardinality(rows) < maxSandboxes

\* A create moves on and none of what LockInv is about changes.
LEMMA LockStep ==
    ASSUME TypeOK, LockInv, NEW c \in Creates,
           NEW l \in Labels \ {"tally", "insert"}, Goto(c, l),
           UNCHANGED <<tenant, locker, maxSandboxes, rows>>
    PROVE  LockInv'
BY Zenon DEF TypeOK, LockInv, Goto

\* Rows that go leave the room that a count found.
LEMMA RowsGo ==
    ASSUME TypeOK, LockInv, rows' \subseteq rows,
           UNCHANGED <<tenant, locker, maxSandboxes, pc>>
    PROVE  LockInv'
<1>1. Cardinality(rows') <= Cardinality(rows)
    BY Zenon, Finite, FS_Subset DEF TypeOK
<1>2. Cardinality(rows) \in Nat /\ Cardinality(rows') \in Nat
    BY Zenon, Finite DEF TypeOK
<1>3. maxSandboxes \in Nat
    BY Zenon, LimitsNat DEF TypeOK
<1>4. ASSUME Cardinality(rows) < maxSandboxes
      PROVE  Cardinality(rows') < maxSandboxes
    BY <1>1, <1>2, <1>3, <1>4
<1>5. QED
    BY Zenon, <1>4 DEF LockInv

LEMMA LockInvNext == TypeOK /\ LockInv /\ [Next]_vars => LockInv'
<1> SUFFICES ASSUME TypeOK, LockInv, [Next]_vars PROVE LockInv'
    OBVIOUS
<1> USE DEF store
<1>1. ASSUME NEW c \in Creates, Create(c) PROVE LockInv'
  <2>1. CASE Reserve(c)
    BY Zenon, <2>1, LockStep DEF Reserve, Labels
  <2>2. CASE CountUnlocked(c)
    BY Zenon, <2>2, LockStep DEF CountUnlocked, Labels
  <2>3. CASE Decide(c)
    BY Zenon, <2>3, LockStep DEF Decide, Labels
  <2>4. CASE Place(c)
    BY Zenon, <2>4, LockStep DEF Place, Labels
  <2>5. CASE LockTenant(c)
    BY <2>5, QuotaAssumption DEF TypeOK, LockInv, LockTenant, Goto
  <2>6. CASE CountSandboxes(c)
    <3>1. /\ pc[c] = "tally" /\ locker = c
          /\ UNCHANGED <<tenant, maxSandboxes, rows>>
      BY Zenon, <2>6 DEF LockInv, CountSandboxes
    <3>2. \A d \in Creates : d # c => pc'[d] \notin {"tally", "insert"}
      BY Zenon, <2>6, <3>1 DEF TypeOK, LockInv, CountSandboxes, Goto
    <3>3. CASE pc'[c] = "insert"
      <4>1. ~QuotaFull /\ locker' = locker
        BY Zenon, <2>6, <3>3 DEF TypeOK, CountSandboxes, Goto
      <4>2. maxSandboxes = 0 \/ Cardinality(rows) < maxSandboxes
        <5>1. maxSandboxes \in Nat /\ Cardinality(rows) \in Nat
          BY Zenon, LimitsNat, Finite DEF TypeOK
        <5>2. QED
          BY <4>1, <5>1 DEF QuotaFull
      <4>3. QED
        BY Zenon, <3>1, <3>2, <4>1, <4>2 DEF LockInv
    <3>4. CASE pc'[c] # "insert"
      BY Zenon, <2>6, <3>1, <3>2, <3>4 DEF TypeOK, LockInv, CountSandboxes, Goto
    <3>5. QED
      BY Zenon, <3>3, <3>4
  <2>7. CASE InsertSandbox(c)
    <3>1. \A d \in Creates : pc'[d] \notin {"tally", "insert"}
      BY Zenon, <2>7 DEF TypeOK, LockInv, InsertSandbox, Goto
    <3>2. QED
      BY Zenon, <2>7, <3>1 DEF LockInv, InsertSandbox
  <2>8. CASE RollbackRunnerCreate(c)
    BY Zenon, <2>8, LockStep DEF RollbackRunnerCreate, Labels
  <2>9. CASE Release(c)
    BY Zenon, <2>9, LockStep DEF Release, Labels
  <2>10. QED
    BY Zenon, <1>1, <2>1, <2>2, <2>3, <2>4, <2>5, <2>6, <2>7, <2>8, <2>9
       DEF Create
<1>2. ASSUME NEW c \in Creates, Remove(c) PROVE LockInv'
  <2>1. rows' \subseteq rows /\ UNCHANGED <<tenant, locker, maxSandboxes, pc>>
    BY Zenon, <1>2 DEF Remove, DeleteOnRunner, DeleteRow, ReapGone, ReapOrphan
  <2>2. QED
    BY Zenon, <2>1, RowsGo
<1>3. ASSUME NEW l \in Limits, UpdateTenantLimits(l) PROVE LockInv'
  <2>1. \A c \in Creates : pc[c] \notin {"tally", "insert"}
    BY Zenon, <1>3, QuotaAssumption DEF UpdateTenantLimits, LockInv
  <2>2. QED
    BY Zenon, <1>3, <2>1 DEF UpdateTenantLimits, LockInv
<1>4. CASE DeleteTenant
    BY Zenon, <1>4 DEF DeleteTenant, LockInv
<1>5. CASE UNCHANGED vars
    BY Zenon, <1>5 DEF vars, LockInv
<1>6. QED
    BY Zenon, <1>1, <1>2, <1>3, <1>4, <1>5 DEF Next

\* Only a create that holds the row lock adds a row, and the limit and the other
\* rows are still what its count saw, or fewer.
LEMMA StoreQuotaNext ==
    TypeOK /\ SavedInv /\ LimitInv /\ LockInv /\ StoreQuota /\ [Next]_vars
        => StoreQuota'
<1> SUFFICES ASSUME TypeOK, SavedInv, LimitInv, LockInv, StoreQuota, [Next]_vars
             PROVE  StoreQuota'
    OBVIOUS
<1>1. rows \subseteq Creates /\ Within(rows)
    BY Zenon DEF TypeOK, StoreQuota
<1>2. ASSUME rows' \subseteq rows, limitsSeen \subseteq limitsSeen'
      PROVE  StoreQuota'
    BY Zenon, <1>1, <1>2, WithinShrinks DEF StoreQuota, Within
<1>3. ASSUME NEW c \in Creates, InsertSandbox(c)
      PROVE  StoreQuota'
  <2>1. limitsSeen' = limitsSeen /\ (rows' = rows \/ rows' = rows \cup {c})
    BY Zenon, <1>3 DEF InsertSandbox
  <2>2. CASE rows' = rows
    BY Zenon, <1>2, <2>1, <2>2
  <2>3. CASE rows' = rows \cup {c}
    <3>1. c \notin rows /\ (maxSandboxes = 0 \/ Cardinality(rows) < maxSandboxes)
      BY Zenon, <1>3 DEF InsertSandbox, SavedInv, LockInv
    <3>2. /\ Cardinality(rows') = Cardinality(rows) + 1
          /\ Cardinality(rows) \in Nat
      BY Zenon, <1>1, <2>3, <3>1, Sizes
    <3>3. maxSandboxes \in limitsSeen /\ maxSandboxes \in Nat
      BY Zenon, LimitsNat DEF LimitInv, TypeOK
    <3>4. maxSandboxes = 0 \/ Cardinality(rows') <= maxSandboxes
      BY <3>1, <3>2, <3>3
    <3>5. QED
      BY Zenon, <2>1, <3>3, <3>4 DEF StoreQuota, Within
  <2>4. QED
    BY Zenon, <2>1, <2>2, <2>3
<1>4. ASSUME NEW c \in Creates, Create(c), ~InsertSandbox(c)
      PROVE  StoreQuota'
  <2>1. rows' = rows /\ limitsSeen' = limitsSeen
    BY Zenon, <1>4 DEF Create, Reserve, CountUnlocked, Decide, Place, LockTenant,
       CountSandboxes, RollbackRunnerCreate, Release, store
  <2>2. QED
    BY Zenon, <1>2, <2>1
<1>5. ASSUME NEW c \in Creates, Remove(c)
      PROVE  StoreQuota'
  <2>1. rows' \subseteq rows /\ limitsSeen' = limitsSeen
    BY Zenon, <1>5 DEF Remove, DeleteOnRunner, DeleteRow, ReapGone, ReapOrphan,
       store
  <2>2. QED
    BY Zenon, <1>2, <2>1
<1>6. ASSUME NEW l \in Limits, UpdateTenantLimits(l)
      PROVE  StoreQuota'
    BY Zenon, <1>2, <1>6 DEF UpdateTenantLimits
<1>7. CASE DeleteTenant
    BY Zenon, <1>2, <1>7 DEF DeleteTenant
<1>8. CASE UNCHANGED vars
    BY Zenon, <1>2, <1>8 DEF vars, store
<1>9. QED
    BY Zenon, <1>3, <1>4, <1>5, <1>6, <1>7, <1>8 DEF Next

\* For any number of pods, creates and limits, the tenant's saved sandboxes stay
\* within the largest limit it was given, although SandboxStore.Create counts and
\* inserts in two statements: both are made under the tenant's row lock.
THEOREM StoreQuotaHolds == Spec => []StoreQuota
<1>1. Init => LockInv /\ StoreQuota
  <2>1. Cardinality({}) = 0 /\ \A l \in Limits : 0 <= l
    BY FS_EmptySet, LimitsNat
  <2>2. Init => StoreQuota
    BY Zenon, <2>1 DEF Init, StoreQuota, Within
  <2>3. Init => LockInv
    BY Zenon DEF Init, LockInv
  <2>4. QED
    BY Zenon, <2>2, <2>3
<1>2. Inv => TypeOK /\ SavedInv /\ LimitInv
    BY Zenon DEF Inv
<1>3. QED
    BY <1>1, <1>2, AlwaysInv, LockInvNext, StoreQuotaNext, PTL DEF Spec

LEMMA NoRowNext ==
    TypeOK /\ LockInv /\ NoRowWithoutTenant /\ [Next]_vars => NoRowWithoutTenant'
<1> SUFFICES ASSUME TypeOK, LockInv, NoRowWithoutTenant, [Next]_vars PROVE NoRowWithoutTenant'
    OBVIOUS
<1> USE DEF store, NoRowWithoutTenant
<1>1. ASSUME NEW c \in Creates, Create(c) PROVE NoRowWithoutTenant'
  <2>1. CASE InsertSandbox(c)
    <3>1. tenant /\ tenant' = tenant
      BY <2>1, QuotaAssumption DEF InsertSandbox, LockInv
    <3>2. QED
      BY Zenon, <3>1
  <2>2. CASE ~InsertSandbox(c)
    <3>1. rows' = rows /\ tenant' = tenant
      BY Zenon, <1>1, <2>2 DEF Create, Reserve, CountUnlocked, Decide, Place, LockTenant,
         CountSandboxes, RollbackRunnerCreate, Release
    <3>2. QED
      BY Zenon, <3>1
  <2>3. QED
    BY Zenon, <2>1, <2>2
<1>2. ASSUME NEW c \in Creates, Remove(c) PROVE NoRowWithoutTenant'
  <2>1. rows' \subseteq rows /\ tenant' = tenant
    BY Zenon, <1>2 DEF Remove, DeleteOnRunner, DeleteRow, ReapGone, ReapOrphan
  <2>2. QED
    BY Zenon, <2>1
<1>3. ASSUME NEW l \in Limits, UpdateTenantLimits(l) PROVE NoRowWithoutTenant'
    BY Zenon, <1>3 DEF UpdateTenantLimits
<1>4. CASE DeleteTenant
    BY Zenon, <1>4 DEF DeleteTenant
<1>5. CASE UNCHANGED vars
    BY Zenon, <1>5 DEF vars
<1>6. QED
    BY Zenon, <1>1, <1>2, <1>3, <1>4, <1>5 DEF Next

\* DeleteTenant never leaves a sandbox row behind, for any number of pods and creates:
\* the emptiness check and the insert take the same lock, and the insert has looked for
\* the tenant under it.
THEOREM NoRowWithoutTenantHolds == Spec => []NoRowWithoutTenant
<1>1. Init => LockInv /\ NoRowWithoutTenant
    BY Zenon DEF Init, LockInv, NoRowWithoutTenant
<1>2. Inv => TypeOK
    BY Zenon DEF Inv
<1>3. QED
    BY <1>1, <1>2, AlwaysInv, LockInvNext, NoRowNext, PTL DEF Spec

\* A sandbox whose delete the runner has confirmed stays off the runner: its create
\* is past the runner.
DeletedInv ==
    \A c \in deleting : c \notin onRunner /\ pc[c] \in {"rollback", "release", "done"}

\* Every other create keeps its place, and a create leaves "save", "tally", "insert"
\* and "rollback" only when its sandbox has a row, is untracked or is off the runner.
\* A row goes only after its sandbox, or into untracked.
LEMMA TrackedNext ==
    TypeOK /\ SavedInv /\ DeletedInv /\ RunnerSandboxTracked /\ [Next]_vars
        => DeletedInv' /\ RunnerSandboxTracked'
<1> SUFFICES ASSUME TypeOK, SavedInv, DeletedInv, RunnerSandboxTracked, [Next]_vars
             PROVE  DeletedInv' /\ RunnerSandboxTracked'
    OBVIOUS
<1> USE DEF store, runner, DeletedInv, RunnerSandboxTracked, TypeOK, Goto
<1>1. ASSUME NEW c \in Creates, Create(c)
      PROVE  DeletedInv' /\ RunnerSandboxTracked'
  <2>1. CASE Reserve(c)
    <3>1. pc[c] = "idle" /\ UNCHANGED <<rows, onRunner, untracked, deleting>>
          /\ \A d \in Creates : d # c => pc'[d] = pc[d]
      BY Zenon, <2>1 DEF Reserve
    <3>2. QED
      BY Zenon, <3>1
  <2>2. CASE CountUnlocked(c)
    BY Zenon, <2>2 DEF CountUnlocked
  <2>3. CASE Decide(c)
    BY Zenon, <2>3 DEF Decide
  <2>4. CASE Place(c)
    BY <2>4 DEF Place
  <2>5. CASE LockTenant(c)
    BY <2>5 DEF LockTenant
  <2>6. CASE CountSandboxes(c)
    BY <2>6 DEF CountSandboxes
  <2>7. CASE InsertSandbox(c)
    BY <2>7 DEF InsertSandbox
  <2>8. CASE RollbackRunnerCreate(c)
    BY <2>8 DEF RollbackRunnerCreate
  <2>9. CASE Release(c)
    BY Zenon, <2>9 DEF Release
  <2>10. QED
    BY Zenon, <1>1, <2>1, <2>2, <2>3, <2>4, <2>5, <2>6, <2>7, <2>8, <2>9
       DEF Create
<1>2. ASSUME NEW c \in Creates, Remove(c)
      PROVE  DeletedInv' /\ RunnerSandboxTracked'
  <2>1. CASE DeleteOnRunner(c)
    BY <2>1 DEF DeleteOnRunner, SavedInv
  <2>2. CASE DeleteRow(c)
    BY <2>2 DEF DeleteRow
  <2>3. CASE ReapGone(c)
    BY <2>3 DEF ReapGone
  <2>4. CASE ReapOrphan(c)
    BY <2>4 DEF ReapOrphan
  <2>5. QED
    BY Zenon, <1>2, <2>1, <2>2, <2>3, <2>4 DEF Remove
<1>3. ASSUME NEW l \in Limits, UpdateTenantLimits(l)
      PROVE  DeletedInv' /\ RunnerSandboxTracked'
    BY Zenon, <1>3 DEF UpdateTenantLimits
<1>4. CASE DeleteTenant
    BY Zenon, <1>4 DEF DeleteTenant
<1>5. CASE UNCHANGED vars
    BY Zenon, <1>5 DEF vars
<1>6. QED
    BY Zenon, <1>1, <1>2, <1>3, <1>4, <1>5 DEF Next

\* On every path of handleCreateSandbox, of a delete and of the two reaps, whose calls
\* to the runner and to the store are separate steps, a sandbox without a row on a
\* runner is one that its create is still dealing with or one that was given up.
THEOREM RunnerSandboxTrackedHolds == Spec => []RunnerSandboxTracked
<1>1. Init => DeletedInv /\ RunnerSandboxTracked
    BY Zenon DEF Init, DeletedInv, RunnerSandboxTracked
<1>2. Inv => TypeOK /\ SavedInv
    BY Zenon DEF Inv
<1>3. QED
    BY <1>1, <1>2, AlwaysInv, TrackedNext, PTL DEF Spec
=============================================================================
