---------------------------- MODULE FcGuestProofs ---------------------------
(***************************************************************************)
(* What every step of the Firecracker runtime does to the microVMs and     *)
(* their handles, to the slots (reserveSlotLocked and releaseSlotLocked)   *)
(* and to the snapshots (startGuest's pin).  FcRuntimeProofs draws the     *)
(* conclusions.                                                            *)
(***************************************************************************)
EXTENDS FcInvariant, TLAPS

\* What the argument needs of the types.
LEMMA GuestTypes ==
    ASSUME ExclusionInv
    PROVE  /\ pc \in [Threads -> Labels]
           /\ inc \in [Threads -> Incarnations \cup {NoIncarnation}]
           /\ op \in [Threads -> {"none", "create", "stop", "wake", "delete",
                                  "crash", "shutdown"}]
           /\ captured \in [Threads -> Nat]
           /\ takenProcess \in [Threads -> Nat \cup {NoProcess}]
           /\ process \in [Incarnations -> Nat \cup {NoProcess}]
           /\ generation \in [Incarnations -> Nat]
           /\ stopped \in [Incarnations -> BOOLEAN]
           /\ transition \in [Incarnations -> {"none", "creating", "stopping",
                                               "waking", "deleting"}]
           /\ made \in 0 .. MaxIncarnations
           /\ guests \subseteq Guests
           /\ exits \subseteq Incarnations \X Nat
           /\ deaths \subseteq Incarnations \X Nat
           /\ killed \subseteq Incarnations \X Nat
           /\ BoundThreads
BY Zenon DEF ExclusionInv, TypeOK, TypeThreads, TypeSandbox, TypeHost,
   TypeHistory, Bound

-----------------------------------------------------------------------------
(* The nil values, and the order of generations and sandboxStates.         *)

\* No sandboxState, slot or process handle is a nil one.
LEMMA NoneApart ==
    NoIncarnation \notin Incarnations /\ NoSlot \notin Slots /\ NoProcess \notin Nat
BY DEF NoIncarnation, Incarnations, NoSlot, Slots, NoProcess

\* The order of the generations.
LEMMA NatOrder ==
    /\ NoProcess <= 0
    /\ \A n \in Nat : n <= n /\ ~(n < n)
BY DEF NoProcess

\* The generation a teardown starts is above every earlier one.
LEMMA NextOrder ==
    \A n \in Nat : /\ NoProcess < n + 1 /\ NoProcess <= n + 1
                   /\ n + 1 \in Nat /\ ~(n + 1 <= n)
                   /\ \A m \in Nat : /\ m <= n => m <= n + 1 /\ m < n + 1
                                     /\ m < n => m < n + 1
BY DEF NoProcess

\* The sandboxState a create makes is above every earlier one.
LEMMA MadeOrder ==
    \A n \in 0 .. MaxIncarnations :
        /\ n \in Nat /\ n <= n
        /\ n < MaxIncarnations => n + 1 \in Incarnations
        /\ n + 1 > n /\ n <= n + 1 /\ n + 1 \in Nat /\ ~(n + 1 <= n)
        /\ \A i \in Incarnations : i <= n => ~(i > n)
        /\ \A i \in Incarnations : i > n + 1 => i > n
        /\ \A i \in Incarnations, m \in Nat : n <= m /\ i > m => i > n
BY ConstantsAssumption DEF Incarnations

\* What the exits and the deaths hold.
LEMMA Pairs ==
    \A x \in Incarnations \X Nat :
        x = <<x[1], x[2]>> /\ x[1] \in Incarnations /\ x[2] \in Nat
OBVIOUS

-----------------------------------------------------------------------------
(* The microVMs of a step that starts and ends none.                       *)

SameGuests ==
    /\ \A h \in guests' : \E g \in guests :
          g.inc = h.inc /\ g.generation = h.generation
    /\ Unique => Unique'

\* A step that leaves the microVMs alone.
LEMMA UnchangedSame == ASSUME UNCHANGED guests PROVE SameGuests
BY Zenon DEF SameGuests, Unique

\* A network rebuilt takes microVMs off it and ends none (setupNetwork).
LEMMA IsolateSame ==
    ASSUME ExclusionInv, NEW s, guests' = Isolate(s)
    PROVE  SameGuests
<1>1. guests \subseteq Guests
    BY Zenon, GuestTypes
<1>2. ASSUME NEW h \in guests'
      PROVE  \E g \in guests :
                /\ g.inc = h.inc /\ g.generation = h.generation
                /\ h = IF g.netns = s THEN Guest(g.inc, g.generation, NoSlot, g.run)
                                      ELSE g
  <2>1. PICK g \in guests :
            h = IF g.netns = s THEN Guest(g.inc, g.generation, NoSlot, g.run)
                               ELSE g
    BY Zenon, <1>2 DEF Isolate
  <2>2. g.inc = h.inc /\ g.generation = h.generation
    BY Zenon, <2>1 DEF Guest
  <2>3. QED
    BY Zenon, <2>1, <2>2
<1>3. ASSUME Unique, NEW f \in guests', NEW h \in guests',
             f.inc = h.inc, f.generation = h.generation
      PROVE  f = h
  <2>1. PICK e \in guests :
            /\ e.inc = f.inc /\ e.generation = f.generation
            /\ f = IF e.netns = s THEN Guest(e.inc, e.generation, NoSlot, e.run)
                                  ELSE e
    BY Zenon, <1>2
  <2>2. PICK g \in guests :
            /\ g.inc = h.inc /\ g.generation = h.generation
            /\ h = IF g.netns = s THEN Guest(g.inc, g.generation, NoSlot, g.run)
                                  ELSE g
    BY Zenon, <1>2
  <2>3. e = g
    BY Zenon, <1>3, <2>1, <2>2 DEF Unique
  <2>4. QED
    BY Zenon, <2>1, <2>2, <2>3
<1>4. QED
    BY Zenon, <1>2, <1>3 DEF SameGuests, Unique

\* A request to a guest changes how it runs, not which one it is.
LEMMA SetRunSame ==
    ASSUME NEW g \in guests, NEW run, SetRun(g, run)
    PROVE  SameGuests
<1> DEFINE k == Guest(g.inc, g.generation, g.netns, run)
<1>1. k.inc = g.inc /\ k.generation = g.generation
    BY Zenon DEF Guest
<1>2. guests' = (guests \ {g}) \cup {k}
    BY Zenon DEF SetRun
<1> HIDE DEF k
<1>3. ASSUME Unique, NEW f \in guests', NEW h \in guests',
             f.inc = h.inc, f.generation = h.generation
      PROVE  f = h
    BY Zenon, <1>1, <1>2, <1>3 DEF Unique
<1>4. QED
    BY Zenon, <1>1, <1>2, <1>3 DEF SameGuests, Unique

-----------------------------------------------------------------------------
(***************************************************************************)
(* Every microVM keeps a handle that can kill it, and the generation tells *)
(* a kill from a death (activateSandboxVM, teardownRunningVM and           *)
(* recordGuestDeath).                                                      *)
(***************************************************************************)

(* The steps that leave handles, generations and microVMs alone.           *)

\* A step of one thread.
Alone(t) ==
    \A u \in Threads \ {t} :
        /\ pc'[u] = pc[u] /\ inc'[u] = inc[u] /\ op'[u] = op[u]
        /\ captured'[u] = captured[u] /\ takenProcess'[u] = takenProcess[u]

\* No sandboxState changes its handle or its generation.  A claim the thread
\* gives back is one under which a stopped sandbox has no microVM.
Undisturbed(t) ==
    /\ Alone(t)
    /\ UNCHANGED <<process, generation>>
    /\ made' \in Nat /\ made <= made'
    /\ \A i \in Incarnations : stopped'[i] => stopped[i]
    /\ \A i \in Incarnations :
          transition'[i] = "none" /\ stopped'[i] =>
              \/ transition[i] = "none"
              \/ t \in Threads /\ inc[t] = i /\ pc[t] \notin Active

\* The thread goes on without touching a microVM.
Walks(t) ==
    /\ Undisturbed(t)
    /\ UNCHANGED <<exits, deaths, killed>>
    /\ SameGuests
    /\ t \in Threads => pc[t] \notin {"kill", "publishProcess"}

\* The next label of an operation that touches no microVM.
Follows(t, l) ==
    /\ pc[t] \notin {"kill", "publishProcess", "untrack"}
    /\ l \notin {"kill", "publishProcess", "claimDeath"}
    /\ l \in BareAt => \/ pc[t] \in BareAt
                       \/ pc[t] \notin Active /\ stopped[inc[t]]
    /\ l \in Active \/ pc[t] \notin Active \/ op[t] = "create"
                    \/ ~stopped'[inc[t]]
    /\ l = "startJailer" => captured'[t] = generation[inc[t]]
    /\ l = "released" => op[t] # "create"

\* Nothing else changes that the microVMs depend on.
Quiet(t) ==
    /\ UNCHANGED <<op, inc, takenProcess>>
    /\ UNCHANGED <<process, generation, exits, deaths, killed, made>>
    /\ \A u \in Threads \ {t} : captured'[u] = captured[u]
    /\ SameGuests
    /\ \A i \in Incarnations : stopped'[i] => stopped[i]
    /\ \A i \in Incarnations : transition'[i] = "none" => transition[i] = "none"

-----------------------------------------------------------------------------
(* The steps that change the handle, the generation or the microVMs of the *)
(* sandboxState whose claim the thread holds.                              *)

Changes(t, i) ==
    /\ inc[t] = i /\ pc[t] # "untrack"
    /\ Alone(t)
    /\ UNCHANGED <<inc, op, transition, made>>
    /\ \A j \in Incarnations \ {i} :
          /\ process'[j] = process[j] /\ generation'[j] = generation[j]
          /\ stopped'[j] = stopped[j]
          /\ \A n \in Nat : Used(j, n)' => Used(j, n)

\* A runner starts without a microVM and without an operation.
LEMMA InitGuests == Init => GuestsOK
<1> SUFFICES ASSUME Init PROVE GuestsOK
    BY Zenon
<1>1. /\ guests = {} /\ exits = {} /\ deaths = {} /\ killed = {} /\ made = 0
      /\ \A i \in Incarnations : /\ process[i] = NoProcess /\ generation[i] = 0
                                 /\ ~stopped[i]
      /\ \A t \in Threads : pc[t] = "idle" /\ inc[t] = NoIncarnation
    BY Zenon DEF Init
<1>2. \A i, n : ~Used(i, n)
    BY Zenon, <1>1 DEF Used, Live
<1>3. ASSUME NEW t \in Threads PROVE ThreadOK(t)
    BY Zenon, <1>1 DEF ThreadOK
<1>4. ASSUME NEW i \in Incarnations PROVE SandboxOK(i)
  <2>1. process[i] <= generation[i]
    BY Zenon, <1>1, NatOrder
  <2>2. QED
    BY Zenon, <1>1, <1>2, <2>1 DEF SandboxOK
<1>5. HostOK
    BY Zenon, <1>1 DEF HostOK, NoOrphanGuest, Unique, KillIsNotDeath
<1>6. QED
    BY Zenon, <1>3, <1>4, <1>5 DEF GuestsOK

\* Every step keeps the microVMs and their handles: one named step per action
\* or group of actions, after the ones that say what such a step leaves alone.
LEMMA NextGuests == Up /\ [Next]_vars /\ phase' = "up" => GuestsOK'
\* A step that starts no microVM.  (A t that is no thread stands for the wirer
\* and for a microVM that dies.)
<1>UndisturbedKeeps.
    ASSUME Up, NEW t, Undisturbed(t), t \in Threads => ThreadOK(t)', HostOK',
           \A i \in Incarnations, n \in Nat : Used(i, n)' => Used(i, n)
    PROVE  GuestsOK'
  <2> USE <1>UndisturbedKeeps
  <2>1. ASSUME NEW i \in Incarnations, Bare(i)
        PROVE  Bare(i)'
    <3>1. generation[i] \in Nat /\ generation'[i] = generation[i]
      BY Zenon, GuestTypes DEF Up, Undisturbed
    <3>2. process'[i] = process[i]
      BY Zenon DEF Undisturbed
    <3>3. QED
      BY Zenon, <2>1, <3>1, <3>2 DEF Bare
  <2>2. ASSUME NEW u \in Threads
        PROVE  ThreadOK(u)'
    <3>1. CASE u = t
      BY Zenon, <3>1
    <3>2. CASE u # t
      <4>1. /\ pc'[u] = pc[u] /\ inc'[u] = inc[u] /\ op'[u] = op[u]
            /\ captured'[u] = captured[u] /\ takenProcess'[u] = takenProcess[u]
            /\ ThreadOK(u) /\ UNCHANGED <<process, generation>>
            /\ inc[u] \in Incarnations \cup {NoIncarnation}
        BY Zenon, <3>2, GuestTypes DEF Undisturbed, Alone, Up, GuestsOK
      <4>2. \A i \in Incarnations : stopped'[i] => stopped[i]
        BY Zenon DEF Undisturbed
      <4>3. QED
        BY Zenon, <2>1, <4>1, <4>2 DEF ThreadOK
    <3>3. QED
      BY Zenon, <3>1, <3>2
  <2>3. ASSUME NEW i \in Incarnations
        PROVE  SandboxOK(i)'
    <3>1. /\ process'[i] = process[i] /\ generation'[i] = generation[i]
          /\ stopped'[i] => stopped[i]
          /\ SandboxOK(i) /\ (t \in Threads => ThreadOK(t))
      BY Zenon DEF Undisturbed, Up, GuestsOK
    <3>2. i > made' => i > made
      BY Zenon, GuestTypes, MadeOrder DEF Undisturbed, Up
    <3>3. transition'[i] = "none" /\ stopped'[i] => Bare(i)'
      <4>1. i # NoIncarnation
        BY Zenon, NoneApart
      <4>2. QED
        BY Zenon, <2>1, <3>1, <4>1 DEF Undisturbed, SandboxOK, ThreadOK
    <3>4. QED
      BY Zenon, <3>1, <3>2, <3>3 DEF SandboxOK
  <2>4. QED
      BY Zenon, <2>2, <2>3 DEF GuestsOK

<1>WalksKeeps.
    ASSUME Up, NEW t, Walks(t), t \in Threads => ThreadOK(t)'
    PROVE  GuestsOK'
  <2> USE <1>WalksKeeps
  <2>1. ASSUME NEW i \in Incarnations, NEW n \in Nat, Used(i, n)'
        PROVE  Used(i, n)
      BY Zenon, <2>1 DEF Used, Live, Walks, SameGuests
  <2>2. NoOrphanGuest'
    <3> SUFFICES ASSUME NEW h \in guests'
                 PROVE  \/ process'[h.inc] = h.generation
                        \/ \E u \in Threads :
                              /\ inc'[u] = h.inc
                              /\ \/ pc'[u] = "kill" /\ takenProcess'[u] = h.generation
                                 \/ pc'[u] = "publishProcess" /\ captured'[u] = h.generation
      BY Zenon DEF NoOrphanGuest
    <3>1. PICK g \in guests : g.inc = h.inc /\ g.generation = h.generation
      BY Zenon DEF Walks, SameGuests
    <3>2. \/ process[g.inc] = g.generation
          \/ \E u \in Threads :
                /\ inc[u] = g.inc
                /\ \/ pc[u] = "kill" /\ takenProcess[u] = g.generation
                   \/ pc[u] = "publishProcess" /\ captured[u] = g.generation
      BY Zenon DEF Up, GuestsOK, HostOK, NoOrphanGuest
    <3>3. QED
      BY Zenon, <3>1, <3>2 DEF Walks, Undisturbed, Alone
  <2>3. HostOK'
    <3>1. \A h \in guests' : <<h.inc, h.generation>> \notin exits' \cup deaths'
      BY Zenon DEF Walks, SameGuests, Up, GuestsOK, HostOK
    <3>2. Unique' /\ KillIsNotDeath' /\ \A x \in killed' : x[2] < generation'[x[1]]
      BY Zenon DEF Walks, Undisturbed, SameGuests, Up, GuestsOK, HostOK, KillIsNotDeath
    <3>3. QED
      BY Zenon, <2>2, <3>1, <3>2 DEF HostOK
  <2>4. QED
      BY Zenon, <2>1, <2>3, <1>UndisturbedKeeps DEF Walks

\* A thread that gives its sandboxState back, or is about to take its first one.
<1>LeavesKeeps.
    ASSUME Up, NEW t \in Threads, Walks(t), inc'[t] = NoIncarnation, pc'[t] # "claimDeath"
    PROVE  GuestsOK'
  <2> USE <1>LeavesKeeps
  <2>1. ThreadOK(t)'
      BY Zenon DEF ThreadOK
  <2>2. QED
      BY Zenon, <2>1, <1>WalksKeeps

<1>FollowsKeeps.
    ASSUME Up, NEW t \in Threads, NEW l \in Labels,
           Goto(t, l), Quiet(t), Follows(t, l)
    PROVE  GuestsOK'
  <2> USE <1>FollowsKeeps
  <2>1. pc'[t] = l /\ \A u \in Threads \ {t} : pc'[u] = pc[u]
      BY Zenon, GuestTypes DEF Goto, Up
  <2>2. made \in Nat /\ made <= made
      BY Zenon, GuestTypes, MadeOrder DEF Up
  <2>3. Walks(t)
      BY Zenon, <2>1, <2>2 DEF Walks, Undisturbed, Alone, Follows, Quiet
  <2>4. CASE inc[t] = NoIncarnation
      BY Zenon, <2>1, <2>3, <2>4, <1>LeavesKeeps DEF Quiet, Follows
  <2>5. CASE inc[t] # NoIncarnation
    <3> DEFINE i == inc[t]
    <3>1. i \in Incarnations /\ generation[i] \in Nat
      BY Zenon, <2>5, GuestTypes DEF Up
    <3>2. Bare(i) => Bare(i)'
      <4>1. Used(i, generation[i])' => Used(i, generation[i])
        BY Zenon DEF Used, Live, SameGuests, Quiet
      <4>2. QED
        BY Zenon, <4>1 DEF Bare, Quiet
    <3>3. /\ pc[t] \in BareAt => Bare(i)
          /\ pc[t] \notin Active /\ stopped[i] => Bare(i)
          /\ op[t] = "create" => ~stopped[i]
      BY Zenon, <2>5 DEF Up, GuestsOK, ThreadOK, Follows
    <3>4. stopped'[i] => stopped[i]
      BY Zenon, <3>1 DEF Quiet
    <3>5. ThreadOK(t)'
      BY Zenon, <2>1, <3>2, <3>3, <3>4 DEF ThreadOK, Follows, Quiet
    <3>6. QED
      BY Zenon, <2>3, <3>5, <1>WalksKeeps
  <2>6. QED
      BY Zenon, <2>4, <2>5

\* Steps that change no variable of a sandboxState but its slot or its pin.
<1>StillQuiet.
    ASSUME NEW t \in Threads, SameGuests, UNCHANGED <<op, inc, takenProcess>>,
           UNCHANGED captured \/ captured' = [captured EXCEPT ![t] = generation[inc[t]]],
           captured \in [Threads -> Nat],
           UNCHANGED <<process, generation, exits, deaths, killed, made>>,
           UNCHANGED <<stopped, transition>>
    PROVE  Quiet(t)
    BY Zenon, <1>StillQuiet DEF Quiet

\* From a step without a microVM to another one, or on to the cleanup.
<1>FromBare.
    ASSUME NEW t \in Threads, pc[t] \in BareAt \ {"kill"},
           NEW l \in (BareAt \ {"kill", "startJailer", "released"})
                     \cup {"delete", "teardown", "endTransition", "untrack"}
    PROVE  l \in Labels /\ Follows(t, l)
    BY Zenon, <1>FromBare DEF BareAt, Active, Labels, Follows

\* From a step of an operation that does not start a microVM.
<1>FromSettled.
    ASSUME NEW t \in Threads, pc[t] \in Labels \ (Active \cup {"kill"}),
           NEW l \in Labels \ (BareAt \cup {"publishProcess", "claimDeath"})
    PROVE  Follows(t, l)
    BY Zenon, <1>FromSettled DEF BareAt, Active, Labels, Follows

\* From a step of an activation that has its microVM.
<1>FromActive.
    ASSUME NEW t \in Threads,
           pc[t] \in Active \ {"publishProcess", "untrack"},
           NEW l, l \in Active \ {"publishProcess", "claimDeath"} \/ l = Rollback(t)
    PROVE  l \in Labels /\ Follows(t, l)
    BY Zenon, <1>FromActive DEF BareAt, Active, Labels, Follows, Rollback

\* One step per group of actions: what they do to the thread, then the step
\* they follow.
<1>PreparationKeeps.
    ASSUME Up, NEW t \in Threads,
           CloneAssets(t) \/ PrepareJail(t) \/ ActivateNetwork(t)
           \/ ReserveWakeSlot(t) \/ RemoveDataDir(t)
    PROVE  GuestsOK'
  <2> USE <1>PreparationKeeps
  <2>1. SameGuests
    <3>1. UNCHANGED guests \/ \E s \in Slots : guests' = Isolate(s)
      BY Zenon DEF CloneAssets, PrepareJail, ActivateNetwork, SetupNetwork,
         ReserveWakeSlot, RemoveDataDir, host
    <3>2. QED
      BY Zenon, <3>1, UnchangedSame, IsolateSame DEF Up
  <2>2. /\ UNCHANGED <<op, inc, takenProcess, captured>>
        /\ UNCHANGED <<process, generation, exits, deaths, killed, made>>
        /\ UNCHANGED <<stopped, transition>>
      BY Zenon DEF CloneAssets, PrepareJail, ActivateNetwork, ReserveWakeSlot,
         RemoveDataDir, locals, taken, sandbox, identity, handles, status, host, history
  <2>3. /\ pc[t] \in BareAt \ {"kill"}
        /\ \E l \in (BareAt \ {"kill", "startJailer", "released"})
                    \cup {"delete", "teardown", "endTransition", "untrack"} : Goto(t, l)
      BY Zenon DEF CloneAssets, PrepareJail, ActivateNetwork, ReserveWakeSlot,
         RemoveDataDir, At, Rollback, BareAt
  <2>4. Quiet(t)
      BY Zenon, <2>1, <2>2, <1>StillQuiet, GuestTypes DEF Up
  <2>5. QED
      BY Zenon, <2>3, <2>4, <1>FromBare, <1>FollowsKeeps

<1>ReadGenerationKeeps.
    ASSUME Up, NEW t \in Threads, ReadGeneration(t)
    PROVE  GuestsOK'
  <2> USE <1>ReadGenerationKeeps
  <2>1. /\ UNCHANGED <<op, inc, takenProcess>> /\ UNCHANGED guests
        /\ UNCHANGED <<process, generation, exits, deaths, killed, made>>
        /\ UNCHANGED <<stopped, transition>>
        /\ pc[t] = "readGeneration" /\ Goto(t, "startJailer")
        /\ captured' = [captured EXCEPT ![t] = generation[inc[t]]]
      BY Zenon DEF ReadGeneration, At, taken, sandbox, identity, handles, status,
         host, history
  <2>2. Quiet(t)
      BY Zenon, <2>1, UnchangedSame, <1>StillQuiet, GuestTypes DEF Up
  <2>3. captured'[t] = generation[inc[t]]
      BY Zenon, <2>1, GuestTypes DEF Up
  <2>4. "startJailer" \in Labels /\ Follows(t, "startJailer")
      BY Zenon, <2>1, <2>3 DEF Follows, BareAt, Active, Labels
  <2>5. QED
      BY Zenon, <2>1, <2>2, <2>4, <1>FollowsKeeps

<1>RunningKeeps.
    ASSUME Up, NEW t \in Threads,
           PinGuest(t) \/ StartGuest(t) \/ NewProxy(t) \/ PublishProxy(t)
           \/ ProbeDaemon(t)
    PROVE  GuestsOK'
  <2> USE <1>RunningKeeps
  <2>1. SameGuests
    <3>1. UNCHANGED guests \/ \E g \in guests, run \in {"running"} : SetRun(g, run)
      BY Zenon DEF PinGuest, StartGuest, NewProxy, PublishProxy, ProbeDaemon, host
    <3>2. QED
      BY Zenon, <3>1, UnchangedSame, SetRunSame
  <2>2. /\ UNCHANGED <<op, inc, takenProcess, captured>>
        /\ UNCHANGED <<process, generation, exits, deaths, killed, made>>
        /\ UNCHANGED <<stopped, transition>>
      BY Zenon DEF PinGuest, StartGuest, NewProxy, PublishProxy, ProbeDaemon,
         locals, taken, sandbox, identity, handles, status, host, history
  <2>3. /\ pc[t] \in Active \ {"publishProcess", "untrack"}
        /\ \/ \E l \in Active \ {"publishProcess", "claimDeath"} : Goto(t, l)
           \/ Goto(t, Rollback(t))
      BY Zenon DEF PinGuest, StartGuest, NewProxy, PublishProxy, ProbeDaemon, At,
         Active
  <2>4. Quiet(t)
      BY Zenon, <2>1, <2>2, <1>StillQuiet, GuestTypes DEF Up
  <2>5. QED
      BY Zenon, <2>3, <2>4, <1>FromActive, <1>FollowsKeeps

<1>FinishWakeKeeps.
    ASSUME Up, NEW t \in Threads, FinishWake(t)
    PROVE  GuestsOK'
  <2> USE <1>FinishWakeKeeps
  <2>1. /\ UNCHANGED <<op, inc, takenProcess, captured>> /\ UNCHANGED guests
        /\ UNCHANGED <<process, generation, exits, deaths, killed, made>>
        /\ UNCHANGED transition
        /\ pc[t] = "activated" /\ Goto(t, "endTransition")
        /\ stopped' = [stopped EXCEPT ![inc[t]] = FALSE]
      BY Zenon DEF FinishWake, At, locals, taken, identity, handles, host, history
  <2>2. inc[t] \in Incarnations
      BY Zenon, <2>1, GuestTypes DEF Up, BoundThreads
  <2>3. ~stopped'[inc[t]] /\ \A i \in Incarnations : stopped'[i] => stopped[i]
      BY Zenon, <2>1, <2>2, GuestTypes DEF Up
  <2>4. Quiet(t)
      BY Zenon, <2>1, <2>3, UnchangedSame DEF Quiet
  <2>5. "endTransition" \in Labels /\ Follows(t, "endTransition")
      BY Zenon, <2>1, <2>3 DEF Follows, BareAt, Active, Labels
  <2>6. QED
      BY Zenon, <2>1, <2>4, <2>5, <1>FollowsKeeps

\* The steps of an operation on a sandbox that is not waking up.
<1>SettledKeeps.
    ASSUME Up, NEW t \in Threads,
           CheckStop(t) \/ PauseVM(t) \/ CreateSnapshot(t) \/ Unpin(t)
           \/ ResumeVM(t) \/ CheckStale(t)
    PROVE  GuestsOK'
  <2> USE <1>SettledKeeps
  <2>1. SameGuests
    <3>1. \/ UNCHANGED guests
          \/ \E g \in guests, run \in {"running", "paused"} : SetRun(g, run)
      BY Zenon DEF CheckStop, PauseVM, CreateSnapshot, Unpin, ResumeVM,
         CheckStale, host
    <3>2. QED
      BY Zenon, <3>1, UnchangedSame, SetRunSame
  <2>2. /\ UNCHANGED <<op, inc, takenProcess, captured>>
        /\ UNCHANGED <<process, generation, exits, deaths, killed, made>>
        /\ UNCHANGED <<stopped, transition>>
      BY Zenon DEF CheckStop, PauseVM, CreateSnapshot, Unpin, ResumeVM,
         CheckStale, locals, taken, sandbox, identity, handles, status, host, history
  <2>3. /\ pc[t] \in {"stop", "pauseVM", "createSnapshot", "unpin", "resumeVM",
                      "checkStale"}
        /\ \E l \in {"pauseVM", "createSnapshot", "unpin", "resumeVM",
                     "teardown", "endTransition"} : Goto(t, l)
      BY Zenon DEF CheckStop, PauseVM, CreateSnapshot, Unpin, ResumeVM,
         CheckStale, At
  <2>4. Quiet(t)
      BY Zenon, <2>1, <2>2, <1>StillQuiet, GuestTypes DEF Up
  <2>5. pc[t] \in Labels \ (Active \cup {"kill"})
      BY Zenon, <2>3 DEF Labels, Active
  <2>6. PICK l \in Labels \ (BareAt \cup {"publishProcess", "claimDeath"}) : Goto(t, l)
      BY Zenon, <2>3 DEF Labels, BareAt
  <2>7. QED
      BY Zenon, <2>4, <2>5, <2>6, <1>FromSettled, <1>FollowsKeeps

<1>CheckWakeKeeps.
    ASSUME Up, NEW t \in Threads, CheckWake(t)
    PROVE  GuestsOK'
  <2> USE <1>CheckWakeKeeps
  <2>1. /\ UNCHANGED <<op, inc, takenProcess, captured>> /\ UNCHANGED guests
        /\ UNCHANGED <<process, generation, exits, deaths, killed, made>>
        /\ UNCHANGED <<stopped, transition>>
        /\ pc[t] = "wake"
        /\ \/ Goto(t, "endTransition")
           \/ Goto(t, "reserveWakeSlot") /\ stopped[inc[t]]
      BY Zenon DEF CheckWake, At, locals, taken, sandbox, identity, handles,
         status, host, history
  <2>2. Quiet(t)
      BY Zenon, <2>1, UnchangedSame, <1>StillQuiet, GuestTypes DEF Up
  <2>3. CASE Goto(t, "endTransition")
    <3>1. "endTransition" \in Labels /\ Follows(t, "endTransition")
      BY Zenon, <2>1 DEF Follows, BareAt, Active, Labels
    <3>2. QED
      BY Zenon, <2>2, <2>3, <3>1, <1>FollowsKeeps
  <2>4. CASE Goto(t, "reserveWakeSlot") /\ stopped[inc[t]]
    <3>1. "reserveWakeSlot" \in Labels /\ Follows(t, "reserveWakeSlot")
      BY Zenon, <2>1, <2>4 DEF Follows, BareAt, Active, Labels
    <3>2. QED
      BY Zenon, <2>2, <2>4, <3>1, <1>FollowsKeeps
  <2>5. QED
      BY Zenon, <2>1, <2>3, <2>4

<1>MarkDeletingGuests.
    ASSUME Up, NEW t \in Threads, MarkDeleting(t)
    PROVE  GuestsOK'
  <2> USE <1>MarkDeletingGuests
  <2>1. /\ UNCHANGED <<op, inc, takenProcess, captured>> /\ UNCHANGED guests
        /\ UNCHANGED <<process, generation, exits, deaths, killed, made>>
        /\ UNCHANGED stopped
        /\ pc[t] = "delete" /\ Goto(t, "teardown")
        /\ \/ transition' = [transition EXCEPT ![inc[t]] = "deleting"]
           \/ transition' = transition
      BY Zenon DEF MarkDeleting, At, taken, identity, handles, host, history
  <2>2. \A i \in Incarnations : transition'[i] = "none" => transition[i] = "none"
      BY Zenon, <2>1, GuestTypes DEF Up
  <2>3. Quiet(t)
      BY Zenon, <2>1, <2>2, UnchangedSame DEF Quiet
  <2>4. "teardown" \in Labels /\ Follows(t, "teardown")
      BY Zenon, <2>1 DEF Follows, BareAt, Active, Labels
  <2>5. QED
      BY Zenon, <2>1, <2>3, <2>4, <1>FollowsKeeps

<1>ClearGuests.
    ASSUME Up, NEW t \in Threads, phase' = "up",
           ClearSlotNetwork(t) \/ RunCleanupScript(t)
    PROVE  GuestsOK'
  <2> USE <1>ClearGuests
  <2>1. SameGuests
    <3>1. UNCHANGED guests \/ guests' = Isolate(takenSlot[t])
      BY Zenon DEF ClearSlotNetwork, RunCleanupScript, host
    <3>2. QED
      BY Zenon, <3>1, UnchangedSame, IsolateSame DEF Up
  <2>2. /\ UNCHANGED <<process, generation, exits, deaths, killed, made>>
        /\ UNCHANGED <<stopped, transition>>
        /\ pc[t] \in {"clearSlot", "cleanupScript"}
      BY Zenon DEF ClearSlotNetwork, RunCleanupScript, At, sandbox, identity,
         handles, status, host, history
  <2>3. phase' # "exited"
      BY Zenon
  <2>4. /\ UNCHANGED <<op, inc, takenProcess, captured>>
        /\ \/ Goto(t, AfterTeardown(t))
           \/ \E l \in {"clearSlot", "cleanupScript"} : Goto(t, l)
      BY Zenon, <2>3 DEF ClearSlotNetwork, RunCleanupScript, AfterClear, locals,
         taken
  <2>5. Quiet(t)
      BY Zenon, <2>1, <2>2, <2>4, <1>StillQuiet, GuestTypes DEF Up
  <2>6. AfterTeardown(t) \in Labels /\ Follows(t, AfterTeardown(t))
      BY Zenon, <2>2 DEF AfterTeardown, Follows, BareAt, Active, Labels
  <2>7. \A l \in {"clearSlot", "cleanupScript"} : l \in Labels /\ Follows(t, l)
      BY Zenon, <2>2 DEF Follows, BareAt, Active, Labels
  <2>8. QED
      BY Zenon, <2>4, <2>5, <2>6, <2>7, <1>FollowsKeeps

\* The steps that give a claim back.
<1>ReturnWalks.
    ASSUME Up, NEW t \in Threads, Return(t),
           UNCHANGED <<process, generation, exits, deaths, killed, made>>,
           UNCHANGED <<guests, stopped>>,
           pc[t] \notin {"kill", "publishProcess"},
           \/ transition' = transition
           \/ /\ transition' = [transition EXCEPT ![inc[t]] = "none"]
              /\ \/ pc[t] \notin Active
                 \/ op[t] = "create" /\ pc[t] # "untrack"
    PROVE  GuestsOK'
  <2> USE <1>ReturnWalks
  <2>1. /\ pc' = [pc EXCEPT ![t] = "idle"]
        /\ op' = [op EXCEPT ![t] = "none"]
        /\ inc' = [inc EXCEPT ![t] = NoIncarnation]
        /\ captured' = [captured EXCEPT ![t] = 0]
        /\ takenProcess' = [takenProcess EXCEPT ![t] = NoProcess]
      BY Zenon DEF Return
  <2>2. Alone(t) /\ inc'[t] = NoIncarnation /\ pc'[t] = "idle"
      BY Zenon, <2>1, GuestTypes DEF Up, Alone
  <2>3. made' \in Nat /\ made <= made'
      BY Zenon, GuestTypes, MadeOrder DEF Up
  <2>4. op[t] = "create" /\ pc[t] # "untrack" /\ inc[t] # NoIncarnation
            => ~stopped[inc[t]]
      BY Zenon DEF Up, GuestsOK, ThreadOK
  <2>5. ASSUME NEW i \in Incarnations, transition'[i] = "none", stopped'[i]
        PROVE  transition[i] = "none" \/ (inc[t] = i /\ pc[t] \notin Active)
    <3>1. CASE i = inc[t]
      <4>1. i # NoIncarnation
        BY Zenon, NoneApart
      <4>2. QED
        BY Zenon, <2>4, <2>5, <3>1, <4>1
    <3>2. CASE i # inc[t]
      BY Zenon, <2>5, <3>2, GuestTypes DEF Up
    <3>3. QED
      BY Zenon, <3>1, <3>2
  <2>6. Walks(t)
      BY Zenon, <2>2, <2>3, <2>5, UnchangedSame DEF Walks, Undisturbed
  <2>7. QED
      BY Zenon, <2>2, <2>6, <1>LeavesKeeps

<1>FinishKeeps.
    ASSUME Up, NEW t \in Threads, FinishCreate(t) \/ EndTransition(t)
    PROVE  GuestsOK'
  <2> USE <1>FinishKeeps
  <2>1. /\ UNCHANGED <<process, generation, exits, deaths, killed, made>>
        /\ UNCHANGED <<guests, stopped>>
        /\ Return(t)
        /\ transition' = [transition EXCEPT ![inc[t]] = "none"]
        /\ \/ pc[t] = "activated" /\ op[t] = "create"
           \/ pc[t] = "endTransition"
      BY Zenon DEF FinishCreate, EndTransition, At, identity, handles, host, history
  <2>2. /\ pc[t] \notin {"kill", "publishProcess", "untrack"}
        /\ pc[t] \notin Active \/ op[t] = "create"
      BY Zenon, <2>1 DEF Active
  <2>3. QED
      BY Zenon, <2>1, <2>2, <1>ReturnWalks

<1>KeepAfterFailedDeleteGuests.
    ASSUME Up, NEW t \in Threads, KeepAfterFailedDelete(t)
    PROVE  GuestsOK'
  <2> USE <1>KeepAfterFailedDeleteGuests
  <2>1. /\ UNCHANGED <<process, generation, exits, deaths, killed, made>>
        /\ UNCHANGED <<guests, stopped>>
        /\ pc[t] = "deleted"
        /\ \/ transition' = [transition EXCEPT ![inc[t]] = "none"]
           \/ transition' = transition
      BY Zenon DEF KeepAfterFailedDelete, At, identity, handles, host, history
  <2>2. pc[t] \notin Active /\ pc[t] \notin {"kill", "publishProcess", "untrack"}
      BY Zenon, <2>1 DEF Active
  <2>3. CASE Return(t)
      BY Zenon, <2>1, <2>2, <2>3, <1>ReturnWalks
  <2>4. CASE Goto(t, "untrack") /\ UNCHANGED locals
    <3>1. /\ pc'[t] = "untrack" /\ \A u \in Threads \ {t} : pc'[u] = pc[u]
          /\ UNCHANGED <<op, inc, captured, takenProcess>>
      BY Zenon, <2>4, GuestTypes DEF Goto, Up, locals, taken
    <3>2. made' \in Nat /\ made <= made'
      BY Zenon, <2>1, GuestTypes, MadeOrder DEF Up
    <3>3. \A i \in Incarnations :
              transition'[i] = "none" => transition[i] = "none" \/ inc[t] = i
      BY Zenon, <2>1, GuestTypes DEF Up
    <3>4. Alone(t)
      BY Zenon, <3>1 DEF Alone
    <3>5. Walks(t)
      BY Zenon, <2>1, <2>2, <3>2, <3>3, <3>4, UnchangedSame DEF Walks, Undisturbed
    <3>6. ThreadOK(t)'
      BY Zenon, <3>1 DEF ThreadOK, BareAt, Active
    <3>7. QED
      BY Zenon, <3>5, <3>6, <1>WalksKeeps
  <2>5. op[t] # "shutdown"
      BY Zenon, GuestTypes DEF Up, BoundThreads
  <2>6. QED
      BY Zenon, <2>3, <2>4, <2>5 DEF KeepAfterFailedDelete

<1>UntrackSandboxGuests.
    ASSUME Up, NEW t \in Threads, UntrackSandbox(t)
    PROVE  GuestsOK'
  <2> USE <1>UntrackSandboxGuests
  <2>1. op[t] # "shutdown"
      BY Zenon, GuestTypes DEF Up, BoundThreads
  <2>2. /\ UNCHANGED <<process, generation, exits, deaths, killed, made>>
        /\ UNCHANGED <<guests, stopped>>
        /\ transition' = transition
        /\ pc[t] = "untrack" /\ Return(t)
      BY Zenon, <2>1 DEF UntrackSandbox, At, sandbox, identity, handles, status,
         host, history
  <2>3. pc[t] \notin {"kill", "publishProcess"}
      BY Zenon, <2>2
  <2>4. QED
      BY Zenon, <2>2, <2>3, <1>ReturnWalks

\* The steps that take a claim.  Nobody holds the sandboxState, so a stopped
\* one has no microVM.
<1>TakesKeeps.
    ASSUME Up, NEW t \in Threads, NEW i \in Incarnations,
           NEW l \in {"stop", "wake", "delete", "checkStale"}, Goto(t, l),
           inc' = [inc EXCEPT ![t] = i],
           UNCHANGED op \/ \E kind \in {"stop", "wake", "delete"} :
                               op' = [op EXCEPT ![t] = kind],
           op'[t] # "create", pc[t] \in {"idle", "claimDeath"},
           transition[i] = "none",
           \E k \in {"stopping", "waking", "deleting"} :
               transition' = [transition EXCEPT ![i] = k],
           UNCHANGED <<captured, takenProcess>>,
           UNCHANGED <<process, generation, exits, deaths, killed, made>>,
           UNCHANGED <<guests, stopped>>
    PROVE  GuestsOK'
  <2> USE <1>TakesKeeps
  <2>1. pc'[t] = l /\ inc'[t] = i /\ \A u \in Threads \ {t} :
            pc'[u] = pc[u] /\ inc'[u] = inc[u] /\ op'[u] = op[u]
      BY Zenon, GuestTypes DEF Up, Goto
  <2>2. made' \in Nat /\ made <= made'
      BY Zenon, GuestTypes, MadeOrder DEF Up
  <2>3. \A j \in Incarnations : transition'[j] = "none" => transition[j] = "none"
      BY Zenon, GuestTypes DEF Up
  <2>4. pc[t] \notin {"kill", "publishProcess"}
      BY Zenon
  <2>5. Walks(t)
      BY Zenon, <2>1, <2>2, <2>3, <2>4, UnchangedSame DEF Walks, Undisturbed, Alone
  <2>6. stopped'[i] => Bare(i)'
      BY Zenon DEF Up, GuestsOK, SandboxOK, Bare, Used, Live
  <2>7. /\ pc'[t] \notin BareAt
        /\ pc'[t] \notin {"startJailer", "publishProcess", "kill", "released",
                          "claimDeath"}
      BY Zenon, <2>1 DEF BareAt
  <2>8. ThreadOK(t)'
      BY Zenon, <2>1, <2>6, <2>7 DEF ThreadOK
  <2>9. QED
      BY Zenon, <2>5, <2>8, <1>WalksKeeps

<1>BeginTransitionKeeps.
    ASSUME Up, NEW t \in Threads, NEW id \in Ids,
           NEW kind \in {"stop", "wake", "delete"}, BeginTransition(t, id, kind)
    PROVE  GuestsOK'
  <2> USE <1>BeginTransitionKeeps
  <2> DEFINE i == sandboxes[id]
  <2>1. /\ i \in Incarnations /\ transition[i] = "none"
        /\ transition' = [transition EXCEPT ![i] = Claim(kind)]
        /\ Goto(t, kind)
        /\ inc' = [inc EXCEPT ![t] = i]
        /\ op' = [op EXCEPT ![t] = kind]
        /\ pc[t] = "idle"
        /\ UNCHANGED <<captured, takenProcess>>
        /\ UNCHANGED <<process, generation, exits, deaths, killed, made>>
        /\ UNCHANGED <<guests, stopped>>
      BY Zenon DEF BeginTransition, Claimable, At, Up, ExclusionInv, TypeOK,
         TypeRuntime, identity, handles, host, history, taken
  <2>2. Claim(kind) \in {"stopping", "waking", "deleting"}
      BY Zenon DEF Claim
  <2>3. op'[t] # "create"
      BY Zenon, <2>1, GuestTypes DEF Up
  <2>4. QED
      BY Zenon, <2>1, <2>2, <2>3, <1>TakesKeeps

<1>ClaimDeathKeeps.
    ASSUME Up, NEW t \in Threads, ClaimDeath(t)
    PROVE  GuestsOK'
  <2> USE <1>ClaimDeathKeeps
  <2> DEFINE i == sandboxes[idOf[died[t]]]
  <2>1. /\ UNCHANGED <<process, generation, exits, deaths, killed, made>>
        /\ UNCHANGED <<guests, stopped>>
        /\ pc[t] = "claimDeath"
      BY Zenon DEF ClaimDeath, At, identity, handles, host, history
  <2>2. pc[t] \notin {"kill", "publishProcess"}
      BY Zenon, <2>1
  <2>3. CASE Return(t) /\ UNCHANGED transition
      BY Zenon, <2>1, <2>2, <2>3, <1>ReturnWalks
  <2>4. CASE /\ i # NoIncarnation /\ transition[i] = "none"
             /\ transition' = [transition EXCEPT ![i] = "stopping"]
             /\ inc' = [inc EXCEPT ![t] = i]
             /\ Goto(t, "checkStale")
             /\ UNCHANGED <<op, died, captured, coldBoot, taken, failed>>
    <3>1. died[t] \in Incarnations
      BY Zenon, <2>1 DEF Up, ExclusionInv, Bound, BoundThreads, TypeOK, TypeThreads
    <3>2. /\ idOf \in [Incarnations -> Ids]
          /\ sandboxes \in [Ids -> Incarnations \cup {NoIncarnation}]
      BY Zenon DEF Up, ExclusionInv, TypeOK, TypeSandbox, TypeRuntime
    <3>3. i \in Incarnations
      BY Zenon, <2>4, <3>1, <3>2
    <3>4. op[t] # "create"
      BY Zenon, <2>1 DEF Up, GuestsOK, ThreadOK
    <3>5. QED
      BY Zenon, <2>1, <2>4, <3>3, <3>4, <1>TakesKeeps DEF taken
  <2>5. QED
      BY Zenon, <2>1, <2>3, <2>4 DEF ClaimDeath, GivesUp, Claimable

<1>ReserveSandboxKeeps.
    ASSUME Up, NEW t \in Threads, NEW id, NEW block, ReserveSandbox(t, id, block)
    PROVE  GuestsOK'
  <2> USE <1>ReserveSandboxKeeps
  <2>1. PICK i : i = made + 1
      BY Zenon
  <2>2. /\ made < MaxIncarnations /\ made' = i
        /\ transition' = [transition EXCEPT ![i] = "creating"]
        /\ pc' = [pc EXCEPT ![t] = "cloneAssets"]
        /\ op' = [op EXCEPT ![t] = "create"]
        /\ inc' = [inc EXCEPT ![t] = i]
        /\ pc[t] = "idle"
        /\ UNCHANGED <<captured, takenProcess>>
        /\ UNCHANGED <<process, generation, exits, deaths, killed>>
        /\ UNCHANGED <<guests, stopped>>
      BY Zenon, <2>1 DEF ReserveSandbox, Goto, At, handles, host, history, taken
  <2>3. made \in Nat /\ i \in Incarnations /\ i > made
      BY Zenon, <2>1, <2>2, GuestTypes, MadeOrder DEF Up
  <2>4. /\ pc'[t] = "cloneAssets" /\ inc'[t] = i /\ op'[t] = "create"
        /\ \A u \in Threads \ {t} :
              pc'[u] = pc[u] /\ inc'[u] = inc[u] /\ op'[u] = op[u]
      BY Zenon, <2>2, GuestTypes DEF Up
  <2>5. made' \in Nat /\ made <= made' /\ pc[t] \notin {"kill", "publishProcess"}
      BY Zenon, <2>1, <2>2, <2>3, GuestTypes, MadeOrder DEF Up
  <2>6. \A j \in Incarnations : transition'[j] = "none" => transition[j] = "none"
      BY Zenon, <2>2, <2>3, GuestTypes DEF Up
  <2>7. Walks(t)
      BY Zenon, <2>2, <2>4, <2>5, <2>6, UnchangedSame DEF Walks, Undisturbed, Alone
  <2>8. ~stopped[i] /\ Bare(i)
      BY Zenon, <2>3, GuestTypes DEF Up, GuestsOK, SandboxOK, Bare
  <2>9. ~stopped'[i] /\ Bare(i)'
      BY Zenon, <2>2, <2>8 DEF Bare, Used, Live
  <2>20. ThreadOK(t)'
    <3>1. pc'[t] \notin {"claimDeath", "publishProcess", "startJailer", "kill",
                         "released"}
      BY Zenon, <2>4
    <3>2. QED
      BY Zenon, <2>4, <2>9, <3>1 DEF ThreadOK
  <2>21. QED
      BY Zenon, <2>7, <2>20, <1>WalksKeeps

\* The steps that end a microVM.
<1>GuestDiesKeeps.
    ASSUME Up, NEW g \in guests, GuestDies(g)
    PROVE  GuestsOK'
  <2> USE <1>GuestDiesKeeps
  <2>1. /\ guests' = guests \ {g}
        /\ exits' = exits \cup {<<g.inc, g.generation>>}
        /\ UNCHANGED <<process, generation, stopped, transition, made>>
        /\ UNCHANGED <<pc, op, inc, captured, takenProcess>>
        /\ UNCHANGED <<deaths, killed>> /\ UNCHANGED phase
      BY Zenon DEF GuestDies, sandbox, identity, handles, status, locals, taken,
         history, ending
  <2>2. ASSUME NEW i \in Incarnations, NEW n \in Nat, Used(i, n)'
        PROVE  Used(i, n)
    <3>1. \/ \E h \in guests' : h.inc = i /\ h.generation = n
          \/ <<i, n>> \in exits'
          \/ <<i, n>> \in deaths'
      BY Zenon, <2>2 DEF Used, Live
    <3>2. <<i, n>> = <<g.inc, g.generation>> => g.inc = i /\ g.generation = n
      BY Zenon
    <3>3. QED
      BY Zenon, <2>1, <3>1, <3>2 DEF Used, Live
  <2>3. HostOK'
    <3>1. NoOrphanGuest'
      BY Zenon, <2>1 DEF NoOrphanGuest, Up, GuestsOK, HostOK
    <3>2. Unique'
      BY Zenon, <2>1 DEF Unique, Up, GuestsOK, HostOK
    <3>3. ASSUME NEW h \in guests'
          PROVE  <<h.inc, h.generation>> \notin exits' \cup deaths'
      <4>1. h \in guests /\ h # g
        BY Zenon, <2>1, <3>3
      <4>2. h.inc # g.inc \/ h.generation # g.generation
        BY Zenon, <4>1 DEF Unique, Up, GuestsOK, HostOK
      <4>3. <<h.inc, h.generation>> # <<g.inc, g.generation>>
        BY Zenon, <4>2
      <4>4. <<h.inc, h.generation>> \notin exits \cup deaths
        BY Zenon, <4>1 DEF Up, GuestsOK, HostOK
      <4>5. QED
        BY Zenon, <2>1, <4>3, <4>4
    <3>4. KillIsNotDeath' /\ \A x \in killed' : x[2] < generation'[x[1]]
      BY Zenon, <2>1 DEF KillIsNotDeath, Up, GuestsOK, HostOK
    <3>5. QED
      BY Zenon, <3>1, <3>2, <3>3, <3>4 DEF HostOK
  <2>4. made' \in Nat /\ made <= made'
      BY Zenon, <2>1, GuestTypes, MadeOrder DEF Up
  <2>5. Undisturbed(Nil)
      BY Zenon, <2>1, <2>4 DEF Undisturbed, Alone
  <2>6. QED
      BY Zenon, <2>2, <2>3, <2>5, <1>UndisturbedKeeps, ConstantsAssumption

<1>RecordGuestDeathGuests.
    ASSUME Up, NEW t \in Threads, NEW x \in exits, RecordGuestDeath(t, x)
    PROVE  GuestsOK'
  <2> USE <1>RecordGuestDeathGuests
  <2>1. /\ exits' = exits \ {x}
        /\ UNCHANGED <<process, generation, stopped, transition, made>>
        /\ UNCHANGED <<inc, takenProcess>>
        /\ UNCHANGED <<guests, killed>> /\ UNCHANGED phase
        /\ pc[t] = "idle"
        /\ \/ /\ generation[x[1]] = x[2]
              /\ deaths' = deaths \cup {x}
              /\ pc' = [pc EXCEPT ![t] = "claimDeath"]
              /\ op' = [op EXCEPT ![t] = "crash"]
              /\ captured' = [captured EXCEPT ![t] = x[2]]
           \/ UNCHANGED <<deaths, pc, op, captured>>
      BY Zenon DEF RecordGuestDeath, At, Goto, sandbox, identity, handles,
         status, taken, ending
  <2>2. deaths' \subseteq deaths \cup {x}
      BY Zenon, <2>1
  <2>3. ASSUME NEW i \in Incarnations, NEW n \in Nat, Used(i, n)'
        PROVE  Used(i, n)
      BY Zenon, <2>1, <2>2, <2>3 DEF Used, Live
  <2>4. /\ \A u \in Threads \ {t} :
              pc'[u] = pc[u] /\ op'[u] = op[u] /\ captured'[u] = captured[u]
        /\ \/ pc'[t] = "claimDeath" /\ op'[t] = "crash"
           \/ pc'[t] = "idle" /\ op'[t] = op[t]
      BY Zenon, <2>1, GuestTypes DEF Up
  <2>5. HostOK'
    <3>1. NoOrphanGuest'
      <4>1. \A u \in Threads : pc[u] = "kill" \/ pc[u] = "publishProcess" => u # t
        BY Zenon, <2>1
      <4>2. ASSUME NEW g \in guests', process'[g.inc] # g.generation
            PROVE  \E u \in Threads :
                      /\ inc'[u] = g.inc
                      /\ \/ pc'[u] = "kill" /\ takenProcess'[u] = g.generation
                         \/ pc'[u] = "publishProcess" /\ captured'[u] = g.generation
        <5>1. PICK u \in Threads :
                  /\ inc[u] = g.inc
                  /\ \/ pc[u] = "kill" /\ takenProcess[u] = g.generation
                     \/ pc[u] = "publishProcess" /\ captured[u] = g.generation
          BY Zenon, <2>1, <4>2 DEF NoOrphanGuest, Up, GuestsOK, HostOK
        <5>2. QED
          BY Zenon, <2>1, <2>4, <4>1, <5>1
      <4>3. QED
        BY Zenon, <4>2 DEF NoOrphanGuest
    <3>2. Unique'
      BY Zenon, <2>1 DEF Unique, Up, GuestsOK, HostOK
    <3>3. \A h \in guests' : <<h.inc, h.generation>> \notin exits' \cup deaths'
      BY Zenon, <2>1, <2>2 DEF Up, GuestsOK, HostOK
    <3>4. \A y \in killed' : y[2] < generation'[y[1]]
      BY Zenon, <2>1 DEF Up, GuestsOK, HostOK
    <3>5. x \in deaths' => x \in deaths \/ generation[x[1]] = x[2]
      BY Zenon, <2>1
    <3>6. x \in Incarnations \X Nat
      BY Zenon, GuestTypes DEF Up
    <3>7. x \in killed => generation[x[1]] # x[2]
      <4>1. x \in killed => x[2] < generation[x[1]]
        BY Zenon DEF Up, GuestsOK, HostOK
      <4>2. x[2] \in Nat
        BY Zenon, <3>6
      <4>3. QED
        BY Zenon, <4>1, <4>2, NatOrder
    <3>8. KillIsNotDeath'
      BY Zenon, <2>1, <2>2, <3>5, <3>7 DEF KillIsNotDeath, Up, GuestsOK, HostOK
    <3>9. QED
      BY Zenon, <3>1, <3>2, <3>3, <3>4, <3>8 DEF HostOK
  <2>6. made' \in Nat /\ made <= made'
      BY Zenon, <2>1, GuestTypes, MadeOrder DEF Up
  <2>7. Undisturbed(t)
      BY Zenon, <2>1, <2>4, <2>6 DEF Undisturbed, Alone
  <2>8. ThreadOK(t)'
    <3>1. op[t] = "create" /\ inc[t] # NoIncarnation => ~stopped[inc[t]]
      BY Zenon, <2>1 DEF Up, GuestsOK, ThreadOK
    <3>2. /\ pc'[t] \in Active \ (BareAt \cup {"startJailer", "publishProcess",
                                               "kill", "released"})
          /\ pc'[t] = "claimDeath" => op'[t] # "create"
          /\ op'[t] = "create" => op[t] = "create"
      BY Zenon, <2>4 DEF Active, BareAt
    <3>3. QED
      BY Zenon, <2>1, <3>1, <3>2 DEF ThreadOK
  <2>9. QED
      BY Zenon, <2>3, <2>5, <2>7, <2>8, <1>UndisturbedKeeps

<1>StopAndKillKeeps.
    ASSUME Up, NEW t \in Threads, StopAndKill(t)
    PROVE  GuestsOK'
  <2> USE <1>StopAndKillKeeps
  <2> DEFINE i == inc[t]
             n == takenProcess[t]
             gone == {<<g.inc, g.generation>> :
                          g \in {h \in guests : h.inc = i /\ h.generation = n}}
  <2>1. /\ guests' = {h \in guests : ~(h.inc = i /\ h.generation = n)}
        /\ exits' = exits \cup gone /\ killed' = killed \cup gone
        /\ UNCHANGED <<process, generation, stopped, transition, made>>
        /\ UNCHANGED <<op, inc, captured, takenProcess>>
        /\ UNCHANGED deaths
        /\ pc[t] = "kill"
        /\ \E l \in {"clearSlot", AfterTeardown(t)} : Goto(t, l)
    <3>1. guests' = guests \ {h \in guests : h.inc = i /\ h.generation = n}
      BY Zenon DEF StopAndKill
    <3>2. guests' = {h \in guests : ~(h.inc = i /\ h.generation = n)}
      BY Zenon, <3>1
    <3>3. QED
      BY Zenon, <3>2 DEF StopAndKill, At, sandbox, identity, handles, status, taken
  <2>2. \A x \in gone : x = <<i, n>> /\ \E g \in guests : g.inc = i /\ g.generation = n
      BY Zenon
  <2>3. /\ i \in Incarnations /\ ThreadOK(t) /\ Bare(i) /\ n < generation[i]
        /\ n \in Nat \cup {NoProcess}
    <3>1. i \in Incarnations /\ i # NoIncarnation /\ n \in Nat \cup {NoProcess}
      BY Zenon, <2>1, GuestTypes DEF Up, BoundThreads
    <3>2. "kill" \in BareAt
      BY Zenon DEF BareAt
    <3>3. QED
      BY Zenon, <2>1, <3>1, <3>2 DEF Up, GuestsOK, ThreadOK
  <2> HIDE DEF gone
  <2>4. \A h \in guests' : h \in guests /\ <<h.inc, h.generation>> # <<i, n>>
      BY Zenon, <2>1
  <2>5. ASSUME NEW j \in Incarnations, NEW m \in Nat, Used(j, m)'
        PROVE  Used(j, m)
    <3>1. <<j, m>> = <<i, n>> => j = i /\ m = n
      BY Zenon
    <3>2. QED
      BY Zenon, <2>1, <2>2, <2>4, <2>5, <3>1 DEF Used, Live
  <2>6. HostOK'
    <3>1. Unique'
      BY Zenon, <2>4 DEF Unique, Up, GuestsOK, HostOK
    <3>2. \A h \in guests' : <<h.inc, h.generation>> \notin exits' \cup deaths'
      BY Zenon, <2>1, <2>2, <2>4 DEF Up, GuestsOK, HostOK
    <3>3. \A x \in killed' : x[2] < generation'[x[1]]
      <4>1. <<i, n>>[1] = i /\ <<i, n>>[2] = n
        BY Zenon
      <4>2. \A x \in gone : x[2] < generation[x[1]]
        BY Zenon, <2>2, <2>3, <4>1
      <4>3. QED
        BY Zenon, <2>1, <4>2 DEF Up, GuestsOK, HostOK
    <3>4. KillIsNotDeath'
      BY Zenon, <2>1, <2>2 DEF KillIsNotDeath, Up, GuestsOK, HostOK
    <3>5. ASSUME NEW g \in guests', process'[g.inc] # g.generation
          PROVE  \E u \in Threads :
                    /\ inc'[u] = g.inc
                    /\ \/ pc'[u] = "kill" /\ takenProcess'[u] = g.generation
                       \/ pc'[u] = "publishProcess" /\ captured'[u] = g.generation
      <4>1. PICK u \in Threads :
                /\ inc[u] = g.inc
                /\ \/ pc[u] = "kill" /\ takenProcess[u] = g.generation
                   \/ pc[u] = "publishProcess" /\ captured[u] = g.generation
        BY Zenon, <2>1, <2>4, <3>5 DEF NoOrphanGuest, Up, GuestsOK, HostOK
      <4>2. u # t
        BY Zenon, <2>1, <2>4, <3>5, <4>1
      <4>3. pc'[u] = pc[u]
        BY Zenon, <2>1, <4>2, GuestTypes DEF Up, Goto
      <4>4. QED
        BY Zenon, <2>1, <4>1, <4>3
    <3>6. QED
      BY Zenon, <3>1, <3>2, <3>3, <3>4, <3>5 DEF HostOK, NoOrphanGuest
  <2>7. Undisturbed(t)
    <3>1. made' \in Nat /\ made <= made'
      BY Zenon, <2>1, GuestTypes, MadeOrder DEF Up
    <3>2. \A u \in Threads \ {t} : pc'[u] = pc[u]
      BY Zenon, <2>1, GuestTypes DEF Up, Goto
    <3>3. QED
      BY Zenon, <2>1, <3>1, <3>2 DEF Undisturbed, Alone
  <2>8. ThreadOK(t)'
    <3>1. pc'[t] \in {"clearSlot", AfterTeardown(t)}
      BY Zenon, <2>1, GuestTypes DEF Up, Goto
    <3>2. Bare(i)'
      <4>1. PICK j \in Incarnations : j = i
        BY Zenon, <2>3
      <4>2. /\ generation[j] \in Nat /\ generation'[j] = generation[j]
            /\ process'[j] = process[j] /\ Bare(j)
        BY Zenon, <2>1, <2>3, <4>1, GuestTypes DEF Up
      <4>3. Bare(j)'
        BY Zenon, <2>5, <4>2 DEF Bare
      <4>4. QED
        BY Zenon, <2>1, <4>1, <4>3
    <3>3. /\ pc'[t] \notin {"claimDeath", "startJailer", "publishProcess", "kill"}
          /\ pc'[t] = "released" => op[t] # "create"
      BY Zenon, <3>1 DEF AfterTeardown
    <3>4. op[t] = "create" => ~stopped[i]
      BY Zenon, <2>1, <2>3, NoneApart DEF ThreadOK
    <3>5. QED
      BY Zenon, <2>1, <3>2, <3>3, <3>4 DEF ThreadOK
  <2>9. QED
      BY Zenon, <2>5, <2>6, <2>7, <2>8, <1>UndisturbedKeeps

<1>ChangesKeeps.
    ASSUME Up, NEW t \in Threads, NEW i \in Incarnations, Changes(t, i),
           ThreadOK(t)', SandboxOK(i)', HostOK'
    PROVE  GuestsOK'
  <2> USE <1>ChangesKeeps
  <2>1. ASSUME NEW j \in Incarnations \ {i}, Bare(j)
        PROVE  Bare(j)'
    <3>1. /\ generation[j] \in Nat /\ generation'[j] = generation[j]
          /\ process'[j] = process[j]
      BY Zenon, GuestTypes DEF Up, Changes
    <3>2. QED
      BY Zenon, <2>1, <3>1 DEF Bare, Changes
  <2>2. ASSUME NEW u \in Threads, u # t
        PROVE  ThreadOK(u)'
    <3>1. /\ pc'[u] = pc[u] /\ inc'[u] = inc[u] /\ op'[u] = op[u]
          /\ captured'[u] = captured[u] /\ takenProcess'[u] = takenProcess[u]
          /\ ThreadOK(u) /\ inc[u] \in Incarnations \cup {NoIncarnation}
      BY Zenon, <2>2, GuestTypes DEF Changes, Alone, Up, GuestsOK
    <3>2. CASE inc[u] \in Incarnations \ {i}
      <4>1. /\ process'[inc[u]] = process[inc[u]]
            /\ generation'[inc[u]] = generation[inc[u]]
            /\ stopped'[inc[u]] = stopped[inc[u]]
            /\ Bare(inc[u]) => Bare(inc[u])'
        <5>1. PICK j \in Incarnations \ {i} : j = inc[u]
          BY Zenon, <3>2
        <5>2. Bare(j) => Bare(j)'
          BY Zenon, <2>1
        <5>3. QED
          BY Zenon, <3>1, <5>1, <5>2 DEF Changes
      <4>2. QED
        BY Zenon, <3>1, <4>1 DEF ThreadOK
    <3>3. CASE inc[u] = i
      <4>1. pc[u] = "untrack"
        <5>1. i # NoIncarnation
          BY Zenon, NoneApart
        <5>2. QED
          BY Zenon, <2>2, <3>3, <5>1 DEF Up, ExclusionInv, OperationsExclusive, Changes,
             GaveUp
      <4>2. /\ pc'[u] \notin BareAt /\ pc'[u] \in Active
            /\ pc'[u] \notin {"claimDeath", "startJailer", "publishProcess",
                              "kill", "released"}
        BY Zenon, <3>1, <4>1 DEF BareAt, Active
      <4>3. QED
        BY Zenon, <3>1, <4>1, <4>2 DEF ThreadOK
    <3>4. CASE inc[u] = NoIncarnation
      BY Zenon, <3>1, <3>4 DEF ThreadOK
    <3>5. QED
      BY Zenon, <3>1, <3>2, <3>3, <3>4
  <2>3. ASSUME NEW j \in Incarnations, j # i
        PROVE  SandboxOK(j)'
    <3>1. /\ process'[j] = process[j] /\ generation'[j] = generation[j]
          /\ stopped'[j] = stopped[j] /\ transition' = transition /\ made' = made
          /\ \A n \in Nat : Used(j, n)' => Used(j, n)
          /\ SandboxOK(j)
      BY Zenon, <2>3 DEF Changes, Up, GuestsOK
    <3>2. Bare(j) => Bare(j)'
      BY Zenon, <2>1, <2>3
    <3>3. QED
      BY Zenon, <3>1, <3>2 DEF SandboxOK
  <2>4. QED
      BY Zenon, <2>2, <2>3 DEF GuestsOK

\* A claimed sandboxState was made and is not settled.
<1>HeldOK.
    ASSUME Up, NEW t \in Threads, NEW i \in Incarnations, inc[t] = i,
           pc[t] # "untrack", UNCHANGED <<transition, made>>,
           \A n \in Nat : Used(i, n)' => n <= generation'[i],
           process'[i] <= generation'[i]
    PROVE  SandboxOK(i)'
  <2> USE <1>HeldOK
  <2>1. ~(i > made)
      BY Zenon, GuestTypes, MadeOrder DEF Up, BoundThreads
  <2>2. transition[i] # "none"
    <3>1. i # NoIncarnation
      BY Zenon, NoneApart
    <3>2. QED
      BY Zenon, <3>1 DEF Up, ExclusionInv, Claimed, GaveUp
  <2>3. QED
      BY Zenon, <2>1, <2>2 DEF SandboxOK

\* What holds before a step of an operation, by the label it is at.
<1>HolderOK.
    ASSUME Up, NEW t \in Threads,
           pc[t] \in {"startJailer", "publishProcess", "teardown", "released"}
    PROVE  /\ inc[t] \in Incarnations /\ inc[t] # NoIncarnation
           /\ ThreadOK(t) /\ SandboxOK(inc[t]) /\ HostOK
           /\ generation[inc[t]] \in Nat
           /\ process[inc[t]] \in Nat \cup {NoProcess}
           /\ \A u \in Threads :
                 /\ inc[u] = inc[t]
                 /\ pc[u] = "kill" \/ pc[u] = "publishProcess"
                 => u = t
  <2> USE <1>HolderOK
  <2>1. /\ pc[t] \notin {"idle", "claimDeath", "nextDelete", "clearSlot",
                         "cleanupScript", "untrack"}
        /\ \A u \in Threads : pc[u] = "kill" \/ pc[u] = "publishProcess"
                                  => pc[u] # "untrack"
      BY Zenon
  <2>2. inc[t] \in Incarnations /\ inc[t] # NoIncarnation
      BY Zenon, <2>1, GuestTypes DEF Up, BoundThreads
  <2>3. /\ generation[inc[t]] \in Nat
        /\ process[inc[t]] \in Nat \cup {NoProcess}
      BY Zenon, <2>2, GuestTypes DEF Up
  <2>4. ThreadOK(t) /\ SandboxOK(inc[t]) /\ HostOK
      BY Zenon, <2>2 DEF Up, GuestsOK
  <2>5. \A u \in Threads :
            inc[u] = inc[t] /\ (pc[u] = "kill" \/ pc[u] = "publishProcess")
            => u = t
      BY Zenon, <2>1, <2>2 DEF Up, ExclusionInv, OperationsExclusive, GaveUp
  <2>6. QED
      BY Zenon, <2>2, <2>3, <2>4, <2>5

<1>TakeHandlesKeeps.
    ASSUME Up, NEW t \in Threads, TakeHandles(t)
    PROVE  GuestsOK'
  <2> USE <1>TakeHandlesKeeps
  <2>1. /\ generation' = [generation EXCEPT ![inc[t]] = generation[inc[t]] + 1]
        /\ process' = [process EXCEPT ![inc[t]] = NoProcess]
        /\ takenProcess' = [takenProcess EXCEPT ![t] = process[inc[t]]]
        /\ UNCHANGED <<op, inc, captured, stopped, transition, made>>
        /\ UNCHANGED <<guests, exits, deaths, killed>>
        /\ pc[t] = "teardown" /\ pc' = [pc EXCEPT ![t] = "kill"]
      BY Zenon DEF TakeHandles, BumpGeneration, At, Goto, identity, status, host,
         history
  <2>2. pc[t] \in {"startJailer", "publishProcess", "teardown", "released"}
        /\ pc[t] # "untrack" /\ pc[t] # "kill" /\ pc[t] # "publishProcess"
      BY Zenon, <2>1
  <2>3. PICK i \in Incarnations : i = inc[t]
      BY Zenon, <2>2, <1>HolderOK
  <2>4. /\ i # NoIncarnation /\ ThreadOK(t) /\ SandboxOK(i) /\ HostOK
        /\ generation[i] \in Nat /\ process[i] \in Nat \cup {NoProcess}
      BY Zenon, <2>2, <2>3, <1>HolderOK
  <2>5. /\ generation'[i] = generation[i] + 1 /\ process'[i] = NoProcess
        /\ takenProcess'[t] = process[i] /\ pc'[t] = "kill"
        /\ \A j \in Incarnations \ {i} :
              generation'[j] = generation[j] /\ process'[j] = process[j]
        /\ \A u \in Threads \ {t} :
              pc'[u] = pc[u] /\ takenProcess'[u] = takenProcess[u]
      BY Zenon, <2>1, <2>3, GuestTypes DEF Up
  <2>6. \A j, n : Used(j, n)' <=> Used(j, n)
      BY Zenon, <2>1 DEF Used, Live
  <2>7. Changes(t, i)
      BY Zenon, <2>1, <2>2, <2>3, <2>5, <2>6 DEF Changes, Alone
  <2>8. /\ \A n \in Nat : Used(i, n) => n <= generation[i]
        /\ process[i] <= generation[i]
      BY Zenon, <2>4 DEF SandboxOK
  <2>9. SandboxOK(i)'
    <3>1. /\ generation[i] \in Nat /\ generation'[i] = generation[i] + 1
          /\ process'[i] = NoProcess
      BY Zenon, <2>4, <2>5
    <3>2. \A n \in Nat : Used(i, n)' => n <= generation[i]
      BY Zenon, <2>6, <2>8
    <3>3. \A n \in Nat : Used(i, n)' => n <= generation'[i]
      <4>1. \A m \in Nat : m <= generation[i] => m <= generation[i] + 1
        BY Zenon, <3>1, NextOrder
      <4>2. QED
        BY Zenon, <3>1, <3>2, <4>1
    <3>4. process'[i] <= generation'[i]
      BY Zenon, <3>1, NextOrder
    <3>5. QED
      BY Zenon, <2>1, <2>2, <2>3, <3>3, <3>4, <1>HeldOK
  <2>10. Bare(i)'
    <3>1. generation'[i] \in Nat /\ ~(generation'[i] <= generation[i])
      BY Zenon, <2>4, <2>5, NextOrder
    <3>2. QED
      BY Zenon, <2>5, <2>6, <2>8, <3>1 DEF Bare
  <2>11. ThreadOK(t)'
    <3>1. takenProcess'[t] < generation'[i]
      <4>1. \A m \in Nat : m <= generation[i] => m < generation[i] + 1
        BY Zenon, <2>4, NextOrder
      <4>2. NoProcess < generation[i] + 1
        BY Zenon, <2>4, NextOrder
      <4>3. process[i] < generation[i] + 1
        BY Zenon, <2>4, <2>8, <4>1, <4>2
      <4>4. QED
        BY Zenon, <2>5, <4>3
    <3>2. /\ pc'[t] \notin {"claimDeath", "startJailer", "publishProcess",
                            "released"}
      BY Zenon, <2>5
    <3>3. op[t] = "create" => ~stopped[i]
      BY Zenon, <2>2, <2>3, <2>4 DEF ThreadOK
    <3>4. QED
      BY Zenon, <2>1, <2>3, <2>5, <2>10, <3>1, <3>2, <3>3 DEF ThreadOK
  <2>12. HostOK'
    <3>1. Unique' /\ KillIsNotDeath'
          /\ \A h \in guests' : <<h.inc, h.generation>> \notin exits' \cup deaths'
      BY Zenon, <2>1, <2>4 DEF HostOK, Unique, KillIsNotDeath
    <3>2. ASSUME NEW x \in killed'
          PROVE  x[2] < generation'[x[1]]
      <4>1. x[2] < generation[x[1]] /\ x \in Incarnations \X Nat
        BY Zenon, <2>1, <2>4, <3>2, GuestTypes DEF HostOK, Up
      <4>2. x[1] \in Incarnations /\ x[2] \in Nat
        BY Zenon, <4>1
      <4>3. QED
        <5>1. CASE x[1] = i
          <6>1. x[2] < generation[i] + 1
            BY Zenon, <2>4, <4>1, <4>2, <5>1, NextOrder
          <6>2. QED
            BY Zenon, <2>5, <5>1, <6>1
        <5>2. CASE x[1] # i
          BY Zenon, <2>5, <4>1, <4>2, <5>2
        <5>3. QED
          BY Zenon, <5>1, <5>2
    <3>3. ASSUME NEW g \in guests', process'[g.inc] # g.generation
          PROVE  \E u \in Threads :
                    /\ inc'[u] = g.inc
                    /\ \/ pc'[u] = "kill" /\ takenProcess'[u] = g.generation
                       \/ pc'[u] = "publishProcess" /\ captured'[u] = g.generation
      <4>1. /\ g \in guests /\ g.inc \in Incarnations
        BY Zenon, <2>1, <3>3, GuestTypes DEF Up, Guests
      <4>2. CASE process[g.inc] = g.generation
        <5>1. g.inc = i
          BY Zenon, <2>5, <3>3, <4>1, <4>2
        <5>2. /\ inc'[t] = g.inc /\ pc'[t] = "kill"
              /\ takenProcess'[t] = g.generation
          BY Zenon, <2>1, <2>3, <2>5, <4>2, <5>1
        <5>3. QED
          BY Zenon, <5>2
      <4>3. ASSUME NEW u \in Threads, inc[u] = g.inc,
                   \/ pc[u] = "kill" /\ takenProcess[u] = g.generation
                   \/ pc[u] = "publishProcess" /\ captured[u] = g.generation
            PROVE  /\ inc'[u] = g.inc
                   /\ \/ pc'[u] = "kill" /\ takenProcess'[u] = g.generation
                      \/ pc'[u] = "publishProcess" /\ captured'[u] = g.generation
        BY Zenon, <2>1, <2>2, <2>5, <4>3
      <4>4. QED
        BY Zenon, <2>4, <4>1, <4>2, <4>3 DEF HostOK, NoOrphanGuest, Up
    <3>4. QED
      BY Zenon, <3>1, <3>2, <3>3 DEF HostOK, NoOrphanGuest
  <2>13. QED
      BY Zenon, <2>7, <2>9, <2>11, <2>12, <1>ChangesKeeps

<1>PublishProcessKeeps.
    ASSUME Up, NEW t \in Threads, PublishProcess(t)
    PROVE  GuestsOK'
  <2> USE <1>PublishProcessKeeps
  <2>1. /\ process' = [process EXCEPT ![inc[t]] = captured[t]]
        /\ UNCHANGED <<op, inc, captured, takenProcess>>
        /\ UNCHANGED <<generation, stopped, transition, made>>
        /\ UNCHANGED <<guests, exits, deaths, killed>>
        /\ pc[t] = "publishProcess"
        /\ \E l \in {"waitForSocket", Rollback(t)} : pc' = [pc EXCEPT ![t] = l]
      BY Zenon DEF PublishProcess, At, Goto, identity, status, host, history,
         locals, taken
  <2>2. pc[t] \in {"startJailer", "publishProcess", "teardown", "released"}
        /\ pc[t] # "untrack"
      BY Zenon, <2>1
  <2>3. PICK i \in Incarnations : i = inc[t]
      BY Zenon, <2>2, <1>HolderOK
  <2>4. /\ i # NoIncarnation /\ ThreadOK(t) /\ SandboxOK(i) /\ HostOK
        /\ generation[i] \in Nat
      BY Zenon, <2>2, <2>3, <1>HolderOK
  <2>5. \A u \in Threads : inc[u] = i /\ (pc[u] = "kill" \/ pc[u] = "publishProcess")
                               => u = t
      BY Zenon, <2>2, <2>3, <1>HolderOK
  <2>6. process[i] = NoProcess /\ captured[t] = generation[i]
      BY Zenon, <2>1, <2>3, <2>4 DEF ThreadOK
  <2>7. /\ process'[i] = captured[t]
        /\ pc'[t] \in {"waitForSocket", Rollback(t)}
        /\ \A j \in Incarnations \ {i} : process'[j] = process[j]
        /\ \A u \in Threads \ {t} : pc'[u] = pc[u]
      BY Zenon, <2>1, <2>3, GuestTypes DEF Up
  <2>8. \A j, n : Used(j, n)' <=> Used(j, n)
      BY Zenon, <2>1 DEF Used, Live
  <2>9. Changes(t, i)
      BY Zenon, <2>1, <2>2, <2>3, <2>7, <2>8 DEF Changes, Alone
  <2>10. SandboxOK(i)'
    <3>1. \A n \in Nat : Used(i, n)' => n <= generation'[i]
      BY Zenon, <2>1, <2>4, <2>8 DEF SandboxOK
    <3>2. process'[i] = generation'[i] /\ generation'[i] \in Nat
      BY Zenon, <2>1, <2>4, <2>6, <2>7
    <3>3. process'[i] <= generation'[i]
      BY Zenon, <3>2, NatOrder
    <3>4. QED
      BY Zenon, <2>1, <2>2, <2>3, <3>1, <3>3, <1>HeldOK
  <2>11. ThreadOK(t)'
    <3>1. /\ pc'[t] \notin {"claimDeath", "startJailer", "publishProcess", "kill",
                            "released"}
          /\ pc'[t] \notin BareAt
          /\ pc'[t] \in Active \/ op[t] = "create"
      BY Zenon, <2>7 DEF Rollback, BareAt, Active
    <3>2. op[t] = "create" => ~stopped[i]
      BY Zenon, <2>2, <2>3, <2>4 DEF ThreadOK
    <3>3. QED
      BY Zenon, <2>1, <2>3, <3>1, <3>2 DEF ThreadOK
  <2>12. HostOK'
    <3>1. /\ Unique' /\ KillIsNotDeath'
          /\ \A h \in guests' : <<h.inc, h.generation>> \notin exits' \cup deaths'
          /\ \A x \in killed' : x[2] < generation'[x[1]]
      BY Zenon, <2>1, <2>4 DEF HostOK, Unique, KillIsNotDeath
    <3>2. ASSUME NEW g \in guests', process'[g.inc] # g.generation
          PROVE  \E u \in Threads :
                    /\ inc'[u] = g.inc
                    /\ \/ pc'[u] = "kill" /\ takenProcess'[u] = g.generation
                       \/ pc'[u] = "publishProcess" /\ captured'[u] = g.generation
      <4>1. /\ g \in guests /\ g.inc \in Incarnations /\ g.generation \in Nat
        BY Zenon, <2>1, <3>2, GuestTypes DEF Up, Guests
      <4>2. process[g.inc] # g.generation
        <5>1. CASE g.inc = i
          BY Zenon, <2>6, <4>1, <5>1, NoneApart
        <5>2. CASE g.inc # i
          BY Zenon, <2>7, <3>2, <4>1, <5>2
        <5>3. QED
          BY Zenon, <5>1, <5>2
      <4>3. PICK u \in Threads :
                /\ inc[u] = g.inc
                /\ \/ pc[u] = "kill" /\ takenProcess[u] = g.generation
                   \/ pc[u] = "publishProcess" /\ captured[u] = g.generation
        BY Zenon, <2>4, <4>1, <4>2 DEF HostOK, NoOrphanGuest, Up
      <4>4. u # t
        <5>1. ASSUME u = t PROVE FALSE
          <6>1. g.inc = i /\ captured[t] = g.generation
            BY Zenon, <2>1, <2>3, <4>3, <5>1
          <6>2. QED
            BY Zenon, <2>7, <3>2, <6>1
        <5>2. QED
          BY Zenon, <5>1
      <4>5. QED
        BY Zenon, <2>1, <2>7, <4>3, <4>4
    <3>3. QED
      BY Zenon, <3>1, <3>2 DEF HostOK, NoOrphanGuest
  <2>13. QED
      BY Zenon, <2>9, <2>10, <2>11, <2>12, <1>ChangesKeeps

<1>BecomeStoppedKeeps.
    ASSUME Up, NEW t \in Threads, BecomeStopped(t)
    PROVE  GuestsOK'
  <2> USE <1>BecomeStoppedKeeps
  <2>1. /\ process' = [process EXCEPT ![inc[t]] = NoProcess] \/ process' = process
        /\ stopped' = [stopped EXCEPT ![inc[t]] = TRUE]
        /\ UNCHANGED <<op, inc, captured, takenProcess>>
        /\ UNCHANGED <<generation, transition, made>>
        /\ UNCHANGED <<guests, exits, deaths, killed>>
        /\ pc[t] = "released" /\ pc' = [pc EXCEPT ![t] = "endTransition"]
      BY Zenon DEF BecomeStopped, At, Goto, identity, host, history, locals, taken
  <2>2. /\ pc[t] \in {"startJailer", "publishProcess", "teardown", "released"}
        /\ pc[t] # "untrack" /\ pc[t] # "kill" /\ pc[t] # "publishProcess"
        /\ pc[t] \in BareAt
      BY Zenon, <2>1 DEF BareAt
  <2>3. PICK i \in Incarnations : i = inc[t]
      BY Zenon, <2>2, <1>HolderOK
  <2>4. /\ i # NoIncarnation /\ ThreadOK(t) /\ SandboxOK(i) /\ HostOK
      BY Zenon, <2>2, <2>3, <1>HolderOK
  <2>5. Bare(i) /\ op[t] # "create"
      BY Zenon, <2>1, <2>2, <2>3, <2>4 DEF ThreadOK
  <2>6. /\ process'[i] = process[i] /\ pc'[t] = "endTransition"
        /\ \A j \in Incarnations \ {i} :
              process'[j] = process[j] /\ stopped'[j] = stopped[j]
        /\ \A u \in Threads \ {t} : pc'[u] = pc[u]
    <3>1. process[i] = NoProcess
      BY Zenon, <2>5 DEF Bare
    <3>2. QED
      BY Zenon, <2>1, <2>3, <3>1, GuestTypes DEF Up
  <2>7. \A j, n : Used(j, n)' <=> Used(j, n)
      BY Zenon, <2>1 DEF Used, Live
  <2>8. Changes(t, i)
      BY Zenon, <2>1, <2>2, <2>3, <2>6, <2>7 DEF Changes, Alone
  <2>9. SandboxOK(i)'
    <3>1. /\ \A n \in Nat : Used(i, n)' => n <= generation'[i]
          /\ process'[i] <= generation'[i]
      BY Zenon, <2>1, <2>4, <2>6, <2>7 DEF SandboxOK
    <3>2. QED
      BY Zenon, <2>1, <2>2, <2>3, <3>1, <1>HeldOK
  <2>10. ThreadOK(t)'
    <3>1. Bare(i)'
      BY Zenon, <2>1, <2>5, <2>6, <2>7 DEF Bare
    <3>2. pc'[t] \notin {"claimDeath", "startJailer", "publishProcess", "kill",
                         "released"}
      BY Zenon, <2>6
    <3>3. QED
      BY Zenon, <2>1, <2>3, <2>5, <3>1, <3>2 DEF ThreadOK
  <2>11. HostOK'
    <3>1. /\ Unique' /\ KillIsNotDeath'
          /\ \A h \in guests' : <<h.inc, h.generation>> \notin exits' \cup deaths'
          /\ \A x \in killed' : x[2] < generation'[x[1]]
      BY Zenon, <2>1, <2>4 DEF HostOK, Unique, KillIsNotDeath
    <3>2. \A g \in guests : g.inc \in Incarnations
      BY Zenon, GuestTypes DEF Up, Guests
    <3>3. ASSUME NEW g \in guests', process'[g.inc] # g.generation
          PROVE  \E u \in Threads :
                    /\ inc'[u] = g.inc
                    /\ \/ pc'[u] = "kill" /\ takenProcess'[u] = g.generation
                       \/ pc'[u] = "publishProcess" /\ captured'[u] = g.generation
      <4>1. g \in guests /\ process[g.inc] # g.generation
        BY Zenon, <2>1, <2>6, <3>2, <3>3
      <4>2. PICK u \in Threads :
                /\ inc[u] = g.inc
                /\ \/ pc[u] = "kill" /\ takenProcess[u] = g.generation
                   \/ pc[u] = "publishProcess" /\ captured[u] = g.generation
        BY Zenon, <2>4, <4>1 DEF HostOK, NoOrphanGuest, Up
      <4>3. QED
        BY Zenon, <2>1, <2>2, <2>6, <4>2
    <3>4. QED
      BY Zenon, <3>1, <3>3 DEF HostOK, NoOrphanGuest
  <2>12. QED
      BY Zenon, <2>8, <2>9, <2>10, <2>11, <1>ChangesKeeps

<1>StartJailerKeeps.
    ASSUME Up, NEW t \in Threads, StartJailer(t)
    PROVE  GuestsOK'
  <2> USE <1>StartJailerKeeps
  <2>1. /\ UNCHANGED <<op, inc, captured, takenProcess>>
        /\ UNCHANGED <<process, generation, exits, deaths, killed, made>>
        /\ UNCHANGED <<stopped, transition>>
        /\ pc[t] = "startJailer"
      BY Zenon DEF StartJailer, At, sandbox, identity, handles, status, history,
         locals, taken
  <2>2. /\ pc[t] \in {"startJailer", "publishProcess", "teardown", "released"}
        /\ pc[t] # "untrack" /\ pc[t] # "kill" /\ pc[t] # "publishProcess"
        /\ pc[t] \in BareAt \ {"kill"}
      BY Zenon, <2>1 DEF BareAt
  <2>3. CASE UNCHANGED guests /\ Goto(t, Rollback(t))
    <3>1. Quiet(t)
      BY Zenon, <2>1, <2>3, UnchangedSame, <1>StillQuiet, GuestTypes DEF Up
    <3>2. Rollback(t) \in {"delete", "teardown"}
      BY Zenon DEF Rollback
    <3>3. QED
      BY Zenon, <2>2, <2>3, <3>1, <3>2, <1>FromBare, <1>FollowsKeeps
  <2>4. ASSUME NEW s,
               guests' = guests \cup {Guest(inc[t], captured[t], s, "booting")},
               Goto(t, "publishProcess")
        PROVE  GuestsOK'
    <3>1. PICK i \in Incarnations : i = inc[t]
      BY Zenon, <2>2, <1>HolderOK
    <3>2. /\ i # NoIncarnation /\ ThreadOK(t) /\ SandboxOK(i) /\ HostOK
          /\ generation[i] \in Nat
      BY Zenon, <2>2, <3>1, <1>HolderOK
    <3>3. Bare(i) /\ captured[t] = generation[i]
      BY Zenon, <2>1, <2>2, <3>1, <3>2 DEF ThreadOK
    <3>4. PICK k : k = Guest(i, generation[i], s, "booting")
      BY Zenon
    <3>5. guests' = guests \cup {k} /\ k.inc = i /\ k.generation = generation[i]
      BY Zenon, <2>4, <3>1, <3>3, <3>4 DEF Guest
    <3>6. /\ pc'[t] = "publishProcess"
          /\ \A u \in Threads \ {t} : pc'[u] = pc[u]
      BY Zenon, <2>4, GuestTypes DEF Up, Goto
    <3>7. \A j, n : Used(j, n)' => Used(j, n) \/ (j = i /\ n = generation[i])
      BY Zenon, <2>1, <3>5 DEF Used, Live
    <3>8. /\ ~Live(i, generation[i]) /\ process[i] = NoProcess
          /\ <<i, generation[i]>> \notin exits \cup deaths
      BY Zenon, <3>3 DEF Bare, Used
    <3>9. Changes(t, i)
      BY Zenon, <2>1, <2>2, <3>1, <3>6, <3>7 DEF Changes, Alone
    <3>10. SandboxOK(i)'
      <4>1. \A n \in Nat : Used(i, n) => n <= generation[i]
        BY Zenon, <3>2 DEF SandboxOK
      <4>2. generation[i] <= generation[i]
        BY Zenon, <3>2, NatOrder
      <4>3. /\ \A n \in Nat : Used(i, n)' => n <= generation'[i]
            /\ process'[i] <= generation'[i]
        BY Zenon, <2>1, <3>2, <3>7, <4>1, <4>2 DEF SandboxOK
      <4>4. QED
        BY Zenon, <2>1, <2>2, <3>1, <4>3, <1>HeldOK
    <3>11. ThreadOK(t)'
      <4>1. /\ pc'[t] \notin {"claimDeath", "kill", "released"}
            /\ pc'[t] \notin BareAt /\ pc'[t] \in Active
        BY Zenon, <3>6 DEF BareAt, Active
      <4>2. op[t] = "create" => ~stopped[i]
        BY Zenon, <2>2, <3>1, <3>2 DEF ThreadOK
      <4>3. QED
        BY Zenon, <2>1, <3>1, <3>3, <3>8, <4>1, <4>2 DEF ThreadOK
    <3>12. HostOK'
      <4>1. \A g \in guests : g.inc # k.inc \/ g.generation # k.generation
        BY Zenon, <3>5, <3>8 DEF Live
      <4>2. Unique'
        BY Zenon, <3>2, <3>5, <4>1 DEF HostOK, Unique
      <4>3. KillIsNotDeath' /\ \A x \in killed' : x[2] < generation'[x[1]]
        BY Zenon, <2>1, <3>2 DEF HostOK, KillIsNotDeath
      <4>4. \A h \in guests' : <<h.inc, h.generation>> \notin exits' \cup deaths'
        BY Zenon, <2>1, <3>2, <3>5, <3>8 DEF HostOK
      <4>5. ASSUME NEW g \in guests', process'[g.inc] # g.generation
            PROVE  \E u \in Threads :
                      /\ inc'[u] = g.inc
                      /\ \/ pc'[u] = "kill" /\ takenProcess'[u] = g.generation
                         \/ pc'[u] = "publishProcess" /\ captured'[u] = g.generation
        <5>1. CASE g = k
          BY Zenon, <2>1, <3>1, <3>3, <3>5, <3>6, <5>1
        <5>2. CASE g \in guests
          <6>1. PICK u \in Threads :
                    /\ inc[u] = g.inc
                    /\ \/ pc[u] = "kill" /\ takenProcess[u] = g.generation
                       \/ pc[u] = "publishProcess" /\ captured[u] = g.generation
            BY Zenon, <2>1, <3>2, <4>5, <5>2 DEF HostOK, NoOrphanGuest, Up
          <6>2. QED
            BY Zenon, <2>1, <2>2, <3>6, <6>1
        <5>3. QED
          BY Zenon, <3>5, <4>5, <5>1, <5>2
      <4>6. QED
        BY Zenon, <4>2, <4>3, <4>4, <4>5 DEF HostOK, NoOrphanGuest
    <3>13. QED
      BY Zenon, <3>9, <3>10, <3>11, <3>12, <1>ChangesKeeps
  <2>5. QED
      BY Zenon, <2>3, <2>4 DEF StartJailer

\* The wirer, and a stuttering step.
<1>WirerKeeps.
    ASSUME Up, Wirer \/ UNCHANGED vars
    PROVE  GuestsOK'
  <2> USE <1>WirerKeeps
  <2>1. SameGuests
    <3>1. UNCHANGED guests \/ \E s : guests' = Isolate(s)
      BY Zenon DEF Wirer, WirerScan, WirerBuild, WirerWait, SetupNetwork, host, vars
    <3>2. QED
      BY Zenon, <3>1, UnchangedSame, IsolateSame DEF Up
  <2>2. /\ UNCHANGED <<pc, op, inc, captured, takenProcess>>
        /\ UNCHANGED <<process, generation, exits, deaths, killed, made>>
        /\ UNCHANGED <<stopped, transition>>
      BY Zenon DEF Wirer, WirerScan, WirerBuild, WirerWait, host, vars, sandbox,
         identity, handles, status, locals, taken, history
  <2>3. made' \in Nat /\ made <= made'
      BY Zenon, <2>2, GuestTypes, MadeOrder DEF Up
  <2>4. Walks(Nil)
      BY Zenon, <2>1, <2>2, <2>3, ConstantsAssumption DEF Walks, Undisturbed, Alone
  <2>5. QED
      BY Zenon, <2>4, <1>WalksKeeps, ConstantsAssumption

<1>StepGuests.
    ASSUME Up, NEW t \in Threads, Step(t), phase' = "up"
    PROVE  GuestsOK'
  <2> USE <1>StepGuests
  <2>1. ~ShutdownNext(t)
      BY Zenon DEF ShutdownNext, At, Up, ExclusionInv, Claimed
  <2>2. CASE Activate(t)
      BY Zenon, <2>2, <1>PreparationKeeps, <1>ReadGenerationKeeps, <1>StartJailerKeeps,
         <1>PublishProcessKeeps, <1>RunningKeeps DEF Activate
  <2>3. QED
      BY Zenon, <2>1, <2>2, <1>PreparationKeeps, <1>FinishKeeps, <1>FinishWakeKeeps,
         <1>SettledKeeps, <1>BecomeStoppedKeeps, <1>CheckWakeKeeps, <1>TakeHandlesKeeps,
         <1>StopAndKillKeeps, <1>ClearGuests, <1>MarkDeletingGuests,
         <1>KeepAfterFailedDeleteGuests, <1>UntrackSandboxGuests, <1>ClaimDeathKeeps
      DEF Step

<1> SUFFICES ASSUME Up, [Next]_vars, phase' = "up"
             PROVE  GuestsOK'
    BY Zenon
<1>1. ASSUME NEW t \in Threads, Start(t)
      PROVE  GuestsOK'
  <2>1. ~Shutdown(t)
    BY Zenon DEF Shutdown
  <2>2. QED
    BY Zenon, <1>1, <2>1, <1>ReserveSandboxKeeps, <1>BeginTransitionKeeps DEF Start
<1>2. QED
    BY Zenon, <1>1, <1>StepGuests, <1>RecordGuestDeathGuests, <1>GuestDiesKeeps,
       <1>WirerKeeps DEF Next

-----------------------------------------------------------------------------
(***************************************************************************)
(* No slot is lost and none is handed out twice (reserveSlotLocked,        *)
(* releaseSlotLocked and slotOwnedByLocked).  A slot goes back only from   *)
(* a tracked sandbox: the hazard is a failed create, which untracks its    *)
(* sandbox after it has given up the claim, beside another operation.      *)
(***************************************************************************)

\* What the argument about the slots needs of the types and of the microVMs.
LEMMA SlotTypes ==
    ASSUME SlotUp
    PROVE  /\ Up /\ ExclusionInv /\ OperationsExclusive /\ phase = "up"
           /\ pc \in [Threads -> Labels]
           /\ inc \in [Threads -> Incarnations \cup {NoIncarnation}]
           /\ op \in [Threads -> {"none", "create", "stop", "wake", "delete",
                                  "crash", "shutdown"}]
           /\ captured \in [Threads -> Nat]
           /\ died \in [Threads -> Incarnations \cup {NoIncarnation}]
           /\ generation \in [Incarnations -> Nat]
           /\ running \in [Incarnations -> BOOLEAN]
           /\ stopped \in [Incarnations -> BOOLEAN]
           /\ made \in 0 .. MaxIncarnations
           /\ sandboxes \in [Ids -> Incarnations \cup {NoIncarnation}]
           /\ slots \in [Slots -> Ids \cup {Nil}]
           /\ idOf \in [Incarnations -> Ids]
           /\ slot \in [Incarnations -> Slots \cup {NoSlot}]
           /\ exits \subseteq Incarnations \X Nat
           /\ BoundThreads /\ BoundMap
           /\ \A t \in Threads : SlotThread(t) /\ ThreadOK(t)
BY Zenon, GuestTypes DEF SlotUp, SlotsOK, Up, ExclusionInv, TypeOK, TypeThreads,
   TypeSandbox, TypeRuntime, Bound, GuestsOK

\* The plain types among them, for the arithmetic and the updates of functions.
LEMMA SlotFunctions ==
    ASSUME SlotUp
    PROVE  /\ pc \in [Threads -> Labels]
           /\ inc \in [Threads -> Incarnations \cup {NoIncarnation}]
           /\ op \in [Threads -> {"none", "create", "stop", "wake", "delete",
                                  "crash", "shutdown"}]
           /\ captured \in [Threads -> Nat]
           /\ died \in [Threads -> Incarnations \cup {NoIncarnation}]
           /\ running \in [Incarnations -> BOOLEAN]
           /\ stopped \in [Incarnations -> BOOLEAN]
           /\ made \in 0 .. MaxIncarnations
           /\ sandboxes \in [Ids -> Incarnations \cup {NoIncarnation}]
           /\ slots \in [Slots -> Ids \cup {Nil}]
           /\ idOf \in [Incarnations -> Ids]
           /\ slot \in [Incarnations -> Slots \cup {NoSlot}]
BY Zenon, SlotTypes

\* What a thread is bound to, outside Shutdown.
LEMMA SlotBounds ==
    ASSUME SlotUp, NEW t \in Threads
    PROVE  /\ inc[t] \in Incarnations \cup {NoIncarnation}
           /\ inc[t] <= made /\ made \in 0 .. MaxIncarnations
           /\ \/ inc[t] # NoIncarnation
              \/ pc[t] \in {"idle", "claimDeath", "nextDelete",
                            "clearSlot", "cleanupScript"}
           /\ pc[t] = "claimDeath" => died[t] \in Incarnations
           /\ op[t] # "shutdown"
BY Zenon, SlotTypes DEF BoundThreads

\* What sandboxesByID holds was made.
LEMMA MapBounds ==
    ASSUME SlotUp
    PROVE  /\ made \in 0 .. MaxIncarnations
           /\ \A id \in Ids : /\ sandboxes[id] \in Incarnations \cup {NoIncarnation}
                              /\ sandboxes[id] <= made
BY Zenon, SlotTypes DEF BoundMap

\* What a step of a thread does not do to the sandboxes of the others.
Behaves(t) ==
    /\ \A u \in Threads \ {t} :
          /\ pc'[u] = pc[u] /\ inc'[u] = inc[u] /\ op'[u] = op[u]
          /\ died'[u] = died[u] /\ captured'[u] = captured[u]
    /\ deaths \subseteq deaths'
    /\ \A i \in Incarnations : i # inc[t] =>
          /\ running'[i] => running[i]
          /\ stopped'[i] <=> stopped[i]
          /\ Bare(i) => Bare(i)'
    /\ \A i \in Incarnations : i <= made /\ Tracked(i) =>
          Tracked(i)' \/ (i = inc[t] /\ pc[t] = "untrack")
    /\ op[t] = "delete" \/ pc[t] \in Harmless \/ GaveUp(t) =>
          \A i \in Incarnations : i = inc[t] /\ Spent(i) => Spent(i)'
    /\ \/ op'[t] = "delete" \/ pc'[t] \in Harmless
       \/ \A u \in Threads \ {t} : GaveUp(u) => inc[u] # inc'[t]

\* Two operations on one sandboxState: one is a failed create.
LEMMA Together ==
    ASSUME SlotUp, NEW t \in Threads, NEW u \in Threads, u # t,
           inc[u] = inc[t], inc[u] # NoIncarnation
    PROVE  \/ GaveUp(u) /\ (op[t] = "delete" \/ pc[t] \in Harmless)
           \/ GaveUp(t) /\ (op[u] = "delete" \/ pc[u] \in Harmless)
<1>1. GaveUp(u) \/ GaveUp(t)
    BY Zenon, SlotTypes DEF OperationsExclusive
<1>2. BesideFailed(u) /\ BesideFailed(t)
    BY Zenon, SlotTypes DEF SlotThread
<1>3. QED
    BY Zenon, <1>1, <1>2 DEF BesideFailed

-----------------------------------------------------------------------------
(* The steps that leave the map and the slots alone.                       *)

\* The next label of an operation that goes on.
Leads(t, l) ==
    /\ pc[t] \notin {"idle", "untrack"}
    /\ l \notin {"idle", "claimDeath", "checkStale", "wake"}
    /\ op[t] = "delete" /\ pc[t] \in DeleteAt => l \in DeleteAt
    /\ op[t] = "create" /\ pc[t] \in CreateAt => l \in CreateAt
    /\ op[t] \in SlotOps /\ pc[t] \notin DisposeAt => l \notin DisposeAt
    /\ l = "reserveWakeSlot" => pc[t] = "wake" /\ stopped[inc[t]]
    /\ pc[t] \in Harmless /\ Spent(inc[t]) => l \in Harmless
    /\ op[t] = "wake" /\ pc[t] \in WakeAt => l \in WakeAt
    /\ l = "untrack" => pc[t] \in {"removeDataDir", "deleted"}

\* Only an activation gives its sandbox a microVM.
Onward(t) ==
    /\ UNCHANGED <<sandboxes, slots, slot, idOf, made>>
    /\ UNCHANGED <<op, inc, died, deaths, stopped>>
    /\ \A u \in Threads \ {t} : captured'[u] = captured[u]
    /\ \A i \in Incarnations : running'[i] => running[i]
    /\ \A i \in Incarnations :
          Bare(i) => Bare(i)' \/ (i = inc[t] /\ pc[t] \in ActivateAt)

\* A runner starts with every slot free.
LEMMA InitSlots == Init => SlotsOK
<1> SUFFICES ASSUME Init PROVE SlotsOK
    BY Zenon
<1>1. /\ made = 0
      /\ \A t \in Threads : /\ pc[t] = "idle" /\ op[t] = "none"
                            /\ inc[t] = NoIncarnation
      /\ \A id \in Ids : sandboxes[id] = NoIncarnation
      /\ \A s \in Slots : slots[s] = Nil
      /\ \A i \in Incarnations : ~running[i] /\ ~stopped[i]
    BY Zenon DEF Init
<1>2. ASSUME NEW t \in Threads PROVE SlotThread(t)
    BY Zenon, <1>1 DEF SlotThread, OpAt, OnTracked, BesideFailed, GaveUp, SlotOps
<1>3. MapOK /\ StoppedOK /\ UnmadeOK
    BY Zenon, <1>1 DEF MapOK, StoppedOK, UnmadeOK
<1>4. SlotsAccounted
    BY Zenon, <1>1, ConstantsAssumption DEF SlotsAccounted
<1>5. QED
    BY Zenon, <1>2, <1>3, <1>4 DEF SlotsOK

\* Every step keeps the slots accounted for, outside Shutdown.
LEMMA NextSlots == SlotUp /\ [Next]_vars /\ phase' = "up" => SlotsOK'
<1>BehavesKeeps.
    ASSUME SlotUp, NEW t \in Threads, Behaves(t), SlotThread(t)',
           NEW u \in Threads
    PROVE  SlotThread(u)'
  <2> USE <1>BehavesKeeps
  <2>1. CASE u = t
      BY Zenon, <2>1
  <2>2. CASE u # t
    <3>1. /\ pc'[u] = pc[u] /\ inc'[u] = inc[u] /\ op'[u] = op[u]
          /\ died'[u] = died[u] /\ captured'[u] = captured[u]
          /\ SlotThread(u) /\ OpAt(u) /\ BesideFailed(u) /\ OnTracked(u)
      BY Zenon, <2>2, SlotTypes DEF Behaves, SlotThread
    <3>2. GaveUp(u)' <=> GaveUp(u)
      BY Zenon, <3>1 DEF GaveUp
    <3>3. /\ OpAt(u)'
          /\ pc'[u] \in {"claimDeath", "checkStale"}
                 => <<died'[u], captured'[u]>> \in deaths'
      BY Zenon, <3>1 DEF OpAt, Behaves, SlotThread
    <3>4. CASE inc[u] = NoIncarnation
      <4>1. pc[u] \in {"idle", "claimDeath", "nextDelete", "clearSlot", "cleanupScript"}
        BY Zenon, <3>4, SlotTypes DEF BoundThreads
      <4>2. pc[u] # "untrack" /\ pc[u] # "reserveWakeSlot"
        BY Zenon, <4>1
      <4>3. QED
        BY Zenon, <3>1, <3>3, <3>4, <4>2 DEF SlotThread, OnTracked, GaveUp,
           BesideFailed
    <3>5. CASE inc[u] # NoIncarnation
      <4>1. PICK i \in Incarnations : i = inc[u]
        BY Zenon, <3>5, SlotTypes
      <4>2. i <= made
        BY Zenon, <4>1, SlotTypes DEF BoundThreads
      <4>3. ASSUME NEW v \in Threads \ {u}, GaveUp(u), inc'[v] = i
            PROVE  op'[v] = "delete" \/ pc'[v] \in Harmless
        BY Zenon, <2>2, <3>1, <4>1, <4>3 DEF Behaves, BesideFailed
      <4>4. CASE i # inc[t]
        <5>1. /\ running'[i] => running[i]
              /\ stopped'[i] <=> stopped[i]
              /\ Spent(i) => Spent(i)'
              /\ Tracked(i) => Tracked(i)'
          BY Zenon, <4>2, <4>4 DEF Behaves, Spent
        <5>2. OnTracked(u)'
          BY Zenon, <3>1, <4>1, <5>1 DEF OnTracked
        <5>3. BesideFailed(u)'
          BY Zenon, <3>1, <3>2, <4>1, <4>3, <5>1 DEF BesideFailed
        <5>4. QED
          BY Zenon, <3>1, <3>3, <4>1, <5>1, <5>2, <5>3 DEF SlotThread
      <4>5. CASE i = inc[t]
        <5>1. CASE GaveUp(u) /\ (op[t] = "delete" \/ pc[t] \in Harmless)
          <6>0. Spent(i) /\ pc'[u] = "untrack"
            BY Zenon, <3>1, <4>1, <5>1 DEF BesideFailed, GaveUp
          <6>1. Spent(i)' /\ ~running'[i] /\ pc'[u] = "untrack"
            <7>1. Spent(i)'
              BY Zenon, <4>5, <5>1, <6>0 DEF Behaves
            <7>2. QED
              BY Zenon, <6>0, <7>1 DEF Spent
          <6>2. BesideFailed(u)'
            BY Zenon, <3>1, <4>1, <4>3, <5>1, <6>1 DEF BesideFailed
          <6>3. op'[u] = "create"
            BY Zenon, <3>1, <5>1 DEF GaveUp
          <6>4. OnTracked(u)' /\ pc'[u] # "reserveWakeSlot"
            BY Zenon, <6>1, <6>3 DEF OnTracked, SlotOps
          <6>5. QED
            BY Zenon, <3>1, <3>3, <4>1, <6>1, <6>2, <6>4 DEF SlotThread
        <5>2. CASE GaveUp(t) /\ (op[u] = "delete" \/ pc[u] \in Harmless)
          <6>1. Spent(i) /\ Spent(i)'
            <7>1. BesideFailed(t)
              BY Zenon, SlotTypes DEF SlotThread
            <7>2. Spent(i)
              BY Zenon, <4>5, <5>2, <7>1 DEF BesideFailed
            <7>3. QED
              BY Zenon, <4>5, <5>2, <7>2 DEF Behaves
          <6>2. op[u] # "create" /\ pc[u] # "reserveWakeSlot" /\ ~GaveUp(u)
            BY Zenon, <3>1, <5>2 DEF OpAt, CreateAt, DeleteAt, ActivateAt, Harmless, GaveUp
          <6>3. op[u] # "delete" => pc[u] \in Harmless
            BY Zenon, <5>2
          <6>4. OnTracked(u)'
            <7>1. "delete" \notin SlotOps
              BY Zenon DEF SlotOps
            <7>2. QED
              BY Zenon, <3>1, <4>1, <6>1, <6>3, <7>1 DEF OnTracked
          <6>5. QED
            BY Zenon, <3>1, <3>2, <3>3, <6>2, <6>4 DEF SlotThread, BesideFailed
        <5>3. QED
          BY Zenon, <2>2, <3>5, <4>1, <4>5, <5>1, <5>2, Together
      <4>6. QED
        BY Zenon, <4>4, <4>5
    <3>6. QED
      BY Zenon, <3>4, <3>5
  <2>3. QED
      BY Zenon, <2>1, <2>2

<1>SameSlots.
    ASSUME SlotUp, NEW t \in Threads, Behaves(t), SlotThread(t)',
           UNCHANGED <<sandboxes, slots, slot, idOf, made>>,
           inc[t] \in Incarnations => (stopped'[inc[t]] => stopped[inc[t]]),
           /\ op[t] = "wake" /\ pc[t] \in WakeAt /\ inc[t] \in Incarnations
           => \/ inc'[t] = inc[t] /\ op'[t] = "wake" /\ pc'[t] \in WakeAt
              \/ ~stopped'[inc[t]]
    PROVE  SlotsOK'
  <2> USE <1>SameSlots
  <2>1. \A u \in Threads : SlotThread(u)'
      BY Zenon, <1>BehavesKeeps
  <2>2. MapOK' /\ SlotsAccounted'
    <3>1. MapOK /\ SlotsAccounted /\ phase = "up"
      BY Zenon DEF SlotUp, Up, SlotsOK
    <3>2. MapOK'
      BY Zenon, <3>1 DEF MapOK
    <3>3. SlotsAccounted'
      BY Zenon, <3>1 DEF SlotsAccounted
    <3>4. QED
      BY Zenon, <3>2, <3>3
  <2>3. ASSUME NEW i \in Incarnations, stopped'[i], slot'[i] # NoSlot
        PROVE  \E u \in Threads : inc'[u] = i /\ op'[u] = "wake" /\ pc'[u] \in WakeAt
    <3>1. stopped[i] /\ slot[i] # NoSlot
      BY Zenon, <2>3 DEF Behaves
    <3>2. PICK u \in Threads : inc[u] = i /\ op[u] = "wake" /\ pc[u] \in WakeAt
      BY Zenon, <3>1 DEF SlotUp, SlotsOK, StoppedOK
    <3>3. QED
      BY Zenon, <2>3, <3>2 DEF Behaves
  <2>4. ASSUME NEW i \in Incarnations, i > made'
        PROVE  ~running'[i]
    <3>1. i > made /\ ~running[i]
      BY Zenon, <2>4 DEF SlotUp, SlotsOK, UnmadeOK
    <3>2. i # inc[t]
      BY Zenon, <3>1, SlotBounds, MadeOrder
    <3>3. QED
      BY Zenon, <3>1, <3>2 DEF Behaves
  <2>5. QED
      BY Zenon, <2>1, <2>2, <2>3, <2>4 DEF SlotsOK, StoppedOK, UnmadeOK

<1>OnwardKeeps.
    ASSUME SlotUp, NEW t \in Threads, NEW l \in Labels,
           Goto(t, l), Onward(t), Leads(t, l)
    PROVE  SlotsOK'
  <2> USE <1>OnwardKeeps
  <2>1. pc'[t] = l /\ \A u \in Threads \ {t} : pc'[u] = pc[u]
      BY Zenon, SlotFunctions DEF Goto
  <2>2. /\ SlotThread(t) /\ OpAt(t) /\ OnTracked(t)
        /\ op'[t] = op[t] /\ inc'[t] = inc[t]
        /\ inc[t] \in Incarnations \cup {NoIncarnation}
      BY Zenon, SlotTypes DEF SlotThread, Onward
  <2>3. /\ op[t] = "delete" => pc[t] \notin ActivateAt
        /\ pc[t] \in Harmless => pc[t] \notin ActivateAt
        /\ pc[t] \in {"removeDataDir", "deleted"} =>
               pc[t] \in BareAt /\ pc[t] \notin ActivateAt /\ pc[t] \notin Harmless
               /\ pc[t] # "untrack"
      BY Zenon, <2>2 DEF OpAt, DeleteAt, ActivateAt, Harmless, BareAt
  <2>4. ASSUME NEW i \in Incarnations, i = inc[t], Spent(i),
               op[t] = "delete" \/ pc[t] \in Harmless \/ GaveUp(t)
        PROVE  Spent(i)'
      BY Zenon, <2>3, <2>4 DEF Onward, Spent, Leads, GaveUp
  <2>5. ASSUME NEW u \in Threads \ {t}, GaveUp(u), inc[u] = inc'[t]
        PROVE  op'[t] = "delete" \/ pc'[t] \in Harmless
    <3>1. inc[u] # NoIncarnation
      BY Zenon, <2>5, SlotBounds DEF GaveUp
    <3>2. ~GaveUp(t) /\ u # t
      BY Zenon DEF GaveUp, Leads
    <3>3. op[t] = "delete" \/ pc[t] \in Harmless
      BY Zenon, <2>2, <2>5, <3>1, <3>2, Together
    <3>4. Spent(inc[t])
      BY Zenon, <2>2, <2>5, SlotTypes DEF SlotThread, BesideFailed
    <3>5. QED
      BY Zenon, <2>1, <2>2, <3>3, <3>4 DEF Leads
  <2>6. Behaves(t)
    <3>1. \A i \in Incarnations : Tracked(i) => Tracked(i)'
      BY Zenon DEF Onward, Tracked
    <3>2. QED
      BY Zenon, <2>1, <2>4, <2>5, <3>1 DEF Behaves, Onward
  <2>7. OpAt(t)'
    <3>1. /\ l \notin {"idle", "claimDeath"}
          /\ op[t] # "none"
          /\ op[t] = "delete" => l \in DeleteAt
          /\ op[t] = "create" => l \in CreateAt
          /\ op[t] \in SlotOps => l \notin DisposeAt
          /\ l \in {"wake", "reserveWakeSlot"} => op[t] = "wake"
      BY Zenon, <2>2 DEF OpAt, Leads
    <3>2. QED
      BY Zenon, <2>1, <2>2, <3>1 DEF OpAt
  <2>8. OnTracked(t)'
    <3> SUFFICES ASSUME op[t] \in SlotOps, inc[t] # NoIncarnation
                 PROVE  Tracked(inc[t])' \/ (l \in Harmless /\ Spent(inc[t])')
      BY Zenon, <2>1, <2>2 DEF OnTracked
    <3>1. PICK i \in Incarnations : i = inc[t]
      BY Zenon, <2>2
    <3>2. CASE Tracked(i)
      BY Zenon, <2>2, <3>1, <3>2 DEF Tracked, Onward
    <3>3. CASE pc[t] \in Harmless /\ Spent(i)
      BY Zenon, <2>2, <2>4, <3>1, <3>3 DEF Leads
    <3>4. QED
      BY Zenon, <2>2, <3>1, <3>2, <3>3 DEF OnTracked
  <2>9. ASSUME GaveUp(t)'
        PROVE  /\ Spent(inc[t])'
               /\ \A u \in Threads \ {t} : inc'[u] # inc'[t]
    <3>1. op[t] = "create" /\ pc[t] \in {"removeDataDir", "deleted"}
      BY Zenon, <2>1, <2>2, <2>9 DEF GaveUp, Leads
    <3>2. inc[t] # NoIncarnation
      BY Zenon, <3>1, SlotBounds
    <3>3. PICK i \in Incarnations : i = inc[t]
      BY Zenon, <2>2, <3>2
    <3>4. Bare(i) /\ ~stopped[i] /\ ~running[i]
      BY Zenon, <2>2, <2>3, <3>1, <3>2, <3>3, SlotTypes DEF ThreadOK, SlotThread
    <3>5. Spent(i)'
      BY Zenon, <2>3, <3>1, <3>4 DEF Onward, Spent
    <3>6. ASSUME NEW u \in Threads \ {t}, inc'[u] = inc'[t]
          PROVE  FALSE
      <4>1. inc[u] = inc[t]
        BY Zenon, <3>6 DEF Onward
      <4>2. op[t] # "delete" /\ pc[t] \notin Harmless /\ ~GaveUp(t)
        BY Zenon, <2>3, <3>1 DEF GaveUp
      <4>3. QED
        BY Zenon, <3>2, <4>1, <4>2, Together
    <3>7. QED
      BY Zenon, <2>2, <3>3, <3>5, <3>6
  <2>10. SlotThread(t)'
    <3>1. BesideFailed(t)'
      BY Zenon, <2>9 DEF BesideFailed
    <3>2. op'[t] = "create" /\ inc'[t] # NoIncarnation => ~running'[inc'[t]]
      BY Zenon, <2>2 DEF SlotThread, Onward
    <3>3. /\ pc'[t] \notin {"claimDeath", "checkStale"}
          /\ pc'[t] = "reserveWakeSlot" => stopped'[inc'[t]]
      BY Zenon, <2>1 DEF Leads, Onward
    <3>4. QED
      BY Zenon, <2>7, <2>8, <3>1, <3>2, <3>3 DEF SlotThread
  <2>11. UNCHANGED <<sandboxes, slots, slot, idOf, made, stopped>>
      BY Zenon DEF Onward
  <2>12. op[t] = "wake" /\ pc[t] \in WakeAt =>
             inc'[t] = inc[t] /\ op'[t] = "wake" /\ pc'[t] \in WakeAt
      BY Zenon, <2>1, <2>2 DEF Leads
  <2>13. QED
      BY Zenon, <2>6, <2>10, <2>11, <2>12, <1>SameSlots

\* Steps that start and end no microVM.
<1>StillOnward.
    ASSUME NEW t \in Threads, SameGuests,
           UNCHANGED <<process, generation, exits, deaths>>,
           UNCHANGED <<sandboxes, slots, slot, idOf, made>>,
           UNCHANGED <<op, inc, died, stopped>>,
           \A u \in Threads \ {t} : captured'[u] = captured[u],
           \A i \in Incarnations : running'[i] => running[i]
    PROVE  Onward(t)
  <2> USE <1>StillOnward
  <2>1. ASSUME NEW i \in Incarnations, Bare(i)
        PROVE  Bare(i)'
    <3>1. Used(i, generation[i])' => Used(i, generation[i])
      BY Zenon DEF Used, Live, SameGuests
    <3>2. QED
      BY Zenon, <2>1, <3>1 DEF Bare
  <2>2. QED
      BY Zenon, <2>1 DEF Onward

<1>ActivateLeads.
    ASSUME NEW t \in Threads, pc[t] \in ActivateAt,
           NEW l, l \in ActivateAt \/ l = Rollback(t)
    PROVE  l \in Labels /\ Leads(t, l)
    BY Zenon, <1>ActivateLeads DEF Leads, Rollback, ActivateAt, DeleteAt, CreateAt, WakeAt, DisposeAt,
   SlotOps, Harmless, Labels

<1>CreateLeads.
    ASSUME NEW t \in Threads, pc[t] = "cloneAssets",
           NEW l \in {"prepareJail", "delete"}
    PROVE  l \in Labels /\ Leads(t, l)
    BY Zenon, <1>CreateLeads DEF Leads, ActivateAt, DeleteAt, CreateAt, WakeAt, DisposeAt, SlotOps,
   Harmless, Labels

<1>SettledLeads.
    ASSUME NEW t \in Threads,
           pc[t] \in {"stop", "pauseVM", "createSnapshot", "unpin", "resumeVM",
                      "checkStale"},
           NEW l \in {"pauseVM", "createSnapshot", "unpin", "resumeVM",
                      "teardown", "endTransition"},
           pc[t] \in {"stop", "checkStale"} /\ l # "endTransition"
               => ~Spent(inc[t])
    PROVE  l \in Labels /\ Leads(t, l)
    BY Zenon, <1>SettledLeads DEF Leads, ActivateAt, DeleteAt, CreateAt, WakeAt, DisposeAt, SlotOps,
   Harmless, Labels

<1>TeardownLeads.
    ASSUME NEW t \in Threads,
           pc[t] \in {"teardown", "kill", "clearSlot", "cleanupScript"},
           NEW l, \/ l \in {"kill", "clearSlot", "cleanupScript"}
                  \/ l = AfterTeardown(t)
    PROVE  l \in Labels /\ Leads(t, l)
    BY Zenon, <1>TeardownLeads DEF Leads, AfterTeardown, ActivateAt, DeleteAt, CreateAt, WakeAt, DisposeAt,
   SlotOps, Harmless, Labels

<1>DeleteLeads.
    ASSUME NEW t \in Threads,
           pc[t] \in {"delete", "removeDataDir", "deleted"},
           NEW l \in {"teardown", "deleted", "untrack"},
           l = "untrack" => pc[t] # "delete"
    PROVE  l \in Labels /\ Leads(t, l)
    BY Zenon, <1>DeleteLeads DEF Leads, ActivateAt, DeleteAt, CreateAt, WakeAt, DisposeAt, SlotOps,
   Harmless, Labels

<1>SlotsActivation.
    ASSUME SlotUp, NEW t \in Threads,
           PrepareJail(t) \/ ActivateNetwork(t) \/ ReadGeneration(t)
           \/ PinGuest(t) \/ StartGuest(t) \/ NewProxy(t) \/ PublishProxy(t)
           \/ ProbeDaemon(t)
    PROVE  SlotsOK'
  <2> USE <1>SlotsActivation
  <2>1. SameGuests
    <3>1. \/ UNCHANGED guests \/ \E s \in Slots : guests' = Isolate(s)
          \/ \E g \in guests, run \in {"running"} : SetRun(g, run)
      BY Zenon DEF PrepareJail, ActivateNetwork, SetupNetwork, ReadGeneration,
         PinGuest, StartGuest, NewProxy, PublishProxy, ProbeDaemon, host
    <3>2. QED
      BY Zenon, <3>1, UnchangedSame, IsolateSame, SetRunSame DEF SlotUp, Up
  <2>2. /\ UNCHANGED <<process, generation, exits, deaths>>
        /\ UNCHANGED <<sandboxes, slots, slot, idOf, made>>
        /\ UNCHANGED <<op, inc, died, stopped, running>>
        /\ UNCHANGED captured \/ captured' = [captured EXCEPT ![t] = generation[inc[t]]]
      BY Zenon DEF PrepareJail, ActivateNetwork, ReadGeneration, PinGuest,
         StartGuest, NewProxy, PublishProxy, ProbeDaemon, registry, locals, taken,
         sandbox, identity, place, handles, status, host, history
  <2>3. /\ pc[t] \in ActivateAt
        /\ \/ \E l \in ActivateAt : Goto(t, l)
           \/ Goto(t, Rollback(t))
      BY Zenon DEF PrepareJail, ActivateNetwork, ReadGeneration, PinGuest,
         StartGuest, NewProxy, PublishProxy, ProbeDaemon, At, ActivateAt
  <2>4. \A u \in Threads \ {t} : captured'[u] = captured[u]
      BY Zenon, <2>2, SlotFunctions
  <2>5. Onward(t)
      BY Zenon, <2>1, <2>2, <2>4, <1>StillOnward
  <2>6. QED
      BY Zenon, <2>3, <2>5, <1>ActivateLeads, <1>OnwardKeeps

<1>SlotsCreate.
    ASSUME SlotUp, NEW t \in Threads, CloneAssets(t)
    PROVE  SlotsOK'
  <2> USE <1>SlotsCreate
  <2>1. /\ UNCHANGED <<process, generation, exits, deaths, guests>>
        /\ UNCHANGED <<sandboxes, slots, slot, idOf, made>>
        /\ UNCHANGED <<op, inc, died, stopped, running, captured>>
        /\ pc[t] = "cloneAssets"
        /\ \E l \in {"prepareJail", "delete"} : Goto(t, l)
      BY Zenon DEF CloneAssets, At, registry, locals, sandbox, identity, place,
         handles, status, history
  <2>2. Onward(t)
      BY Zenon, <2>1, UnchangedSame, <1>StillOnward
  <2>3. QED
      BY Zenon, <2>1, <2>2, <1>CreateLeads, <1>OnwardKeeps

<1>SlotsSettled.
    ASSUME SlotUp, NEW t \in Threads,
           CheckStop(t) \/ PauseVM(t) \/ CreateSnapshot(t) \/ Unpin(t)
           \/ ResumeVM(t) \/ CheckStale(t)
    PROVE  SlotsOK'
  <2> USE <1>SlotsSettled
  <2>1. SameGuests
    <3>1. \/ UNCHANGED guests
          \/ \E g \in guests, run \in {"running", "paused"} : SetRun(g, run)
      BY Zenon DEF CheckStop, PauseVM, CreateSnapshot, Unpin, ResumeVM,
         CheckStale, host
    <3>2. QED
      BY Zenon, <3>1, UnchangedSame, SetRunSame
  <2>2. /\ UNCHANGED <<process, generation, exits, deaths>>
        /\ UNCHANGED <<sandboxes, slots, slot, idOf, made>>
        /\ UNCHANGED <<op, inc, died, stopped, running, captured>>
      BY Zenon DEF CheckStop, PauseVM, CreateSnapshot, Unpin, ResumeVM,
         CheckStale, registry, locals, taken, sandbox, identity, place, handles,
         status, host, history
  <2>3. /\ pc[t] \in {"stop", "pauseVM", "createSnapshot", "unpin", "resumeVM",
                      "checkStale"}
        /\ \E l \in {"pauseVM", "createSnapshot", "unpin", "resumeVM",
                     "teardown", "endTransition"} :
              /\ Goto(t, l)
              /\ pc[t] = "stop" /\ l # "endTransition" => running[inc[t]]
              /\ pc[t] = "checkStale" /\ l # "endTransition"
                     => inc[t] = died[t] /\ generation[inc[t]] = captured[t]
    <3>1. CASE CheckStop(t)
      <4>1. /\ pc[t] = "stop"
            /\ \/ Goto(t, "pauseVM") /\ running[inc[t]]
               \/ Goto(t, "endTransition")
        BY Zenon, <3>1 DEF CheckStop, At
      <4>2. QED
        BY Zenon, <4>1
    <3>2. CASE CheckStale(t)
      <4>1. /\ pc[t] = "checkStale"
            /\ \/ /\ Goto(t, "teardown")
                  /\ inc[t] = died[t] /\ generation[inc[t]] = captured[t]
               \/ Goto(t, "endTransition")
        BY Zenon, <3>2 DEF CheckStale, At
      <4>2. QED
        BY Zenon, <4>1
    <3>3. CASE PauseVM(t) \/ CreateSnapshot(t) \/ Unpin(t) \/ ResumeVM(t)
      <4>1. /\ pc[t] \in {"pauseVM", "createSnapshot", "unpin", "resumeVM"}
            /\ \E l \in {"createSnapshot", "unpin", "resumeVM", "teardown",
                         "endTransition"} : Goto(t, l)
        BY Zenon, <3>3 DEF PauseVM, CreateSnapshot, Unpin, ResumeVM, At
      <4>2. pc[t] \notin {"stop", "checkStale"}
        BY Zenon, <4>1
      <4>3. QED
        BY Zenon, <4>1, <4>2
    <3>4. QED
      BY Zenon, <3>1, <3>2, <3>3
  <2>4. PICK l \in {"pauseVM", "createSnapshot", "unpin", "resumeVM",
                    "teardown", "endTransition"} :
            /\ Goto(t, l)
            /\ pc[t] = "stop" /\ l # "endTransition" => running[inc[t]]
            /\ pc[t] = "checkStale" /\ l # "endTransition"
                   => inc[t] = died[t] /\ generation[inc[t]] = captured[t]
      BY Zenon, <2>3
  <2>5. pc[t] \in {"stop", "checkStale"} /\ l # "endTransition" => ~Spent(inc[t])
    <3>1. pc[t] = "checkStale" => <<died[t], captured[t]>> \in deaths
      BY Zenon, SlotTypes DEF SlotThread
    <3>2. QED
      BY Zenon, <2>4, <3>1 DEF Spent, Bare, Used
  <2>6. Onward(t)
      BY Zenon, <2>1, <2>2, <1>StillOnward
  <2>7. QED
      BY Zenon, <2>3, <2>4, <2>5, <2>6, <1>SettledLeads, <1>OnwardKeeps

<1>SlotsCheckWake.
    ASSUME SlotUp, NEW t \in Threads, CheckWake(t)
    PROVE  SlotsOK'
  <2> USE <1>SlotsCheckWake
  <2>1. /\ UNCHANGED <<process, generation, exits, deaths, guests>>
        /\ UNCHANGED <<sandboxes, slots, slot, idOf, made>>
        /\ UNCHANGED <<op, inc, died, stopped, running, captured>>
        /\ pc[t] = "wake"
        /\ \/ Goto(t, "endTransition")
           \/ Goto(t, "reserveWakeSlot") /\ stopped[inc[t]]
      BY Zenon DEF CheckWake, At, registry, locals, sandbox, identity, place,
         handles, status, host, history
  <2>2. Onward(t)
      BY Zenon, <2>1, UnchangedSame, <1>StillOnward
  <2>3. /\ "endTransition" \in Labels /\ Leads(t, "endTransition")
        /\ "reserveWakeSlot" \in Labels
        /\ stopped[inc[t]] => Leads(t, "reserveWakeSlot")
      BY Zenon, <2>1 DEF Leads, ActivateAt, DeleteAt, CreateAt, WakeAt, DisposeAt,
         SlotOps, Harmless, Labels, Spent
  <2>4. QED
      BY Zenon, <2>1, <2>2, <2>3, <1>OnwardKeeps

<1>SlotsDelete.
    ASSUME SlotUp, NEW t \in Threads, MarkDeleting(t) \/ RemoveDataDir(t)
    PROVE  SlotsOK'
  <2> USE <1>SlotsDelete
  <2>1. /\ UNCHANGED <<process, generation, exits, deaths, guests>>
        /\ UNCHANGED <<sandboxes, slots, slot, idOf, made>>
        /\ UNCHANGED <<op, inc, died, stopped, captured>>
        /\ UNCHANGED running \/ running' = [running EXCEPT ![inc[t]] = FALSE]
      BY Zenon DEF MarkDeleting, RemoveDataDir, registry, taken, sandbox, identity,
         place, handles, status, host, history
  <2>2. \A i \in Incarnations : running'[i] => running[i]
      BY Zenon, <2>1, SlotFunctions
  <2>3. Onward(t)
      BY Zenon, <2>1, <2>2, UnchangedSame, <1>StillOnward
  <2>4. CASE MarkDeleting(t)
    <3>1. pc[t] = "delete" /\ Goto(t, "teardown")
      BY Zenon, <2>4 DEF MarkDeleting, At
    <3>2. QED
      BY Zenon, <2>3, <3>1, <1>DeleteLeads, <1>OnwardKeeps
  <2>5. CASE RemoveDataDir(t)
    <3>1. pc[t] = "removeDataDir" /\ \E l \in {"untrack", "deleted"} : Goto(t, l)
      BY Zenon, <2>5 DEF RemoveDataDir, At
    <3>2. pc[t] # "delete"
      BY Zenon, <3>1
    <3>3. QED
      BY Zenon, <2>3, <3>1, <3>2, <1>DeleteLeads, <1>OnwardKeeps
  <2>6. QED
      BY Zenon, <2>4, <2>5

<1>SlotsClear.
    ASSUME SlotUp, NEW t \in Threads, phase' = "up",
           ClearSlotNetwork(t) \/ RunCleanupScript(t)
    PROVE  SlotsOK'
  <2> USE <1>SlotsClear
  <2>1. SameGuests
    <3>1. UNCHANGED guests \/ guests' = Isolate(takenSlot[t])
      BY Zenon DEF ClearSlotNetwork, RunCleanupScript, host
    <3>2. QED
      BY Zenon, <3>1, UnchangedSame, IsolateSame DEF SlotUp, Up
  <2>2. /\ UNCHANGED <<process, generation, exits, deaths>>
        /\ UNCHANGED <<sandboxes, slots, slot, idOf, made, stopped, running>>
        /\ pc[t] \in {"teardown", "kill", "clearSlot", "cleanupScript"}
      BY Zenon DEF ClearSlotNetwork, RunCleanupScript, At, registry, sandbox,
         identity, place, handles, status, host, history
  <2>3. phase' # "exited"
      BY Zenon
  <2>4. /\ UNCHANGED <<op, inc, died, captured>>
        /\ \/ Goto(t, AfterTeardown(t))
           \/ \E l \in {"clearSlot", "cleanupScript"} : Goto(t, l)
      BY Zenon, <2>3 DEF ClearSlotNetwork, RunCleanupScript, AfterClear, locals,
         taken
  <2>5. Onward(t)
      BY Zenon, <2>1, <2>2, <2>4, <1>StillOnward
  <2>6. QED
      BY Zenon, <2>2, <2>4, <2>5, <1>TeardownLeads, <1>OnwardKeeps

\* A microVM the runner kills has been one before.
<1>SlotsKill.
    ASSUME SlotUp, NEW t \in Threads, StopAndKill(t)
    PROVE  SlotsOK'
  <2> USE <1>SlotsKill
  <2>1. /\ UNCHANGED <<process, generation, deaths>>
        /\ UNCHANGED <<sandboxes, slots, slot, idOf, made>>
        /\ UNCHANGED <<op, inc, died, stopped, running, captured>>
        /\ pc[t] = "kill"
        /\ Goto(t, IF takenSlot[t] = NoSlot THEN AfterTeardown(t) ELSE "clearSlot")
        /\ guests' \subseteq guests
        /\ \A x \in exits' : x \in exits \/ \E g \in guests : x = <<g.inc, g.generation>>
      BY Zenon DEF StopAndKill, At, registry, sandbox, identity, place, handles,
         status, taken
  <2>2. ASSUME NEW i \in Incarnations, Bare(i)
        PROVE  Bare(i)'
    <3>1. \A n : Live(i, n)' => Live(i, n)
      BY Zenon, <2>1 DEF Live
    <3>2. \A n : <<i, n>> \in exits' => <<i, n>> \in exits \/ Live(i, n)
      BY Zenon, <2>1 DEF Live
    <3>3. QED
      BY Zenon, <2>1, <2>2, <3>1, <3>2 DEF Bare, Used
  <2>3. Onward(t)
      BY Zenon, <2>1, <2>2 DEF Onward
  <2>4. \E l : /\ Goto(t, l)
               /\ l \in {"kill", "clearSlot", "cleanupScript"} \/ l = AfterTeardown(t)
      BY Zenon, <2>1
  <2>5. pc[t] \in {"teardown", "kill", "clearSlot", "cleanupScript"}
      BY Zenon, <2>1
  <2>6. QED
      BY Zenon, <2>3, <2>4, <2>5, <1>TeardownLeads, <1>OnwardKeeps

\* A generation the teardown starts has no microVM.
<1>SlotsTakeHandles.
    ASSUME SlotUp, NEW t \in Threads, TakeHandles(t)
    PROVE  SlotsOK'
  <2> USE <1>SlotsTakeHandles
  <2>1. /\ UNCHANGED <<exits, deaths, guests>>
        /\ UNCHANGED <<sandboxes, slots, slot, idOf, made>>
        /\ UNCHANGED <<op, inc, died, stopped, running, captured>>
        /\ process' = [process EXCEPT ![inc[t]] = NoProcess]
        /\ generation' = [generation EXCEPT ![inc[t]] = generation[inc[t]] + 1]
        /\ pc[t] = "teardown" /\ Goto(t, "kill")
      BY Zenon DEF TakeHandles, BumpGeneration, At, registry, identity, place,
         status, host, history
  <2>2. ASSUME NEW i \in Incarnations, Bare(i)
        PROVE  Bare(i)'
    <3>1. \A n : Used(i, n)' <=> Used(i, n)
      BY Zenon, <2>1 DEF Used, Live
    <3>2. /\ generation \in [Incarnations -> Nat]
          /\ process \in [Incarnations -> Nat \cup {NoProcess}]
      BY Zenon, GuestTypes DEF SlotUp, Up
    <3>3. process[i] = NoProcess /\ ~Used(i, generation[i])
      BY Zenon, <2>2 DEF Bare
    <3>4. process'[i] = NoProcess
      BY Zenon, <2>1, <3>2, <3>3
    <3>5. CASE i # inc[t]
      <4>1. generation'[i] = generation[i]
        BY Zenon, <2>1, <3>2, <3>5
      <4>2. QED
        BY Zenon, <3>1, <3>3, <3>4, <4>1 DEF Bare
    <3>6. CASE i = inc[t]
      <4>1. \A n \in Nat : Used(i, n) => n <= generation[i]
        BY Zenon DEF SlotUp, Up, GuestsOK, SandboxOK
      <4>2. generation'[i] \in Nat /\ ~(generation'[i] <= generation[i])
        BY Zenon, <2>1, <3>2, <3>6, NextOrder
      <4>3. QED
        BY Zenon, <3>1, <3>4, <4>1, <4>2 DEF Bare
    <3>7. QED
      BY Zenon, <3>5, <3>6
  <2>3. Onward(t)
      BY Zenon, <2>1, <2>2 DEF Onward
  <2>4. QED
      BY Zenon, <2>1, <2>3, <1>TeardownLeads, <1>OnwardKeeps

<1>SlotsStart.
    ASSUME SlotUp, NEW t \in Threads, StartJailer(t) \/ PublishProcess(t)
    PROVE  SlotsOK'
  <2> USE <1>SlotsStart
  <2>1. /\ UNCHANGED <<generation, exits, deaths>>
        /\ UNCHANGED <<sandboxes, slots, slot, idOf, made>>
        /\ UNCHANGED <<op, inc, died, stopped, running, captured>>
      BY Zenon DEF StartJailer, PublishProcess, registry, sandbox, identity, place,
         handles, status, host, history, locals
  <2>2. /\ pc[t] \in ActivateAt
        /\ \/ \E l \in ActivateAt : Goto(t, l)
           \/ Goto(t, Rollback(t))
      BY Zenon DEF StartJailer, PublishProcess, At, ActivateAt
  <2>3. \A i \in Incarnations : i # inc[t] => process'[i] = process[i]
    <3>1. UNCHANGED process \/ process' = [process EXCEPT ![inc[t]] = captured[t]]
      BY Zenon DEF StartJailer, PublishProcess, sandbox, handles
    <3>2. process \in [Incarnations -> Nat \cup {NoProcess}]
      BY Zenon, GuestTypes DEF SlotUp, Up
    <3>3. QED
      BY Zenon, <3>1, <3>2
  <2>4. \A h \in guests' : h \in guests \/ h.inc = inc[t]
    <3>1. \/ UNCHANGED guests
          \/ \E s : guests' = guests \cup {Guest(inc[t], captured[t], s, "booting")}
      BY Zenon DEF StartJailer, PublishProcess, host
    <3>2. CASE UNCHANGED guests
      BY Zenon, <3>2
    <3>3. ASSUME NEW s, guests' = guests \cup {Guest(inc[t], captured[t], s, "booting")},
                 NEW h \in guests'
          PROVE  h \in guests \/ h.inc = inc[t]
      <4>1. h \in guests \/ h = Guest(inc[t], captured[t], s, "booting")
        BY Zenon, <3>3
      <4>2. Guest(inc[t], captured[t], s, "booting").inc = inc[t]
        BY Zenon DEF Guest
      <4>3. QED
        BY Zenon, <4>1, <4>2
    <3>4. QED
      BY Zenon, <3>1, <3>2, <3>3
  <2>5. ASSUME NEW i \in Incarnations, i # inc[t], Bare(i)
        PROVE  Bare(i)'
    <3>1. \A n : Live(i, n)' => Live(i, n)
      BY Zenon, <2>4, <2>5 DEF Live
    <3>2. QED
      BY Zenon, <2>1, <2>3, <2>5, <3>1 DEF Bare, Used
  <2>6. Onward(t)
      BY Zenon, <2>1, <2>2, <2>5 DEF Onward
  <2>7. QED
      BY Zenon, <2>2, <2>6, <1>ActivateLeads, <1>OnwardKeeps

\* The steps that give a sandbox back.
<1>ReturnBehaves.
    ASSUME SlotUp, NEW t \in Threads, Return(t),
           UNCHANGED <<process, generation, exits, deaths, guests>>,
           UNCHANGED <<stopped, idOf>>,
           \A i \in Incarnations : i # inc[t] => (running'[i] => running[i]),
           UNCHANGED running \/ (op[t] = "create" /\ pc[t] = "activated"),
           \A i \in Incarnations : Tracked(i) =>
               Tracked(i)' \/ (i = inc[t] /\ pc[t] = "untrack")
    PROVE  Behaves(t) /\ SlotThread(t)'
  <2> USE <1>ReturnBehaves
  <2>1. /\ pc' = [pc EXCEPT ![t] = "idle"]
        /\ op' = [op EXCEPT ![t] = "none"]
        /\ inc' = [inc EXCEPT ![t] = NoIncarnation]
        /\ died' = [died EXCEPT ![t] = NoIncarnation]
        /\ captured' = [captured EXCEPT ![t] = 0]
      BY Zenon DEF Return
  <2>2. /\ pc'[t] = "idle" /\ op'[t] = "none" /\ inc'[t] = NoIncarnation
        /\ \A u \in Threads \ {t} :
              /\ pc'[u] = pc[u] /\ inc'[u] = inc[u] /\ op'[u] = op[u]
              /\ died'[u] = died[u] /\ captured'[u] = captured[u]
      BY Zenon, <2>1, SlotFunctions
  <2>3. \A i : Bare(i) => Bare(i)'
      BY Zenon DEF Bare, Used, Live
  <2>4. \A u \in Threads : GaveUp(u) => inc[u] # NoIncarnation
      BY Zenon, SlotBounds DEF GaveUp
  <2>5. ~(op[t] = "create" /\ pc[t] = "activated")
            \/ ~(op[t] = "delete" \/ pc[t] \in Harmless \/ GaveUp(t))
      BY Zenon DEF GaveUp, Harmless
  <2>6. Behaves(t)
      BY Zenon, <2>2, <2>3, <2>4, <2>5 DEF Behaves, Spent
  <2>7. SlotThread(t)'
      BY Zenon, <2>2 DEF SlotThread, OpAt, OnTracked, BesideFailed, GaveUp, SlotOps
  <2>8. QED
      BY Zenon, <2>6, <2>7

<1>SlotsReturn.
    ASSUME SlotUp, NEW t \in Threads, Return(t),
           UNCHANGED <<process, generation, exits, deaths, guests>>,
           UNCHANGED <<stopped, sandboxes, slots, slot, idOf, made>>,
           pc[t] \in {"endTransition", "deleted", "claimDeath", "activated"},
           \/ UNCHANGED running
           \/ /\ op[t] = "create" /\ pc[t] = "activated"
              /\ running' = [running EXCEPT ![inc[t]] = TRUE],
           pc[t] = "activated" => op[t] = "create"
    PROVE  SlotsOK'
  <2> USE <1>SlotsReturn
  <2>1. \A i \in Incarnations : i # inc[t] => (running'[i] => running[i])
      BY Zenon, SlotFunctions
  <2>2. \A i \in Incarnations : Tracked(i) => Tracked(i)'
      BY Zenon DEF Tracked
  <2>3. Behaves(t) /\ SlotThread(t)'
      BY Zenon, <2>1, <2>2, <1>ReturnBehaves
  <2>4. ~(op[t] = "wake" /\ pc[t] \in WakeAt)
      BY Zenon DEF WakeAt, ActivateAt
  <2>5. QED
      BY Zenon, <2>3, <2>4, <1>SameSlots

<1>SlotsFinish.
    ASSUME SlotUp, NEW t \in Threads, FinishCreate(t) \/ EndTransition(t)
    PROVE  SlotsOK'
  <2> USE <1>SlotsFinish
  <2>1. /\ UNCHANGED <<process, generation, exits, deaths, guests>>
        /\ UNCHANGED <<stopped, sandboxes, slots, slot, idOf, made>>
        /\ Return(t)
        /\ \/ pc[t] = "endTransition" /\ UNCHANGED running
           \/ /\ op[t] = "create" /\ pc[t] = "activated"
              /\ running' = [running EXCEPT ![inc[t]] = TRUE]
      BY Zenon DEF FinishCreate, EndTransition, At, registry, identity, place,
         handles, host, history
  <2>2. /\ pc[t] \in {"endTransition", "deleted", "claimDeath", "activated"}
        /\ pc[t] = "activated" => op[t] = "create"
      BY Zenon, <2>1
  <2>3. QED
      BY Zenon, <2>1, <2>2, <1>SlotsReturn

<1>SlotsKeepAfterFailedDelete.
    ASSUME SlotUp, NEW t \in Threads, KeepAfterFailedDelete(t)
    PROVE  SlotsOK'
  <2> USE <1>SlotsKeepAfterFailedDelete
  <2>1. /\ UNCHANGED <<process, generation, exits, deaths, guests>>
        /\ UNCHANGED <<stopped, running, sandboxes, slots, slot, idOf, made>>
        /\ pc[t] = "deleted"
      BY Zenon DEF KeepAfterFailedDelete, At, registry, identity, place, handles,
         host, history
  <2>2. op[t] # "shutdown"
      BY Zenon, SlotTypes DEF BoundThreads
  <2>3. CASE Return(t)
    <3>1. /\ pc[t] \in {"endTransition", "deleted", "claimDeath", "activated"}
          /\ pc[t] = "activated" => op[t] = "create"
      BY Zenon, <2>1
    <3>2. QED
      BY Zenon, <2>1, <2>3, <3>1, <1>SlotsReturn
  <2>4. CASE Goto(t, "untrack") /\ UNCHANGED locals
    <3>1. UNCHANGED <<op, inc, died, captured>>
      BY Zenon, <2>4 DEF locals
    <3>2. Onward(t)
      BY Zenon, <2>1, <3>1, UnchangedSame, <1>StillOnward
    <3>3. pc[t] # "delete"
      BY Zenon, <2>1
    <3>4. QED
      BY Zenon, <2>1, <2>4, <3>2, <3>3, <1>DeleteLeads, <1>OnwardKeeps
  <2>5. QED
      BY Zenon, <2>2, <2>3, <2>4 DEF KeepAfterFailedDelete

\* The steps that give a slot back.
\*
\* The slot of a tracked sandbox goes back, and no other one.
<1>Releases.
    ASSUME SlotUp, NEW i \in Incarnations, Tracked(i), ReleaseSlot(i),
           NEW s \in Slots, NEW id \in Ids
    PROVE  slots'[s] = id <=> slots[s] = id /\ id # idOf[i]
  <2> USE <1>Releases
  <2>1. /\ slots \in [Slots -> Ids \cup {Nil}]
        /\ slot[i] \in Slots \cup {NoSlot} /\ idOf[i] \in Ids
        /\ sandboxes[idOf[i]] = i
      BY Zenon, SlotTypes DEF Tracked
  <2>2. i # NoIncarnation /\ NoSlot \notin Slots
      BY Zenon, NoneApart
  <2>3. \A r \in Slots : slots[r] = idOf[i] <=> slot[i] = r
    <3>1. SlotsAccounted /\ phase = "up"
      BY Zenon DEF SlotUp, Up, SlotsOK
    <3>2. ASSUME NEW r \in Slots
          PROVE  slots[r] = idOf[i] <=> slot[i] = r
      <4>1. slots[r] = idOf[i] <=> /\ sandboxes[idOf[i]] # NoIncarnation
                                   /\ slot[sandboxes[idOf[i]]] = r
        BY Zenon, <2>1, <3>1 DEF SlotsAccounted
      <4>2. QED
        BY Zenon, <2>1, <2>2, <4>1
    <3>3. QED
      BY Zenon, <3>2
  <2>4. slot[i] \in Slots => slots[slot[i]] = idOf[i]
      BY Zenon, <2>3
  <2>5. CASE slot[i] = NoSlot
    <3>1. slots' = slots
      BY Zenon, <2>5 DEF ReleaseSlot
    <3>2. slots[s] # idOf[i]
      BY Zenon, <2>2, <2>3, <2>5
    <3>3. QED
      BY Zenon, <3>1, <3>2
  <2>6. CASE slot[i] \in Slots
    <3>1. slots' = [slots EXCEPT ![slot[i]] = Nil]
      BY Zenon, <2>2, <2>4, <2>6 DEF ReleaseSlot
    <3>2. CASE s = slot[i]
      <4>1. slots'[s] = Nil
        BY Zenon, <2>1, <3>1, <3>2
      <4>2. QED
        BY Zenon, <2>3, <3>2, <4>1, ConstantsAssumption
    <3>3. CASE s # slot[i]
      <4>1. slots'[s] = slots[s]
        BY Zenon, <2>1, <3>1, <3>3
      <4>2. QED
        BY Zenon, <2>3, <3>3, <4>1
    <3>4. QED
      BY Zenon, <3>2, <3>3
  <2>7. QED
      BY Zenon, <2>1, <2>5, <2>6

<1>SlotsUntrack.
    ASSUME SlotUp, NEW t \in Threads, UntrackSandbox(t)
    PROVE  SlotsOK'
  <2> USE <1>SlotsUntrack
  <2>1. /\ UNCHANGED <<process, generation, exits, deaths, guests>>
        /\ UNCHANGED <<stopped, running, slot, idOf, made>>
        /\ pc[t] = "untrack"
      BY Zenon DEF UntrackSandbox, At, sandbox, identity, place, handles, status,
         host, history
  <2>2. op[t] # "shutdown" /\ inc[t] # NoIncarnation
      BY Zenon, <2>1, SlotBounds
  <2>3. Return(t)
      BY Zenon, <2>2 DEF UntrackSandbox
  <2>4. PICK i \in Incarnations : i = inc[t]
      BY Zenon, <2>2, SlotTypes
  <2>5. ~(op[t] = "wake" /\ pc[t] \in WakeAt)
      BY Zenon, <2>1 DEF WakeAt, ActivateAt
  <2>6. CASE ~Tracked(i)
    <3>1. UNCHANGED <<sandboxes, slots>>
      BY Zenon, <2>4, <2>6 DEF UntrackSandbox, registry
    <3>2. \A j \in Incarnations : Tracked(j) => Tracked(j)'
      BY Zenon, <2>1, <3>1 DEF Tracked
    <3>3. Behaves(t) /\ SlotThread(t)'
      BY Zenon, <2>1, <2>3, <3>2, <1>ReturnBehaves
    <3>4. QED
      BY Zenon, <2>1, <2>5, <3>1, <3>3, <1>SameSlots
  <2>7. CASE Tracked(i)
    <3>1. /\ sandboxes' = [sandboxes EXCEPT ![idOf[i]] = NoIncarnation]
          /\ ReleaseSlot(i)
      BY Zenon, <2>4, <2>7 DEF UntrackSandbox
    <3>2. /\ sandboxes'[idOf[i]] = NoIncarnation /\ sandboxes[idOf[i]] = i
          /\ \A id \in Ids : id # idOf[i] => sandboxes'[id] = sandboxes[id]
      BY Zenon, <2>7, <3>1, SlotFunctions DEF Tracked
    <3>3. \A j \in Incarnations : Tracked(j) => Tracked(j)' \/ j = i
      BY Zenon, <2>1, <3>2, SlotTypes DEF Tracked
    <3>4. Behaves(t) /\ SlotThread(t)'
      BY Zenon, <2>1, <2>3, <2>4, <3>3, <1>ReturnBehaves
    <3>5. \A u \in Threads : SlotThread(u)'
      BY Zenon, <3>4, <1>BehavesKeeps
    <3>6. MapOK /\ SlotsAccounted /\ phase = "up" /\ StoppedOK /\ UnmadeOK
      BY Zenon DEF SlotUp, Up, SlotsOK
    <3>7. MapOK'
      BY Zenon, <2>1, <3>2, <3>6 DEF MapOK
    <3>8. ASSUME NEW s \in Slots, NEW id \in Ids
          PROVE  slots'[s] = id <=> /\ sandboxes'[id] # NoIncarnation
                                    /\ slot'[sandboxes'[id]] = s
      <4>1. slots'[s] = id <=> slots[s] = id /\ id # idOf[i]
        BY Zenon, <2>7, <3>1, <1>Releases
      <4>2. slots[s] = id <=> /\ sandboxes[id] # NoIncarnation
                              /\ slot[sandboxes[id]] = s
        BY Zenon, <3>6 DEF SlotsAccounted
      <4>3. QED
        BY Zenon, <2>1, <3>2, <4>1, <4>2
    <3>9. StoppedOK'
      <4>1. ASSUME NEW j \in Incarnations, stopped'[j], slot'[j] # NoSlot
            PROVE  \E u \in Threads : inc'[u] = j /\ op'[u] = "wake" /\ pc'[u] \in WakeAt
        <5>1. PICK u \in Threads : inc[u] = j /\ op[u] = "wake" /\ pc[u] \in WakeAt
          BY Zenon, <2>1, <3>6, <4>1 DEF StoppedOK
        <5>2. QED
          BY Zenon, <2>5, <3>4, <5>1 DEF Behaves
      <4>2. QED
        BY Zenon, <4>1 DEF StoppedOK
    <3>10. UnmadeOK'
      BY Zenon, <2>1, <3>6 DEF UnmadeOK
    <3>11. QED
      BY Zenon, <3>5, <3>7, <3>8, <3>9, <3>10 DEF SlotsOK, SlotsAccounted
  <2>8. QED
      BY Zenon, <2>6, <2>7

\* The end of a stop, of a failed wake and of a death.
<1>SlotsBecomeStopped.
    ASSUME SlotUp, NEW t \in Threads, BecomeStopped(t)
    PROVE  SlotsOK'
  <2> USE <1>SlotsBecomeStopped
  <2>1. /\ UNCHANGED <<generation, exits, deaths, guests>>
        /\ UNCHANGED <<sandboxes, idOf, made, op, inc, died, captured>>
        /\ running' = [running EXCEPT ![inc[t]] = FALSE]
        /\ stopped' = [stopped EXCEPT ![inc[t]] = TRUE]
        /\ slot' = [slot EXCEPT ![inc[t]] = NoSlot]
        /\ process' = process \/ process' = [process EXCEPT ![inc[t]] = NoProcess]
        /\ ReleaseSlot(inc[t])
        /\ pc[t] = "released" /\ pc' = [pc EXCEPT ![t] = "endTransition"]
      BY Zenon DEF BecomeStopped, At, Goto, identity, locals, host, history
  <2>2. inc[t] # NoIncarnation
      BY Zenon, <2>1, SlotBounds
  <2>3. PICK i \in Incarnations : i = inc[t]
      BY Zenon, <2>2, SlotTypes
  <2>4. SlotThread(t) /\ OpAt(t) /\ OnTracked(t) /\ op[t] # "shutdown"
      BY Zenon, SlotTypes DEF SlotThread, BoundThreads
  <2>5. op[t] \in SlotOps /\ pc[t] \notin Harmless
      BY Zenon, <2>1, <2>4, SlotFunctions DEF OpAt, DeleteAt, CreateAt, ActivateAt, SlotOps,
         Harmless
  <2>6. Tracked(i)
      BY Zenon, <2>2, <2>3, <2>4, <2>5 DEF OnTracked
  <2>7. /\ pc'[t] = "endTransition" /\ \A u \in Threads \ {t} : pc'[u] = pc[u]
        /\ slot'[i] = NoSlot /\ ~running'[i]
        /\ \A j \in Incarnations \ {i} :
              /\ slot'[j] = slot[j] /\ running'[j] = running[j]
              /\ stopped'[j] = stopped[j]
      BY Zenon, <2>1, <2>3, SlotFunctions
  <2>8. \A j \in Incarnations : Bare(j) => Bare(j)'
    <3>1. \A j \in Incarnations : process[j] = NoProcess => process'[j] = NoProcess
      BY Zenon, <2>1, GuestTypes DEF SlotUp, Up
    <3>2. QED
      BY Zenon, <2>1, <3>1 DEF Bare, Used, Live
  <2>9. op[t] # "delete" /\ ~GaveUp(t) /\ pc'[t] \in Harmless
      BY Zenon, <2>1, <2>5, <2>7 DEF GaveUp, SlotOps, Harmless
  <2>10. \A j \in Incarnations : Tracked(j) => Tracked(j)'
      BY Zenon, <2>1 DEF Tracked
  <2>11. Behaves(t)
      BY Zenon, <2>1, <2>3, <2>5, <2>7, <2>8, <2>9, <2>10 DEF Behaves
  <2>12. SlotThread(t)'
    <3>1. OpAt(t)'
      BY Zenon, <2>1, <2>5, <2>7 DEF OpAt, SlotOps, DisposeAt
    <3>2. OnTracked(t)'
      BY Zenon, <2>1, <2>3, <2>6 DEF OnTracked, Tracked
    <3>3. BesideFailed(t)' /\ op'[t] # "create"
          /\ pc'[t] \notin {"claimDeath", "checkStale", "reserveWakeSlot"}
      BY Zenon, <2>1, <2>5, <2>7 DEF BesideFailed, GaveUp, SlotOps
    <3>4. QED
      BY Zenon, <3>1, <3>2, <3>3 DEF SlotThread
  <2>13. \A u \in Threads : SlotThread(u)'
      BY Zenon, <2>11, <2>12, <1>BehavesKeeps
  <2>14. MapOK /\ SlotsAccounted /\ phase = "up" /\ StoppedOK /\ UnmadeOK
      BY Zenon DEF SlotUp, Up, SlotsOK
  <2>15. MapOK'
      BY Zenon, <2>1, <2>14 DEF MapOK
  <2>16. ASSUME NEW s \in Slots, NEW id \in Ids
         PROVE  slots'[s] = id <=> /\ sandboxes'[id] # NoIncarnation
                                   /\ slot'[sandboxes'[id]] = s
    <3>0. ReleaseSlot(i)
      BY Zenon, <2>1, <2>3
    <3>1. slots'[s] = id <=> slots[s] = id /\ id # idOf[i]
      BY Zenon, <2>6, <3>0, <1>Releases
    <3>2. slots[s] = id <=> /\ sandboxes[id] # NoIncarnation
                            /\ slot[sandboxes[id]] = s
      BY Zenon, <2>14 DEF SlotsAccounted
    <3>3. /\ sandboxes[idOf[i]] = i /\ s # NoSlot
          /\ sandboxes[id] # NoIncarnation
                 => sandboxes[id] \in Incarnations /\ idOf[sandboxes[id]] = id
      BY Zenon, <2>6, <2>14, SlotFunctions, NoneApart DEF Tracked, MapOK
    <3>4. CASE id = idOf[i]
      BY Zenon, <2>1, <2>7, <3>1, <3>3, <3>4
    <3>5. CASE id # idOf[i]
      <4>1. sandboxes[id] # NoIncarnation
                => slot'[sandboxes[id]] = slot[sandboxes[id]]
        BY Zenon, <2>7, <3>3, <3>5
      <4>2. slots'[s] = id <=> slots[s] = id
        BY Zenon, <3>1, <3>5
      <4>3. sandboxes'[id] = sandboxes[id]
        BY Zenon, <2>1
      <4>4. QED
        BY Zenon, <3>2, <4>1, <4>2, <4>3
    <3>6. QED
      BY Zenon, <3>4, <3>5
  <2>17. ASSUME NEW j \in Incarnations, stopped'[j], slot'[j] # NoSlot
         PROVE  \E u \in Threads : inc'[u] = j /\ op'[u] = "wake" /\ pc'[u] \in WakeAt
    <3>1. j # i /\ stopped[j] /\ slot[j] # NoSlot
      BY Zenon, <2>7, <2>17
    <3>2. PICK u \in Threads : inc[u] = j /\ op[u] = "wake" /\ pc[u] \in WakeAt
      BY Zenon, <2>14, <3>1 DEF StoppedOK
    <3>3. QED
      BY Zenon, <2>1, <2>3, <2>7, <3>1, <3>2
  <2>18. UnmadeOK'
      BY Zenon, <2>1, <2>7, <2>14 DEF UnmadeOK
  <2>19. QED
      BY Zenon, <2>13, <2>15, <2>16, <2>17, <2>18 DEF SlotsOK, SlotsAccounted,
         StoppedOK

<1>SlotsFinishWake.
    ASSUME SlotUp, NEW t \in Threads, FinishWake(t)
    PROVE  SlotsOK'
  <2> USE <1>SlotsFinishWake
  <2>1. /\ UNCHANGED <<process, generation, exits, deaths, guests>>
        /\ UNCHANGED <<sandboxes, slots, slot, idOf, made, op, inc, died, captured>>
        /\ running' = [running EXCEPT ![inc[t]] = TRUE]
        /\ stopped' = [stopped EXCEPT ![inc[t]] = FALSE]
        /\ op[t] = "wake"
        /\ pc[t] = "activated" /\ pc' = [pc EXCEPT ![t] = "endTransition"]
      BY Zenon DEF FinishWake, At, Goto, registry, identity, place, handles,
         locals, host, history
  <2>2. inc[t] # NoIncarnation
      BY Zenon, <2>1, SlotBounds
  <2>3. PICK i \in Incarnations : i = inc[t]
      BY Zenon, <2>2, SlotTypes
  <2>4. /\ op[t] \in SlotOps /\ pc[t] \notin Harmless /\ op[t] # "delete"
        /\ ~GaveUp(t)
      BY Zenon, <2>1 DEF SlotOps, Harmless, GaveUp
  <2>5. Tracked(i)
      BY Zenon, <2>2, <2>3, <2>4, SlotTypes DEF SlotThread, OnTracked
  <2>6. /\ pc'[t] = "endTransition" /\ \A u \in Threads \ {t} : pc'[u] = pc[u]
        /\ ~stopped'[i]
        /\ \A j \in Incarnations \ {i} :
              running'[j] = running[j] /\ stopped'[j] = stopped[j]
      BY Zenon, <2>1, <2>3, SlotFunctions
  <2>7. \A j : Bare(j) => Bare(j)'
      BY Zenon, <2>1 DEF Bare, Used, Live
  <2>8. \A j \in Incarnations : Tracked(j) => Tracked(j)'
      BY Zenon, <2>1 DEF Tracked
  <2>9. pc'[t] \in Harmless
      BY Zenon, <2>6 DEF Harmless
  <2>10. Behaves(t)
      BY Zenon, <2>1, <2>3, <2>4, <2>6, <2>7, <2>8, <2>9 DEF Behaves
  <2>11. SlotThread(t)'
    <3>1. OpAt(t)'
      BY Zenon, <2>1, <2>6 DEF OpAt, SlotOps, DisposeAt
    <3>2. OnTracked(t)'
      BY Zenon, <2>1, <2>3, <2>5 DEF OnTracked, Tracked
    <3>3. BesideFailed(t)' /\ op'[t] # "create"
          /\ pc'[t] \notin {"claimDeath", "checkStale", "reserveWakeSlot"}
      BY Zenon, <2>1, <2>6 DEF BesideFailed, GaveUp
    <3>4. QED
      BY Zenon, <3>1, <3>2, <3>3 DEF SlotThread
  <2>12. QED
      BY Zenon, <2>1, <2>3, <2>6, <2>10, <2>11, <1>SameSlots

\* reserveSlotLocked: the sandbox it reserves for had none, and the slot it picks
\* was nobody's.
<1>TakesSlot.
    ASSUME SlotUp, NEW i \in Incarnations, NEW r \in Slots, slots[r] = Nil,
           NEW name \in Ids,
           slots' = [slots EXCEPT ![r] = name],
           slot' = [slot EXCEPT ![i] = r],
           sandboxes'[name] = i,
           \A s \in Slots : slots[s] # name,
           \A id \in Ids \ {name} :
               sandboxes'[id] = sandboxes[id] /\ sandboxes[id] # i,
           NEW s \in Slots, NEW id \in Ids
    PROVE  slots'[s] = id <=> /\ sandboxes'[id] # NoIncarnation
                              /\ slot'[sandboxes'[id]] = s
  <2> USE <1>TakesSlot
  <2>1. /\ slots'[r] = name /\ (s # r => slots'[s] = slots[s])
        /\ slot'[i] = r
        /\ \A j \in Incarnations \ {i} : slot'[j] = slot[j]
        /\ i # NoIncarnation /\ Nil # id
        /\ sandboxes[id] \in Incarnations \cup {NoIncarnation}
      <3>1. /\ slots \in [Slots -> Ids \cup {Nil}]
            /\ slot \in [Incarnations -> Slots \cup {NoSlot}]
            /\ sandboxes[id] \in Incarnations \cup {NoIncarnation}
        BY Zenon, SlotFunctions
      <3>2. slots'[r] = name /\ (s # r => slots'[s] = slots[s])
        BY Zenon, <3>1
      <3>3. slot'[i] = r /\ \A j \in Incarnations \ {i} : slot'[j] = slot[j]
        BY Zenon, <3>1
      <3>4. i # NoIncarnation /\ Nil # id
        BY Zenon, NoneApart, ConstantsAssumption
      <3>5. QED
        BY Zenon, <3>1, <3>2, <3>3, <3>4
  <2>2. slots[s] = id <=> /\ sandboxes[id] # NoIncarnation
                          /\ slot[sandboxes[id]] = s
      BY Zenon DEF SlotUp, Up, SlotsOK, SlotsAccounted
  <2>3. CASE id = name
      BY Zenon, <2>1, <2>3
  <2>4. CASE id # name
    <3>1. sandboxes'[id] = sandboxes[id] /\ sandboxes[id] # i
      BY Zenon, <2>4
    <3>2. sandboxes[id] # NoIncarnation
              => slot'[sandboxes[id]] = slot[sandboxes[id]]
      BY Zenon, <2>1, <3>1
    <3>3. slots'[s] = id <=> slots[s] = id
      BY Zenon, <2>1, <2>4
    <3>4. QED
      BY Zenon, <2>2, <3>1, <3>2, <3>3
  <2>5. QED
      BY Zenon, <2>3, <2>4

<1>SlotsReserveWakeSlot.
    ASSUME SlotUp, NEW t \in Threads, ReserveWakeSlot(t)
    PROVE  SlotsOK'
  <2> USE <1>SlotsReserveWakeSlot
  <2>1. /\ UNCHANGED <<process, generation, exits, deaths, guests>>
        /\ UNCHANGED <<sandboxes, idOf, made, op, inc, died, captured>>
        /\ UNCHANGED <<running, stopped>>
        /\ pc[t] = "reserveWakeSlot"
      BY Zenon DEF ReserveWakeSlot, At, identity, handles, status, locals, host,
         history
  <2>2. inc[t] # NoIncarnation
      BY Zenon, <2>1, SlotBounds
  <2>3. PICK i \in Incarnations : i = inc[t]
      BY Zenon, <2>2, SlotTypes
  <2>4. SlotThread(t)
      BY Zenon, SlotTypes
  <2>5. op[t] = "wake" /\ stopped[i]
      BY Zenon, <2>1, <2>3, <2>4 DEF SlotThread, OpAt
  <2>6. /\ op[t] \in SlotOps /\ pc[t] \notin Harmless /\ op[t] # "delete"
        /\ ~GaveUp(t) /\ pc[t] \notin WakeAt
      BY Zenon, <2>1, <2>5 DEF SlotOps, Harmless, GaveUp, WakeAt, ActivateAt
  <2>7. Tracked(i)
      BY Zenon, <2>2, <2>3, <2>4, <2>6 DEF SlotThread, OnTracked
  <2>8. \A u \in Threads \ {t} : inc[u] # i
      BY Zenon, <2>2, <2>3, <2>6, Together
  <2>9. CASE Goto(t, "endTransition") /\ UNCHANGED <<slots, place>>
    <3>1. Leads(t, "endTransition")
      BY Zenon, <2>1, <2>5 DEF Leads, DeleteAt, CreateAt, ActivateAt, SlotOps, DisposeAt,
         Harmless, WakeAt
    <3>2. Onward(t)
      BY Zenon, <2>1, <2>9, <1>StillOnward, UnchangedSame DEF place
    <3>3. "endTransition" \in Labels
      BY Zenon DEF Labels
    <3>4. QED
      BY Zenon, <2>9, <3>1, <3>2, <3>3, <1>OnwardKeeps
  <2>10. ASSUME NEW r \in Slots, FirstFree(r),
                slots' = [slots EXCEPT ![r] = idOf[inc[t]]],
                slot' = [slot EXCEPT ![inc[t]] = r],
                Goto(t, "prepareJail")
         PROVE  SlotsOK'
    <3>1. MapOK /\ SlotsAccounted /\ phase = "up" /\ StoppedOK /\ UnmadeOK
      BY Zenon DEF SlotUp, Up, SlotsOK
    <3>2. slot[i] = NoSlot
      BY Zenon, <2>5, <2>6, <2>8, <3>1 DEF StoppedOK
    <3>3. /\ pc'[t] = "prepareJail" /\ \A u \in Threads \ {t} : pc'[u] = pc[u]
          /\ \A j \in Incarnations \ {i} : slot'[j] = slot[j]
      BY Zenon, <2>3, <2>10, SlotFunctions DEF Goto
    <3>4. /\ idOf[i] \in Ids /\ slots[r] = Nil /\ sandboxes[idOf[i]] = i
          /\ \A id \in Ids \ {idOf[i]} : sandboxes[id] # i
      BY Zenon, <2>7, <2>10, <3>1, SlotFunctions, NoneApart
         DEF Tracked, FirstFree, FreeSlots, MapOK
    <3>5. ASSUME NEW s \in Slots, slots[s] = idOf[i]
          PROVE  FALSE
      <4>1. slot[sandboxes[idOf[i]]] = s
        BY Zenon, <3>1, <3>4, <3>5 DEF SlotsAccounted
      <4>2. QED
        BY Zenon, <3>2, <3>4, <4>1, NoneApart
    <3>6. SlotsAccounted'
      <4>0. /\ slots' = [slots EXCEPT ![r] = idOf[i]]
            /\ slot' = [slot EXCEPT ![i] = r]
            /\ sandboxes'[idOf[i]] = i
            /\ \A id \in Ids \ {idOf[i]} :
                  sandboxes'[id] = sandboxes[id] /\ sandboxes[id] # i
        BY Zenon, <2>1, <2>3, <2>10, <3>4
      <4>1. ASSUME NEW s \in Slots, NEW id \in Ids
            PROVE  slots'[s] = id <=> /\ sandboxes'[id] # NoIncarnation
                                      /\ slot'[sandboxes'[id]] = s
        BY Zenon, <3>4, <3>5, <4>0, <1>TakesSlot
      <4>2. QED
        BY Zenon, <4>1 DEF SlotsAccounted
    <3>7. \A j : Bare(j) => Bare(j)'
      BY Zenon, <2>1 DEF Bare, Used, Live
    <3>8. \A j \in Incarnations : Tracked(j) => Tracked(j)'
      BY Zenon, <2>1 DEF Tracked
    <3>9. Behaves(t)
      BY Zenon, <2>1, <2>3, <2>6, <2>8, <3>3, <3>7, <3>8 DEF Behaves
    <3>10. SlotThread(t)'
      <4>1. OpAt(t)'
        BY Zenon, <2>1, <2>5, <3>3 DEF OpAt, SlotOps, DisposeAt
      <4>2. OnTracked(t)'
        BY Zenon, <2>1, <2>3, <2>7 DEF OnTracked, Tracked
      <4>3. BesideFailed(t)' /\ op'[t] # "create"
            /\ pc'[t] \notin {"claimDeath", "checkStale", "reserveWakeSlot"}
        BY Zenon, <2>1, <2>5, <3>3 DEF BesideFailed, GaveUp
      <4>4. QED
        BY Zenon, <4>1, <4>2, <4>3 DEF SlotThread
    <3>11. \A u \in Threads : SlotThread(u)'
      BY Zenon, <3>9, <3>10, <1>BehavesKeeps
    <3>12. ASSUME NEW j \in Incarnations, stopped'[j], slot'[j] # NoSlot
           PROVE  \E u \in Threads :
                      inc'[u] = j /\ op'[u] = "wake" /\ pc'[u] \in WakeAt
      <4>1. CASE j = i
        <5>1. pc'[t] \in WakeAt
          BY Zenon, <3>3 DEF WakeAt, ActivateAt
        <5>2. QED
          BY Zenon, <2>1, <2>3, <2>5, <4>1, <5>1
      <4>2. CASE j # i
        <5>1. PICK u \in Threads : inc[u] = j /\ op[u] = "wake" /\ pc[u] \in WakeAt
          BY Zenon, <2>1, <3>1, <3>3, <3>12, <4>2 DEF StoppedOK
        <5>2. QED
          BY Zenon, <2>1, <2>3, <3>3, <4>2, <5>1
      <4>3. QED
        BY Zenon, <4>1, <4>2
    <3>13. MapOK' /\ UnmadeOK'
      BY Zenon, <2>1, <3>1 DEF MapOK, UnmadeOK
    <3>14. QED
      BY Zenon, <3>6, <3>11, <3>12, <3>13 DEF SlotsOK, StoppedOK
  <2>11. QED
      BY Zenon, <2>9, <2>10 DEF ReserveWakeSlot

\* A thread that takes up a claim on a tracked sandbox has not looked at it yet.
<1>SlotsClaim.
    ASSUME SlotUp, NEW t \in Threads, inc[t] = NoIncarnation,
           NEW i \in Incarnations, Tracked(i),
           inc' = [inc EXCEPT ![t] = i],
           UNCHANGED <<process, generation, exits, deaths, guests>>,
           UNCHANGED <<sandboxes, slots, slot, idOf, made, running, stopped>>,
           UNCHANGED <<died, captured>>,
           \A u \in Threads \ {t} : pc'[u] = pc[u] /\ op'[u] = op[u],
           OpAt(t)',
           op'[t] = "delete" \/ pc'[t] \in Harmless,
           op'[t] # "create",
           pc'[t] \notin {"claimDeath", "reserveWakeSlot"},
           pc'[t] = "checkStale" => <<died[t], captured[t]>> \in deaths
    PROVE  SlotsOK'
  <2> USE <1>SlotsClaim
  <2>1. /\ inc'[t] = i /\ \A u \in Threads \ {t} : inc'[u] = inc[u]
        /\ inc[t] \notin Incarnations
      BY Zenon, SlotFunctions, NoneApart
  <2>2. \A j : Bare(j) => Bare(j)'
      BY Zenon DEF Bare, Used, Live
  <2>3. \A j \in Incarnations : Tracked(j) => Tracked(j)'
      BY Zenon DEF Tracked
  <2>4. Behaves(t)
      BY Zenon, <2>1, <2>2, <2>3 DEF Behaves
  <2>5. SlotThread(t)'
    <3>1. OnTracked(t)'
      BY Zenon, <2>1, <2>3 DEF OnTracked
    <3>2. BesideFailed(t)'
      BY Zenon DEF BesideFailed, GaveUp
    <3>3. QED
      BY Zenon, <3>1, <3>2 DEF SlotThread
  <2>6. QED
      BY Zenon, <2>1, <2>4, <2>5, <1>SameSlots

<1>SlotsBeginTransition.
    ASSUME SlotUp, NEW t \in Threads, NEW id \in Ids,
           NEW kind \in {"stop", "wake", "delete"}, BeginTransition(t, id, kind)
    PROVE  SlotsOK'
  <2> USE <1>SlotsBeginTransition
  <2>1. /\ UNCHANGED <<process, generation, exits, deaths, guests>>
        /\ UNCHANGED <<sandboxes, slots, slot, idOf, made, running, stopped>>
        /\ UNCHANGED <<died, captured>>
        /\ sandboxes[id] # NoIncarnation /\ pc[t] = "idle"
        /\ pc' = [pc EXCEPT ![t] = kind]
        /\ op' = [op EXCEPT ![t] = kind]
        /\ inc' = [inc EXCEPT ![t] = sandboxes[id]]
      BY Zenon DEF BeginTransition, At, Goto, registry, identity, place, handles,
         host, history
  <2>2. PICK i \in Incarnations : i = sandboxes[id]
      BY Zenon, <2>1, SlotTypes
  <2>3. Tracked(i)
      BY Zenon, <2>1, <2>2 DEF Tracked, SlotUp, SlotsOK, MapOK
  <2>4. inc[t] = NoIncarnation
      BY Zenon, <2>1, SlotTypes DEF SlotThread, OpAt
  <2>5. /\ pc'[t] = kind /\ op'[t] = kind
        /\ \A u \in Threads \ {t} : pc'[u] = pc[u] /\ op'[u] = op[u]
      BY Zenon, <2>1, SlotFunctions
  <2>6. OpAt(t)'
      BY Zenon, <2>5 DEF OpAt, DeleteAt, SlotOps, DisposeAt
  <2>7. /\ op'[t] = "delete" \/ pc'[t] \in Harmless
        /\ op'[t] # "create"
        /\ pc'[t] \notin {"claimDeath", "reserveWakeSlot", "checkStale"}
      BY Zenon, <2>5 DEF Harmless
  <2>8. QED
      BY Zenon, <2>1, <2>2, <2>3, <2>4, <2>5, <2>6, <2>7, <1>SlotsClaim

<1>SlotsClaimDeath.
    ASSUME SlotUp, NEW t \in Threads, ClaimDeath(t)
    PROVE  SlotsOK'
  <2> USE <1>SlotsClaimDeath
  <2> DEFINE j == sandboxes[idOf[died[t]]]
  <2>1. /\ UNCHANGED <<process, generation, exits, deaths, guests>>
        /\ UNCHANGED <<sandboxes, slots, slot, idOf, made, running, stopped>>
        /\ pc[t] = "claimDeath"
        /\ \/ Return(t)
           \/ /\ j # NoIncarnation
              /\ inc' = [inc EXCEPT ![t] = j]
              /\ pc' = [pc EXCEPT ![t] = "checkStale"]
              /\ UNCHANGED <<op, died, captured>>
      BY Zenon DEF ClaimDeath, GivesUp, At, Goto, registry, identity, place,
         handles, host, history
  <2>2. CASE Return(t)
      BY Zenon, <2>1, <2>2, <1>SlotsReturn
  <2>3. CASE /\ j # NoIncarnation
             /\ inc' = [inc EXCEPT ![t] = j]
             /\ pc' = [pc EXCEPT ![t] = "checkStale"]
             /\ UNCHANGED <<op, died, captured>>
    <3>1. died[t] \in Incarnations
      BY Zenon, <2>1, SlotBounds
    <3>2. idOf[died[t]] \in Ids
      BY Zenon, <3>1, SlotFunctions
    <3>3. PICK i \in Incarnations : i = j
      BY Zenon, <2>3, <3>2, SlotFunctions
    <3>4. Tracked(i)
      BY Zenon, <2>3, <3>2, <3>3 DEF Tracked, SlotUp, SlotsOK, MapOK
    <3>5. OpAt(t) /\ <<died[t], captured[t]>> \in deaths
      BY Zenon, <2>1, SlotTypes DEF SlotThread
    <3>6. inc[t] = NoIncarnation
      BY Zenon, <2>1, <3>5 DEF OpAt
    <3>7. /\ pc'[t] = "checkStale"
          /\ \A u \in Threads \ {t} : pc'[u] = pc[u] /\ op'[u] = op[u]
      BY Zenon, <2>3, SlotFunctions
    <3>8. op'[t] \notin {"none", "create", "delete"}
      BY Zenon, <2>1, <2>3, <3>5 DEF OpAt, DeleteAt, CreateAt, ActivateAt
    <3>9. OpAt(t)'
      BY Zenon, <3>7, <3>8 DEF OpAt, SlotOps, DisposeAt
    <3>10. /\ pc'[t] \in Harmless /\ op'[t] # "create"
           /\ pc'[t] \notin {"claimDeath", "reserveWakeSlot"}
      BY Zenon, <3>7, <3>8 DEF Harmless
    <3>11. inc' = [inc EXCEPT ![t] = i]
      BY Zenon, <2>3, <3>3
    <3> HIDE DEF j
    <3>12. QED
      BY Zenon, <2>1, <2>3, <3>4, <3>5, <3>6, <3>7, <3>9, <3>10, <3>11, <1>SlotsClaim
  <2>4. QED
      BY Zenon, <2>1, <2>2, <2>3

<1>SlotsReserveSandbox.
    ASSUME SlotUp, NEW t \in Threads, NEW name \in Ids, NEW block \in BOOLEAN,
           ReserveSandbox(t, name, block)
    PROVE  SlotsOK'
  <2> USE <1>SlotsReserveSandbox
  <2>1. /\ UNCHANGED <<process, generation, exits, deaths, guests>>
        /\ UNCHANGED <<running, stopped, died, captured>>
        /\ sandboxes[name] = NoIncarnation /\ pc[t] = "idle"
        /\ made < MaxIncarnations
        /\ pc' = [pc EXCEPT ![t] = "cloneAssets"]
        /\ op' = [op EXCEPT ![t] = "create"]
        /\ inc' = [inc EXCEPT ![t] = made + 1]
        /\ sandboxes' = [sandboxes EXCEPT ![name] = made + 1]
        /\ idOf' = [idOf EXCEPT ![made + 1] = name]
        /\ made' = made + 1
      BY Zenon DEF ReserveSandbox, At, Goto, handles, host, history
  <2>2. made + 1 \in Incarnations
      BY Zenon, <2>1, SlotFunctions, MadeOrder
  <2>3. PICK i \in Incarnations : i = made + 1
      BY Zenon, <2>2
  <2>4. PICK r \in Slots : /\ FirstFree(r)
                           /\ slots' = [slots EXCEPT ![r] = name]
                           /\ slot' = [slot EXCEPT ![i] = r]
      BY Zenon, <2>3 DEF ReserveSandbox
  <2>5. /\ \A u \in Threads : inc[u] # i
        /\ \A id \in Ids : sandboxes[id] # i
        /\ \A j \in Incarnations : j <= made => j # i
        /\ \A j \in Incarnations : j > made' => j > made
        /\ i > made
      <3>1. /\ made \in 0 .. MaxIncarnations
            /\ \A u \in Threads : /\ inc[u] \in Incarnations \cup {NoIncarnation}
                                  /\ inc[u] <= made
            /\ \A id \in Ids : /\ sandboxes[id] \in Incarnations \cup {NoIncarnation}
                               /\ sandboxes[id] <= made
        BY Zenon, SlotBounds, MapBounds
      <3>2. i > made /\ \A j \in Incarnations : /\ j <= made => j # i
                                                /\ j > made' => j > made
        BY Zenon, <2>1, <2>3, <3>1, MadeOrder
      <3>3. QED
        BY Zenon, <3>1, <3>2, NoneApart
  <2>6. inc[t] = NoIncarnation /\ inc[t] \notin Incarnations
    <3>1. inc[t] = NoIncarnation
      BY Zenon, <2>1, SlotTypes DEF SlotThread, OpAt
    <3>2. QED
      BY Zenon, <3>1, NoneApart
  <2>7. ~running[i] /\ ~stopped[i]
    <3>1. UnmadeOK /\ SandboxOK(i)
      BY Zenon DEF SlotUp, SlotsOK, Up, GuestsOK
    <3>2. QED
      BY Zenon, <2>5, <3>1 DEF UnmadeOK, SandboxOK
  <2>8. /\ pc'[t] = "cloneAssets" /\ op'[t] = "create" /\ inc'[t] = i
        /\ \A u \in Threads \ {t} :
              pc'[u] = pc[u] /\ op'[u] = op[u] /\ inc'[u] = inc[u]
        /\ sandboxes'[name] = i
        /\ \A id \in Ids \ {name} : sandboxes'[id] = sandboxes[id]
        /\ idOf'[i] = name
        /\ \A j \in Incarnations \ {i} : idOf'[j] = idOf[j] /\ slot'[j] = slot[j]
        /\ slots[r] = Nil
      BY Zenon, <2>1, <2>3, <2>4, SlotFunctions DEF FirstFree, FreeSlots
  <2>9. \A j : Bare(j) => Bare(j)'
      BY Zenon, <2>1 DEF Bare, Used, Live
  <2>10. ASSUME NEW j \in Incarnations, j <= made, Tracked(j)
         PROVE  Tracked(j)'
    <3>1. idOf[j] \in Ids
      BY Zenon, SlotTypes
    <3>2. j # NoIncarnation
      BY Zenon, NoneApart
    <3>3. idOf'[j] = idOf[j] /\ sandboxes[idOf[j]] = j
      BY Zenon, <2>5, <2>8, <2>10 DEF Tracked
    <3>4. idOf[j] # name
      BY Zenon, <2>1, <3>2, <3>3
    <3>5. sandboxes'[idOf[j]] = j
      BY Zenon, <2>8, <3>1, <3>3, <3>4
    <3>6. QED
      BY Zenon, <3>3, <3>5 DEF Tracked
  <2>11. Behaves(t)
    <3>1. \A u \in Threads \ {t} :
              /\ pc'[u] = pc[u] /\ inc'[u] = inc[u] /\ op'[u] = op[u]
              /\ died'[u] = died[u] /\ captured'[u] = captured[u]
      BY Zenon, <2>1, <2>8
    <3>2. \A j \in Incarnations : j # inc[t] =>
              /\ running'[j] => running[j]
              /\ stopped'[j] <=> stopped[j]
              /\ Bare(j) => Bare(j)'
      BY Zenon, <2>1, <2>9
    <3>3. deaths \subseteq deaths'
      BY Zenon, <2>1
    <3>4. \A u \in Threads \ {t} : GaveUp(u) => inc[u] # inc'[t]
      BY Zenon, <2>5, <2>8
    <3>5. \A j \in Incarnations : j = inc[t] /\ Spent(j) => Spent(j)'
      BY Zenon, <2>6
    <3>6. \A j \in Incarnations : j <= made /\ Tracked(j) =>
              Tracked(j)' \/ (j = inc[t] /\ pc[t] = "untrack")
      BY Zenon, <2>10
    <3>7. QED
      BY Zenon, <3>1, <3>2, <3>3, <3>4, <3>5, <3>6 DEF Behaves
  <2>12. SlotThread(t)'
    <3>1. OpAt(t)'
      BY Zenon, <2>8 DEF OpAt, CreateAt, SlotOps
    <3>2. OnTracked(t)' /\ BesideFailed(t)'
          /\ pc'[t] \notin {"claimDeath", "checkStale", "reserveWakeSlot"}
      BY Zenon, <2>8 DEF OnTracked, BesideFailed, GaveUp, SlotOps
    <3>3. QED
      BY Zenon, <2>1, <2>7, <2>8, <3>1, <3>2 DEF SlotThread
  <2>13. \A u \in Threads : SlotThread(u)'
      BY Zenon, <2>11, <2>12, <1>BehavesKeeps
  <2>14. MapOK /\ SlotsAccounted /\ phase = "up" /\ StoppedOK /\ UnmadeOK
      BY Zenon DEF SlotUp, Up, SlotsOK
  <2>15. ASSUME NEW id \in Ids, sandboxes'[id] # NoIncarnation
         PROVE  idOf'[sandboxes'[id]] = id
    <3>1. CASE id = name
      BY Zenon, <2>8, <3>1
    <3>2. CASE id # name
      <4>1. sandboxes'[id] = sandboxes[id] /\ sandboxes[id] \in Incarnations \ {i}
        <5>1. sandboxes[id] \in Incarnations \cup {NoIncarnation}
          BY Zenon, <2>15, SlotFunctions
        <5>2. sandboxes'[id] = sandboxes[id] /\ sandboxes[id] # i
          BY Zenon, <2>5, <2>8, <2>15, <3>2
        <5>3. QED
          BY Zenon, <2>15, <5>1, <5>2
      <4>2. QED
        BY Zenon, <2>8, <2>14, <2>15, <4>1 DEF MapOK
    <3>3. QED
      BY Zenon, <3>1, <3>2
  <2>16. SlotsAccounted'
    <3>1. \A s \in Slots : slots[s] # name
      BY Zenon, <2>1, <2>14 DEF SlotsAccounted
    <3>2. \A id \in Ids \ {name} :
              sandboxes'[id] = sandboxes[id] /\ sandboxes[id] # i
      BY Zenon, <2>5, <2>8
    <3>3. ASSUME NEW s \in Slots, NEW id \in Ids
          PROVE  slots'[s] = id <=> /\ sandboxes'[id] # NoIncarnation
                                    /\ slot'[sandboxes'[id]] = s
      <4>1. /\ slots' = [slots EXCEPT ![r] = name]
            /\ slot' = [slot EXCEPT ![i] = r]
            /\ sandboxes'[name] = i /\ slots[r] = Nil
        BY Zenon, <2>4, <2>8
      <4>2. QED
        BY Zenon, <3>1, <3>2, <4>1, <1>TakesSlot
    <3>4. QED
      BY Zenon, <3>3 DEF SlotsAccounted
  <2>17. ASSUME NEW j \in Incarnations, stopped'[j], slot'[j] # NoSlot
         PROVE  \E u \in Threads :
                    inc'[u] = j /\ op'[u] = "wake" /\ pc'[u] \in WakeAt
    <3>1. j # i /\ stopped[j] /\ slot[j] # NoSlot
      BY Zenon, <2>1, <2>7, <2>8, <2>17
    <3>2. PICK u \in Threads : inc[u] = j /\ op[u] = "wake" /\ pc[u] \in WakeAt
      BY Zenon, <2>14, <3>1 DEF StoppedOK
    <3>3. QED
      BY Zenon, <2>6, <2>8, <3>2
  <2>18. UnmadeOK'
      BY Zenon, <2>1, <2>5, <2>14 DEF UnmadeOK
  <2>19. QED
      BY Zenon, <2>13, <2>15, <2>16, <2>17, <2>18 DEF SlotsOK, StoppedOK, MapOK

<1>SlotsRecordGuestDeath.
    ASSUME SlotUp, NEW t \in Threads, NEW x \in exits, RecordGuestDeath(t, x)
    PROVE  SlotsOK'
  <2> USE <1>SlotsRecordGuestDeath
  <2>1. /\ UNCHANGED <<process, generation, guests, running, stopped, inc>>
        /\ UNCHANGED <<sandboxes, slots, slot, idOf, made>>
        /\ exits' = exits \ {x} /\ pc[t] = "idle"
        /\ \/ /\ deaths' = deaths \cup {x}
              /\ pc' = [pc EXCEPT ![t] = "claimDeath"]
              /\ op' = [op EXCEPT ![t] = "crash"]
              /\ died' = [died EXCEPT ![t] = x[1]]
              /\ captured' = [captured EXCEPT ![t] = x[2]]
           \/ UNCHANGED <<deaths, pc, op, died, captured>>
      BY Zenon DEF RecordGuestDeath, At, Goto, registry, sandbox, identity, place,
         handles, status
  <2>2. SlotThread(t)
      BY Zenon, SlotTypes
  <2>3. inc[t] = NoIncarnation /\ inc[t] \notin Incarnations
    <3>1. inc[t] = NoIncarnation
      BY Zenon, <2>1, <2>2 DEF SlotThread, OpAt
    <3>2. QED
      BY Zenon, <3>1, NoneApart
  <2>4. x = <<x[1], x[2]>>
    <3>1. x \in Incarnations \X Nat
      BY Zenon, SlotTypes
    <3>2. QED
      BY Zenon, <3>1, Pairs
  <2>5. \A u \in Threads \ {t} : /\ pc'[u] = pc[u] /\ op'[u] = op[u]
                                 /\ died'[u] = died[u] /\ captured'[u] = captured[u]
      BY Zenon, <2>1, SlotFunctions
  <2>6. ASSUME NEW j, Bare(j)
        PROVE  Bare(j)'
    <3>1. deaths' \subseteq deaths \cup exits /\ exits' \subseteq exits
      BY Zenon, <2>1
    <3>2. QED
      BY Zenon, <2>1, <2>6, <3>1 DEF Bare, Used, Live
  <2>7. \A j \in Incarnations : Tracked(j) => Tracked(j)'
      BY Zenon, <2>1 DEF Tracked
  <2>8. pc'[t] \in {"idle", "claimDeath"} /\ deaths \subseteq deaths'
      BY Zenon, <2>1, SlotTypes
  <2>9. \A u \in Threads \ {t} : GaveUp(u) => inc[u] # inc'[t]
    <3>1. \A u \in Threads : pc[u] = "untrack" => inc[u] # NoIncarnation
      BY Zenon, SlotBounds
    <3>2. QED
      BY Zenon, <2>1, <2>3, <3>1 DEF GaveUp
  <2>10. Behaves(t)
      BY Zenon, <2>1, <2>3, <2>5, <2>6, <2>7, <2>8, <2>9 DEF Behaves
  <2>11. SlotThread(t)'
    <3>1. OnTracked(t)'
      BY Zenon, <2>1, <2>3 DEF OnTracked
    <3>2. BesideFailed(t)' /\ pc'[t] \notin {"checkStale", "reserveWakeSlot"}
      BY Zenon, <2>8 DEF BesideFailed, GaveUp
    <3>3. CASE UNCHANGED <<deaths, pc, op, died, captured>>
      <4>1. OpAt(t)'
        BY Zenon, <2>1, <2>2, <3>3 DEF SlotThread, OpAt
      <4>2. QED
        BY Zenon, <2>1, <2>2, <3>1, <3>2, <3>3, <4>1 DEF SlotThread
    <3>4. CASE /\ deaths' = deaths \cup {x}
               /\ pc' = [pc EXCEPT ![t] = "claimDeath"]
               /\ op' = [op EXCEPT ![t] = "crash"]
               /\ died' = [died EXCEPT ![t] = x[1]]
               /\ captured' = [captured EXCEPT ![t] = x[2]]
      <4>1. /\ pc'[t] = "claimDeath" /\ op'[t] = "crash"
            /\ died'[t] = x[1] /\ captured'[t] = x[2]
        BY Zenon, <3>4, SlotFunctions
      <4>2. OpAt(t)'
        BY Zenon, <2>1, <2>3, <4>1 DEF OpAt, DisposeAt
      <4>3. <<died'[t], captured'[t]>> \in deaths'
        <5>1. <<died'[t], captured'[t]>> = <<x[1], x[2]>>
          BY Zenon, <4>1
        <5>2. x \in deaths'
          BY Zenon, <3>4
        <5>3. QED
          BY Zenon, <2>4, <5>1, <5>2
      <4>4. op'[t] # "create"
        BY Zenon, <4>1
      <4>5. QED
        BY Zenon, <3>1, <3>2, <4>2, <4>3, <4>4 DEF SlotThread
    <3>5. QED
      BY Zenon, <2>1, <3>3, <3>4
  <2>12. QED
      BY Zenon, <2>1, <2>3, <2>10, <2>11, <1>SameSlots

\* What a step of the host or of the wirer leaves alone.
<1>SlotsStill.
    ASSUME SlotUp, UNCHANGED <<pc, op, inc, died, captured, deaths>>,
           UNCHANGED <<running, stopped, sandboxes, slots, slot, idOf, made>>,
           \A i : Bare(i) => Bare(i)'
    PROVE  SlotsOK'
  <2> USE <1>SlotsStill
  <2>1. \A i : Spent(i) => Spent(i)'
      BY Zenon DEF Spent
  <2>2. ASSUME NEW t \in Threads
        PROVE  SlotThread(t)'
    <3>1. SlotThread(t)
      BY Zenon, SlotTypes
    <3>2. OpAt(t)'
      BY Zenon, <3>1 DEF SlotThread, OpAt
    <3>3. OnTracked(t)'
      BY Zenon, <2>1, <3>1 DEF SlotThread, OnTracked, Tracked, Spent, Bare
    <3>4. BesideFailed(t)'
      BY Zenon, <2>1, <3>1 DEF SlotThread, BesideFailed, GaveUp, Spent
    <3>5. QED
      BY Zenon, <3>1, <3>2, <3>3, <3>4 DEF SlotThread
  <2>3. MapOK' /\ StoppedOK' /\ UnmadeOK'
      BY Zenon DEF SlotUp, SlotsOK, MapOK, StoppedOK, UnmadeOK
  <2>4. SlotsAccounted'
      BY Zenon DEF SlotUp, Up, SlotsOK, SlotsAccounted
  <2>5. QED
      BY Zenon, <2>2, <2>3, <2>4 DEF SlotsOK

<1>SlotsGuestDies.
    ASSUME SlotUp, NEW g \in guests, GuestDies(g)
    PROVE  SlotsOK'
  <2> USE <1>SlotsGuestDies
  <2>1. /\ UNCHANGED <<pc, op, inc, died, captured, deaths>>
        /\ UNCHANGED <<running, stopped, sandboxes, slots, slot, idOf, made>>
        /\ UNCHANGED <<process, generation>>
        /\ guests' = guests \ {g}
        /\ exits' = exits \cup {<<g.inc, g.generation>>}
      BY Zenon DEF GuestDies, registry, sandbox, identity, place, handles, status,
         locals, history
  <2>2. \A i, n : Used(i, n)' => Used(i, n)
      BY Zenon, <2>1 DEF Used, Live
  <2>3. \A i : Bare(i) => Bare(i)'
      BY Zenon, <2>1, <2>2 DEF Bare
  <2>4. QED
      BY Zenon, <2>1, <2>3, <1>SlotsStill

<1>SlotsWirer.
    ASSUME SlotUp, Wirer \/ UNCHANGED vars
    PROVE  SlotsOK'
  <2> USE <1>SlotsWirer
  <2>1. /\ UNCHANGED <<pc, op, inc, died, captured, deaths>>
        /\ UNCHANGED <<running, stopped, sandboxes, slots, slot, idOf, made>>
        /\ UNCHANGED <<process, generation, exits>>
      BY Zenon DEF Wirer, WirerScan, WirerBuild, WirerWait, vars, registry,
         sandbox, identity, place, handles, status, host, locals, history
  <2>2. SameGuests
    <3>1. UNCHANGED guests \/ \E s : guests' = Isolate(s)
      BY Zenon DEF Wirer, WirerScan, WirerBuild, WirerWait, SetupNetwork, host, vars
    <3>2. QED
      BY Zenon, <3>1, UnchangedSame, IsolateSame DEF SlotUp, Up
  <2>3. \A i : Bare(i) => Bare(i)'
      BY Zenon, <2>1, <2>2 DEF Bare, Used, Live, SameGuests
  <2>4. QED
      BY Zenon, <2>1, <2>3, <1>SlotsStill

<1>StepSlots.
    ASSUME SlotUp, NEW t \in Threads, Step(t), phase' = "up"
    PROVE  SlotsOK'
  <2> USE <1>StepSlots
  <2>1. ~ShutdownNext(t)
      BY Zenon DEF ShutdownNext, At, SlotUp, Up, ExclusionInv, Claimed
  <2>2. CASE Activate(t)
      BY Zenon, <2>2, <1>SlotsActivation, <1>SlotsStart DEF Activate
  <2>3. QED
      BY Zenon, <2>1, <2>2, <1>SlotsCreate, <1>SlotsFinish, <1>SlotsFinishWake,
         <1>SlotsSettled, <1>SlotsBecomeStopped, <1>SlotsCheckWake, <1>SlotsReserveWakeSlot,
         <1>SlotsTakeHandles, <1>SlotsKill, <1>SlotsClear, <1>SlotsDelete,
         <1>SlotsKeepAfterFailedDelete, <1>SlotsUntrack, <1>SlotsClaimDeath
      DEF Step

<1> SUFFICES ASSUME SlotUp, [Next]_vars, phase' = "up"
             PROVE  SlotsOK'
    BY Zenon
<1>1. ASSUME NEW t \in Threads, Start(t)
      PROVE  SlotsOK'
  <2>1. ~Shutdown(t)
    BY Zenon DEF Shutdown
  <2>2. QED
    BY Zenon, <1>1, <2>1, <1>SlotsReserveSandbox, <1>SlotsBeginTransition DEF Start
<1>2. QED
    BY Zenon, <1>1, <1>StepSlots, <1>SlotsRecordGuestDeath, <1>SlotsGuestDies,
       <1>SlotsWirer DEF Next

-----------------------------------------------------------------------------
(***************************************************************************)
(* A snapshot is restored only onto the rootfs it describes (startGuest's  *)
(* pin, mustColdBoot).  A guest that runs, and a snapshot that no longer   *)
(* matches the rootfs, have the sandbox pinned: a wake boots it cold.      *)
(***************************************************************************)

\* What the argument about the snapshots needs of the types and of the slots.
LEMMA DiskTypes ==
    ASSUME DiskUp
    PROVE  /\ SlotUp
           /\ pc \in [Threads -> Labels]
           /\ inc \in [Threads -> Incarnations \cup {NoIncarnation}]
           /\ op \in [Threads -> {"none", "create", "stop", "wake", "delete",
                                  "crash", "shutdown"}]
           /\ coldBoot \in [Threads -> BOOLEAN]
           /\ running \in [Incarnations -> BOOLEAN]
           /\ mustColdBoot \in [Incarnations -> BOOLEAN]
           /\ idOf \in [Incarnations -> Ids]
           /\ disk \in [Ids -> {"absent", "match", "stale"}]
           /\ \A t \in Threads : SlotThread(t) /\ DiskThread(t) /\ OpAt(t)
           /\ \A i \in Incarnations : PinOK(i) /\ RunOK(i)
BY Zenon, SlotTypes DEF DiskUp, DiskOK, ExclusionInv, TypeOK, TypeThreads,
   TypeSandbox, TypeHost, SlotThread

\* What a step leaves alone of a sandbox.
Left(i) ==
    /\ idOf'[i] = idOf[i]
    /\ mustColdBoot'[i] <=> mustColdBoot[i]
    /\ running'[i] => running[i]
    /\ Tracked(i)' <=> Tracked(i)

Aside(t) ==
    /\ \A u \in Threads \ {t} :
          /\ pc'[u] = pc[u] /\ inc'[u] = inc[u] /\ op'[u] = op[u]
          /\ coldBoot'[u] = coldBoot[u]
    /\ \A i \in Incarnations : i # inc[t] =>
          Left(i) \/ (i > made /\ PinOK(i)' /\ RunOK(i)')
    /\ \A id \in Ids : disk'[id] = "stale" =>
          \/ disk[id] = "stale"
          \/ inc[t] \in Incarnations /\ Tracked(inc[t]) /\ id = idOf[inc[t]]

-----------------------------------------------------------------------------
(* The steps of an operation that goes on.                                 *)

Continues(t, l) ==
    /\ Goto(t, l)
    /\ UNCHANGED <<op, inc, idOf, sandboxes>>
    /\ \A u \in Threads \ {t} : coldBoot'[u] = coldBoot[u]
    /\ \A i \in Incarnations : i # inc[t] =>
          (mustColdBoot'[i] <=> mustColdBoot[i]) /\ (running'[i] => running[i])

\* A runner starts with sandboxes nobody has pinned, none of which runs.
LEMMA InitDisk == Init /\ TypeOK => DiskOK
<1> SUFFICES ASSUME Init, TypeOK PROVE DiskOK
    BY Zenon
<1>1. /\ \A t \in Threads : pc[t] = "idle" /\ op[t] = "none"
      /\ \A id \in Ids : disk[id] # "stale"
      /\ \A i \in Incarnations : ~running[i]
    BY Zenon DEF Init
<1>2. \A t \in Threads : DiskThread(t)
    BY Zenon, <1>1 DEF DiskThread, StopAt, PinnedAt
<1>3. \A i \in Incarnations : idOf[i] \in Ids
    BY Zenon DEF TypeOK, TypeSandbox
<1>4. \A i \in Incarnations : PinOK(i) /\ RunOK(i)
    BY Zenon, <1>1, <1>3 DEF PinOK, RunOK
<1>5. QED
    BY Zenon, <1>2, <1>4 DEF DiskOK

\* Every step keeps the pins and the snapshots in agreement.
LEMMA NextDisk == DiskUp /\ [Next]_vars /\ phase' = "up" => DiskOK'
\* An operation that works on the files or on the guest has its sandbox to
\* itself, and the sandbox is tracked.
<1>Solo.
    ASSUME DiskUp, NEW t \in Threads, pc[t] \in WorksAt
    PROVE  /\ inc[t] \in Incarnations
           /\ Tracked(inc[t])
           /\ \A u \in Threads \ {t} : inc[u] # inc[t]
  <2> USE <1>Solo
  <2>1. OpAt(t) /\ OnTracked(t) /\ DiskThread(t) /\ SlotUp
      BY Zenon, DiskTypes DEF SlotThread
  <2>2. inc[t] # NoIncarnation /\ op[t] # "shutdown"
      BY Zenon, <2>1, SlotBounds DEF WorksAt, ActivateAt
  <2>3. inc[t] \in Incarnations
      BY Zenon, <2>1, <2>2, SlotTypes
  <2>4. /\ op[t] \in SlotOps \cup {"create"}
        /\ ~GaveUp(t) /\ op[t] # "delete" /\ pc[t] \notin Harmless
    <3>1. op[t] \in {"none", "create", "stop", "wake", "delete", "crash", "shutdown"}
      BY Zenon, DiskTypes
    <3>2. QED
      BY Zenon, <2>1, <2>2, <3>1 DEF OpAt, WorksAt, ActivateAt, DeleteAt, SlotOps, GaveUp,
         Harmless
  <2>5. Tracked(inc[t])
      BY Zenon, <2>1, <2>2, <2>4 DEF OnTracked, DiskThread
  <2>6. \A u \in Threads \ {t} : inc[u] # inc[t]
      BY Zenon, <2>1, <2>2, <2>4, Together
  <2>7. QED
      BY Zenon, <2>3, <2>5, <2>6

<1>AsideThreads.
    ASSUME DiskUp, NEW t \in Threads, Aside(t), NEW u \in Threads, u # t
    PROVE  DiskThread(u)'
  <2> USE <1>AsideThreads
  <2>1. /\ pc'[u] = pc[u] /\ inc'[u] = inc[u] /\ op'[u] = op[u]
        /\ coldBoot'[u] = coldBoot[u]
      BY Zenon DEF Aside
  <2>2. DiskThread(u) /\ OpAt(u) /\ SlotUp
      BY Zenon, DiskTypes
  <2>3. pc[u] \in PinnedAt \cup {"unpin", "startGuest"} => pc[u] \in WorksAt
      BY Zenon DEF PinnedAt, WorksAt, ActivateAt
  <2>4. GaveUp(u)' <=> GaveUp(u)
      BY Zenon, <2>1 DEF GaveUp
  <2>5. CASE inc[u] = NoIncarnation
    <3>1. NoIncarnation \notin Incarnations
      BY Zenon, NoneApart
    <3>2. pc[u] \notin WorksAt
      BY Zenon, <2>5, <3>1, <1>Solo
    <3>3. pc[u] \notin PinnedAt /\ pc[u] # "unpin" /\ pc[u] # "startGuest"
      BY Zenon, <2>3, <3>2
    <3>4. QED
      BY Zenon, <2>1, <2>2, <2>5, <3>3 DEF DiskThread
  <2>6. CASE inc[u] # NoIncarnation /\ inc[u] = inc[t]
    <3>1. pc[u] \notin WorksAt
      BY Zenon, <2>6, <1>Solo
    <3>2. pc[u] \notin PinnedAt /\ pc[u] # "unpin" /\ pc[u] # "startGuest"
      BY Zenon, <2>3, <3>1
    <3>3. op[u] = "create" => GaveUp(u)
      <4>1. op[u] = "create" => pc[u] \notin Harmless
        BY Zenon, <2>2 DEF OpAt, CreateAt, DeleteAt, ActivateAt, Harmless
      <4>2. "create" # "delete"
        BY Zenon
      <4>3. GaveUp(u) \/ op[u] = "delete" \/ pc[u] \in Harmless
        BY Zenon, <2>2, <2>6, Together
      <4>4. QED
        BY Zenon, <4>1, <4>2, <4>3
    <3>4. QED
      BY Zenon, <2>1, <2>2, <2>4, <2>6, <3>2, <3>3 DEF DiskThread
  <2>7. CASE inc[u] # NoIncarnation /\ inc[u] # inc[t]
    <3>1. PICK i \in Incarnations : i = inc[u]
      BY Zenon, <2>7, DiskTypes
    <3>2. ~(i > made)
      BY Zenon, <2>2, <3>1, SlotBounds, MadeOrder
    <3>3. Left(i)
      BY Zenon, <2>7, <3>1, <3>2 DEF Aside
    <3>4. ASSUME pc[u] = "unpin" \/ (pc[u] = "startGuest" /\ ~coldBoot[u])
          PROVE  disk'[idOf'[i]] # "stale"
      <4>1. disk[idOf[i]] # "stale"
        BY Zenon, <2>2, <3>1, <3>4 DEF DiskThread
      <4>2. Tracked(i)
        BY Zenon, <2>3, <3>1, <3>4, <1>Solo
      <4>3. idOf[i] \in Ids /\ idOf'[i] = idOf[i]
        BY Zenon, <3>3, DiskTypes DEF Left
      <4>4. Tracked(inc[t]) => idOf[i] # idOf[inc[t]]
        BY Zenon, <2>7, <3>1, <4>2 DEF Tracked
      <4>5. QED
        BY Zenon, <4>1, <4>3, <4>4 DEF Aside
    <3>5. QED
      BY Zenon, <2>1, <2>2, <2>4, <3>1, <3>3, <3>4 DEF DiskThread, Left
  <2>8. QED
      BY Zenon, <2>5, <2>6, <2>7

\* A step that keeps what its own thread and its sandbox need keeps the rest.
<1>AsideKeeps.
    ASSUME DiskUp, NEW t \in Threads, Aside(t), DiskThread(t)',
           \A i \in Incarnations : i = inc[t] => PinOK(i)' /\ RunOK(i)'
    PROVE  DiskOK'
  <2> USE <1>AsideKeeps
  <2>1. \A u \in Threads : DiskThread(u)'
      BY Zenon, <1>AsideThreads
  <2>2. ASSUME NEW i \in Incarnations, i # inc[t], Left(i)
        PROVE  PinOK(i)' /\ RunOK(i)'
    <3>1. PinOK(i) /\ RunOK(i) /\ idOf[i] \in Ids
      BY Zenon, DiskTypes
    <3>2. ASSUME NEW u \in Threads, inc[u] = i
          PROVE  /\ inc'[u] = i
                 /\ Making(u) => Making(u)'
                 /\ Tearing(u) => Tearing(u)'
      BY Zenon, <2>2, <3>2 DEF Aside, Making, Tearing
    <3>3. Tracked(i) /\ disk'[idOf[i]] = "stale" => disk[idOf[i]] = "stale"
      <4>1. Tracked(i) /\ Tracked(inc[t]) => idOf[i] # idOf[inc[t]]
        BY Zenon, <2>2 DEF Tracked
      <4>2. QED
        BY Zenon, <3>1, <4>1 DEF Aside
    <3>4. PinOK(i)'
      BY Zenon, <2>2, <3>1, <3>2, <3>3 DEF PinOK, Left
    <3>5. RunOK(i)'
      BY Zenon, <2>2, <3>1, <3>2 DEF RunOK, Left
    <3>6. QED
      BY Zenon, <3>4, <3>5
  <2>3. \A i \in Incarnations : PinOK(i)' /\ RunOK(i)'
      BY Zenon, <2>2 DEF Aside
  <2>4. QED
      BY Zenon, <2>1, <2>3 DEF DiskOK

<1>ContinuesAside.
    ASSUME DiskUp, NEW t \in Threads, NEW l, Continues(t, l),
           \A id \in Ids : disk'[id] = "stale" =>
               \/ disk[id] = "stale"
               \/ pc[t] \in WorksAt /\ id = idOf[inc[t]]
    PROVE  /\ Aside(t)
           /\ pc'[t] = l
           /\ \A i : Tracked(i)' <=> Tracked(i)
  <2> USE <1>ContinuesAside
  <2>1. pc' = [pc EXCEPT ![t] = l] /\ pc \in [Threads -> Labels]
      BY Zenon, DiskTypes DEF Continues, Goto
  <2>2. pc'[t] = l /\ \A u \in Threads \ {t} : pc'[u] = pc[u]
      BY Zenon, <2>1
  <2>3. \A i : Tracked(i)' <=> Tracked(i)
      BY Zenon DEF Tracked, Continues
  <2>4. \A i \in Incarnations : i # inc[t] => Left(i)
      BY Zenon, <2>3 DEF Left, Continues
  <2>5. pc[t] \in WorksAt => inc[t] \in Incarnations /\ Tracked(inc[t])
      BY Zenon, <1>Solo
  <2>6. QED
      BY Zenon, <2>2, <2>3, <2>4, <2>5 DEF Aside, Continues

\* The sandbox is pinned: whatever the step does to the disk, a later wake
\* boots it cold.
<1>DiskPinned.
    ASSUME DiskUp, NEW t \in Threads, NEW l, Continues(t, l),
           UNCHANGED mustColdBoot, pc[t] \in PinnedAt,
           \A id \in Ids : disk'[id] = "stale" =>
               disk[id] = "stale" \/ id = idOf[inc[t]],
           l \in StopAt => pc[t] \in StopAt,
           l # "startGuest",
           l = "unpin" => disk'[idOf[inc[t]]] # "stale"
    PROVE  DiskOK'
  <2> USE <1>DiskPinned
  <2>1. pc[t] \in WorksAt /\ pc[t] # "untrack"
      BY Zenon DEF PinnedAt, WorksAt, ActivateAt
  <2>2. Aside(t) /\ pc'[t] = l /\ \A i : Tracked(i)' <=> Tracked(i)
      BY Zenon, <2>1, <1>ContinuesAside
  <2>3. inc[t] \in Incarnations /\ Tracked(inc[t])
      BY Zenon, <2>1, <1>Solo
  <2>4. DiskThread(t) /\ mustColdBoot[inc[t]]
      BY Zenon, DiskTypes DEF DiskThread
  <2>5. inc'[t] = inc[t] /\ op'[t] = op[t] /\ idOf' = idOf
      BY Zenon DEF Continues
  <2>6. DiskThread(t)'
      BY Zenon, <2>2, <2>3, <2>4, <2>5 DEF DiskThread
  <2>7. \A i \in Incarnations : i = inc[t] => PinOK(i)' /\ RunOK(i)'
      BY Zenon, <2>4, <2>5 DEF PinOK, RunOK
  <2>8. QED
      BY Zenon, <2>2, <2>6, <2>7, <1>AsideKeeps

\* The pin stays, and no guest starts to run.
<1>DiskCalm.
    ASSUME DiskUp, NEW t \in Threads, NEW l, Continues(t, l),
           UNCHANGED mustColdBoot, pc[t] # "untrack",
           \A i \in Incarnations : running'[i] => running[i],
           \A id \in Ids : disk'[id] = "stale" =>
               \/ disk[id] = "stale"
               \/ op[t] = "create" /\ pc[t] = "cloneAssets" /\ id = idOf[inc[t]],
           op[t] = "create" /\ pc[t] \in MakeAt =>
               l \in MakeAt \/ disk'[idOf[inc[t]]] # "stale",
           op[t] = "stop" /\ pc[t] \in TearAt =>
               l \in TearAt \/ ~running'[inc[t]],
           l \in StopAt => pc[t] \in StopAt,
           l \in PinnedAt => mustColdBoot[inc[t]],
           l \notin {"startGuest", "unpin"}
    PROVE  DiskOK'
  <2> USE <1>DiskCalm
  <2>1. "cloneAssets" \in WorksAt /\ "cloneAssets" \in MakeAt
      BY Zenon DEF WorksAt, MakeAt
  <2>2. Aside(t) /\ pc'[t] = l /\ \A i : Tracked(i)' <=> Tracked(i)
      BY Zenon, <2>1, <1>ContinuesAside
  <2>3. DiskThread(t)
      BY Zenon, DiskTypes
  <2>4. inc' = inc /\ op' = op /\ idOf' = idOf
      BY Zenon DEF Continues
  <2>5. DiskThread(t)'
    <3>1. l # "startGuest" /\ l # "unpin"
      BY Zenon
    <3>2. QED
      BY Zenon, <2>2, <2>3, <2>4, <3>1 DEF DiskThread, GaveUp
  <2>6. ASSUME NEW i \in Incarnations, i = inc[t]
        PROVE  PinOK(i)' /\ RunOK(i)'
    <3>1. PinOK(i) /\ RunOK(i) /\ idOf[i] \in Ids
      BY Zenon, DiskTypes
    <3>2. \A u \in Threads \ {t} : /\ Making(u)' <=> Making(u)
                                   /\ Tearing(u)' <=> Tearing(u)
      BY Zenon, <2>2 DEF Aside, Making, Tearing
    <3>3. ASSUME Tracked(i)', disk'[idOf'[i]] = "stale", ~mustColdBoot'[i]
          PROVE  \E u \in Threads : inc'[u] = i /\ Making(u)'
      <4>1. CASE op[t] = "create" /\ pc[t] \in MakeAt
        <5>1. l \in MakeAt
          BY Zenon, <2>4, <2>6, <3>3, <4>1
        <5>2. QED
          BY Zenon, <2>2, <2>4, <2>6, <4>1, <5>1 DEF Making
      <4>2. CASE ~(op[t] = "create" /\ pc[t] \in MakeAt)
        <5>1. disk[idOf[i]] = "stale" /\ Tracked(i)
          BY Zenon, <2>1, <2>2, <2>4, <3>1, <3>3, <4>2
        <5>2. PICK u \in Threads : inc[u] = i /\ Making(u)
          BY Zenon, <3>1, <3>3, <5>1 DEF PinOK
        <5>3. u # t
          BY Zenon, <4>2, <5>2 DEF Making
        <5>4. QED
          BY Zenon, <2>4, <3>2, <5>2, <5>3
      <4>3. QED
        BY Zenon, <4>1, <4>2
    <3>4. ASSUME running'[i], ~mustColdBoot'[i]
          PROVE  \E u \in Threads : inc'[u] = i /\ Tearing(u)'
      <4>1. PICK u \in Threads : inc[u] = i /\ Tearing(u)
        BY Zenon, <3>1, <3>4 DEF RunOK
      <4>2. u = t => Tearing(t)'
        BY Zenon, <2>2, <2>4, <2>6, <3>4, <4>1 DEF Tearing
      <4>3. QED
        BY Zenon, <2>4, <3>2, <4>1, <4>2
    <3>5. QED
      BY Zenon, <3>3, <3>4 DEF PinOK, RunOK
  <2>7. QED
      BY Zenon, <2>2, <2>5, <2>6, <1>AsideKeeps

\* The guest's requests, and the end of a wake.
<1>DiskGuest.
    ASSUME DiskUp, NEW t \in Threads,
           \/ StartGuest(t) \/ NewProxy(t) \/ PublishProxy(t) \/ ProbeDaemon(t)
           \/ FinishWake(t) \/ PauseVM(t) \/ CreateSnapshot(t)
    PROVE  DiskOK'
  <2> USE <1>DiskGuest
  <2> DEFINE id == idOf[inc[t]]
  <2>1. /\ UNCHANGED <<op, inc, idOf, sandboxes, coldBoot, mustColdBoot>>
        /\ UNCHANGED running \/ running' = [running EXCEPT ![inc[t]] = TRUE]
      BY Zenon DEF StartGuest, NewProxy, PublishProxy, ProbeDaemon, FinishWake,
         PauseVM, CreateSnapshot, registry, sandbox, identity, status, locals
  <2>2. \/ /\ UNCHANGED disk
           /\ \/ pc[t] = "newProxy" /\ \E l \in {"publishProxy"} : Goto(t, l)
              \/ pc[t] = "publishProxy" /\ \E l \in {"probeDaemon"} : Goto(t, l)
              \/ pc[t] = "probeDaemon" /\ \E l \in {"activated"} : Goto(t, l)
              \/ pc[t] = "activated" /\ \E l \in {"endTransition"} : Goto(t, l)
              \/ pc[t] = "pauseVM" /\ \E l \in {"createSnapshot"} : Goto(t, l)
        \/ /\ pc[t] = "createSnapshot"
           /\ Goto(t, "unpin")
           /\ disk' = [disk EXCEPT ![id] = "match"]
        \/ /\ pc[t] \in {"startGuest", "newProxy", "publishProxy", "probeDaemon",
                         "pauseVM", "createSnapshot"}
           /\ \/ \E l \in {"newProxy", "resumeVM"} : Goto(t, l)
              \/ Goto(t, Rollback(t))
           /\ UNCHANGED disk \/ disk' = [disk EXCEPT ![id] = "stale"]
      BY Zenon DEF StartGuest, NewProxy, PublishProxy, ProbeDaemon, FinishWake,
         PauseVM, CreateSnapshot, At, host
  <2>3. Rollback(t) \in {"delete", "teardown"}
      BY Zenon DEF Rollback
  <2>4. /\ pc[t] \in PinnedAt
        /\ \E l : /\ Goto(t, l)
                  /\ l \in StopAt => pc[t] \in StopAt
                  /\ l # "startGuest"
                  /\ l = "unpin" => disk' = [disk EXCEPT ![id] = "match"]
    <3>1. CASE /\ pc[t] = "createSnapshot"
               /\ Goto(t, "unpin")
               /\ disk' = [disk EXCEPT ![id] = "match"]
      <4>1. pc[t] \in PinnedAt /\ pc[t] \in StopAt /\ "unpin" # "startGuest"
        BY Zenon, <3>1 DEF PinnedAt, StopAt
      <4>2. QED
        BY Zenon, <3>1, <4>1
    <3>2. CASE /\ pc[t] \in {"startGuest", "newProxy", "publishProxy", "probeDaemon",
                             "pauseVM", "createSnapshot"}
               /\ \/ \E l \in {"newProxy", "resumeVM"} : Goto(t, l)
                  \/ Goto(t, Rollback(t))
      <4>1. PICK l \in {"newProxy", "resumeVM", "delete", "teardown"} : Goto(t, l)
        BY Zenon, <2>3, <3>2
      <4>2. /\ pc[t] \in PinnedAt
            /\ l \notin StopAt /\ l # "startGuest" /\ l # "unpin"
        BY Zenon, <3>2 DEF PinnedAt, StopAt
      <4>3. QED
        BY Zenon, <4>1, <4>2
    <3>3. CASE \/ pc[t] = "newProxy" /\ \E l \in {"publishProxy"} : Goto(t, l)
               \/ pc[t] = "publishProxy" /\ \E l \in {"probeDaemon"} : Goto(t, l)
               \/ pc[t] = "probeDaemon" /\ \E l \in {"activated"} : Goto(t, l)
               \/ pc[t] = "activated" /\ \E l \in {"endTransition"} : Goto(t, l)
               \/ pc[t] = "pauseVM" /\ \E l \in {"createSnapshot"} : Goto(t, l)
      <4>1. PICK l \in {"publishProxy", "probeDaemon", "activated", "endTransition",
                        "createSnapshot"} :
                /\ Goto(t, l)
                /\ pc[t] \in {"newProxy", "publishProxy", "probeDaemon",
                              "activated", "pauseVM"}
                /\ l = "createSnapshot" => pc[t] = "pauseVM"
        BY Zenon, <3>3
      <4>2. /\ pc[t] \in PinnedAt
            /\ l \in StopAt => pc[t] \in StopAt
            /\ l # "startGuest" /\ l # "unpin"
        BY Zenon, <4>1 DEF PinnedAt, StopAt
      <4>3. QED
        BY Zenon, <4>1, <4>2
    <3>4. QED
      BY Zenon, <2>2, <3>1, <3>2, <3>3
  <2>5. PICK l : /\ Goto(t, l)
                 /\ l \in StopAt => pc[t] \in StopAt
                 /\ l # "startGuest"
                 /\ l = "unpin" => disk' = [disk EXCEPT ![id] = "match"]
      BY Zenon, <2>4
  <2>6. pc[t] \in WorksAt
      BY Zenon, <2>4 DEF PinnedAt, WorksAt, ActivateAt
  <2>7. inc[t] \in Incarnations
      BY Zenon, <2>6, <1>Solo
  <2>8. id \in Ids
      BY Zenon, <2>7, DiskTypes
  <2>9. /\ \A i \in Incarnations : i # inc[t] => (running'[i] => running[i])
        /\ \A name \in Ids : disk'[name] = "stale" => disk[name] = "stale" \/ name = id
        /\ disk' = [disk EXCEPT ![id] = "match"] => disk'[id] # "stale"
    <3>1. /\ disk \in [Ids -> {"absent", "match", "stale"}]
          /\ running \in [Incarnations -> BOOLEAN]
      BY Zenon, DiskTypes
    <3>2. UNCHANGED disk \/ \E v \in {"match", "stale"} : disk' = [disk EXCEPT ![id] = v]
      BY Zenon, <2>2
    <3> HIDE DEF id
    <3>3. QED
      BY Zenon, <2>1, <2>8, <3>1, <3>2
  <2>10. Continues(t, l)
      BY Zenon, <2>1, <2>5, <2>9 DEF Continues
  <2>11. QED
      BY Zenon, <2>1, <2>4, <2>5, <2>9, <2>10, <1>DiskPinned

\* waitForSocket and the pin: what startGuest restores has not gone stale.
<1>DiskPinGuest.
    ASSUME DiskUp, NEW t \in Threads, PinGuest(t)
    PROVE  DiskOK'
  <2> USE <1>DiskPinGuest
  <2>1. /\ UNCHANGED <<op, inc, idOf, sandboxes, disk, running>>
        /\ pc[t] = "waitForSocket"
      BY Zenon DEF PinGuest, At, registry, identity, host
  <2>2. pc[t] \in WorksAt /\ pc[t] \notin MakeAt \cup TearAt
      BY Zenon, <2>1 DEF WorksAt, ActivateAt, MakeAt, DeleteAt, TearAt
  <2>3. PICK i \in Incarnations : i = inc[t]
      BY Zenon, <2>2, <1>Solo
  <2>4. Tracked(i) /\ \A u \in Threads \ {t} : inc[u] # i
      BY Zenon, <2>2, <2>3, <1>Solo
  <2>5. CASE Goto(t, Rollback(t)) /\ UNCHANGED <<coldBoot, mustColdBoot>>
    <3>1. PICK l : l = Rollback(t)
      BY Zenon
    <3>2. /\ l \notin StopAt /\ l \notin PinnedAt /\ l \notin {"startGuest", "unpin"}
          /\ pc[t] # "untrack" /\ pc[t] # "cloneAssets"
      BY Zenon, <2>1, <3>1 DEF Rollback, StopAt, PinnedAt
    <3>3. Continues(t, l)
      BY Zenon, <2>1, <2>5, <3>1 DEF Continues
    <3>4. QED
      BY Zenon, <2>1, <2>2, <2>5, <3>2, <3>3, <1>DiskCalm
  <2>6. CASE /\ coldBoot' = [coldBoot EXCEPT ![t] = mustColdBoot[i]]
             /\ mustColdBoot' = [mustColdBoot EXCEPT ![i] = TRUE]
             /\ Goto(t, "startGuest")
    <3>1. /\ mustColdBoot'[i] /\ (coldBoot'[t] <=> mustColdBoot[i])
          /\ \A j \in Incarnations : j # i => (mustColdBoot'[j] <=> mustColdBoot[j])
          /\ \A u \in Threads \ {t} : coldBoot'[u] = coldBoot[u]
      BY Zenon, <2>6, DiskTypes
    <3>2. Continues(t, "startGuest")
      BY Zenon, <2>1, <2>3, <2>6, <3>1 DEF Continues
    <3>3. Aside(t) /\ pc'[t] = "startGuest" /\ \A j : Tracked(j)' <=> Tracked(j)
      BY Zenon, <2>1, <3>2, <1>ContinuesAside
    <3>4. ~mustColdBoot[i] => disk[idOf[i]] # "stale"
      <4>1. PinOK(i) /\ ~Making(t)
        BY Zenon, <2>2, DiskTypes DEF Making
      <4>2. QED
        BY Zenon, <2>4, <4>1 DEF PinOK
    <3>5. DiskThread(t)'
      <4>1. pc'[t] \notin StopAt /\ pc'[t] # "unpin"
        BY Zenon, <3>3 DEF StopAt
      <4>2. inc'[t] # NoIncarnation
        BY Zenon, <2>1, <2>3, NoneApart
      <4>3. QED
        BY Zenon, <2>1, <2>3, <2>4, <3>1, <3>3, <3>4, <4>1, <4>2 DEF DiskThread
    <3>6. \A j \in Incarnations : j = inc[t] => PinOK(j)' /\ RunOK(j)'
      BY Zenon, <2>3, <3>1 DEF PinOK, RunOK
    <3>7. QED
      BY Zenon, <3>3, <3>5, <3>6, <1>AsideKeeps
  <2>7. QED
      BY Zenon, <2>3, <2>5, <2>6 DEF PinGuest, Pin

\* A stop unpins the sandbox only once its snapshot is complete.
<1>DiskUnpin.
    ASSUME DiskUp, NEW t \in Threads, Unpin(t)
    PROVE  DiskOK'
  <2> USE <1>DiskUnpin
  <2>1. /\ UNCHANGED <<op, inc, idOf, sandboxes, disk, running, coldBoot>>
        /\ pc[t] = "unpin" /\ Goto(t, "teardown")
        /\ mustColdBoot' = [mustColdBoot EXCEPT ![inc[t]] = FALSE]
      BY Zenon DEF Unpin, At, registry, identity, host, locals
  <2>2. pc[t] \in WorksAt /\ pc[t] \in StopAt
      BY Zenon, <2>1 DEF WorksAt, StopAt
  <2>3. PICK i \in Incarnations : i = inc[t]
      BY Zenon, <2>2, <1>Solo
  <2>4. op[t] = "stop" /\ disk[idOf[i]] # "stale"
      BY Zenon, <2>1, <2>2, <2>3, DiskTypes DEF DiskThread
  <2>5. \A j \in Incarnations : j # inc[t] => (mustColdBoot'[j] <=> mustColdBoot[j])
      BY Zenon, <2>1, <2>3, DiskTypes
  <2>6. Continues(t, "teardown")
      BY Zenon, <2>1, <2>5 DEF Continues
  <2>7. Aside(t) /\ pc'[t] = "teardown" /\ \A j : Tracked(j)' <=> Tracked(j)
      BY Zenon, <2>1, <2>6, <1>ContinuesAside
  <2>8. op'[t] # "create" /\ pc'[t] \notin StopAt \cup PinnedAt
      BY Zenon, <2>1, <2>4, <2>7 DEF StopAt, PinnedAt
  <2>9. DiskThread(t)'
    <3>1. pc'[t] # "unpin" /\ pc'[t] # "startGuest"
      BY Zenon, <2>7
    <3>2. QED
      BY Zenon, <2>8, <3>1 DEF DiskThread
  <2>10. Tearing(t)'
      BY Zenon, <2>1, <2>4, <2>7 DEF Tearing, TearAt
  <2>11. \A j \in Incarnations : j = inc[t] => PinOK(j)' /\ RunOK(j)'
      BY Zenon, <2>1, <2>3, <2>4, <2>10 DEF PinOK, RunOK
  <2>12. QED
      BY Zenon, <2>7, <2>9, <2>11, <1>AsideKeeps

\* An activation before the pin.
<1>DiskActivation.
    ASSUME DiskUp, NEW t \in Threads,
           PrepareJail(t) \/ ActivateNetwork(t) \/ ReadGeneration(t)
           \/ StartJailer(t) \/ PublishProcess(t)
    PROVE  DiskOK'
  <2> USE <1>DiskActivation
  <2>1. UNCHANGED <<op, inc, idOf, sandboxes, coldBoot, mustColdBoot, running, disk>>
      BY Zenon DEF PrepareJail, ActivateNetwork, ReadGeneration, StartJailer,
         PublishProcess, registry, sandbox, identity, status, locals, host
  <2>2. /\ pc[t] \in {"prepareJail", "setupNetwork", "readGeneration",
                      "startJailer", "publishProcess"}
        /\ \/ \E l \in {"setupNetwork", "readGeneration", "startJailer",
                        "publishProcess", "waitForSocket"} : Goto(t, l)
           \/ Goto(t, Rollback(t))
      BY Zenon DEF PrepareJail, ActivateNetwork, ReadGeneration, StartJailer,
         PublishProcess, At
  <2>3. Rollback(t) \in {"delete", "teardown"}
      BY Zenon DEF Rollback
  <2>4. PICK l \in {"setupNetwork", "readGeneration", "startJailer",
                    "publishProcess", "waitForSocket", "delete", "teardown"} :
            Goto(t, l)
      BY Zenon, <2>2, <2>3
  <2>5. /\ l \notin StopAt /\ l \notin PinnedAt /\ l \notin {"startGuest", "unpin"}
        /\ pc[t] # "untrack" /\ pc[t] \notin MakeAt /\ pc[t] \notin TearAt
      BY Zenon, <2>2 DEF StopAt, PinnedAt, MakeAt, DeleteAt, TearAt
  <2>6. Continues(t, l)
      BY Zenon, <2>1, <2>4 DEF Continues
  <2>7. QED
      BY Zenon, <2>1, <2>5, <2>6, <1>DiskCalm

<1>DiskCreate.
    ASSUME DiskUp, NEW t \in Threads, CloneAssets(t)
    PROVE  DiskOK'
  <2> USE <1>DiskCreate
  <2> DEFINE id == idOf[inc[t]]
  <2>1. /\ UNCHANGED <<op, inc, idOf, sandboxes, coldBoot, mustColdBoot, running>>
        /\ pc[t] = "cloneAssets"
        /\ \/ disk' = [disk EXCEPT ![id] = "match"] /\ Goto(t, "prepareJail")
           \/ disk' = [disk EXCEPT ![id] = "stale"] /\ Goto(t, "delete")
      BY Zenon DEF CloneAssets, At, registry, sandbox, identity, status, locals
  <2>2. pc[t] \in WorksAt /\ pc[t] \notin TearAt
      BY Zenon, <2>1 DEF WorksAt, TearAt
  <2>3. inc[t] \in Incarnations
      BY Zenon, <2>2, <1>Solo
  <2>4. id \in Ids
      BY Zenon, <2>3, DiskTypes
  <2>5. op[t] = "create"
    <3>1. OpAt(t) /\ op[t] \in {"none", "create", "stop", "wake", "delete",
                                "crash", "shutdown"}
      BY Zenon, DiskTypes
    <3>2. op[t] # "shutdown"
      BY Zenon, DiskTypes, SlotTypes DEF BoundThreads
    <3>3. QED
      BY Zenon, <2>1, <3>1, <3>2 DEF OpAt, DeleteAt, DisposeAt, SlotOps
  <2>6. /\ \A name \in Ids : disk'[name] = "stale" => disk[name] = "stale" \/ name = id
        /\ disk' = [disk EXCEPT ![id] = "match"] => disk'[id] # "stale"
    <3>1. disk \in [Ids -> {"absent", "match", "stale"}]
      BY Zenon, DiskTypes
    <3> HIDE DEF id
    <3>2. QED
      BY Zenon, <2>1, <2>4, <3>1
  <2>7. PICK l \in {"prepareJail", "delete"} :
            Goto(t, l) /\ (l = "delete" \/ disk'[id] # "stale")
      BY Zenon, <2>1, <2>6
  <2>8. /\ l \notin StopAt /\ l \notin PinnedAt /\ l \notin {"startGuest", "unpin"}
        /\ pc[t] # "untrack" /\ "delete" \in MakeAt
      BY Zenon, <2>1 DEF StopAt, PinnedAt, MakeAt, DeleteAt
  <2>9. Continues(t, l)
      BY Zenon, <2>1, <2>7 DEF Continues
  <2>10. QED
      BY Zenon, <2>1, <2>2, <2>5, <2>6, <2>7, <2>8, <2>9, <1>DiskCalm

\* A stop that goes on finds the sandbox running, and so pinned.
<1>DiskSettled.
    ASSUME DiskUp, NEW t \in Threads,
           CheckStop(t) \/ ResumeVM(t) \/ CheckStale(t) \/ CheckWake(t)
           \/ ReserveWakeSlot(t)
    PROVE  DiskOK'
  <2> USE <1>DiskSettled
  <2>1. UNCHANGED <<op, inc, idOf, sandboxes, coldBoot, mustColdBoot, running, disk>>
      BY Zenon DEF CheckStop, ResumeVM, CheckStale, CheckWake, ReserveWakeSlot,
         registry, sandbox, identity, status, locals, host
  <2>2. \/ pc[t] = "stop" /\ Goto(t, "pauseVM") /\ running[inc[t]]
        \/ /\ pc[t] \in {"stop", "resumeVM", "checkStale", "wake", "reserveWakeSlot"}
           /\ \E l \in {"endTransition", "teardown", "reserveWakeSlot",
                        "prepareJail"} : Goto(t, l)
      BY Zenon DEF CheckStop, ResumeVM, CheckStale, CheckWake, ReserveWakeSlot, At
  <2>3. /\ pc[t] # "untrack" /\ pc[t] # "cloneAssets"
        /\ pc[t] \notin MakeAt /\ pc[t] \notin TearAt
      BY Zenon, <2>2 DEF MakeAt, DeleteAt, TearAt
  <2>4. CASE pc[t] = "stop" /\ Goto(t, "pauseVM") /\ running[inc[t]]
    <3>1. /\ pc[t] \in StopAt /\ "pauseVM" \notin {"startGuest", "unpin"}
          /\ pc[t] \in Harmless
      BY Zenon, <2>4 DEF StopAt, Harmless
    <3>2. inc[t] # NoIncarnation
      BY Zenon, <2>4, SlotBounds DEF DiskUp
    <3>3. PICK i \in Incarnations : i = inc[t]
      BY Zenon, <3>2, DiskTypes
    <3>4. RunOK(i) /\ SlotUp /\ op[t] = "stop"
      BY Zenon, <3>1, DiskTypes DEF DiskThread
    <3>5. ASSUME NEW u \in Threads, inc[u] = i, Tearing(u)
          PROVE  FALSE
      <4>1. u # t
        BY Zenon, <2>3, <3>5 DEF Tearing
      <4>2. ~GaveUp(u) /\ ~GaveUp(t)
        BY Zenon, <3>4, <3>5 DEF Tearing, GaveUp
      <4>3. QED
        BY Zenon, <3>2, <3>3, <3>4, <3>5, <4>1, <4>2, Together
    <3>6. mustColdBoot[inc[t]]
      BY Zenon, <2>4, <3>3, <3>4, <3>5 DEF RunOK
    <3>7. Continues(t, "pauseVM")
      BY Zenon, <2>1, <2>4 DEF Continues
    <3>8. QED
      BY Zenon, <2>1, <2>3, <3>1, <3>6, <3>7, <1>DiskCalm
  <2>5. CASE \E l \in {"endTransition", "teardown", "reserveWakeSlot",
                       "prepareJail"} : Goto(t, l)
    <3>1. PICK l \in {"endTransition", "teardown", "reserveWakeSlot",
                      "prepareJail"} : Goto(t, l)
      BY Zenon, <2>5
    <3>2. l \notin StopAt /\ l \notin PinnedAt /\ l \notin {"startGuest", "unpin"}
      BY Zenon DEF StopAt, PinnedAt
    <3>3. Continues(t, l)
      BY Zenon, <2>1, <3>1 DEF Continues
    <3>4. QED
      BY Zenon, <2>1, <2>3, <3>2, <3>3, <1>DiskCalm
  <2>6. QED
      BY Zenon, <2>2, <2>4, <2>5

<1>DiskTeardown.
    ASSUME DiskUp, NEW t \in Threads, phase' = "up",
           TakeHandles(t) \/ StopAndKill(t) \/ ClearSlotNetwork(t)
           \/ RunCleanupScript(t)
    PROVE  DiskOK'
  <2> USE <1>DiskTeardown
  <2>1. phase' # "exited"
      BY Zenon
  <2>2. /\ UNCHANGED <<op, inc, idOf, sandboxes, coldBoot, mustColdBoot, running, disk>>
        /\ \/ Goto(t, AfterTeardown(t))
           \/ \E l \in {"kill", "clearSlot", "cleanupScript"} : Goto(t, l)
    <3>1. CASE TakeHandles(t) \/ StopAndKill(t)
      BY Zenon, <3>1 DEF TakeHandles, StopAndKill, registry, sandbox, identity,
         status, host
    <3>2. CASE ClearSlotNetwork(t) \/ RunCleanupScript(t)
      BY Zenon, <2>1, <3>2 DEF ClearSlotNetwork, RunCleanupScript, AfterClear,
         registry, sandbox, identity, status, locals, host
    <3>3. QED
      BY Zenon, <3>1, <3>2
  <2>3. pc[t] \in {"teardown", "kill", "clearSlot", "cleanupScript"}
      BY Zenon DEF TakeHandles, StopAndKill, ClearSlotNetwork, RunCleanupScript, At
  <2>4. \E l : /\ Goto(t, l)
               /\ l \in {"kill", "clearSlot", "cleanupScript"} \/ l = AfterTeardown(t)
      BY Zenon, <2>2
  <2>5. PICK l : /\ Goto(t, l)
                 /\ l \in {"kill", "clearSlot", "cleanupScript"} \/ l = AfterTeardown(t)
      BY Zenon, <2>4
  <2>6. /\ l \notin StopAt /\ l \notin PinnedAt /\ l \notin {"startGuest", "unpin"}
        /\ pc[t] # "untrack" /\ pc[t] # "cloneAssets"
        /\ op[t] = "create" => l \in MakeAt
        /\ op[t] = "stop" => l \in TearAt
      BY Zenon, <2>3, <2>5 DEF AfterTeardown, StopAt, PinnedAt, MakeAt, DeleteAt, TearAt
  <2>7. Continues(t, l)
      BY Zenon, <2>2, <2>5 DEF Continues
  <2>8. QED
      BY Zenon, <2>2, <2>6, <2>7, <1>DiskCalm

<1>DiskBecomeStopped.
    ASSUME DiskUp, NEW t \in Threads, BecomeStopped(t)
    PROVE  DiskOK'
  <2> USE <1>DiskBecomeStopped
  <2>1. /\ UNCHANGED <<op, inc, idOf, sandboxes, coldBoot, mustColdBoot, disk>>
        /\ running' = [running EXCEPT ![inc[t]] = FALSE]
        /\ pc[t] = "released" /\ Goto(t, "endTransition")
      BY Zenon DEF BecomeStopped, At, identity, locals, host
  <2>2. inc[t] # NoIncarnation
      BY Zenon, <2>1, SlotBounds DEF DiskUp
  <2>3. inc[t] \in Incarnations
      BY Zenon, <2>2, DiskTypes
  <2>4. ~running'[inc[t]] /\ \A i \in Incarnations : running'[i] => running[i]
      BY Zenon, <2>1, <2>3, DiskTypes
  <2>5. /\ "endTransition" \notin StopAt /\ "endTransition" \notin PinnedAt
        /\ "endTransition" \notin {"startGuest", "unpin"}
        /\ pc[t] # "untrack" /\ pc[t] # "cloneAssets" /\ pc[t] \notin MakeAt
      BY Zenon, <2>1 DEF StopAt, PinnedAt, MakeAt, DeleteAt
  <2>6. Continues(t, "endTransition")
      BY Zenon, <2>1, <2>4 DEF Continues
  <2>7. QED
      BY Zenon, <2>1, <2>4, <2>5, <2>6, <1>DiskCalm

<1>DiskDelete.
    ASSUME DiskUp, NEW t \in Threads,
           MarkDeleting(t) \/ RemoveDataDir(t)
           \/ (KeepAfterFailedDelete(t) /\ op[t] = "create")
    PROVE  DiskOK'
  <2> USE <1>DiskDelete
  <2>1. /\ UNCHANGED <<op, inc, idOf, sandboxes, coldBoot, mustColdBoot>>
        /\ UNCHANGED running \/ running' = [running EXCEPT ![inc[t]] = FALSE]
        /\ pc[t] \in {"delete", "removeDataDir", "deleted"}
        /\ \E l \in {"teardown", "untrack", "deleted"} : Goto(t, l)
    <3>1. CASE MarkDeleting(t) \/ RemoveDataDir(t)
      BY Zenon, <3>1 DEF MarkDeleting, RemoveDataDir, At, registry, sandbox,
         identity, status
    <3>2. CASE KeepAfterFailedDelete(t) /\ op[t] = "create"
      <4>1. op[t] # "shutdown" /\ op[t] \in {"create", "shutdown"}
        BY Zenon, <3>2
      <4>2. QED
        BY Zenon, <3>2, <4>1 DEF KeepAfterFailedDelete, At, registry, identity,
           locals
    <3>3. QED
      BY Zenon, <3>1, <3>2
  <2>2. PICK l \in {"teardown", "untrack", "deleted"} : Goto(t, l)
      BY Zenon, <2>1
  <2>3. /\ \A i \in Incarnations : running'[i] => running[i]
      BY Zenon, <2>1, DiskTypes
  <2>4. \A name \in Ids : disk'[name] = "stale" => disk[name] = "stale"
    <3>1. CASE UNCHANGED disk
      BY Zenon, <3>1
    <3>2. CASE RemoveDataDir(t)
      <4>1. \E v \in {"absent", disk[idOf[inc[t]]]} :
                disk' = [disk EXCEPT ![idOf[inc[t]]] = v]
        BY Zenon, <3>2 DEF RemoveDataDir
      <4>2. QED
        BY Zenon, <4>1, DiskTypes
    <3>3. QED
      BY Zenon, <3>1, <3>2 DEF MarkDeleting, KeepAfterFailedDelete, host
  <2>5. /\ l \notin StopAt /\ l \notin PinnedAt /\ l \notin {"startGuest", "unpin"}
        /\ pc[t] # "untrack" /\ pc[t] # "cloneAssets" /\ pc[t] \notin TearAt
        /\ l \in MakeAt
      BY Zenon, <2>1 DEF StopAt, PinnedAt, MakeAt, DeleteAt, TearAt
  <2>6. Continues(t, l)
      BY Zenon, <2>1, <2>2, <2>3 DEF Continues
  <2>7. QED
      BY Zenon, <2>1, <2>3, <2>4, <2>5, <2>6, <1>DiskCalm

\* The steps that give a sandbox back, or take one.
<1>DiskReturn.
    ASSUME DiskUp, NEW t \in Threads, Return(t),
           UNCHANGED <<idOf, mustColdBoot, disk>>,
           \A i \in Incarnations : i # inc[t] =>
               (running'[i] => running[i]) /\ (Tracked(i)' <=> Tracked(i)),
           \A i \in Incarnations : i = inc[t] =>
               \/ mustColdBoot[i]
               \/ /\ running'[i] => running[i]
                  /\ Tracked(i)' => Tracked(i) /\ ~Making(t)
                  /\ ~Tearing(t)
    PROVE  DiskOK'
  <2> USE <1>DiskReturn
  <2>1. /\ pc' = [pc EXCEPT ![t] = "idle"]
        /\ op' = [op EXCEPT ![t] = "none"]
        /\ inc' = [inc EXCEPT ![t] = NoIncarnation]
        /\ coldBoot' = [coldBoot EXCEPT ![t] = FALSE]
      BY Zenon DEF Return
  <2>2. /\ pc'[t] = "idle" /\ op'[t] = "none"
        /\ \A u \in Threads \ {t} :
              /\ pc'[u] = pc[u] /\ inc'[u] = inc[u] /\ op'[u] = op[u]
              /\ coldBoot'[u] = coldBoot[u]
      BY Zenon, <2>1, DiskTypes
  <2>3. \A i \in Incarnations : i # inc[t] => Left(i)
      BY Zenon DEF Left
  <2>4. Aside(t)
      BY Zenon, <2>2, <2>3 DEF Aside
  <2>5. DiskThread(t)'
      BY Zenon, <2>2 DEF DiskThread, StopAt, PinnedAt
  <2>6. ASSUME NEW i \in Incarnations, i = inc[t]
        PROVE  PinOK(i)' /\ RunOK(i)'
    <3>1. CASE mustColdBoot[i]
      BY Zenon, <3>1 DEF PinOK, RunOK
    <3>2. CASE /\ running'[i] => running[i]
               /\ Tracked(i)' => Tracked(i) /\ ~Making(t)
               /\ ~Tearing(t)
      <4>1. PinOK(i) /\ RunOK(i)
        BY Zenon, DiskTypes
      <4>2. \A u \in Threads \ {t} : /\ Making(u) => Making(u)'
                                     /\ Tearing(u) => Tearing(u)'
        BY Zenon, <2>2 DEF Making, Tearing
      <4>3. PinOK(i)'
        BY Zenon, <2>2, <3>2, <4>1, <4>2 DEF PinOK
      <4>4. RunOK(i)'
        BY Zenon, <2>2, <3>2, <4>1, <4>2 DEF RunOK
      <4>5. QED
        BY Zenon, <4>3, <4>4
    <3>3. QED
      BY Zenon, <2>6, <3>1, <3>2
  <2>7. QED
      BY Zenon, <2>4, <2>5, <2>6, <1>AsideKeeps

<1>DiskFinish.
    ASSUME DiskUp, NEW t \in Threads,
           \/ FinishCreate(t) \/ EndTransition(t)
           \/ KeepAfterFailedDelete(t) /\ op[t] # "create"
    PROVE  DiskOK'
  <2> USE <1>DiskFinish
  <2>1. op[t] # "shutdown"
      BY Zenon, DiskTypes, SlotTypes DEF BoundThreads
  <2>2. /\ UNCHANGED <<idOf, mustColdBoot, disk, sandboxes>>
        /\ Return(t)
        /\ \/ /\ pc[t] = "activated"
              /\ running' = [running EXCEPT ![inc[t]] = TRUE]
           \/ pc[t] = "endTransition" /\ UNCHANGED running
           \/ pc[t] = "deleted" /\ op[t] # "create" /\ UNCHANGED running
      BY Zenon, <2>1 DEF FinishCreate, EndTransition, KeepAfterFailedDelete, At,
         registry, identity, host
  <2>3. \A i \in Incarnations : i # inc[t] => (running'[i] => running[i])
      BY Zenon, <2>2, DiskTypes
  <2>4. \A i : Tracked(i)' <=> Tracked(i)
      BY Zenon, <2>2 DEF Tracked
  <2>5. CASE pc[t] = "activated"
    <3>1. mustColdBoot[inc[t]]
      <4>1. DiskThread(t) /\ pc[t] \in PinnedAt
        BY Zenon, <2>5, DiskTypes DEF PinnedAt
      <4>2. QED
        BY Zenon, <4>1 DEF DiskThread
    <3>2. QED
      BY Zenon, <2>2, <2>3, <2>4, <3>1, <1>DiskReturn
  <2>6. CASE /\ UNCHANGED running
             /\ pc[t] = "endTransition" \/ (pc[t] = "deleted" /\ op[t] # "create")
    <3>1. ~Making(t) /\ ~Tearing(t)
      BY Zenon, <2>6 DEF Making, Tearing, MakeAt, DeleteAt, TearAt
    <3>2. QED
      BY Zenon, <2>2, <2>3, <2>4, <2>6, <3>1, <1>DiskReturn
  <2>7. QED
      BY Zenon, <2>2, <2>5, <2>6

<1>DiskUntrack.
    ASSUME DiskUp, NEW t \in Threads, UntrackSandbox(t)
    PROVE  DiskOK'
  <2> USE <1>DiskUntrack
  <2>1. /\ UNCHANGED <<idOf, mustColdBoot, disk, running>>
        /\ pc[t] = "untrack"
      BY Zenon DEF UntrackSandbox, At, sandbox, identity, status, host
  <2>2. op[t] # "shutdown" /\ inc[t] # NoIncarnation
      BY Zenon, <2>1, SlotBounds DEF DiskUp
  <2>3. Return(t)
      BY Zenon, <2>2 DEF UntrackSandbox
  <2>4. PICK i \in Incarnations : i = inc[t]
      BY Zenon, <2>2, DiskTypes
  <2>5. ~Tearing(t)
      BY Zenon, <2>1 DEF Tearing, TearAt
  <2>6. /\ ~Tracked(i)'
        /\ \A j \in Incarnations : j # i => (Tracked(j)' <=> Tracked(j))
    <3>1. CASE ~Tracked(i)
      <4>1. UNCHANGED sandboxes
        BY Zenon, <2>4, <3>1 DEF UntrackSandbox, registry
      <4>2. QED
        BY Zenon, <2>1, <3>1, <4>1 DEF Tracked
    <3>2. CASE Tracked(i)
      <4>1. sandboxes' = [sandboxes EXCEPT ![idOf[i]] = NoIncarnation]
        BY Zenon, <2>4, <3>2 DEF UntrackSandbox
      <4>2. /\ sandboxes'[idOf[i]] = NoIncarnation /\ sandboxes[idOf[i]] = i
            /\ \A id \in Ids : id # idOf[i] => sandboxes'[id] = sandboxes[id]
        BY Zenon, <3>2, <4>1, DiskTypes, SlotFunctions DEF Tracked
      <4>3. NoIncarnation \notin Incarnations
        BY Zenon, NoneApart
      <4>4. \A j \in Incarnations : idOf[j] \in Ids
        BY Zenon, DiskTypes
      <4>5. QED
        BY Zenon, <2>1, <4>2, <4>3, <4>4 DEF Tracked
    <3>3. QED
      BY Zenon, <3>1, <3>2
  <2>7. QED
      BY Zenon, <2>1, <2>3, <2>4, <2>5, <2>6, <1>DiskReturn

\* An operation starts without files or a guest in its hands.
<1>DiskStart.
    ASSUME DiskUp, NEW t \in Threads, inc[t] = NoIncarnation,
           UNCHANGED <<idOf, sandboxes, mustColdBoot, running, disk, coldBoot>>,
           \A u \in Threads \ {t} :
               pc'[u] = pc[u] /\ inc'[u] = inc[u] /\ op'[u] = op[u],
           pc'[t] \in {"stop", "wake", "delete", "checkStale", "claimDeath", "idle"},
           pc'[t] = "stop" => op'[t] = "stop",
           op'[t] # "create"
    PROVE  DiskOK'
  <2> USE <1>DiskStart
  <2>1. inc[t] \notin Incarnations
      BY Zenon, NoneApart
  <2>2. \A i : Tracked(i)' <=> Tracked(i)
      BY Zenon DEF Tracked
  <2>3. Aside(t)
      BY Zenon, <2>2 DEF Aside, Left
  <2>4. /\ pc'[t] \in StopAt => op'[t] = "stop"
        /\ pc'[t] \notin PinnedAt /\ pc'[t] # "unpin" /\ pc'[t] # "startGuest"
      BY Zenon DEF StopAt, PinnedAt
  <2>5. DiskThread(t)'
      BY Zenon, <2>4 DEF DiskThread
  <2>6. QED
      BY Zenon, <2>1, <2>3, <2>5, <1>AsideKeeps

<1>DiskBegin.
    ASSUME DiskUp, NEW t \in Threads,
           \/ \E id \in Ids, kind \in {"stop", "wake", "delete"} :
                 BeginTransition(t, id, kind)
           \/ \E x \in exits : RecordGuestDeath(t, x)
    PROVE  DiskOK'
  <2> USE <1>DiskBegin
  <2>1. /\ UNCHANGED <<idOf, sandboxes, mustColdBoot, running, disk, coldBoot>>
        /\ pc[t] = "idle"
        /\ \/ \E kind \in {"stop", "wake", "delete"} : \E i :
                 /\ pc' = [pc EXCEPT ![t] = kind]
                 /\ op' = [op EXCEPT ![t] = kind]
                 /\ inc' = [inc EXCEPT ![t] = i]
           \/ /\ pc' = [pc EXCEPT ![t] = "claimDeath"]
              /\ op' = [op EXCEPT ![t] = "crash"]
              /\ UNCHANGED inc
           \/ UNCHANGED <<pc, op, inc>>
      BY Zenon DEF BeginTransition, RecordGuestDeath, At, Goto, registry, sandbox,
         identity, status, host
  <2>2. OpAt(t)
      BY Zenon, DiskTypes
  <2>3. inc[t] = NoIncarnation
      BY Zenon, <2>1, <2>2 DEF OpAt
  <2>4. op[t] # "create"
      BY Zenon, <2>1, <2>2 DEF OpAt, CreateAt, DeleteAt, ActivateAt
  <2>5. /\ \A u \in Threads \ {t} :
              pc'[u] = pc[u] /\ inc'[u] = inc[u] /\ op'[u] = op[u]
        /\ pc'[t] \in {"stop", "wake", "delete", "checkStale", "claimDeath", "idle"}
        /\ pc'[t] = "stop" => op'[t] = "stop"
        /\ op'[t] # "create"
    <3>1. CASE UNCHANGED <<pc, op, inc>>
      BY Zenon, <2>1, <2>4, <3>1
    <3>2. CASE /\ pc' = [pc EXCEPT ![t] = "claimDeath"]
               /\ op' = [op EXCEPT ![t] = "crash"]
               /\ UNCHANGED inc
      BY Zenon, <3>2, DiskTypes
    <3>3. CASE \E kind \in {"stop", "wake", "delete"} : \E i :
                   /\ pc' = [pc EXCEPT ![t] = kind]
                   /\ op' = [op EXCEPT ![t] = kind]
                   /\ inc' = [inc EXCEPT ![t] = i]
      BY Zenon, <3>3, DiskTypes
    <3>4. QED
      BY Zenon, <2>1, <3>1, <3>2, <3>3
  <2>6. QED
      BY Zenon, <2>1, <2>3, <2>5, <1>DiskStart

<1>DiskClaimDeath.
    ASSUME DiskUp, NEW t \in Threads, ClaimDeath(t)
    PROVE  DiskOK'
  <2> USE <1>DiskClaimDeath
  <2>1. /\ UNCHANGED <<idOf, sandboxes, mustColdBoot, running, disk>>
        /\ pc[t] = "claimDeath"
        /\ \/ Return(t)
           \/ /\ \E i : inc' = [inc EXCEPT ![t] = i]
              /\ pc' = [pc EXCEPT ![t] = "checkStale"]
              /\ UNCHANGED <<op, coldBoot>>
      BY Zenon DEF ClaimDeath, At, Goto, registry, identity, host
  <2>2. OpAt(t)
      BY Zenon, DiskTypes
  <2>3. inc[t] = NoIncarnation /\ op[t] # "create"
      BY Zenon, <2>1, <2>2 DEF OpAt, CreateAt, DeleteAt, ActivateAt
  <2>4. CASE Return(t)
    <3>1. inc[t] \notin Incarnations
      BY Zenon, <2>3, NoneApart
    <3>2. \A i : Tracked(i)' <=> Tracked(i)
      BY Zenon, <2>1 DEF Tracked
    <3>3. QED
      BY Zenon, <2>1, <2>4, <3>1, <3>2, <1>DiskReturn
  <2>5. CASE /\ \E i : inc' = [inc EXCEPT ![t] = i]
             /\ pc' = [pc EXCEPT ![t] = "checkStale"]
             /\ UNCHANGED <<op, coldBoot>>
    <3>1. /\ \A u \in Threads \ {t} :
                pc'[u] = pc[u] /\ inc'[u] = inc[u] /\ op'[u] = op[u]
          /\ pc'[t] = "checkStale" /\ op'[t] # "create"
      BY Zenon, <2>3, <2>5, DiskTypes
    <3>2. /\ pc'[t] \in {"stop", "wake", "delete", "checkStale", "claimDeath", "idle"}
          /\ pc'[t] # "stop"
      BY Zenon, <3>1
    <3>3. QED
      BY Zenon, <2>1, <2>3, <2>5, <3>1, <3>2, <1>DiskStart
  <2>6. QED
      BY Zenon, <2>1, <2>4, <2>5

\* A new sandbox may find the data dir of a failed delete: it is being made.
<1>DiskReserveSandbox.
    ASSUME DiskUp, NEW t \in Threads, NEW name \in Ids, NEW block \in BOOLEAN,
           ReserveSandbox(t, name, block)
    PROVE  DiskOK'
  <2> USE <1>DiskReserveSandbox
  <2>1. /\ UNCHANGED <<running, mustColdBoot, disk, coldBoot>>
        /\ sandboxes[name] = NoIncarnation /\ pc[t] = "idle"
        /\ made < MaxIncarnations
        /\ pc' = [pc EXCEPT ![t] = "cloneAssets"]
        /\ op' = [op EXCEPT ![t] = "create"]
        /\ inc' = [inc EXCEPT ![t] = made + 1]
        /\ sandboxes' = [sandboxes EXCEPT ![name] = made + 1]
        /\ idOf' = [idOf EXCEPT ![made + 1] = name]
      BY Zenon DEF ReserveSandbox, At, Goto, host
  <2>2. SlotUp /\ UnmadeOK /\ OpAt(t)
      BY Zenon, DiskTypes DEF SlotUp, SlotsOK
  <2>3. made + 1 \in Incarnations
      BY Zenon, <2>1, <2>2, SlotFunctions, MadeOrder
  <2>4. PICK i \in Incarnations : i = made + 1
      BY Zenon, <2>3
  <2>5. /\ i > made /\ i # NoIncarnation
        /\ inc[t] \notin Incarnations
        /\ \A id \in Ids : sandboxes[id] # i
    <3>1. inc[t] = NoIncarnation
      BY Zenon, <2>1, <2>2 DEF OpAt
      <3>2. i > made /\ ~(i <= made)
        BY Zenon, <2>2, <2>4, MapBounds, MadeOrder
      <3>3. QED
        BY Zenon, <2>2, <3>1, <3>2, MapBounds, NoneApart
  <2>6. /\ pc'[t] = "cloneAssets" /\ op'[t] = "create" /\ inc'[t] = i
        /\ \A u \in Threads \ {t} :
              pc'[u] = pc[u] /\ op'[u] = op[u] /\ inc'[u] = inc[u]
        /\ sandboxes'[name] = i
        /\ \A id \in Ids \ {name} : sandboxes'[id] = sandboxes[id]
        /\ idOf'[i] = name
        /\ \A j \in Incarnations \ {i} : idOf'[j] = idOf[j] /\ idOf[j] \in Ids
      BY Zenon, <2>1, <2>2, <2>4, SlotFunctions
  <2>7. Tracked(i)' /\ Making(t)' /\ ~running'[i]
    <3>1. "cloneAssets" \in MakeAt
      BY Zenon DEF MakeAt
    <3>2. QED
      BY Zenon, <2>1, <2>2, <2>5, <2>6, <3>1 DEF Tracked, Making, UnmadeOK
  <2>8. PinOK(i)' /\ RunOK(i)'
      BY Zenon, <2>6, <2>7 DEF PinOK, RunOK
  <2>9. ASSUME NEW j \in Incarnations, j # i
        PROVE  Left(j)
    <3>1. idOf'[j] = idOf[j] /\ idOf[j] \in Ids
      BY Zenon, <2>6, <2>9
    <3>2. j # NoIncarnation
      BY Zenon, NoneApart
    <3>3. sandboxes'[idOf[j]] = j <=> sandboxes[idOf[j]] = j
      <4>1. CASE idOf[j] = name
        <5>1. sandboxes'[idOf[j]] = i /\ sandboxes[idOf[j]] = NoIncarnation
          BY Zenon, <2>1, <2>6, <4>1
        <5>2. QED
          BY Zenon, <2>9, <3>2, <5>1
      <4>2. CASE idOf[j] # name
        BY Zenon, <2>6, <3>1, <4>2
      <4>3. QED
        BY Zenon, <4>1, <4>2
    <3>4. Tracked(j)' <=> Tracked(j)
      BY Zenon, <3>1, <3>3 DEF Tracked
    <3>5. QED
      BY Zenon, <2>1, <3>1, <3>4 DEF Left
  <2>10. Aside(t)
      BY Zenon, <2>1, <2>5, <2>6, <2>8, <2>9 DEF Aside
  <2>11. DiskThread(t)'
    <3>1. /\ pc'[t] \notin StopAt /\ pc'[t] \notin PinnedAt
          /\ pc'[t] # "unpin" /\ pc'[t] # "startGuest"
      BY Zenon, <2>6 DEF StopAt, PinnedAt
    <3>2. QED
      BY Zenon, <2>5, <2>6, <2>7, <3>1 DEF DiskThread
  <2>12. QED
      BY Zenon, <2>5, <2>10, <2>11, <1>AsideKeeps

\* The host and the wirer do not touch the disk or the pins.
<1>DiskStill.
    ASSUME DiskUp, UNCHANGED vars \/ Wirer \/ \E g \in guests : GuestDies(g)
    PROVE  DiskOK'
  <2> USE <1>DiskStill
  <2>1. /\ UNCHANGED <<pc, op, inc, coldBoot, sandboxes, idOf>>
        /\ UNCHANGED <<running, mustColdBoot, disk>>
      BY Zenon DEF GuestDies, Wirer, WirerScan, WirerBuild, WirerWait, vars,
         registry, sandbox, identity, status, locals, host
  <2>2. \A i : Tracked(i)' <=> Tracked(i)
      BY Zenon, <2>1 DEF Tracked
  <2>3. \A t : /\ GaveUp(t)' <=> GaveUp(t)
               /\ Making(t)' <=> Making(t)
               /\ Tearing(t)' <=> Tearing(t)
      BY Zenon, <2>1 DEF GaveUp, Making, Tearing
  <2>4. \A t \in Threads : DiskThread(t)'
      BY Zenon, <2>1, <2>2, <2>3, DiskTypes DEF DiskThread
  <2>5. \A i \in Incarnations : PinOK(i)'
      BY Zenon, <2>1, <2>2, <2>3, DiskTypes DEF PinOK
  <2>6. \A i \in Incarnations : RunOK(i)'
      BY Zenon, <2>1, <2>3, DiskTypes DEF RunOK
  <2>7. QED
      BY Zenon, <2>4, <2>5, <2>6 DEF DiskOK

<1>StepDisk.
    ASSUME DiskUp, NEW t \in Threads, Step(t), phase' = "up"
    PROVE  DiskOK'
  <2> USE <1>StepDisk
  <2>1. ~ShutdownNext(t)
      BY Zenon DEF ShutdownNext, At, DiskUp, SlotUp, Up, ExclusionInv, Claimed
  <2>2. CASE Activate(t)
      BY Zenon, <2>2, <1>DiskActivation, <1>DiskPinGuest, <1>DiskGuest DEF Activate
  <2>3. CASE KeepAfterFailedDelete(t)
      BY Zenon, <2>3, <1>DiskDelete, <1>DiskFinish
  <2>4. QED
      BY Zenon, <2>1, <2>2, <2>3, <1>DiskCreate, <1>DiskFinish, <1>DiskGuest, <1>DiskSettled,
         <1>DiskUnpin, <1>DiskBecomeStopped, <1>DiskTeardown, <1>DiskDelete, <1>DiskUntrack,
         <1>DiskClaimDeath
      DEF Step

<1> SUFFICES ASSUME DiskUp, [Next]_vars, phase' = "up"
             PROVE  DiskOK'
    BY Zenon
<1>1. ASSUME NEW t \in Threads, Start(t)
      PROVE  DiskOK'
  <2>1. ~Shutdown(t)
    BY Zenon DEF Shutdown
  <2>2. QED
    BY Zenon, <1>1, <2>1, <1>DiskReserveSandbox, <1>DiskBegin DEF Start
<1>2. QED
    BY Zenon, <1>1, <1>StepDisk, <1>DiskBegin, <1>DiskStill DEF Next

=============================================================================
