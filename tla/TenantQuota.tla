---------------------------- MODULE TenantQuota ----------------------------
(***************************************************************************)
(* max_sandboxes of one tenant: the check each API pod makes before a      *)
(* create reaches a runner (tenantQuota, internal/api/tenant_quota.go), as *)
(* handleCreateSandbox uses it, and the check the store makes when it      *)
(* saves the row (SandboxStore.Create), against sandbox deletes, limit     *)
(* updates and the deletion of the tenant.                                 *)
(*                                                                         *)
(* Each element of Creates is one create request with its sandbox.  A      *)
(* pod's mutex makes reserve atomic except for the read of the saved       *)
(* count, which runs with the mutex released (countUnlocked).              *)
(***************************************************************************)
EXTENDS Naturals, FiniteSets

CONSTANTS
    Creates,    \* create requests of the tenant
    Pods,       \* API pods
    PodOf,      \* the pod that serves a create
    Limits,     \* the values max_sandboxes takes; 0 is unlimited
    MaxReads,   \* reads of the saved count per reserve (maxReads, 3)
    Nil         \* no holder of the tenant's row lock

ASSUME QuotaAssumption ==
    /\ IsFiniteSet(Creates)
    /\ PodOf \in [Creates -> Pods]
    /\ Limits \subseteq Nat
    /\ MaxReads \in Nat \ {0}
    /\ Nil \notin Creates

VARIABLES
    tenant,         \* the tenant's row exists
    maxSandboxes,   \* its max_sandboxes
    limitsSeen,     \* history: every limit that was ever in force
    locker,         \* the create that holds the tenant's row lock
    rows,           \* the creates whose sandbox row is saved
    onRunner,       \* the creates whose sandbox exists on a runner
    untracked,      \* history: creates a runner may have kept without a row
    deleting,       \* the sandboxes whose delete the runner has confirmed
    inProgress, saved, reading, \* tenantCreates, per pod
    pc,             \* where each create is
    limit,          \* the limit it was checked against
    read, savedBefore, n,       \* locals of reserve
    mayBeSaved      \* what it will call release with

store == <<tenant, maxSandboxes, limitsSeen, locker, rows>>
runner == <<onRunner, untracked, deleting>>
creates == <<inProgress, saved, reading>>
locals == <<limit, read, savedBefore, n, mayBeSaved>>
vars == <<store, runner, creates, pc, locals>>

Init ==
    /\ tenant = TRUE
    /\ maxSandboxes \in Limits
    /\ limitsSeen = {maxSandboxes}
    /\ locker = Nil
    /\ rows = {} /\ onRunner = {} /\ untracked = {} /\ deleting = {}
    /\ inProgress = [p \in Pods |-> 0]
    /\ saved = [p \in Pods |-> 0]
    /\ reading = [p \in Pods |-> 0]
    /\ pc = [c \in Creates |-> "idle"]
    /\ limit = [c \in Creates |-> 0]
    /\ read = [c \in Creates |-> 0]
    /\ savedBefore = [c \in Creates |-> 0]
    /\ n = [c \in Creates |-> 0]
    /\ mayBeSaved = [c \in Creates |-> FALSE]

Goto(c, label) == pc' = [pc EXCEPT ![c] = label]

-----------------------------------------------------------------------------
(* reserve                                                                 *)

\* A create whose tenant has no limit is not counted: reserve returned at once
\* and its release does nothing.
Counted(c) == limit[c] > 0

\* The counters of a pod after a step.  forgetIfIdle drops the entry of a tenant
\* nobody uses, so that saved starts again from 0.
SetCreates(p, i, s, r) ==
    /\ inProgress' = [inProgress EXCEPT ![p] = i]
    /\ reading' = [reading EXCEPT ![p] = r]
    /\ saved' = [saved EXCEPT ![p] = IF i = 0 /\ r = 0 THEN 0 ELSE s]

\* handleCreateSandbox up to the read of the saved count: GetTenant, then the
\* head of reserve.
Reserve(c) ==
    LET p == PodOf[c] IN
    /\ pc[c] = "idle"
    /\ \/ /\ ~tenant
          /\ Goto(c, "done")
          /\ UNCHANGED <<creates, locals>>
       \/ /\ tenant
          /\ limit' = [limit EXCEPT ![c] = maxSandboxes]
          /\ IF maxSandboxes = 0
             THEN Goto(c, "place") /\ UNCHANGED <<creates, read, savedBefore>>
             ELSE /\ Goto(c, "count")
                  /\ reading' = [reading EXCEPT ![p] = @ + 1]
                  /\ read' = [read EXCEPT ![c] = 1]
                  /\ savedBefore' = [savedBefore EXCEPT ![c] = saved[p]]
                  /\ UNCHANGED <<inProgress, saved>>
          /\ UNCHANGED <<n, mayBeSaved>>
    /\ UNCHANGED <<store, runner>>

\* countUnlocked: the saved count, read with the pod's mutex released.
CountUnlocked(c) ==
    LET p == PodOf[c] IN
    /\ pc[c] = "count"
    /\ \/ /\ n' = [n EXCEPT ![c] = Cardinality(rows)]
          /\ Goto(c, "decide")
          /\ UNCHANGED creates
       \/ \* the read failed
          /\ SetCreates(p, inProgress[p], saved[p], reading[p] - 1)
          /\ Goto(c, "done")
          /\ UNCHANGED n
    /\ UNCHANGED <<store, runner, limit, read, savedBefore, mayBeSaved>>

SavedDuring(c) == saved[PodOf[c]] - savedBefore[c]

\* Mutant of BelowLimit: a create saved during the read is not counted.
BelowLimitMissingSaved(c) == n[c] + inProgress[PodOf[c]] < limit[c]

\* A create saved during the read is no longer in inProgress and may not be in
\* n: it is counted too.
BelowLimit(c) == n[c] + inProgress[PodOf[c]] + SavedDuring(c) < limit[c]

\* A full quota is final, unless creates were saved during the read and may be
\* counted twice.
LastRead(c) == SavedDuring(c) = 0 \/ read[c] = MaxReads

\* The rest of a round of reserve, with the mutex held again.
Decide(c) ==
    LET p == PodOf[c] IN
    /\ pc[c] = "decide"
    /\ \/ /\ BelowLimit(c)
          /\ SetCreates(p, inProgress[p] + 1, saved[p], reading[p] - 1)
          /\ Goto(c, "place")
          /\ UNCHANGED <<read, savedBefore>>
       \/ /\ ~BelowLimit(c) /\ LastRead(c)
          /\ SetCreates(p, inProgress[p], saved[p], reading[p] - 1)
          /\ Goto(c, "refused")
          /\ UNCHANGED <<read, savedBefore>>
       \/ /\ ~BelowLimit(c) /\ ~LastRead(c)
          /\ read' = [read EXCEPT ![c] = @ + 1]
          /\ savedBefore' = [savedBefore EXCEPT ![c] = saved[p]]
          /\ Goto(c, "count")
          /\ UNCHANGED creates
    /\ UNCHANGED <<store, runner, limit, n, mayBeSaved>>

-----------------------------------------------------------------------------
(* The rest of the create: a runner, then the row                          *)

\* Mutant of Place: a create that no runner took keeps its slot.
PlaceKeepsSlot(c) ==
    /\ pc[c] = "place"
    /\ \/ Goto(c, "done") /\ UNCHANGED runner
       \/ /\ onRunner' = onRunner \cup {c}
          /\ Goto(c, "save")
          /\ UNCHANGED <<untracked, deleting>>
    /\ UNCHANGED <<store, creates, locals>>

\* placeSandbox.  No runner took the create, or one answered with an error and
\* may have kept the sandbox, or it was created: with the options asked for, or
\* with others and so to be undone.
Place(c) ==
    /\ pc[c] = "place"
    /\ \/ Goto(c, "release") /\ UNCHANGED runner
       \/ /\ onRunner' = onRunner \cup {c}
          /\ untracked' = untracked \cup {c}
          /\ Goto(c, "release")
       \/ /\ onRunner' = onRunner \cup {c}
          /\ \E next \in {"save", "rollback"} : Goto(c, next)
          /\ UNCHANGED untracked
    /\ UNCHANGED <<store, deleting, creates, locals>>

\* Mutant of LockTenant: the tenant is read without FOR UPDATE.
LockTenantUnlocked(c) ==
    /\ pc[c] = "save"
    /\ Goto(c, IF tenant THEN "tally" ELSE "rollback")
    /\ UNCHANGED <<store, runner, creates, locals>>

\* SandboxStore.Create up to the row lock on the tenant (lockTenantForUpdate;
\* BEGIN IMMEDIATE in SQLite).  The limit comes with the lock: an update of it
\* waits for the transaction.
LockTenant(c) ==
    /\ pc[c] = "save"
    /\ locker = Nil
    /\ IF tenant THEN locker' = c /\ Goto(c, "tally")
                 ELSE UNCHANGED locker /\ Goto(c, "rollback") \* ErrTenantNotFound
    /\ UNCHANGED <<tenant, maxSandboxes, limitsSeen, rows, runner, creates,
                   locals>>

\* What a statement of Create sees: the rows committed before it started.
QuotaFull == maxSandboxes > 0 /\ Cardinality(rows) >= maxSandboxes

\* Mutants of CountSandboxes: a refused row whose sandbox stays on the runner,
\* and one whose transaction is never ended.
CountWithoutRollback(c) ==
    /\ pc[c] = "tally"
    /\ \/ /\ ~QuotaFull
          /\ Goto(c, "insert")
          /\ UNCHANGED locker
       \/ /\ QuotaFull
          /\ Goto(c, "release")
          /\ locker' = Nil
    /\ UNCHANGED <<tenant, maxSandboxes, limitsSeen, rows, runner, creates,
                   locals>>

CountHoldsLock(c) ==
    /\ pc[c] = "tally"
    /\ \/ ~QuotaFull /\ Goto(c, "insert")
       \/ Goto(c, "rollback")
    /\ UNCHANGED <<store, runner, creates, locals>>

\* The count, a statement of its own: there is room, or ErrTenantQuotaExceeded,
\* or it fails.  A return ends the transaction and with it the lock.
CountSandboxes(c) ==
    /\ pc[c] = "tally"
    /\ \/ /\ ~QuotaFull
          /\ Goto(c, "insert")
          /\ UNCHANGED <<locker, mayBeSaved>>
       \/ /\ QuotaFull
          /\ Goto(c, "rollback")
          /\ locker' = Nil
          /\ UNCHANGED mayBeSaved
       \/ /\ Goto(c, "rollback")
          /\ locker' = Nil
          /\ mayBeSaved' = [mayBeSaved EXCEPT ![c] = TRUE]
    /\ UNCHANGED <<tenant, maxSandboxes, limitsSeen, rows, runner, creates,
                   limit, read, savedBefore, n>>

\* The insert and the commit, which makes the row visible and ends the lock; or
\* an error, after which the row may have been saved or not.
InsertSandbox(c) ==
    /\ pc[c] = "insert"
    /\ locker' = Nil
    /\ mayBeSaved' = [mayBeSaved EXCEPT ![c] = TRUE]
    /\ \/ /\ rows' = rows \cup {c}
          /\ \E next \in {"release", "rollback"} : Goto(c, next)
       \/ /\ Goto(c, "rollback")
          /\ UNCHANGED rows
    /\ UNCHANGED <<tenant, maxSandboxes, limitsSeen, runner, creates, limit,
                   read, savedBefore, n>>

\* rollbackRunnerCreate: the runner deletes the sandbox, or the call fails and
\* the sandbox is untracked.
RollbackRunnerCreate(c) ==
    /\ pc[c] = "rollback"
    /\ \/ onRunner' = onRunner \ {c} /\ UNCHANGED untracked
       \/ untracked' = untracked \cup {c} /\ UNCHANGED onRunner
    /\ Goto(c, "release")
    /\ UNCHANGED <<store, deleting, creates, locals>>

\* releaseQuota, which only works once: after the save, after the rollback, or
\* deferred to the return of a create that was not saved.
Release(c) ==
    LET p == PodOf[c] IN
    /\ pc[c] = "release"
    /\ IF Counted(c)
       THEN SetCreates(p, inProgress[p] - 1,
                       IF mayBeSaved[c] THEN saved[p] + 1 ELSE saved[p],
                       reading[p])
       ELSE UNCHANGED creates
    /\ Goto(c, "done")
    /\ UNCHANGED <<store, runner, locals>>

-----------------------------------------------------------------------------
(* What else changes the tenant's rows                                     *)

\* deleteSandboxRecord and the sweep's delete, under the sandbox's lock: the call
\* to the runner.  After an error the row stays, also when only the reply was
\* lost.
DeleteOnRunner(c) ==
    /\ c \in rows \ deleting
    /\ onRunner' = onRunner \ {c}
    /\ \/ deleting' = deleting \cup {c}
       \/ UNCHANGED deleting
    /\ UNCHANGED <<store, untracked, creates, pc, locals>>

\* ... and then SandboxStore.Delete, which may fail.
DeleteRow(c) ==
    /\ c \in deleting
    /\ deleting' = deleting \ {c}
    /\ \/ rows' = rows \ {c}
       \/ UNCHANGED rows
    /\ UNCHANGED <<tenant, maxSandboxes, limitsSeen, locker, onRunner, untracked,
                   creates, pc, locals>>

\* reapSandboxIfRunnerGone, without a lock: the runner does not know the sandbox.
ReapGone(c) ==
    /\ c \in rows \ onRunner
    /\ rows' = rows \ {c}
    /\ UNCHANGED <<tenant, maxSandboxes, limitsSeen, locker, runner, creates, pc,
                   locals>>

\* reapOrphanSandbox: the runner has been gone for the grace period, and what it
\* still holds is given up.
ReapOrphan(c) ==
    /\ c \in rows
    /\ rows' = rows \ {c}
    /\ untracked' = untracked \cup {c}
    /\ UNCHANGED <<tenant, maxSandboxes, limitsSeen, locker, onRunner, deleting,
                   creates, pc, locals>>

UpdateTenantLimits(l) ==
    /\ tenant
    /\ locker = Nil
    /\ maxSandboxes' = l
    /\ limitsSeen' = limitsSeen \cup {l}
    /\ UNCHANGED <<tenant, locker, rows, runner, creates, pc, locals>>

\* Mutant of DeleteTenant: the emptiness check takes no lock.
DeleteTenantUnlocked ==
    /\ tenant
    /\ rows = {}
    /\ tenant' = FALSE
    /\ UNCHANGED <<maxSandboxes, limitsSeen, locker, rows, runner, creates, pc,
                   locals>>

\* DeleteTenant refuses a tenant that has sandboxes, under the same lock.
DeleteTenant ==
    /\ tenant
    /\ locker = Nil
    /\ rows = {}
    /\ tenant' = FALSE
    /\ UNCHANGED <<maxSandboxes, limitsSeen, locker, rows, runner, creates, pc,
                   locals>>

Create(c) ==
    \/ Reserve(c) \/ CountUnlocked(c) \/ Decide(c) \/ Place(c)
    \/ LockTenant(c) \/ CountSandboxes(c) \/ InsertSandbox(c)
    \/ RollbackRunnerCreate(c) \/ Release(c)

Remove(c) == DeleteOnRunner(c) \/ DeleteRow(c) \/ ReapGone(c) \/ ReapOrphan(c)

Next ==
    \/ \E c \in Creates : Create(c) \/ Remove(c)
    \/ \E l \in Limits : UpdateTenantLimits(l)
    \/ DeleteTenant

Spec == Init /\ [][Next]_vars

\* Every request runs to its end: the pod's mutex and the row lock are held for
\* bounded work only.
FairSpec == Spec /\ \A c \in Creates : WF_vars(Create(c))

-----------------------------------------------------------------------------
(* Properties                                                              *)

Labels == {"idle", "count", "decide", "refused", "place", "save", "tally",
           "insert", "rollback", "release", "done"}

\* The types of the store's rows, of tenantCreates and of reserve's locals.
TypeOK ==
    /\ tenant \in BOOLEAN
    /\ maxSandboxes \in Limits
    /\ limitsSeen \subseteq Limits
    /\ locker \in Creates \cup {Nil}
    /\ rows \subseteq Creates
    /\ onRunner \subseteq Creates
    /\ untracked \subseteq Creates
    /\ deleting \subseteq Creates
    /\ inProgress \in [Pods -> Nat]
    /\ saved \in [Pods -> Nat]
    /\ reading \in [Pods -> Nat]
    /\ pc \in [Creates -> Labels]
    /\ limit \in [Creates -> Limits \cup {0}]
    /\ read \in [Creates -> 0 .. MaxReads]
    /\ savedBefore \in [Creates -> Nat]
    /\ n \in [Creates -> Nat]
    /\ mayBeSaved \in [Creates -> BOOLEAN]

\* The creates that hold a slot of the quota on pod p.
Reserved(p) ==
    {c \in Creates : /\ PodOf[c] = p /\ Counted(c)
                     /\ pc[c] \in {"place", "save", "tally", "insert",
                                   "rollback", "release"}}

\* The creates of pod p that are inside reserve.
Reading(p) == {c \in Creates : PodOf[c] = p /\ pc[c] \in {"count", "decide"}}

Within(used) == \E l \in limitsSeen : l = 0 \/ Cardinality(used) <= l

\* However many pods create at once, a tenant never has more sandboxes saved
\* than the largest limit it was ever given: between the count of one Create and
\* its insert, the row lock keeps out the insert of any other and every update
\* of the limit.
StoreQuota == Within(rows)

\* On a single pod the check before the runner already holds: the saved
\* sandboxes together with the creates that passed the check and are not saved
\* yet never exceed the limit, so a burst cannot pass the check together
\* (tenantQuota), whatever is saved, deleted or refused while reserve reads the
\* count without the mutex.
OnePodQuota ==
    \A p \in Pods : (\A c \in Creates : PodOf[c] = p)
                        => Within(rows \cup Reserved(p))

\* A slot of the quota is given back exactly once on every path of the handler,
\* and an entry is forgotten only when no create uses it: the counters are what
\* the creates of the pod are doing.
EntryAccounted ==
    \A p \in Pods :
        /\ inProgress[p] = Cardinality(Reserved(p))
        /\ reading[p] = Cardinality(Reading(p))
        /\ inProgress[p] + reading[p] = 0 => saved[p] = 0

\* No sandbox row belongs to a tenant that is gone: a create either is saved
\* before DeleteTenant looks, or finds no tenant.
NoRowWithoutTenant == rows # {} => tenant

\* No path of a create or of a delete loses a sandbox that a runner holds, though
\* each works on the runner and on the row in steps of their own: the sandbox has
\* a row, or its create is still at work on it, or it was given up in one of
\* three ways (untracked): the runner kept it and answered the create with an
\* error, the compensating delete failed, or the runner itself was gone when the
\* row was reaped.
RunnerSandboxTracked ==
    \A c \in onRunner : \/ c \in rows \cup untracked
                        \/ pc[c] \in {"save", "tally", "insert", "rollback"}

\* No create waits forever, for the row lock or for another read of the count.
CreatesFinish ==
    \A c \in Creates : pc[c] # "idle" ~> pc[c] \in {"refused", "done"}
=============================================================================
