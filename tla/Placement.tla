------------------------------ MODULE Placement ------------------------------
(***************************************************************************)
(* Creates placed on runners (api/placement.go): the pick from the registry *)
(* (memory.go, postgres.go), the control call (runnerctl) and the runner's  *)
(* handler of it (runner/grpc_control.go), on top of the registration of    *)
(* module Registry.  The registry a pick reads is stale: runners fill up,   *)
(* are cordoned, stop and crash behind it.                                  *)
(***************************************************************************)
EXTENDS Registry

CONSTANTS
    Others,                   \* runners whose registration is not followed: their
                              \* entries and their load may be anything
    Runtime,                  \* "docker" or "firecracker"
    CreatePlacementAttempts

ASSUME PlacementAssumption ==
    /\ Runtime \in {"docker", "firecracker"}
    /\ CreatePlacementAttempts \in Nat \ {0}
    /\ Others \cap Runners = {}
    /\ None \notin Others \cup {"placed", "no capacity", "failed"}

VARIABLES
    pc,         \* pc[c]: "idle", "pick", "commit", "call", "done"
    target,     \* target[c]: the runner picked
    refusedBy,  \* refusedBy[c]
    result,     \* result[c]: None, "placed", "no capacity", "failed"
    call,       \* call[<<c, r>>]: how far runner r is with the create of c
    made        \* made[c]: the runners that began to create something for c

placementVars == <<pc, target, refusedBy, result, call, made>>
vars == <<backend, sandboxes, registrationVars, placementVars>>

Creates == Sandboxes
Fleet == Runners \cup Others

Init ==
    /\ RegistryInit
    /\ pc = [c \in Creates |-> "idle"]
    /\ target = [c \in Creates |-> None]
    /\ refusedBy = [c \in Creates |-> {}]
    /\ result = [c \in Creates |-> None]
    /\ call = [d \in Creates \X Fleet |-> "none"]
    /\ made = [c \in Creates |-> {}]

Registration == UNCHANGED <<backend, placementVars>>
Placing == UNCHANGED <<backend, processVars, clientVars, streamVars, registryVars>>

------------------------------------------------------------------------------
\* placeSandbox.

BeginCreate(c) ==
    /\ pc[c] = "idle"
    /\ pc' = Set(pc, c, "pick")
    /\ UNCHANGED <<sandboxes, target, refusedBy, result, call, made, faults>> /\ Placing

Finish(c, outcome) ==
    /\ pc' = Set(pc, c, "done")
    /\ target' = Set(target, c, None)
    /\ refusedBy' = Set(refusedBy, c, {})
    /\ result' = Set(result, c, outcome)

\* Postgres picks skip the rows that the transaction of another pick, or a heartbeat,
\* holds at the moment (FOR UPDATE SKIP LOCKED).
MayBeLocked == IF backend = "postgres" THEN SUBSET Runners ELSE {{}}

Candidates(c, locked) == {r \in Runners : Eligible(r)} \ (refusedBy[c] \cup locked)

\* PickLowestUsed; ties go to any of the lowest.
Pick(c) ==
    /\ pc[c] = "pick"
    /\ \E locked \in MayBeLocked :
       \E r \in Candidates(c, locked) \cup (Others \ refusedBy[c]) :
          /\ r \in Runners => \A q \in Candidates(c, locked) : reg[r].used <= reg[q].used
          /\ target' = Set(target, c, r)
          /\ IF backend = "postgres"
             THEN pc' = Set(pc, c, "commit") /\ UNCHANGED call
             ELSE pc' = Set(pc, c, "call") /\ call' = Set(call, <<c, r>>, "sent")
    /\ UNCHANGED <<sandboxes, refusedBy, result, made, faults>> /\ Placing

CommitPick(c) ==
    /\ pc[c] = "commit"
    /\ \/ /\ pc' = Set(pc, c, "call")
          /\ call' = Set(call, <<c, target[c]>>, "sent")
          /\ UNCHANGED <<target, refusedBy, result, faults>>
       \/ Fault /\ Finish(c, "failed") /\ UNCHANGED call
    /\ UNCHANGED <<sandboxes, made>> /\ Placing

\* ErrNoRunners, with or without refusals before it.
NoRunners(c) ==
    /\ pc[c] = "pick"
    /\ \E locked \in MayBeLocked : Candidates(c, locked) = {}
    /\ Finish(c, "no capacity")
    /\ UNCHANGED <<sandboxes, call, made, faults>> /\ Placing

Unanswered(c, r) == call[<<c, r>>] \in {"sent", "create", "building"}

RefusalOrUnavailable(answer) == answer \in {"refused", "unavailable"}  \* Mutant.

IsCapacityRefusal(answer) == answer = "refused"

\* The answer of the runner.  After a refusal the next runner is tried, unless the
\* attempts or the budget are used up or the client has gone.
Answered(c) ==
    LET r == target[c] IN
    /\ pc[c] = "call" /\ ~Unanswered(c, r)
    /\ IF IsCapacityRefusal(call[<<c, r>>])
       THEN \/ /\ Cardinality(refusedBy[c]) + 1 < CreatePlacementAttempts
               /\ pc' = Set(pc, c, "pick")
               /\ target' = Set(target, c, None)
               /\ refusedBy' = Set(refusedBy, c, refusedBy[c] \cup {r})
               /\ UNCHANGED result
            \/ Finish(c, "no capacity")
       ELSE Finish(c, IF call[<<c, r>>] = "ok" THEN "placed" ELSE "failed")
    /\ call' = Set(call, <<c, r>>, "none")
    /\ UNCHANGED <<sandboxes, made, faults>> /\ Placing

\* runnerCreateBudget runs out, or the connection breaks; the runner goes on.
CallLost(c) ==
    /\ pc[c] = "call" /\ Unanswered(c, target[c])
    /\ Fault
    /\ Finish(c, "failed")
    /\ UNCHANGED <<sandboxes, call, made>> /\ Placing

------------------------------------------------------------------------------
\* The runner's side.

\* Nobody waits for the answer of a call that was given up.
Reply(c, r, answer) ==
    call' = Set(call, <<c, r>>, IF target[c] = r \/ answer \in {"create", "building"} THEN answer ELSE "none")

\* CreateSandbox of the control server up to the runtime call.
ControlCreate(c, r) ==
    /\ call[<<c, r>>] = "sent"
    /\ Reply(c, r, IF proc[r] \notin {"serving", "draining"} THEN "unavailable"
                   ELSE IF cordoned[r] THEN "refused"
                   ELSE IF ~ready[r] THEN "unavailable" ELSE "create")
    /\ UNCHANGED <<sandboxes, pc, target, refusedBy, result, made, faults>> /\ Placing

\* ErrCapacityExhausted, before anything is created: no free slot, or too little
\* disk.  Docker runners have no such check.
RefuseCreate(c, r) ==
    /\ call[<<c, r>>] = "create" /\ Runtime = "firecracker"
    /\ Reply(c, r, "refused")
    /\ UNCHANGED <<sandboxes, pc, target, refusedBy, result, made, faults>> /\ Placing

\* A slot is reserved, or the container created.
ReserveSandbox(c, r) ==
    /\ call[<<c, r>>] = "create"
    /\ (Runtime = "firecracker" /\ Capacity > 0) => Used(r) < Capacity
    /\ sandboxes' = Set(sandboxes, r, sandboxes[r] \cup {c})
    /\ made' = Set(made, c, made[c] \cup {r})
    /\ Reply(c, r, "building")
    /\ UNCHANGED <<pc, target, refusedBy, result, faults>> /\ Placing

FinishSandbox(c, r) ==
    /\ call[<<c, r>>] = "building"
    /\ \/ Reply(c, r, "ok") /\ UNCHANGED <<sandboxes, faults>>
       \/ /\ Fault /\ Reply(c, r, "error")
          /\ sandboxes' = Set(sandboxes, r, sandboxes[r] \ {c})
    /\ UNCHANGED <<pc, target, refusedBy, result, made>> /\ Placing

\* The same handler on another runner: it refuses, or creates and answers, or
\* answers that it is not available before or after it began to create.
OtherCreate(c, o) ==
    /\ call[<<c, o>>] = "sent"
    /\ \E answer \in {"refused", "unavailable", "ok", "error"}, began \in SUBSET {o} :
          /\ answer = "refused" => began = {}
          /\ answer = "ok" => began = {o}
          /\ Reply(c, o, answer)
          /\ made' = Set(made, c, made[c] \cup began)
    /\ UNCHANGED <<sandboxes, pc, target, refusedBy, result, faults>> /\ Placing

\* Explicit and idle deletes.
DeleteSandbox(c, r) ==
    /\ c \in sandboxes[r] /\ call[<<c, r>>] # "building"
    /\ sandboxes' = Set(sandboxes, r, sandboxes[r] \ {c})
    /\ UNCHANGED <<pc, target, refusedBy, result, call, made, faults>> /\ Placing

\* Calls under way when the process ends come back as Unavailable.
CallsCut(r) ==
    call' = [d \in Creates \X Fleet |->
                IF d[2] = r /\ Unanswered(d[1], r) THEN "unavailable" ELSE call[d]]

\* The end of Run: the control server drained, or was stopped by force; then
\* rt.Shutdown removes the sandboxes.
ShutDown(r) ==
    /\ proc[r] = "draining"
    /\ ProcessEnds(r) /\ CallsCut(r)
    /\ UNCHANGED <<backend, streamVars, registryVars, pc, target, refusedBy, result, made, faults>>

Crash(r) ==
    /\ proc[r] # "down"
    /\ Fault
    /\ ProcessEnds(r) /\ CallsCut(r)
    /\ UNCHANGED <<backend, streamVars, registryVars, pc, target, refusedBy, result, made>>

Next ==
    \/ RegistrationNext /\ Registration
    \/ \E c \in Creates :
          \/ BeginCreate(c) \/ Pick(c) \/ CommitPick(c) \/ NoRunners(c)
          \/ Answered(c) \/ CallLost(c)
          \/ \E r \in Runners :
                \/ ControlCreate(c, r) \/ RefuseCreate(c, r) \/ ReserveSandbox(c, r)
                \/ FinishSandbox(c, r) \/ DeleteSandbox(c, r)
          \/ \E o \in Others : OtherCreate(c, o)
    \/ \E r \in Runners : ShutDown(r) \/ Crash(r)

Spec == Init /\ [][Next]_vars

------------------------------------------------------------------------------

TypeOK ==
    /\ RegistryTypeOK
    /\ pc \in [Creates -> {"idle", "pick", "commit", "call", "done"}]
    /\ target \in [Creates -> Fleet \cup {None}]
    /\ refusedBy \in [Creates -> SUBSET Fleet]
    /\ result \in [Creates -> {None, "placed", "no capacity", "failed"}]
    /\ call \in [Creates \X Fleet -> {"none", "sent", "create", "building", "refused",
                                        "unavailable", "ok", "error"}]
    /\ made \in [Creates -> SUBSET Fleet]

\* A create leaves a sandbox on at most one runner, whatever its answers were, and
\* on none when the client is told it may repeat it: only an answer that means
\* nothing was created moves it to another runner (placeSandbox, toGRPCError).
CreatedOnce ==
    \A c \in Creates :
        /\ Cardinality(made[c]) <= 1
        /\ result[c] = "no capacity" => made[c] = {}
=============================================================================
