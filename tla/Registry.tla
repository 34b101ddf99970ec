------------------------------ MODULE Registry ------------------------------
(***************************************************************************)
(* How runners register with the API gateway: the runner process            *)
(* (runner/app), its cordon (runner/cordon), its registration client        *)
(* (runner/register), the handler the gateway runs for every registration   *)
(* stream (api/grpc) and the registry they feed (api/registry), in memory   *)
(* or in Postgres.                                                          *)
(*                                                                         *)
(* A runner that reconnects has two streams at the gateway for a while: the *)
(* handler of the old one has not noticed yet.  Both write the same entry.  *)
(*                                                                         *)
(* Time is kept as ages, in units in which a live client and the handler of *)
(* its stream react: see Elapse.                                            *)
(***************************************************************************)
EXTENDS Integers, FiniteSets, Sequences, Functions

CONSTANTS
    Runners,
    Streams,            \* registration streams; an id is reused once both ends are done
    Sandboxes,          \* what a runner may hold
    Backends,           \* a subset of {"memory", "postgres"}
    Capacity,           \* capacity_total; 0 is unlimited
    Interval,           \* of the heartbeat ticker
    HeartbeatGrace,
    OrphanReapBuffer,
    MaxInFlight,        \* bound: heartbeats in one stream
    MaxCordons,         \* bound: cordons set or lifted
    MaxFaults,          \* bound: broken streams, crashes, restarts, lost replies
    None

Heartbeat == [healthy : BOOLEAN, cordoned : BOOLEAN, used : 0 .. Cardinality(Sandboxes)]

ASSUME RegistryAssumption ==
    /\ IsFiniteSet(Sandboxes)
    /\ Backends \subseteq {"memory", "postgres"}
    /\ Capacity \in Nat /\ MaxInFlight \in Nat \ {0} /\ MaxFaults \in Nat /\ MaxCordons \in Nat
    /\ Interval \in Nat \ {0} /\ HeartbeatGrace \in Nat
    /\ OrphanReapBuffer \in Nat /\ (MaxFaults + 1) * Interval < OrphanReapBuffer
    /\ None \notin Runners \cup Streams \cup Nat \cup Heartbeat

VARIABLES
    backend,
    \* runner process
    proc,       \* proc[r]: "down", "starting", "serving", "draining"
    ready,      \* Runtime.Ready passes
    cordoned,   \* State.cordoned
    changed,    \* a token is in State.changed
    sandboxes,  \* sandboxes[r]: what takes a slot
    \* registration client
    client,     \* client[r]: "off", "connect", "compose", "send", "select"
    stream,     \* stream[r]: the stream the client holds
    hb,         \* hb[r]: the heartbeat it composed
    awaitReady, \* readyCh is not nil
    tick,       \* time since the ticker fired
    \* streams and their handlers
    handler,    \* handler[s]: "free", "open", "gone" (with the API process that ran it)
    owner,      \* owner[s]: the runner that opened s
    committed,  \* committedRunnerID is set
    applied,    \* history: a heartbeat of s was written to the registry
    queue,      \* heartbeats on the way
    \* registry
    reg,        \* reg[r]: the last heartbeat applied, None if there is no entry
    seen,       \* age of LastSeen
    removed,    \* age of removedAt, None if not set
    cordons, faults

processVars == <<proc, ready, cordoned, changed, cordons>>
clientVars == <<client, stream, hb, awaitReady, tick>>
streamVars == <<handler, owner, committed, applied, queue>>
registryVars == <<reg, seen, removed>>
registrationVars == <<processVars, clientVars, streamVars, registryVars, faults>>

\* Ages above it are not told apart.
MaxAge == IF HeartbeatGrace < OrphanReapBuffer THEN OrphanReapBuffer ELSE HeartbeatGrace + 1

Older(age) == IF age < MaxAge THEN age + 1 ELSE age

Set(f, x, v) == [f EXCEPT ![x] = v]

Used(r) == Cardinality(sandboxes[r])

\* Every runner serves, and its first heartbeat has been applied.
RegistryInit ==
    /\ backend \in Backends
    /\ proc = [r \in Runners |-> "serving"]
    /\ ready = [r \in Runners |-> TRUE]
    /\ cordoned = [r \in Runners |-> FALSE]
    /\ changed = [r \in Runners |-> FALSE]
    /\ sandboxes = [r \in Runners |-> {}]
    /\ client = [r \in Runners |-> "select"]
    /\ stream \in Injection(Runners, Streams)
    /\ hb = [r \in Runners |-> None]
    /\ awaitReady = [r \in Runners |-> FALSE]
    /\ tick = [r \in Runners |-> 0]
    /\ handler = [s \in Streams |-> IF \E r \in Runners : stream[r] = s THEN "open" ELSE "free"]
    /\ owner \in [Streams -> Runners \cup {None}]
    /\ \A s \in Streams, r \in Runners : owner[s] = r <=> stream[r] = s
    /\ committed = [s \in Streams |-> \E r \in Runners : stream[r] = s]
    /\ applied = committed
    /\ queue = [s \in Streams |-> <<>>]
    /\ reg = [r \in Runners |-> [healthy |-> TRUE, cordoned |-> FALSE, used |-> 0]]
    /\ seen = [r \in Runners |-> 0]
    /\ removed = [r \in Runners |-> None]
    /\ cordons = 0 /\ faults = 0

Fault == faults < MaxFaults /\ faults' = faults + 1

------------------------------------------------------------------------------
\* The registry.

Upsert(r, h) ==
    /\ reg' = Set(reg, r, h)
    /\ seen' = Set(seen, r, 0)
    /\ removed' = Set(removed, r, None)

\* A no-op on Postgres, where a runner that left goes stale.
Remove(r) ==
    IF backend = "memory"
    THEN /\ reg' = Set(reg, r, None)
         /\ seen' = Set(seen, r, 0)
         /\ removed' = Set(removed, r, 0)
    ELSE UNCHANGED registryVars

Fresh(r) == reg[r] # None /\ seen[r] <= HeartbeatGrace

\* eligibleLocked; the WHERE clause of the Postgres pick.
Eligible(r) ==
    /\ Fresh(r)
    /\ reg[r].healthy /\ ~reg[r].cordoned
    /\ Capacity > 0 => reg[r].used < Capacity

\* What the orphan reap asks.  The memory registry knows nothing of a runner that
\* has not registered since the API process started; Postgres keeps every row.
GoneLongEnough(r) ==
    IF backend = "memory"
    THEN reg[r] = None /\ removed[r] # None /\ removed[r] >= OrphanReapBuffer
    ELSE reg[r] # None => seen[r] >= OrphanReapBuffer

------------------------------------------------------------------------------
\* The runner process.

\* Main and the first half of Run: the registration client starts before the
\* control server listens.
Start(r) ==
    /\ proc[r] = "down"
    /\ proc' = Set(proc, r, "starting")
    /\ client' = Set(client, r, "connect")
    /\ UNCHANGED <<ready, cordoned, changed, cordons, sandboxes, stream, hb, awaitReady, tick,
                   streamVars, registryVars, faults>>

Listen(r) ==
    /\ proc[r] = "starting"
    /\ proc' = Set(proc, r, "serving")
    /\ UNCHANGED <<ready, cordoned, changed, cordons, sandboxes, clientVars, streamVars, registryVars, faults>>

\* Runtime.Prepare, which runs once the control server listens: the admission of
\* the Firecracker runtime, or the image pull of the Docker runtime, has passed.
Prepare(r) ==
    /\ proc[r] = "serving" /\ ~ready[r]
    /\ ready' = Set(ready, r, TRUE)
    /\ UNCHANGED <<proc, cordoned, changed, cordons, sandboxes, clientVars, streamVars, registryVars, faults>>

ClientStops(r) ==
    /\ client' = Set(client, r, "off")
    /\ stream' = Set(stream, r, None)
    /\ hb' = Set(hb, r, None)
    /\ awaitReady' = Set(awaitReady, r, FALSE)
    /\ tick' = Set(tick, r, 0)

\* SIGTERM: the registration client returns at once, the servers drain.
Terminate(r) ==
    /\ proc[r] = "serving"
    /\ Fault
    /\ proc' = Set(proc, r, "draining")
    /\ ClientStops(r)
    /\ UNCHANGED <<ready, cordoned, changed, cordons, sandboxes, streamVars, registryVars>>

\* The process is gone.  Cordon and readiness live in its memory, and the next
\* process removes the sandboxes it finds.
ProcessEnds(r) ==
    /\ proc' = Set(proc, r, "down")
    /\ ready' = Set(ready, r, FALSE)
    /\ cordoned' = Set(cordoned, r, FALSE)
    /\ changed' = Set(changed, r, FALSE)
    /\ sandboxes' = Set(sandboxes, r, {})
    /\ ClientStops(r) /\ UNCHANGED cordons

SetQuietly(r, v) == cordoned' = Set(cordoned, r, v) /\ changed' = Set(changed, r, changed[r] \/ v)  \* Mutant.

\* State.Set: changes that arrive while one is pending collapse into it.
SetCordon(r, v) ==
    /\ cordoned' = Set(cordoned, r, v)
    /\ changed' = Set(changed, r, changed[r] \/ cordoned[r] # v)

\* PUT and DELETE /admin/runners/{id}/cordon.
HandleSetRunnerCordon(r, v) ==
    /\ Fresh(r)
    /\ proc[r] \in {"serving", "draining"}
    /\ cordoned[r] # v /\ cordons < MaxCordons
    /\ cordons' = cordons + 1
    /\ SetCordon(r, v)
    /\ UNCHANGED <<proc, ready, sandboxes, clientVars, streamVars, registryVars, faults>>

------------------------------------------------------------------------------
\* The registration client.

Live(r) == client[r] \in {"compose", "send", "select"}

\* connectOnce up to the first heartbeat.
Connect(r) ==
    /\ client[r] = "connect"
    /\ \E s \in Streams :
          /\ handler[s] = "free"
          /\ handler' = Set(handler, s, "open")
          /\ owner' = Set(owner, s, r)
          /\ stream' = Set(stream, r, s)
    /\ client' = Set(client, r, "compose")
    /\ awaitReady' = Set(awaitReady, r, TRUE)
    /\ tick' = Set(tick, r, 0)
    /\ UNCHANGED <<processVars, sandboxes, hb, committed, applied, queue, registryVars, faults>>

\* send: reads capacity, readiness and cordon ...
Compose(r) ==
    /\ client[r] = "compose"
    /\ hb' = Set(hb, r, [healthy |-> ready[r], cordoned |-> cordoned[r], used |-> Used(r)])
    /\ client' = Set(client, r, "send")
    /\ UNCHANGED <<processVars, sandboxes, stream, awaitReady, tick, streamVars, registryVars, faults>>

\* ... and sends them.
Send(r) ==
    LET s == stream[r] IN
    /\ client[r] = "send"
    /\ handler[s] = "open" /\ Len(queue[s]) < MaxInFlight
    /\ queue' = Set(queue, s, Append(queue[s], hb[r]))
    /\ hb' = Set(hb, r, None)
    /\ client' = Set(client, r, "select")
    /\ UNCHANGED <<processVars, sandboxes, stream, awaitReady, tick, handler, owner, committed,
                   applied, registryVars, faults>>

NeverDue(r) == FALSE  \* Mutant.

TickDue(r) == client[r] = "select" /\ tick[r] >= Interval

Ticked(r) ==
    /\ TickDue(r)
    /\ client' = Set(client, r, "compose")
    /\ tick' = Set(tick, r, 0)
    /\ UNCHANGED <<processVars, sandboxes, stream, hb, awaitReady, streamVars, registryVars, faults>>

CordonChanged(r) ==
    /\ client[r] = "select" /\ changed[r]
    /\ changed' = Set(changed, r, FALSE)
    /\ client' = Set(client, r, "compose")
    /\ UNCHANGED <<proc, ready, cordoned, cordons, sandboxes, stream, hb, awaitReady, tick, streamVars, registryVars,
                   faults>>

BecameReady(r) ==
    /\ client[r] = "select" /\ awaitReady[r] /\ ready[r]
    /\ awaitReady' = Set(awaitReady, r, FALSE)
    /\ client' = Set(client, r, "compose")
    /\ UNCHANGED <<processVars, sandboxes, stream, hb, tick, streamVars, registryVars, faults>>

Disconnects(r) ==
    /\ client' = Set(client, r, "connect")
    /\ stream' = Set(stream, r, None)
    /\ hb' = Set(hb, r, None)
    /\ awaitReady' = Set(awaitReady, r, FALSE)
    /\ tick' = Set(tick, r, 0)

\* The connection breaks.  The client sees it first here; seen by the handler first it
\* leaves the same state once both know.
StreamBreaks(r) ==
    /\ Live(r) /\ handler[stream[r]] = "open"
    /\ Fault
    /\ Disconnects(r)
    /\ UNCHANGED <<processVars, sandboxes, streamVars, registryVars>>

ResetStream(s) ==
    /\ handler' = Set(handler, s, "free")
    /\ owner' = Set(owner, s, None)
    /\ committed' = Set(committed, s, FALSE)
    /\ applied' = Set(applied, s, FALSE)
    /\ queue' = Set(queue, s, <<>>)

\* The client learns that the API process it was connected to is gone.
NoticesRestart(r) ==
    /\ Live(r) /\ handler[stream[r]] = "gone"
    /\ Disconnects(r)
    /\ ResetStream(stream[r])
    /\ UNCHANGED <<processVars, sandboxes, registryVars, faults>>

------------------------------------------------------------------------------
\* The handlers of the streams, Connect of runner_server.go.

\* Postgres ignores the error of a write that failed.
Receive(s) ==
    /\ handler[s] = "open" /\ queue[s] # <<>>
    /\ committed' = Set(committed, s, TRUE)
    /\ \/ Upsert(owner[s], Head(queue[s])) /\ applied' = Set(applied, s, TRUE) /\ UNCHANGED faults
       \/ backend = "postgres" /\ Fault /\ UNCHANGED <<registryVars, applied>>
    /\ queue' = Set(queue, s, Tail(queue[s]))
    /\ UNCHANGED <<processVars, sandboxes, clientVars, handler, owner>>

Abandoned(s) == handler[s] = "open" /\ stream[owner[s]] # s

RemoveIfDrained(s) == IF committed[s] /\ queue[s] = <<>> THEN Remove(owner[s]) ELSE UNCHANGED registryVars  \* Mutant.

\* The deferred removal: whatever ended the stream, and whoever wrote the entry last.
RemoveOnReturn(s) == IF committed[s] THEN Remove(owner[s]) ELSE UNCHANGED registryVars

\* Recv fails; heartbeats behind the failure are lost.
HandlerReturns(s) ==
    /\ Abandoned(s)
    /\ RemoveOnReturn(s)
    /\ ResetStream(s)
    /\ UNCHANGED <<processVars, sandboxes, clientVars, faults>>

\* The API process restarts.  Only Postgres remembers.
ApiRestart ==
    /\ Fault
    /\ handler' = [s \in Streams |-> IF handler[s] = "open" /\ ~Abandoned(s) THEN "gone"
                                     ELSE IF handler[s] = "open" THEN "free" ELSE handler[s]]
    /\ owner' = [s \in Streams |-> IF Abandoned(s) THEN None ELSE owner[s]]
    /\ committed' = [s \in Streams |-> FALSE]
    /\ applied' = [s \in Streams |-> FALSE]
    /\ queue' = [s \in Streams |-> <<>>]
    /\ IF backend = "memory"
       THEN /\ reg' = [r \in Runners |-> None]
            /\ seen' = [r \in Runners |-> 0]
            /\ removed' = [r \in Runners |-> None]
       ELSE UNCHANGED registryVars
    /\ UNCHANGED <<processVars, sandboxes, clientVars>>

\* A client at rest, whose heartbeats have been applied.
Settled(r) ==
    /\ client[r] = "select" /\ ~TickDue(r) /\ ~changed[r] /\ ~(awaitReady[r] /\ ready[r])
    /\ handler[stream[r]] = "open" => queue[stream[r]] = <<>>

\* Time passes.  Live clients and the handlers of their streams keep up with it;
\* a handler whose client is gone may take any time to notice.
Elapse ==
    /\ \A r \in Runners : Live(r) => Settled(r)
    /\ tick' = [r \in Runners |-> IF Live(r) THEN tick[r] + 1 ELSE 0]
    /\ seen' = [r \in Runners |-> IF reg[r] = None THEN 0 ELSE Older(seen[r])]
    /\ removed' = [r \in Runners |-> IF removed[r] = None THEN None ELSE Older(removed[r])]
    /\ UNCHANGED <<processVars, sandboxes, client, stream, hb, awaitReady, streamVars, reg, faults>>

RegistrationNext ==
    \/ \E r \in Runners :
          \/ Start(r) \/ Listen(r) \/ Prepare(r) \/ Terminate(r)
          \/ \E v \in BOOLEAN : HandleSetRunnerCordon(r, v)
          \/ Connect(r) \/ Compose(r) \/ Send(r)
          \/ Ticked(r) \/ CordonChanged(r) \/ BecameReady(r)
          \/ StreamBreaks(r) \/ NoticesRestart(r)
    \/ \E s \in Streams : Receive(s) \/ HandlerReturns(s)
    \/ ApiRestart
    \/ Elapse

------------------------------------------------------------------------------

RegistryTypeOK ==
    /\ backend \in Backends
    /\ proc \in [Runners -> {"down", "starting", "serving", "draining"}]
    /\ ready \in [Runners -> BOOLEAN] /\ cordoned \in [Runners -> BOOLEAN]
    /\ changed \in [Runners -> BOOLEAN] /\ sandboxes \in [Runners -> SUBSET Sandboxes]
    /\ client \in [Runners -> {"off", "connect", "compose", "send", "select"}]
    /\ stream \in [Runners -> Streams \cup {None}]
    /\ hb \in [Runners -> Heartbeat \cup {None}]
    /\ awaitReady \in [Runners -> BOOLEAN] /\ tick \in [Runners -> Nat]
    /\ handler \in [Streams -> {"free", "open", "gone"}]
    /\ owner \in [Streams -> Runners \cup {None}]
    /\ committed \in [Streams -> BOOLEAN] /\ applied \in [Streams -> BOOLEAN]
    /\ queue \in [Streams -> Seq(Heartbeat)]
    /\ reg \in [Runners -> Heartbeat \cup {None}]
    /\ seen \in [Runners -> 0 .. MaxAge]
    /\ removed \in [Runners -> 0 .. MaxAge \cup {None}]
    /\ cordons \in 0 .. MaxCordons /\ faults \in 0 .. MaxFaults

OpenHandlers(r) == {s \in Streams : handler[s] = "open" /\ owner[s] = r}

\* An entry of the memory registry has a stream behind it: a runner that left is
\* not listed, however its streams overlapped and ended (runner_server.go, the
\* deferred Remove).
NoGhostRunner ==
    backend = "memory" =>
        \A r \in Runners : reg[r] # None => \E s \in OpenHandlers(r) : committed[s]

\* Once only the stream a settled runner holds is left, the memory registry has
\* that runner's cordon or no entry for it: neither a heartbeat composed before the
\* change nor one of an older stream stays behind (State.Set, connectOnce, the
\* deferred Remove).
CordonKnown ==
    \A r \in Runners :
        (backend = "memory" /\ Settled(r) /\ OpenHandlers(r) = {stream[r]} /\ reg[r] # None)
            => reg[r].cordoned = cordoned[r]

\* The orphan reap never takes a runner for gone whose stream is up and has brought
\* a heartbeat into the registry, although the end of an older stream removes its
\* entry and writes to Postgres fail (GoneLongEnough, the ticker of connectOnce).
\* Until then it may: the first write of a runner that was away longer than the
\* buffer can fail.
LiveRunnerNotOrphaned ==
    \A r \in Runners :
        (Live(r) /\ handler[stream[r]] = "open" /\ applied[stream[r]]) => ~GoneLongEnough(r)
=============================================================================
