# Formal models of the n8n sandbox service

TLA+ models of the parts of this repository whose correctness depends on the
order in which things happen, model-checked with TLC on small instances and, for
the properties that matter most, proved with TLAPS for every instance.

## The system

| part | state | operations | what makes it hard | module |
| --- | --- | --- | --- | --- |
| Firecracker runtime (`runner/runtime/firecracker.ee`) | sandboxes, slots, namespaces, microVMs, snapshots | create, stop, wake, delete, guest death, shutdown, pre-wiring | five kinds of goroutines on one sandbox; host calls that fail half way | `FcRuntime` |
| Firecracker admission (`admission.go`, `bootparams.go`, `create-golden-snapshot.sh`) | the golden snapshot's files, the configured paths, canaries | build, verify, pin, probe | builds cut off between two files; changes by the operator | `Admission` |
| Docker runtime (`runner/runtime/docker`) | containers, crash marks, expected stops, network rules | create, stop, wake, delete, die events | events race the calls that cause them | `DockerRuntime` |
| Daemon (`internal/daemon`) and exec proxy (`runner/exec_proxy.go`) | event log of an execution, followers | append, follow, delete, collect, resume | trimming behind a slow follower; dropped streams | `Executions`, `ExecStream` |
| Registration (`runner/register`, `runner/cordon`, `runner/app`, `api/grpc`, `api/registry`) | runner processes, streams, registry entries | connect, heartbeat, cordon, remove, age | a reconnect overlaps the end of the old stream; ignored write errors | `Registry` |
| Placement (`api/placement.go`, `runnerctl`, `runner/grpc_control.go`) | creates and the runners they call | pick, call, refuse, retry | the registry is stale; replies are lost | `Placement` |
| API gateway, sandboxes (`api/handlers.go`, `ttl.go`, `store/`) | the row of a sandbox: status, last activity, runner | create, proxied request, delete, idle sweep, orphan reap | requests take no lock; the sweep acts on rows it listed earlier; runner and store are two steps | `SandboxLifecycle` |
| API gateway, tenants (`tenant_quota.go`, `handlers_tenants.go`, `store/`) | limit, saved sandboxes, creates in progress per pod | reserve, save, release, update limits, delete tenant | the count is read with the mutex released; several pods | `TenantQuota` |
| API gateway, keys (`apikey_cache.go`, `middleware_auth.go`) | cached key hashes with expiry and generation | lookup, revoke, invalidate | a lookup that read the store before a revocation | `ApiKeys` |

A client calls the gateway, which checks its key. The gateway places a new sandbox
on a registered runner over gRPC, within the tenant's quota, and keeps a row for it.
Every other request is proxied to that runner, which wakes the sandbox if needed and
proxies to the daemon inside. The sweeper stops and deletes idle sandboxes through
the same gRPC calls.

`PROJECT.json` lists every part, the hazards with their source lines, and for
each definition the lines it models.

## Modules

| module | what it is |
| --- | --- |
| `FcRuntime`, `Admission`, `DockerRuntime`, `Executions`, `Registry`, `SandboxLifecycle`, `TenantQuota`, `ApiKeys` | one component each |
| `Placement` | creates on top of `Registry`, which it extends: the composition of gateway, registry and runners |
| `ExecStream` | the abstract specification of one exec call; `Executions` implements it |
| `FcInvariant` | the inductive invariant of `FcRuntime`, part by part |
| `FcGuestProofs`, `FcRuntimeProofs`, `AdmissionProofs`, `ExecutionsProofs`, `PlacementProofs`, `LifecycleProofs`, `TenantQuotaProofs`, `ApiKeysProofs` | theorems and their proofs |
| `MC*` | instances for TLC: symmetry sets and constant definitions |

Each specification has mutants beside the definitions they replace, marked
"Mutant": plausible bugs that a named property must catch.

### FcRuntime

A thread is a goroutine that runs one operation. `pc` holds the step it takes
next, and one step is the work between two points where the code releases `r.mu`
or makes a host call. An *incarnation* is one `sandboxState`: the same id can be
created again, and the code compares pointers to tell them apart. `sandboxes`,
`slots`, `wireCh` are the fields of `Runtime`; `slot` ... `mustColdBoot` those of
`sandboxState`; `guests`, `exits`, `ports`, `jails`, `disk` are the host. `disk`
only says whether the snapshot describes the rootfs (`match`) or the guest has
written since (`stale`).

Host calls fail at most `MaxFaults` times, guests die at most `MaxCrashes` times.
Some failures take effect and are reported as failures all the same (`PauseVM`,
`StartGuest`, `CreateSnapshot`).

Assumptions about the environment:
- SIGKILL ends a process; its exit callback runs later.
- A caller that waits for a claim is a thread that has not begun yet. Its
  time-out changes nothing and is left out.
- `Shutdown` runs after the control server stopped (`runner/app/app.go`), so no
  create starts then. Operations already begun, or waiting for the claim, go on.
- The runner waits for requests in progress for a bounded time only
  (`runner/app/app.go`), so a wake can still begin while `Shutdown` runs.

`lateWakes` is the history of those wakes. A stop that Shutdown
overtook gives back a claim that is no longer its own, and a wake that waited for it
goes ahead: its microVM is the one `ShutdownLeavesNoGuest` allows to outlive the
runner (it does: without the exception the property is violated).

`StopAndKill` is one step for `proxy.Stop`, `process.Kill` and `cleanupHost`. No
other thread can tell them apart: `probeDaemon` fails as soon as the port or the
process is gone, and only `prepareJail`, which waits for nothing, concerns the jail.

Two sentences of the runtime's README are stronger than the code. Operations
exclude each other except that a create whose cleanup failed has given up its
claim when it untracks the sandbox (`GaveUp`, the exception in `OperationsExclusive`). And a delete
that failed gives the claim back, so "deleting" is not final.

### Admission

`pc` follows `admitOnce` and, inside it, the build script. A file is the number of
the build it came from, `Torn`, or absent; a configured path is a `Link` to the
generated file or a file of its own. `HostCrash` loses what was not synced.
Assumptions: the script dies with the runner's service, and only the runner runs
it; the operator changes things while the runner is down, and only to sets that
are consistent; a set without a create script is the operator's own.

### DockerRuntime

One sandbox id and its containers one after the other. Docker restarts a
container that dies, on an address of its choice, and puts an event on `pipe`.
The four operations run concurrently, as in the code, which serializes only wakes.
`owed` is history: a crash nobody was told of. So are `stray`, marks that no death
will use up, `lost`, containers whose last crash went unnoticed, and `loose`,
containers that a failed cleanup left running without their rules.

`CrashesNoticed` says that a crash goes unnoticed in these ways only, and that the
next one is noticed again: its event was lost with the stream, arrived while a stop
was in progress, met a stray mark, or arrived while a recovery was about to clear the
sandbox's mark. The run `DockerSilentCrash` shows one of them with no failing call and
the stream up, against the comment on `watchGuestDeaths`.

`Admitted` is what the first read of `DaemonURL`, of the mark, lets pass. The
container is inspected later, and a process that Docker or a wake started in between
is handed out as well; the model has one instant for both reads and the properties say
nothing of that window. `RulesOutliveContainer` is about teardowns: an `ApplyPolicy`
that fails halfway removes the rules of a running container, and is exempt.

### Executions and ExecStream

An incarnation is one `Execution` under an exec id. The command, its pipe readers,
the daemon's handler of a stream and the exec proxy are actors of their own. The
buffer keeps `events` from `minSeq` on; `log` is the history of all of them.
`GetBody` is what a GET without `follow` writes after its preflight passed: the
snapshot, or, if the buffer was trimmed in between, a 200 with the error line alone.
`docs/API.md` promises 410; the handler's comment accepts this window.
`ExecStream` is what a caller may rely on: a gap-free prefix of the events, then an
end. The refinement maps its output to the log of the execution the caller is
attached to, and its status to the proxy's step.

### Registry and Placement

`Registry` has the runner process, its registration client, the handler of each
stream at the gateway and the registry, in memory or in Postgres. A runner that
reconnects has two streams for a while, and both write its entry. Time is kept as
ages, and passes only when live clients have sent what is due
(`(MaxFaults + 1) * Interval < OrphanReapBuffer` is the assumption behind
`LiveRunnerNotOrphaned`). `applied` is history: a heartbeat of the stream was written to
the registry. The handler counts a stream as registered before its first write, whose
error the Postgres registry ignores; a runner that was away for longer than the buffer
and whose first write fails is taken for gone until the next heartbeat. Hence the
property speaks of streams that have brought one heartbeat in. A stream that the gateway notices broken before the client
does ends in the same states as the other order, and is not a separate action.

`Placement` adds the creates: pick, commit of the Postgres transaction, control
call, the runner's handler, and the retry after a refusal. `Others` are runners
whose registry entries and load may be anything. `made` is history: the runners
that began to create something for the create.

### SandboxLifecycle

One sandbox id. Time is kept as ages: `idle` since the row's last activity,
`age[p]` since handler `p` read its clock. So `LastActiveAt <= now - d` reads
`idle - age[p] >= d`. One clock serves all pods. `vm[r]` is what runner `r` holds
under the id: `broken` is what a failed Firecracker delete leaves. Taking the
sandbox lock and reading the row is one step, since a handler does nothing
before it.

A request may take any time: `MaxLatency` is where its age stops counting. What the
code guarantees is `IdleDeleteSparesRequests`: a request still on its way when the
sweep decides to delete passed the fence at least `SafetyBuffer` earlier. Slower
requests can be cut off, and `config.go` calls the buffer a race guard. A create that finds its id past the
window deletes it without the buffer; that is the caller's own id and
`IdleDeleteSparesRequests` is about the sweep only.

Behaviours of the code that the model has and no property forbids:
- A sweep can write "stopped" after a request wrote "running". Later stop phases
  then pass the running sandbox over; the delete phase still removes it.
- The reap after a "gone" answer takes no lock and can remove the row of a sandbox
  re-created under the id. `RowOutlivesSandbox` excepts it.
- On Firecracker a second delete is told "not found" while the first, still in
  progress, may fail: the row goes and the sandbox stays. `RowOutlivesSandbox` is
  therefore checked and proved for Docker runners.
- A DELETE of an execution that a stopped sandbox no longer knows counts as activity.
- With the stop window off, no sandbox gets the status "stopped", which is what the
  delete phase lists: only ephemeral rows are removed then.

### TenantQuota

`pc` follows a create from `reserve` through the placement to the insert and the
release. `saved`, `inProgress`, `reading` are `tenantCreates` of each pod; the
unlocked read of the count is a step of its own. `locker` is the tenant's row
lock (Postgres) or the immediate transaction (SQLite); the store's count and its insert
are separate statements under it. A delete works on the runner first and on the row
after it, and a reap removes a row whose sandbox is gone.

### ApiKeys

A request is one key check; the one that leads a singleflight group reads the store
for all that joined. `gen` is the cache's generation, which an invalidation
raises. `answered` and `late` are history: when a replica had answered a
revocation, and which checks began after that. `MaxRead < TTL` is an assumption: the
requests of a flight take its answer however late it comes, so a read of the store
slower than the TTL would let a revoked key pass for longer than that, for its leader
and for those who joined, cached or not.

## Runs

| run | checks | result |
| --- | --- | --- |
| `FcLifecycle` | types; snapshots restored only onto their rootfs; exclusion; no orphan microVM; kills are not deaths; served guests answer; slots accounted; no microVM outlives the runner but a late wake's | holds |
| `FcLiveness` | operations finish, deaths are handled, free slots are rebuilt | holds |
| `Admission` | the restored files are of one build; canaries free their slots; every runner is admitted unless the operator is needed | holds |
| `Docker` | crashes are noticed, but for the listed ways; network rules outlive their container | holds |
| `DockerSilentCrash` | no crash is silent while the event stream is up, as `watchGuestDeaths` says | violated |
| `Executions` | exact history after trimming; the terminal event is last; a stream moves to another execution only when its own was removed; complete bodies; the stream refines `ExecStream` | holds |
| `Placement` | no ghost runner; the cordon is known; live runners are not orphaned; a create leaves one sandbox at most | holds |
| `Lifecycle` | ephemeral sandboxes are never stopped; the sweep spares requests; rows outlive sandboxes; idle sandboxes are reclaimed | holds |
| `LifecycleFailedDelete` | a failed delete is retried, as the runtime's README says | violated |
| `QuotaOnePod` | the quota before the runner on one pod; counters accounted; creates finish | holds |
| `QuotaTwoPods` | the quota in the store; no row without its tenant; no untracked sandbox | holds |
| `ApiKeys` | revoked keys stop working, here at once and elsewhere within the TTL; active keys work; the cache is bounded | holds |

The two violated properties restate lines of the repository, which the findings in
`PROJECT.json` quote.
- `LifecycleFailedDelete`: after a client's DELETE failed on a Firecracker runner the
  sandbox is neither running nor stopped, its row stays "running", and the sweep only
  ever tries to stop it.
- `DockerSilentCrash`: a stop inspects a running container, which then crashes; the
  event marks the sandbox. The stop records its mark and calls off Docker's restart, so
  that no death will use the mark up. A wake recovers the sandbox, and its next crash
  within `expectedStopTTL` is taken for the stop's.

**Bounds.**
- `FcLifecycle`: two threads and two incarnations of one id give every pair of
  operations, and a delete followed by a re-creation that takes the only slot; Shutdown
  is a third. One slot is enough for slots to be contended, since incarnations of one id
  compete for it. One fault and one guest death fall between any two steps.
  `ShutdownBound` keeps the behaviours with a Shutdown to the first incarnation, three
  operations and no fault.
- `FcLiveness`: two threads, three operations and one guest death, with one incarnation
  and neither faults nor Shutdown. With one slot there is no burst of several releases;
  that `wireCh` may drop a signal shows in one release during a pass of the wirer.
- `Admission`: three edits and two faults, so that a cut-off build follows an edit
  and is followed by another. `MaxBuilds` exceeds what they allow and is never reached.
- `Docker`: two containers in a row and two addresses; two crashes, so that one can
  hit a recovery; two failing calls or breaks of the stream, one stop or delete.
- `Executions`: a buffer of three bytes, outputs of two and other events of one. With
  one output the exit event is the one that trims; trims by output, and buffers that
  never trim with output in them, are covered by the theorems only. One stream, two
  executions under one id, one dropped connection and one resume.
- `Placement`: one followed runner with two streams, so that an old one overlaps a
  new one, a second runner of unknown state for the retries, one fault. A buffer of
  three ticks is the smallest the assumption allows.
- `Lifecycle`: two clients and the sweep, three calls, one fault. Windows
  and a buffer of one second put requests on both sides of the fence, of the cutoff and
  of the buffer. Windows that differ are in `LifecycleFailedDelete` and in the theorems;
  Firecracker runners only in `LifecycleFailedDelete`.
- `Quota*`: two creates on one pod exceed limits of none and one, three on two pods
  limits of one and two; in `QuotaOnePod` two reads let a count be repeated.
- `ApiKeys`: two replicas, three keys for a cache of two entries, two checks, one
  administrator, and a clock that passes the TTL.

`Lifecycle` and `Placement` check deadlock. The other instances end when their bounded
operations, faults or clock are used up, and do not.

**Fairness.** A goroutine that can take a step does: weak fairness of each handler,
of the exit callback, the wirer, the sweep, the admission loop and its script, the
daemon's handlers and the exec proxy. A command is killed at its time limit and its
pipes are closed after their grace; a runner finishes a delete it began, and time
passes. No fairness on clients, on guests dying, on faults, on the operator, or on a
lost runner's return. Clients stop after `MaxOps` calls; that is what "idle" means in
`IdleSandboxesReclaimed`. `AdmittedUnlessOperator` needs no more than the loop going on,
since faults and edits are bounded.

## Proofs

All theorems hold for every value of the constants that satisfies the named `ASSUME`s of
the specifications.

| theorem | says | rests on |
| --- | --- | --- |
| `FcRuntimeProofs!TypeCorrect` | `TypeOK` | one lemma per action |
| `FcRuntimeProofs!ExclusionHolds` | `OperationsExclusive` | an operation in progress holds its incarnation's claim, of the kind its step needs, and a claim has one holder |
| `FcRuntimeProofs!NoOrphanGuestHolds`, `KillIsNotDeathHolds` | `NoOrphanGuest`, and `KillIsNotDeath` outside Shutdown | the claim gives an operation its incarnation alone; between a teardown's bump of the generation and the next `startJailer` the incarnation has no handle, and its generation no microVM; a stopped incarnation that is not waking has none either; no two microVMs carry one generation |
| `FcRuntimeProofs!SlotsAccountedHolds` | `SlotsAccounted` | only an operation on a tracked incarnation gives a slot back; a failed create, which untracks its incarnation without a claim, leaves nothing that runs, is stopped or has a microVM, so that whoever has the incarnation too deletes it or finds nothing to do; a stopped incarnation has a slot only while it wakes up |
| `FcRuntimeProofs!RestoreMatchesDiskHolds` | `RestoreMatchesDisk`, outside Shutdown | a tracked sandbox whose rootfs has moved on from its snapshot is pinned (`mustColdBoot`), or a create is still making its files; a running sandbox is pinned until a stop that has taken its snapshot tears the microVM down; no other operation works on the files or the guest at the same time |
| `AdmissionProofs!SnapshotSetConsistentHolds`, `CanariesFreeTheirSlotsHolds` | `SnapshotSetConsistent`, `CanariesFreeTheirSlots` | `boot.json` is written last and describes the files beside it, in the output directory and in copies made from it; steps after a check keep what it checked; one canary at a time |
| `PlacementProofs!CreatedOnceHolds` | `CreatedOnce` | a create that is free to pick has touched no runner; one that waits has touched only its target; an answer that is a refusal left nothing |
| `PlacementProofs!NoGhostRunnerHolds` | `NoGhostRunner` | an open stream has an owner; the property itself is then inductive |
| `PlacementProofs!CordonKnownHolds` | `CordonKnown` | while no change waits to be sent, the newest heartbeat of the runner's stream has its cordon: the one composed, the last one on its way, or, once no other stream can write, the entry |
| `PlacementProofs!LiveRunnerNotOrphanedHolds` | `LiveRunnerNotOrphaned` | the row of a runner that has written once is at most one interval old for each write that failed since, and one more; an entry that the end of an older stream removed is away no longer than the client's ticker has run |
| `ExecutionsProofs!HistoryExactHolds`, `TerminalIsLastHolds`, `TakeoverAfterRemovalHolds`, `BodyIsCompleteHolds` | the four properties, for any buffer size, any amount of output and any number of streams | the log is numbered from 0 without a gap, and the buffer is its end from `minSeq` on, however much is trimmed; what a caller has seen and what is on the wire follow each other in the log it is attached to; every resume answers a connection that broke |
| `ExecutionsProofs!StreamSafetyHolds` | the safety part of `ExecStream`: `Spec => Stream!Safety` | the same invariant, and one step lemma per step of `ExecStream`: an append is `Emit`, a resume onto another execution `Replace`, a forwarded line `Deliver` |
| `LifecycleProofs!EphemeralNeverStoppedHolds`, `IdleDeleteSparesRequestsHolds`, `RowOutlivesSandboxHolds` | the three properties; the last for Docker runners | a request that passed the fence less than the buffer ago bounds `idle`; a row inserted since the sweep's list is younger than the sweep; what a locked handler knows of row and runner stays true under the lock |
| `TenantQuotaProofs!StoreQuotaHolds`, `OnePodQuotaHolds`, `EntryAccountedHolds` | the quota, in the store and on a pod, and its counters | the counters are the sizes of sets of creates; what a read can have missed is bounded by the creates saved since it began |
| `TenantQuotaProofs!NoRowWithoutTenantHolds` | `NoRowWithoutTenant` | the create between its count and its insert holds the row lock, found the tenant under it, and the room it counted is still there |
| `TenantQuotaProofs!RunnerSandboxTrackedHolds` | `RunnerSandboxTracked` | a row is saved late in its create; a sandbox whose delete the runner confirmed stays off the runner |
| `ApiKeysProofs!RevokedHereHolds`, `RevokedWithinTTLHolds`, `ActiveKeysWorkHolds` | the three properties, for any number of replicas, keys, requests and tenants | a replica that invalidated a dead key holds no tenant for it, and a read that found one carries an older generation; a read that found a tenant began before the key died, and its entry expires a TTL after it began; "no such key" is only read of a dead key, which stays dead |
| `ApiKeysProofs!CacheBoundedHolds` | `CacheBounded` | storing a key adds one entry at most, after `makeRoom` |

None of these properties is inductive alone. Each inductive invariant was checked with TLC
before it was proved. A proof has one lemma or named step per action, or per class of
actions with the same effect on what the invariant is about, and steps that touch none of
it are dealt with together. The invariant of `FcRuntime` has four layers, each proved
inductive on top of the ones before it: the types and the claims, the microVMs, the slots,
and the snapshots with their pins. `FcGuestProofs` has the steps of the last three,
`FcRuntimeProofs` the rest and the theorems.

Only model-checked: liveness, that is, the runs' temporal properties other than
`RevokedWithinTTL`, `IdleDeleteSparesRequests`, `RowOutlivesSandbox` and the safety part
of `StreamContract`, since fairness is out of the prover's reach; the properties of `DockerRuntime`; and of
`FcRuntime` `ServedGuestAnswers` and what concerns Shutdown.
`MaxOutput` and the other bounds of `Executions` are constants of the theorems:
they hold for every bound, which stands in for sequences of any length.

## Not modelled

- The sweep's worker pool (`ttl.go`): `SandboxLifecycle` follows one sandbox through a
  sweep, which is what the store and the runners see.
- Request limits (`limits/`): counters under one mutex, each acquire paired with a
  deferred release.
- The TLS reloader (`grpctls/`): every handshake stamps and loads the pair under one
  mutex, and a mismatched pair leaves the previous one in use.
- Kernel pin, rootfs, snapshot and boot files, and the Firecracker API client: host I/O
  of single steps, which `FcRuntime` has with their failures.
- The iptables rules themselves; `DockerRuntime` has the address they name.
- Files and routes of the daemon, configuration parsing, metrics, logging and tracing,
  generated gRPC code, the SDK and the deployment files: they hold no state that
  operations race on, or none at all.
