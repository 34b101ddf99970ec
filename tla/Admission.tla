------------------------------ MODULE Admission ------------------------------
(***************************************************************************)
(* Admission of a Firecracker runner (firecracker.ee/admission.go,          *)
(* bootparams.go) with the script that builds its golden snapshot           *)
(* (scripts/firecracker.ee/create-golden-snapshot.sh).                      *)
(*                                                                         *)
(* The snapshot is three files that must come from one build: snapshot_mem, *)
(* snapshot_state and boot.json.  The runner restores from two configured   *)
(* paths, which the deployment may have pointed elsewhere.  The build can   *)
(* be cut off anywhere: the script fails, the runner's service dies (and    *)
(* the script with it), the host loses what was not synced.                 *)
(***************************************************************************)
EXTENDS Integers, FiniteSets

CONSTANTS
    Settings,   \* guest address, gateway, tap device, daemon port: what a snapshot has baked in
    Capacity,
    MaxBuilds,  \* bound: snapshots built; never reached, see the assumption
    MaxEdits,   \* bound: changes by the operator
    MaxFaults   \* bound: failures and crashes

ASSUME AdmissionAssumption ==
    /\ Capacity \in Nat \ {0}
    /\ MaxEdits \in Nat /\ MaxFaults \in Nat
    /\ MaxBuilds \in Nat /\ MaxEdits + MaxFaults < MaxBuilds

Builds == 1 .. MaxBuilds
Absent == 0
Torn == -1      \* empty, or written in part
Link == -2      \* a configured path that resolves to the generated file

VARIABLES
    pc,             \* "down", the next step of admitOnce or of the script, "admitted"
    settings,       \* of the runner
    script,         \* CreateSnapshotScript is configured
    assets,         \* binaries and template: "missing", "other" (not what the manifest pins), "pinned"
    hostNATOK,
    mem, state,     \* snapshot_mem and snapshot_state in the output directory
    boot, staged,   \* boot.json and boot.json.tmp
    unsynced,       \* the build has not reached the disk
    confMem,        \* SnapshotMemPath: Link, Absent, or a file of its own
    confState,      \* SnapshotStatePath
    builds,         \* snapshots built
    builtFor,       \* builtFor[b]: the settings build b was made with
    canaries,       \* canary sandboxes that hold a slot
    edits, faults

configVars == <<settings, script, assets>>
outputVars == <<mem, state, boot, staged, unsynced, builds, builtFor>>
confVars == <<confMem, confState>>
vars == <<pc, configVars, hostNATOK, outputVars, confVars, canaries, edits, faults>>

\* A host before its first admission.
Init ==
    /\ pc = "down"
    /\ settings \in Settings /\ script = TRUE /\ assets = "pinned" /\ hostNATOK = FALSE
    /\ mem = Absent /\ state = Absent /\ boot = Absent /\ staged = Absent /\ unsynced = FALSE
    /\ confMem = Absent /\ confState = Absent
    /\ builds = 0 /\ builtFor \in [Builds -> {settings}]
    /\ canaries = 0
    /\ edits = 0 /\ faults = 0

Fault == faults < MaxFaults /\ faults' = faults + 1

\* admitOnce fails; the loop sleeps and begins again.
Retry == pc' = "nat"

Resolve(conf, generated) == IF conf = Link THEN generated ELSE conf
MemFile == Resolve(confMem, mem)
StateFile == Resolve(confState, state)

------------------------------------------------------------------------------
\* The runner: New, Prepare and admitOnce.

Start ==
    /\ pc = "down"
    /\ pc' = "nat"
    /\ canaries' = 0 /\ hostNATOK' = FALSE
    /\ UNCHANGED <<configVars, outputVars, confVars, edits, faults>>

EnsureHostNATReady ==
    /\ pc = "nat"
    /\ \/ pc' = "pin" /\ hostNATOK' = TRUE /\ UNCHANGED faults
       \/ ~hostNATOK /\ Fault /\ Retry /\ UNCHANGED hostNATOK
    /\ UNCHANGED <<configVars, outputVars, confVars, canaries, edits>>

VerifyManifestPin == assets = "pinned"

PinBaseAssets ==
    /\ pc = "pin"
    /\ IF assets # "missing" /\ VerifyManifestPin THEN pc' = "ensure" ELSE Retry
    /\ UNCHANGED <<configVars, hostNATOK, outputVars, confVars, canaries, edits, faults>>

SetComplete == MemFile # Absent /\ StateFile # Absent /\ boot # Absent

\* verifySnapshotPathsResolveToOutputs
PathsResolveToOutputs == confMem = Link /\ confState = Link

TrustGoldenSnapshotSet == TRUE  \* Mutant.

\* verifyGoldenSnapshotSet, for a set that needs no build.
VerifyGoldenSnapshotSet ==
    (script /\ mem # Absent /\ state # Absent) => PathsResolveToOutputs

\* ensureGoldenSnapshot up to the script.
EnsureGoldenSnapshot ==
    /\ pc = "ensure"
    /\ IF SetComplete
       THEN IF VerifyGoldenSnapshotSet THEN pc' = "params" ELSE Retry
       ELSE IF script THEN pc' = "install" ELSE Retry
    /\ UNCHANGED <<configVars, hostNATOK, outputVars, confVars, canaries, edits, faults>>

LinkTo(conf, generated) == IF Resolve(conf, generated) = Absent /\ generated # Absent THEN Link ELSE conf

\* ensureGoldenSnapshot behind the script: ensureSnapshotSymlinks and the checks.
LinkSnapshot ==
    /\ pc = "link"
    /\ confMem' = LinkTo(confMem, mem) /\ confState' = LinkTo(confState, state)
    /\ UNCHANGED <<configVars, hostNATOK, outputVars, canaries, edits, faults>>
    /\ IF SetComplete' /\ PathsResolveToOutputs' THEN pc' = "params" ELSE Retry

\* A torn file is not valid JSON.
LoadBootParams == boot \in Builds

MatchesConfig == builtFor[boot] = settings

PinSnapshotAssets ==
    /\ pc = "params"
    /\ IF MemFile # Absent /\ StateFile # Absent /\ LoadBootParams /\ MatchesConfig
       THEN pc' = "cleanup" ELSE Retry
    /\ UNCHANGED <<configVars, hostNATOK, outputVars, confVars, canaries, edits, faults>>

\* cleanupLeftoverAdmissionCanaries
CleanupLeftovers ==
    /\ pc = "cleanup"
    /\ \/ pc' = "create" /\ canaries' = 0 /\ UNCHANGED faults
       \/ canaries > 0 /\ Fault /\ Retry /\ canaries' \in 1 .. canaries
    /\ UNCHANGED <<configVars, hostNATOK, outputVars, confVars, edits>>

\* A guest comes up from whole files; what files of two builds do is not known.
Restorable == MemFile \in Builds /\ StateFile \in Builds

\* CreateSandbox of the canary takes a slot, which it gives back when it fails.
CreateCanary ==
    /\ pc = "create"
    /\ \/ Restorable /\ canaries < Capacity
          /\ pc' = "probe" /\ canaries' = canaries + 1 /\ UNCHANGED faults
       \/ ~(Restorable /\ MemFile = StateFile /\ canaries < Capacity)
          /\ Retry /\ UNCHANGED <<canaries, faults>>
       \/ Fault /\ Retry /\ UNCHANGED canaries
    /\ UNCHANGED <<configVars, hostNATOK, outputVars, confVars, edits>>

\* DaemonURL and probeAdmissionDaemon.  A guest with other settings may answer.
ProbeCanary ==
    /\ pc = "probe"
    /\ \/ pc' = "passed" /\ UNCHANGED faults
       \/ builtFor[MemFile] # settings /\ pc' = "unhealthy" /\ UNCHANGED faults
       \/ Fault /\ pc' = "unhealthy"
    /\ UNCHANGED <<configVars, hostNATOK, outputVars, confVars, canaries, edits>>

IgnoreDeleteFailure ==  \* Mutant.
    /\ pc \in {"passed", "unhealthy"}
    /\ IF pc = "passed" THEN pc' = "admitted" ELSE Retry
    /\ \/ canaries' = canaries - 1 /\ UNCHANGED faults
       \/ Fault /\ UNCHANGED canaries
    /\ UNCHANGED <<configVars, hostNATOK, outputVars, confVars, edits>>

\* The deferred DeleteSandbox; then markAdmissionOK.
DeleteCanary ==
    /\ pc \in {"passed", "unhealthy"}
    /\ \/ /\ canaries' = canaries - 1 /\ UNCHANGED faults
          /\ IF pc = "passed" THEN pc' = "admitted" ELSE Retry
       \/ Fault /\ Retry /\ UNCHANGED canaries
    /\ UNCHANGED <<configVars, hostNATOK, outputVars, confVars, edits>>

Ready == pc = "admitted" /\ assets # "missing" /\ MemFile # Absent /\ StateFile # Absent

------------------------------------------------------------------------------
\* The script.

\* The daemon goes into the rootfs, Firecracker starts.
InstallDaemon ==
    /\ pc = "install" /\ pc' = "rmMem"
    /\ UNCHANGED <<configVars, hostNATOK, outputVars, confVars, canaries, edits, faults>>

\* rm -f, one file after the other.
RemoveOld ==
    /\ \/ pc = "rmMem" /\ mem' = Absent /\ pc' = "rmState" /\ UNCHANGED <<state, boot, staged>>
       \/ pc = "rmState" /\ state' = Absent /\ pc' = "rmBoot" /\ UNCHANGED <<mem, boot, staged>>
       \/ pc = "rmBoot" /\ boot' = Absent /\ staged' = Absent /\ pc' = "touch" /\ UNCHANGED <<mem, state>>
    /\ UNCHANGED <<configVars, hostNATOK, unsynced, builds, builtFor, confVars, canaries, edits, faults>>

\* touch and the bind mounts into the jail.
TouchFiles ==
    /\ pc = "touch" /\ pc' = "snapshot"
    /\ mem' = Torn /\ state' = Torn /\ unsynced' = TRUE
    /\ UNCHANGED <<configVars, hostNATOK, boot, staged, builds, builtFor, confVars, canaries, edits, faults>>

\* The script's own defaults do not count: the runner passes its settings.
CreateSnapshotCommand == settings

\* The guest boots, answers, is paused and written out.
WriteSnapshot ==
    /\ pc = "snapshot" /\ builds < MaxBuilds
    /\ builds' = builds + 1
    /\ builtFor' = [builtFor EXCEPT ![builds + 1] = CreateSnapshotCommand]
    /\ mem' = builds + 1 /\ state' = builds + 1
    /\ pc' = "stage"
    /\ UNCHANGED <<configVars, hostNATOK, boot, staged, unsynced, confVars, canaries, edits, faults>>

\* cat > boot.json.tmp
StageBoot ==
    /\ pc = "stage" /\ pc' = "sync"
    /\ staged' = builds
    /\ UNCHANGED <<configVars, hostNATOK, mem, state, boot, unsynced, builds, builtFor, confVars, canaries,
                   edits, faults>>

SkipSync ==  \* Mutant.
    /\ pc = "sync" /\ pc' = "rename"
    /\ UNCHANGED <<configVars, hostNATOK, outputVars, confVars, canaries, edits, faults>>

SyncFiles ==
    /\ pc = "sync" /\ pc' = "rename"
    /\ unsynced' = FALSE
    /\ UNCHANGED <<configVars, hostNATOK, mem, state, boot, staged, builds, builtFor, confVars, canaries,
                   edits, faults>>

\* mv and the sync behind it.
RenameBoot ==
    /\ pc = "rename" /\ pc' = "link"
    /\ boot' = staged /\ staged' = Absent
    /\ UNCHANGED <<configVars, hostNATOK, mem, state, unsynced, builds, builtFor, confVars, canaries, edits, faults>>

ScriptSteps == {"install", "rmMem", "rmState", "rmBoot", "touch", "snapshot", "stage", "sync", "rename"}

\* set -e, and the cleanup of the EXIT trap.
ScriptFails ==
    /\ pc \in ScriptSteps
    /\ Fault /\ Retry
    /\ staged' = Absent
    /\ UNCHANGED <<configVars, hostNATOK, mem, state, boot, unsynced, builds, builtFor, confVars, canaries, edits>>

------------------------------------------------------------------------------
\* The host and its operator.

\* The runner's service stops or dies, at any step.
Crash ==
    /\ pc # "down"
    /\ Fault
    /\ pc' = "down"
    /\ UNCHANGED <<configVars, hostNATOK, outputVars, confVars, canaries, edits>>

MayTear(f) == {f, IF f = Absent THEN Absent ELSE Torn}

\* The host loses power: what was not synced may be empty.  A rename that is lost with
\* it has not happened.
HostCrash ==
    /\ pc # "down" /\ unsynced
    /\ Fault
    /\ pc' = "down" /\ unsynced' = FALSE
    /\ mem' \in MayTear(mem) /\ state' \in MayTear(state) /\ staged' \in MayTear(staged)
    /\ UNCHANGED <<configVars, hostNATOK, boot, builds, builtFor, confVars, canaries, edits>>

Edit == pc = "down" /\ edits < MaxEdits /\ edits' = edits + 1

\* The runner is configured anew, or its release installed.
Reconfigure ==
    /\ Edit
    /\ settings' \in Settings /\ script' \in BOOLEAN /\ assets' \in {"missing", "other", "pinned"}
    /\ UNCHANGED <<pc, hostNATOK, outputVars, confVars, canaries, faults>>

\* An older release left no boot.json, or the operator asks for a rebuild.
RemoveBoot ==
    /\ Edit
    /\ boot' = Absent
    /\ UNCHANGED <<pc, configVars, hostNATOK, mem, state, staged, unsynced, builds, builtFor, confVars, canaries, faults>>

\* The configured paths get files of their own: copies, or the generated files moved.
CopySnapshot ==
    /\ Edit
    /\ confMem = Link /\ confState = Link /\ mem \in Builds /\ state \in Builds
    /\ confMem' = mem /\ confState' = state
    /\ \/ mem' = Absent /\ state' = Absent
       \/ UNCHANGED <<mem, state>>
    /\ UNCHANGED <<pc, configVars, hostNATOK, boot, staged, unsynced, builds, builtFor, canaries, faults>>

\* A configured path is removed, as the error of verifySnapshotPathsResolveToOutputs asks.
RemoveConfigured ==
    /\ Edit
    /\ \/ confMem' = Absent /\ UNCHANGED confState
       \/ confState' = Absent /\ UNCHANGED confMem
    /\ UNCHANGED <<pc, configVars, hostNATOK, outputVars, canaries, faults>>

Admit ==
    \/ Start \/ EnsureHostNATReady \/ PinBaseAssets \/ EnsureGoldenSnapshot \/ LinkSnapshot
    \/ PinSnapshotAssets \/ CleanupLeftovers \/ CreateCanary \/ ProbeCanary \/ DeleteCanary
    \/ InstallDaemon \/ RemoveOld \/ TouchFiles \/ WriteSnapshot \/ StageBoot \/ SyncFiles \/ RenameBoot

Next ==
    \/ Admit
    \/ ScriptFails \/ Crash \/ HostCrash
    \/ Reconfigure \/ RemoveBoot \/ CopySnapshot \/ RemoveConfigured

\* The loop and the script go on; nothing is assumed of faults and of the operator.
Spec == Init /\ [][Next]_vars /\ WF_vars(Admit)

------------------------------------------------------------------------------

TypeOK ==
    /\ pc \in {"down", "nat", "pin", "ensure", "link", "params", "cleanup", "create", "probe", "passed",
               "unhealthy", "admitted"} \cup ScriptSteps
    /\ settings \in Settings /\ script \in BOOLEAN /\ assets \in {"missing", "other", "pinned"} /\ hostNATOK \in BOOLEAN
    /\ mem \in Builds \cup {Absent, Torn} /\ state \in Builds \cup {Absent, Torn}
    /\ boot \in Builds \cup {Absent, Torn} /\ staged \in Builds \cup {Absent, Torn}
    /\ unsynced \in BOOLEAN
    /\ confMem \in Builds \cup {Absent, Link} /\ confState \in Builds \cup {Absent, Link}
    /\ builds \in 0 .. MaxBuilds /\ builtFor \in [Builds -> Settings]
    /\ canaries \in Nat /\ edits \in 0 .. MaxEdits /\ faults \in 0 .. MaxFaults

\* A runner that builds its own snapshot and was admitted restores memory and state
\* of one build, which boot.json describes and which has the runner's settings,
\* whatever build was cut off and whatever the configured paths were pointed at
\* (ensureGoldenSnapshot, verifyGoldenSnapshotSet, pinSnapshotAssets).
SnapshotSetConsistent ==
    (Ready /\ script) =>
        /\ boot \in Builds /\ MemFile = boot /\ StateFile = boot
        /\ builtFor[boot] = settings

\* An admitted runner offers every slot: no canary, of this or of a failed attempt,
\* keeps one (runAdmissionCanary, cleanupLeftoverAdmissionCanaries).
CanariesFreeTheirSlots == pc = "admitted" => canaries = 0

\* What only the operator can change: missing assets, no script for a set that is not
\* complete, configured paths with files that are not the generated ones, a set that
\* was built for other settings.
NeedsOperator ==
    \/ assets # "pinned"
    \/ ~script /\ (~SetComplete \/ MemFile # StateFile)
    \/ script /\ (confMem \in Builds \/ confState \in Builds) /\ ~(SetComplete /\ VerifyGoldenSnapshotSet)
    \/ edits > 0 /\ boot \in Builds /\ builtFor[boot] # settings

\* A runner that nothing but the operator could help is the only one that is never
\* admitted: no interrupted build, lost write or leftover canary keeps a later
\* attempt from passing (runAdmissionLoop, the order of writes in the script).
AdmittedUnlessOperator == []<>(Ready \/ NeedsOperator)
=============================================================================
