---------------------------- MODULE AdmissionProofs ----------------------------
(***************************************************************************)
(* An admitted runner's snapshot is of one build, and its slots are free,    *)
(* for any number of settings, builds, faults and changes by the operator.   *)
(***************************************************************************)
EXTENDS Admission, TLAPS

CanarySteps == {"cleanup", "create", "probe", "passed", "unhealthy", "admitted"}

\* What pinSnapshotAssets found still holds while the canary runs.
ParamsPinned == pc \in CanarySteps => boot \in Builds /\ builtFor[boot] = settings

\* So does what ensureGoldenSnapshot found.
SetVerified == pc \in CanarySteps \cup {"params"} => SetComplete /\ VerifyGoldenSnapshotSet

\* boot.json, when it is there, describes the generated files that are there.
BootDescribesOutputs ==
    boot # Absent => boot \in Builds /\ mem \in {Absent, boot} /\ state \in {Absent, boot}

\* With a generated file missing, the configured paths have the build boot.json
\* describes or one of them has nothing.
BootDescribesCopies ==
    (boot # Absent /\ (mem = Absent \/ state = Absent)) =>
        MemFile = Absent \/ StateFile = Absent \/ (MemFile = boot /\ StateFile = boot)

\* The script runs only where the set is not complete.
BuildNeeded == pc \in {"install", "rmMem", "rmState", "rmBoot"} => ~SetComplete

\* boot.json is written last.
BootLast ==
    /\ pc \in {"touch", "snapshot", "stage", "sync", "rename"} => boot = Absent
    /\ unsynced => boot = Absent
    /\ pc = "rename" => ~unsynced
    /\ pc \in {"stage", "sync", "rename"} => builds \in Builds /\ mem = builds /\ state = builds
    /\ pc \in {"sync", "rename"} => staged = builds
    /\ pc = "link" => boot \in Builds /\ mem = boot /\ state = boot

\* One canary exists from its creation to its delete.
OneCanary ==
    /\ pc = "create" => canaries = 0
    /\ pc \in {"probe", "passed", "unhealthy"} => canaries = 1
    /\ pc = "admitted" => canaries = 0

Inv ==
    /\ TypeOK
    /\ ParamsPinned /\ SetVerified
    /\ BootDescribesOutputs /\ BootDescribesCopies
    /\ BuildNeeded /\ BootLast
    /\ OneCanary

------------------------------------------------------------------------------
\* Every step preserves the invariant: one lemma per action, one step per part that the
\* action can disturb, and one for the parts that it leaves alone.

LEMMA StartKeeps == ASSUME Inv, Start PROVE Inv'
<1>1. TypeOK'
  <2>1. hostNATOK' \in BOOLEAN /\ unsynced' \in BOOLEAN /\ script' \in BOOLEAN
    BY Zenon DEF Inv, Start, TypeOK, configVars, outputVars, confVars
  <2>2. QED
    BY <2>1, AdmissionAssumption DEF Inv, Start, TypeOK, ScriptSteps, Builds, Absent, Torn,
       Link, configVars, outputVars, confVars
<1>2. (ParamsPinned /\ SetVerified /\ BootDescribesOutputs /\ BootDescribesCopies
       /\ BuildNeeded /\ BootLast /\ OneCanary)'
    BY DEF Inv, Start, ParamsPinned, CanarySteps, TypeOK, SetVerified, SetComplete,
       VerifyGoldenSnapshotSet, PathsResolveToOutputs, MemFile, StateFile, BootDescribesOutputs,
       BootDescribesCopies, BuildNeeded, BootLast, OneCanary, configVars, outputVars, confVars
<1>3. QED
    BY Zenon, <1>1, <1>2 DEF Inv

LEMMA EnsureHostNATReadyKeeps == ASSUME Inv, EnsureHostNATReady PROVE Inv'
<1>1. TypeOK'
  <2>1. hostNATOK' \in BOOLEAN /\ unsynced' \in BOOLEAN /\ script' \in BOOLEAN
    BY Zenon DEF Inv, EnsureHostNATReady, Fault, Retry, TypeOK, configVars, outputVars, confVars
  <2>2. QED
    BY <2>1, AdmissionAssumption DEF Inv, EnsureHostNATReady, Fault, Retry, TypeOK, ScriptSteps,
       Builds, Absent, Torn, Link, configVars, outputVars, confVars
<1>2. (ParamsPinned /\ SetVerified /\ BootDescribesOutputs /\ BootDescribesCopies
       /\ BuildNeeded /\ BootLast /\ OneCanary)'
    BY DEF Inv, EnsureHostNATReady, Fault, Retry, ParamsPinned, CanarySteps, TypeOK,
       SetVerified, SetComplete, VerifyGoldenSnapshotSet, PathsResolveToOutputs, MemFile,
       StateFile, BootDescribesOutputs, BootDescribesCopies, BuildNeeded, BootLast, OneCanary,
       configVars, outputVars, confVars
<1>3. QED
    BY Zenon, <1>1, <1>2 DEF Inv

LEMMA PinBaseAssetsKeeps == ASSUME Inv, PinBaseAssets PROVE Inv'
<1>1. TypeOK'
    BY DEF Inv, PinBaseAssets, Retry, TypeOK, ScriptSteps, Builds, Absent, Torn, Link,
       configVars, outputVars, confVars
<1>2. (ParamsPinned /\ SetVerified /\ BootDescribesOutputs /\ BootDescribesCopies
       /\ BuildNeeded /\ BootLast /\ OneCanary)'
    BY DEF Inv, PinBaseAssets, Retry, ParamsPinned, CanarySteps, TypeOK, SetVerified,
       SetComplete, VerifyGoldenSnapshotSet, PathsResolveToOutputs, MemFile, StateFile,
       BootDescribesOutputs, BootDescribesCopies, BuildNeeded, BootLast, OneCanary, configVars,
       outputVars, confVars
<1>3. QED
    BY Zenon, <1>1, <1>2 DEF Inv

LEMMA EnsureGoldenSnapshotKeeps == ASSUME Inv, EnsureGoldenSnapshot PROVE Inv'
<1>1. TypeOK'
    BY DEF Inv, EnsureGoldenSnapshot, Retry, TypeOK, ScriptSteps, Builds, Absent, Torn, Link,
       configVars, outputVars, confVars
<1>2. SetVerified'
    BY DEF Inv, EnsureGoldenSnapshot, Retry, SetVerified, CanarySteps, SetComplete,
       VerifyGoldenSnapshotSet, PathsResolveToOutputs, MemFile, StateFile, configVars,
       outputVars, confVars
<1>3. BuildNeeded'
    BY DEF Inv, EnsureGoldenSnapshot, Retry, BuildNeeded, SetComplete, MemFile, StateFile,
       configVars, outputVars, confVars
<1>4. (ParamsPinned /\ BootDescribesOutputs /\ BootDescribesCopies /\ BootLast
       /\ OneCanary)'
    BY DEF Inv, EnsureGoldenSnapshot, Retry, ParamsPinned, CanarySteps, TypeOK,
       BootDescribesOutputs, BootDescribesCopies, MemFile, StateFile, BootLast, OneCanary,
       configVars, outputVars, confVars
<1>5. QED
    BY Zenon, <1>1, <1>2, <1>3, <1>4 DEF Inv

LEMMA LinkSnapshotKeeps == ASSUME Inv, LinkSnapshot PROVE Inv'
<1>1. TypeOK'
    BY DEF Inv, LinkSnapshot, Retry, LinkTo, PathsResolveToOutputs, TypeOK, ScriptSteps, Builds,
       Absent, Torn, Link, configVars, outputVars, confVars
<1>2. SetVerified'
    BY DEF Inv, LinkSnapshot, Retry, LinkTo, PathsResolveToOutputs, SetVerified, CanarySteps,
       SetComplete, VerifyGoldenSnapshotSet, MemFile, StateFile, configVars, outputVars,
       confVars
<1>3. BootDescribesCopies'
    BY DEF Inv, LinkSnapshot, Retry, LinkTo, PathsResolveToOutputs, BootDescribesCopies,
       MemFile, StateFile, BootLast, Builds, Absent, Link, Resolve, configVars, outputVars,
       confVars
<1>4. (ParamsPinned /\ BootDescribesOutputs /\ BuildNeeded /\ BootLast
       /\ OneCanary)'
    BY DEF Inv, LinkSnapshot, Retry, LinkTo, PathsResolveToOutputs, ParamsPinned, CanarySteps,
       TypeOK, BootDescribesOutputs, BuildNeeded, SetComplete, MemFile, StateFile, BootLast,
       OneCanary, configVars, outputVars, confVars
<1>5. QED
    BY Zenon, <1>1, <1>2, <1>3, <1>4 DEF Inv

LEMMA PinSnapshotAssetsKeeps == ASSUME Inv, PinSnapshotAssets PROVE Inv'
<1>1. TypeOK'
    BY DEF Inv, PinSnapshotAssets, Retry, LoadBootParams, MatchesConfig, TypeOK, ScriptSteps,
       Builds, Absent, Torn, Link, configVars, outputVars, confVars
<1>2. ParamsPinned'
    BY DEF Inv, PinSnapshotAssets, Retry, LoadBootParams, MatchesConfig, ParamsPinned,
       CanarySteps, TypeOK, configVars, outputVars, confVars
<1>3. (SetVerified /\ BootDescribesOutputs /\ BootDescribesCopies /\ BuildNeeded
       /\ BootLast /\ OneCanary)'
    BY DEF Inv, PinSnapshotAssets, Retry, LoadBootParams, MatchesConfig, SetVerified,
       CanarySteps, SetComplete, VerifyGoldenSnapshotSet, PathsResolveToOutputs, MemFile,
       StateFile, BootDescribesOutputs, BootDescribesCopies, BuildNeeded, BootLast, OneCanary,
       configVars, outputVars, confVars
<1>4. QED
    BY Zenon, <1>1, <1>2, <1>3 DEF Inv

LEMMA CleanupLeftoversKeeps == ASSUME Inv, CleanupLeftovers PROVE Inv'
<1>1. TypeOK'
    BY AdmissionAssumption DEF Inv, CleanupLeftovers, Fault, Retry, TypeOK, ScriptSteps, Builds,
       Absent, Torn, Link, configVars, outputVars, confVars
<1>2. OneCanary'
    BY DEF Inv, CleanupLeftovers, Fault, Retry, OneCanary, configVars, outputVars, confVars
<1>3. (ParamsPinned /\ SetVerified /\ BootDescribesOutputs /\ BootDescribesCopies
       /\ BuildNeeded /\ BootLast)'
    BY DEF Inv, CleanupLeftovers, Fault, Retry, ParamsPinned, CanarySteps, TypeOK, SetVerified,
       SetComplete, VerifyGoldenSnapshotSet, PathsResolveToOutputs, MemFile, StateFile,
       BootDescribesOutputs, BootDescribesCopies, BuildNeeded, BootLast, configVars, outputVars,
       confVars
<1>4. QED
    BY Zenon, <1>1, <1>2, <1>3 DEF Inv

LEMMA CreateCanaryKeeps == ASSUME Inv, CreateCanary PROVE Inv'
<1>1. TypeOK'
    BY AdmissionAssumption DEF Inv, CreateCanary, Fault, Retry, TypeOK, ScriptSteps, Builds,
       Absent, Torn, Link, configVars, outputVars, confVars
<1>2. OneCanary'
    BY DEF Inv, CreateCanary, Fault, Retry, OneCanary, configVars, outputVars, confVars
<1>3. (ParamsPinned /\ SetVerified /\ BootDescribesOutputs /\ BootDescribesCopies
       /\ BuildNeeded /\ BootLast)'
    BY DEF Inv, CreateCanary, Fault, Retry, ParamsPinned, CanarySteps, TypeOK, SetVerified,
       SetComplete, VerifyGoldenSnapshotSet, PathsResolveToOutputs, MemFile, StateFile,
       BootDescribesOutputs, BootDescribesCopies, BuildNeeded, BootLast, configVars, outputVars,
       confVars
<1>4. QED
    BY Zenon, <1>1, <1>2, <1>3 DEF Inv

LEMMA ProbeCanaryKeeps == ASSUME Inv, ProbeCanary PROVE Inv'
<1>1. TypeOK'
    BY AdmissionAssumption DEF Inv, ProbeCanary, Fault, TypeOK, ScriptSteps, Builds, Absent,
       Torn, Link, configVars, outputVars, confVars
<1>2. (ParamsPinned /\ SetVerified /\ BootDescribesOutputs /\ BootDescribesCopies
       /\ BuildNeeded /\ BootLast /\ OneCanary)'
    BY DEF Inv, ProbeCanary, Fault, ParamsPinned, CanarySteps, TypeOK, SetVerified, SetComplete,
       VerifyGoldenSnapshotSet, PathsResolveToOutputs, MemFile, StateFile, BootDescribesOutputs,
       BootDescribesCopies, BuildNeeded, BootLast, OneCanary, configVars, outputVars, confVars
<1>3. QED
    BY Zenon, <1>1, <1>2 DEF Inv

LEMMA DeleteCanaryKeeps == ASSUME Inv, DeleteCanary PROVE Inv'
<1>1. TypeOK'
    BY AdmissionAssumption DEF Inv, DeleteCanary, Fault, Retry, TypeOK, ScriptSteps, Builds,
       Absent, Torn, Link, OneCanary, configVars, outputVars, confVars
<1>2. OneCanary'
    BY DEF Inv, DeleteCanary, Fault, Retry, OneCanary, configVars, outputVars, confVars
<1>3. (ParamsPinned /\ SetVerified /\ BootDescribesOutputs /\ BootDescribesCopies
       /\ BuildNeeded /\ BootLast)'
    BY DEF Inv, DeleteCanary, Fault, Retry, ParamsPinned, CanarySteps, TypeOK, SetVerified,
       SetComplete, VerifyGoldenSnapshotSet, PathsResolveToOutputs, MemFile, StateFile,
       BootDescribesOutputs, BootDescribesCopies, BuildNeeded, BootLast, configVars, outputVars,
       confVars
<1>4. QED
    BY Zenon, <1>1, <1>2, <1>3 DEF Inv

LEMMA InstallDaemonKeeps == ASSUME Inv, InstallDaemon PROVE Inv'
<1>1. TypeOK'
    BY DEF Inv, InstallDaemon, TypeOK, ScriptSteps, Builds, Absent, Torn, Link, configVars,
       outputVars, confVars
<1>2. (ParamsPinned /\ SetVerified /\ BootDescribesOutputs /\ BootDescribesCopies
       /\ BuildNeeded /\ BootLast /\ OneCanary)'
    BY DEF Inv, InstallDaemon, ParamsPinned, CanarySteps, TypeOK, SetVerified, SetComplete,
       VerifyGoldenSnapshotSet, PathsResolveToOutputs, MemFile, StateFile, BootDescribesOutputs,
       BootDescribesCopies, BuildNeeded, BootLast, OneCanary, configVars, outputVars, confVars
<1>3. QED
    BY Zenon, <1>1, <1>2 DEF Inv

LEMMA RemoveOldKeeps == ASSUME Inv, RemoveOld PROVE Inv'
<1>1. TypeOK'
    BY AdmissionAssumption DEF Inv, RemoveOld, TypeOK, ScriptSteps, Builds, Absent, Torn, Link,
       configVars, outputVars, confVars
<1>2. BootDescribesCopies'
    BY DEF Inv, RemoveOld, BootDescribesCopies, MemFile, StateFile, BuildNeeded, SetComplete,
       Resolve, configVars, outputVars, confVars
<1>3. BuildNeeded'
    BY DEF Inv, RemoveOld, BuildNeeded, SetComplete, MemFile, StateFile, Resolve, configVars,
       outputVars, confVars
<1>4. (ParamsPinned /\ SetVerified /\ BootDescribesOutputs /\ BootLast
       /\ OneCanary)'
    BY DEF Inv, RemoveOld, ParamsPinned, CanarySteps, TypeOK, SetVerified, SetComplete,
       VerifyGoldenSnapshotSet, PathsResolveToOutputs, MemFile, StateFile, BootDescribesOutputs,
       BootLast, OneCanary, configVars, outputVars, confVars
<1>5. QED
    BY Zenon, <1>1, <1>2, <1>3, <1>4 DEF Inv

LEMMA TouchFilesKeeps == ASSUME Inv, TouchFiles PROVE Inv'
<1>1. TypeOK'
    BY DEF Inv, TouchFiles, TypeOK, ScriptSteps, Builds, Absent, Torn, Link, configVars,
       outputVars, confVars
<1>2. BootDescribesOutputs'
    BY DEF Inv, TouchFiles, BootDescribesOutputs, BootLast, configVars, outputVars, confVars
<1>3. BootDescribesCopies'
    BY DEF Inv, TouchFiles, BootDescribesCopies, MemFile, StateFile, BootLast, configVars,
       outputVars, confVars
<1>4. BootLast'
    BY DEF Inv, TouchFiles, BootLast, configVars, outputVars, confVars
<1>5. (ParamsPinned /\ SetVerified /\ BuildNeeded /\ OneCanary)'
    BY DEF Inv, TouchFiles, ParamsPinned, CanarySteps, TypeOK, SetVerified, SetComplete,
       VerifyGoldenSnapshotSet, PathsResolveToOutputs, MemFile, StateFile, BuildNeeded,
       OneCanary, configVars, outputVars, confVars
<1>6. QED
    BY Zenon, <1>1, <1>2, <1>3, <1>4, <1>5 DEF Inv

LEMMA WriteSnapshotKeeps == ASSUME Inv, WriteSnapshot PROVE Inv'
<1>1. TypeOK'
    BY AdmissionAssumption DEF Inv, WriteSnapshot, CreateSnapshotCommand, TypeOK, ScriptSteps,
       Builds, Absent, Torn, Link, configVars, outputVars, confVars
<1>2. BootDescribesOutputs'
    BY DEF Inv, WriteSnapshot, CreateSnapshotCommand, BootDescribesOutputs, BootLast,
       configVars, outputVars, confVars
<1>3. BootDescribesCopies'
    BY DEF Inv, WriteSnapshot, CreateSnapshotCommand, BootDescribesCopies, MemFile, StateFile,
       BootLast, configVars, outputVars, confVars
<1>4. BootLast'
    BY AdmissionAssumption DEF Inv, WriteSnapshot, CreateSnapshotCommand, BootLast, TypeOK,
       Builds, configVars, outputVars, confVars
<1>5. (ParamsPinned /\ SetVerified /\ BuildNeeded /\ OneCanary)'
    BY DEF Inv, WriteSnapshot, CreateSnapshotCommand, ParamsPinned, CanarySteps, TypeOK,
       SetVerified, SetComplete, VerifyGoldenSnapshotSet, PathsResolveToOutputs, MemFile,
       StateFile, BuildNeeded, OneCanary, configVars, outputVars, confVars
<1>6. QED
    BY Zenon, <1>1, <1>2, <1>3, <1>4, <1>5 DEF Inv

LEMMA StageBootKeeps == ASSUME Inv, StageBoot PROVE Inv'
<1>1. TypeOK'
    BY DEF Inv, StageBoot, TypeOK, ScriptSteps, Builds, Absent, Torn, Link, configVars,
       outputVars, confVars
<1>2. BootLast'
    BY DEF Inv, StageBoot, BootLast, configVars, outputVars, confVars
<1>3. (ParamsPinned /\ SetVerified /\ BootDescribesOutputs /\ BootDescribesCopies
       /\ BuildNeeded /\ OneCanary)'
    BY DEF Inv, StageBoot, ParamsPinned, CanarySteps, TypeOK, SetVerified, SetComplete,
       VerifyGoldenSnapshotSet, PathsResolveToOutputs, MemFile, StateFile, BootDescribesOutputs,
       BootDescribesCopies, BuildNeeded, OneCanary, configVars, outputVars, confVars
<1>4. QED
    BY Zenon, <1>1, <1>2, <1>3 DEF Inv

LEMMA SyncFilesKeeps == ASSUME Inv, SyncFiles PROVE Inv'
<1>1. TypeOK'
  <2>1. hostNATOK' \in BOOLEAN /\ unsynced' \in BOOLEAN /\ script' \in BOOLEAN
    BY Zenon DEF Inv, SyncFiles, TypeOK, configVars, outputVars, confVars
  <2>2. QED
    BY <2>1, AdmissionAssumption DEF Inv, SyncFiles, TypeOK, ScriptSteps, Builds, Absent, Torn,
       Link, configVars, outputVars, confVars
<1>2. BootLast'
    BY DEF Inv, SyncFiles, BootLast, configVars, outputVars, confVars
<1>3. (ParamsPinned /\ SetVerified /\ BootDescribesOutputs /\ BootDescribesCopies
       /\ BuildNeeded /\ OneCanary)'
    BY DEF Inv, SyncFiles, ParamsPinned, CanarySteps, TypeOK, SetVerified, SetComplete,
       VerifyGoldenSnapshotSet, PathsResolveToOutputs, MemFile, StateFile, BootDescribesOutputs,
       BootDescribesCopies, BuildNeeded, OneCanary, configVars, outputVars, confVars
<1>4. QED
    BY Zenon, <1>1, <1>2, <1>3 DEF Inv

LEMMA RenameBootKeeps == ASSUME Inv, RenameBoot PROVE Inv'
<1>1. TypeOK'
    BY DEF Inv, RenameBoot, TypeOK, ScriptSteps, Builds, Absent, Torn, Link, configVars,
       outputVars, confVars
<1>2. BootDescribesOutputs'
    BY DEF Inv, RenameBoot, BootDescribesOutputs, BootLast, configVars, outputVars, confVars
<1>3. BootDescribesCopies'
    BY DEF Inv, RenameBoot, BootDescribesCopies, MemFile, StateFile, BootLast, Builds, Absent,
       configVars, outputVars, confVars
<1>4. BootLast'
    BY DEF Inv, RenameBoot, BootLast, configVars, outputVars, confVars
<1>5. (ParamsPinned /\ SetVerified /\ BuildNeeded /\ OneCanary)'
    BY DEF Inv, RenameBoot, ParamsPinned, CanarySteps, TypeOK, SetVerified, SetComplete,
       VerifyGoldenSnapshotSet, PathsResolveToOutputs, MemFile, StateFile, BuildNeeded,
       OneCanary, configVars, outputVars, confVars
<1>6. QED
    BY Zenon, <1>1, <1>2, <1>3, <1>4, <1>5 DEF Inv

LEMMA ScriptFailsKeeps == ASSUME Inv, ScriptFails PROVE Inv'
<1>1. TypeOK'
    BY AdmissionAssumption DEF Inv, ScriptFails, Fault, Retry, TypeOK, ScriptSteps, Builds,
       Absent, Torn, Link, configVars, outputVars, confVars
<1>2. (ParamsPinned /\ SetVerified /\ BootDescribesOutputs /\ BootDescribesCopies
       /\ BuildNeeded /\ BootLast /\ OneCanary)'
    BY DEF Inv, ScriptFails, Fault, Retry, ParamsPinned, CanarySteps, TypeOK, SetVerified,
       SetComplete, VerifyGoldenSnapshotSet, PathsResolveToOutputs, MemFile, StateFile,
       BootDescribesOutputs, BootDescribesCopies, BuildNeeded, BootLast, OneCanary, configVars,
       outputVars, confVars
<1>3. QED
    BY Zenon, <1>1, <1>2 DEF Inv

LEMMA CrashKeeps == ASSUME Inv, Crash PROVE Inv'
<1>1. TypeOK'
    BY AdmissionAssumption DEF Inv, Crash, Fault, TypeOK, ScriptSteps, Builds, Absent, Torn,
       Link, configVars, outputVars, confVars
<1>2. (ParamsPinned /\ SetVerified /\ BootDescribesOutputs /\ BootDescribesCopies
       /\ BuildNeeded /\ BootLast /\ OneCanary)'
    BY DEF Inv, Crash, Fault, ParamsPinned, CanarySteps, TypeOK, SetVerified, SetComplete,
       VerifyGoldenSnapshotSet, PathsResolveToOutputs, MemFile, StateFile, BootDescribesOutputs,
       BootDescribesCopies, BuildNeeded, BootLast, OneCanary, configVars, outputVars, confVars
<1>3. QED
    BY Zenon, <1>1, <1>2 DEF Inv

LEMMA HostCrashKeeps == ASSUME Inv, HostCrash PROVE Inv'
<1>1. TypeOK'
  <2>1. hostNATOK' \in BOOLEAN /\ unsynced' \in BOOLEAN /\ script' \in BOOLEAN
    BY Zenon DEF Inv, HostCrash, Fault, MayTear, TypeOK, configVars, outputVars, confVars
  <2>2. QED
    BY <2>1, AdmissionAssumption DEF Inv, HostCrash, Fault, MayTear, TypeOK, ScriptSteps,
       Builds, Absent, Torn, Link, configVars, outputVars, confVars
<1>2. BootDescribesOutputs'
    BY DEF Inv, HostCrash, Fault, MayTear, BootDescribesOutputs, BootLast, configVars,
       outputVars, confVars
<1>3. BootDescribesCopies'
    BY DEF Inv, HostCrash, Fault, MayTear, BootDescribesCopies, MemFile, StateFile, BootLast,
       configVars, outputVars, confVars
<1>4. (ParamsPinned /\ SetVerified /\ BuildNeeded /\ BootLast
       /\ OneCanary)'
    BY DEF Inv, HostCrash, Fault, MayTear, ParamsPinned, CanarySteps, TypeOK, SetVerified,
       SetComplete, VerifyGoldenSnapshotSet, PathsResolveToOutputs, MemFile, StateFile,
       BuildNeeded, BootLast, OneCanary, configVars, outputVars, confVars
<1>5. QED
    BY Zenon, <1>1, <1>2, <1>3, <1>4 DEF Inv

LEMMA ReconfigureKeeps == ASSUME Inv, Reconfigure PROVE Inv'
<1>1. TypeOK'
    BY AdmissionAssumption DEF Inv, Reconfigure, Edit, TypeOK, ScriptSteps, Builds, Absent,
       Torn, Link, configVars, outputVars, confVars
<1>2. (ParamsPinned /\ SetVerified /\ BootDescribesOutputs /\ BootDescribesCopies
       /\ BuildNeeded /\ BootLast /\ OneCanary)'
    BY DEF Inv, Reconfigure, Edit, ParamsPinned, CanarySteps, TypeOK, SetVerified, SetComplete,
       VerifyGoldenSnapshotSet, PathsResolveToOutputs, MemFile, StateFile, BootDescribesOutputs,
       BootDescribesCopies, BuildNeeded, BootLast, OneCanary, configVars, outputVars, confVars
<1>3. QED
    BY Zenon, <1>1, <1>2 DEF Inv

LEMMA RemoveBootKeeps == ASSUME Inv, RemoveBoot PROVE Inv'
<1>1. TypeOK'
    BY AdmissionAssumption DEF Inv, RemoveBoot, Edit, TypeOK, ScriptSteps, Builds, Absent, Torn,
       Link, configVars, outputVars, confVars
<1>2. (ParamsPinned /\ SetVerified /\ BootDescribesOutputs /\ BootDescribesCopies
       /\ BuildNeeded /\ BootLast /\ OneCanary)'
    BY DEF Inv, RemoveBoot, Edit, ParamsPinned, CanarySteps, TypeOK, SetVerified, SetComplete,
       VerifyGoldenSnapshotSet, PathsResolveToOutputs, MemFile, StateFile, BootDescribesOutputs,
       BootDescribesCopies, BuildNeeded, BootLast, OneCanary, configVars, outputVars, confVars
<1>3. QED
    BY Zenon, <1>1, <1>2 DEF Inv

LEMMA CopySnapshotKeeps == ASSUME Inv, CopySnapshot PROVE Inv'
<1>1. TypeOK'
    BY AdmissionAssumption DEF Inv, CopySnapshot, Edit, TypeOK, ScriptSteps, Builds, Absent,
       Torn, Link, configVars, outputVars, confVars
<1>2. BootDescribesCopies'
    BY DEF Inv, CopySnapshot, Edit, BootDescribesCopies, MemFile, StateFile,
       BootDescribesOutputs, Builds, Absent, Link, Resolve, configVars, outputVars, confVars
<1>3. (ParamsPinned /\ SetVerified /\ BootDescribesOutputs /\ BuildNeeded
       /\ BootLast /\ OneCanary)'
    BY DEF Inv, CopySnapshot, Edit, ParamsPinned, CanarySteps, TypeOK, SetVerified, SetComplete,
       VerifyGoldenSnapshotSet, PathsResolveToOutputs, MemFile, StateFile, BootDescribesOutputs,
       BuildNeeded, BootLast, OneCanary, configVars, outputVars, confVars
<1>4. QED
    BY Zenon, <1>1, <1>2, <1>3 DEF Inv

LEMMA RemoveConfiguredKeeps == ASSUME Inv, RemoveConfigured PROVE Inv'
<1>1. TypeOK'
    BY AdmissionAssumption DEF Inv, RemoveConfigured, Edit, TypeOK, ScriptSteps, Builds, Absent,
       Torn, Link, configVars, outputVars, confVars
<1>2. BootDescribesCopies'
    BY DEF Inv, RemoveConfigured, Edit, BootDescribesCopies, MemFile, StateFile, Absent, Link,
       Resolve, configVars, outputVars, confVars
<1>3. (ParamsPinned /\ SetVerified /\ BootDescribesOutputs /\ BuildNeeded
       /\ BootLast /\ OneCanary)'
    BY DEF Inv, RemoveConfigured, Edit, ParamsPinned, CanarySteps, TypeOK, SetVerified,
       SetComplete, VerifyGoldenSnapshotSet, PathsResolveToOutputs, MemFile, StateFile,
       BootDescribesOutputs, BuildNeeded, BootLast, OneCanary, configVars, outputVars, confVars
<1>4. QED
    BY Zenon, <1>1, <1>2, <1>3 DEF Inv
LEMMA InitInv == Init => Inv
<1> SUFFICES ASSUME Init PROVE Inv
    OBVIOUS
<1>1. builtFor \in [Builds -> Settings]
    BY DEF Init
<1>2. script \in BOOLEAN /\ hostNATOK \in BOOLEAN /\ unsynced \in BOOLEAN
    BY Zenon DEF Init
<1>3. TypeOK
    BY <1>1, <1>2, AdmissionAssumption DEF Init, TypeOK, ScriptSteps, Builds, Absent, Torn, Link
<1>4. ParamsPinned /\ SetVerified /\ BuildNeeded /\ BootLast /\ OneCanary
    BY DEF Init, ParamsPinned, SetVerified, BuildNeeded, BootLast, OneCanary, CanarySteps
<1>5. BootDescribesOutputs /\ BootDescribesCopies
    BY Zenon DEF Init, BootDescribesOutputs, BootDescribesCopies
<1>6. QED
    BY Zenon, <1>3, <1>4, <1>5 DEF Inv

LEMMA NextInv == Inv /\ [Next]_vars => Inv'
<1> SUFFICES ASSUME Inv, [Next]_vars PROVE Inv'
    OBVIOUS
<1>1. CASE Admit
    BY Zenon, <1>1, StartKeeps, EnsureHostNATReadyKeeps, PinBaseAssetsKeeps, EnsureGoldenSnapshotKeeps,
       LinkSnapshotKeeps, PinSnapshotAssetsKeeps, CleanupLeftoversKeeps, CreateCanaryKeeps, ProbeCanaryKeeps,
       DeleteCanaryKeeps, InstallDaemonKeeps, RemoveOldKeeps, TouchFilesKeeps, WriteSnapshotKeeps,
       StageBootKeeps, SyncFilesKeeps, RenameBootKeeps DEF Admit
<1>2. CASE ScriptFails \/ Crash \/ HostCrash
    BY Zenon, <1>2, ScriptFailsKeeps, CrashKeeps, HostCrashKeeps
<1>3. CASE Reconfigure \/ RemoveBoot \/ CopySnapshot \/ RemoveConfigured
    BY Zenon, <1>3, ReconfigureKeeps, RemoveBootKeeps, CopySnapshotKeeps, RemoveConfiguredKeeps
<1>4. CASE UNCHANGED vars
    BY <1>4 DEF vars, configVars, outputVars, confVars, Inv, TypeOK, ParamsPinned, SetVerified,
       BootDescribesOutputs, BootDescribesCopies, BuildNeeded, BootLast, OneCanary, SetComplete,
       VerifyGoldenSnapshotSet, PathsResolveToOutputs, MemFile, StateFile, Resolve
<1>5. QED
    BY Zenon, <1>1, <1>2, <1>3, <1>4 DEF Next

LEMMA AlwaysInv == Spec => []Inv
BY InitInv, NextInv, PTL DEF Spec

\* For any settings and any number of builds, crashes, failures of the script and
\* changes by the operator, a runner that builds its snapshot and is ready restores
\* memory and state of the one build that boot.json describes, made with its settings
\* (ensureGoldenSnapshot, verifyGoldenSnapshotSet, pinSnapshotAssets).
THEOREM SnapshotSetConsistentHolds == Spec => []SnapshotSetConsistent
<1>1. Inv => SnapshotSetConsistent
    BY DEF Inv, SnapshotSetConsistent, Ready, ParamsPinned, SetVerified, BootDescribesOutputs, BootDescribesCopies,
       CanarySteps, SetComplete, VerifyGoldenSnapshotSet, PathsResolveToOutputs, MemFile, StateFile, Resolve,
       Builds, Absent
<1>2. QED
    BY <1>1, AlwaysInv, PTL

\* For any capacity, an admitted runner has every slot free: neither its own canary nor
\* one of a failed attempt keeps one (runAdmissionCanary, cleanupLeftoverAdmissionCanaries).
THEOREM CanariesFreeTheirSlotsHolds == Spec => [](TypeOK /\ CanariesFreeTheirSlots)
<1>1. Inv => TypeOK /\ CanariesFreeTheirSlots
    BY Zenon DEF Inv, OneCanary, CanariesFreeTheirSlots
<1>2. QED
    BY <1>1, AlwaysInv, PTL
=============================================================================
