--------------------------- MODULE DurableCaseStore ---------------------------
(***************************************************************************)
(* How the staging case store is opened, sealed, crashed, copied and       *)
(* recovered: the durable half of createSqliteAtomicTopicCaseAdmission in  *)
(* src/src/adapters/sqlite-atomic-topic-case-admission.ts with the         *)
(* receipts of case-store-epoch.ts, case-shutdown-seal.ts and              *)
(* case-durable-deployment-claim.ts.                                       *)
(*                                                                         *)
(* A volume holds the municipal database and five receipts, each a file    *)
(* that is written or removed with an fsync.  Opening and closing the      *)
(* store change them one at a time; here every change is a step and the    *)
(* process may die between any two.  The tests of one stage of startup are *)
(* an operator (…OK); a process whose stage fails its tests is refused.    *)
(*                                                                         *)
(* A seal's checksum is its content, a claim stands for a release on a     *)
(* volume, and one municipality is modelled.                               *)
(***************************************************************************)
EXTENDS Naturals, Sequences, FiniteSets, SequencesExt

CONSTANTS
    Processes,
    Volumes,           \* persistent volumes
    Claims,            \* deployment claims: a release bound to a volume
    ClaimVolume,       \* claim -> the volume it is bound to
    Configs,           \* configuration fingerprints
    Deployments,       \* what a process starts with: volume, claim or None, configuration
    Operations,        \* recovery operations that Operations may attest
    MaxAdmissions,     \* bound on what is written to a database
    None

Contents == Seq(Volumes)

\* sealAndClose's record of a closed database.
Seal == [claim : Claims \cup {None}, config : Configs, content : Contents]

\* The other receipts, the evidence of a recovery, and the database with its configuration.
Bootstrap == [claim : Claims, config : Configs]
OpenEpoch == [claim : Claims, config : Configs, baseline : Seal]
Marker == [operation : Operations, target : Claims, sourceSeal : Seal]
Attestation == [seal : Seal, target : Claims]
Database == [config : Configs, content : Contents]

ASSUME ClaimsAssumption ==
    /\ ClaimVolume \in [Claims -> Volumes]
    /\ None \notin Claims \cup Operations \cup Configs
    /\ None \notin Seal \cup Bootstrap \cup OpenEpoch \cup Marker \cup Attestation \cup Database
    /\ Deployments \subseteq Volumes \X (Claims \cup {None}) \X Configs
    /\ MaxAdmissions \in Nat

VARIABLES
    files,       \* what is on each volume
    proc,        \* each process: its stage, and what it was started with
    attested,    \* operation -> the recovery its signed evidence allows
    expired,     \* operations whose evidence has expired
    activated    \* volumes on which a recovery was authorized (history)

vars == <<files, proc, attested, expired, activated>>

-----------------------------------------------------------------------------
\* How far the database file has come: it is created without a header, gets one,
\* then its tables one by one; its row of metadata makes it a database.
Schemas == {"absent", "blank", "partial", "complete"}

\* The files of a volume.  sidecars: the WAL or its shared memory is not empty.
Files ==
    [bootstrap : {None} \cup Bootstrap,
     claim     : {None} \cup Claims,
     openEpoch : {None} \cup OpenEpoch,
     marker    : {None} \cup Marker,
     seal      : {None} \cup Seal,
     schema    : Schemas,
     database  : {None} \cup Database,
     sidecars  : BOOLEAN]

EmptyVolume ==
    [bootstrap |-> None, claim |-> None, openEpoch |-> None, marker |-> None,
     seal |-> None, schema |-> "absent", database |-> None, sidecars |-> FALSE]

Down == [stage |-> "down"]

Init ==
    /\ files = [v \in Volumes |-> EmptyVolume]
    /\ proc = [p \in Processes |-> Down]
    /\ attested = [o \in Operations |-> None]
    /\ expired = {}
    /\ activated = {}

Stage(p) == proc[p].stage
Here(p) == files[proc[p].volume]

\* acquireDurableOwnerLock: the owner of a volume holds it until it closes or dies.
Owned(v) == \E p \in Processes : Stage(p) # "down" /\ proc[p].volume = v

GoTo(p, stage) == proc' = [proc EXCEPT ![p].stage = stage]
SetFiles(p, f) == files' = [files EXCEPT ![proc[p].volume] = f]
Outside == UNCHANGED <<attested, expired, activated>>

\* One change to the files of the volume, and on to the next stage.
Change(p, f, stage) == SetFiles(p, f) /\ GoTo(p, stage) /\ Outside
Continue(p, stage) == GoTo(p, stage) /\ UNCHANGED files /\ Outside

-----------------------------------------------------------------------------
\* existingDatabaseMunicipality and hasSqliteHeader.
HasFile(f) == f.schema # "absent"
HasHeader(f) == f.schema \in {"partial", "complete"}

\* preflightRejectLegacyDurableCaseRecords: a closed database has no sidecars,
\* and a file with a header has all its tables.
PreflightOK(f) ==
    /\ f.marker # None \/ f.seal # None => ~f.sidecars
    /\ HasHeader(f) => f.schema = "complete"

\* closedDatabaseIdentity: the seal describes the closed database.
ClosedDatabaseIdentity(f, seal) ==
    /\ ~f.sidecars
    /\ f.database # None
    /\ f.database.content = seal.content

\* The signed evidence is in force, for this seal and for the process's claim.
Authorized(p, seal) ==
    /\ proc[p].operation # None
    /\ proc[p].operation \notin expired
    /\ attested[proc[p].operation] = [seal |-> seal, target |-> proc[p].claim]

\* Crash after the target's seal was written and before the marker was removed.
CompletedRecovery(p) ==
    LET f == Here(p) IN
    /\ f.marker # None /\ f.seal # None
    /\ proc[p].claim = f.marker.target
    /\ f.seal.claim = f.marker.target
    /\ f.claim = f.marker.target

\* A volume that no process has ever claimed.
Unclaimed(f) ==
    f.claim = None /\ f.marker = None /\ f.seal = None /\ f.bootstrap = None /\ f.openEpoch = None

\* Mutant: drift of the configuration is left to the database to find.
EpochSealConfigUnchecked(p) == TRUE

\* The seal whose configuration this epoch has to keep.
EpochSealConfigOK(p) ==
    LET f == Here(p) IN
    /\ f.seal # None => f.seal.config = proc[p].config
    /\ f.seal = None /\ f.marker # None => f.marker.sourceSeal.config = proc[p].config

Start(p, v, claim, config, operation) ==
    /\ Stage(p) = "down"
    /\ ~Owned(v)
    /\ claim # None => ClaimVolume[claim] = v
    /\ operation # None => claim # None
    /\ proc' = [proc EXCEPT ![p] =
         [stage |-> "locked", volume |-> v, claim |-> claim, config |-> config,
          operation |-> operation, completed |-> FALSE]]
    /\ UNCHANGED files
    /\ Outside

\* The tests before any receipt is changed.
ReceiptsOK(p) ==
    LET f == Here(p)
        claim == proc[p].claim
        config == proc[p].config
    IN
    /\ PreflightOK(f)
    /\ f.marker # None => f.bootstrap = None /\ f.openEpoch = None
    /\ f.bootstrap # None => f.seal = None
    /\ f.bootstrap # None => f.bootstrap = [claim |-> claim, config |-> config]
    /\ f.openEpoch # None =>
         /\ f.claim = claim
         /\ f.openEpoch.claim = claim
         /\ f.openEpoch.config = config
    /\ EpochSealConfigOK(p)
    /\ f.openEpoch # None /\ f.seal # None =>
         f.seal.claim = claim /\ ClosedDatabaseIdentity(f, f.seal)
    /\ Unclaimed(f) /\ claim # None => ~HasFile(f)
    /\ CompletedRecovery(p) =>
         /\ ClosedDatabaseIdentity(f, f.seal)
         /\ proc[p].operation # None =>
              /\ Authorized(p, f.marker.sourceSeal)
              /\ f.marker.operation = proc[p].operation

\* A bootstrap that has its open epoch is over.
DropBootstrap(p) ==
    LET f == Here(p) IN
    /\ Stage(p) = "locked" /\ ReceiptsOK(p)
    /\ f.bootstrap # None /\ f.openEpoch # None
    /\ Change(p, [f EXCEPT !.bootstrap = None], "reconciled")

\* Mutant: the open epoch outlives its seal.
KeepOpenEpoch(p) ==
    LET f == Here(p) IN
    /\ Stage(p) = "locked" /\ ReceiptsOK(p)
    /\ f.openEpoch # None /\ f.seal # None
    /\ Continue(p, "reconciled")

\* An epoch that has its seal was shut down.
DropOpenEpoch(p) ==
    LET f == Here(p) IN
    /\ Stage(p) = "locked" /\ ReceiptsOK(p)
    /\ f.openEpoch # None /\ f.seal # None
    /\ Change(p, [f EXCEPT !.openEpoch = None], "reconciled")

WriteBootstrap(p) ==
    LET f == Here(p) IN
    /\ Stage(p) = "locked" /\ ReceiptsOK(p)
    /\ Unclaimed(f) /\ proc[p].claim # None
    /\ Change(p, [f EXCEPT !.bootstrap = [claim |-> proc[p].claim, config |-> proc[p].config]],
              "reconciled")

\* A recovery that has its target's seal is over.
DropMarker(p) ==
    LET f == Here(p) IN
    /\ Stage(p) = "locked" /\ ReceiptsOK(p)
    /\ CompletedRecovery(p)
    /\ SetFiles(p, [f EXCEPT !.marker = None])
    /\ proc' = [proc EXCEPT ![p].stage = "reconciled", ![p].completed = TRUE]
    /\ Outside

NothingToReconcile(p) ==
    LET f == Here(p) IN
    /\ Stage(p) = "locked" /\ ReceiptsOK(p)
    /\ ~(f.openEpoch # None /\ (f.bootstrap # None \/ f.seal # None))
    /\ ~(Unclaimed(f) /\ proc[p].claim # None)
    /\ ~CompletedRecovery(p)
    /\ Continue(p, "reconciled")

-----------------------------------------------------------------------------
\* prepareRecoveryActivation is called with an authorization, unless the
\* recovery was just found to be complete.
Recovering(p) == proc[p].operation # None /\ ~proc[p].completed

SourceSeal(f) == IF f.seal # None \/ f.marker = None THEN f.seal ELSE f.marker.sourceSeal

RecoveryOK(p) ==
    LET f == Here(p)
        seal == SourceSeal(f)
    IN
    /\ f.marker # None => proc[p].operation # None
    /\ Recovering(p) =>
         /\ seal # None
         /\ seal.claim # None
         /\ f.marker # None =>
              IF f.seal # None
              THEN f.seal = f.marker.sourceSeal /\ f.claim \in {seal.claim, f.marker.target}
              ELSE f.claim = f.marker.target
         /\ f.seal # None => ClosedDatabaseIdentity(f, f.seal)
         /\ f.marker = None => f.claim = seal.claim
         /\ Authorized(p, seal)
         /\ ClaimVolume[seal.claim] # ClaimVolume[proc[p].claim]
         /\ f.marker # None =>
              f.marker = [operation |-> proc[p].operation, target |-> proc[p].claim,
                          sourceSeal |-> seal]

WriteMarker(p) ==
    LET f == Here(p) IN
    /\ Stage(p) = "reconciled" /\ RecoveryOK(p)
    /\ Recovering(p) /\ f.marker = None
    /\ SetFiles(p, [f EXCEPT !.marker = [operation |-> proc[p].operation,
                                         target |-> proc[p].claim, sourceSeal |-> f.seal]])
    /\ GoTo(p, "marked")
    /\ activated' = activated \cup {proc[p].volume}
    /\ UNCHANGED <<attested, expired>>

ResumeRecovery(p) ==
    /\ Stage(p) = "reconciled" /\ RecoveryOK(p)
    /\ Recovering(p) /\ Here(p).marker # None
    /\ Continue(p, "marked")

NoRecovery(p) ==
    /\ Stage(p) = "reconciled" /\ RecoveryOK(p)
    /\ ~Recovering(p)
    /\ Continue(p, "claiming")

\* replaceCanonicalCaseDurableDeploymentClaim, unless an earlier attempt did it.
RotateClaim(p) ==
    /\ Stage(p) = "marked"
    /\ Change(p, [Here(p) EXCEPT !.claim = proc[p].claim], "claiming")

-----------------------------------------------------------------------------
\* Mutant: a process without a claim may open a claimed volume.
ClaimOptional(p) ==
    LET f == Here(p) IN
    f.claim # None /\ proc[p].claim # None => proc[p].claim = f.claim

ClaimOK(p) ==
    LET f == Here(p) IN
    IF f.claim # None THEN proc[p].claim = f.claim
    ELSE proc[p].claim # None =>
           /\ f.bootstrap # None /\ f.bootstrap.claim = proc[p].claim
           /\ ~HasFile(f) /\ f.seal = None /\ f.marker = None /\ f.openEpoch = None

\* writeCanonicalCaseDurableDeploymentClaim on a bootstrapped volume; a claim
\* that is there already stays.
WriteClaim(p) ==
    /\ Stage(p) = "claiming" /\ ClaimOK(p)
    /\ Change(p, [Here(p) EXCEPT !.claim = IF @ = None THEN proc[p].claim ELSE @], "opening")

OpenOK(p) ==
    LET f == Here(p)
        claim == proc[p].claim
    IN
    /\ f.marker # None => f.bootstrap = None /\ f.openEpoch = None
    /\ f.bootstrap # None => f.openEpoch = None /\ f.seal = None
    /\ EpochSealConfigOK(p)
    /\ f.seal # None =>
         IF f.marker # None
         THEN f.claim = f.marker.target /\ f.seal = f.marker.sourceSeal
         ELSE f.seal.claim = f.claim
    /\ f.seal # None /\ f.marker = None /\ claim # None =>
         f.claim = claim /\ f.openEpoch = None

\* The baseline of the new epoch is the seal that is about to be removed.
WriteOpenEpoch(p) ==
    LET f == Here(p) IN
    /\ Stage(p) = "opening" /\ OpenOK(p)
    /\ f.seal # None /\ f.marker = None /\ proc[p].claim # None
    /\ Change(p, [f EXCEPT !.openEpoch = [claim |-> proc[p].claim, config |-> proc[p].config,
                                          baseline |-> f.seal]], "invalidating")

KeepEpoch(p) ==
    LET f == Here(p) IN
    /\ Stage(p) = "opening" /\ OpenOK(p)
    /\ f.seal = None \/ f.marker # None \/ proc[p].claim = None
    /\ Continue(p, "invalidating")

InvalidateOK(p) ==
    LET f == Here(p) IN
    /\ IF f.marker # None THEN HasHeader(f)
       ELSE IF f.openEpoch # None THEN f.claim = f.openEpoch.claim /\ HasHeader(f)
       ELSE IF f.bootstrap # None THEN f.claim = f.bootstrap.claim
       ELSE proc[p].claim = None
    /\ f.seal # None => f.database # None /\ f.database.content = f.seal.content

\* Mutant: the seal stays until the next one replaces it.
KeepPriorSeal(p) ==
    /\ Stage(p) = "invalidating" /\ InvalidateOK(p)
    /\ Continue(p, "connecting")

\* invalidatePriorSeal, before the database is opened.
InvalidatePriorSeal(p) ==
    /\ Stage(p) = "invalidating" /\ InvalidateOK(p)
    /\ Change(p, [Here(p) EXCEPT !.seal = None], "connecting")

-----------------------------------------------------------------------------
\* assertRecoveryEvidenceDominated: nothing of the last clean state is gone.
Baseline(f) ==
    IF f.marker # None THEN f.marker.sourceSeal.content
    ELSE IF f.openEpoch # None THEN f.openEpoch.baseline.content
    ELSE <<>>

\* Only a volume without a baseline gets a new database.
ConnectOK(p) ==
    LET f == Here(p) IN
    IF f.database # None
    THEN f.database.config = proc[p].config /\ IsPrefix(Baseline(f), f.database.content)
    ELSE f.marker = None /\ f.openEpoch = None

\* Where the database is open and complete.
Opened(f) == IF f.bootstrap # None THEN "bootstrapping" ELSE "running"

\* openMunicipalDatabase of a database that is there ...
Connect(p) ==
    LET f == Here(p) IN
    /\ Stage(p) = "connecting" /\ ConnectOK(p)
    /\ f.database # None
    /\ Change(p, [f EXCEPT !.sidecars = TRUE], Opened(f))

\* ... and of one that is not: the file is created, or one that an earlier
\* attempt left is taken up ...
CreateFile(p) ==
    LET f == Here(p) IN
    /\ Stage(p) = "connecting" /\ ConnectOK(p)
    /\ f.database = None
    /\ Change(p, [f EXCEPT !.schema = IF @ = "absent" THEN "blank" ELSE @], "creating")

\* ... PRAGMA journal_mode writes its header ...
WriteHeader(p) ==
    LET f == Here(p) IN
    /\ Stage(p) = "creating" /\ f.schema = "blank"
    /\ Change(p, [f EXCEPT !.schema = "partial", !.sidecars = TRUE], "creating")

\* ... ensureSchema creates the tables, each in a transaction of its own ...
CreateTables(p) ==
    LET f == Here(p) IN
    /\ Stage(p) = "creating" /\ f.schema = "partial"
    /\ Change(p, [f EXCEPT !.schema = "complete", !.sidecars = TRUE], "creating")

\* ... and the row of metadata pins the configuration.
InsertMeta(p) ==
    LET f == Here(p) IN
    /\ Stage(p) = "creating" /\ f.schema = "complete"
    /\ Change(p, [f EXCEPT !.database = [config |-> proc[p].config, content |-> <<>>],
                           !.sidecars = TRUE], Opened(f))

\* Mutant: the bootstrap receipt goes before the first epoch is written.
CloseForBaselineUnreceipted(p) ==
    /\ Stage(p) = "bootstrapping"
    /\ Change(p, [Here(p) EXCEPT !.sidecars = FALSE, !.bootstrap = None], "baselined")

\* The first database of a volume is closed again to take its baseline.
CloseForBaseline(p) ==
    /\ Stage(p) = "bootstrapping"
    /\ Change(p, [Here(p) EXCEPT !.sidecars = FALSE], "baselined")

WriteFirstEpoch(p) ==
    LET f == Here(p) IN
    /\ Stage(p) = "baselined"
    /\ Change(p, [f EXCEPT !.openEpoch =
         [claim |-> f.claim, config |-> proc[p].config,
          baseline |-> [claim |-> f.claim, config |-> proc[p].config,
                        content |-> f.database.content]]], "transition")

EndBootstrap(p) ==
    /\ Stage(p) = "transition"
    /\ Change(p, [Here(p) EXCEPT !.bootstrap = None], "reopening")

Reopen(p) ==
    /\ Stage(p) = "reopening"
    /\ Change(p, [Here(p) EXCEPT !.sidecars = TRUE], "running")

-----------------------------------------------------------------------------
\* A committed admission or continuation.
Admit(p) ==
    LET f == Here(p) IN
    /\ Stage(p) = "running"
    /\ Len(f.database.content) < MaxAdmissions
    /\ Change(p, [f EXCEPT !.database.content = Append(@, proc[p].volume)], "running")

\* sealAndClose: checkpoint and close the database ...
CheckpointAndClose(p) ==
    /\ Stage(p) = "running"
    /\ Change(p, [Here(p) EXCEPT !.sidecars = FALSE], "closed")

\* ... write the seal ...
WriteSeal(p) ==
    LET f == Here(p) IN
    /\ Stage(p) = "closed"
    /\ Change(p, [f EXCEPT !.seal = [claim |-> f.claim, config |-> proc[p].config,
                                     content |-> f.database.content]], "sealed")

\* ... then remove the receipts the seal supersedes, and release the lock.
RemoveMarker(p) ==
    /\ Stage(p) = "sealed"
    /\ Change(p, [Here(p) EXCEPT !.marker = None], "unmarked")

RemoveOpenEpoch(p) ==
    /\ Stage(p) = "unmarked"
    /\ SetFiles(p, [Here(p) EXCEPT !.openEpoch = None])
    /\ proc' = [proc EXCEPT ![p] = Down]
    /\ Outside

\* close: no seal; SQLite checkpoints when its last connection closes.
Close(p) ==
    /\ Stage(p) \in {"running", "closed", "sealed", "unmarked"}
    /\ SetFiles(p, [Here(p) EXCEPT !.sidecars = FALSE])
    /\ proc' = [proc EXCEPT ![p] = Down]
    /\ Outside

\* A startup test fails: a database that was opened for it is closed, the lock
\* is released and the constructor throws.
Refused(p) ==
    \/ Stage(p) = "locked" /\ ~ReceiptsOK(p)
    \/ Stage(p) = "reconciled" /\ ~RecoveryOK(p)
    \/ Stage(p) = "claiming" /\ ~ClaimOK(p)
    \/ Stage(p) = "opening" /\ ~OpenOK(p)
    \/ Stage(p) = "invalidating" /\ ~InvalidateOK(p)
    \/ Stage(p) = "connecting" /\ ~ConnectOK(p)

Refuse(p) ==
    /\ Refused(p)
    /\ SetFiles(p, IF Stage(p) = "connecting" THEN [Here(p) EXCEPT !.sidecars = FALSE]
                   ELSE Here(p))
    /\ proc' = [proc EXCEPT ![p] = Down]
    /\ Outside

\* The process dies; its lock goes with it, the sidecars of its database stay.
Crash(p) ==
    /\ Stage(p) # "down"
    /\ proc' = [proc EXCEPT ![p] = Down]
    /\ UNCHANGED files
    /\ Outside

-----------------------------------------------------------------------------
\* Operations, outside this code: copy a volume nobody owns to an empty one,
\* attest the recovery of a sealed volume under a new claim, and let the
\* attestation expire.
Restore(v, w) ==
    /\ ~Owned(v) /\ ~Owned(w)
    /\ files[v].database # None
    /\ files[w] = EmptyVolume
    /\ files' = [files EXCEPT ![w] = files[v]]
    /\ UNCHANGED proc
    /\ Outside

Attest(operation, v, claim) ==
    /\ attested[operation] = None
    /\ files[v].seal # None
    /\ ClaimVolume[claim] = v
    /\ attested' = [attested EXCEPT ![operation] = [seal |-> files[v].seal, target |-> claim]]
    /\ UNCHANGED <<files, proc, expired, activated>>

Expire(operation) ==
    /\ attested[operation] # None
    /\ expired' = expired \cup {operation}
    /\ UNCHANGED <<files, proc, attested, activated>>

Open(p) ==
    \/ DropBootstrap(p) \/ DropOpenEpoch(p) \/ WriteBootstrap(p) \/ DropMarker(p)
    \/ NothingToReconcile(p) \/ WriteMarker(p) \/ ResumeRecovery(p) \/ NoRecovery(p)
    \/ RotateClaim(p) \/ WriteClaim(p) \/ WriteOpenEpoch(p) \/ KeepEpoch(p)
    \/ InvalidatePriorSeal(p) \/ Connect(p) \/ CreateFile(p) \/ WriteHeader(p)
    \/ CreateTables(p) \/ InsertMeta(p) \/ CloseForBaseline(p) \/ WriteFirstEpoch(p)
    \/ EndBootstrap(p) \/ Reopen(p) \/ Refuse(p)

Run(p) ==
    \/ Admit(p) \/ CheckpointAndClose(p) \/ WriteSeal(p) \/ RemoveMarker(p)
    \/ RemoveOpenEpoch(p) \/ Close(p) \/ Crash(p)

Next ==
    \/ \E p \in Processes, d \in Deployments, o \in Operations \cup {None} :
          Start(p, d[1], d[2], d[3], o)
    \/ \E p \in Processes : Open(p) \/ Run(p)
    \/ \E v, w \in Volumes : Restore(v, w)
    \/ \E o \in Operations, v \in Volumes, c \in Claims : Attest(o, v, c)
    \/ \E o \in Operations : Expire(o)

Spec == Init /\ [][Next]_vars

-----------------------------------------------------------------------------
Connected(v) ==
    \E p \in Processes :
        Stage(p) \in {"creating", "bootstrapping", "running"} /\ proc[p].volume = v

Stages == {"locked", "reconciled", "marked", "claiming", "opening", "invalidating",
           "connecting", "creating", "bootstrapping", "baselined", "transition", "reopening",
           "running", "closed", "sealed", "unmarked"}

\* Type invariant.
TypeOK ==
    /\ files \in [Volumes -> Files]
    /\ proc \in [Processes -> {Down} \cup
         [stage : Stages, volume : Volumes, claim : Claims \cup {None}, config : Configs,
          operation : Operations \cup {None}, completed : BOOLEAN]]
    /\ attested \in [Operations -> {None} \cup Attestation]
    /\ expired \subseteq Operations
    /\ activated \subseteq Volumes

\* A seal is never stale: while it lies on a volume nobody has the database
\* open, and the database is byte for byte the one that was sealed.  So no
\* crash after a new owner opened the store leaves a certificate behind.
SealCertifies ==
    \A v \in Volumes : files[v].seal # None =>
        /\ ClosedDatabaseIdentity(files[v], files[v].seal)
        /\ files[v].database.config = files[v].seal.config
        /\ ~Connected(v)

\* Every state a crash can leave is one of the honest ones: a recovery marker
\* never mixes with bootstrap or epoch receipts, a marked volume that still
\* has its source claim still has its source seal, and an open database has a
\* receipt that tells its last clean state, which it still contains.
HonestCrashStates ==
    \A v \in Volumes : LET f == files[v] IN
        /\ f.marker # None => f.bootstrap = None /\ f.openEpoch = None
        /\ f.marker # None /\ f.claim # f.marker.target => f.seal = f.marker.sourceSeal
        /\ f.bootstrap # None => f.seal = None
        /\ f.database # None /\ f.claim # None =>
             f.bootstrap # None \/ f.openEpoch # None \/ f.marker # None \/ f.seal # None
        /\ f.database # None => IsPrefix(Baseline(f), f.database.content)

\* A copy of a claimed volume is opened only after a recovery was authorized
\* for it: no ordinary startup brings up a second live copy of the state.
CopiesNeedRecovery ==
    \A v \in Volumes :
        Connected(v) /\ files[v].database # None /\ files[v].claim # None /\ v \notin activated =>
        \A i \in 1..Len(files[v].database.content) : files[v].database.content[i] = v

\* A start with the claim, the configuration and, if a recovery is under way,
\* the evidence that belong to the volume.
ExactRetry(p) ==
    LET f == Here(p) IN
    /\ IF f.marker # None THEN f.marker.target = proc[p].claim
       ELSE IF f.bootstrap # None
            THEN f.bootstrap = [claim |-> proc[p].claim, config |-> proc[p].config]
            ELSE f.claim = proc[p].claim
    /\ f.database # None => f.database.config = proc[p].config
    /\ IF f.marker = None THEN proc[p].operation = None
       ELSE f.marker.operation = proc[p].operation /\ proc[p].operation \notin expired

\* Wherever a process died, starting it again the same way succeeds, with two
\* exceptions: an open recovered database leaves sidecars behind
\* (InterruptedRecoveryResumes), and a process that died between the header and
\* the last table of a new database leaves one that no start accepts any more.
RetrySucceeds ==
    \A p \in Processes :
        Stage(p) # "down" /\ ExactRetry(p) /\ Refused(p) =>
            \/ Here(p).marker # None /\ Here(p).sidecars
            \/ Here(p).schema = "partial"

\* "The only legal interrupted recovery states are: ... marker plus target claim
\* without local source seal (after invalidation or while the recovered database
\* is open)": a retry with exact, unexpired evidence is not refused there.
InterruptedRecoveryResumes ==
    \A p \in Processes :
        Stage(p) # "down" /\ ExactRetry(p) /\ Here(p).marker # None => ~Refused(p)

WithoutSidecars(f) == [f EXCEPT !.sidecars = FALSE]

\* A start with a configuration other than the database's changes no receipt
\* and no content of the volume: all stays for inspection and an exact retry.
WrongConfigTouchesNothing ==
    [][\A p \in Processes :
         (Stage(p) # "down" /\ Here(p).database # None
            /\ Here(p).database.config # proc[p].config)
           => WithoutSidecars(files'[proc[p].volume])
                = WithoutSidecars(files[proc[p].volume])]_vars
=============================================================================
