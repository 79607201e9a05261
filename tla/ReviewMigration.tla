---------------------------- MODULE ReviewMigration ----------------------------
(***************************************************************************)
(* activateSyntheticDepartmentReviewMigration of                           *)
(* src/src/adapters/sqlite-atomic-topic-case-admission.ts: an admitted     *)
(* case is imported from a sealed source volume to an empty target volume, *)
(* under a new configuration, one file at a time; the activation may die   *)
(* between any two, or fail when the plan or the clock changes under it.   *)
(* The ordinary owner of either volume starts, admits, seals and dies in   *)
(* between; its own startup in detail is DurableCaseStore's, here it is    *)
(* one step.                                                               *)
(*                                                                         *)
(* A checksum is what it digests, so a candidate is the seal it was made   *)
(* from.  A rehearsal checks the source again before it returns, so it is  *)
(* one step too.  Recovery markers do not occur.                           *)
(***************************************************************************)
EXTENDS Naturals, Sequences, SequencesExt

CONSTANTS
    MaxTime,       \* bound on the clock
    Window,        \* validity of a plan
    MaxContent,    \* bound on what is written to a database
    MaxSealings,   \* bound on the seals of one volume
    None

ASSUME MigrationAssumption == {MaxTime, Window, MaxContent, MaxSealings} \subseteq Nat \ {0}

VARIABLES
    files,      \* what is on each volume
    owner,      \* whether a volume's ordinary owner is "down" or "running"
    sealings,   \* how often a volume was sealed
    clock,      \* may be set back
    rehearsed,  \* candidates that a rehearsal returned
    plan,       \* the reviewed plan that Operations provides, with its pin
    run         \* the activation

vars == <<files, owner, sealings, clock, rehearsed, plan, run>>

Volumes == {"source", "target"}
Times == 0..MaxTime
Config == [source |-> "admission", target |-> "review"]

EmptyVolume ==
    [database |-> None, sidecars |-> FALSE, claim |-> None, seal |-> None, openEpoch |-> None,
     intent |-> None, copy |-> FALSE, receipt |-> None]

Seal(v, content, now) ==
    [claim |-> v, config |-> Config[v], content |-> content, closedAt |-> now]

\* closedDatabaseIdentity
Closed(f, seal) ==
    /\ ~f.sidecars
    /\ f.database = [config |-> seal.config, content |-> seal.content]

\* What the files hold; the epoch of a volume that began empty has no baseline.
Databases == [config : {"admission", "review"}, content : Seq(Volumes)]
Seals == [claim : Volumes, config : {"admission", "review"}, content : Seq(Volumes), closedAt : Times]
Epochs == [baselineSeal : Seals \cup {None}]
Plans == [candidate : Seals, notBefore : Times, expires : Nat]
Intents == [plan : Plans, sourceSeal : Seals, startedAt : Times]
Receipts == [plan : Plans, sourceSeal : Seals, startedAt : Times, targetSeal : Seals]
VolumeFiles ==
    [database : Databases \cup {None}, sidecars : BOOLEAN, claim : Volumes \cup {None},
     seal : Seals \cup {None}, openEpoch : Epochs \cup {None}, intent : Intents \cup {None},
     copy : BOOLEAN, receipt : Receipts \cup {None}]

\* A file that is not there is none of those that are.
ASSUME NoneAssumption ==
    None \notin Volumes \cup Databases \cup Seals \cup Epochs \cup Plans \cup Intents \cup Receipts

Down(result) == [stage |-> "down", result |-> result]

\* A source that was sealed after its one admission, and an empty target.
Init ==
    /\ LET seal == Seal("source", <<"source">>, 0) IN
       files = [source |-> [EmptyVolume EXCEPT !.claim = "source", !.seal = seal,
                               !.database = [config |-> seal.config, content |-> seal.content]],
                target |-> EmptyVolume]
    /\ owner = [v \in Volumes |-> "down"]
    /\ sealings = [v \in Volumes |-> 0]
    /\ clock = 0
    /\ rehearsed = {} /\ plan = None
    /\ run = Down(None)

-----------------------------------------------------------------------------
(* The ordinary owner of a volume.  An activation holds both locks.        *)

\* Mutant: a valid seal lets a volume with an intent start.
OpenAlthoughIntended(f, v) ==
    \/ f.seal # None /\ f.claim = v /\ f.seal.config = Config[v] /\ Closed(f, f.seal)
    \/ f.openEpoch # None
    \/ f = EmptyVolume

\* Startup goes on from a seal, from an open epoch or from nothing.
OpenOK(f, v) ==
    /\ f.intent = None
    /\ \/ f.seal # None /\ f.claim = v /\ f.seal.config = Config[v] /\ Closed(f, f.seal)
       \/ f.openEpoch # None
       \/ f = EmptyVolume

OwnerOpens(v) ==
    LET f == files[v] IN
    /\ owner[v] = "down" /\ run.stage = "down"
    /\ OpenOK(f, v)
    /\ owner' = [owner EXCEPT ![v] = "running"]
    /\ files' = [files EXCEPT ![v] =
         [f EXCEPT !.claim = v, !.seal = None, !.sidecars = TRUE,
                   !.openEpoch = IF @ # None THEN @ ELSE [baselineSeal |-> f.seal],
                   !.database = IF @ = None THEN [config |-> Config[v], content |-> <<>>] ELSE @]]
    /\ UNCHANGED <<sealings, clock, rehearsed, plan, run>>

OwnerWrites(v) ==
    /\ owner[v] = "running"
    /\ Len(files[v].database.content) < MaxContent
    /\ files' = [files EXCEPT ![v].database.content = Append(@, v)]
    /\ UNCHANGED <<owner, sealings, clock, rehearsed, plan, run>>

\* sealAndClose
OwnerSeals(v) ==
    /\ owner[v] = "running"
    /\ sealings[v] < MaxSealings
    /\ sealings' = [sealings EXCEPT ![v] = @ + 1]
    /\ owner' = [owner EXCEPT ![v] = "down"]
    /\ files' = [files EXCEPT ![v] = [@ EXCEPT !.sidecars = FALSE, !.openEpoch = None,
                                               !.seal = Seal(v, files[v].database.content, clock)]]
    /\ UNCHANGED <<clock, rehearsed, plan, run>>

OwnerDies(v) ==
    /\ owner[v] = "running"
    /\ owner' = [owner EXCEPT ![v] = "down"]
    /\ UNCHANGED <<files, sealings, clock, rehearsed, plan, run>>

-----------------------------------------------------------------------------
(* Operations                                                              *)

\* prepareSyntheticDepartmentReviewMigration: a clean shutdown with one case.
PrepareOK(f) ==
    /\ f.seal # None /\ f.openEpoch = None
    /\ f.seal.config = Config["source"] /\ Len(f.seal.content) = 1
    /\ Closed(f, f.seal)
    /\ f.claim = f.seal.claim

Rehearse ==
    /\ PrepareOK(files["source"])
    /\ rehearsed' = rehearsed \cup {files["source"].seal}
    /\ UNCHANGED <<files, owner, sealings, clock, plan, run>>

\* A plan for a candidate, in force from now on.
Review(candidate) ==
    /\ plan' = [candidate |-> candidate, notBefore |-> clock, expires |-> clock + Window]
    /\ UNCHANGED <<files, owner, sealings, clock, rehearsed, run>>

SetClock(now) ==
    /\ now # clock
    /\ clock' = now
    /\ UNCHANGED <<files, owner, sealings, rehearsed, plan, run>>

-----------------------------------------------------------------------------
(* activateSyntheticDepartmentReviewMigration                              *)

Source == files["source"]
Target == files["target"]
InForce == plan # None /\ plan.notBefore <= clock /\ clock < plan.expires

\* The database that the candidate imports.
Imported(candidate) == [config |-> Config["target"], content |-> candidate.content]

\* Mutant: an attempt starts at its own time.
StartedNow == clock

\* An attempt goes on from the start that an earlier one has left.
StartedAt ==
    IF Target.intent # None THEN Target.intent.startedAt
    ELSE IF Target.receipt # None THEN Target.receipt.startedAt ELSE clock

Intent == [plan |-> plan, sourceSeal |-> Source.seal, startedAt |-> StartedAt]
Receipt(intent, seal) ==
    [plan |-> intent.plan, sourceSeal |-> intent.sourceSeal, startedAt |-> intent.startedAt,
     targetSeal |-> seal]

\* assertTargetSeal, of an attempt that began at the time now.
TargetSealOK(seal, intent, now) ==
    /\ seal.claim = "target"
    /\ [config |-> seal.config, content |-> seal.content] = Imported(intent.plan.candidate)
    /\ intent.startedAt <= seal.closedAt /\ seal.closedAt < intent.plan.expires
    /\ seal.closedAt <= now
    /\ Closed(Target, seal)

\* What the target may hold when an attempt begins.
TargetStateOK ==
    LET f == Target IN
    /\ f.openEpoch = None /\ ~f.sidecars
    /\ f.claim \in {None, "target"}
    /\ f.database = None => f.claim = None /\ f.seal = None
    /\ f.seal # None => f.claim # None
    /\ f.receipt # None => f.seal # None
    /\ f.intent = None /\ f.receipt = None =>
          f.database = None /\ f.claim = None /\ f.seal = None /\ ~f.copy
    /\ f.intent # None \/ f.receipt # None => plan.notBefore <= StartedAt /\ StartedAt <= clock
    /\ f.intent # None => f.intent = Intent

BeginOK ==
    /\ InForce
    /\ PrepareOK(Source) /\ Source.seal = plan.candidate
    /\ Source.seal.closedAt <= clock
    /\ TargetStateOK

\* Both locks are taken; nothing is written yet.
Begin ==
    /\ run.stage = "down"
    /\ \A v \in Volumes : owner[v] = "down"
    /\ BeginOK
    /\ run' = [stage |-> "checked", intent |-> Intent, began |-> clock, verifiedAt |-> clock]
    /\ UNCHANGED <<files, owner, sealings, clock, rehearsed, plan>>

\* fresh: plan and clock are read again before each write; the source cannot
\* have changed, its lock is held.
Fresh ==
    /\ InForce /\ plan = run.intent.plan
    /\ clock >= run.verifiedAt /\ clock >= run.intent.startedAt

TargetBytesOK ==
    Target.database = Imported(run.intent.plan.candidate) /\ ~Target.sidecars

\* One write of the activation, and on to the next stage.
Write(f, stage) ==
    /\ Fresh
    /\ files' = [files EXCEPT !["target"] = f]
    /\ run' = [run EXCEPT !.stage = stage, !.verifiedAt = clock]
    /\ UNCHANGED <<owner, sealings, clock, rehearsed, plan>>

Return(f, receipt) ==
    /\ Fresh
    /\ files' = [files EXCEPT !["target"] = f]
    /\ run' = Down(receipt)
    /\ UNCHANGED <<owner, sealings, clock, rehearsed, plan>>

\* The earlier receipt is what this attempt would write.
EarlierReceiptOK ==
    /\ TargetSealOK(Target.seal, run.intent, run.began)
    /\ Target.receipt = Receipt(run.intent, Target.seal)

FinishEarlier ==
    /\ run.stage = "checked" /\ Target.receipt # None
    /\ EarlierReceiptOK
    /\ Return([Target EXCEPT !.intent = None], Target.receipt)

WriteIntent ==
    /\ run.stage = "checked" /\ Target.receipt = None
    /\ Write([Target EXCEPT !.intent = run.intent], "intended")

\* The copy is written beside the database, after an older one was removed;
\* fresh is not consulted before it.
CopyDatabase ==
    /\ run.stage = "intended" /\ Target.database = None
    /\ files' = [files EXCEPT !["target"].copy = TRUE]
    /\ run' = [run EXCEPT !.stage = "copied"]
    /\ UNCHANGED <<owner, sealings, clock, rehearsed, plan>>

RenameDatabase ==
    /\ run.stage = "copied"
    /\ Write([Target EXCEPT !.copy = FALSE, !.database = Imported(run.intent.plan.candidate)], "imported")

KeepDatabase ==
    /\ run.stage = "intended" /\ Target.database # None
    /\ run' = [run EXCEPT !.stage = "imported"]
    /\ UNCHANGED <<files, owner, sealings, clock, rehearsed, plan>>

WriteClaim ==
    /\ run.stage = "imported" /\ TargetBytesOK
    /\ Write([Target EXCEPT !.claim = "target"], "claimed")

WriteSeal ==
    /\ run.stage = "claimed" /\ TargetBytesOK
    /\ Target.seal # None => TargetSealOK(Target.seal, run.intent, run.began)
    /\ Write([Target EXCEPT !.seal = IF @ # None THEN @
                ELSE Seal("target", run.intent.plan.candidate.content, clock)], "sealed")

WriteReceipt ==
    /\ run.stage = "sealed" /\ TargetBytesOK
    /\ Write([Target EXCEPT !.receipt = Receipt(run.intent, Target.seal)], "receipted")

RemoveIntent ==
    /\ run.stage = "receipted" /\ TargetBytesOK
    /\ Return([Target EXCEPT !.intent = None], Target.receipt)

\* A check fails or the process dies; the locks go with it.
ActivationEnds ==
    /\ run.stage # "down"
    /\ run' = Down(None)
    /\ UNCHANGED <<files, owner, sealings, clock, rehearsed, plan>>

Activation ==
    \/ Begin \/ FinishEarlier \/ WriteIntent \/ CopyDatabase \/ RenameDatabase \/ KeepDatabase
    \/ WriteClaim \/ WriteSeal \/ WriteReceipt \/ RemoveIntent \/ ActivationEnds

Next ==
    \/ \E v \in Volumes : OwnerOpens(v) \/ OwnerWrites(v) \/ OwnerSeals(v) \/ OwnerDies(v)
    \/ Rehearse
    \/ \E candidate \in rehearsed : Review(candidate)
    \/ \E now \in Times : SetClock(now)
    \/ Activation

Spec == Init /\ [][Next]_vars

-----------------------------------------------------------------------------
Stages == {"down", "checked", "intended", "copied", "imported", "claimed", "sealed", "receipted"}

\* Type invariant: an activation holds both volumes, and an open database is
\* in an epoch.
TypeOK ==
    /\ clock \in Times /\ run.stage \in Stages
    /\ owner \in [Volumes -> {"down", "running"}]
    /\ run.stage # "down" => \A v \in Volumes : owner[v] = "down"
    /\ \A v \in Volumes : owner[v] = "running" =>
          files[v].openEpoch # None /\ files[v].database # None /\ files[v].seal = None

\* The times a receipt and its seals name are in the order of the events.
TimesAreOrdered(r) ==
    /\ r.sourceSeal.closedAt <= r.startedAt
    /\ r.plan.notBefore <= r.startedAt
    /\ r.startedAt <= r.targetSeal.closedAt
    /\ r.targetSeal.closedAt < r.plan.expires

\* "An imported database becomes an ordinary sealed store only after the
\* reviewed migration commits its receipt and removes its intent": wherever
\* an activation died, nobody serves the case from the target before.  The
\* receipt it is served under names the sealed store that was imported, and its
\* times are in order even if the clock was set back between two attempts.
ServedOnlyWhenComplete ==
    owner["target"] = "running" /\ "source" \in Range(Target.database.content) =>
        /\ Target.intent = None
        /\ Target.receipt # None
        /\ IsPrefix(Target.receipt.sourceSeal.content, Target.database.content)
        /\ TimesAreOrdered(Target.receipt)

\* The intent or the receipt that an interrupted import has left.
LeftBehind == IF Target.intent # None THEN Target.intent ELSE Target.receipt

Writes ==
    \/ FinishEarlier \/ WriteIntent \/ CopyDatabase \/ RenameDatabase \/ KeepDatabase
    \/ WriteClaim \/ WriteSeal \/ WriteReceipt \/ RemoveIntent

\* Wherever an activation died, the same plan resumes it as long as it is in
\* force, the clock has not gone back and the source is sealed as it was, and
\* the new attempt gets through all its checks; a completed one is confirmed
\* until the target is opened.
ExactImportResumes ==
    /\ (/\ run.stage = "down" /\ LeftBehind # None
        /\ LeftBehind.plan = plan /\ LeftBehind.sourceSeal = Source.seal
        /\ InForce /\ clock >= LeftBehind.startedAt
        /\ Target.openEpoch = None /\ owner["source"] = "down")
       => BeginOK
    /\ (/\ run.stage # "down" /\ Fresh
        /\ Target.seal # None => Target.seal.closedAt <= run.began \/ run.stage \in {"sealed", "receipted"}
        /\ Target.receipt # None =>
             Target.receipt.plan = plan /\ Target.receipt.targetSeal = Target.seal)
       => ENABLED Writes
=============================================================================
