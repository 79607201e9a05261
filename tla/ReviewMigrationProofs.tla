------------------------- MODULE ReviewMigrationProofs -------------------------
(***************************************************************************)
(* Theorems about ReviewMigration, for every clock range, plan validity,   *)
(* database length and number of seals: wherever an activation dies, and   *)
(* however often.                                                          *)
(***************************************************************************)
EXTENDS ReviewMigration, SequenceTheorems, TLAPS

\* A volume: open databases are in an epoch, and a seal is of what is there.
VolumeOK(v, f) ==
    /\ f \in VolumeFiles
    /\ f.openEpoch = None => ~f.sidecars
    /\ f.openEpoch # None => f.database # None /\ f.claim = v /\ f.seal = None /\ f.intent = None
    /\ f.seal # None =>
          Closed(f, f.seal) /\ f.seal.claim = v /\ f.seal.config = Config[v] /\ f.claim = v
    /\ f.claim \in {None, v}
    /\ f.database = None => f.claim = None
    /\ f.database # None => f.database.config = Config[v]
VolumesOK ==
    /\ DOMAIN files = Volumes
    /\ \A v \in Volumes : VolumeOK(v, files[v])
    /\ owner \in [Volumes -> {"down", "running"}]
    /\ \A v \in Volumes : owner[v] = "running" => files[v].openEpoch # None

\* An intent, or the receipt made of it, is for the sealed source that its
\* plan reviewed, and was begun in order.
IntentOK(i) ==
    /\ i.sourceSeal = i.plan.candidate
    /\ Len(i.sourceSeal.content) = 1
    /\ i.sourceSeal.closedAt <= i.startedAt
    /\ i.plan.notBefore <= i.startedAt

\* A seal of the target that an import under this intent has written.
SealFor(seal, i) ==
    /\ seal.claim = "target"
    /\ seal.config = Config["target"]
    /\ seal.content = i.plan.candidate.content
    /\ i.startedAt <= seal.closedAt /\ seal.closedAt < i.plan.expires

Extends(content, beginning) ==
    Len(beginning) <= Len(content) /\ \A i \in 1..Len(beginning) : content[i] = beginning[i]

\* The target: what an import has left is consistent with its intent, what
\* it has completed with its receipt, and without either nothing was imported.
IntendedOK(f) ==
    f.intent # None =>
       /\ IntentOK(f.intent)
       /\ f.database # None => f.database = Imported(f.intent.plan.candidate)
       /\ f.seal # None => SealFor(f.seal, f.intent)
       /\ f.receipt # None => f.seal # None /\ f.receipt = Receipt(f.intent, f.seal)
ReceiptedOK(f) ==
    f.receipt # None =>
       /\ IntentOK(f.receipt)
       /\ SealFor(f.receipt.targetSeal, f.receipt)
       /\ f.database # None
       /\ Extends(f.database.content, f.receipt.sourceSeal.content)
       /\ f.openEpoch = None => f.seal # None
NotImported(f) ==
    f.intent = None /\ f.receipt = None /\ f.database # None =>
       \A i \in 1..Len(f.database.content) : f.database.content[i] = "target"
TargetOK(f) == IntendedOK(f) /\ ReceiptedOK(f) /\ NotImported(f)

\* An attempt: its stage says what is on the target, and the intent there is
\* its own.
Attempts == [stage : Stages \ {"down"}, intent : Intents, began : Times, verifiedAt : Times]
StageOK(r, f) ==
    /\ r.stage = "checked" /\ f.intent = None /\ f.receipt = None => f.database = None /\ f.seal = None
    /\ r.stage = "checked" /\ f.receipt # None => r.intent.startedAt = f.receipt.startedAt
    /\ r.stage # "checked" => f.intent # None
    /\ r.stage \notin {"checked", "receipted"} => f.receipt = None
    /\ r.stage = "copied" => f.database = None
    /\ r.stage \in {"imported", "claimed", "sealed", "receipted"} => f.database # None
    /\ r.stage \in {"claimed", "sealed", "receipted"} => f.claim # None
    /\ r.stage \in {"sealed", "receipted"} => f.seal # None
    /\ r.stage = "receipted" => f.receipt # None
RunOK(r, f) ==
    r.stage # "down" =>
       /\ r \in Attempts
       /\ f.openEpoch = None
       /\ r.intent.sourceSeal = r.intent.plan.candidate
       /\ f.receipt = None \/ f.intent # None => IntentOK(r.intent)
       /\ f.intent # None => f.intent = r.intent
       /\ StageOK(r, f)

ClockOK ==
    /\ clock \in Times
    /\ rehearsed \subseteq Seals
    /\ plan \in Plans \cup {None}
    /\ run.stage \in Stages
    /\ run.stage # "down" => \A v \in Volumes : owner[v] = "down"

IInv == VolumesOK /\ TargetOK(Target) /\ ClockOK /\ RunOK(run, Target)

\* What an attempt that has found the plan in force still has to pass.
ChecksPass ==
    /\ run.stage = "checked" /\ Target.receipt # None => EarlierReceiptOK
    /\ run.stage \in {"imported", "claimed", "sealed", "receipted"} => TargetBytesOK
    /\ run.stage = "claimed" /\ Target.seal # None => TargetSealOK(Target.seal, run.intent, run.began)

\* An interrupted import resumes: the same plan passes the checks at the start,
\* and an attempt under way the checks before each of its writes.
ImportGoesOn ==
    /\ (/\ run.stage = "down" /\ LeftBehind # None
        /\ LeftBehind.plan = plan /\ LeftBehind.sourceSeal = Source.seal
        /\ InForce /\ clock >= LeftBehind.startedAt
        /\ Target.openEpoch = None /\ owner["source"] = "down")
       => BeginOK
    /\ (/\ run.stage # "down" /\ Fresh
        /\ Target.seal # None => Target.seal.closedAt <= run.began \/ run.stage \in {"sealed", "receipted"}
        /\ Target.receipt # None =>
             Target.receipt.plan = plan /\ Target.receipt.targetSeal = Target.seal)
       => ChecksPass

-----------------------------------------------------------------------------
\* What holds of the target and the attempt.
LEMMA TargetFacts ==
    ASSUME IInv
    PROVE  /\ Target \in VolumeFiles /\ VolumeOK("target", Target) /\ TargetOK(Target)
           /\ Source \in VolumeFiles /\ VolumeOK("source", Source)
           /\ RunOK(run, Target) /\ ClockOK
  BY DEF IInv, VolumesOK, VolumeOK, Volumes, Target, Source

\* A write to the target while an attempt holds the locks.
LEMMA TargetWritten ==
    ASSUME IInv, NEW f, run.stage # "down", files' = [files EXCEPT !["target"] = f],
           VolumeOK("target", f), UNCHANGED owner
    PROVE  VolumesOK' /\ Target' = f /\ Source' = Source
<1>1. /\ DOMAIN files = Volumes /\ VolumeOK("source", files["source"])
      /\ \A v \in Volumes : owner[v] = "down"
      /\ owner \in [Volumes -> {"down", "running"}]
  BY DEF IInv, VolumesOK, ClockOK, Volumes
<1>2. /\ DOMAIN files' = Volumes /\ files'["target"] = f /\ files'["source"] = files["source"]
  BY <1>1 DEF Volumes
<1>3. \A v \in Volumes : VolumeOK(v, files'[v])
  BY <1>1, <1>2 DEF Volumes
<1> QED BY <1>1, <1>2, <1>3 DEF VolumesOK, Target, Source

\* The attempt ends: it leaves the target as it is, and no attempt is there.
LEMMA EndedRun ==
    ASSUME NEW r, NEW f, r.stage = "down"
    PROVE  RunOK(r, f)
  BY DEF RunOK

LEMMA DownIsDown ==
    ASSUME NEW result
    PROVE  Down(result).stage = "down"
  BY DEF Down

-----------------------------------------------------------------------------
(* The owners and Operations.                                               *)

LEMMA InitIInv == Init => IInv
<1> SUFFICES ASSUME Init
             PROVE  IInv
  OBVIOUS
<1> DEFINE seal == Seal("source", <<"source">>, 0)
           s == [EmptyVolume EXCEPT !.claim = "source", !.seal = seal,
                    !.database = [config |-> seal.config, content |-> seal.content]]
<1>1. files = [source |-> s, target |-> EmptyVolume]
  BY DEF Init
<1>2. 0 \in Times /\ <<"source">> \in Seq(Volumes)
  BY MigrationAssumption DEF Times, Volumes
<1>3. seal \in Seals /\ seal.config = "admission" /\ seal.content = <<"source">> /\ seal.claim = "source"
  BY <1>2 DEF Seal, Seals, Volumes, Config
<1>4. /\ s.database = [config |-> "admission", content |-> <<"source">>] /\ s.sidecars = FALSE
      /\ s.claim = "source" /\ s.seal = seal /\ s.openEpoch = None /\ s.intent = None
      /\ s.copy = FALSE /\ s.receipt = None
      /\ s = [database |-> s.database, sidecars |-> FALSE, claim |-> "source", seal |-> seal,
              openEpoch |-> None, intent |-> None, copy |-> FALSE, receipt |-> None]
  <2>1. PICK d, e, x : d = [config |-> seal.config, content |-> seal.content] /\ e = EmptyVolume /\ x = seal
    OBVIOUS
  <2>2. e \in VolumeFiles /\ e = EmptyVolume
    BY <2>1 DEF EmptyVolume, VolumeFiles
  <2>3. s = [e EXCEPT !.claim = "source", !.seal = x, !.database = d]
    BY <2>1
  <2>4. d = [config |-> "admission", content |-> <<"source">>] /\ x = seal
    BY <1>3, <2>1
  <2> HIDE DEF s, seal
  <2> QED BY <2>2, <2>3, <2>4 DEF EmptyVolume, VolumeFiles
<1> HIDE DEF seal, s
<1>5. s.database \in Databases
  BY <1>2, <1>4 DEF Databases
<1>6. VolumeOK("source", s)
  <2>1. s \in VolumeFiles
    BY <1>3, <1>4, <1>5 DEF VolumeFiles, Volumes
  <2> QED BY <1>3, <1>4, <1>5, <2>1, NoneAssumption DEF VolumeOK, Closed, Config
<1>7. VolumeOK("target", EmptyVolume) /\ TargetOK(EmptyVolume)
  BY DEF VolumeOK, EmptyVolume, VolumeFiles, TargetOK, IntendedOK, ReceiptedOK, NotImported
<1>8. VolumesOK /\ Target = EmptyVolume
  BY <1>1, <1>6, <1>7 DEF Init, VolumesOK, Volumes, Target
<1>9. ClockOK
  BY <1>2 DEF Init, ClockOK, Down, Stages
<1>10. RunOK(run, Target)
  BY EndedRun, DownIsDown DEF Init
<1> QED BY <1>7, <1>8, <1>9, <1>10 DEF IInv

\* A step of one volume's owner, while no attempt is under way.
LEMMA OwnerPut ==
    ASSUME IInv, NEW v \in Volumes, NEW f, run.stage = "down", NEW o \in {"down", "running"},
           files' = [files EXCEPT ![v] = f], owner' = [owner EXCEPT ![v] = o],
           VolumeOK(v, f), v = "target" => TargetOK(f), o = "running" => f.openEpoch # None,
           UNCHANGED <<clock, rehearsed, plan, run>>
    PROVE  IInv'
<1>1. DOMAIN files = Volumes /\ owner \in [Volumes -> {"down", "running"}]
  BY DEF IInv, VolumesOK
<1>2. /\ DOMAIN files' = Volumes /\ files'[v] = f /\ owner'[v] = o
      /\ \A w \in Volumes : w # v => files'[w] = files[w] /\ owner'[w] = owner[w]
      /\ owner' \in [Volumes -> {"down", "running"}]
  BY <1>1
<1>3. VolumesOK'
  BY <1>2 DEF IInv, VolumesOK
<1>4. TargetOK(Target')
  <2>1. CASE v = "target"
    BY <1>2, <2>1 DEF Target
  <2>2. CASE v # "target"
    BY <1>2, <2>2 DEF IInv, Target, Volumes
  <2> QED BY <2>1, <2>2
<1>5. ClockOK' /\ RunOK(run', Target')
  BY EndedRun DEF IInv, ClockOK
<1> QED BY <1>3, <1>4, <1>5 DEF IInv

\* An owner that is running has no attempt beside it, and its volume is open.
LEMMA RunningOwner ==
    ASSUME IInv, NEW v \in Volumes, owner[v] = "running"
    PROVE  /\ run.stage = "down"
           /\ files[v] \in VolumeFiles /\ VolumeOK(v, files[v])
           /\ v = "target" => TargetOK(files[v])
           /\ files[v].openEpoch # None /\ files[v].database # None
           /\ files[v].seal = None /\ files[v].intent = None
           /\ files[v].database \in Databases
<1>1. run.stage = "down" /\ files[v].openEpoch # None /\ VolumeOK(v, files[v])
  BY DEF IInv, ClockOK, VolumesOK
<1>2. v = "target" => TargetOK(files[v])
  BY DEF IInv, Target
<1>3. files[v].database \in Databases \cup {None}
  BY <1>1 DEF VolumeOK, VolumeFiles
<1> QED BY <1>1, <1>2, <1>3 DEF VolumeOK

LEMMA OwnerOpensStep ==
    ASSUME IInv, NEW v \in Volumes, OwnerOpens(v)
    PROVE  IInv'
<1>1. PICK t : t = files[v]
  OBVIOUS
<1>2. VolumeOK(v, t) /\ t \in VolumeFiles /\ (v = "target" => TargetOK(t))
  BY <1>1 DEF IInv, VolumesOK, VolumeOK, Target
<1>3. PICK epoch, database :
        /\ epoch = IF t.openEpoch # None THEN t.openEpoch ELSE [baselineSeal |-> t.seal]
        /\ database = IF t.database = None THEN [config |-> Config[v], content |-> <<>>] ELSE t.database
  OBVIOUS
<1>4. PICK f : f = [t EXCEPT !.claim = v, !.seal = None, !.sidecars = TRUE, !.openEpoch = epoch,
                             !.database = database]
  OBVIOUS
<1>5. /\ run.stage = "down" /\ OpenOK(t, v)
      /\ owner' = [owner EXCEPT ![v] = "running"] /\ files' = [files EXCEPT ![v] = f]
      /\ UNCHANGED <<clock, rehearsed, plan, run>>
  BY <1>1, <1>2, <1>3, <1>4 DEF OwnerOpens, VolumeFiles
<1>6. /\ f.database = database /\ f.sidecars = TRUE /\ f.claim = v /\ f.seal = None /\ f.openEpoch = epoch
      /\ f.intent = t.intent /\ f.copy = t.copy /\ f.receipt = t.receipt
      /\ f = [database |-> database, sidecars |-> TRUE, claim |-> v, seal |-> None, openEpoch |-> epoch,
              intent |-> t.intent, copy |-> t.copy, receipt |-> t.receipt]
  BY <1>2, <1>4 DEF VolumeFiles
<1>7. epoch \in Epochs /\ epoch # None
  BY <1>2, <1>3, NoneAssumption DEF VolumeFiles, Epochs
<1>8. database \in Databases /\ database # None /\ database.config = Config[v]
  <2>1. CASE t.database = None
    <3>1. database = [config |-> Config[v], content |-> <<>>]
      BY <1>3, <2>1
    <3>2. database \in Databases
      BY <3>1 DEF Databases, Config, Volumes
    <3> QED BY <3>1, <3>2, NoneAssumption
  <2>2. CASE t.database # None
    BY <1>2, <1>3, <2>2 DEF VolumeOK, VolumeFiles
  <2> QED BY <2>1, <2>2
<1>9. t.intent = None
  BY <1>5 DEF OpenOK
<1>10. VolumeOK(v, f)
  <2>1. f \in VolumeFiles
    BY <1>2, <1>6, <1>7, <1>8 DEF VolumeFiles
  <2> QED BY <1>6, <1>7, <1>8, <1>9, <2>1 DEF VolumeOK
<1>11. ASSUME v = "target"
       PROVE  TargetOK(f)
  <2>1. TargetOK(t)
    BY <1>2, <1>11
  <2>2. IntendedOK(f)
    BY <1>6, <1>9 DEF IntendedOK
  <2>3. ReceiptedOK(f)
    <3>1. f.receipt # None => t.database # None /\ database = t.database
      BY <1>3, <1>6, <2>1 DEF TargetOK, ReceiptedOK
    <3> QED BY <1>6, <1>7, <2>1, <3>1 DEF TargetOK, ReceiptedOK
  <2>4. NotImported(f)
    <3>1. CASE t.database = None
      BY <1>3, <1>6, <3>1 DEF NotImported
    <3>2. CASE t.database # None
      BY <1>3, <1>6, <2>1, <3>2 DEF TargetOK, NotImported
    <3> QED BY <3>1, <3>2
  <2> QED BY <2>2, <2>3, <2>4 DEF TargetOK
<1> QED BY <1>5, <1>6, <1>7, <1>10, <1>11, OwnerPut

\* A database that grows keeps its beginning.
LEMMA GrownContent ==
    ASSUME NEW old \in Seq(Volumes), NEW v \in Volumes
    PROVE  /\ Append(old, v) \in Seq(Volumes)
           /\ \A s \in Seq(Volumes) : Extends(old, s) => Extends(Append(old, v), s)
           /\ (\A i \in 1..Len(old) : old[i] = v) => (\A i \in 1..Len(Append(old, v)) : Append(old, v)[i] = v)
<1>1. PICK content : content = Append(old, v)
  OBVIOUS
<1>2. /\ content \in Seq(Volumes) /\ Len(content) = Len(old) + 1 /\ Len(old) \in Nat
      /\ \A i \in 1..Len(old) : content[i] = old[i]
      /\ content[Len(old) + 1] = v
  <2>1. Len(old) \in Nat
    OBVIOUS
  <2>2. /\ Append(old, v) \in Seq(Volumes) /\ Len(Append(old, v)) = Len(old) + 1
        /\ \A i \in 1..Len(old) : Append(old, v)[i] = old[i]
        /\ Append(old, v)[Len(old) + 1] = v
    BY AppendProperties
  <2> QED BY <1>1, <2>1, <2>2
<1>3. ASSUME NEW s \in Seq(Volumes), Extends(old, s)
      PROVE  Extends(content, s)
  <2>0. Len(s) \in Nat /\ Len(old) \in Nat
    BY LenProperties
  <2>1. PICK n, m : n = Len(s) /\ m = Len(old) /\ n \in Nat /\ m \in Nat
    BY <2>0
  <2>2. n <= m /\ \A i \in 1..n : old[i] = s[i]
    BY <1>3, <2>1 DEF Extends
  <2>3. Len(content) = m + 1 /\ \A i \in 1..m : content[i] = old[i]
    BY <1>2, <2>1
  <2>4. n <= Len(content) /\ \A i \in 1..n : content[i] = s[i]
    BY <2>1, <2>2, <2>3
  <2> QED BY <2>1, <2>4 DEF Extends
<1>4. ASSUME \A i \in 1..Len(old) : old[i] = v
      PROVE  \A i \in 1..Len(content) : content[i] = v
  BY <1>2, <1>4
<1> QED BY <1>1, <1>2, <1>3, <1>4

LEMMA OwnerWritesStep ==
    ASSUME IInv, NEW v \in Volumes, OwnerWrites(v)
    PROVE  IInv'
<1>0. owner[v] = "running" /\ files[v] \in VolumeFiles
  BY RunningOwner DEF OwnerWrites
<1>1. PICK t, content, database, f :
        /\ t = files[v] /\ content = Append(t.database.content, v)
        /\ database = [t.database EXCEPT !.content = content]
        /\ f = [t EXCEPT !.database = database]
  OBVIOUS
<1>2. /\ VolumeOK(v, t) /\ t \in VolumeFiles /\ t.openEpoch # None /\ t.database \in Databases
      /\ t.seal = None /\ t.intent = None /\ run.stage = "down"
      /\ v = "target" => TargetOK(t)
  BY <1>0, <1>1, RunningOwner
<1>3. files' = [files EXCEPT ![v] = f] /\ UNCHANGED <<owner, clock, rehearsed, plan, run>>
  BY <1>1, <1>2 DEF OwnerWrites
<1>4. /\ content \in Seq(Volumes) /\ database \in Databases /\ database.content = content
      /\ database.config = t.database.config
  <2>1. PICK d : d = t.database /\ d \in Databases
    BY <1>2
  <2>2. d.content \in Seq(Volumes) /\ content = Append(d.content, v)
    BY <1>1, <2>1 DEF Databases
  <2>3. content \in Seq(Volumes)
    BY <2>2
  <2>4. database = [d EXCEPT !.content = content]
    BY <1>1, <2>1
  <2> QED BY <2>1, <2>3, <2>4 DEF Databases
<1>5. /\ f = [database |-> database, sidecars |-> t.sidecars, claim |-> t.claim, seal |-> t.seal,
              openEpoch |-> t.openEpoch, intent |-> t.intent, copy |-> t.copy, receipt |-> t.receipt]
  BY <1>1, <1>2 DEF VolumeFiles
<1>6. VolumeOK(v, f)
  <2>1. f \in VolumeFiles
    BY <1>2, <1>4, <1>5 DEF VolumeFiles
  <2> QED BY <1>2, <1>4, <1>5, <2>1, NoneAssumption DEF VolumeOK
<1>7. ASSUME v = "target"
      PROVE  TargetOK(f)
  <2>1. PICK old : old = t.database.content /\ old \in Seq(Volumes) /\ content = Append(old, v)
    BY <1>1, <1>2 DEF Databases
  <2>2. TargetOK(t)
    BY <1>2, <1>7
  <2>3. ASSUME t.receipt # None
        PROVE  Extends(content, t.receipt.sourceSeal.content)
    <3>1. Extends(old, t.receipt.sourceSeal.content)
      BY <2>1, <2>2, <2>3 DEF TargetOK, ReceiptedOK
    <3>2. t.receipt.sourceSeal.content \in Seq(Volumes)
      BY <1>2, <2>3 DEF VolumeFiles, Receipts, Seals
    <3> QED BY <2>1, <3>1, <3>2, GrownContent
  <2>4. ASSUME t.receipt = None
        PROVE  \A i \in 1..Len(content) : content[i] = "target"
    <3>1. \A i \in 1..Len(old) : old[i] = "target"
      BY <1>2, <2>1, <2>2, <2>4 DEF TargetOK, NotImported, VolumeOK
    <3> QED BY <1>7, <2>1, <3>1, GrownContent
  <2>5. IntendedOK(f)
    BY <1>2, <1>5 DEF IntendedOK
  <2>6. NotImported(f)
    BY <1>4, <1>5, <2>4 DEF NotImported
  <2>7. ReceiptedOK(f)
    BY <1>2, <1>4, <1>5, <2>2, <2>3, NoneAssumption DEF TargetOK, ReceiptedOK
  <2> QED BY <2>5, <2>6, <2>7 DEF TargetOK
<1>8. owner' = [owner EXCEPT ![v] = "running"]
  BY <1>0, <1>3 DEF IInv, VolumesOK
<1> QED BY <1>2, <1>3, <1>5, <1>6, <1>7, <1>8, OwnerPut

LEMMA OwnerSealsStep ==
    ASSUME IInv, NEW v \in Volumes, OwnerSeals(v)
    PROVE  IInv'
<1>0. owner[v] = "running"
  BY DEF OwnerSeals
<1>1. PICK t, seal, f :
        /\ t = files[v] /\ seal = Seal(v, t.database.content, clock)
        /\ f = [t EXCEPT !.sidecars = FALSE, !.openEpoch = None, !.seal = seal]
  OBVIOUS
<1>2. /\ VolumeOK(v, t) /\ t \in VolumeFiles /\ t.openEpoch # None /\ t.database \in Databases
      /\ t.database # None /\ t.seal = None /\ t.intent = None /\ run.stage = "down"
      /\ v = "target" => TargetOK(t)
  BY <1>0, <1>1, RunningOwner
<1>3. /\ files' = [files EXCEPT ![v] = f] /\ owner' = [owner EXCEPT ![v] = "down"]
      /\ UNCHANGED <<clock, rehearsed, plan, run>>
  BY <1>1, <1>2 DEF OwnerSeals
<1>4. /\ seal \in Seals /\ seal # None /\ seal.claim = v /\ seal.config = Config[v]
      /\ seal.content = t.database.content
  <2>1. clock \in Times
    BY DEF IInv, ClockOK
  <2>2. seal = [claim |-> v, config |-> Config[v], content |-> t.database.content, closedAt |-> clock]
    BY <1>1 DEF Seal
  <2>3. seal \in Seals
    BY <1>2, <2>1, <2>2 DEF Seals, Databases, Config, Volumes
  <2> QED BY <2>2, <2>3, NoneAssumption
<1>5. f = [database |-> t.database, sidecars |-> FALSE, claim |-> t.claim, seal |-> seal,
           openEpoch |-> None, intent |-> t.intent, copy |-> t.copy, receipt |-> t.receipt]
  BY <1>1, <1>2 DEF VolumeFiles
<1>6. t.claim = v
  BY <1>2 DEF VolumeOK
<1>7. t.database = [config |-> seal.config, content |-> seal.content]
  BY <1>2, <1>4 DEF VolumeOK, Databases
<1>8. VolumeOK(v, f)
  <2>1. f \in VolumeFiles
    BY <1>2, <1>4, <1>5 DEF VolumeFiles
  <2> QED BY <1>2, <1>4, <1>5, <1>6, <1>7, <2>1 DEF VolumeOK, Closed
<1>9. ASSUME v = "target"
      PROVE  TargetOK(f)
  <2>1. TargetOK(t)
    BY <1>2, <1>9
  <2>2. IntendedOK(f) /\ NotImported(f)
    BY <1>2, <1>5, <2>1 DEF TargetOK, IntendedOK, NotImported
  <2>3. ReceiptedOK(f)
    BY <1>2, <1>4, <1>5, <2>1 DEF TargetOK, ReceiptedOK
  <2> QED BY <2>2, <2>3 DEF TargetOK
<1> QED BY <1>2, <1>3, <1>5, <1>8, <1>9, OwnerPut

LEMMA OwnerDiesStep ==
    ASSUME IInv, NEW v \in Volumes, OwnerDies(v)
    PROVE  IInv'
<1>1. owner' \in [Volumes -> {"down", "running"}] /\ \A w \in Volumes : owner'[w] = "running" => owner[w] = "running"
  BY DEF OwnerDies, IInv, VolumesOK
<1>2. UNCHANGED <<files, clock, rehearsed, plan, run>>
  BY DEF OwnerDies
<1>3. VolumesOK' /\ Target' = Target
  BY <1>1, <1>2 DEF IInv, VolumesOK, Target
<1>4. ClockOK'
  BY <1>1, <1>2 DEF IInv, ClockOK
<1> QED BY <1>2, <1>3, <1>4 DEF IInv

\* Operations and the clock touch no file and no attempt.
LEMMA OperationsStep ==
    ASSUME IInv,
           \/ Rehearse
           \/ \E candidate \in rehearsed : Review(candidate)
           \/ \E now \in Times : SetClock(now)
    PROVE  IInv'
<1>1. UNCHANGED <<files, owner, run>>
  BY DEF Rehearse, Review, SetClock
<1>2. VolumesOK' /\ Target' = Target
  BY <1>1 DEF IInv, VolumesOK, Target
<1>3. ClockOK'
  <2>1. CASE Rehearse
    <3>1. files["source"].seal \in Seals
      BY <2>1 DEF Rehearse, PrepareOK, IInv, VolumesOK, VolumeOK, VolumeFiles, Volumes
    <3> QED BY <2>1, <3>1 DEF Rehearse, IInv, ClockOK
  <2>2. ASSUME NEW candidate \in rehearsed, Review(candidate)
        PROVE  ClockOK'
    <3>1. clock \in Times /\ clock + Window \in Nat /\ candidate \in Seals
      BY MigrationAssumption DEF IInv, ClockOK, Times
    <3>2. plan' \in Plans
      BY <2>2, <3>1 DEF Review, Plans
    <3> QED BY <2>2, <3>2 DEF Review, IInv, ClockOK
  <2>3. ASSUME NEW now \in Times, SetClock(now)
        PROVE  ClockOK'
    BY <2>3 DEF SetClock, IInv, ClockOK
  <2> QED BY <2>1, <2>2, <2>3
<1> QED BY <1>1, <1>2, <1>3 DEF IInv

-----------------------------------------------------------------------------
(* The activation.                                                          *)

\* What the checks at the start establish.
LEMMA BeginStep ==
    ASSUME IInv, Begin
    PROVE  IInv'
<1>1. PICK t, s, i : t = Target /\ s = Source /\ i = Intent
  OBVIOUS
<1>2. /\ t \in VolumeFiles /\ VolumeOK("target", t) /\ TargetOK(t)
      /\ s \in VolumeFiles /\ VolumeOK("source", s)
  BY <1>1, TargetFacts
<1>3. /\ UNCHANGED <<files, owner, clock, rehearsed, plan>>
      /\ \A v \in Volumes : owner[v] = "down"
      /\ run' = [stage |-> "checked", intent |-> i, began |-> clock, verifiedAt |-> clock]
  BY <1>1 DEF Begin
<1>4. /\ clock \in Times /\ plan \in Plans
  BY DEF IInv, ClockOK, Begin, BeginOK, InForce
<1>5. /\ plan.notBefore <= clock
      /\ s.seal = plan.candidate /\ s.seal \in Seals /\ Len(s.seal.content) = 1 /\ s.seal.closedAt <= clock
  BY <1>1, <1>2 DEF Begin, BeginOK, InForce, PrepareOK, VolumeFiles
<1>6. /\ t.openEpoch = None
      /\ t.intent = None /\ t.receipt = None => t.database = None /\ t.seal = None
      /\ t.intent # None \/ t.receipt # None => plan.notBefore <= StartedAt /\ StartedAt <= clock
      /\ t.intent # None => t.intent = i
  BY <1>1 DEF Begin, BeginOK, TargetStateOK
<1>7. /\ t.intent # None => StartedAt = t.intent.startedAt
      /\ t.intent = None /\ t.receipt # None => StartedAt = t.receipt.startedAt
      /\ t.intent = None /\ t.receipt = None => StartedAt = clock
      /\ StartedAt \in Times
  <2>1. /\ t.intent # None => StartedAt = t.intent.startedAt
        /\ t.intent = None /\ t.receipt # None => StartedAt = t.receipt.startedAt
        /\ t.intent = None /\ t.receipt = None => StartedAt = clock
    BY <1>1 DEF StartedAt
  <2>2. (t.intent # None => t.intent.startedAt \in Times) /\ (t.receipt # None => t.receipt.startedAt \in Times)
    BY <1>2 DEF VolumeFiles, Intents, Receipts
  <2> QED BY <1>4, <2>1, <2>2
<1>8. i = [plan |-> plan, sourceSeal |-> s.seal, startedAt |-> StartedAt] /\ i \in Intents
  <2>1. i = [plan |-> plan, sourceSeal |-> s.seal, startedAt |-> StartedAt]
    BY <1>1 DEF Intent
  <2> QED BY <1>4, <1>5, <1>7, <2>1 DEF Intents
<1>9. t.receipt = None \/ t.intent # None => IntentOK(i)
  <2>1. CASE t.intent # None
    BY <1>2, <1>6, <2>1 DEF TargetOK, IntendedOK
  <2>2. CASE t.intent = None /\ t.receipt = None
    BY <1>5, <1>7, <1>8, <2>2 DEF IntentOK
  <2> QED BY <2>1, <2>2
<1>10. PICK r : r = run'
  OBVIOUS
<1>11. /\ r.stage = "checked" /\ r.intent = i /\ r \in Attempts
  BY <1>3, <1>4, <1>8, <1>10 DEF Attempts, Stages
<1>12. t.receipt # None => i.startedAt = t.receipt.startedAt
  <2>1. CASE t.intent # None
    BY <1>2, <1>7, <1>8, <2>1 DEF TargetOK, IntendedOK, Receipt
  <2>2. CASE t.intent = None
    BY <1>7, <1>8, <2>2
  <2> QED BY <2>1, <2>2
<1>13. RunOK(r, t)
  <2>1. StageOK(r, t)
    BY <1>6, <1>11, <1>12 DEF StageOK
  <2> QED BY <1>5, <1>6, <1>8, <1>9, <1>11, <2>1 DEF RunOK
<1>14. VolumesOK' /\ Target' = t
  BY <1>1, <1>3 DEF IInv, VolumesOK, Target
<1>15. ClockOK'
  <2>1. run'.stage \in Stages
    BY <1>3 DEF Stages
  <2> QED BY <1>3, <2>1 DEF IInv, ClockOK
<1> QED BY <1>2, <1>10, <1>13, <1>14, <1>15 DEF IInv

LEMMA ActivationEndsStep ==
    ASSUME IInv, ActivationEnds
    PROVE  IInv'
<1>1. UNCHANGED <<files, owner, clock, rehearsed, plan>> /\ run'.stage = "down"
  BY DEF ActivationEnds, Down
<1>2. VolumesOK' /\ Target' = Target
  BY <1>1 DEF IInv, VolumesOK, Target
<1>3. ClockOK' /\ RunOK(run', Target')
  BY <1>1, EndedRun DEF IInv, ClockOK, Stages
<1> QED BY <1>2, <1>3 DEF IInv

\* A write of the attempt: the files and the attempt go on together.
LEMMA WrittenStep ==
    ASSUME IInv, run.stage # "down", NEW f, NEW r, run' = r,
           files' = [files EXCEPT !["target"] = f], UNCHANGED <<owner, clock, rehearsed, plan>>,
           VolumeOK("target", f), TargetOK(f), RunOK(r, f), r.stage \in Stages
    PROVE  IInv'
<1>1. VolumesOK' /\ Target' = f
  BY TargetWritten
<1>2. ClockOK'
  BY DEF IInv, ClockOK
<1> QED BY <1>1, <1>2 DEF IInv

\* What an attempt knows of the target.
LEMMA AttemptFacts ==
    ASSUME IInv, run.stage # "down", NEW t, t = Target
    PROVE  /\ t \in VolumeFiles /\ VolumeOK("target", t) /\ TargetOK(t)
           /\ t.openEpoch = None /\ t.sidecars = FALSE
           /\ run \in Attempts /\ run.intent \in Intents /\ RunOK(run, t) /\ StageOK(run, t)
           /\ t.intent # None => t.intent = run.intent
<1>1. /\ t \in VolumeFiles /\ VolumeOK("target", t) /\ TargetOK(t) /\ RunOK(run, t)
  BY TargetFacts
<1>2. run \in Attempts /\ run.intent \in Intents
  BY <1>1 DEF RunOK, Attempts
<1>3. t.openEpoch = None /\ t.sidecars = FALSE
  BY <1>1 DEF RunOK, VolumeOK, VolumeFiles
<1> QED BY <1>1, <1>2, <1>3 DEF RunOK

\* An attempt that goes on to its next stage is for the same intent.
LEMMA NextStage ==
    ASSUME IInv, run.stage # "down", NEW stage \in Stages \ {"down"}, NEW r,
           \/ r = [run EXCEPT !.stage = stage, !.verifiedAt = clock]
           \/ r = [run EXCEPT !.stage = stage]
    PROVE  /\ r \in Attempts /\ r.stage = stage /\ r.intent = run.intent
           /\ r.stage \in Stages
<1>1. run \in Attempts /\ clock \in Times
  BY AttemptFacts DEF IInv, ClockOK
<1>2. PICK old, now : old = run /\ now = clock /\ old \in Attempts /\ now \in Times
  BY <1>1
<1>3. \/ r = [old EXCEPT !.stage = stage, !.verifiedAt = now]
      \/ r = [old EXCEPT !.stage = stage]
  BY <1>2
<1>4. r \in Attempts /\ r.stage = stage /\ r.intent = old.intent
  BY <1>2, <1>3 DEF Attempts
<1> QED BY <1>2, <1>4

LEMMA FinishEarlierStep ==
    ASSUME IInv, FinishEarlier
    PROVE  IInv'
<1>1. PICK t, f : t = Target /\ f = [t EXCEPT !.intent = None]
  OBVIOUS
<1>2. run.stage # "down" /\ t.receipt # None
  BY <1>1 DEF FinishEarlier
<1>3. /\ t \in VolumeFiles /\ VolumeOK("target", t) /\ TargetOK(t) /\ t.openEpoch = None
  BY <1>1, <1>2, AttemptFacts
<1>4. PICK r : r = run' /\ r.stage = "down"
  BY DownIsDown DEF FinishEarlier, Return
<1>5. files' = [files EXCEPT !["target"] = f] /\ UNCHANGED <<owner, clock, rehearsed, plan>>
  BY <1>1 DEF FinishEarlier, Return
<1>6. f = [database |-> t.database, sidecars |-> t.sidecars, claim |-> t.claim, seal |-> t.seal,
           openEpoch |-> t.openEpoch, intent |-> None, copy |-> t.copy, receipt |-> t.receipt]
  BY <1>1, <1>3 DEF VolumeFiles
<1>7. VolumeOK("target", f)
  <2>1. f \in VolumeFiles
    BY <1>3, <1>6 DEF VolumeFiles
  <2> QED BY <1>3, <1>6, <2>1 DEF VolumeOK, Closed
<1>8. TargetOK(f)
  BY <1>2, <1>3, <1>6 DEF TargetOK, IntendedOK, ReceiptedOK, NotImported
<1>9. RunOK(r, f) /\ r.stage \in Stages
  BY <1>4, EndedRun DEF Stages
<1> QED BY <1>2, <1>4, <1>5, <1>7, <1>8, <1>9, WrittenStep

LEMMA WriteIntentStep ==
    ASSUME IInv, WriteIntent
    PROVE  IInv'
<1>1. PICK t, i, f, r : /\ t = Target /\ i = run.intent /\ f = [t EXCEPT !.intent = i]
                        /\ r = [run EXCEPT !.stage = "intended", !.verifiedAt = clock]
  OBVIOUS
<1>2. run.stage = "checked" /\ run.stage # "down" /\ t.receipt = None
  BY <1>1 DEF WriteIntent
<1>3. /\ t \in VolumeFiles /\ VolumeOK("target", t) /\ TargetOK(t) /\ t.openEpoch = None
      /\ i \in Intents /\ RunOK(run, t) /\ StageOK(run, t)
      /\ t.intent # None => t.intent = i
  BY <1>1, <1>2, AttemptFacts
<1>4. /\ run' = r /\ files' = [files EXCEPT !["target"] = f]
      /\ UNCHANGED <<owner, clock, rehearsed, plan>>
  BY <1>1 DEF WriteIntent, Write
<1>5. r \in Attempts /\ r.stage = "intended" /\ r.intent = i /\ r.stage \in Stages
  <2>1. "intended" \in Stages \ {"down"}
    BY DEF Stages
  <2> QED BY <1>1, <1>2, <2>1, NextStage
<1>6. f = [database |-> t.database, sidecars |-> t.sidecars, claim |-> t.claim, seal |-> t.seal,
           openEpoch |-> t.openEpoch, intent |-> i, copy |-> t.copy, receipt |-> t.receipt]
  BY <1>1, <1>3 DEF VolumeFiles
<1>7. i # None
  BY <1>3, NoneAssumption
<1>8. VolumeOK("target", f)
  <2>1. f \in VolumeFiles
    BY <1>3, <1>6 DEF VolumeFiles
  <2> QED BY <1>3, <1>6, <2>1 DEF VolumeOK, Closed
<1>9. IntentOK(i) /\ i.sourceSeal = i.plan.candidate
  BY <1>1, <1>2, <1>3 DEF RunOK
<1>10. TargetOK(f)
  <2>1. CASE t.intent = None
    <3>1. t.database = None /\ t.seal = None
      BY <1>2, <1>3, <2>1 DEF StageOK
    <3> QED BY <1>2, <1>6, <1>7, <1>9, <3>1 DEF TargetOK, IntendedOK, ReceiptedOK, NotImported
  <2>2. CASE t.intent # None
    <3>1. f = t
      BY <1>3, <1>6, <2>2 DEF VolumeFiles
    <3> QED BY <1>3, <3>1
  <2> QED BY <2>1, <2>2
<1>11. RunOK(r, f)
  <2>1. StageOK(r, f)
    BY <1>2, <1>5, <1>6, <1>7 DEF StageOK
  <2> QED BY <1>3, <1>5, <1>6, <1>9, <2>1 DEF RunOK
<1> QED BY <1>2, <1>4, <1>5, <1>8, <1>10, <1>11, WrittenStep

LEMMA CopyDatabaseStep ==
    ASSUME IInv, CopyDatabase
    PROVE  IInv'
<1>1. PICK t, f, r : /\ t = Target /\ f = [t EXCEPT !.copy = TRUE]
                     /\ r = [run EXCEPT !.stage = "copied"]
  OBVIOUS
<1>2. run.stage = "intended" /\ run.stage # "down" /\ t.database = None
  BY <1>1 DEF CopyDatabase
<1>3. /\ t \in VolumeFiles /\ VolumeOK("target", t) /\ TargetOK(t) /\ t.openEpoch = None
      /\ RunOK(run, t) /\ StageOK(run, t)
  BY <1>1, <1>2, AttemptFacts
<1>4. /\ run' = r /\ files' = [files EXCEPT !["target"] = f]
      /\ UNCHANGED <<owner, clock, rehearsed, plan>>
  BY <1>1 DEF CopyDatabase, Target
<1>5. r \in Attempts /\ r.stage = "copied" /\ r.intent = run.intent /\ r.stage \in Stages
  <2>1. "copied" \in Stages \ {"down"}
    BY DEF Stages
  <2> QED BY <1>1, <1>2, <2>1, NextStage
<1>6. f = [database |-> t.database, sidecars |-> t.sidecars, claim |-> t.claim, seal |-> t.seal,
           openEpoch |-> t.openEpoch, intent |-> t.intent, copy |-> TRUE, receipt |-> t.receipt]
  BY <1>1, <1>3 DEF VolumeFiles
<1>7. VolumeOK("target", f)
  <2>1. f \in VolumeFiles
    BY <1>3, <1>6 DEF VolumeFiles
  <2> QED BY <1>3, <1>6, <2>1 DEF VolumeOK, Closed
<1>8. TargetOK(f)
  BY <1>2, <1>3, <1>6 DEF TargetOK, IntendedOK, ReceiptedOK, NotImported
<1>9. RunOK(r, f)
  <2>1. StageOK(r, f)
    BY <1>2, <1>3, <1>5, <1>6 DEF StageOK
  <2> QED BY <1>2, <1>3, <1>5, <1>6, <2>1 DEF RunOK
<1> QED BY <1>2, <1>4, <1>5, <1>7, <1>8, <1>9, WrittenStep

LEMMA KeepDatabaseStep ==
    ASSUME IInv, KeepDatabase
    PROVE  IInv'
<1>1. PICK t, r : t = Target /\ r = [run EXCEPT !.stage = "imported"]
  OBVIOUS
<1>2. run.stage = "intended" /\ run.stage # "down" /\ t.database # None
  BY <1>1 DEF KeepDatabase
<1>3. /\ t \in VolumeFiles /\ VolumeOK("target", t) /\ TargetOK(t) /\ t.openEpoch = None
      /\ RunOK(run, t) /\ StageOK(run, t) /\ files["target"] = t /\ DOMAIN files = Volumes
  BY <1>1, <1>2, AttemptFacts DEF Target, IInv, VolumesOK
<1>4. run' = r /\ UNCHANGED <<files, owner, clock, rehearsed, plan>>
  BY <1>1 DEF KeepDatabase
<1>5. r \in Attempts /\ r.stage = "imported" /\ r.intent = run.intent /\ r.stage \in Stages
  <2>1. "imported" \in Stages \ {"down"}
    BY DEF Stages
  <2> QED BY <1>1, <1>2, <2>1, NextStage
<1>6. RunOK(r, t)
  <2>1. StageOK(r, t)
    BY <1>2, <1>3, <1>5 DEF StageOK
  <2> QED BY <1>2, <1>3, <1>5, <2>1 DEF RunOK
<1>7. VolumesOK' /\ Target' = t
  BY <1>1, <1>4 DEF IInv, VolumesOK, Target
<1>8. ClockOK'
  BY <1>2, <1>4, <1>5 DEF IInv, ClockOK
<1> QED BY <1>3, <1>4, <1>6, <1>7, <1>8 DEF IInv

LEMMA RenameDatabaseStep ==
    ASSUME IInv, RenameDatabase
    PROVE  IInv'
<1>1. PICK t, i, d, f, r :
        /\ t = Target /\ i = run.intent /\ d = Imported(i.plan.candidate)
        /\ f = [t EXCEPT !.copy = FALSE, !.database = d]
        /\ r = [run EXCEPT !.stage = "imported", !.verifiedAt = clock]
  OBVIOUS
<1>2. run.stage = "copied" /\ run.stage # "down"
  BY DEF RenameDatabase
<1>3. /\ t \in VolumeFiles /\ VolumeOK("target", t) /\ TargetOK(t) /\ t.openEpoch = None /\ t.sidecars = FALSE
      /\ i \in Intents /\ RunOK(run, t) /\ StageOK(run, t)
  BY <1>1, <1>2, AttemptFacts
<1>4. /\ run' = r /\ files' = [files EXCEPT !["target"] = f]
      /\ UNCHANGED <<owner, clock, rehearsed, plan>>
  BY <1>1 DEF RenameDatabase, Write
<1>5. r \in Attempts /\ r.stage = "imported" /\ r.intent = i /\ r.stage \in Stages
  <2>1. "imported" \in Stages \ {"down"}
    BY DEF Stages
  <2> QED BY <1>1, <1>2, <2>1, NextStage
<1>6. f = [database |-> d, sidecars |-> t.sidecars, claim |-> t.claim, seal |-> t.seal,
           openEpoch |-> t.openEpoch, intent |-> t.intent, copy |-> FALSE, receipt |-> t.receipt]
  BY <1>1, <1>3 DEF VolumeFiles
<1>7. /\ t.intent # None /\ t.receipt = None /\ t.database = None /\ t.intent = i /\ t.seal = None
  <2>1. t.intent # None /\ t.receipt = None /\ t.database = None
    BY <1>2, <1>3 DEF StageOK
  <2>2. t.intent = i
    BY <1>1, <1>2, <1>3, <2>1 DEF RunOK
  <2>3. t.seal = None
    <3>1. t.claim = None /\ (t.seal # None => t.claim = "target")
      BY <1>3, <2>1 DEF VolumeOK
    <3> QED BY <3>1, NoneAssumption DEF Volumes
  <2> QED BY <2>1, <2>2, <2>3
<1>8. d \in Databases /\ d # None /\ d.config = Config["target"]
  <2>1. d = [config |-> "review", content |-> i.plan.candidate.content]
    BY <1>1 DEF Imported, Config
  <2>2. i.plan.candidate.content \in Seq(Volumes)
    BY <1>3 DEF Intents, Plans, Seals
  <2>3. d \in Databases
    BY <2>1, <2>2 DEF Databases
  <2> QED BY <2>1, <2>3, NoneAssumption DEF Config
<1>9. VolumeOK("target", f)
  <2>1. f \in VolumeFiles
    BY <1>3, <1>6, <1>8 DEF VolumeFiles
  <2> QED BY <1>3, <1>6, <1>7, <1>8, <2>1 DEF VolumeOK
<1>10. TargetOK(f)
  BY <1>1, <1>3, <1>6, <1>7, <1>8 DEF TargetOK, IntendedOK, ReceiptedOK, NotImported
<1>11. RunOK(r, f)
  <2>1. StageOK(r, f)
    BY <1>2, <1>3, <1>5, <1>6, <1>7, <1>8 DEF StageOK
  <2> QED BY <1>1, <1>2, <1>3, <1>5, <1>6, <1>7, <2>1 DEF RunOK
<1> QED BY <1>2, <1>4, <1>5, <1>9, <1>10, <1>11, WrittenStep

LEMMA WriteClaimStep ==
    ASSUME IInv, WriteClaim
    PROVE  IInv'
<1>1. PICK t, f, r : /\ t = Target /\ f = [t EXCEPT !.claim = "target"]
                     /\ r = [run EXCEPT !.stage = "claimed", !.verifiedAt = clock]
  OBVIOUS
<1>2. run.stage = "imported" /\ run.stage # "down"
  BY DEF WriteClaim
<1>3. /\ t \in VolumeFiles /\ VolumeOK("target", t) /\ TargetOK(t) /\ t.openEpoch = None /\ t.sidecars = FALSE
      /\ RunOK(run, t) /\ StageOK(run, t)
  BY <1>1, <1>2, AttemptFacts
<1>4. /\ run' = r /\ files' = [files EXCEPT !["target"] = f]
      /\ UNCHANGED <<owner, clock, rehearsed, plan>>
  BY <1>1 DEF WriteClaim, Write
<1>5. r \in Attempts /\ r.stage = "claimed" /\ r.intent = run.intent /\ r.stage \in Stages
  <2>1. "claimed" \in Stages \ {"down"}
    BY DEF Stages
  <2> QED BY <1>1, <1>2, <2>1, NextStage
<1>6. f = [database |-> t.database, sidecars |-> t.sidecars, claim |-> "target", seal |-> t.seal,
           openEpoch |-> t.openEpoch, intent |-> t.intent, copy |-> t.copy, receipt |-> t.receipt]
  BY <1>1, <1>3 DEF VolumeFiles
<1>7. t.intent # None /\ t.receipt = None /\ t.database # None /\ "target" # None
  BY <1>2, <1>3, NoneAssumption DEF StageOK, Volumes
<1>8. VolumeOK("target", f)
  <2>1. f \in VolumeFiles
    BY <1>3, <1>6 DEF VolumeFiles, Volumes
  <2> QED BY <1>3, <1>6, <1>7, <2>1 DEF VolumeOK, Closed
<1>9. TargetOK(f)
  BY <1>3, <1>6, <1>7 DEF TargetOK, IntendedOK, ReceiptedOK, NotImported
<1>10. RunOK(r, f)
  <2>1. StageOK(r, f)
    BY <1>2, <1>3, <1>5, <1>6, <1>7 DEF StageOK
  <2> QED BY <1>2, <1>3, <1>5, <1>6, <1>7, <2>1 DEF RunOK
<1> QED BY <1>2, <1>4, <1>5, <1>8, <1>9, <1>10, WrittenStep

LEMMA WriteSealStep ==
    ASSUME IInv, WriteSeal
    PROVE  IInv'
<1>1. PICK t, i, s, f, r :
        /\ t = Target /\ i = run.intent
        /\ s = IF t.seal # None THEN t.seal ELSE Seal("target", i.plan.candidate.content, clock)
        /\ f = [t EXCEPT !.seal = s]
        /\ r = [run EXCEPT !.stage = "sealed", !.verifiedAt = clock]
  OBVIOUS
<1>2. run.stage = "claimed" /\ run.stage # "down"
  BY DEF WriteSeal
<1>3. /\ t \in VolumeFiles /\ VolumeOK("target", t) /\ TargetOK(t) /\ t.openEpoch = None /\ t.sidecars = FALSE
      /\ i \in Intents /\ RunOK(run, t) /\ StageOK(run, t)
  BY <1>1, <1>2, AttemptFacts
<1>4. /\ run' = r /\ files' = [files EXCEPT !["target"] = f]
      /\ UNCHANGED <<owner, clock, rehearsed, plan>>
  BY <1>1, <1>3 DEF WriteSeal, Write, VolumeFiles
<1>5. r \in Attempts /\ r.stage = "sealed" /\ r.intent = i /\ r.stage \in Stages
  <2>1. "sealed" \in Stages \ {"down"}
    BY DEF Stages
  <2> QED BY <1>1, <1>2, <2>1, NextStage
<1>6. f = [database |-> t.database, sidecars |-> t.sidecars, claim |-> t.claim, seal |-> s,
           openEpoch |-> t.openEpoch, intent |-> t.intent, copy |-> t.copy, receipt |-> t.receipt]
  BY <1>1, <1>3 DEF VolumeFiles
<1>7. /\ t.intent # None /\ t.receipt = None /\ t.database # None /\ t.claim # None /\ t.intent = i
  <2>1. t.intent # None /\ t.receipt = None /\ t.database # None /\ t.claim # None
    BY <1>2, <1>3 DEF StageOK
  <2> QED BY <1>1, <1>2, <1>3, <2>1 DEF RunOK
<1>8. t.database = Imported(i.plan.candidate) /\ IntentOK(i)
  BY <1>3, <1>7 DEF TargetOK, IntendedOK
<1>9. s \in Seals /\ s # None /\ SealFor(s, i)
  <2>1. CASE t.seal # None
    <3>1. s = t.seal
      BY <1>1, <2>1
    <3>2. s \in Seals
      BY <1>3, <2>1, <3>1 DEF VolumeFiles
    <3> QED BY <1>3, <1>7, <2>1, <3>1, <3>2 DEF TargetOK, IntendedOK
  <2>2. CASE t.seal = None
    <3>1. s = [claim |-> "target", config |-> "review", content |-> i.plan.candidate.content, closedAt |-> clock]
      BY <1>1, <2>2 DEF Seal, Config
    <3>2. clock \in Times /\ i.startedAt <= clock /\ clock < i.plan.expires
      BY <1>1 DEF IInv, ClockOK, WriteSeal, Write, Fresh, InForce
    <3>3. i.plan.candidate.content \in Seq(Volumes)
      BY <1>3 DEF Intents, Plans, Seals
    <3>4. s \in Seals
      BY <3>1, <3>2, <3>3 DEF Seals, Volumes
    <3>5. SealFor(s, i)
      BY <3>1, <3>2 DEF SealFor, Config
    <3> QED BY <3>4, <3>5, NoneAssumption
  <2> QED BY <2>1, <2>2
<1>10. t.claim = "target"
  BY <1>3, <1>7 DEF VolumeOK
<1>11. t.database = [config |-> s.config, content |-> s.content] /\ s.claim = "target" /\ s.config = Config["target"]
  BY <1>8, <1>9 DEF Imported, SealFor
<1>12. VolumeOK("target", f)
  <2>1. f \in VolumeFiles
    BY <1>3, <1>6, <1>9 DEF VolumeFiles
  <2> QED BY <1>3, <1>6, <1>7, <1>10, <1>11, <2>1 DEF VolumeOK, Closed
<1>13. TargetOK(f)
  BY <1>6, <1>7, <1>8, <1>9 DEF TargetOK, IntendedOK, ReceiptedOK, NotImported
<1>14. RunOK(r, f)
  <2>1. StageOK(r, f)
    BY <1>5, <1>6, <1>7, <1>9 DEF StageOK
  <2> QED BY <1>1, <1>2, <1>3, <1>5, <1>6, <1>7, <1>8, <2>1 DEF RunOK, IntentOK
<1> QED BY <1>2, <1>4, <1>5, <1>12, <1>13, <1>14, WrittenStep

LEMMA WriteReceiptStep ==
    ASSUME IInv, WriteReceipt
    PROVE  IInv'
<1>1. PICK t, i, c, f, r :
        /\ t = Target /\ i = run.intent /\ c = Receipt(i, t.seal)
        /\ f = [t EXCEPT !.receipt = c]
        /\ r = [run EXCEPT !.stage = "receipted", !.verifiedAt = clock]
  OBVIOUS
<1>2. run.stage = "sealed" /\ run.stage # "down"
  BY DEF WriteReceipt
<1>3. /\ t \in VolumeFiles /\ VolumeOK("target", t) /\ TargetOK(t) /\ t.openEpoch = None /\ t.sidecars = FALSE
      /\ i \in Intents /\ RunOK(run, t) /\ StageOK(run, t)
  BY <1>1, <1>2, AttemptFacts
<1>4. /\ run' = r /\ files' = [files EXCEPT !["target"] = f]
      /\ UNCHANGED <<owner, clock, rehearsed, plan>>
  BY <1>1 DEF WriteReceipt, Write
<1>5. r \in Attempts /\ r.stage = "receipted" /\ r.intent = i /\ r.stage \in Stages
  <2>1. "receipted" \in Stages \ {"down"}
    BY DEF Stages
  <2> QED BY <1>1, <1>2, <2>1, NextStage
<1>6. f = [database |-> t.database, sidecars |-> t.sidecars, claim |-> t.claim, seal |-> t.seal,
           openEpoch |-> t.openEpoch, intent |-> t.intent, copy |-> t.copy, receipt |-> c]
  BY <1>1, <1>3 DEF VolumeFiles
<1>7. /\ t.intent # None /\ t.database # None /\ t.claim # None /\ t.seal # None /\ t.intent = i
  <2>1. t.intent # None /\ t.database # None /\ t.claim # None /\ t.seal # None
    BY <1>2, <1>3 DEF StageOK
  <2> QED BY <1>1, <1>2, <1>3, <2>1 DEF RunOK
<1>8. t.database = Imported(i.plan.candidate) /\ IntentOK(i) /\ SealFor(t.seal, i) /\ t.seal \in Seals
  BY <1>3, <1>7 DEF TargetOK, IntendedOK, VolumeFiles
<1>9. /\ c = [plan |-> i.plan, sourceSeal |-> i.sourceSeal, startedAt |-> i.startedAt, targetSeal |-> t.seal]
      /\ c \in Receipts /\ c # None
  <2>1. c = [plan |-> i.plan, sourceSeal |-> i.sourceSeal, startedAt |-> i.startedAt, targetSeal |-> t.seal]
    BY <1>1 DEF Receipt
  <2>2. c \in Receipts
    BY <1>3, <1>8, <2>1 DEF Receipts, Intents
  <2> QED BY <2>1, <2>2, NoneAssumption
<1>10. IntentOK(c) /\ SealFor(c.targetSeal, c)
  BY <1>8, <1>9 DEF IntentOK, SealFor
<1>11. Extends(t.database.content, c.sourceSeal.content)
  <2>1. PICK s : s = c.sourceSeal.content /\ s \in Seq(Volumes)
    BY <1>9 DEF Receipts, Seals
  <2>2. t.database.content = s
    BY <1>8, <1>9, <2>1 DEF Imported, IntentOK
  <2> QED BY <2>1, <2>2 DEF Extends
<1>12. VolumeOK("target", f)
  <2>1. f \in VolumeFiles
    BY <1>3, <1>6, <1>9 DEF VolumeFiles
  <2> QED BY <1>3, <1>6, <2>1 DEF VolumeOK, Closed
<1>13. TargetOK(f)
  <2>1. IntendedOK(f)
    BY <1>1, <1>6, <1>7, <1>8 DEF IntendedOK
  <2>2. ReceiptedOK(f)
    BY <1>6, <1>7, <1>10, <1>11 DEF ReceiptedOK
  <2>3. NotImported(f)
    BY <1>6, <1>7 DEF NotImported
  <2> QED BY <2>1, <2>2, <2>3 DEF TargetOK
<1>14. RunOK(r, f)
  <2>1. StageOK(r, f)
    BY <1>5, <1>6, <1>7, <1>9 DEF StageOK
  <2> QED BY <1>3, <1>5, <1>6, <1>7, <1>8, <2>1 DEF RunOK, IntentOK
<1> QED BY <1>2, <1>4, <1>5, <1>12, <1>13, <1>14, WrittenStep

LEMMA RemoveIntentStep ==
    ASSUME IInv, RemoveIntent
    PROVE  IInv'
<1>1. PICK t, f : t = Target /\ f = [t EXCEPT !.intent = None]
  OBVIOUS
<1>2. run.stage = "receipted" /\ run.stage # "down"
  BY DEF RemoveIntent
<1>3. /\ t \in VolumeFiles /\ VolumeOK("target", t) /\ TargetOK(t) /\ t.openEpoch = None /\ t.receipt # None
  <2>1. StageOK(run, t)
    BY <1>1, <1>2, AttemptFacts
  <2>2. t.receipt # None
    BY <1>2, <2>1 DEF StageOK
  <2> QED BY <1>1, <1>2, <2>2, AttemptFacts
<1>4. PICK r : r = run' /\ r.stage = "down"
  BY DownIsDown DEF RemoveIntent, Return
<1>5. files' = [files EXCEPT !["target"] = f] /\ UNCHANGED <<owner, clock, rehearsed, plan>>
  BY <1>1 DEF RemoveIntent, Return
<1>6. f = [database |-> t.database, sidecars |-> t.sidecars, claim |-> t.claim, seal |-> t.seal,
           openEpoch |-> t.openEpoch, intent |-> None, copy |-> t.copy, receipt |-> t.receipt]
  BY <1>1, <1>3 DEF VolumeFiles
<1>7. VolumeOK("target", f)
  <2>1. f \in VolumeFiles
    BY <1>3, <1>6 DEF VolumeFiles
  <2> QED BY <1>3, <1>6, <2>1 DEF VolumeOK, Closed
<1>8. TargetOK(f)
  BY <1>3, <1>6 DEF TargetOK, IntendedOK, ReceiptedOK, NotImported
<1>9. RunOK(r, f) /\ r.stage \in Stages
  BY <1>4, EndedRun DEF Stages
<1> QED BY <1>2, <1>4, <1>5, <1>7, <1>8, <1>9, WrittenStep

\* Every step preserves the invariant.
LEMMA NextIInv == IInv /\ [Next]_vars => IInv'
<1> SUFFICES ASSUME IInv, [Next]_vars
             PROVE  IInv'
  OBVIOUS
<1>1. ASSUME NEW v \in Volumes, OwnerOpens(v) \/ OwnerWrites(v) \/ OwnerSeals(v) \/ OwnerDies(v)
      PROVE  IInv'
  BY <1>1, OwnerOpensStep, OwnerWritesStep, OwnerSealsStep, OwnerDiesStep
<1>2. CASE Rehearse \/ (\E candidate \in rehearsed : Review(candidate)) \/ (\E now \in Times : SetClock(now))
  BY <1>2, OperationsStep
<1>3. CASE Activation
  BY <1>3, BeginStep, FinishEarlierStep, WriteIntentStep, CopyDatabaseStep, RenameDatabaseStep,
     KeepDatabaseStep, WriteClaimStep, WriteSealStep, WriteReceiptStep, RemoveIntentStep,
     ActivationEndsStep DEF Activation
<1>4. CASE UNCHANGED vars
  BY <1>4 DEF vars, IInv, VolumesOK, ClockOK, Target
<1> QED BY <1>1, <1>2, <1>3, <1>4 DEF Next

LEMMA Invariant == Spec => []IInv
  BY InitIInv, NextIInv, PTL DEF Spec

-----------------------------------------------------------------------------
(* What follows.                                                            *)

\* Type correctness; the locks of an activation exclude both owners
\* (acquireOwnerLock), and an open database is in an epoch.
THEOREM TypeCorrect == Spec => []TypeOK
<1>1. IInv => TypeOK
  BY DEF IInv, VolumesOK, VolumeOK, ClockOK, TypeOK
<1> QED BY <1>1, Invariant, PTL

\* A sequence that goes on from another has it as a prefix.
LEMMA ExtendsIsPrefix ==
    ASSUME NEW s \in Seq(Volumes), NEW t \in Seq(Volumes), Extends(t, s)
    PROVE  IsPrefix(s, t)
<1>1. Len(s) \in Nat /\ Len(t) \in Nat /\ Len(s) <= Len(t) /\ \A i \in 1..Len(s) : t[i] = s[i]
  BY DEF Extends
<1>2. PICK a, b : a = SubSeq(s, 1, Len(s)) /\ b = SubSeq(t, 1, Len(s))
  OBVIOUS
<1>3. /\ a \in Seq(Volumes) /\ Len(a) = Len(s) /\ \A i \in 1..Len(s) : a[i] = s[i]
  BY <1>1, <1>2, SubSeqProperties
<1>4. /\ b \in Seq(Volumes) /\ Len(b) = Len(s) /\ \A i \in 1..Len(s) : b[i] = t[i]
  BY <1>1, <1>2, SubSeqProperties
<1>5. a = b
  BY <1>1, <1>3, <1>4, SeqEqual
<1> QED BY <1>1, <1>2, <1>5 DEF IsPrefix

\* Nobody serves the imported case from the target before the activation has
\* committed its receipt and removed its intent, wherever and however often it
\* died; the receipt names the sealed source that the database begins with,
\* and its times are in order although the clock may be set back between two
\* attempts.
THEOREM ServedComplete == Spec => []ServedOnlyWhenComplete
<1>1. IInv => ServedOnlyWhenComplete
  <2> SUFFICES ASSUME IInv, owner["target"] = "running", "source" \in Range(Target.database.content)
               PROVE  /\ Target.intent = None /\ Target.receipt # None
                      /\ IsPrefix(Target.receipt.sourceSeal.content, Target.database.content)
                      /\ TimesAreOrdered(Target.receipt)
    BY DEF ServedOnlyWhenComplete
  <2>1. PICK t : t = Target
    OBVIOUS
  <2>2. /\ t \in VolumeFiles /\ TargetOK(t) /\ t.intent = None /\ t.database # None /\ t.database \in Databases
    BY <2>1, RunningOwner DEF Target, Volumes
  <2>3. t.receipt # None
    <3>1. PICK d : d = t.database.content /\ d \in Seq(Volumes)
      BY <2>2 DEF Databases
    <3>2. PICK i \in 1..Len(d) : d[i] = "source"
      <4>1. PICK i \in DOMAIN d : d[i] = "source"
        BY <2>1, <3>1 DEF Range
      <4> QED BY <3>1, <4>1
    <3> QED BY <2>2, <3>1, <3>2 DEF TargetOK, NotImported
  <2>4. /\ IntentOK(t.receipt) /\ SealFor(t.receipt.targetSeal, t.receipt)
        /\ Extends(t.database.content, t.receipt.sourceSeal.content)
    BY <2>2, <2>3 DEF TargetOK, ReceiptedOK
  <2>5. t.receipt.sourceSeal.content \in Seq(Volumes) /\ t.database.content \in Seq(Volumes)
    BY <2>2, <2>3 DEF VolumeFiles, Receipts, Seals, Databases
  <2>6. IsPrefix(t.receipt.sourceSeal.content, t.database.content)
    BY <2>4, <2>5, ExtendsIsPrefix
  <2>7. TimesAreOrdered(t.receipt)
    BY <2>4 DEF TimesAreOrdered, IntentOK, SealFor
  <2> QED BY <2>1, <2>2, <2>3, <2>6, <2>7
<1> QED BY <1>1, Invariant, PTL

\* The first half of ExactImportResumes: an attempt with the same plan, in
\* force, passes the checks at the start.
LEMMA BeginsAgain ==
    ASSUME IInv, run.stage = "down", LeftBehind # None,
           LeftBehind.plan = plan, LeftBehind.sourceSeal = Source.seal,
           InForce, clock >= LeftBehind.startedAt, Target.openEpoch = None, owner["source"] = "down"
    PROVE  BeginOK
<1>1. PICK t, s, l : t = Target /\ s = Source /\ l = LeftBehind
  OBVIOUS
<1>2. /\ t \in VolumeFiles /\ VolumeOK("target", t) /\ TargetOK(t) /\ t.openEpoch = None
      /\ s \in VolumeFiles /\ VolumeOK("source", s)
      /\ clock \in Times /\ plan \in Plans
  BY <1>1, TargetFacts DEF ClockOK, InForce
<1>3. /\ l = (IF t.intent # None THEN t.intent ELSE t.receipt) /\ l # None
      /\ l.plan = plan /\ l.sourceSeal = s.seal /\ l.startedAt <= clock
  <2>1. l = (IF t.intent # None THEN t.intent ELSE t.receipt) /\ l # None
    BY <1>1 DEF LeftBehind
  <2>2. l.startedAt \in Times
    BY <1>2, <2>1 DEF VolumeFiles, Intents, Receipts
  <2> QED BY <1>1, <1>2, <2>1, <2>2 DEF Times
<1>4. IntentOK(l) /\ l.sourceSeal \in Seals
  <2>1. CASE t.intent # None
    BY <1>2, <1>3, <2>1 DEF TargetOK, IntendedOK, VolumeFiles, Intents
  <2>2. CASE t.intent = None
    BY <1>2, <1>3, <2>2 DEF TargetOK, ReceiptedOK, VolumeFiles, Receipts
  <2> QED BY <2>1, <2>2
<1>5. StartedAt = l.startedAt
  BY <1>1, <1>3 DEF StartedAt
<1>6. s.seal # None /\ s.openEpoch = None /\ s.seal = plan.candidate /\ PrepareOK(s)
  <2>1. s.seal # None /\ s.seal = plan.candidate /\ Len(s.seal.content) = 1
    BY <1>3, <1>4, NoneAssumption DEF IntentOK
  <2>2. s.openEpoch = None
    BY <1>2, <2>1 DEF VolumeOK
  <2> QED BY <1>2, <2>1, <2>2 DEF VolumeOK, PrepareOK
<1>7. s.seal.closedAt <= clock
  <2>1. s.seal.closedAt \in Times /\ l.startedAt \in Times /\ s.seal.closedAt <= l.startedAt
    BY <1>2, <1>3, <1>4 DEF IntentOK, Seals, VolumeFiles, Intents, Receipts
  <2> QED BY <1>2, <1>3, <2>1 DEF Times
<1>8. plan.notBefore <= StartedAt /\ StartedAt <= clock
  BY <1>3, <1>4, <1>5 DEF IntentOK
<1>9. t.intent # None => t.intent = Intent
  <2>1. Intent = [plan |-> plan, sourceSeal |-> s.seal, startedAt |-> StartedAt]
    BY <1>1 DEF Intent
  <2>2. t.intent # None => t.intent \in Intents /\ t.intent = l
    BY <1>2, <1>3 DEF VolumeFiles
  <2> QED BY <1>3, <1>5, <2>1, <2>2 DEF Intents
<1>10. /\ ~t.sidecars /\ t.claim \in {None, "target"}
       /\ t.database = None => t.claim = None /\ t.seal = None
       /\ t.seal # None => t.claim # None
       /\ t.receipt # None => t.seal # None
       /\ t.intent # None \/ t.receipt # None
  <2>1. "target" # None
    BY NoneAssumption DEF Volumes
  <2>2. t.receipt # None => t.seal # None
    BY <1>2 DEF TargetOK, ReceiptedOK
  <2> QED BY <1>2, <1>3, <2>1, <2>2 DEF VolumeOK
<1>11. TargetStateOK
  BY <1>1, <1>2, <1>8, <1>9, <1>10 DEF TargetStateOK
<1> QED BY <1>1, <1>6, <1>7, <1>11 DEF BeginOK

\* The second half: what the attempt checks before its writes holds of what
\* the attempts before it have left.
LEMMA GoesOn ==
    ASSUME IInv, run.stage # "down", Fresh,
           Target.seal # None => Target.seal.closedAt <= run.began \/ run.stage \in {"sealed", "receipted"},
           Target.receipt # None =>
              Target.receipt.plan = plan /\ Target.receipt.targetSeal = Target.seal
    PROVE  ChecksPass
<1>1. PICK t, i : t = Target /\ i = run.intent
  OBVIOUS
<1>2. /\ t \in VolumeFiles /\ VolumeOK("target", t) /\ TargetOK(t) /\ t.openEpoch = None /\ t.sidecars = FALSE
      /\ run \in Attempts /\ i \in Intents /\ RunOK(run, t) /\ StageOK(run, t)
      /\ t.intent # None => t.intent = i
  BY <1>1, AttemptFacts
<1>3. i.plan = plan
  BY <1>1 DEF Fresh
<1>4. ASSUME run.stage \in {"imported", "claimed", "sealed", "receipted"}
      PROVE  TargetBytesOK
  <2>1. t.intent # None /\ t.database # None
    BY <1>2, <1>4 DEF StageOK
  <2>2. t.database = Imported(i.plan.candidate)
    BY <1>2, <2>1 DEF TargetOK, IntendedOK
  <2> QED BY <1>1, <1>2, <2>2 DEF TargetBytesOK
<1>5. ASSUME t.seal # None, SealFor(t.seal, i), t.seal.closedAt <= run.began
      PROVE  TargetSealOK(t.seal, i, run.began)
  <2>1. Closed(t, t.seal)
    BY <1>2, <1>5 DEF VolumeOK
  <2>2. [config |-> t.seal.config, content |-> t.seal.content] = Imported(i.plan.candidate)
    BY <1>5 DEF SealFor, Imported
  <2> QED BY <1>1, <1>5, <2>1, <2>2 DEF SealFor, TargetSealOK
<1>6. ASSUME run.stage = "claimed", t.seal # None
      PROVE  TargetSealOK(t.seal, i, run.began)
  <2>1. t.intent # None /\ t.intent = i
    BY <1>2, <1>6 DEF StageOK
  <2>2. SealFor(t.seal, i)
    BY <1>2, <1>6, <2>1 DEF TargetOK, IntendedOK
  <2> QED BY <1>1, <1>5, <1>6, <2>2
<1>7. ASSUME run.stage = "checked", t.receipt # None
      PROVE  EarlierReceiptOK
  <2>1. /\ t.seal # None /\ IntentOK(t.receipt) /\ SealFor(t.receipt.targetSeal, t.receipt)
        /\ t.receipt \in Receipts
    BY <1>2, <1>7 DEF TargetOK, ReceiptedOK, VolumeFiles
  <2>2. t.receipt.plan = plan /\ t.receipt.targetSeal = t.seal /\ t.receipt.startedAt = i.startedAt
    BY <1>1, <1>2, <1>7 DEF StageOK
  <2>3. t.receipt.sourceSeal = plan.candidate /\ i.sourceSeal = plan.candidate
    BY <1>1, <1>2, <1>3, <2>1, <2>2 DEF IntentOK, RunOK
  <2>4. SealFor(t.seal, i)
    BY <1>3, <2>1, <2>2 DEF SealFor
  <2>5. TargetSealOK(t.seal, i, run.began)
    BY <1>1, <1>5, <1>7, <2>1, <2>4
  <2>6. t.receipt = Receipt(i, t.seal)
    <3>1. Receipt(i, t.seal) = [plan |-> plan, sourceSeal |-> plan.candidate, startedAt |-> i.startedAt,
                                targetSeal |-> t.seal]
      BY <1>3, <2>3 DEF Receipt
    <3> QED BY <2>1, <2>2, <2>3, <3>1 DEF Receipts
  <2> QED BY <1>1, <2>5, <2>6 DEF EarlierReceiptOK
<1> QED BY <1>1, <1>4, <1>6, <1>7 DEF ChecksPass

\* Wherever an activation died, the same plan resumes it: while the plan is in
\* force, the clock has not gone back behind the first start and the source
\* is sealed as it was, a new attempt passes every check at its start, and
\* with the clock not behind the target's seal every check before its writes.
THEOREM ImportResumes == Spec => []ImportGoesOn
<1>1. IInv => ImportGoesOn
  BY BeginsAgain, GoesOn DEF ImportGoesOn
<1> QED BY <1>1, Invariant, PTL
=============================================================================
