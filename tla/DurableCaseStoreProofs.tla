------------------------ MODULE DurableCaseStoreProofs ------------------------
(***************************************************************************)
(* Proofs about the volumes of DurableCaseStore, for any number of         *)
(* processes, volumes, releases, configurations and recoveries: a seal is  *)
(* never stale, every state a crash leaves is an honest one, a copy is not *)
(* opened without a recovery, an exact retry succeeds and a process with   *)
(* another configuration changes nothing.                                  *)
(*                                                                         *)
(* A process may die between any two changes, so what is said of a volume  *)
(* (VolumeOK) holds at every step and of whatever files a copy brought.    *)
(* What its owner knows on top of that depends on its stage (StageOK), and *)
(* stays true because a volume has one owner.                              *)
(***************************************************************************)
EXTENDS DurableCaseStore, SequenceTheorems, TLAPS

Live ==
    [stage : Stages, volume : Volumes, claim : Claims \cup {None}, config : Configs,
     operation : Operations \cup {None}, completed : BOOLEAN]

\* A seal describes the closed database and names the volume's claim.
SealOK(f) ==
    f.seal # None =>
        /\ ~f.sidecars /\ f.database # None
        /\ f.database.content = f.seal.content /\ f.database.config = f.seal.config
        /\ f.marker = None => f.seal.claim = f.claim

\* A bootstrap is alone until it has its claim, and then it is for that claim.
BootstrapOK(f) ==
    f.bootstrap # None =>
        /\ f.marker = None /\ f.seal = None
        /\ IF f.claim = None THEN ~HasFile(f) /\ f.openEpoch = None ELSE f.claim = f.bootstrap.claim

\* An open epoch is the claim's, and its baseline is still in the database.
EpochOK(f) ==
    f.openEpoch # None =>
        /\ f.marker = None
        /\ f.claim = f.openEpoch.claim
        /\ f.database # None /\ f.database.config = f.openEpoch.config
        /\ IsPrefix(f.openEpoch.baseline.content, f.database.content)

\* A recovery leads from its source's claim and seal to its target's, under
\* the evidence that was attested for it.
MarkerOK(f) ==
    f.marker # None =>
        LET source == f.marker.sourceSeal
            target == f.marker.target
        IN
        /\ f.database # None /\ f.database.config = source.config
        /\ IsPrefix(source.content, f.database.content)
        /\ source.claim # None /\ ClaimVolume[source.claim] # ClaimVolume[target]
        /\ f.claim = target \/ (f.claim = source.claim /\ f.seal = source)
        /\ f.seal # None => f.seal = source \/ (f.seal.claim = target /\ f.claim = target)
        /\ attested[f.marker.operation] = [seal |-> source, target |-> target]
        /\ ClaimVolume[target] \in activated

\* A claimed volume has a receipt.
ReceiptOK(f) ==
    f.claim # None => f.bootstrap # None \/ f.openEpoch # None \/ f.marker # None \/ f.seal # None

\* A database has all its tables.
SchemaOK(f) == f.database # None => f.schema = "complete"

FilesOK(f) ==
    SealOK(f) /\ BootstrapOK(f) /\ EpochOK(f) /\ MarkerOK(f) /\ ReceiptOK(f) /\ SchemaOK(f)

\* A volume whose claim is bound to it, and on which no recovery was
\* authorized, holds only what was admitted on it.
OwnContent(v, f) ==
    f.claim # None /\ ClaimVolume[f.claim] = v /\ v \notin activated /\ f.database # None =>
        \A i \in 1..Len(f.database.content) : f.database.content[i] = v

VolumeOK(v) ==
    /\ FilesOK(files[v])
    /\ OwnContent(v, files[v])
    /\ files[v].claim # None => files[ClaimVolume[files[v].claim]].claim # None

VolumesOK == \A v \in Volumes : VolumeOK(v)

-----------------------------------------------------------------------------
\* What the process r knows of the files f of its volume.

\* CompletedRecovery, of a process and its files.
Completed(r, f) ==
    /\ f.marker # None /\ f.seal # None
    /\ r.claim = f.marker.target /\ f.seal.claim = f.marker.target /\ f.claim = f.marker.target

StartedOK(r) ==
    /\ r.claim # None => ClaimVolume[r.claim] = r.volume
    /\ r.operation # None => r.claim # None
    /\ r.stage = "locked" => ~r.completed

\* Past the receipts' tests, whatever tells a configuration tells this one's.
ConfigOK(r, f) ==
    r.stage # "locked" /\ (f.seal # None \/ f.openEpoch # None \/ f.marker # None) => f.database.config = r.config

\* An epoch that is over has lost its open epoch, a bootstrap likewise.
ReconciledOK(r, f) ==
    /\ r.stage \in {"reconciled", "marked", "claiming", "opening"} =>
         ~(f.openEpoch # None /\ (f.bootstrap # None \/ f.seal # None))
    /\ r.stage = "reconciled" => IF r.completed THEN f.marker = None ELSE ~Completed(r, f)

\* A recovery under way has its marker, and its source's seal until that goes.
RecoveringOK(r, f) ==
    /\ r.stage = "marked" => f.marker # None /\ f.marker.target = r.claim
    /\ r.stage \in {"marked", "claiming", "opening"} /\ f.marker # None /\ f.seal # None =>
         f.seal = f.marker.sourceSeal
    /\ r.stage \in {"claiming", "opening", "invalidating", "connecting", "creating", "bootstrapping", "baselined",
                    "transition", "reopening", "running", "closed"} /\ f.marker # None => f.claim = f.marker.target

ClaimedOK(r, f) ==
    r.stage \in {"opening", "invalidating", "connecting", "creating", "bootstrapping", "baselined", "transition",
                 "reopening", "running", "closed", "sealed", "unmarked"} => f.claim = r.claim

OpeningOK(r, f) ==
    /\ r.stage = "invalidating" =>
         /\ f.seal # None /\ f.marker = None /\ r.claim # None => f.openEpoch # None
         /\ ~(f.bootstrap # None /\ f.openEpoch # None)
    /\ r.stage \in {"connecting", "creating"} =>
         /\ f.seal = None
         /\ f.bootstrap # None => f.claim # None /\ f.openEpoch = None
    /\ r.stage = "creating" => f.database = None /\ f.marker = None /\ f.openEpoch = None

\* The database is there, with this configuration, and unsealed until it closes.
OpenedOK(r, f) ==
    /\ r.stage \in {"bootstrapping", "baselined", "transition", "reopening", "running", "closed",
                    "sealed", "unmarked"} =>
         f.database # None /\ f.database.config = r.config
    /\ r.stage \in {"bootstrapping", "baselined", "transition", "reopening", "running", "closed"} => f.seal = None
    /\ r.stage \in {"bootstrapping", "baselined"} => f.bootstrap # None /\ f.claim # None /\ f.openEpoch = None
    /\ r.stage = "transition" => f.openEpoch # None
    /\ r.stage \in {"reopening", "running", "closed"} => f.bootstrap = None
    /\ r.stage = "closed" => ~f.sidecars
    /\ r.stage \in {"sealed", "unmarked"} => f.seal # None /\ f.seal.claim = f.claim
    /\ r.stage = "unmarked" => f.marker = None

StageOK(r, f) ==
    /\ StartedOK(r) /\ ConfigOK(r, f) /\ ReconciledOK(r, f) /\ RecoveringOK(r, f)
    /\ ClaimedOK(r, f) /\ OpeningOK(r, f) /\ OpenedOK(r, f)

StagesOK == \A p \in Processes : Stage(p) # "down" => StageOK(proc[p], Here(p))

\* The owner lock.
OneOwner ==
    \A p, q \in Processes : Stage(p) # "down" /\ Stage(q) # "down" /\ proc[p].volume = proc[q].volume => p = q

IInv == TypeOK /\ VolumesOK /\ StagesOK /\ OneOwner

-----------------------------------------------------------------------------
\* The frame: what a step of one owner leaves of the others.

\* What the owner of a volume may rely on.
LEMMA OwnerFacts ==
    ASSUME IInv, NEW p \in Processes, Stage(p) # "down"
    PROVE  /\ proc[p] \in Live /\ proc[p].volume \in Volumes
           /\ Here(p) \in Files /\ FilesOK(Here(p)) /\ OwnContent(proc[p].volume, Here(p))
           /\ StageOK(proc[p], Here(p))
<1>1. proc[p] \in {Down} \cup Live
    BY DEF IInv, TypeOK, Live
<1>2. proc[p] \in Live
    BY <1>1 DEF Down, Stage
<1>3. proc[p].volume \in Volumes
    BY <1>2 DEF Live
<1> QED BY <1>2, <1>3 DEF IInv, TypeOK, VolumesOK, VolumeOK, StagesOK, Here

\* The files of a volume after a step, from what is known of their value.
LEMMA FilesNext ==
    ASSUME NEW v \in Volumes, NEW f, files'[v] = f, FilesOK(f), activated \subseteq activated',
           f.marker # None => attested'[f.marker.operation] = attested[f.marker.operation]
    PROVE  FilesOK(files[v])'
<1>1. SealOK(f) /\ BootstrapOK(f) /\ EpochOK(f) /\ MarkerOK(f) /\ ReceiptOK(f) /\ SchemaOK(f)
    BY DEF FilesOK
<1>2. SealOK(files[v])'
    BY <1>1 DEF SealOK
<1>3. BootstrapOK(files[v])'
    BY <1>1 DEF BootstrapOK, HasFile
<1>4. EpochOK(files[v])'
    BY <1>1 DEF EpochOK
<1>5. MarkerOK(files[v])'
    BY <1>1 DEF MarkerOK
<1>6. ReceiptOK(files[v])'
    BY <1>1 DEF ReceiptOK
<1>7. SchemaOK(files[v])'
    BY <1>1 DEF SchemaOK
<1> QED BY <1>2, <1>3, <1>4, <1>5, <1>6, <1>7 DEF FilesOK

\* The same of the processes.
LEMMA StagesNext ==
    ASSUME \A q \in Processes : proc'[q].stage # "down" => StageOK(proc'[q], files'[proc'[q].volume])
    PROVE  StagesOK'
<1> SUFFICES ASSUME NEW q \in Processes, Stage(q)' # "down" PROVE StageOK(proc[q], Here(q))'
    BY DEF StagesOK
<1>1. PICK r, f : r = proc'[q] /\ f = files'[proc'[q].volume]
    OBVIOUS
<1>2. StageOK(r, f)
    BY <1>1 DEF Stage
<1>3. /\ StartedOK(r) /\ ConfigOK(r, f) /\ ReconciledOK(r, f) /\ RecoveringOK(r, f)
      /\ ClaimedOK(r, f) /\ OpeningOK(r, f) /\ OpenedOK(r, f)
    BY <1>2 DEF StageOK
<1>4. StartedOK(proc[q])'
    BY <1>1, <1>3 DEF StartedOK
<1>5. ConfigOK(proc[q], Here(q))'
    BY <1>1, <1>3 DEF ConfigOK, Here
<1>6. ReconciledOK(proc[q], Here(q))'
    BY <1>1, <1>3 DEF ReconciledOK, Completed, Here
<1>7. RecoveringOK(proc[q], Here(q))'
    BY <1>1, <1>3 DEF RecoveringOK, Here
<1>8. ClaimedOK(proc[q], Here(q))'
    BY <1>1, <1>3 DEF ClaimedOK, Here
<1>9. OpeningOK(proc[q], Here(q))'
    BY <1>1, <1>3 DEF OpeningOK, Here
<1>10. OpenedOK(proc[q], Here(q))'
    BY <1>1, <1>3 DEF OpenedOK, Here
<1> QED BY <1>4, <1>5, <1>6, <1>7, <1>8, <1>9, <1>10 DEF StageOK

\* The owner p of a volume leaves it with the files g and goes on as r.
LEMMA OwnerStep ==
    ASSUME IInv, NEW p \in Processes, Stage(p) # "down",
           NEW g \in Files, NEW r \in {Down} \cup Live,
           files' = [files EXCEPT ![proc[p].volume] = g], proc' = [proc EXCEPT ![p] = r],
           UNCHANGED <<attested, expired>>, activated \subseteq activated', activated' \subseteq Volumes,
           r.stage # "down" => r.volume = proc[p].volume /\ StageOK(r, g),
           FilesOK(g)', OwnContent(proc[p].volume, g),
           Here(p).claim # None => g.claim # None,
           g.claim # Here(p).claim => ClaimVolume[g.claim] = proc[p].volume
    PROVE  IInv'
<1> DEFINE w == proc[p].volume
<1>1. w \in Volumes /\ proc[p] \in Live /\ Here(p) \in Files
    BY OwnerFacts
<1>2. files'[w] = g /\ \A v \in Volumes \ {w} : files'[v] = files[v]
    BY <1>1 DEF IInv, TypeOK
<1>3. proc'[p] = r /\ \A q \in Processes \ {p} : proc'[q] = proc[q]
    BY DEF IInv, TypeOK
<1>4. TypeOK'
    BY <1>1 DEF IInv, TypeOK, Live
<1>5. VolumesOK'
  <2> SUFFICES ASSUME NEW v \in Volumes PROVE VolumeOK(v)'
      BY DEF VolumesOK
  <2>1. VolumeOK(v) /\ ClaimVolume \in [Claims -> Volumes]
      BY ClaimsAssumption DEF IInv, VolumesOK
  <2>2. \A u \in Volumes : files[u].claim # None => files'[u].claim # None
      BY <1>2 DEF Here
  <2>3. CASE v = w
    <3>1. OwnContent(v, files[v])'
        BY <1>2, <2>3 DEF OwnContent
    <3>2. g.claim # None => files'[ClaimVolume[g.claim]].claim # None
      <4>1. CASE g.claim = Here(p).claim
        <5>1. g.claim # None => g.claim \in Claims
            BY DEF Files
        <5>2. g.claim # None => files[ClaimVolume[g.claim]].claim # None
            BY <4>1, <2>1, <2>3 DEF VolumeOK, Here
        <5> QED BY <2>1, <2>2, <5>1, <5>2
      <4>2. CASE g.claim # Here(p).claim
          BY <4>2, <1>2
      <4> QED BY <4>1, <4>2
    <3> QED BY <1>2, <2>3, <3>1, <3>2 DEF VolumeOK
  <2>4. CASE v # w
    <3>1. files'[v] = files[v] /\ FilesOK(files[v])
        BY <1>2, <2>1, <2>4 DEF VolumeOK
    <3>2. FilesOK(files[v])'
        BY <3>1, FilesNext
    <3>3. OwnContent(v, files[v])'
        BY <2>1, <3>1 DEF VolumeOK, OwnContent
    <3>4. files[v].claim # None => files[v].claim \in Claims
        BY DEF IInv, TypeOK, Files
    <3>5. files[v].claim # None => files'[ClaimVolume[files[v].claim]].claim # None
        BY <2>1, <2>2, <3>4 DEF VolumeOK
    <3> QED BY <3>1, <3>2, <3>3, <3>5 DEF VolumeOK
  <2> QED BY <2>3, <2>4
<1>6. OneOwner'
  <2> SUFFICES ASSUME NEW q \in Processes, NEW s \in Processes, q # s,
                      proc'[q].stage # "down", proc'[s].stage # "down", proc'[q].volume = proc'[s].volume
               PROVE  FALSE
      BY DEF OneOwner, Stage
  <2>1. proc[q].volume = proc[s].volume /\ proc[q].stage # "down" /\ proc[s].stage # "down"
      BY <1>3 DEF Stage
  <2> QED BY <2>1 DEF IInv, OneOwner, Stage
<1>7. StagesOK'
  <2> SUFFICES ASSUME NEW q \in Processes, proc'[q].stage # "down"
               PROVE  StageOK(proc'[q], files'[proc'[q].volume])
      BY StagesNext
  <2>1. CASE q = p
      BY <1>2, <1>3, <2>1
  <2>2. CASE q # p
    <3>1. proc'[q] = proc[q] /\ StageOK(proc[q], files[proc[q].volume])
        BY <1>3, <2>2 DEF IInv, StagesOK, Stage, Here
    <3>2. proc[q].volume # w
        BY <2>2, <3>1 DEF IInv, OneOwner, Stage
    <3>3. proc[q].volume \in Volumes
        BY <3>1, OwnerFacts DEF Stage
    <3>4. files'[proc[q].volume] = files[proc[q].volume]
        BY <1>2, <3>2, <3>3
    <3> QED BY <3>1, <3>4
  <2> QED BY <2>1, <2>2
<1> QED BY <1>4, <1>5, <1>6, <1>7 DEF IInv

\* The same process at another stage.
IsAt(r, s, stage) ==
    /\ r \in Live /\ r.stage = stage
    /\ r.volume = s.volume /\ r.claim = s.claim /\ r.config = s.config
    /\ r.operation = s.operation /\ r.completed = s.completed

\* One change of the files and on to the next stage.
LEMMA ChangeStep ==
    ASSUME IInv, NEW p \in Processes, Stage(p) # "down",
           NEW g \in Files, NEW st \in Stages, Change(p, g, st),
           \A r : IsAt(r, proc[p], st) => StageOK(r, g),
           FilesOK(g), OwnContent(proc[p].volume, g),
           Here(p).claim # None => g.claim # None,
           g.claim # Here(p).claim => ClaimVolume[g.claim] = proc[p].volume
    PROVE  IInv'
<1>1. proc[p] \in Live
    BY OwnerFacts
<1>2. PICK r : r = [proc[p] EXCEPT !.stage = st]
    OBVIOUS
<1>3. IsAt(r, proc[p], st)
    BY <1>1, <1>2 DEF Live, IsAt
<1>4. files' = [files EXCEPT ![proc[p].volume] = g] /\ proc' = [proc EXCEPT ![p] = r]
    BY <1>2 DEF Change, SetFiles, GoTo
<1>5. UNCHANGED <<attested, expired, activated>> /\ activated \subseteq Volumes
    BY DEF Change, Outside, IInv, TypeOK
<1>6. FilesOK(g)'
    BY <1>5 DEF FilesOK, SealOK, BootstrapOK, EpochOK, MarkerOK, ReceiptOK, SchemaOK, HasFile
<1>7. r \in Live /\ r.volume = proc[p].volume /\ StageOK(r, g)
    BY <1>3 DEF IsAt
<1> QED BY <1>4, <1>5, <1>6, <1>7, OwnerStep

\* On to the next stage with the files as they are.
LEMMA ContinueStep ==
    ASSUME IInv, NEW p \in Processes, Stage(p) # "down", NEW st \in Stages, Continue(p, st),
           \A r : IsAt(r, proc[p], st) => StageOK(r, Here(p))
    PROVE  IInv'
<1>1. PICK g : g = Here(p)
    OBVIOUS
<1>2. proc[p].volume \in Volumes /\ g \in Files /\ FilesOK(g) /\ OwnContent(proc[p].volume, g)
    BY <1>1, OwnerFacts
<1>3. Change(p, g, st)
    BY <1>1, <1>2 DEF Continue, Change, SetFiles, Here, IInv, TypeOK
<1> QED BY <1>1, <1>2, <1>3, ChangeStep

\* A process that gives its volume up may leave the database closed.
LEMMA DownStep ==
    ASSUME IInv, NEW p \in Processes, Stage(p) # "down", NEW g \in Files,
           files' = [files EXCEPT ![proc[p].volume] = g], proc' = [proc EXCEPT ![p] = Down], Outside,
           FilesOK(g), OwnContent(proc[p].volume, g), g.claim = Here(p).claim
    PROVE  IInv'
<1>1. UNCHANGED <<attested, expired, activated>> /\ activated \subseteq Volumes
    BY DEF Outside, IInv, TypeOK
<1>2. FilesOK(g)'
    BY <1>1 DEF FilesOK, SealOK, BootstrapOK, EpochOK, MarkerOK, ReceiptOK, SchemaOK, HasFile
<1>3. Down.stage = "down"
    BY DEF Down
<1> QED BY <1>1, <1>2, <1>3, OwnerStep

\* Files that differ in the sidecars only, none being left, are as good.
LEMMA ClosedFiles ==
    ASSUME NEW f \in Files, NEW g, g = [f EXCEPT !.sidecars = FALSE], FilesOK(f), NEW v, OwnContent(v, f)
    PROVE  g \in Files /\ FilesOK(g) /\ OwnContent(v, g) /\ g.claim = f.claim
<1>1. /\ g \in Files /\ ~g.sidecars
      /\ g.bootstrap = f.bootstrap /\ g.claim = f.claim /\ g.openEpoch = f.openEpoch /\ g.marker = f.marker
      /\ g.seal = f.seal /\ g.schema = f.schema /\ g.database = f.database
    BY DEF Files
<1> QED BY <1>1 DEF FilesOK, SealOK, BootstrapOK, EpochOK, MarkerOK, ReceiptOK, SchemaOK, HasFile, OwnContent

\* A crash leaves the files as they are.
LEMMA CrashStep ==
    ASSUME IInv, NEW p \in Processes, Crash(p)
    PROVE  IInv'
<1>1. Stage(p) # "down"
    BY DEF Crash
<1>2. PICK g : g = Here(p)
    OBVIOUS
<1>3. g \in Files /\ FilesOK(g) /\ OwnContent(proc[p].volume, g) /\ proc[p].volume \in Volumes
    BY <1>1, <1>2, OwnerFacts
<1>4. files' = [files EXCEPT ![proc[p].volume] = g] /\ proc' = [proc EXCEPT ![p] = Down] /\ Outside
    BY <1>2, <1>3 DEF Crash, Here, IInv, TypeOK
<1> QED BY <1>1, <1>2, <1>3, <1>4, DownStep

\* close leaves the files without sidecars and unsealed.
LEMMA CloseStep ==
    ASSUME IInv, NEW p \in Processes, Close(p)
    PROVE  IInv'
<1>1. Stage(p) # "down"
    BY DEF Close
<1>2. PICK g : g = [Here(p) EXCEPT !.sidecars = FALSE]
    OBVIOUS
<1>3. g \in Files /\ FilesOK(g) /\ OwnContent(proc[p].volume, g) /\ g.claim = Here(p).claim
    BY <1>1, <1>2, OwnerFacts, ClosedFiles
<1>4. files' = [files EXCEPT ![proc[p].volume] = g] /\ proc' = [proc EXCEPT ![p] = Down] /\ Outside
    BY <1>2 DEF Close, SetFiles
<1> QED BY <1>1, <1>3, <1>4, DownStep

\* A refused start leaves the receipts as they are.
LEMMA RefuseStep ==
    ASSUME IInv, NEW p \in Processes, Refuse(p)
    PROVE  IInv'
<1>1. Stage(p) # "down"
    BY DEF Refuse, Refused
<1>2. PICK g : g = IF Stage(p) = "connecting" THEN [Here(p) EXCEPT !.sidecars = FALSE] ELSE Here(p)
    OBVIOUS
<1>3. g \in Files /\ FilesOK(g) /\ OwnContent(proc[p].volume, g) /\ g.claim = Here(p).claim
    BY <1>1, <1>2, OwnerFacts, ClosedFiles
<1>4. files' = [files EXCEPT ![proc[p].volume] = g] /\ proc' = [proc EXCEPT ![p] = Down] /\ Outside
    BY <1>2 DEF Refuse, SetFiles
<1> QED BY <1>1, <1>3, <1>4, DownStep

-----------------------------------------------------------------------------
\* One lemma per change of the files.  f and s are the files and the process
\* before it, g the files after it.

\* The open epoch takes the place of the bootstrap.
LEMMA DropBootstrapStep ==
    ASSUME IInv, NEW p \in Processes, DropBootstrap(p)
    PROVE  IInv'
<1>1. Stage(p) = "locked"
    BY DEF DropBootstrap
<1>2. PICK f, s, g : f = Here(p) /\ s = proc[p] /\ g = [f EXCEPT !.bootstrap = None]
    OBVIOUS
<1>3. /\ s \in Live /\ s.stage = "locked" /\ f \in Files /\ FilesOK(f) /\ OwnContent(s.volume, f) /\ StageOK(s, f)
    BY <1>1, <1>2, OwnerFacts DEF Stage
<1>4. /\ g \in Files /\ g.bootstrap = None /\ g.claim = f.claim /\ g.openEpoch = f.openEpoch /\ g.marker = f.marker
      /\ g.seal = f.seal /\ g.schema = f.schema /\ g.database = f.database /\ g.sidecars = f.sidecars
    BY <1>2, <1>3 DEF Files
<1>5. Change(p, g, "reconciled") /\ f.bootstrap # None /\ f.openEpoch # None /\ f.openEpoch.config = s.config
    BY <1>2 DEF DropBootstrap, ReceiptsOK
<1>6. FilesOK(g) /\ OwnContent(s.volume, g)
    BY <1>3, <1>4, <1>5 DEF FilesOK, SealOK, BootstrapOK, EpochOK, MarkerOK, ReceiptOK, SchemaOK, HasFile, OwnContent
<1>7. ASSUME NEW r, IsAt(r, s, "reconciled") PROVE StageOK(r, g)
    BY <1>3, <1>4, <1>5, <1>7
    DEF IsAt, FilesOK, BootstrapOK, EpochOK, StageOK, StartedOK, ConfigOK, ReconciledOK, RecoveringOK, ClaimedOK,
        OpeningOK, OpenedOK, Completed
<1> QED BY <1>1, <1>2, <1>4, <1>5, <1>6, <1>7, ChangeStep DEF Stages

\* The seal takes the place of the open epoch.
LEMMA DropOpenEpochStep ==
    ASSUME IInv, NEW p \in Processes, DropOpenEpoch(p)
    PROVE  IInv'
<1>1. Stage(p) = "locked"
    BY DEF DropOpenEpoch
<1>2. PICK f, s, g : f = Here(p) /\ s = proc[p] /\ g = [f EXCEPT !.openEpoch = None]
    OBVIOUS
<1>3. /\ s \in Live /\ s.stage = "locked" /\ f \in Files /\ FilesOK(f) /\ OwnContent(s.volume, f) /\ StageOK(s, f)
    BY <1>1, <1>2, OwnerFacts DEF Stage
<1>4. /\ g \in Files /\ g.bootstrap = f.bootstrap /\ g.claim = f.claim /\ g.openEpoch = None /\ g.marker = f.marker
      /\ g.seal = f.seal /\ g.schema = f.schema /\ g.database = f.database /\ g.sidecars = f.sidecars
    BY <1>2, <1>3 DEF Files
<1>5. Change(p, g, "reconciled") /\ f.openEpoch # None /\ f.seal # None /\ f.openEpoch.config = s.config
    BY <1>2 DEF DropOpenEpoch, ReceiptsOK
<1>6. FilesOK(g) /\ OwnContent(s.volume, g)
    BY <1>3, <1>4, <1>5 DEF FilesOK, SealOK, BootstrapOK, EpochOK, MarkerOK, ReceiptOK, SchemaOK, HasFile, OwnContent
<1>7. ASSUME NEW r, IsAt(r, s, "reconciled") PROVE StageOK(r, g)
    BY <1>3, <1>4, <1>5, <1>7
    DEF IsAt, FilesOK, EpochOK, StageOK, StartedOK, ConfigOK, ReconciledOK, RecoveringOK, ClaimedOK, OpeningOK,
        OpenedOK, Completed
<1> QED BY <1>1, <1>2, <1>4, <1>5, <1>6, <1>7, ChangeStep DEF Stages

\* A bootstrap is written on a volume without a database.
LEMMA WriteBootstrapStep ==
    ASSUME IInv, NEW p \in Processes, WriteBootstrap(p)
    PROVE  IInv'
<1>1. Stage(p) = "locked"
    BY DEF WriteBootstrap
<1>2. PICK f, s, b : f = Here(p) /\ s = proc[p] /\ b = [claim |-> s.claim, config |-> s.config]
    OBVIOUS
<1>3. PICK g : g = [f EXCEPT !.bootstrap = b]
    OBVIOUS
<1>4. /\ s \in Live /\ s.stage = "locked" /\ f \in Files /\ FilesOK(f) /\ OwnContent(s.volume, f) /\ StageOK(s, f)
    BY <1>1, <1>2, OwnerFacts DEF Stage
<1>5. Change(p, g, "reconciled") /\ Unclaimed(f) /\ s.claim # None /\ f.schema = "absent"
    BY <1>2, <1>3 DEF WriteBootstrap, ReceiptsOK, HasFile
<1>6. b \in Bootstrap
    BY <1>2, <1>4, <1>5 DEF Bootstrap, Live
<1>7. /\ g \in Files /\ g.bootstrap = b /\ g.claim = f.claim /\ g.openEpoch = f.openEpoch /\ g.marker = f.marker
      /\ g.seal = f.seal /\ g.schema = f.schema /\ g.database = f.database /\ g.sidecars = f.sidecars
    BY <1>3, <1>4, <1>6 DEF Files
<1>8. FilesOK(g) /\ OwnContent(s.volume, g)
    BY <1>4, <1>5, <1>7
    DEF Unclaimed, FilesOK, SealOK, BootstrapOK, EpochOK, MarkerOK, ReceiptOK, SchemaOK, HasFile, OwnContent
<1>9. ASSUME NEW r, IsAt(r, s, "reconciled") PROVE StageOK(r, g)
    BY <1>4, <1>5, <1>7, <1>9
    DEF IsAt, Unclaimed, StageOK, StartedOK, ConfigOK, ReconciledOK, RecoveringOK, ClaimedOK, OpeningOK, OpenedOK,
        Completed
<1> QED BY <1>1, <1>2, <1>5, <1>7, <1>8, <1>9, ChangeStep DEF Stages

\* The target's seal takes the place of the marker.
LEMMA DropMarkerStep ==
    ASSUME IInv, NEW p \in Processes, DropMarker(p)
    PROVE  IInv'
<1>1. Stage(p) = "locked"
    BY DEF DropMarker
<1>2. PICK f, s, g, r : /\ f = Here(p) /\ s = proc[p] /\ g = [f EXCEPT !.marker = None]
                        /\ r = [s EXCEPT !.stage = "reconciled", !.completed = TRUE]
    OBVIOUS
<1>3. /\ s \in Live /\ s.stage = "locked" /\ f \in Files /\ FilesOK(f) /\ OwnContent(s.volume, f) /\ StageOK(s, f)
    BY <1>1, <1>2, OwnerFacts DEF Stage
<1>4. /\ g \in Files /\ g.bootstrap = f.bootstrap /\ g.claim = f.claim /\ g.openEpoch = f.openEpoch /\ g.marker = None
      /\ g.seal = f.seal /\ g.schema = f.schema /\ g.database = f.database /\ g.sidecars = f.sidecars
    BY <1>2, <1>3 DEF Files
<1>5. /\ files' = [files EXCEPT ![proc[p].volume] = g] /\ proc' = [proc EXCEPT ![p] = r] /\ Outside
      /\ f.marker # None /\ f.seal # None /\ f.seal.claim = f.marker.target /\ f.claim = f.marker.target
      /\ f.seal.config = s.config
    BY <1>2 DEF DropMarker, SetFiles, ReceiptsOK, CompletedRecovery, EpochSealConfigOK
<1>6. /\ r \in Live /\ r.stage = "reconciled" /\ r.completed /\ r.volume = s.volume /\ r.claim = s.claim
      /\ r.config = s.config /\ r.operation = s.operation
    BY <1>2, <1>3 DEF Live, Stages
<1>7. UNCHANGED <<attested, expired, activated>> /\ activated \subseteq Volumes
    BY <1>5 DEF Outside, IInv, TypeOK
<1>8. FilesOK(g)' /\ OwnContent(s.volume, g)
    BY <1>3, <1>4, <1>5, <1>7
    DEF FilesOK, SealOK, BootstrapOK, EpochOK, MarkerOK, ReceiptOK, SchemaOK, HasFile, OwnContent
<1>9. StageOK(r, g)
    BY <1>3, <1>4, <1>5, <1>6
    DEF FilesOK, SealOK, BootstrapOK, EpochOK, StageOK, StartedOK, ConfigOK, ReconciledOK, RecoveringOK,
        ClaimedOK, OpeningOK, OpenedOK, Completed
<1>10. r \in {Down} \cup Live /\ (r.stage # "down" => r.volume = proc[p].volume /\ StageOK(r, g))
    BY <1>2, <1>6, <1>9
<1>11. /\ Stage(p) # "down" /\ OwnContent(proc[p].volume, g)
       /\ Here(p).claim # None => g.claim # None
       /\ g.claim # Here(p).claim => ClaimVolume[g.claim] = proc[p].volume
    BY <1>1, <1>2, <1>4, <1>8
<1>12. activated \subseteq activated' /\ activated' \subseteq Volumes
    BY <1>7
<1> QED BY <1>4, <1>5, <1>7, <1>8, <1>10, <1>11, <1>12, OwnerStep

\* No receipt is superseded by another.
LEMMA NothingToReconcileStep ==
    ASSUME IInv, NEW p \in Processes, NothingToReconcile(p)
    PROVE  IInv'
<1>1. Stage(p) = "locked"
    BY DEF NothingToReconcile
<1>2. PICK f, s : f = Here(p) /\ s = proc[p]
    OBVIOUS
<1>3. /\ s \in Live /\ s.stage = "locked" /\ f \in Files /\ FilesOK(f) /\ StageOK(s, f)
    BY <1>1, <1>2, OwnerFacts DEF Stage
<1>4. /\ Continue(p, "reconciled") /\ ~(f.openEpoch # None /\ (f.bootstrap # None \/ f.seal # None)) /\ ~Completed(s, f)
      /\ f.openEpoch # None => f.openEpoch.config = s.config
      /\ f.seal # None => f.seal.config = s.config
      /\ f.seal = None /\ f.marker # None => f.marker.sourceSeal.config = s.config
    BY <1>2 DEF NothingToReconcile, ReceiptsOK, CompletedRecovery, Completed, EpochSealConfigOK
<1>5. ASSUME NEW r, IsAt(r, s, "reconciled") PROVE StageOK(r, f)
  <2>1. f.seal # None \/ f.openEpoch # None \/ f.marker # None => f.database.config = s.config
      BY <1>3, <1>4 DEF FilesOK, SealOK, BootstrapOK, EpochOK, MarkerOK, ReceiptOK, SchemaOK, HasFile
  <2>2. ~r.completed => ~Completed(r, f)
      BY <1>4, <1>5 DEF IsAt, Completed
  <2> QED BY <1>3, <1>4, <1>5, <2>1, <2>2
      DEF IsAt, StageOK, StartedOK, ConfigOK, ReconciledOK, RecoveringOK, ClaimedOK, OpeningOK, OpenedOK,
          Completed
<1> QED BY <1>1, <1>2, <1>4, <1>5, ContinueStep DEF Stages

\* A sequence contains itself and what it had before an append.
LEMMA PrefixFacts ==
    ASSUME NEW S, NEW t \in Seq(S), NEW s \in Seq(S), NEW x \in S
    PROVE  IsPrefix(t, t) /\ IsPrefix(<<>>, t) /\ (IsPrefix(s, t) => IsPrefix(s, Append(t, x)))
<1>1. IsPrefix(t, t) /\ IsPrefix(<<>>, t)
    BY DEF IsPrefix
<1>2. ASSUME IsPrefix(s, t) PROVE IsPrefix(s, Append(t, x))
  <2>1. Len(s) \in Nat /\ Len(t) \in Nat /\ Len(s) <= Len(t) /\ Len(Append(t, x)) = Len(t) + 1
      BY <1>2 DEF IsPrefix
  <2>2. SubSeq(t, 1, Len(s)) = SubSeq(Append(t, x), 1, Len(s))
      BY <2>1
  <2> QED BY <1>2, <2>1, <2>2 DEF IsPrefix
<1> QED BY <1>1, <1>2

\* The marker is written while the source seal is there, for the evidence in force.
LEMMA WriteMarkerStep ==
    ASSUME IInv, NEW p \in Processes, WriteMarker(p)
    PROVE  IInv'
<1>1. Stage(p) = "reconciled"
    BY DEF WriteMarker
<1>2. PICK f, s : f = Here(p) /\ s = proc[p]
    OBVIOUS
<1>3. PICK m, r : /\ m = [operation |-> s.operation, target |-> s.claim, sourceSeal |-> f.seal]
                  /\ r = [s EXCEPT !.stage = "marked"]
    OBVIOUS
<1>4. PICK g : g = [f EXCEPT !.marker = m]
    OBVIOUS
<1>5. /\ s \in Live /\ s.stage = "reconciled" /\ s.volume \in Volumes
      /\ f \in Files /\ FilesOK(f) /\ OwnContent(s.volume, f) /\ StageOK(s, f)
    BY <1>1, <1>2, OwnerFacts DEF Stage
<1>6. /\ files' = [files EXCEPT ![proc[p].volume] = g] /\ proc' = [proc EXCEPT ![p] = r]
      /\ activated' = activated \cup {s.volume} /\ UNCHANGED <<attested, expired>>
    BY <1>2, <1>3, <1>4 DEF WriteMarker, SetFiles, GoTo
<1>7. /\ f.marker = None /\ f.seal # None /\ f.seal.claim # None /\ f.claim = f.seal.claim
      /\ s.operation # None /\ attested[s.operation] = [seal |-> f.seal, target |-> s.claim]
      /\ ClaimVolume[f.seal.claim] # ClaimVolume[s.claim]
    BY <1>2 DEF WriteMarker, RecoveryOK, SourceSeal, Recovering, Authorized
<1>8. m \in Marker /\ m # None /\ m.operation = s.operation /\ m.target = s.claim /\ m.sourceSeal = f.seal
    BY <1>3, <1>5, <1>7, ClaimsAssumption DEF Marker, Live, Files, StageOK, StartedOK
<1>9. /\ g \in Files /\ g.bootstrap = f.bootstrap /\ g.claim = f.claim /\ g.openEpoch = f.openEpoch /\ g.marker = m
      /\ g.seal = f.seal /\ g.schema = f.schema /\ g.database = f.database /\ g.sidecars = f.sidecars
    BY <1>4, <1>5, <1>8 DEF Files
<1>10. IsAt(r, s, "marked")
    BY <1>3, <1>5 DEF IsAt, Live, Stages
<1>11. f.openEpoch = None /\ f.bootstrap = None /\ ClaimVolume[s.claim] = s.volume
    BY <1>5, <1>7 DEF FilesOK, BootstrapOK, StageOK, ReconciledOK, StartedOK
<1>12. FilesOK(g)'
  <2>1. IsPrefix(f.seal.content, f.database.content)
    <3>1. f.database.content = f.seal.content /\ f.seal.content \in Seq(Volumes)
        BY <1>5, <1>7 DEF FilesOK, SealOK, Files, Seal, Contents
    <3> QED BY <3>1, <1>5, PrefixFacts
  <2>2. MarkerOK(g)'
      BY <1>5, <1>6, <1>7, <1>8, <1>9, <1>11, <2>1 DEF FilesOK, SealOK, MarkerOK
  <2>3. SealOK(g) /\ BootstrapOK(g) /\ EpochOK(g) /\ ReceiptOK(g) /\ SchemaOK(g)
      BY <1>5, <1>7, <1>8, <1>9, <1>11
      DEF FilesOK, SealOK, BootstrapOK, EpochOK, MarkerOK, ReceiptOK, SchemaOK, HasFile
  <2> QED BY <2>2, <2>3 DEF FilesOK, SealOK, BootstrapOK, EpochOK, ReceiptOK, SchemaOK, HasFile
<1>13. OwnContent(s.volume, g)
    BY <1>5, <1>9 DEF OwnContent
<1>14. StageOK(r, g)
    BY <1>5, <1>7, <1>8, <1>9, <1>10, <1>11
    DEF IsAt, FilesOK, SealOK, StageOK, StartedOK, ConfigOK, ReconciledOK, RecoveringOK, ClaimedOK, OpeningOK,
        OpenedOK, Completed
<1>15. activated \subseteq activated' /\ activated' \subseteq Volumes
    BY <1>5, <1>6 DEF IInv, TypeOK
<1> QED BY <1>1, <1>2, <1>6, <1>9, <1>10, <1>12, <1>13, <1>14, <1>15, OwnerStep DEF IsAt

\* The marker that is there is this recovery's.
LEMMA ResumeRecoveryStep ==
    ASSUME IInv, NEW p \in Processes, ResumeRecovery(p)
    PROVE  IInv'
<1>1. Stage(p) = "reconciled"
    BY DEF ResumeRecovery
<1>2. PICK f, s : f = Here(p) /\ s = proc[p]
    OBVIOUS
<1>3. s \in Live /\ s.stage = "reconciled" /\ f \in Files /\ FilesOK(f) /\ StageOK(s, f)
    BY <1>1, <1>2, OwnerFacts DEF Stage
<1>4. /\ Continue(p, "marked") /\ f.marker # None
      /\ f.marker = [operation |-> s.operation, target |-> s.claim, sourceSeal |-> SourceSeal(f)]
      /\ f.seal # None => f.seal = f.marker.sourceSeal
    BY <1>2 DEF ResumeRecovery, RecoveryOK
<1>5. f.marker.target = s.claim
    BY <1>4
<1>6. ASSUME NEW r, IsAt(r, s, "marked") PROVE StageOK(r, f)
    BY <1>3, <1>4, <1>5, <1>6
    DEF IsAt, StageOK, StartedOK, ConfigOK, ReconciledOK, RecoveringOK, ClaimedOK, OpeningOK, OpenedOK, Completed
<1> QED BY <1>1, <1>2, <1>4, <1>6, ContinueStep DEF Stages

\* Without a recovery to make there is no marker: it was dropped, or the start
\* is refused.
LEMMA NoRecoveryStep ==
    ASSUME IInv, NEW p \in Processes, NoRecovery(p)
    PROVE  IInv'
<1>1. Stage(p) = "reconciled"
    BY DEF NoRecovery
<1>2. PICK f, s : f = Here(p) /\ s = proc[p]
    OBVIOUS
<1>3. s \in Live /\ s.stage = "reconciled" /\ f \in Files /\ FilesOK(f) /\ StageOK(s, f)
    BY <1>1, <1>2, OwnerFacts DEF Stage
<1>4. Continue(p, "claiming") /\ (f.marker # None => s.operation # None) /\ (s.operation = None \/ s.completed)
    BY <1>2 DEF NoRecovery, RecoveryOK, Recovering
<1>5. f.marker = None
    BY <1>3, <1>4 DEF StageOK, ReconciledOK
<1>6. ASSUME NEW r, IsAt(r, s, "claiming") PROVE StageOK(r, f)
    BY <1>3, <1>5, <1>6
    DEF IsAt, StageOK, StartedOK, ConfigOK, ReconciledOK, RecoveringOK, ClaimedOK, OpeningOK, OpenedOK, Completed
<1> QED BY <1>1, <1>2, <1>4, <1>6, ContinueStep DEF Stages

\* The source's claim becomes the target's, and the volume its own.
LEMMA RotateClaimStep ==
    ASSUME IInv, NEW p \in Processes, RotateClaim(p)
    PROVE  IInv'
<1>1. Stage(p) = "marked"
    BY DEF RotateClaim
<1>2. PICK f, s, g : f = Here(p) /\ s = proc[p] /\ g = [f EXCEPT !.claim = s.claim]
    OBVIOUS
<1>3. /\ s \in Live /\ s.stage = "marked" /\ f \in Files /\ FilesOK(f) /\ OwnContent(s.volume, f) /\ StageOK(s, f)
    BY <1>1, <1>2, OwnerFacts DEF Stage
<1>4. /\ Change(p, g, "claiming") /\ f.marker # None /\ f.marker.target = s.claim
    BY <1>2, <1>3 DEF RotateClaim, StageOK, RecoveringOK
<1>5. s.claim \in Claims /\ s.claim # None /\ ClaimVolume[s.claim] = s.volume
    BY <1>3, <1>4, ClaimsAssumption DEF Files, Marker, StageOK, StartedOK
<1>6. /\ g \in Files /\ g.bootstrap = f.bootstrap /\ g.claim = s.claim /\ g.openEpoch = f.openEpoch
      /\ g.marker = f.marker /\ g.seal = f.seal
      /\ g.schema = f.schema /\ g.database = f.database /\ g.sidecars = f.sidecars
    BY <1>2, <1>3, <1>5 DEF Files
<1>7. s.volume \in activated
    BY <1>3, <1>4, <1>5 DEF FilesOK, MarkerOK
<1>8. FilesOK(g) /\ OwnContent(s.volume, g)
    BY <1>3, <1>4, <1>6, <1>7
    DEF FilesOK, SealOK, BootstrapOK, EpochOK, MarkerOK, ReceiptOK, SchemaOK, HasFile, OwnContent
<1>9. ASSUME NEW r, IsAt(r, s, "claiming") PROVE StageOK(r, g)
    BY <1>3, <1>4, <1>6, <1>9
    DEF IsAt, StageOK, StartedOK, ConfigOK, ReconciledOK, RecoveringOK, ClaimedOK, OpeningOK, OpenedOK, Completed
<1> QED BY <1>1, <1>2, <1>4, <1>5, <1>6, <1>8, <1>9, ChangeStep DEF Stages

\* A volume is claimed before it has a database.
LEMMA WriteClaimStep ==
    ASSUME IInv, NEW p \in Processes, WriteClaim(p)
    PROVE  IInv'
<1>1. Stage(p) = "claiming"
    BY DEF WriteClaim
<1>2. PICK f, s : f = Here(p) /\ s = proc[p]
    OBVIOUS
<1>3. PICK g : g = [f EXCEPT !.claim = IF @ = None THEN s.claim ELSE @]
    OBVIOUS
<1>4. /\ s \in Live /\ s.stage = "claiming" /\ f \in Files /\ FilesOK(f) /\ OwnContent(s.volume, f) /\ StageOK(s, f)
    BY <1>1, <1>2, OwnerFacts DEF Stage
<1>5. /\ Change(p, g, "opening")
      /\ IF f.claim # None THEN s.claim = f.claim
         ELSE s.claim # None =>
                /\ f.bootstrap # None /\ f.bootstrap.claim = s.claim
                /\ f.database = None /\ f.seal = None /\ f.marker = None /\ f.openEpoch = None
    BY <1>2, <1>3, <1>4 DEF WriteClaim, ClaimOK, FilesOK, SchemaOK, HasFile
<1>6. /\ g \in Files /\ g.bootstrap = f.bootstrap /\ g.claim = s.claim /\ g.openEpoch = f.openEpoch
      /\ g.marker = f.marker /\ g.seal = f.seal
      /\ g.schema = f.schema /\ g.database = f.database /\ g.sidecars = f.sidecars
    BY <1>3, <1>4, <1>5 DEF Files, Live
<1>7. g.claim # f.claim => ClaimVolume[g.claim] = s.volume
    BY <1>4, <1>5, <1>6 DEF StageOK, StartedOK
<1>8. FilesOK(g) /\ OwnContent(s.volume, g)
    BY <1>4, <1>5, <1>6 DEF FilesOK, SealOK, BootstrapOK, EpochOK, MarkerOK, ReceiptOK, SchemaOK, HasFile, OwnContent
<1>9. ASSUME NEW r, IsAt(r, s, "opening") PROVE StageOK(r, g)
    BY <1>4, <1>5, <1>6, <1>9
    DEF IsAt, StageOK, StartedOK, ConfigOK, ReconciledOK, RecoveringOK, ClaimedOK, OpeningOK, OpenedOK, Completed
<1> QED BY <1>1, <1>2, <1>5, <1>6, <1>7, <1>8, <1>9, ChangeStep DEF Stages

\* The new epoch is written while the seal it starts from is there.
LEMMA WriteOpenEpochStep ==
    ASSUME IInv, NEW p \in Processes, WriteOpenEpoch(p)
    PROVE  IInv'
<1>1. Stage(p) = "opening"
    BY DEF WriteOpenEpoch
<1>2. PICK f, s : f = Here(p) /\ s = proc[p]
    OBVIOUS
<1>3. PICK e : e = [claim |-> s.claim, config |-> s.config, baseline |-> f.seal]
    OBVIOUS
<1>4. PICK g : g = [f EXCEPT !.openEpoch = e]
    OBVIOUS
<1>5. /\ s \in Live /\ s.stage = "opening" /\ f \in Files /\ FilesOK(f) /\ OwnContent(s.volume, f) /\ StageOK(s, f)
    BY <1>1, <1>2, OwnerFacts DEF Stage
<1>6. Change(p, g, "invalidating") /\ f.seal # None /\ f.marker = None /\ s.claim # None
    BY <1>2, <1>3, <1>4 DEF WriteOpenEpoch
<1>7. e \in OpenEpoch /\ e # None /\ e.claim = s.claim /\ e.config = s.config /\ e.baseline = f.seal
    BY <1>3, <1>5, <1>6, ClaimsAssumption DEF OpenEpoch, Live, Files
<1>8. /\ g \in Files /\ g.bootstrap = f.bootstrap /\ g.claim = f.claim /\ g.openEpoch = e
      /\ g.marker = f.marker /\ g.seal = f.seal
      /\ g.schema = f.schema /\ g.database = f.database /\ g.sidecars = f.sidecars
    BY <1>4, <1>5, <1>7 DEF Files
<1>9. f.bootstrap = None /\ f.database.config = s.config /\ f.claim = s.claim
    BY <1>5, <1>6 DEF FilesOK, BootstrapOK, StageOK, ConfigOK, ClaimedOK
<1>10. IsPrefix(f.seal.content, f.database.content)
  <2>1. f.database.content = f.seal.content /\ f.seal.content \in Seq(Volumes) /\ s.volume \in Volumes
      BY <1>5, <1>6 DEF FilesOK, SealOK, Files, Seal, Contents, Live
  <2> QED BY <2>1, PrefixFacts
<1>11. FilesOK(g) /\ OwnContent(s.volume, g)
    BY <1>5, <1>6, <1>7, <1>8, <1>9, <1>10
    DEF FilesOK, SealOK, BootstrapOK, EpochOK, MarkerOK, ReceiptOK, SchemaOK, HasFile, OwnContent
<1>12. ASSUME NEW r, IsAt(r, s, "invalidating") PROVE StageOK(r, g)
    BY <1>5, <1>6, <1>7, <1>8, <1>9, <1>12
    DEF IsAt, StageOK, StartedOK, ConfigOK, ReconciledOK, RecoveringOK, ClaimedOK, OpeningOK, OpenedOK, Completed
<1> QED BY <1>1, <1>2, <1>6, <1>8, <1>11, <1>12, ChangeStep DEF Stages

\* A volume without a seal, or being recovered, keeps its receipts.
LEMMA KeepEpochStep ==
    ASSUME IInv, NEW p \in Processes, KeepEpoch(p)
    PROVE  IInv'
<1>1. Stage(p) = "opening"
    BY DEF KeepEpoch
<1>2. PICK f, s : f = Here(p) /\ s = proc[p]
    OBVIOUS
<1>3. s \in Live /\ s.stage = "opening" /\ f \in Files /\ FilesOK(f) /\ StageOK(s, f)
    BY <1>1, <1>2, OwnerFacts DEF Stage
<1>4. Continue(p, "invalidating") /\ (f.seal = None \/ f.marker # None \/ s.claim = None)
    BY <1>2 DEF KeepEpoch
<1>5. ASSUME NEW r, IsAt(r, s, "invalidating") PROVE StageOK(r, f)
    BY <1>3, <1>4, <1>5
    DEF IsAt, StageOK, StartedOK, ConfigOK, ReconciledOK, RecoveringOK, ClaimedOK, OpeningOK, OpenedOK, Completed
<1> QED BY <1>1, <1>2, <1>4, <1>5, ContinueStep DEF Stages

\* The seal goes only when another receipt tells the last clean state.
LEMMA InvalidatePriorSealStep ==
    ASSUME IInv, NEW p \in Processes, InvalidatePriorSeal(p)
    PROVE  IInv'
<1>1. Stage(p) = "invalidating"
    BY DEF InvalidatePriorSeal
<1>2. PICK f, s, g : f = Here(p) /\ s = proc[p] /\ g = [f EXCEPT !.seal = None]
    OBVIOUS
<1>3. /\ s \in Live /\ s.stage = "invalidating"
      /\ f \in Files /\ FilesOK(f) /\ OwnContent(s.volume, f) /\ StageOK(s, f)
    BY <1>1, <1>2, OwnerFacts DEF Stage
<1>4. /\ Change(p, g, "connecting")
      /\ \/ f.marker # None \/ f.openEpoch # None
         \/ f.bootstrap # None /\ f.claim = f.bootstrap.claim
         \/ s.claim = None /\ f.bootstrap = None
    BY <1>2 DEF InvalidatePriorSeal, InvalidateOK
<1>5. /\ g \in Files /\ g.bootstrap = f.bootstrap /\ g.claim = f.claim /\ g.openEpoch = f.openEpoch
      /\ g.marker = f.marker /\ g.seal = None
      /\ g.schema = f.schema /\ g.database = f.database /\ g.sidecars = f.sidecars
    BY <1>2, <1>3 DEF Files
<1>6. f.claim = s.claim /\ (f.marker # None => f.claim = f.marker.target)
    BY <1>3 DEF StageOK, ClaimedOK, RecoveringOK
<1>7. f.bootstrap # None => f.bootstrap.claim # None /\ f.marker = None /\ f.openEpoch = None
    BY <1>3, ClaimsAssumption DEF Files, Bootstrap, FilesOK, BootstrapOK, StageOK, OpeningOK
<1>8. FilesOK(g) /\ OwnContent(s.volume, g)
    BY <1>3, <1>4, <1>5, <1>6, <1>7
    DEF FilesOK, SealOK, BootstrapOK, EpochOK, MarkerOK, ReceiptOK, SchemaOK, HasFile, OwnContent
<1>9. ASSUME NEW r, IsAt(r, s, "connecting") PROVE StageOK(r, g)
    BY <1>3, <1>4, <1>5, <1>6, <1>7, <1>9
    DEF IsAt, StageOK, StartedOK, ConfigOK, ReconciledOK, RecoveringOK, ClaimedOK, OpeningOK, OpenedOK, Completed
<1> QED BY <1>1, <1>2, <1>4, <1>5, <1>8, <1>9, ChangeStep DEF Stages

\* A database that is there is opened.
LEMMA ConnectStep ==
    ASSUME IInv, NEW p \in Processes, Connect(p)
    PROVE  IInv'
<1>1. Stage(p) = "connecting"
    BY DEF Connect
<1>2. PICK f, s, g, st : f = Here(p) /\ s = proc[p] /\ g = [f EXCEPT !.sidecars = TRUE] /\ st = Opened(f)
    OBVIOUS
<1>3. /\ s \in Live /\ s.stage = "connecting"
      /\ f \in Files /\ FilesOK(f) /\ OwnContent(s.volume, f) /\ StageOK(s, f)
    BY <1>1, <1>2, OwnerFacts DEF Stage
<1>4. /\ g \in Files /\ g.bootstrap = f.bootstrap /\ g.claim = f.claim /\ g.openEpoch = f.openEpoch
      /\ g.marker = f.marker /\ g.seal = f.seal /\ g.schema = f.schema /\ g.database = f.database /\ g.sidecars
    BY <1>2, <1>3 DEF Files
<1>5. Change(p, g, st) /\ f.database # None /\ f.database.config = s.config
    BY <1>2 DEF Connect, ConnectOK
<1>6. f.seal = None /\ f.claim = s.claim /\ (f.bootstrap # None => f.claim # None /\ f.openEpoch = None)
    BY <1>3 DEF StageOK, OpeningOK, ClaimedOK
<1>7. FilesOK(g) /\ OwnContent(s.volume, g)
    BY <1>3, <1>4, <1>5, <1>6
    DEF FilesOK, SealOK, BootstrapOK, EpochOK, MarkerOK, ReceiptOK, SchemaOK, HasFile, OwnContent
<1>8. st = (IF f.bootstrap # None THEN "bootstrapping" ELSE "running") /\ st \in Stages
    BY <1>2 DEF Opened, Stages
<1>9. ASSUME NEW r, IsAt(r, s, st) PROVE StageOK(r, g)
    BY <1>3, <1>4, <1>5, <1>6, <1>8, <1>9
    DEF IsAt, StageOK, StartedOK, ConfigOK, ReconciledOK, RecoveringOK, ClaimedOK, OpeningOK, OpenedOK, Completed
<1> QED BY <1>1, <1>2, <1>4, <1>5, <1>7, <1>8, <1>9, ChangeStep

\* The creation of a database goes on to a file g that is not a database yet.
LEMMA CreatingStep ==
    ASSUME IInv, NEW p \in Processes, Stage(p) \in {"connecting", "creating"},
           NEW x \in Schemas, NEW y \in BOOLEAN,
           Change(p, [Here(p) EXCEPT !.schema = x, !.sidecars = y], "creating"),
           x # "absent", Here(p).database = None, Here(p).marker = None, Here(p).openEpoch = None
    PROVE  IInv'
<1>1. PICK f, s, g : f = Here(p) /\ s = proc[p] /\ g = [f EXCEPT !.schema = x, !.sidecars = y]
    OBVIOUS
<1>2. Stage(p) # "down" /\ Change(p, g, "creating")
    BY <1>1
<1>3. /\ s \in Live /\ s.stage \in {"connecting", "creating"}
      /\ f \in Files /\ FilesOK(f) /\ OwnContent(s.volume, f) /\ StageOK(s, f)
    BY <1>1, <1>2, OwnerFacts DEF Stage
<1>4. /\ g \in Files /\ g.bootstrap = f.bootstrap /\ g.claim = f.claim /\ g.openEpoch = f.openEpoch
      /\ g.marker = f.marker /\ g.seal = f.seal /\ g.schema = x /\ g.database = f.database /\ g.sidecars = y
    BY <1>1, <1>3 DEF Files
<1>5. f.database = None /\ f.marker = None /\ f.openEpoch = None
    BY <1>1
<1>6. f.seal = None /\ f.claim = s.claim /\ (f.bootstrap # None => f.claim # None)
    BY <1>3 DEF StageOK, OpeningOK, ClaimedOK
<1>7. FilesOK(g) /\ OwnContent(s.volume, g)
    BY <1>3, <1>4, <1>5, <1>6
    DEF FilesOK, SealOK, BootstrapOK, EpochOK, MarkerOK, ReceiptOK, SchemaOK, HasFile, OwnContent
<1>8. ASSUME NEW r, IsAt(r, s, "creating") PROVE StageOK(r, g)
    BY <1>3, <1>4, <1>5, <1>6, <1>8
    DEF IsAt, StageOK, StartedOK, ConfigOK, ReconciledOK, RecoveringOK, ClaimedOK, OpeningOK, OpenedOK, Completed
<1> QED BY <1>1, <1>2, <1>4, <1>7, <1>8, ChangeStep DEF Stages

\* The file is created, or taken up where an earlier attempt left it.
LEMMA CreateFileStep ==
    ASSUME IInv, NEW p \in Processes, CreateFile(p)
    PROVE  IInv'
<1>1. Stage(p) = "connecting"
    BY DEF CreateFile
<1>2. PICK f, x, y : f = Here(p) /\ x = (IF f.schema = "absent" THEN "blank" ELSE f.schema) /\ y = f.sidecars
    OBVIOUS
<1>3. f \in Files
    BY <1>1, <1>2, OwnerFacts
<1>4. x \in Schemas /\ y \in BOOLEAN /\ x # "absent"
    BY <1>2, <1>3 DEF Files, Schemas
<1>5. [f EXCEPT !.schema = IF @ = "absent" THEN "blank" ELSE @] = [f EXCEPT !.schema = x, !.sidecars = y]
    BY <1>2, <1>3 DEF Files
<1>6. /\ Change(p, [f EXCEPT !.schema = IF @ = "absent" THEN "blank" ELSE @], "creating")
      /\ f.database = None /\ f.marker = None /\ f.openEpoch = None
    BY <1>2 DEF CreateFile, ConnectOK
<1>7. Change(p, [Here(p) EXCEPT !.schema = x, !.sidecars = y], "creating")
    BY <1>2, <1>5, <1>6
<1> QED BY <1>1, <1>2, <1>4, <1>6, <1>7, CreatingStep

\* It gets its header and its tables.
LEMMA TablesStep ==
    ASSUME IInv, NEW p \in Processes, WriteHeader(p) \/ CreateTables(p)
    PROVE  IInv'
<1>1. Stage(p) = "creating"
    BY DEF WriteHeader, CreateTables
<1>2. PICK x \in {"partial", "complete"} : Change(p, [Here(p) EXCEPT !.schema = x, !.sidecars = TRUE], "creating")
    BY DEF WriteHeader, CreateTables
<1>3. StageOK(proc[p], Here(p)) /\ proc[p].stage = "creating"
    BY <1>1, OwnerFacts DEF Stage
<1>4. Here(p).database = None /\ Here(p).marker = None /\ Here(p).openEpoch = None
    BY <1>3 DEF StageOK, OpeningOK
<1>5. x \in Schemas /\ x # "absent" /\ TRUE \in BOOLEAN
    BY DEF Schemas
<1> QED BY <1>1, <1>2, <1>4, <1>5, CreatingStep

\* The row of metadata makes it a database, with this configuration and nothing in it.
LEMMA InsertMetaStep ==
    ASSUME IInv, NEW p \in Processes, InsertMeta(p)
    PROVE  IInv'
<1>1. Stage(p) = "creating"
    BY DEF InsertMeta
<1>2. PICK f, s, d, st : /\ f = Here(p) /\ s = proc[p] /\ st = Opened(f)
                         /\ d = [config |-> s.config, content |-> <<>>]
    OBVIOUS
<1>3. PICK g : g = [f EXCEPT !.database = d, !.sidecars = TRUE]
    OBVIOUS
<1>4. /\ s \in Live /\ s.stage = "creating"
      /\ f \in Files /\ FilesOK(f) /\ OwnContent(s.volume, f) /\ StageOK(s, f)
    BY <1>1, <1>2, OwnerFacts DEF Stage
<1>5. Change(p, g, st) /\ f.schema = "complete"
    BY <1>2, <1>3 DEF InsertMeta
<1>6. d \in Database /\ d # None /\ d.config = s.config /\ d.content = <<>>
  <2>1. s.config \in Configs /\ <<>> \in Contents
      BY <1>4 DEF Live, Contents
  <2> QED BY <2>1, <1>2, ClaimsAssumption DEF Database
<1>7. /\ g \in Files /\ g.bootstrap = f.bootstrap /\ g.claim = f.claim /\ g.openEpoch = f.openEpoch
      /\ g.marker = f.marker /\ g.seal = f.seal /\ g.schema = f.schema /\ g.database = d /\ g.sidecars
    BY <1>3, <1>4, <1>6 DEF Files
<1>8. /\ f.seal = None /\ f.claim = s.claim /\ (f.bootstrap # None => f.claim # None)
      /\ f.marker = None /\ f.openEpoch = None
    BY <1>4 DEF StageOK, OpeningOK, ClaimedOK
<1>9. FilesOK(g)
    BY <1>4, <1>5, <1>6, <1>7, <1>8 DEF FilesOK, SealOK, BootstrapOK, EpochOK, MarkerOK, ReceiptOK, SchemaOK, HasFile
<1>10. OwnContent(s.volume, g)
    BY <1>6, <1>7 DEF OwnContent
<1>11. st = (IF f.bootstrap # None THEN "bootstrapping" ELSE "running") /\ st \in Stages
    BY <1>2 DEF Opened, Stages
<1>12. ASSUME NEW r, IsAt(r, s, st) PROVE StageOK(r, g)
    BY <1>4, <1>6, <1>7, <1>8, <1>11, <1>12
    DEF IsAt, StageOK, StartedOK, ConfigOK, ReconciledOK, RecoveringOK, ClaimedOK, OpeningOK, OpenedOK, Completed
<1> QED BY <1>1, <1>2, <1>5, <1>7, <1>9, <1>10, <1>11, <1>12, ChangeStep

\* The first database is closed under its bootstrap.
LEMMA CloseForBaselineStep ==
    ASSUME IInv, NEW p \in Processes, CloseForBaseline(p)
    PROVE  IInv'
<1>1. Stage(p) = "bootstrapping"
    BY DEF CloseForBaseline
<1>2. PICK f, s, g : f = Here(p) /\ s = proc[p] /\ g = [f EXCEPT !.sidecars = FALSE]
    OBVIOUS
<1>3. /\ s \in Live /\ s.stage = "bootstrapping"
      /\ f \in Files /\ FilesOK(f) /\ OwnContent(s.volume, f) /\ StageOK(s, f)
    BY <1>1, <1>2, OwnerFacts DEF Stage
<1>4. g \in Files /\ FilesOK(g) /\ OwnContent(s.volume, g) /\ g.claim = f.claim
    BY <1>2, <1>3, ClosedFiles
<1>5. /\ g.bootstrap = f.bootstrap /\ g.openEpoch = f.openEpoch
      /\ g.marker = f.marker /\ g.seal = f.seal /\ g.schema = f.schema /\ g.database = f.database
    BY <1>2, <1>3 DEF Files
<1>6. Change(p, g, "baselined")
    BY <1>2 DEF CloseForBaseline
<1>7. ASSUME NEW r, IsAt(r, s, "baselined") PROVE StageOK(r, g)
    BY <1>3, <1>4, <1>5, <1>7
    DEF IsAt, StageOK, StartedOK, ConfigOK, ReconciledOK, RecoveringOK, ClaimedOK, OpeningOK, OpenedOK, Completed
<1> QED BY <1>1, <1>2, <1>4, <1>6, <1>7, ChangeStep DEF Stages

\* The first epoch starts from the database just closed.
LEMMA WriteFirstEpochStep ==
    ASSUME IInv, NEW p \in Processes, WriteFirstEpoch(p)
    PROVE  IInv'
<1>1. Stage(p) = "baselined"
    BY DEF WriteFirstEpoch
<1>2. PICK f, s : f = Here(p) /\ s = proc[p]
    OBVIOUS
<1>3. PICK b : b = [claim |-> f.claim, config |-> s.config, content |-> f.database.content]
    OBVIOUS
<1>4. PICK e : e = [claim |-> f.claim, config |-> s.config, baseline |-> b]
    OBVIOUS
<1>5. PICK g : g = [f EXCEPT !.openEpoch = e]
    OBVIOUS
<1>6. /\ s \in Live /\ s.stage = "baselined"
      /\ f \in Files /\ FilesOK(f) /\ OwnContent(s.volume, f) /\ StageOK(s, f)
    BY <1>1, <1>2, OwnerFacts DEF Stage
<1>7. Change(p, g, "transition")
    BY <1>2, <1>3, <1>4, <1>5 DEF WriteFirstEpoch
<1>8. /\ f.database # None /\ f.database.config = s.config /\ f.seal = None /\ f.claim = s.claim
      /\ f.bootstrap # None /\ f.claim # None /\ f.openEpoch = None /\ f.marker = None
    BY <1>6 DEF StageOK, OpenedOK, ClaimedOK, FilesOK, BootstrapOK
<1>9. f.claim \in Claims /\ f.database.content \in Seq(Volumes) /\ s.config \in Configs /\ s.volume \in Volumes
    BY <1>6, <1>8 DEF Files, Database, Contents, Live
<1>10. b \in Seal /\ b.content = f.database.content
    BY <1>3, <1>9 DEF Seal, Contents
<1>11. e \in OpenEpoch /\ e # None /\ e.claim = f.claim /\ e.config = s.config /\ e.baseline = b
    BY <1>4, <1>9, <1>10, ClaimsAssumption DEF OpenEpoch
<1>12. /\ g \in Files /\ g.bootstrap = f.bootstrap /\ g.claim = f.claim /\ g.openEpoch = e
       /\ g.marker = f.marker /\ g.seal = f.seal
       /\ g.schema = f.schema /\ g.database = f.database /\ g.sidecars = f.sidecars
    BY <1>5, <1>6, <1>11 DEF Files
<1>13. IsPrefix(b.content, f.database.content)
    BY <1>9, <1>10, PrefixFacts
<1>14. FilesOK(g) /\ OwnContent(s.volume, g)
    BY <1>6, <1>8, <1>11, <1>12, <1>13
    DEF FilesOK, SealOK, BootstrapOK, EpochOK, MarkerOK, ReceiptOK, SchemaOK, HasFile, OwnContent
<1>15. ASSUME NEW r, IsAt(r, s, "transition") PROVE StageOK(r, g)
    BY <1>6, <1>8, <1>11, <1>12, <1>15
    DEF IsAt, StageOK, StartedOK, ConfigOK, ReconciledOK, RecoveringOK, ClaimedOK, OpeningOK, OpenedOK, Completed
<1> QED BY <1>1, <1>2, <1>7, <1>12, <1>14, <1>15, ChangeStep DEF Stages

\* The bootstrap goes once the first epoch is there.
LEMMA EndBootstrapStep ==
    ASSUME IInv, NEW p \in Processes, EndBootstrap(p)
    PROVE  IInv'
<1>1. Stage(p) = "transition"
    BY DEF EndBootstrap
<1>2. PICK f, s, g : f = Here(p) /\ s = proc[p] /\ g = [f EXCEPT !.bootstrap = None]
    OBVIOUS
<1>3. /\ s \in Live /\ s.stage = "transition"
      /\ f \in Files /\ FilesOK(f) /\ OwnContent(s.volume, f) /\ StageOK(s, f)
    BY <1>1, <1>2, OwnerFacts DEF Stage
<1>4. /\ g \in Files /\ g.bootstrap = None /\ g.claim = f.claim /\ g.openEpoch = f.openEpoch /\ g.marker = f.marker
      /\ g.seal = f.seal /\ g.schema = f.schema /\ g.database = f.database /\ g.sidecars = f.sidecars
    BY <1>2, <1>3 DEF Files
<1>5. Change(p, g, "reopening")
    BY <1>2 DEF EndBootstrap
<1>6. FilesOK(g) /\ OwnContent(s.volume, g)
    BY <1>3, <1>4
    DEF FilesOK, SealOK, BootstrapOK, EpochOK, MarkerOK, ReceiptOK, SchemaOK, HasFile, OwnContent, StageOK, OpenedOK
<1>7. ASSUME NEW r, IsAt(r, s, "reopening") PROVE StageOK(r, g)
    BY <1>3, <1>4, <1>7
    DEF IsAt, StageOK, StartedOK, ConfigOK, ReconciledOK, RecoveringOK, ClaimedOK, OpeningOK, OpenedOK, Completed
<1> QED BY <1>1, <1>2, <1>4, <1>5, <1>6, <1>7, ChangeStep DEF Stages

\* The database is opened again under its first epoch.
LEMMA ReopenStep ==
    ASSUME IInv, NEW p \in Processes, Reopen(p)
    PROVE  IInv'
<1>1. Stage(p) = "reopening"
    BY DEF Reopen
<1>2. PICK f, s, g : f = Here(p) /\ s = proc[p] /\ g = [f EXCEPT !.sidecars = TRUE]
    OBVIOUS
<1>3. /\ s \in Live /\ s.stage = "reopening"
      /\ f \in Files /\ FilesOK(f) /\ OwnContent(s.volume, f) /\ StageOK(s, f)
    BY <1>1, <1>2, OwnerFacts DEF Stage
<1>4. /\ g \in Files /\ g.bootstrap = f.bootstrap /\ g.claim = f.claim /\ g.openEpoch = f.openEpoch
      /\ g.marker = f.marker /\ g.seal = f.seal /\ g.schema = f.schema /\ g.database = f.database
    BY <1>2, <1>3 DEF Files
<1>5. Change(p, g, "running")
    BY <1>2 DEF Reopen
<1>6. f.seal = None
    BY <1>3 DEF StageOK, OpenedOK
<1>7. FilesOK(g) /\ OwnContent(s.volume, g)
    BY <1>3, <1>4, <1>6 DEF FilesOK, SealOK, BootstrapOK, EpochOK, MarkerOK, ReceiptOK, SchemaOK, HasFile, OwnContent
<1>8. ASSUME NEW r, IsAt(r, s, "running") PROVE StageOK(r, g)
    BY <1>3, <1>4, <1>8
    DEF IsAt, StageOK, StartedOK, ConfigOK, ReconciledOK, RecoveringOK, ClaimedOK, OpeningOK, OpenedOK, Completed
<1> QED BY <1>1, <1>2, <1>4, <1>5, <1>7, <1>8, ChangeStep DEF Stages

\* An admission extends the content, so the baseline stays a prefix of it.
LEMMA AdmitStep ==
    ASSUME IInv, NEW p \in Processes, Admit(p)
    PROVE  IInv'
<1>1. Stage(p) = "running"
    BY DEF Admit
<1>2. PICK f, s, v : f = Here(p) /\ s = proc[p] /\ v = proc[p].volume
    OBVIOUS
<1>3. PICK c : c = f.database.content
    OBVIOUS
<1>4. PICK d : d = [f.database EXCEPT !.content = Append(c, v)]
    OBVIOUS
<1>5. PICK g : g = [f EXCEPT !.database = d]
    OBVIOUS
<1>6. /\ s \in Live /\ s.stage = "running" /\ v \in Volumes /\ v = s.volume
      /\ f \in Files /\ FilesOK(f) /\ OwnContent(v, f) /\ StageOK(s, f)
    BY <1>1, <1>2, OwnerFacts DEF Stage
<1>7. Change(p, g, "running")
  <2>1. g = [f EXCEPT !.database.content = Append(@, v)]
      BY <1>3, <1>4, <1>5
  <2> QED BY <1>2, <2>1 DEF Admit
<1>8. f.database # None /\ f.database.config = s.config /\ f.seal = None /\ f.bootstrap = None
    BY <1>6 DEF StageOK, OpenedOK
<1>9. f.database \in Database /\ c \in Seq(Volumes)
    BY <1>3, <1>6, <1>8 DEF Files, Database, Contents
<1>10. d \in Database /\ d # None /\ d.config = f.database.config /\ d.content = Append(c, v)
  <2>1. Append(c, v) \in Contents /\ None \notin Database
      BY <1>6, <1>9, ClaimsAssumption DEF Contents
  <2>2. d \in Database /\ d.config = f.database.config /\ d.content = Append(c, v)
      BY <1>4, <1>9, <2>1 DEF Database
  <2> QED BY <2>1, <2>2
<1>11. /\ g \in Files /\ g.bootstrap = f.bootstrap /\ g.claim = f.claim /\ g.openEpoch = f.openEpoch
       /\ g.marker = f.marker /\ g.seal = f.seal /\ g.schema = f.schema /\ g.database = d /\ g.sidecars = f.sidecars
    BY <1>5, <1>6, <1>10 DEF Files
<1>12. FilesOK(g)
  <2>1. f.openEpoch # None => IsPrefix(f.openEpoch.baseline.content, Append(c, v))
    <3>1. f.openEpoch # None => f.openEpoch.baseline.content \in Seq(Volumes)
        BY <1>6 DEF Files, OpenEpoch, Seal, Contents
    <3> QED BY <1>3, <1>6, <1>9, <3>1, PrefixFacts DEF FilesOK, EpochOK
  <2>2. f.marker # None => IsPrefix(f.marker.sourceSeal.content, Append(c, v))
    <3>1. f.marker # None => f.marker.sourceSeal.content \in Seq(Volumes)
        BY <1>6 DEF Files, Marker, Seal, Contents
    <3> QED BY <1>3, <1>6, <1>9, <3>1, PrefixFacts DEF FilesOK, MarkerOK
  <2> QED BY <1>6, <1>8, <1>10, <1>11, <2>1, <2>2
    DEF FilesOK, SealOK, BootstrapOK, EpochOK, MarkerOK, ReceiptOK, SchemaOK, HasFile
<1>13. OwnContent(v, g)
  <2> SUFFICES ASSUME f.claim # None, ClaimVolume[f.claim] = v, v \notin activated,
                      NEW i \in 1..Len(Append(c, v))
               PROVE  Append(c, v)[i] = v
      BY <1>10, <1>11 DEF OwnContent
  <2>1. \A j \in 1..Len(c) : c[j] = v
      BY <1>3, <1>6, <1>8 DEF OwnContent
  <2> QED BY <1>6, <1>9, <2>1
<1>14. ASSUME NEW r, IsAt(r, s, "running") PROVE StageOK(r, g)
    BY <1>6, <1>8, <1>10, <1>11, <1>14
    DEF IsAt, StageOK, StartedOK, ConfigOK, ReconciledOK, RecoveringOK, ClaimedOK, OpeningOK, OpenedOK, Completed
<1> QED BY <1>1, <1>2, <1>6, <1>7, <1>11, <1>12, <1>13, <1>14, ChangeStep DEF Stages

\* The database is closed before it is sealed.
LEMMA CheckpointAndCloseStep ==
    ASSUME IInv, NEW p \in Processes, CheckpointAndClose(p)
    PROVE  IInv'
<1>1. Stage(p) = "running"
    BY DEF CheckpointAndClose
<1>2. PICK f, s, g : f = Here(p) /\ s = proc[p] /\ g = [f EXCEPT !.sidecars = FALSE]
    OBVIOUS
<1>3. /\ s \in Live /\ s.stage = "running" /\ f \in Files /\ FilesOK(f) /\ OwnContent(s.volume, f) /\ StageOK(s, f)
    BY <1>1, <1>2, OwnerFacts DEF Stage
<1>4. g \in Files /\ FilesOK(g) /\ OwnContent(s.volume, g) /\ g.claim = f.claim
    BY <1>2, <1>3, ClosedFiles
<1>5. /\ g.bootstrap = f.bootstrap /\ g.openEpoch = f.openEpoch
      /\ g.marker = f.marker /\ g.seal = f.seal /\ g.schema = f.schema /\ g.database = f.database /\ ~g.sidecars
    BY <1>2, <1>3 DEF Files
<1>6. Change(p, g, "closed")
    BY <1>2 DEF CheckpointAndClose
<1>7. ASSUME NEW r, IsAt(r, s, "closed") PROVE StageOK(r, g)
    BY <1>3, <1>4, <1>5, <1>7
    DEF IsAt, StageOK, StartedOK, ConfigOK, ReconciledOK, RecoveringOK, ClaimedOK, OpeningOK, OpenedOK, Completed
<1> QED BY <1>1, <1>2, <1>4, <1>6, <1>7, ChangeStep DEF Stages

\* The seal is of the closed database.
LEMMA WriteSealStep ==
    ASSUME IInv, NEW p \in Processes, WriteSeal(p)
    PROVE  IInv'
<1>1. Stage(p) = "closed"
    BY DEF WriteSeal
<1>2. PICK f, s : f = Here(p) /\ s = proc[p]
    OBVIOUS
<1>3. PICK b : b = [claim |-> f.claim, config |-> s.config, content |-> f.database.content]
    OBVIOUS
<1>4. PICK g : g = [f EXCEPT !.seal = b]
    OBVIOUS
<1>5. /\ s \in Live /\ s.stage = "closed" /\ f \in Files /\ FilesOK(f) /\ OwnContent(s.volume, f) /\ StageOK(s, f)
    BY <1>1, <1>2, OwnerFacts DEF Stage
<1>6. Change(p, g, "sealed")
    BY <1>2, <1>3, <1>4 DEF WriteSeal
<1>7. /\ f.database # None /\ f.database.config = s.config /\ f.bootstrap = None /\ ~f.sidecars
      /\ f.marker # None => f.claim = f.marker.target
    BY <1>5 DEF StageOK, OpenedOK, RecoveringOK
<1>8. b \in Seal /\ b # None /\ b.claim = f.claim /\ b.config = s.config /\ b.content = f.database.content
  <2>1. f.claim \in Claims \cup {None} /\ f.database.content \in Contents /\ s.config \in Configs
      BY <1>5, <1>7 DEF Files, Database, Live
  <2> QED BY <1>3, <2>1, ClaimsAssumption DEF Seal
<1>9. /\ g \in Files /\ g.bootstrap = f.bootstrap /\ g.claim = f.claim /\ g.openEpoch = f.openEpoch
      /\ g.marker = f.marker /\ g.seal = b
      /\ g.schema = f.schema /\ g.database = f.database /\ g.sidecars = f.sidecars
    BY <1>4, <1>5, <1>8 DEF Files
<1>10. FilesOK(g) /\ OwnContent(s.volume, g)
    BY <1>5, <1>7, <1>8, <1>9
    DEF FilesOK, SealOK, BootstrapOK, EpochOK, MarkerOK, ReceiptOK, SchemaOK, HasFile, OwnContent
<1>11. ASSUME NEW r, IsAt(r, s, "sealed") PROVE StageOK(r, g)
    BY <1>5, <1>7, <1>8, <1>9, <1>11
    DEF IsAt, StageOK, StartedOK, ConfigOK, ReconciledOK, RecoveringOK, ClaimedOK, OpeningOK, OpenedOK, Completed
<1> QED BY <1>1, <1>2, <1>6, <1>9, <1>10, <1>11, ChangeStep DEF Stages

\* The seal is there before the marker goes.
LEMMA RemoveMarkerStep ==
    ASSUME IInv, NEW p \in Processes, RemoveMarker(p)
    PROVE  IInv'
<1>1. Stage(p) = "sealed"
    BY DEF RemoveMarker
<1>2. PICK f, s, g : f = Here(p) /\ s = proc[p] /\ g = [f EXCEPT !.marker = None]
    OBVIOUS
<1>3. /\ s \in Live /\ s.stage = "sealed" /\ f \in Files /\ FilesOK(f) /\ OwnContent(s.volume, f) /\ StageOK(s, f)
    BY <1>1, <1>2, OwnerFacts DEF Stage
<1>4. /\ g \in Files /\ g.bootstrap = f.bootstrap /\ g.claim = f.claim /\ g.openEpoch = f.openEpoch
      /\ g.marker = None /\ g.seal = f.seal
      /\ g.schema = f.schema /\ g.database = f.database /\ g.sidecars = f.sidecars
    BY <1>2, <1>3 DEF Files
<1>5. Change(p, g, "unmarked") /\ f.seal # None /\ f.seal.claim = f.claim
    BY <1>2, <1>3 DEF RemoveMarker, StageOK, OpenedOK
<1>6. FilesOK(g) /\ OwnContent(s.volume, g)
    BY <1>3, <1>4, <1>5 DEF FilesOK, SealOK, BootstrapOK, EpochOK, MarkerOK, ReceiptOK, SchemaOK, HasFile, OwnContent
<1>7. ASSUME NEW r, IsAt(r, s, "unmarked") PROVE StageOK(r, g)
    BY <1>3, <1>4, <1>5, <1>7
    DEF IsAt, StageOK, StartedOK, ConfigOK, ReconciledOK, RecoveringOK, ClaimedOK, OpeningOK, OpenedOK, Completed
<1> QED BY <1>1, <1>2, <1>4, <1>5, <1>6, <1>7, ChangeStep DEF Stages

\* The seal is there before the open epoch goes.
LEMMA RemoveOpenEpochStep ==
    ASSUME IInv, NEW p \in Processes, RemoveOpenEpoch(p)
    PROVE  IInv'
<1>1. Stage(p) = "unmarked"
    BY DEF RemoveOpenEpoch
<1>2. PICK f, s, g : f = Here(p) /\ s = proc[p] /\ g = [f EXCEPT !.openEpoch = None]
    OBVIOUS
<1>3. /\ s \in Live /\ s.stage = "unmarked" /\ f \in Files /\ FilesOK(f) /\ OwnContent(s.volume, f) /\ StageOK(s, f)
    BY <1>1, <1>2, OwnerFacts DEF Stage
<1>4. /\ g \in Files /\ g.bootstrap = f.bootstrap /\ g.claim = f.claim /\ g.openEpoch = None
      /\ g.marker = f.marker /\ g.seal = f.seal
      /\ g.schema = f.schema /\ g.database = f.database /\ g.sidecars = f.sidecars
    BY <1>2, <1>3 DEF Files
<1>5. files' = [files EXCEPT ![proc[p].volume] = g] /\ proc' = [proc EXCEPT ![p] = Down] /\ Outside
    BY <1>2 DEF RemoveOpenEpoch, SetFiles
<1>6. f.seal # None
    BY <1>3 DEF StageOK, OpenedOK
<1>7. FilesOK(g) /\ OwnContent(s.volume, g)
    BY <1>3, <1>4, <1>6 DEF FilesOK, SealOK, BootstrapOK, EpochOK, MarkerOK, ReceiptOK, SchemaOK, HasFile, OwnContent
<1> QED BY <1>1, <1>2, <1>4, <1>5, <1>7, DownStep

-----------------------------------------------------------------------------
\* A start, and what Operations do to volumes nobody owns.

\* A process starts on a volume nobody owns and knows nothing of its files.
LEMMA StartStep ==
    ASSUME IInv, NEW p \in Processes, NEW v \in Volumes, NEW claim \in Claims \cup {None}, NEW config \in Configs,
           NEW o \in Operations \cup {None}, Start(p, v, claim, config, o)
    PROVE  IInv'
<1>1. PICK r : r = [stage |-> "locked", volume |-> v, claim |-> claim, config |-> config,
                    operation |-> o, completed |-> FALSE]
    OBVIOUS
<1>2. /\ r \in Live /\ r.stage = "locked" /\ r.volume = v /\ r.claim = claim /\ r.operation = o /\ ~r.completed
    BY <1>1 DEF Live, Stages
<1>3. /\ proc' = [proc EXCEPT ![p] = r] /\ files' = files /\ UNCHANGED <<attested, expired, activated>>
      /\ ~Owned(v) /\ (claim # None => ClaimVolume[claim] = v) /\ (o # None => claim # None)
    BY <1>1 DEF Start, Outside
<1>4. proc'[p] = r /\ \A q \in Processes \ {p} : proc'[q] = proc[q]
    BY <1>3 DEF IInv, TypeOK
<1>5. TypeOK'
    BY <1>2, <1>3 DEF IInv, TypeOK, Live
<1>6. VolumesOK'
  <2> SUFFICES ASSUME NEW u \in Volumes PROVE VolumeOK(u)'
      BY DEF VolumesOK
  <2>1. VolumeOK(u)
      BY DEF IInv, VolumesOK
  <2>2. FilesOK(files[u])'
      BY <1>3, <2>1, FilesNext DEF VolumeOK
  <2>3. OwnContent(u, files[u])'
      BY <1>3, <2>1 DEF VolumeOK, OwnContent
  <2> QED BY <1>3, <2>1, <2>2, <2>3 DEF VolumeOK
<1>7. OneOwner'
    BY <1>2, <1>3, <1>4 DEF IInv, OneOwner, Stage, Owned
<1>8. StagesOK'
  <2> SUFFICES ASSUME NEW q \in Processes, proc'[q].stage # "down"
               PROVE  StageOK(proc'[q], files[proc'[q].volume])
      BY <1>3, StagesNext
  <2>1. CASE q = p
    <3>1. StageOK(r, files[v])
        BY <1>2, <1>3
        DEF StageOK, StartedOK, ConfigOK, ReconciledOK, RecoveringOK, ClaimedOK, OpeningOK, OpenedOK, Completed
    <3> QED BY <2>1, <3>1, <1>2, <1>4
  <2>2. CASE q # p
      BY <1>4, <2>2 DEF IInv, StagesOK, Stage, Here
  <2> QED BY <2>1, <2>2
<1> QED BY <1>5, <1>6, <1>7, <1>8 DEF IInv

\* A copy carries its claim with it, and that is bound to another volume.
LEMMA RestoreStep ==
    ASSUME IInv, NEW v \in Volumes, NEW w \in Volumes, Restore(v, w)
    PROVE  IInv'
<1>1. /\ files' = [files EXCEPT ![w] = files[v]] /\ proc' = proc /\ UNCHANGED <<attested, expired, activated>>
      /\ ~Owned(w) /\ files[w] = EmptyVolume /\ files[v].database # None
    BY DEF Restore, Outside
<1>2. files'[w] = files[v] /\ \A u \in Volumes \ {w} : files'[u] = files[u]
    BY <1>1 DEF IInv, TypeOK
<1>3. TypeOK'
    BY <1>1 DEF IInv, TypeOK
<1>4. files[w].claim = None /\ ClaimVolume \in [Claims -> Volumes]
    BY <1>1, ClaimsAssumption DEF EmptyVolume
<1>5. \A u \in Volumes : files[u].claim # None => files'[u].claim # None
    BY <1>2, <1>4
<1>6. VolumesOK'
  <2> SUFFICES ASSUME NEW u \in Volumes PROVE VolumeOK(u)'
      BY DEF VolumesOK
  <2>1. PICK o \in Volumes : files'[u] = files[o] /\ o = IF u = w THEN v ELSE u
      BY <1>2
  <2>2. VolumeOK(o) /\ (files[o].claim # None => files[o].claim \in Claims)
      BY DEF IInv, VolumesOK, TypeOK, Files
  <2>3. FilesOK(files[u])'
    <3>1. PICK f : f = files[o]
        OBVIOUS
    <3>2. files'[u] = f /\ FilesOK(f)
        BY <2>1, <2>2, <3>1 DEF VolumeOK
    <3> QED BY <1>1, <3>2, FilesNext
  <2>4. files'[u].claim # None => files'[ClaimVolume[files'[u].claim]].claim # None
      BY <1>4, <1>5, <2>1, <2>2 DEF VolumeOK
  <2>5. OwnContent(u, files[u])'
    <3>1. CASE u = w
      <4>1. files[v].claim # None => ClaimVolume[files[v].claim] # w
          BY <1>4, <2>1, <2>2, <3>1 DEF VolumeOK
      <4> QED BY <1>2, <3>1, <4>1 DEF OwnContent
    <3>2. CASE u # w
        BY <1>1, <2>1, <2>2, <3>2 DEF VolumeOK, OwnContent
    <3> QED BY <3>1, <3>2
  <2> QED BY <2>3, <2>4, <2>5 DEF VolumeOK
<1>7. OneOwner'
    BY <1>1 DEF IInv, OneOwner, Stage
<1>8. StagesOK'
  <2> SUFFICES ASSUME NEW q \in Processes, proc[q].stage # "down"
               PROVE  StageOK(proc[q], files'[proc[q].volume])
      BY <1>1, StagesNext
  <2>1. proc[q].volume \in Volumes /\ proc[q].volume # w
      BY <1>1, OwnerFacts DEF Stage, Owned
  <2> QED BY <1>2, <2>1 DEF IInv, StagesOK, Stage, Here
<1> QED BY <1>3, <1>6, <1>7, <1>8 DEF IInv

\* Evidence is attested once, and a marker keeps to what it was made from.
LEMMA EvidenceStep ==
    ASSUME IInv, UNCHANGED <<files, proc, activated>>,
           \A o \in Operations : attested[o] # None => attested'[o] = attested[o],
           attested' \in [Operations -> {None} \cup Attestation], expired' \subseteq Operations
    PROVE  IInv'
<1>1. TypeOK'
    BY DEF IInv, TypeOK
<1>2. OneOwner' /\ StagesOK'
  <2>1. OneOwner'
      BY DEF IInv, OneOwner, Stage
  <2>2. \A q \in Processes : proc'[q].stage # "down" => StageOK(proc'[q], files'[proc'[q].volume])
      BY DEF IInv, StagesOK, Stage, Here
  <2> QED BY <2>1, <2>2, StagesNext
<1>3. VolumesOK'
  <2> SUFFICES ASSUME NEW v \in Volumes PROVE VolumeOK(v)'
      BY DEF VolumesOK
  <2>1. VolumeOK(v) /\ files[v] \in Files
      BY DEF IInv, VolumesOK, TypeOK
  <2>2. files[v].marker # None =>
          /\ files[v].marker.operation \in Operations
          /\ [seal |-> files[v].marker.sourceSeal, target |-> files[v].marker.target] # None
      BY <2>1, ClaimsAssumption DEF Files, Marker, Attestation
  <2>3. files[v].marker # None => attested'[files[v].marker.operation] = attested[files[v].marker.operation]
      BY <2>1, <2>2 DEF VolumeOK, FilesOK, MarkerOK
  <2>4. FilesOK(files[v])'
      BY <2>1, <2>3, FilesNext DEF VolumeOK
  <2>5. OwnContent(v, files[v])'
      BY <2>1 DEF VolumeOK, OwnContent
  <2> QED BY <2>1, <2>4, <2>5 DEF VolumeOK
<1> QED BY <1>1, <1>2, <1>3 DEF IInv

-----------------------------------------------------------------------------
\* The inductive invariant.

\* Empty volumes and no process.
LEMMA InitOK == Init => IInv
<1> SUFFICES ASSUME Init PROVE IInv
    OBVIOUS
<1>1. EmptyVolume \in Files
    BY DEF EmptyVolume, Files, Schemas
<1>2. /\ EmptyVolume.bootstrap = None /\ EmptyVolume.claim = None /\ EmptyVolume.openEpoch = None
      /\ EmptyVolume.marker = None /\ EmptyVolume.seal = None /\ EmptyVolume.database = None
    BY DEF EmptyVolume
<1>3. TypeOK
    BY <1>1 DEF Init, TypeOK
<1>4. VolumesOK
  <2>1. FilesOK(EmptyVolume)
      BY <1>2 DEF FilesOK, SealOK, BootstrapOK, EpochOK, MarkerOK, ReceiptOK, SchemaOK, HasFile
  <2> QED BY <1>2, <2>1 DEF Init, VolumesOK, VolumeOK, OwnContent
<1>5. \A p \in Processes : Stage(p) = "down"
    BY DEF Init, Stage, Down
<1>6. StagesOK /\ OneOwner
    BY <1>5 DEF StagesOK, OneOwner
<1> QED BY <1>3, <1>4, <1>6 DEF IInv

\* Every step of a startup.
LEMMA OpenSteps ==
    ASSUME IInv, NEW p \in Processes, Open(p)
    PROVE  IInv'
BY DropBootstrapStep, DropOpenEpochStep, WriteBootstrapStep, DropMarkerStep, NothingToReconcileStep, WriteMarkerStep,
   ResumeRecoveryStep, NoRecoveryStep, RotateClaimStep, WriteClaimStep, WriteOpenEpochStep, KeepEpochStep,
   InvalidatePriorSealStep, ConnectStep, CreateFileStep, TablesStep, InsertMetaStep,
   CloseForBaselineStep, WriteFirstEpochStep, EndBootstrapStep, ReopenStep,
   RefuseStep
DEF Open

\* Every step of a running process, and its death.
LEMMA RunSteps ==
    ASSUME IInv, NEW p \in Processes, Run(p)
    PROVE  IInv'
BY AdmitStep, CheckpointAndCloseStep, WriteSealStep, RemoveMarkerStep, RemoveOpenEpochStep, CloseStep, CrashStep
DEF Run

\* Every step keeps the invariant.
LEMMA StepOK == IInv /\ [Next]_vars => IInv'
<1> SUFFICES ASSUME IInv, [Next]_vars PROVE IInv'
    OBVIOUS
<1>1. ASSUME NEW p \in Processes, NEW d \in Deployments, NEW o \in Operations \cup {None},
             Start(p, d[1], d[2], d[3], o)
      PROVE  IInv'
  <2>1. d[1] \in Volumes /\ d[2] \in Claims \cup {None} /\ d[3] \in Configs
      BY ClaimsAssumption
  <2> QED BY <1>1, <2>1, StartStep
<1>2. ASSUME NEW p \in Processes, Open(p) \/ Run(p) PROVE IInv'
    BY <1>2, OpenSteps, RunSteps
<1>3. ASSUME NEW v \in Volumes, NEW w \in Volumes, Restore(v, w) PROVE IInv'
    BY <1>3, RestoreStep
<1>4. ASSUME NEW o \in Operations, NEW v \in Volumes, NEW c \in Claims, Attest(o, v, c) PROVE IInv'
  <2>1. PICK e : e = [seal |-> files[v].seal, target |-> c]
      OBVIOUS
  <2>2. /\ attested[o] = None /\ files[v].seal # None /\ attested' = [attested EXCEPT ![o] = e]
        /\ UNCHANGED <<files, proc, expired, activated>>
      BY <1>4, <2>1 DEF Attest
  <2>3. e \in Attestation
      BY <2>1, <2>2 DEF IInv, TypeOK, Files, Attestation
  <2>4. /\ attested' \in [Operations -> {None} \cup Attestation] /\ expired' \subseteq Operations
        /\ \A x \in Operations : attested[x] # None => attested'[x] = attested[x]
      BY <2>2, <2>3 DEF IInv, TypeOK
  <2> QED BY <2>2, <2>4, EvidenceStep
<1>5. ASSUME NEW o \in Operations, Expire(o) PROVE IInv'
  <2>1. UNCHANGED <<files, proc, attested, activated>> /\ expired' \subseteq Operations
      BY <1>5 DEF Expire, IInv, TypeOK
  <2> QED BY <2>1, EvidenceStep DEF IInv, TypeOK
<1>6. CASE UNCHANGED vars
  <2>1. UNCHANGED <<files, proc, attested, expired, activated>>
      BY <1>6 DEF vars
  <2> QED BY <2>1, EvidenceStep DEF IInv, TypeOK
<1> QED BY <1>1, <1>2, <1>3, <1>4, <1>5, <1>6 DEF Next

\* The invariant holds in every reachable state.
LEMMA Invariance == Spec => []IInv
BY InitOK, StepOK, PTL DEF Spec

\* Every file and process has its type.
THEOREM TypeCorrect == Spec => []TypeOK
<1>1. IInv => TypeOK
    BY DEF IInv
<1> QED BY <1>1, Invariance, PTL

\* A seal is never stale: whoever opens the database removes it first.
THEOREM SealsAreCurrent == Spec => []SealCertifies
<1>1. IInv => SealCertifies
  <2> SUFFICES ASSUME IInv, NEW v \in Volumes, files[v].seal # None
               PROVE  /\ ClosedDatabaseIdentity(files[v], files[v].seal)
                      /\ files[v].database.config = files[v].seal.config
                      /\ ~Connected(v)
      BY DEF SealCertifies
  <2>1. SealOK(files[v])
      BY DEF IInv, VolumesOK, VolumeOK, FilesOK
  <2>2. ~Connected(v)
      BY DEF IInv, Connected, Stage, StagesOK, Here, StageOK, OpeningOK, OpenedOK
  <2> QED BY <2>1, <2>2 DEF SealOK, ClosedDatabaseIdentity
<1> QED BY <1>1, Invariance, PTL

\* Whatever change a process died after, the receipts agree with each other
\* and the database still contains the last clean state they tell.
THEOREM CrashStatesAreHonest == Spec => []HonestCrashStates
<1>1. IInv => HonestCrashStates
  <2> SUFFICES ASSUME IInv, NEW v \in Volumes, NEW f, f = files[v]
               PROVE  /\ f.marker # None => f.bootstrap = None /\ f.openEpoch = None
                      /\ f.marker # None /\ f.claim # f.marker.target => f.seal = f.marker.sourceSeal
                      /\ f.bootstrap # None => f.seal = None
                      /\ f.database # None /\ f.claim # None =>
                           f.bootstrap # None \/ f.openEpoch # None \/ f.marker # None \/ f.seal # None
                      /\ f.database # None => IsPrefix(Baseline(f), f.database.content)
      BY DEF HonestCrashStates
  <2>1. FilesOK(f) /\ f \in Files
      BY DEF IInv, VolumesOK, VolumeOK, TypeOK
  <2>2. f.database # None => IsPrefix(<<>>, f.database.content)
    <3>1. f.database # None => f.database.content \in Seq(Volumes)
        BY <2>1 DEF Files, Database, Contents
    <3> QED BY <3>1, PrefixFacts
  <2>3. f.database # None => IsPrefix(Baseline(f), f.database.content)
      BY <2>1, <2>2 DEF FilesOK, EpochOK, MarkerOK, Baseline
  <2> QED BY <2>1, <2>3 DEF FilesOK, SealOK, BootstrapOK, EpochOK, MarkerOK, ReceiptOK, SchemaOK, HasFile
<1> QED BY <1>1, Invariance, PTL

\* A restored copy of a claimed volume is not opened by an ordinary start: its
\* claim names the volume it came from until a recovery replaces it.
THEOREM CopiesAreRecovered == Spec => []CopiesNeedRecovery
<1>1. IInv => CopiesNeedRecovery
  <2> SUFFICES ASSUME IInv, NEW v \in Volumes, Connected(v), files[v].database # None, files[v].claim # None,
                      v \notin activated
               PROVE  \A i \in 1..Len(files[v].database.content) : files[v].database.content[i] = v
      BY DEF CopiesNeedRecovery
  <2>1. PICK p \in Processes : Stage(p) \in {"creating", "bootstrapping", "running"} /\ proc[p].volume = v
      BY DEF Connected
  <2>2. StageOK(proc[p], files[v]) /\ OwnContent(v, files[v])
      BY <2>1, OwnerFacts DEF Here
  <2>3. files[v].claim = proc[p].claim /\ ClaimVolume[files[v].claim] = v
      BY <2>1, <2>2 DEF Stage, StageOK, ClaimedOK, StartedOK
  <2> QED BY <2>2, <2>3 DEF OwnContent
<1> QED BY <1>1, Invariance, PTL

-----------------------------------------------------------------------------
\* An exact retry passes the tests of every stage.

\* The facts an exact retry starts from.
Retrying(p, f, s) ==
    /\ f = Here(p) /\ s = proc[p] /\ f \in Files /\ s \in Live /\ FilesOK(f) /\ StageOK(s, f)
    /\ ExactRetry(p)
    /\ ~(f.marker # None /\ f.sidecars) /\ f.schema # "partial"

\* What they say of the receipts, by the receipt that is there.
RetryKnows(f, s) ==
    /\ f.marker # None => f.marker.target = s.claim /\ f.marker.operation = s.operation
                          /\ s.operation # None /\ s.operation \notin expired
                          /\ attested[s.operation] = [seal |-> f.marker.sourceSeal, target |-> s.claim]
    /\ f.marker = None => s.operation = None
    /\ f.bootstrap # None => f.bootstrap = [claim |-> s.claim, config |-> s.config] /\ f.bootstrap.claim = s.claim
    /\ f.marker = None /\ f.bootstrap = None => f.claim = s.claim
    /\ f.database # None => f.database.config = s.config

\* An exact retry knows them.
LEMMA RetryFacts ==
    ASSUME NEW p \in Processes, NEW f, NEW s, Retrying(p, f, s)
    PROVE  RetryKnows(f, s)
<1>1. /\ IF f.marker # None THEN f.marker.target = s.claim
         ELSE IF f.bootstrap # None
              THEN f.bootstrap = [claim |-> s.claim, config |-> s.config]
              ELSE f.claim = s.claim
      /\ f.database # None => f.database.config = s.config
      /\ IF f.marker = None THEN s.operation = None
         ELSE f.marker.operation = s.operation /\ s.operation \notin expired
    BY DEF Retrying, ExactRetry
<1>2. FilesOK(f) /\ f \in Files
    BY DEF Retrying
<1>3. f.marker # None => f.marker.operation # None
    BY <1>2, ClaimsAssumption DEF Files, Marker
<1>4. f.bootstrap # None => f.marker = None
    BY <1>2 DEF FilesOK, BootstrapOK
<1>5. f.bootstrap = [claim |-> s.claim, config |-> s.config] => f.bootstrap.claim = s.claim
    OBVIOUS
<1> QED BY <1>1, <1>2, <1>3, <1>4, <1>5 DEF FilesOK, MarkerOK, RetryKnows

\* The tests of the receipts.
LEMMA RetryPassesReceipts ==
    ASSUME NEW p \in Processes, NEW f, NEW s, Retrying(p, f, s)
    PROVE  ReceiptsOK(p)
<1>0. RetryKnows(f, s)
    BY RetryFacts
<1>1. /\ f = Here(p) /\ s = proc[p] /\ f \in Files /\ FilesOK(f) /\ ~(f.marker # None /\ f.sidecars)
      /\ f.schema # "partial"
    BY DEF Retrying
<1>2. f.openEpoch # None => f.claim = s.claim /\ f.openEpoch.claim = s.claim /\ f.openEpoch.config = s.config
  <2>1. f.openEpoch # None => f.openEpoch.claim # None
      BY <1>1, ClaimsAssumption DEF Files, OpenEpoch
  <2> QED BY <1>1, <2>1, <1>0 DEF FilesOK, EpochOK, BootstrapOK, RetryKnows
<1>3. EpochSealConfigOK(p)
    BY <1>1, <1>0 DEF EpochSealConfigOK, FilesOK, SealOK, MarkerOK, RetryKnows
<1>4. f.seal # None => ClosedDatabaseIdentity(f, f.seal)
    BY <1>1 DEF ClosedDatabaseIdentity, FilesOK, SealOK
<1>5. Unclaimed(f) => s.claim = None
    BY <1>1, <1>0 DEF Unclaimed, RetryKnows
<1>6. f.marker # None => Authorized(p, f.marker.sourceSeal) /\ f.marker.operation = s.operation
    BY <1>1, <1>0 DEF Authorized, RetryKnows
<1>7. /\ f.marker # None \/ f.seal # None => ~f.sidecars
      /\ f.marker # None => f.bootstrap = None /\ f.openEpoch = None
      /\ f.bootstrap # None => f.seal = None
      /\ f.openEpoch # None /\ f.seal # None => f.seal.claim = s.claim
    BY <1>1, <1>2 DEF FilesOK, SealOK, BootstrapOK, EpochOK, MarkerOK, ReceiptOK, SchemaOK, HasFile
<1>8. f.bootstrap # None => f.bootstrap = [claim |-> s.claim, config |-> s.config]
    BY <1>0 DEF RetryKnows
<1>9. CompletedRecovery(p) => f.marker # None /\ f.seal # None
    BY <1>1 DEF CompletedRecovery
<1>10. PreflightOK(f)
    BY <1>1, <1>7 DEF PreflightOK, HasHeader
<1> QED BY <1>1, <1>2, <1>3, <1>4, <1>5, <1>6, <1>7, <1>8, <1>9, <1>10 DEF ReceiptsOK

\* The tests of prepareRecoveryActivation.
LEMMA RetryPassesRecovery ==
    ASSUME NEW p \in Processes, NEW f, NEW s, Retrying(p, f, s), s.stage = "reconciled"
    PROVE  RecoveryOK(p)
<1>0. RetryKnows(f, s)
    BY RetryFacts
<1>1. /\ f = Here(p) /\ s = proc[p] /\ f \in Files /\ FilesOK(f)
      /\ StageOK(s, f)
    BY DEF Retrying
<1>2. CASE f.marker = None
  <2>1. s.operation = None
      BY <1>2, <1>0 DEF RetryKnows
  <2> QED BY <1>1, <1>2, <2>1 DEF RecoveryOK, Recovering
<1>3. CASE f.marker # None
  <2> DEFINE source == f.marker.sourceSeal
  <2>1. /\ f.marker.target = s.claim /\ f.marker.operation = s.operation /\ s.operation # None
        /\ Authorized(p, source)
      BY <1>1, <1>3, <1>0 DEF Authorized, RetryKnows
  <2>2. ~s.completed /\ ~Completed(s, f)
      BY <1>1, <1>3 DEF StageOK, ReconciledOK
  <2>3. f.seal # None => f.seal = source
      BY <1>1, <1>3, <2>1, <2>2 DEF FilesOK, MarkerOK, Completed
  <2>4. source \in Seal /\ source # None
      BY <1>1, <1>3, ClaimsAssumption DEF Files, Marker
  <2>5. SourceSeal(f) = source
      BY <1>3, <2>3 DEF SourceSeal
  <2>6. /\ source.claim # None /\ ClaimVolume[source.claim] # ClaimVolume[s.claim]
        /\ IF f.seal # None THEN f.claim \in {source.claim, f.marker.target} ELSE f.claim = f.marker.target
      BY <1>1, <1>3, <2>1, <2>4 DEF FilesOK, MarkerOK
  <2>7. f.seal # None => ClosedDatabaseIdentity(f, f.seal)
      BY <1>1 DEF ClosedDatabaseIdentity, FilesOK, SealOK
  <2>8. f.marker = [operation |-> s.operation, target |-> s.claim, sourceSeal |-> source]
    <3>1. f.marker \in Marker
        BY <1>1, <1>3 DEF Files
    <3> QED BY <2>1, <3>1 DEF Marker
  <2> HIDE DEF source
  <2> QED BY <1>1, <1>3, <2>1, <2>3, <2>4, <2>5, <2>6, <2>7, <2>8 DEF RecoveryOK, source
<1> QED BY <1>2, <1>3

\* The test of the claim.
LEMMA RetryPassesClaim ==
    ASSUME NEW p \in Processes, NEW f, NEW s, Retrying(p, f, s), s.stage = "claiming"
    PROVE  ClaimOK(p)
<1>0. RetryKnows(f, s)
    BY RetryFacts
<1>1. f = Here(p) /\ s = proc[p] /\ f \in Files /\ FilesOK(f) /\ StageOK(s, f)
    BY DEF Retrying
<1>2. f.marker # None => f.claim = s.claim
    BY <1>1, <1>0 DEF StageOK, RecoveringOK, RetryKnows
<1>3. CASE f.claim # None
  <2>1. s.claim = f.claim
      BY <1>1, <1>2, <1>3, <1>0 DEF FilesOK, BootstrapOK, RetryKnows
  <2> QED BY <1>1, <1>3, <2>1 DEF ClaimOK
<1>4. CASE f.claim = None /\ s.claim # None
  <2>1. f.bootstrap # None /\ f.bootstrap.claim = s.claim
      BY <1>2, <1>4, <1>0 DEF RetryKnows
  <2> QED BY <1>1, <1>4, <2>1 DEF ClaimOK, FilesOK, BootstrapOK
<1> QED BY <1>1, <1>3, <1>4 DEF ClaimOK

\* The tests before the new epoch.
LEMMA RetryPassesOpen ==
    ASSUME NEW p \in Processes, NEW f, NEW s, Retrying(p, f, s), s.stage = "opening"
    PROVE  OpenOK(p)
<1>0. RetryKnows(f, s)
    BY RetryFacts
<1>1. f = Here(p) /\ s = proc[p] /\ f \in Files /\ FilesOK(f) /\ StageOK(s, f)
    BY DEF Retrying
<1>2. EpochSealConfigOK(p)
    BY <1>1, <1>0 DEF EpochSealConfigOK, FilesOK, SealOK, MarkerOK, RetryKnows
<1>3. /\ ~(f.openEpoch # None /\ (f.bootstrap # None \/ f.seal # None)) /\ f.claim = s.claim
      /\ f.marker # None => f.claim = f.marker.target /\ (f.seal # None => f.seal = f.marker.sourceSeal)
    BY <1>1 DEF StageOK, ReconciledOK, RecoveringOK, ClaimedOK
<1> QED BY <1>1, <1>2, <1>3 DEF OpenOK, FilesOK, SealOK, BootstrapOK, EpochOK, MarkerOK, ReceiptOK, SchemaOK, HasFile

\* The tests before the prior seal goes.
LEMMA RetryPassesInvalidate ==
    ASSUME NEW p \in Processes, NEW f, NEW s, Retrying(p, f, s), s.stage = "invalidating"
    PROVE  InvalidateOK(p)
<1>0. RetryKnows(f, s)
    BY RetryFacts
<1>1. f = Here(p) /\ s = proc[p] /\ f \in Files /\ FilesOK(f) /\ StageOK(s, f)
    BY DEF Retrying
<1>2. f.claim = s.claim /\ (f.seal # None /\ f.marker = None /\ s.claim # None => f.openEpoch # None)
    BY <1>1 DEF StageOK, ClaimedOK, OpeningOK
<1>3. f.bootstrap # None => f.claim = f.bootstrap.claim
    BY <1>2, <1>0 DEF RetryKnows
<1>4. f.marker # None \/ f.openEpoch # None => HasHeader(f)
    BY <1>1 DEF FilesOK, EpochOK, MarkerOK, SchemaOK, HasHeader
<1> QED BY <1>1, <1>2, <1>3, <1>4 DEF InvalidateOK, FilesOK, SealOK, BootstrapOK, EpochOK, MarkerOK, ReceiptOK

\* The tests of the database.
LEMMA RetryPassesConnect ==
    ASSUME NEW p \in Processes, NEW f, NEW s, Retrying(p, f, s)
    PROVE  ConnectOK(p)
<1>0. RetryKnows(f, s)
    BY RetryFacts
<1>1. f = Here(p) /\ s = proc[p] /\ f \in Files /\ FilesOK(f)
    BY DEF Retrying
<1>2. f.database # None => IsPrefix(<<>>, f.database.content)
  <2>1. f.database # None => f.database.content \in Seq(Volumes)
      BY <1>1 DEF Files, Database, Contents
  <2>2. s.volume \in Volumes
      BY DEF Retrying, Live
  <2> QED BY <2>1, <2>2, PrefixFacts
<1>3. f.database # None => IsPrefix(Baseline(f), f.database.content)
    BY <1>1, <1>2 DEF FilesOK, EpochOK, MarkerOK, Baseline
<1>4. f.database = None => f.marker = None /\ f.openEpoch = None
    BY <1>1 DEF FilesOK, EpochOK, MarkerOK
<1> QED BY <1>1, <1>3, <1>4, <1>0 DEF ConnectOK, RetryKnows

\* Wherever a process died, the same start succeeds, but for a recovered database
\* that was open when it died and for a new one that had its header and not yet
\* all its tables.
THEOREM RetriesSucceed == Spec => []RetrySucceeds
<1>1. IInv => RetrySucceeds
  <2> SUFFICES ASSUME IInv, NEW p \in Processes, Stage(p) # "down", ExactRetry(p),
                      ~(Here(p).marker # None /\ Here(p).sidecars), Here(p).schema # "partial"
               PROVE  ~Refused(p)
      BY DEF RetrySucceeds
  <2>1. PICK f, s : f = Here(p) /\ s = proc[p]
      OBVIOUS
  <2>2. Retrying(p, f, s) /\ s.stage = Stage(p)
      BY <2>1, OwnerFacts DEF Retrying, Stage
  <2> QED
      BY <2>2, RetryPassesReceipts, RetryPassesRecovery, RetryPassesClaim, RetryPassesOpen, RetryPassesInvalidate,
         RetryPassesConnect
      DEF Refused
<1> QED BY <1>1, Invariance, PTL

-----------------------------------------------------------------------------
\* A process with another configuration.

\* A step of a process changes the files of its own volume only.
LEMMA OwnVolumeOnly ==
    ASSUME IInv, NEW q \in Processes, Open(q) \/ Run(q), NEW v \in Volumes, v # proc[q].volume
    PROVE  files'[v] = files[v]
<1>1. files \in [Volumes -> Files]
    BY DEF IInv, TypeOK
<1>2. files' = files \/ \E g : files' = [files EXCEPT ![proc[q].volume] = g]
  <2>1. CASE Open(q)
      BY <2>1
      DEF Open, DropBootstrap, DropOpenEpoch, WriteBootstrap, DropMarker, NothingToReconcile, WriteMarker,
          ResumeRecovery, NoRecovery, RotateClaim, WriteClaim, WriteOpenEpoch, KeepEpoch, InvalidatePriorSeal,
          Connect, CreateFile, WriteHeader, CreateTables, InsertMeta, CloseForBaseline, WriteFirstEpoch,
          EndBootstrap, Reopen, Refuse, Change, Continue, SetFiles
  <2>2. CASE Run(q)
      BY <2>2
      DEF Run, Admit, CheckpointAndClose, WriteSeal, RemoveMarker, RemoveOpenEpoch, Close, Crash, Change, SetFiles
  <2> QED BY <2>1, <2>2
<1> QED BY <1>1, <1>2

\* The process p, started as s, has another configuration than the database of its files f.
Mismatched(p, f, s) ==
    /\ f = Here(p) /\ s = proc[p] /\ f \in Files /\ s \in Live /\ FilesOK(f) /\ StageOK(s, f)
    /\ f.database # None /\ f.database.config # s.config

\* It never gets past the tests that come before a change.
LEMMA MismatchIsFound ==
    ASSUME NEW p \in Processes, NEW f, NEW s, Mismatched(p, f, s)
    PROVE  /\ s.stage \notin {"marked", "creating", "bootstrapping", "baselined", "transition", "reopening", "running", "closed",
                              "sealed", "unmarked"}
           /\ s.stage # "locked" => f.seal = None /\ f.openEpoch = None /\ f.marker = None
           /\ ReceiptsOK(p) =>
                f.seal = None /\ f.openEpoch = None /\ ~(Unclaimed(f) /\ s.claim # None)
           /\ ~ConnectOK(p)
<1>1. /\ f = Here(p) /\ s = proc[p] /\ FilesOK(f) /\ StageOK(s, f)
      /\ f.database # None /\ f.database.config # s.config
    BY DEF Mismatched
<1>2. s.stage # "locked" => f.seal = None /\ f.openEpoch = None /\ f.marker = None
    BY <1>1 DEF StageOK, ConfigOK
<1>3. s.stage # "marked"
    BY <1>1, <1>2 DEF StageOK, RecoveringOK
<1>4. s.stage \notin {"creating", "bootstrapping", "baselined", "transition", "reopening", "running", "closed",
                      "sealed", "unmarked"}
    BY <1>1 DEF StageOK, OpeningOK, OpenedOK
<1>5. ReceiptsOK(p) => f.seal = None /\ f.openEpoch = None /\ ~(Unclaimed(f) /\ s.claim # None)
    BY <1>1 DEF ReceiptsOK, EpochSealConfigOK, FilesOK, SealOK, EpochOK, SchemaOK, HasFile
<1>6. ~ConnectOK(p)
    BY <1>1 DEF ConnectOK
<1> QED BY <1>2, <1>3, <1>4, <1>5, <1>6

\* Its own steps leave the volume as it was, but for the sidecars.
LEMMA MismatchKeeps ==
    ASSUME IInv, NEW p \in Processes, Stage(p) # "down", Here(p).database # None,
           Here(p).database.config # proc[p].config, Open(p) \/ Run(p)
    PROVE  WithoutSidecars(files'[proc[p].volume]) = WithoutSidecars(files[proc[p].volume])
<1>1. PICK f, s, v : f = Here(p) /\ s = proc[p] /\ v = proc[p].volume
    OBVIOUS
<1>2. Mismatched(p, f, s) /\ v \in Volumes /\ files \in [Volumes -> Files] /\ f = files[v] /\ s.stage = Stage(p)
    BY <1>1, OwnerFacts DEF Mismatched, Here, Stage, IInv, TypeOK
<1>3. f \in Files
    BY <1>2
<1>4. /\ s.stage \notin {"marked", "creating", "bootstrapping", "baselined", "transition", "reopening", "running", "closed",
                         "sealed", "unmarked"}
      /\ s.stage # "locked" => f.seal = None /\ f.openEpoch = None /\ f.marker = None
      /\ ReceiptsOK(p) => f.seal = None /\ f.openEpoch = None /\ ~(Unclaimed(f) /\ s.claim # None)
      /\ ~ConnectOK(p)
    BY <1>2, MismatchIsFound
<1>5. ~Run(p) \/ Crash(p)
    BY <1>2, <1>4 DEF Run, Admit, CheckpointAndClose, WriteSeal, RemoveMarker, RemoveOpenEpoch, Close
<1>6. ~(\/ RotateClaim(p) \/ CloseForBaseline(p) \/ WriteFirstEpoch(p) \/ EndBootstrap(p) \/ Reopen(p)
        \/ Connect(p) \/ CreateFile(p) \/ WriteHeader(p) \/ CreateTables(p) \/ InsertMeta(p))
    BY <1>2, <1>4 DEF RotateClaim, CloseForBaseline, WriteFirstEpoch, EndBootstrap, Reopen, Connect, CreateFile,
                      WriteHeader, CreateTables, InsertMeta
<1>7. ~(DropBootstrap(p) \/ DropOpenEpoch(p) \/ WriteBootstrap(p) \/ DropMarker(p))
    BY <1>1, <1>2, <1>4 DEF DropBootstrap, DropOpenEpoch, WriteBootstrap, DropMarker, CompletedRecovery
<1>8. ~(WriteMarker(p) \/ WriteOpenEpoch(p))
    BY <1>1, <1>2, <1>4 DEF WriteMarker, WriteOpenEpoch, RecoveryOK, SourceSeal
<1>9. CASE NothingToReconcile(p) \/ ResumeRecovery(p) \/ NoRecovery(p) \/ KeepEpoch(p) \/ Crash(p)
    BY <1>9 DEF NothingToReconcile, ResumeRecovery, NoRecovery, KeepEpoch, Crash, Continue
<1>10. CASE WriteClaim(p)
  <2>1. f.claim = None => s.claim = None
      BY <1>1, <1>2, <1>10 DEF WriteClaim, ClaimOK, Mismatched, FilesOK, SchemaOK, HasFile
  <2>2. files'[v] = [f EXCEPT !.claim = IF @ = None THEN s.claim ELSE @]
      BY <1>1, <1>2, <1>10 DEF WriteClaim, Change, SetFiles
  <2>3. files'[v] = f
      BY <1>3, <2>1, <2>2 DEF Files
  <2> QED BY <1>1, <1>2, <2>3
<1>11. CASE InvalidatePriorSeal(p)
  <2>1. f.seal = None
      BY <1>2, <1>4, <1>11 DEF InvalidatePriorSeal
  <2>2. files'[v] = [f EXCEPT !.seal = None]
      BY <1>1, <1>2, <1>11 DEF InvalidatePriorSeal, Change, SetFiles
  <2>3. files'[v] = f
      BY <1>3, <2>1, <2>2 DEF Files
  <2> QED BY <1>1, <1>2, <2>3
<1>12. CASE Refuse(p)
  <2>1. files'[v] = [f EXCEPT !.sidecars = FALSE] \/ files'[v] = f
      BY <1>1, <1>2, <1>12 DEF Refuse, SetFiles
  <2>2. WithoutSidecars([f EXCEPT !.sidecars = FALSE]) = WithoutSidecars(f)
      BY <1>3 DEF WithoutSidecars, Files
  <2> QED BY <1>1, <1>2, <2>1, <2>2
<1> QED BY <1>5, <1>6, <1>7, <1>8, <1>9, <1>10, <1>11, <1>12 DEF Open

\* A start with a configuration other than the database's changes no receipt
\* and no content of the volume, whichever test finds it.
THEOREM WrongConfigHolds == Spec => WrongConfigTouchesNothing
<1> DEFINE Kept == \A p \in Processes :
              (Stage(p) # "down" /\ Here(p).database # None /\ Here(p).database.config # proc[p].config)
                => WithoutSidecars(files'[proc[p].volume]) = WithoutSidecars(files[proc[p].volume])
<1>1. IInv /\ [Next]_vars => [Kept]_vars
  <2> SUFFICES ASSUME IInv, Next, NEW p \in Processes, Stage(p) # "down", Here(p).database # None,
                      Here(p).database.config # proc[p].config
               PROVE  WithoutSidecars(files'[proc[p].volume]) = WithoutSidecars(files[proc[p].volume])
      OBVIOUS
  <2>1. CASE Open(p) \/ Run(p)
      BY <2>1, MismatchKeeps
  <2>2. ASSUME NEW q \in Processes, q # p, Open(q) \/ Run(q)
        PROVE  files'[proc[p].volume] = files[proc[p].volume]
    <3>1. Stage(q) # "down"
        BY <2>2
        DEF Open, DropBootstrap, DropOpenEpoch, WriteBootstrap, DropMarker, NothingToReconcile, WriteMarker,
            ResumeRecovery, NoRecovery, RotateClaim, WriteClaim, WriteOpenEpoch, KeepEpoch, InvalidatePriorSeal,
            Connect, CreateFile, WriteHeader, CreateTables, InsertMeta, CloseForBaseline, WriteFirstEpoch,
            EndBootstrap, Reopen, Refuse, Refused,
            Run, Admit, CheckpointAndClose, WriteSeal, RemoveMarker, RemoveOpenEpoch, Close, Crash
    <3>2. proc[p].volume # proc[q].volume /\ proc[p].volume \in Volumes
        BY <2>2, <3>1, OwnerFacts DEF IInv, OneOwner
    <3> QED BY <2>2, <3>2, OwnVolumeOnly
  <2>3. ASSUME NEW v \in Volumes, NEW w \in Volumes, Restore(v, w)
        PROVE  files'[proc[p].volume] = files[proc[p].volume]
    <3>1. w # proc[p].volume
        BY <2>3 DEF Restore, Owned
    <3>2. files \in [Volumes -> Files] /\ files' = [files EXCEPT ![w] = files[v]] /\ proc[p].volume \in Volumes
        BY <2>3, OwnerFacts DEF Restore, IInv, TypeOK
    <3> QED BY <3>1, <3>2
  <2>4. CASE \E q \in Processes, d \in Deployments, o \in Operations \cup {None} : Start(q, d[1], d[2], d[3], o)
      BY <2>4 DEF Start
  <2>5. CASE \/ \E o \in Operations, v \in Volumes, c \in Claims : Attest(o, v, c)
             \/ \E o \in Operations : Expire(o)
      BY <2>5 DEF Attest, Expire
  <2> QED BY <2>1, <2>2, <2>3, <2>4, <2>5 DEF Next
<1>2. Spec => [][Kept]_vars
    BY <1>1, Invariance, PTL DEF Spec
<1> QED BY <1>2 DEF WrongConfigTouchesNothing
=============================================================================
