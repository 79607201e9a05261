------------------------ MODULE CityControlPlaneProofs ------------------------
(***************************************************************************)
(* Theorems about CityControlPlane, for every registry and set of          *)
(* departments, every set of events, relay references, suggestions,        *)
(* answers, results and questions, any number of calls under way, and      *)
(* workloads of every size.                                                *)
(***************************************************************************)
EXTENDS CityControlPlane, FiniteSetTheorems, SequenceTheorems, TLAPS

\* A package holds no response, or an answer with its standing.
Response == [answer : Answers, status : {"pending_review", "reviewed"}]
PackagesOK ==
    \A p \in DOMAIN departmentWorkPackages :
       departmentWorkPackages[p] = NoResponse \/ departmentWorkPackages[p] \in Response

\* The responses in the ledger are those with an author in the kernel.
AuthorsOK == DOMAIN responseInputs = DOMAIN responseAuthors

ReviewedPackages ==
    {p \in DOMAIN departmentWorkPackages : departmentWorkPackages[p].status = "reviewed"}

\* What BriefRestsOnReviewed says, with the number of reviewed packages as a
\* fact of the packages instead of one of the council's brief.
BriefOK ==
    reviewedCitizenBrief # None =>
       /\ reviewedCitizenBrief.citations = CurrentCitations
       /\ \A p \in DOMAIN departmentWorkPackages : departmentWorkPackages[p].status # "pending_review"
       /\ Cardinality(ReviewedPackages) = Cardinality(Departments)

\* The offices: what the requests that run at once touch.
OfficesInv ==
    /\ DOMAIN suggestions \subseteq Suggestions
    /\ DOMAIN departmentWorkPackages \subseteq Suggestions \X Departments
    /\ DOMAIN responseAuthors \subseteq DOMAIN departmentWorkPackages
    /\ participationResult \in Results \cup {None}
    /\ shadowed \subseteq DOMAIN departmentWorkPackages
    /\ PackagesOK
    /\ AuthorsOK
    /\ LedgersAgree
    /\ BriefOK

\* An event that the relay may hold under an id, and one that the transport
\* let through.
Held(event, id) == event \in Events /\ event.id = id /\ event.verified
RelayOK == \A id \in DOMAIN relay : Held(relay[id], id)
PublishedOK == \A id \in DOMAIN published : Held(published[id], id) /\ ValidateSignedEvent(published[id])

\* A call is idle or carries an event that the transport let through.
Call == [stage : {"publishing", "acking", "querying"}, citizen : WithRole("citizen"),
         event : Events, refs : RelayRefs]
CallOK(call) == call = NoCall \/ (call \in Call /\ ValidateSignedEvent(call.event))
CallsOK == DOMAIN ingests = Calls /\ \A c \in Calls : CallOK(ingests[c])

\* The adapter holds artifacts of verified events, and the kernel the
\* discussions made of exactly those.
ArtifactUnder(artifact, id) ==
    \E event \in Events, refs \in RelayRefs :
       Held(event, id) /\ artifact = Artifact(event, refs) /\ artifact # Refused
SeenOK ==
    /\ \A id \in DOMAIN seen : ArtifactUnder(seen[id], id)
    /\ DOMAIN discussions = DOMAIN seen
    /\ \A id \in DOMAIN seen : discussions[id] = Discussion(seen[id])

ReceiptsOK == \A artifact \in receipts : artifact.id \in DOMAIN seen /\ seen[artifact.id] = artifact

\* A late refusal has its cause, and the artifact that a conflict was with is
\* still there.
Caused(refusal, artifacts) ==
    /\ refusal.why # "kernel"
    /\ refusal.why = "artifact" =>
          \/ refusal.event.createdAt \notin Timestamps
          \/ refusal.event.content = Blank
          \/ \E i \in 1..Len(refusal.event.tags) : refusal.event.tags[i] = <<>>
          \/ ~((refusal.refs \cup RelayRefsFromTags(refusal.event.tags)) \subseteq WebSocketUrls)
    /\ refusal.why \in {"event_conflict", "duplicate_conflict"} =>
          \/ \E event \in Events : event.id = refusal.event.id /\ event.sig # refusal.event.sig
          \/ /\ refusal.why = "duplicate_conflict"
             /\ refusal.event.id \in DOMAIN artifacts
             /\ artifacts[refusal.event.id].event.relayRefs
                   # refusal.refs \cup RelayRefsFromTags(refusal.event.tags)
RefusalsOK == \A refusal \in refusals : Caused(refusal, seen)

IngestInv == budget \in Budget /\ RelayOK /\ PublishedOK /\ CallsOK /\ SeenOK /\ ReceiptsOK /\ RefusalsOK

\* A call of askCompanion that was sent carries the asker's own question and
\* view, and one that was answered the answer to it.
AskOK(q, ask) ==
    /\ ask.stage \in {"idle", "waiting", "answered", "failed"}
    /\ ask.stage \in {"waiting", "answered"} =>
          /\ ask.request.question = q
          /\ ask.request.profile = Questions[q].profile
          /\ RoleScoped(Questions[q].profile, ask.request.context.fields)
          /\ Registry[Questions[q].actor].role \in ProfileRoles[Questions[q].profile]
    /\ ask.stage = "answered" =>
          /\ ask.result.taskId = ask.request.taskId
          /\ ask.result.profile = ask.request.profile
          /\ ask.result.context = ask.request.context
AsksInv == DOMAIN asks = DOMAIN Questions /\ \A q \in DOMAIN Questions : AskOK(q, asks[q])

IInv == OfficesInv /\ IngestInv /\ AsksInv

-----------------------------------------------------------------------------
(* The events: what the transport lets through and what the adapter takes.  *)

\* A tag that is the only one with its name gives the one value of the name.
LEMMA OnlyTagValue ==
    ASSUME NEW tags, NEW names, NEW name, NEW value,
           OnlyTag(tags, names, <<name, value>>)
    PROVE  Values(tags, names, 2) = {value}
<1>1. PICK i \in 1..Len(tags) : Named(tags, names) = {i} /\ tags[i] = <<name, value>>
  BY DEF OnlyTag
<1>2. Len(tags[i]) >= 2 /\ tags[i][2] = value
  BY <1>1
<1>3. {j \in Named(tags, names) : Len(tags[j]) >= 2} = {i}
  BY <1>1, <1>2
<1> QED BY <1>2, <1>3 DEF Values

\* The marker and the scope that the transport asks for are the ones that
\* the adapter reads.
LEMMA FixtureScope ==
    ASSUME NEW tags, ValidateFixtureTags(tags)
    PROVE  /\ Marker[2] \in Values(tags, {Marker[1]}, 2)
           /\ ExtractScopeFromTags(tags) = <<Municipality, Case>>
<1>1. Marker[2] \in Values(tags, {Marker[1]}, 2)
  BY OnlyTagValue DEF ValidateFixtureTags, Marker
<1>2. /\ Named(tags, MunicipalityNames) = Named(tags, {"municipality"})
      /\ Named(tags, CaseNames) = Named(tags, {"case"})
      /\ Named(tags, {"scope"}) = {}
  BY DEF ValidateFixtureTags, ForbiddenScopeTagNames, MunicipalityNames, CaseNames, Named
<1>3. Values(tags, MunicipalityNames, 2) = {Municipality}
  <2>1. Values(tags, {"municipality"}, 2) = {Municipality}
    BY OnlyTagValue DEF ValidateFixtureTags
  <2> QED BY <1>2, <2>1 DEF Values
<1>4. Values(tags, CaseNames, 2) = {Case}
  <2>1. Values(tags, {"case"}, 2) = {Case}
    BY OnlyTagValue DEF ValidateFixtureTags
  <2> QED BY <1>2, <2>1 DEF Values
<1> DEFINE pairs == {<<tags[i][2], tags[i][3]>> : i \in {j \in Named(tags, {"scope"}) : Len(tags[j]) >= 3}}
           municipalities == Values(tags, MunicipalityNames, 2)
           cases == Values(tags, CaseNames, 2)
           stated == IF pairs # {} THEN pairs ELSE municipalities \X cases
<1>5. pairs = {}
  BY <1>2
<1>6. stated = {<<Municipality, Case>>}
  BY <1>3, <1>4, <1>5
<1>7. Cardinality(stated) = 1
  BY <1>6, FS_Singleton
<1>8. (CHOOSE pair \in stated : TRUE) = <<Municipality, Case>>
  BY <1>6
<1>9. Blank \notin municipalities \cup cases \cup UNION {{p[1], p[2]} : p \in pairs}
  BY <1>3, <1>4, <1>5, ScopeAssumption
<1>10. \A pair \in stated : municipalities \subseteq {pair[1]} /\ cases \subseteq {pair[2]}
  BY <1>3, <1>4, <1>6
<1>11. municipalities # {}
  BY <1>3
<1>12. ExtractScopeFromTags(tags) =
         CASE Blank \in municipalities \cup cases \cup UNION {{p[1], p[2]} : p \in pairs} -> Refused
           [] pairs = {} /\ municipalities = {} /\ cases = {} -> NoScope
           [] Cardinality(stated) = 1
              /\ \A pair \in stated : municipalities \subseteq {pair[1]} /\ cases \subseteq {pair[2]}
                 -> CHOOSE pair \in stated : TRUE
           [] OTHER -> Refused
  BY DEF ExtractScopeFromTags
<1>13. ExtractScopeFromTags(tags) = <<Municipality, Case>>
  <2> HIDE DEF pairs, municipalities, cases, stated
  <2> QED BY <1>7, <1>8, <1>9, <1>10, <1>11, <1>12
<1> QED BY <1>1, <1>13

\* Two verified events of one id with one signature are one event.
LEMMA SameEvent ==
    ASSUME NEW id, NEW e, NEW f, Held(e, id), Held(f, id)
    PROVE  /\ e.signer = f.signer /\ e.kind = f.kind /\ e.createdAt = f.createdAt
           /\ e.tags = f.tags /\ e.content = f.content
           /\ e.verified = f.verified
           /\ e.sig = f.sig => e = f
<1>1. /\ e.signer = f.signer /\ e.kind = f.kind /\ e.createdAt = f.createdAt
      /\ e.tags = f.tags /\ e.content = f.content /\ e.id = f.id
  BY EventAssumption DEF Held
<1>2. /\ e = [id |-> e.id, sig |-> e.sig, signer |-> e.signer, kind |-> e.kind, createdAt |-> e.createdAt,
              tags |-> e.tags, content |-> e.content, verified |-> e.verified]
      /\ f = [id |-> f.id, sig |-> f.sig, signer |-> f.signer, kind |-> f.kind, createdAt |-> f.createdAt,
              tags |-> f.tags, content |-> f.content, verified |-> f.verified]
  BY EventAssumption DEF Held
<1> QED BY <1>1, <1>2 DEF Held

\* What the transport let through the adapter takes, unless its time is
\* none, the content is blank, a tag is empty or a reference is no relay's.
LEMMA ArtifactRefused ==
    ASSUME NEW event \in Events, NEW refs \in RelayRefs, ValidateSignedEvent(event),
           Artifact(event, refs) = Refused
    PROVE  \/ event.createdAt \notin Timestamps
           \/ event.content = Blank
           \/ \E i \in 1..Len(event.tags) : event.tags[i] = <<>>
           \/ ~((refs \cup RelayRefsFromTags(event.tags)) \subseteq WebSocketUrls)
<1>1. ArtifactOf(event, refs \cup RelayRefsFromTags(event.tags)) # Refused
  BY OutcomeAssumption
<1>2. /\ event.verified /\ event.kind = 1
      /\ Marker[2] \in Values(event.tags, {Marker[1]}, 2)
      /\ ExtractScopeFromTags(event.tags) = <<Municipality, Case>>
  BY FixtureScope DEF ValidateSignedEvent
<1> QED BY <1>1, <1>2 DEF Artifact

\* An artifact is of its event.
LEMMA ArtifactFacts ==
    ASSUME NEW id, NEW event, Held(event, id), NEW refs \in RelayRefs, Artifact(event, refs) # Refused
    PROVE  /\ Artifact(event, refs) = ArtifactOf(event, refs \cup RelayRefsFromTags(event.tags))
           /\ Artifact(event, refs).id = id
           /\ Artifact(event, refs).event.relayRefs = refs \cup RelayRefsFromTags(event.tags)
<1> DEFINE a == ArtifactOf(event, refs \cup RelayRefsFromTags(event.tags))
<1>1. Artifact(event, refs) = a
  BY DEF Artifact
<1>2. a.id = id /\ a.event.relayRefs = refs \cup RelayRefsFromTags(event.tags)
  BY DEF ArtifactOf, Held
<1> QED BY <1>1, <1>2

\* What the adapter may hold the kernel can take: it has its signature and
\* its provenance is complete.
LEMMA HeldArtifact ==
    ASSUME NEW artifact, NEW id, ArtifactUnder(artifact, id)
    PROVE  /\ artifact.id = id
           /\ Discussion(artifact).id = id
           /\ Discussion(artifact).signature # Blank
           /\ Discussion(artifact).provenance = Provenance(artifact)
           /\ Discussion(artifact).provenance # Refused
<1>1. PICK event \in Events, refs \in RelayRefs :
        Held(event, id) /\ artifact = Artifact(event, refs) /\ artifact # Refused
  BY DEF ArtifactUnder
<1>2. artifact = ArtifactOf(event, refs \cup RelayRefsFromTags(event.tags)) /\ artifact.id = id
  BY <1>1, ArtifactFacts
<1>3. Provenance(artifact) = ProvenanceOf(artifact)
  BY <1>2 DEF ArtifactOf, Provenance
<1>4. ProvenanceOf(artifact) # Refused
  BY <1>2, OutcomeAssumption
<1>5. artifact.proof.signature # Blank
  <2>1. event.sig # Blank
    BY <1>1, EventAssumption DEF Held
  <2>2. artifact.proof.signature = event.sig
    BY <1>2 DEF ArtifactOf
  <2> QED BY <2>1, <2>2
<1>6. /\ Discussion(artifact).id = artifact.id
      /\ Discussion(artifact).signature = artifact.proof.signature
      /\ Discussion(artifact).provenance = Provenance(artifact)
  BY DEF Discussion
<1> QED BY <1>2, <1>3, <1>4, <1>5, <1>6

-----------------------------------------------------------------------------
(* The companions.                                                          *)

\* A request that could be built is the task's.
LEMMA RequestFacts ==
    ASSUME NEW profile, NEW question, NEW context, NEW session, NEW limits, NEW request,
           request = WorkerTask(PrepareTask(profile, question, context), session, limits),
           request # Unusable
    PROVE  /\ request.question = question
           /\ request.profile = profile
           /\ request.context = context
           /\ RoleScoped(profile, context.fields)
<1> DEFINE task == PrepareTask(profile, question, context)
<1>1. task.profile = profile /\ task.question = question /\ task.context = context
  BY DEF PrepareTask
<1> HIDE DEF task
<1>2. RoleScoped(task.profile, task.context.fields)
  BY DEF WorkerTask, task
<1>3. request.question = task.question /\ request.profile = task.profile /\ request.context = task.context
  BY DEF WorkerTask, task
<1> QED BY <1>1, <1>2, <1>3

LEMMA AskCompanionStep ==
    ASSUME AsksInv, NEW q \in DOMAIN Questions, AskCompanion(q)
    PROVE  AsksInv'
<1> DEFINE question == Questions[q]
           context == Context(question.profile)
<1>1. PICK request : request = WorkerTask(PrepareTask(question.profile, q, context), question.session, question.limits)
  OBVIOUS
<1>2. /\ Registry[question.actor].role \in ProfileRoles[question.profile]
      /\ asks' = [asks EXCEPT ![q] = IF request = Unusable THEN [stage |-> "failed"]
                                     ELSE [stage |-> "waiting", request |-> request]]
  BY <1>1 DEF AskCompanion
<1>3. AskOK(q, asks'[q])
  <2>1. CASE request = Unusable
    BY <1>2, <2>1 DEF AskOK, AsksInv
  <2>2. CASE request # Unusable
    <3>1. /\ request.question = q /\ request.profile = question.profile
          /\ RoleScoped(question.profile, request.context.fields)
      <4> HIDE DEF context, question
      <4> QED BY <1>1, <2>2, RequestFacts
    <3>2. asks'[q] = [stage |-> "waiting", request |-> request]
      BY <1>2, <2>2 DEF AsksInv
    <3> QED BY <1>2, <3>1, <3>2 DEF AskOK
  <2> QED BY <2>1, <2>2
<1>4. DOMAIN asks' = DOMAIN Questions /\ \A r \in DOMAIN Questions : r # q => asks'[r] = asks[r]
  BY <1>2 DEF AsksInv
<1> QED BY <1>3, <1>4 DEF AsksInv

\* A result that passes the validation is the request's, whatever question
\* the worker took it from.
LEMMA WorkerRepliesStep ==
    ASSUME AsksInv, NEW q \in DOMAIN Questions, NEW other \in DOMAIN Questions, NEW answer,
           WorkerReplies(q, other, answer)
    PROVE  AsksInv'
<1> DEFINE raw == WorkerResult(asks[other].request, answer)
<1>1. PICK request, result : request = asks[q].request /\ result = raw
  OBVIOUS
<1>2. /\ asks[q].stage = "waiting"
      /\ asks' = [asks EXCEPT ![q] = IF ValidateResult(request, result)
                                     THEN [stage |-> "answered", request |-> request, result |-> result]
                                     ELSE [stage |-> "failed"]]
  BY <1>1 DEF WorkerReplies
<1> HIDE DEF raw
<1>3. AskOK(q, asks'[q])
  <2>1. CASE ~ValidateResult(request, result)
    <3>1. asks'[q] = [stage |-> "failed"]
      BY <1>2, <2>1 DEF AsksInv
    <3> QED BY <3>1 DEF AskOK
  <2>2. CASE ValidateResult(request, result)
    <3>1. /\ result.taskId = request.taskId /\ result.profile = request.profile
          /\ result.context = request.context
      BY <2>2 DEF ValidateResult, ResultIsForRequest
    <3>2. asks'[q] = [stage |-> "answered", request |-> request, result |-> result]
      BY <1>2, <2>2 DEF AsksInv
    <3> QED BY <1>1, <1>2, <3>1, <3>2 DEF AskOK, AsksInv
  <2> QED BY <2>1, <2>2
<1>4. DOMAIN asks' = DOMAIN Questions /\ \A r \in DOMAIN Questions : r # q => asks'[r] = asks[r]
  BY <1>2 DEF AsksInv
<1> QED BY <1>3, <1>4 DEF AsksInv

LEMMA WorkerTimesOutStep ==
    ASSUME AsksInv, NEW q \in DOMAIN Questions, WorkerTimesOut(q)
    PROVE  AsksInv'
<1>1. /\ DOMAIN asks' = DOMAIN Questions /\ asks'[q] = [stage |-> "failed"]
      /\ \A r \in DOMAIN Questions : r # q => asks'[r] = asks[r]
  BY DEF WorkerTimesOut, AsksInv
<1> QED BY <1>1 DEF AsksInv, AskOK

LEMMA AskStepKeeps ==
    ASSUME IngestInv, AsksInv, AskStep
    PROVE  AsksInv'
<1>1. budget.questions \subseteq DOMAIN Questions
  BY DEF IngestInv, Budget
<1> QED BY <1>1, AskCompanionStep, WorkerRepliesStep, WorkerTimesOutStep DEF AskStep

-----------------------------------------------------------------------------
(* ingestDiscussion and the relay.                                          *)

LEMMA HeldCall ==
    ASSUME CallsOK, NEW c \in Calls, ingests[c] # NoCall
    PROVE  /\ ingests[c] \in Call
           /\ ValidateSignedEvent(ingests[c].event)
           /\ Held(ingests[c].event, ingests[c].event.id)
<1>1. ingests[c] \in Call /\ ValidateSignedEvent(ingests[c].event)
  BY DEF CallsOK, CallOK
<1> QED BY <1>1 DEF Call, Held, ValidateSignedEvent

\* A call that is at a stage is not idle.
LEMMA StagedCall ==
    ASSUME NEW c, ingests[c].stage \in {"publishing", "acking", "querying"}
    PROVE  ingests[c] # NoCall
  BY DEF NoCall

\* A call that ends or goes on leaves the others alone.
LEMMA EndedCalls ==
    ASSUME CallsOK, NEW c \in Calls, EndIngest(c)
    PROVE  CallsOK'
<1>1. DOMAIN ingests' = Calls /\ ingests'[c] = NoCall /\ \A d \in Calls : d # c => ingests'[d] = ingests[d]
  BY DEF CallsOK, EndIngest
<1> QED BY <1>1 DEF CallsOK, CallOK

LEMMA ProceededCalls ==
    ASSUME CallsOK, NEW c \in Calls, ingests[c] # NoCall,
           NEW stage \in {"publishing", "acking", "querying"}, Proceed(c, stage)
    PROVE  CallsOK'
<1>1. ingests[c] \in Call /\ ValidateSignedEvent(ingests[c].event)
  BY HeldCall
<1>2. /\ DOMAIN ingests' = Calls /\ ingests'[c] = [ingests[c] EXCEPT !.stage = stage]
      /\ \A d \in Calls : d # c => ingests'[d] = ingests[d]
  BY DEF CallsOK, Proceed
<1>3. ingests'[c] \in Call /\ ingests'[c].event = ingests[c].event
  BY <1>1, <1>2 DEF Call
<1> QED BY <1>1, <1>2, <1>3 DEF CallsOK, CallOK

LEMMA LostBudget ==
    ASSUME budget \in Budget, Lose
    PROVE  budget' \in Budget
  BY DEF Lose, Budget

LEMMA StoredEvent ==
    ASSUME RelayOK, NEW event, Held(event, event.id), Store(event)
    PROVE  RelayOK'
  BY DEF RelayOK, Store, Extend

\* What the adapter, the kernel and the histories hold does not change.
HeldVars == <<discussions, seen, receipts, refusals>>
LEMMA HeldFrame ==
    ASSUME SeenOK, ReceiptsOK, RefusalsOK, UNCHANGED HeldVars
    PROVE  SeenOK' /\ ReceiptsOK' /\ RefusalsOK'
<1>1. SeenOK'
  BY DEF SeenOK, HeldVars
<1>2. ReceiptsOK'
  BY DEF ReceiptsOK, HeldVars
<1>3. RefusalsOK'
  BY DEF RefusalsOK, HeldVars
<1> QED BY <1>1, <1>2, <1>3

LEMMA IngestDiscussionStep ==
    ASSUME IngestInv, NEW c \in Calls, NEW citizen \in WithRole("citizen"), NEW event \in budget.events,
           NEW refs \in RelayRefs, IngestDiscussion(c, citizen, event, refs), UNCHANGED kernelVars
    PROVE  IngestInv'
<1>1. event \in Events
  BY DEF IngestInv, Budget
<1>2. PICK stage \in {"querying", "publishing"} :
        ingests' = [ingests EXCEPT ![c] = [stage |-> stage, citizen |-> citizen, event |-> event, refs |-> refs]]
  BY DEF IngestDiscussion
<1>3. CallOK([stage |-> stage, citizen |-> citizen, event |-> event, refs |-> refs])
  BY <1>1 DEF CallOK, Call, IngestDiscussion
<1>4. CallsOK'
  <2> DEFINE new == [stage |-> stage, citizen |-> citizen, event |-> event, refs |-> refs]
  <2> HIDE DEF new
  <2>1. /\ DOMAIN ingests' = Calls /\ ingests'[c] = new
        /\ \A d \in Calls : d # c => ingests'[d] = ingests[d]
    BY <1>2 DEF IngestInv, CallsOK, new
  <2>2. CallOK(new)
    BY <1>3 DEF new
  <2> QED BY <2>1, <2>2 DEF IngestInv, CallsOK
<1>5. budget' \in Budget
  BY DEF IngestDiscussion, IngestInv, Budget
<1>6. SeenOK' /\ ReceiptsOK' /\ RefusalsOK'
  BY HeldFrame DEF IngestInv, IngestDiscussion, kernelVars, HeldVars
<1>7. RelayOK' /\ PublishedOK'
  BY DEF IngestInv, IngestDiscussion, RelayOK, PublishedOK
<1> QED BY <1>4, <1>5, <1>6, <1>7 DEF IngestInv

LEMMA RelayStoresStep ==
    ASSUME IngestInv, NEW c \in Calls, RelayStores(c), UNCHANGED kernelVars
    PROVE  IngestInv'
<1>1. ingests[c] # NoCall
  BY StagedCall DEF RelayStores
<1>2. Held(ingests[c].event, ingests[c].event.id)
  BY <1>1, HeldCall DEF IngestInv
<1>3. RelayOK'
  BY <1>2, StoredEvent DEF IngestInv, RelayStores
<1>4. CallsOK'
  BY <1>1, ProceededCalls DEF IngestInv, RelayStores
<1>5. SeenOK' /\ ReceiptsOK' /\ RefusalsOK'
  BY HeldFrame DEF IngestInv, RelayStores, kernelVars, HeldVars
<1>6. PublishedOK' /\ budget' \in Budget
  BY DEF IngestInv, RelayStores, PublishedOK
<1> QED BY <1>3, <1>4, <1>5, <1>6 DEF IngestInv

LEMMA PublishAckedStep ==
    ASSUME IngestInv, NEW c \in Calls, PublishAcked(c), UNCHANGED kernelVars
    PROVE  IngestInv'
<1>1. ingests[c] # NoCall
  BY StagedCall DEF PublishAcked
<1>2. Held(ingests[c].event, ingests[c].event.id) /\ ValidateSignedEvent(ingests[c].event)
  BY <1>1, HeldCall DEF IngestInv
<1>3. PublishedOK'
  BY <1>2 DEF IngestInv, PublishAcked, PublishedOK, Extend
<1>4. CallsOK'
  BY <1>1, ProceededCalls DEF IngestInv, PublishAcked
<1>5. SeenOK' /\ ReceiptsOK' /\ RefusalsOK'
  BY HeldFrame DEF IngestInv, PublishAcked, kernelVars, HeldVars
<1>6. RelayOK' /\ budget' \in Budget
  BY DEF IngestInv, PublishAcked, RelayOK
<1> QED BY <1>3, <1>4, <1>5, <1>6 DEF IngestInv

LEMMA FailedStep ==
    ASSUME IngestInv, NEW c \in Calls, PublishFails(c) \/ QueryFails(c), UNCHANGED kernelVars
    PROVE  IngestInv'
<1>1. Lose /\ EndIngest(c) /\ UNCHANGED <<published, relay>> /\ UNCHANGED HeldVars
  BY DEF PublishFails, QueryFails, kernelVars, HeldVars
<1>2. budget' \in Budget
  BY <1>1, LostBudget DEF IngestInv
<1>3. CallsOK'
  BY <1>1, EndedCalls DEF IngestInv
<1>4. SeenOK' /\ ReceiptsOK' /\ RefusalsOK'
  BY <1>1, HeldFrame DEF IngestInv
<1>5. RelayOK' /\ PublishedOK'
  BY <1>1 DEF IngestInv, RelayOK, PublishedOK
<1> QED BY <1>2, <1>3, <1>4, <1>5 DEF IngestInv

LEMMA ElsewhereStep ==
    ASSUME IngestInv, UNCHANGED kernelVars,
           \/ \E event \in budget.events : PublishedElsewhere(event)
           \/ \E id \in DOMAIN relay : RelayForgets(id)
    PROVE  IngestInv'
<1>1. Lose /\ UNCHANGED <<published, ingests>> /\ UNCHANGED HeldVars
  BY DEF PublishedElsewhere, RelayForgets, kernelVars, HeldVars
<1>2. RelayOK'
  <2>1. ASSUME NEW event \in budget.events, PublishedElsewhere(event)
        PROVE  RelayOK'
    <3>1. Held(event, event.id)
      BY <2>1 DEF IngestInv, Budget, PublishedElsewhere, Held
    <3> QED BY <2>1, <3>1, StoredEvent DEF IngestInv, PublishedElsewhere
  <2>2. ASSUME NEW id \in DOMAIN relay, RelayForgets(id)
        PROVE  RelayOK'
    BY <2>2 DEF IngestInv, RelayOK, RelayForgets
  <2> QED BY <2>1, <2>2
<1>3. budget' \in Budget
  BY <1>1, LostBudget DEF IngestInv
<1>4. SeenOK' /\ ReceiptsOK' /\ RefusalsOK'
  BY <1>1, HeldFrame DEF IngestInv
<1>5. CallsOK' /\ PublishedOK'
  BY <1>1 DEF IngestInv, CallsOK, PublishedOK
<1> QED BY <1>2, <1>3, <1>4, <1>5 DEF IngestInv

Refusal(c, why) == [why |-> why, event |-> ingests[c].event, refs |-> ingests[c].refs]

\* A call that is refused for a cause.
LEMMA RefusedStep ==
    ASSUME IngestInv, NEW c \in Calls, NEW why, Refuse(c, why), Caused(Refusal(c, why), seen),
           UNCHANGED <<discussions, seen, receipts, published, relay, budget>>
    PROVE  IngestInv'
<1>1. CallsOK'
  BY EndedCalls DEF IngestInv, Refuse
<1>2. RefusalsOK'
  <2>1. refusals' = refusals \cup {Refusal(c, why)} /\ seen' = seen
    BY DEF Refuse, Refusal
  <2> QED BY <2>1 DEF IngestInv, RefusalsOK
<1>3. SeenOK' /\ ReceiptsOK'
  BY DEF IngestInv, SeenOK, ReceiptsOK
<1>4. RelayOK' /\ PublishedOK' /\ budget' \in Budget
  BY DEF IngestInv, RelayOK, PublishedOK
<1> QED BY <1>1, <1>2, <1>3, <1>4 DEF IngestInv

\* The event under the call's id that the relay holds passes what the call's
\* event passed.
LEMMA RelayedEvent ==
    ASSUME IngestInv, NEW c \in Calls, ingests[c] # NoCall, ingests[c].event.id \in DOMAIN relay
    PROVE  /\ Held(relay[ingests[c].event.id], ingests[c].event.id)
           /\ ValidateSignedEvent(relay[ingests[c].event.id])
           /\ relay[ingests[c].event.id].tags = ingests[c].event.tags
           /\ relay[ingests[c].event.id].content = ingests[c].event.content
           /\ relay[ingests[c].event.id].createdAt = ingests[c].event.createdAt
<1> DEFINE mine == ingests[c].event
           there == relay[mine.id]
<1>1. Held(mine, mine.id) /\ ValidateSignedEvent(mine)
  BY HeldCall DEF IngestInv
<1>2. Held(there, mine.id)
  BY DEF IngestInv, RelayOK
<1> HIDE DEF mine, there
<1>3. /\ mine.signer = there.signer /\ mine.kind = there.kind /\ mine.tags = there.tags
      /\ mine.content = there.content /\ mine.createdAt = there.createdAt
  BY <1>1, <1>2, SameEvent
<1>4. ValidateSignedEvent(there)
  BY <1>1, <1>2, <1>3 DEF ValidateSignedEvent, Held
<1> QED BY <1>2, <1>3, <1>4 DEF mine, there

\* A returned event that the transport refuses was signed twice.
LEMMA ConflictCaused ==
    ASSUME IngestInv, NEW c \in Calls, ingests[c] # NoCall, ingests[c].event.id \in DOMAIN relay,
           ~Returned(c, relay[ingests[c].event.id])
    PROVE  Caused(Refusal(c, "event_conflict"), seen)
<1> DEFINE mine == ingests[c].event
           there == relay[mine.id]
           cached == published[mine.id]
<1>1. Held(mine, mine.id)
  BY HeldCall DEF IngestInv
<1>2. Held(there, mine.id) /\ ValidateSignedEvent(there)
  BY RelayedEvent
<1>3. mine.id \in DOMAIN published /\ cached # there
  BY <1>2 DEF Returned, Held
<1>4. Held(cached, mine.id)
  BY <1>3 DEF IngestInv, PublishedOK
<1>5. cached.sig # there.sig
  <2> HIDE DEF mine, there, cached
  <2> QED BY <1>2, <1>3, <1>4, SameEvent
<1>6. \E event \in Events : event.id = mine.id /\ event.sig # mine.sig
  <2> HIDE DEF mine, there, cached
  <2> QED BY <1>2, <1>4, <1>5 DEF Held
<1>7. Refusal(c, "event_conflict").why = "event_conflict" /\ Refusal(c, "event_conflict").event = mine
  BY DEF Refusal
<1> HIDE DEF mine
<1> QED BY <1>6, <1>7 DEF Caused

\* An event that the adapter refuses has no time, is blank, has an empty tag
\* or names a relay that is none.
LEMMA ArtifactCaused ==
    ASSUME IngestInv, NEW c \in Calls, ingests[c] # NoCall, ingests[c].event.id \in DOMAIN relay,
           Artifact(relay[ingests[c].event.id], ingests[c].refs) = Refused
    PROVE  Caused(Refusal(c, "artifact"), seen)
<1> DEFINE mine == ingests[c].event
           there == relay[mine.id]
           refs == ingests[c].refs
<1>1. /\ Held(there, mine.id) /\ ValidateSignedEvent(there)
      /\ there.tags = mine.tags /\ there.content = mine.content /\ there.createdAt = mine.createdAt
  BY RelayedEvent
<1>2. refs \in RelayRefs
  BY HeldCall DEF IngestInv, Call
<1>3. \/ there.createdAt \notin Timestamps
      \/ there.content = Blank
      \/ \E i \in 1..Len(there.tags) : there.tags[i] = <<>>
      \/ ~((refs \cup RelayRefsFromTags(there.tags)) \subseteq WebSocketUrls)
  <2>1. Artifact(there, refs) = Refused
    OBVIOUS
  <2> HIDE DEF mine, there, refs
  <2> QED BY <1>1, <1>2, <2>1, ArtifactRefused DEF Held
<1>4. /\ Refusal(c, "artifact").why = "artifact" /\ Refusal(c, "artifact").event = mine
      /\ Refusal(c, "artifact").refs = refs
  BY DEF Refusal
<1> HIDE DEF mine, there, refs
<1> QED BY <1>1, <1>3, <1>4 DEF Caused

\* An artifact that the adapter has otherwise was signed twice, or came with
\* other relay references.
LEMMA DuplicateCaused ==
    ASSUME IngestInv, NEW c \in Calls, ingests[c] # NoCall, ingests[c].event.id \in DOMAIN relay,
           Artifact(relay[ingests[c].event.id], ingests[c].refs) # Refused,
           ~Normalizes(seen, Artifact(relay[ingests[c].event.id], ingests[c].refs))
    PROVE  Caused(Refusal(c, "duplicate_conflict"), seen)
<1> DEFINE mine == ingests[c].event
           there == relay[mine.id]
           refs == ingests[c].refs
           artifact == Artifact(there, refs)
<1>1. Held(there, mine.id) /\ there.tags = mine.tags
  BY RelayedEvent
<1>2. refs \in RelayRefs
  BY HeldCall DEF IngestInv, Call
<1>3. /\ artifact = ArtifactOf(there, refs \cup RelayRefsFromTags(there.tags))
      /\ artifact.id = mine.id
      /\ artifact.event.relayRefs = refs \cup RelayRefsFromTags(there.tags)
  <2>1. Artifact(there, refs) # Refused
    OBVIOUS
  <2> HIDE DEF mine, there, refs
  <2> QED BY <1>1, <1>2, <2>1, ArtifactFacts
<1>4. mine.id \in DOMAIN seen /\ seen[mine.id] # artifact
  BY <1>3 DEF Normalizes
<1>5. PICK event \in Events, others \in RelayRefs :
        /\ Held(event, mine.id) /\ seen[mine.id] = Artifact(event, others)
        /\ Artifact(event, others) # Refused
  BY <1>4 DEF IngestInv, SeenOK, ArtifactUnder
<1>6. /\ seen[mine.id] = ArtifactOf(event, others \cup RelayRefsFromTags(event.tags))
      /\ seen[mine.id].event.relayRefs = others \cup RelayRefsFromTags(event.tags)
  <2> HIDE DEF mine, there, refs, artifact
  <2> QED BY <1>5, ArtifactFacts
<1>7. /\ Refusal(c, "duplicate_conflict").why = "duplicate_conflict"
      /\ Refusal(c, "duplicate_conflict").event = mine
      /\ Refusal(c, "duplicate_conflict").refs = refs
  BY DEF Refusal
<1> HIDE DEF mine, there, refs, artifact
<1>8. CASE event.sig = there.sig
  <2>1. event = there
    BY <1>1, <1>5, <1>8, SameEvent
  <2>2. others \cup RelayRefsFromTags(event.tags) # refs \cup RelayRefsFromTags(there.tags)
    BY <1>3, <1>4, <1>6, <2>1
  <2>3. seen[mine.id].event.relayRefs # refs \cup RelayRefsFromTags(mine.tags)
    BY <1>1, <1>6, <2>2
  <2> QED BY <1>4, <1>7, <2>3 DEF Caused
<1>9. CASE event.sig # there.sig
  <2>1. \E e \in Events : e.id = mine.id /\ e.sig # mine.sig
    BY <1>1, <1>5, <1>9 DEF Held
  <2> QED BY <1>7, <2>1 DEF Caused
<1> QED BY <1>8, <1>9

\* An artifact that the adapter takes the kernel takes too.
LEMMA KernelTakes ==
    ASSUME IngestInv, NEW c \in Calls, ingests[c] # NoCall, NEW artifact,
           ArtifactUnder(artifact, ingests[c].event.id), Normalizes(seen, artifact)
    PROVE  MayRecordDiscussion(Actor(ingests[c].citizen), Discussion(artifact))
<1> DEFINE id == ingests[c].event.id
           citizen == ingests[c].citizen
<1>2. /\ artifact.id = id /\ Discussion(artifact).id = id
      /\ Discussion(artifact).signature # Blank /\ Discussion(artifact).provenance # Refused
  BY HeldArtifact
<1>3. id \in DOMAIN discussions => discussions[id] = Discussion(artifact)
  BY <1>2 DEF IngestInv, SeenOK, Normalizes
<1>4. citizen \in DOMAIN Registry /\ Registry[citizen].role = "citizen"
  BY HeldCall DEF IngestInv, Call, WithRole
<1>5. Registered(Actor(citizen)) /\ Actor(citizen).role = "citizen"
  <2> HIDE DEF citizen
  <2> QED BY <1>4, RegistryAssumption DEF Registered, Actor, CivicRoles
<1> HIDE DEF id, citizen
<1>6. MayRecordDiscussion(Actor(citizen), Discussion(artifact))
  <2>1. PICK d : d = Discussion(artifact)
    OBVIOUS
  <2>2. PICK a : a = Actor(citizen)
    OBVIOUS
  <2> QED BY <1>2, <1>3, <1>5, <2>1, <2>2 DEF MayRecordDiscussion
<1> QED BY <1>6 DEF citizen

\* A receipt: the adapter and the kernel hold the artifact, and hold on to
\* all they had.
LEMMA TakenStep ==
    ASSUME IngestInv, NEW c \in Calls, NEW artifact, NEW id,
           ArtifactUnder(artifact, id), Normalizes(seen, artifact),
           seen' = Remember(seen, artifact),
           discussions' = Extend(discussions, Discussion(artifact).id, Discussion(artifact)),
           receipts' = receipts \cup {artifact}, EndIngest(c),
           UNCHANGED <<refusals, published, relay, budget>>
    PROVE  IngestInv'
<1>2. artifact.id = id /\ Discussion(artifact).id = id
  BY HeldArtifact
<1>3. /\ DOMAIN seen' = DOMAIN seen \cup {id} /\ seen'[id] = artifact
      /\ \A i \in DOMAIN seen : seen'[i] = seen[i]
  BY <1>2 DEF Remember, Normalizes
<1>4. /\ DOMAIN discussions' = DOMAIN discussions \cup {id} /\ discussions'[id] = Discussion(artifact)
      /\ \A i \in DOMAIN discussions \ {id} : discussions'[i] = discussions[i]
  <2>1. PICK d : d = Discussion(artifact)
    OBVIOUS
  <2> QED BY <1>2, <2>1 DEF Extend
<1>5. SeenOK'
  <2>1. DOMAIN discussions' = DOMAIN seen'
    BY <1>3, <1>4 DEF IngestInv, SeenOK
  <2>2. ASSUME NEW i \in DOMAIN seen'
        PROVE  ArtifactUnder(seen'[i], i) /\ discussions'[i] = Discussion(seen'[i])
    <3>1. CASE i = id
      BY <1>3, <1>4, <3>1
    <3>2. CASE i # id
      BY <1>3, <1>4, <3>2 DEF IngestInv, SeenOK
    <3> QED BY <3>1, <3>2
  <2> QED BY <2>1, <2>2 DEF SeenOK
<1>6. ReceiptsOK'
  BY <1>2, <1>3 DEF IngestInv, ReceiptsOK
<1>7. RefusalsOK'
  <2>1. ASSUME NEW r \in refusals
        PROVE  Caused(r, seen')
    <3>1. Caused(r, seen)
      BY DEF IngestInv, RefusalsOK
    <3> QED BY <1>3, <3>1 DEF Caused
  <2> QED BY <2>1 DEF RefusalsOK
<1>8. CallsOK'
  BY EndedCalls DEF IngestInv
<1>9. RelayOK' /\ PublishedOK' /\ budget' \in Budget
  BY DEF IngestInv, RelayOK, PublishedOK
<1> QED BY <1>5, <1>6, <1>7, <1>8, <1>9 DEF IngestInv

LEMMA QueryAnsweredStep ==
    ASSUME IngestInv, NEW c \in Calls, QueryAnswered(c)
    PROVE  /\ IngestInv'
           /\ UNCHANGED <<suggestions, departmentWorkPackages, shadowed, responseAuthors,
                          reviewedCitizenBrief, participationResult>>
<1> DEFINE id == ingests[c].event.id
           artifact == Artifact(relay[id], ingests[c].refs)
           others == <<suggestions, departmentWorkPackages, shadowed, responseAuthors, reviewedCitizenBrief,
                       participationResult>>
<1>1. ingests[c] # NoCall
  BY StagedCall DEF QueryAnswered
<1>2. UNCHANGED <<published, relay, budget>>
  BY DEF QueryAnswered
<1>3. CASE id \notin DOMAIN relay
  <2>1. Refuse(c, "event_missing") /\ UNCHANGED <<kernelVars, seen, receipts>>
    BY <1>3 DEF QueryAnswered
  <2>2. Caused(Refusal(c, "event_missing"), seen)
    BY DEF Caused, Refusal
  <2>3. IngestInv'
    BY <1>2, <2>1, <2>2, RefusedStep DEF kernelVars
  <2> QED BY <2>1, <2>3 DEF kernelVars
<1>4. CASE id \in DOMAIN relay /\ ~Returned(c, relay[id])
  <2>1. Refuse(c, "event_conflict") /\ UNCHANGED <<kernelVars, seen, receipts>>
    BY <1>4 DEF QueryAnswered
  <2>2. Caused(Refusal(c, "event_conflict"), seen)
    BY <1>1, <1>4, ConflictCaused
  <2>3. IngestInv'
    BY <1>2, <2>1, <2>2, RefusedStep DEF kernelVars
  <2> QED BY <2>1, <2>3 DEF kernelVars
<1>5. CASE id \in DOMAIN relay /\ Returned(c, relay[id])
  <2>1. Record(c, relay[id])
    BY <1>5 DEF QueryAnswered
  <2>2. CASE artifact = Refused
    <3>1. Refuse(c, "artifact") /\ UNCHANGED <<kernelVars, seen, receipts>>
      BY <2>1, <2>2 DEF Record, Normalizes
    <3>2. Caused(Refusal(c, "artifact"), seen)
      BY <1>1, <1>5, <2>2, ArtifactCaused
    <3>3. IngestInv'
      BY <1>2, <3>1, <3>2, RefusedStep DEF kernelVars
    <3> QED BY <3>1, <3>3 DEF kernelVars
  <2>3. CASE artifact # Refused /\ ~Normalizes(seen, artifact)
    <3>1. Refuse(c, "duplicate_conflict") /\ UNCHANGED <<kernelVars, seen, receipts>>
      BY <2>1, <2>3 DEF Record
    <3>2. Caused(Refusal(c, "duplicate_conflict"), seen)
      BY <1>1, <1>5, <2>3, DuplicateCaused
    <3>3. IngestInv'
      BY <1>2, <3>1, <3>2, RefusedStep DEF kernelVars
    <3> QED BY <3>1, <3>3 DEF kernelVars
  <2>4. CASE artifact # Refused /\ Normalizes(seen, artifact)
    <3>1. ArtifactUnder(artifact, id)
      <4>1. Held(relay[id], id) /\ ingests[c].refs \in RelayRefs
        BY <1>1, <1>5, RelayedEvent, HeldCall DEF IngestInv, Call
      <4> QED BY <2>4, <4>1 DEF ArtifactUnder, Held
    <3>2. MayRecordDiscussion(Actor(ingests[c].citizen), Discussion(artifact))
      BY <1>1, <2>4, <3>1, KernelTakes
    <3>3. /\ seen' = Remember(seen, artifact)
          /\ RecordDiscussion(Actor(ingests[c].citizen), Discussion(artifact))
          /\ receipts' = receipts \cup {artifact} /\ EndIngest(c) /\ UNCHANGED refusals
      BY <2>1, <2>4, <3>2 DEF Record
    <3>4. discussions' = Extend(discussions, Discussion(artifact).id, Discussion(artifact)) /\ UNCHANGED others
      BY <3>3 DEF RecordDiscussion
    <3>5. IngestInv'
      <4> HIDE DEF artifact, id
      <4> QED BY <1>2, <2>4, <3>1, <3>3, <3>4, TakenStep
    <3> QED BY <3>4, <3>5
  <2> QED BY <2>2, <2>3, <2>4
<1> QED BY <1>3, <1>4, <1>5

-----------------------------------------------------------------------------
(* The offices: the requests that run to the end at once.                   *)

\* A review key starts with the id of its package.
LEMMA KeyStartsWithId ==
    ASSUME NEW p \in Suggestions \X Departments, NEW r \in DOMAIN Registry
    PROVE  IsStrictPrefix(PackageId(p), ReviewKey(p, r))
<1> DEFINE s == Parts[p[1]]
           d == Parts[p[2]]
           t == Parts[r]
<1>1. /\ s \in Seq(STRING) /\ d \in Seq(STRING)
      /\ t \in Seq(STRING) /\ t # <<>>
  BY PartsAssumption
<1> HIDE DEF s, d, t
<1>2. s \o d \in Seq(STRING)
  BY <1>1, ConcatProperties
<1> DEFINE id == s \o d
           key == id \o t
<1> HIDE DEF id
<1>3. id \in Seq(STRING) /\ key \in Seq(STRING)
  BY <1>1, <1>2, ConcatProperties DEF id
<1>4. /\ Len(key) = Len(id) + Len(t) /\ Len(t) > 0
      /\ \A i \in 1..Len(id) : key[i] = id[i]
  BY <1>1, <1>3, ConcatProperties
<1> HIDE DEF key
<1>5. Len(id) <= Len(key) /\ id # key
  BY <1>1, <1>3, <1>4
<1>6. SubSeq(id, 1, Len(id)) = SubSeq(key, 1, Len(id))
  BY <1>3, <1>4
<1>7. IsStrictPrefix(id, key)
  BY <1>5, <1>6 DEF IsStrictPrefix, IsPrefix
<1> QED BY <1>7 DEF PackageId, ReviewKey, key, id, s, d, t

LEMMA ReviewersRegistered ==
    ASSUME NEW p, NEW r \in Reviewers(p)
    PROVE  r \in DOMAIN Registry /\ r \in WithRole("department_reviewer")
  BY DEF Reviewers, WithRole

\* The parts of LedgersAgree: the responses and the briefs.
ResponsesAgree ==
    /\ DOMAIN responseInputs = {p \in DOMAIN departmentWorkPackages : departmentWorkPackages[p] # NoResponse}
    /\ \A p \in DOMAIN responseInputs :
          /\ responseInputs[p].answer = departmentWorkPackages[p].answer
          /\ responseInputs[p].actorId = responseAuthors[p]
          /\ StandsAlone(p) => (departmentWorkPackages[p].status = "reviewed"
                                   <=> \E r \in Reviewers(p) : ReviewKey(p, r) \in responseReviews)
    /\ \A key \in responseReviews : \E p \in DOMAIN responseInputs : \E r \in Reviewers(p) :
          key = ReviewKey(p, r) /\ departmentWorkPackages[p].status = "reviewed"
BriefsAgree ==
    /\ publishedBrief = None <=> reviewedCitizenBrief = None
    /\ publishedBrief # None => /\ publishedBrief.summary = reviewedCitizenBrief.summary
                                /\ publishedBrief.publisherId = reviewedCitizenBrief.publishedBy

\* The types of the offices' variables.
OfficesType ==
    /\ DOMAIN suggestions \subseteq Suggestions
    /\ DOMAIN departmentWorkPackages \subseteq Suggestions \X Departments
    /\ DOMAIN responseAuthors \subseteq DOMAIN departmentWorkPackages
    /\ participationResult \in Results \cup {None}
    /\ shadowed \subseteq DOMAIN departmentWorkPackages
LEMMA OfficesParts ==
    ASSUME OfficesInv
    PROVE  /\ OfficesType /\ PackagesOK /\ AuthorsOK /\ ResponsesAgree /\ BriefsAgree
           /\ participation = participationResult /\ BriefOK
  BY DEF OfficesInv, OfficesType, LedgersAgree, ResponsesAgree, BriefsAgree
LEMMA OfficesJoined ==
    ASSUME /\ OfficesType' /\ PackagesOK' /\ AuthorsOK' /\ ResponsesAgree' /\ BriefsAgree'
           /\ participation' = participationResult' /\ BriefOK'
    PROVE  OfficesInv'
<1>1. LedgersAgree'
  BY DEF LedgersAgree, ResponsesAgree, BriefsAgree
<1> QED BY <1>1 DEF OfficesInv, OfficesType

\* The packages decide what a brief cites and how many are reviewed.
LEMMA SamePackages ==
    ASSUME DOMAIN departmentWorkPackages' = DOMAIN departmentWorkPackages,
           \A p \in DOMAIN departmentWorkPackages : departmentWorkPackages'[p] = departmentWorkPackages[p],
           UNCHANGED reviewedCitizenBrief, BriefOK
    PROVE  BriefOK'
<1>1. CurrentCitations' = CurrentCitations
  <2> DEFINE answered == {p \in DOMAIN departmentWorkPackages : departmentWorkPackages[p] # NoResponse}
  <2>1. CurrentCitations = UNION {Citations[departmentWorkPackages[p].answer] : p \in answered}
    BY DEF CurrentCitations
  <2>2. {p \in DOMAIN departmentWorkPackages' : departmentWorkPackages'[p] # NoResponse} = answered
    OBVIOUS
  <2>3. CurrentCitations' = UNION {Citations[departmentWorkPackages'[p].answer] : p \in answered}
    BY <2>2 DEF CurrentCitations
  <2>4. \A p \in answered : departmentWorkPackages'[p] = departmentWorkPackages[p]
    OBVIOUS
  <2> HIDE DEF answered
  <2> QED BY <2>1, <2>3, <2>4
<1>2. ReviewedPackages' = ReviewedPackages
  BY DEF ReviewedPackages
<1>3. Cardinality(ReviewedPackages)' = Cardinality(ReviewedPackages)
  BY <1>2
<1> QED BY <1>1, <1>3 DEF BriefOK

OfficeVars == <<suggestions, departmentWorkPackages, shadowed, responseAuthors, reviewedCitizenBrief,
                participationResult, ledgerVars>>
LEMMA OfficesFrame ==
    ASSUME OfficesInv, UNCHANGED OfficeVars
    PROVE  OfficesInv'
<1>1. BriefOK'
  BY SamePackages DEF OfficesInv, OfficeVars
<1>2. LedgersAgree'
  BY DEF OfficesInv, OfficeVars, ledgerVars, LedgersAgree, StandsAlone
<1>3. PackagesOK' /\ AuthorsOK'
  BY DEF OfficesInv, OfficeVars, ledgerVars, PackagesOK, AuthorsOK
<1> QED BY <1>1, <1>2, <1>3 DEF OfficesInv, OfficeVars, ledgerVars

LEMMA CraftSuggestionStep ==
    ASSUME OfficesInv, NEW citizen, NEW id \in Suggestions, NEW discussionId, NEW title,
           CraftSuggestionRequest(citizen, id, discussionId, title)
    PROVE  OfficesInv' /\ UNCHANGED discussions
<1>1. /\ DOMAIN suggestions' \subseteq Suggestions /\ UNCHANGED discussions
      /\ UNCHANGED <<departmentWorkPackages, shadowed, responseAuthors, reviewedCitizenBrief, participationResult>>
      /\ UNCHANGED ledgerVars
  BY DEF CraftSuggestionRequest, CraftSuggestion, Extend, OfficesInv
<1>2. BriefOK'
  BY <1>1, SamePackages DEF OfficesInv
<1>3. LedgersAgree'
  BY <1>1 DEF OfficesInv, ledgerVars, LedgersAgree, StandsAlone
<1>4. PackagesOK' /\ AuthorsOK'
  BY <1>1 DEF OfficesInv, ledgerVars, PackagesOK, AuthorsOK
<1> QED BY <1>1, <1>2, <1>3, <1>4 DEF OfficesInv, ledgerVars

\* The packages of a suggestion that is submitted have no response yet, so
\* they change nothing that a brief rests on.
LEMMA SubmitSuggestionStep ==
    ASSUME OfficesInv, NEW steward, NEW id, SubmitSuggestionRequest(steward, id)
    PROVE  OfficesInv' /\ UNCHANGED discussions
<1>1. /\ id \in DOMAIN suggestions
      /\ UNCHANGED <<discussions, responseAuthors, reviewedCitizenBrief, participationResult, ledgerVars>>
  BY DEF SubmitSuggestionRequest, SubmitSuggestionForAdministration
<1>2. /\ DOMAIN suggestions' = DOMAIN suggestions
      /\ shadowed' \subseteq shadowed \cup DOMAIN departmentWorkPackages'
      /\ DOMAIN departmentWorkPackages \subseteq DOMAIN departmentWorkPackages'
      /\ DOMAIN departmentWorkPackages' \subseteq DOMAIN departmentWorkPackages \cup ({id} \X Departments)
      /\ \A p \in DOMAIN departmentWorkPackages' :
            departmentWorkPackages'[p] = IF p \in DOMAIN departmentWorkPackages
                                         THEN departmentWorkPackages[p] ELSE NoResponse
  <2>1. CASE UNCHANGED <<suggestions, departmentWorkPackages, shadowed>>
    BY <2>1
  <2>2. CASE /\ suggestions' = [suggestions EXCEPT ![id].status = "submitted_for_administration_review"]
             /\ departmentWorkPackages' = [p \in DOMAIN departmentWorkPackages \cup ({id} \X Departments) |->
                                  IF p \in DOMAIN departmentWorkPackages THEN departmentWorkPackages[p]
                                  ELSE NoResponse]
             /\ shadowed' = shadowed \cup {p \in {id} \X Departments :
                                  \E q \in DOMAIN departmentWorkPackages : PackageId(q) = PackageId(p)}
    BY <2>2
  <2> QED BY <2>1, <2>2 DEF SubmitSuggestionRequest, SubmitSuggestionForAdministration
<1>3. OfficesType'
  <2>1. DOMAIN departmentWorkPackages' \subseteq Suggestions \X Departments
    BY <1>1, <1>2 DEF OfficesInv
  <2> QED BY <1>1, <1>2, <2>1 DEF OfficesInv, OfficesType, ledgerVars
<1>4. PackagesOK'
  BY <1>2 DEF OfficesInv, PackagesOK
<1>5. AuthorsOK' /\ BriefsAgree' /\ participation' = participationResult'
  BY <1>1, OfficesParts DEF ledgerVars, AuthorsOK, BriefsAgree
<1>6. {p \in DOMAIN departmentWorkPackages' : departmentWorkPackages'[p] # NoResponse}
        = {p \in DOMAIN departmentWorkPackages : departmentWorkPackages[p] # NoResponse}
  BY <1>2
<1>7. ResponsesAgree'
  <2>1. ResponsesAgree
    BY OfficesParts
  <2>2. \A p \in DOMAIN responseInputs : departmentWorkPackages'[p] = departmentWorkPackages[p]
    BY <1>2, <2>1 DEF ResponsesAgree
  <2> QED BY <1>1, <1>6, <2>1, <2>2 DEF ResponsesAgree, StandsAlone, ledgerVars
<1>8. CurrentCitations' = CurrentCitations
  <2> DEFINE answered == {p \in DOMAIN departmentWorkPackages : departmentWorkPackages[p] # NoResponse}
  <2>1. \A p \in answered : departmentWorkPackages'[p] = departmentWorkPackages[p]
    BY <1>2
  <2>2. CurrentCitations = UNION {Citations[departmentWorkPackages[p].answer] : p \in answered}
    BY DEF CurrentCitations
  <2>3. CurrentCitations' = UNION {Citations[departmentWorkPackages'[p].answer] : p \in answered}
    BY <1>6 DEF CurrentCitations
  <2> HIDE DEF answered
  <2> QED BY <2>1, <2>2, <2>3
<1>9. ReviewedPackages' = ReviewedPackages
  BY <1>2 DEF ReviewedPackages, NoResponse
<1>10. BriefOK'
  <2>1. (\A p \in DOMAIN departmentWorkPackages : departmentWorkPackages[p].status # "pending_review")
        => (\A p \in DOMAIN departmentWorkPackages' : departmentWorkPackages'[p].status # "pending_review")
    BY <1>2 DEF NoResponse
  <2>2. BriefOK /\ reviewedCitizenBrief' = reviewedCitizenBrief
    BY <1>1 DEF OfficesInv
  <2>3. Cardinality(ReviewedPackages)' = Cardinality(ReviewedPackages)
    BY <1>9
  <2> QED BY <1>8, <2>1, <2>2, <2>3 DEF BriefOK
<1> QED BY <1>1, <1>3, <1>4, <1>5, <1>7, <1>10, OfficesJoined

\* A package as the kernel changes it: one of them, and none is added.
Replaced(p, value) ==
    /\ DOMAIN departmentWorkPackages' = DOMAIN departmentWorkPackages
    /\ departmentWorkPackages'[p] = value
    /\ \A q \in DOMAIN departmentWorkPackages : q # p => departmentWorkPackages'[q] = departmentWorkPackages[q]

\* A new answer takes the reviews of the package and the brief away, in the
\* ledgers as in the kernel.
LEMMA DepartmentResponseStep ==
    ASSUME OfficesInv, NEW agent, NEW p \in DOMAIN departmentWorkPackages, NEW answer \in Answers,
           DepartmentResponseRequest(agent, p, answer)
    PROVE  OfficesInv' /\ UNCHANGED discussions
<1> DEFINE new == [answer |-> answer, status |-> "pending_review"]
           input == [actorId |-> agent, answer |-> answer]
<1>0. /\ OfficesType /\ PackagesOK /\ AuthorsOK /\ ResponsesAgree
      /\ participation = participationResult
  BY OfficesParts
<1>1. /\ publishedBrief' = None /\ reviewedCitizenBrief' = None
      /\ UNCHANGED <<discussions, suggestions, shadowed, participationResult, participation>>
  BY DEF DepartmentResponseRequest, RecordDepartmentResponse
<1>2. Replaced(p, new)
  BY DEF DepartmentResponseRequest, RecordDepartmentResponse, Replaced
<1>3. /\ DOMAIN responseAuthors' = DOMAIN responseAuthors \cup {p}
      /\ responseAuthors'[p] = agent
      /\ \A q \in DOMAIN responseAuthors : q # p => responseAuthors'[q] = responseAuthors[q]
  BY DEF DepartmentResponseRequest, RecordDepartmentResponse, Actor, Extend
<1>4. /\ DOMAIN responseInputs' = DOMAIN responseInputs \cup {p}
      /\ responseInputs'[p] = input
      /\ \A q \in DOMAIN responseInputs : q # p => responseInputs'[q] = responseInputs[q]
  BY DEF DepartmentResponseRequest, Extend
<1>5. responseReviews' = IF p \in DOMAIN responseInputs
                         THEN {key \in responseReviews : ~IsStrictPrefix(PackageId(p), key)}
                         ELSE responseReviews
  BY DEF DepartmentResponseRequest, DropReviews
<1>6. new # NoResponse /\ new \in Response /\ new.answer = answer /\ new.status # "reviewed"
      /\ input.answer = answer /\ input.actorId = agent
  BY DEF NoResponse, Response
<1> HIDE DEF new, input
<1>7. OfficesType'
  BY <1>0, <1>1, <1>2, <1>3 DEF OfficesType, Replaced
<1>8. PackagesOK' /\ AuthorsOK'
  <2>1. PackagesOK'
    BY <1>0, <1>2, <1>6 DEF PackagesOK, Replaced
  <2>2. AuthorsOK'
    BY <1>0, <1>3, <1>4 DEF AuthorsOK
  <2> QED BY <2>1, <2>2
<1>9. ResponsesAgree'
  <2>1. DOMAIN responseInputs'
          = {q \in DOMAIN departmentWorkPackages' : departmentWorkPackages'[q] # NoResponse}
    BY <1>0, <1>2, <1>4, <1>6 DEF ResponsesAgree, Replaced
  <2>2. /\ responseInputs'[p].answer = departmentWorkPackages'[p].answer
        /\ responseInputs'[p].actorId = responseAuthors'[p]
        /\ departmentWorkPackages'[p].status # "reviewed"
    BY <1>2, <1>3, <1>4, <1>6 DEF Replaced
  <2>3. ASSUME NEW key \in responseReviews'
        PROVE  \E q \in DOMAIN responseInputs' : \E r \in Reviewers(q) :
                  q # p /\ key = ReviewKey(q, r) /\ departmentWorkPackages'[q].status = "reviewed"
    <3>1. key \in responseReviews
      BY <1>5
    <3>2. PICK q \in DOMAIN responseInputs : \E r \in Reviewers(q) :
            key = ReviewKey(q, r) /\ departmentWorkPackages[q].status = "reviewed"
      BY <1>0, <3>1 DEF ResponsesAgree
    <3>3. q # p
      <4>1. CASE p \in DOMAIN responseInputs
        <5>1. ~IsStrictPrefix(PackageId(p), key)
          BY <1>5, <4>1
        <5>2. PICK r \in Reviewers(q) : key = ReviewKey(q, r)
          BY <3>2
        <5>3. q \in Suggestions \X Departments /\ r \in DOMAIN Registry
          BY <1>0, <5>2, ReviewersRegistered DEF OfficesType, ResponsesAgree
        <5>4. IsStrictPrefix(PackageId(q), key)
          BY <5>2, <5>3, KeyStartsWithId
        <5> QED BY <5>1, <5>4
      <4>2. CASE p \notin DOMAIN responseInputs
        BY <4>2
      <4> QED BY <4>1, <4>2
    <3>4. departmentWorkPackages'[q] = departmentWorkPackages[q]
      BY <1>0, <1>2, <3>3 DEF ResponsesAgree, Replaced
    <3> QED BY <1>4, <3>2, <3>3, <3>4
  <2>4. ASSUME StandsAlone(p)', NEW r \in Reviewers(p)
        PROVE  ReviewKey(p, r) \notin responseReviews'
    <3>1. SUFFICES ASSUME ReviewKey(p, r) \in responseReviews'
                   PROVE  FALSE
      OBVIOUS
    <3>2. PICK q \in DOMAIN responseInputs' : \E s \in Reviewers(q) : q # p /\ ReviewKey(p, r) = ReviewKey(q, s)
      BY <2>3, <3>1
    <3>3. PICK s \in Reviewers(q) : q # p /\ ReviewKey(p, r) = ReviewKey(q, s)
      BY <3>2
    <3>4. q \in Suggestions \X Departments /\ s \in DOMAIN Registry
      BY <1>0, <1>4, <3>3, ReviewersRegistered DEF OfficesType, ResponsesAgree
    <3>5. IsStrictPrefix(PackageId(q), ReviewKey(p, r))
      BY <3>3, <3>4, KeyStartsWithId
    <3> QED BY <2>4, <3>3, <3>5 DEF StandsAlone
  <2>5. ASSUME NEW q \in DOMAIN responseInputs, q # p
        PROVE  /\ responseInputs'[q].answer = departmentWorkPackages'[q].answer
               /\ responseInputs'[q].actorId = responseAuthors'[q]
               /\ StandsAlone(q)' => (departmentWorkPackages'[q].status = "reviewed"
                     <=> \E r \in Reviewers(q) : ReviewKey(q, r) \in responseReviews')
    <3>1. /\ departmentWorkPackages'[q] = departmentWorkPackages[q] /\ responseInputs'[q] = responseInputs[q]
      BY <1>0, <1>2, <1>4, <2>5 DEF ResponsesAgree, Replaced
    <3>2. ASSUME StandsAlone(q)'
          PROVE  /\ StandsAlone(q)
                 /\ \A r \in Reviewers(q) : ReviewKey(q, r) \in responseReviews' <=> ReviewKey(q, r) \in responseReviews
      <4>1. StandsAlone(q)
        BY <1>4, <3>2 DEF StandsAlone
      <4>2. \A r \in Reviewers(q) : ~IsStrictPrefix(PackageId(p), ReviewKey(q, r))
        BY <1>4, <2>5, <3>2 DEF StandsAlone
      <4> QED BY <1>5, <4>1, <4>2
    <3>3. responseAuthors'[q] = responseAuthors[q]
      BY <1>0, <1>3, <2>5 DEF AuthorsOK
    <3> QED BY <1>0, <3>1, <3>2, <3>3 DEF ResponsesAgree
  <2> QED BY <1>4, <2>1, <2>2, <2>3, <2>4, <2>5 DEF ResponsesAgree
<1>10. BriefsAgree' /\ BriefOK' /\ participation' = participationResult'
  BY <1>0, <1>1 DEF BriefsAgree, BriefOK
<1> QED BY <1>1, <1>7, <1>8, <1>9, <1>10, OfficesJoined

\* A review of a response that is reviewed already changes nothing, and of
\* one that is not there was no brief.
LEMMA DepartmentReviewStep ==
    ASSUME OfficesInv, NEW reviewer \in WithRole("department_reviewer"),
           NEW p \in DOMAIN departmentWorkPackages, DepartmentReviewRequest(reviewer, p)
    PROVE  OfficesInv' /\ UNCHANGED discussions
<1> DEFINE new == [departmentWorkPackages[p] EXCEPT !.status = "reviewed"]
<1>0. /\ OfficesType /\ PackagesOK /\ AuthorsOK /\ ResponsesAgree /\ BriefsAgree
      /\ participation = participationResult /\ BriefOK
  BY OfficesParts
<1>1. /\ UNCHANGED <<discussions, suggestions, shadowed, responseAuthors, reviewedCitizenBrief, participationResult>>
      /\ UNCHANGED <<responseInputs, publishedBrief, participation>>
      /\ responseReviews' = responseReviews \cup {ReviewKey(p, reviewer)}
  BY DEF DepartmentReviewRequest, ReviewDepartmentResponse
<1>2. Replaced(p, new)
  BY DEF DepartmentReviewRequest, ReviewDepartmentResponse, Replaced
<1>3. departmentWorkPackages[p] # NoResponse /\ departmentWorkPackages[p] \in Response
  BY <1>0 DEF DepartmentReviewRequest, ReviewDepartmentResponse, PackagesOK
<1>4. /\ new # NoResponse /\ new \in Response /\ new.status = "reviewed"
      /\ new.answer = departmentWorkPackages[p].answer
  BY <1>3 DEF NoResponse, Response
<1>5. /\ p \in DOMAIN responseInputs /\ p \in Suggestions \X Departments
      /\ reviewer \in DOMAIN Registry /\ reviewer \in Reviewers(p)
  <2>1. Registry[reviewer].department = p[2]
    BY DEF DepartmentReviewRequest, ReviewDepartmentResponse, Actor
  <2> QED BY <1>0, <1>3, <2>1 DEF ResponsesAgree, OfficesType, WithRole, Reviewers
<1>6. departmentWorkPackages[p].status = "reviewed" => new = departmentWorkPackages[p]
  BY <1>3 DEF Response
<1> HIDE DEF new
<1>7. OfficesType' /\ PackagesOK' /\ AuthorsOK'
  <2>1. OfficesType'
    BY <1>0, <1>1, <1>2 DEF OfficesType, Replaced
  <2>2. PackagesOK'
    BY <1>0, <1>2, <1>4 DEF PackagesOK, Replaced
  <2>3. AuthorsOK'
    BY <1>0, <1>1 DEF AuthorsOK
  <2> QED BY <2>1, <2>2, <2>3
<1>8. ResponsesAgree'
  <2>1. DOMAIN responseInputs'
          = {q \in DOMAIN departmentWorkPackages' : departmentWorkPackages'[q] # NoResponse}
    BY <1>0, <1>1, <1>2, <1>3, <1>4 DEF ResponsesAgree, Replaced
  <2>2. /\ responseInputs'[p].answer = departmentWorkPackages'[p].answer
        /\ responseInputs'[p].actorId = responseAuthors'[p]
        /\ departmentWorkPackages'[p].status = "reviewed"
        /\ ReviewKey(p, reviewer) \in responseReviews'
    BY <1>0, <1>1, <1>2, <1>4, <1>5 DEF ResponsesAgree, Replaced
  <2>3. ASSUME NEW q \in DOMAIN responseInputs, q # p
        PROVE  /\ responseInputs'[q].answer = departmentWorkPackages'[q].answer
               /\ responseInputs'[q].actorId = responseAuthors'[q]
               /\ StandsAlone(q)' => (departmentWorkPackages'[q].status = "reviewed"
                     <=> \E r \in Reviewers(q) : ReviewKey(q, r) \in responseReviews')
    <3>1. departmentWorkPackages'[q] = departmentWorkPackages[q]
      BY <1>0, <1>2, <2>3 DEF ResponsesAgree, Replaced
    <3>2. ASSUME StandsAlone(q)'
          PROVE  /\ StandsAlone(q)
                 /\ \A r \in Reviewers(q) : ReviewKey(q, r) \in responseReviews' <=> ReviewKey(q, r) \in responseReviews
      <4>1. StandsAlone(q)
        BY <1>1, <3>2 DEF StandsAlone
      <4>2. \A r \in Reviewers(q) : ~IsStrictPrefix(PackageId(p), ReviewKey(q, r))
        BY <1>5, <2>3, <4>1 DEF StandsAlone
      <4>3. IsStrictPrefix(PackageId(p), ReviewKey(p, reviewer))
        BY <1>5, KeyStartsWithId
      <4> QED BY <1>1, <4>1, <4>2, <4>3
    <3> QED BY <1>0, <1>1, <3>1, <3>2 DEF ResponsesAgree
  <2>4. ASSUME NEW key \in responseReviews'
        PROVE  \E q \in DOMAIN responseInputs' : \E r \in Reviewers(q) :
                  key = ReviewKey(q, r) /\ departmentWorkPackages'[q].status = "reviewed"
    <3>1. CASE key = ReviewKey(p, reviewer)
      BY <1>1, <1>5, <2>2, <3>1
    <3>2. CASE key # ReviewKey(p, reviewer)
      <4>1. PICK q \in DOMAIN responseInputs : \E r \in Reviewers(q) :
              key = ReviewKey(q, r) /\ departmentWorkPackages[q].status = "reviewed"
        BY <1>0, <1>1, <3>2 DEF ResponsesAgree
      <4>2. departmentWorkPackages'[q].status = "reviewed"
        BY <1>0, <2>2, <1>2, <4>1 DEF ResponsesAgree, Replaced
      <4> QED BY <1>1, <4>1, <4>2
    <3> QED BY <3>1, <3>2
  <2> QED BY <1>1, <1>5, <2>1, <2>2, <2>3, <2>4 DEF ResponsesAgree
<1>9. BriefsAgree' /\ participation' = participationResult'
  BY <1>0, <1>1 DEF BriefsAgree
<1>10. BriefOK'
  <2>1. CASE reviewedCitizenBrief = None
    BY <1>1, <2>1 DEF BriefOK
  <2>2. CASE reviewedCitizenBrief # None
    <3>1. new = departmentWorkPackages[p]
      BY <1>0, <1>3, <1>6, <2>2 DEF BriefOK, Response
    <3>2. /\ DOMAIN departmentWorkPackages' = DOMAIN departmentWorkPackages
          /\ \A q \in DOMAIN departmentWorkPackages : departmentWorkPackages'[q] = departmentWorkPackages[q]
      BY <1>2, <3>1 DEF Replaced
    <3> QED BY <1>0, <1>1, <3>2, SamePackages
  <2> QED BY <2>1, <2>2
<1> QED BY <1>1, <1>7, <1>8, <1>9, <1>10, OfficesJoined

\* The citations of the responses are citations of answers.
LEMMA CitationsTyped ==
    ASSUME PackagesOK
    PROVE  CurrentCitations \in SUBSET UNION {Citations[a] : a \in Answers}
<1>1. \A p \in DOMAIN departmentWorkPackages :
        departmentWorkPackages[p] # NoResponse => departmentWorkPackages[p].answer \in Answers
  BY DEF PackagesOK, Response
<1> QED BY <1>1 DEF CurrentCitations

LEMMA PublishReviewedBriefStep ==
    ASSUME OfficesInv, NEW publisher \in WithRole("publisher"), NEW summary \in Summaries,
           PublishReviewedBriefRequest(publisher, summary)
    PROVE  OfficesInv' /\ UNCHANGED discussions
<1>0. /\ OfficesType /\ PackagesOK /\ AuthorsOK /\ ResponsesAgree /\ BriefsAgree
      /\ participation = participationResult /\ BriefOK
  BY OfficesParts
<1>1. /\ UNCHANGED <<discussions, suggestions, departmentWorkPackages, shadowed, responseAuthors, participationResult>>
      /\ UNCHANGED <<responseInputs, responseReviews, participation>>
  BY DEF PublishReviewedBriefRequest, PublishReviewedCitizenBrief
<1>2. PICK brief, citations :
        /\ citations = CurrentCitations
        /\ brief = [summary |-> summary, citations |-> citations, publishedBy |-> publisher]
        /\ reviewedCitizenBrief' = brief
        /\ publishedBrief' = [summary |-> summary, publisherId |-> publisher]
  BY DEF PublishReviewedBriefRequest, PublishReviewedCitizenBrief, Actor
<1>3. publisher \in DOMAIN Registry /\ citations \in SUBSET UNION {Citations[a] : a \in Answers}
  BY <1>0, <1>2, CitationsTyped DEF WithRole
<1>4. reviewedCitizenBrief' # None /\ publishedBrief' # None
  BY <1>2, <1>3, OutcomeAssumption
<1>5. BriefsAgree'
  BY <1>2, <1>4 DEF BriefsAgree
<1>6. BriefOK'
  <2>1. /\ Cardinality(DOMAIN departmentWorkPackages) = Cardinality(Departments)
        /\ \A p \in DOMAIN departmentWorkPackages : departmentWorkPackages[p].status = "reviewed"
    BY DEF PublishReviewedBriefRequest, PublishReviewedCitizenBrief, AllResponsesReviewed
  <2>2. ReviewedPackages' = DOMAIN departmentWorkPackages
    BY <1>1, <2>1 DEF ReviewedPackages
  <2>3. CurrentCitations' = citations
    BY <1>1, <1>2 DEF CurrentCitations
  <2>4. reviewedCitizenBrief'.citations = CurrentCitations'
    BY <1>2, <2>3
  <2>5. Cardinality(ReviewedPackages)' = Cardinality(Departments)
    BY <2>1, <2>2
  <2> QED BY <1>1, <2>1, <2>4, <2>5 DEF BriefOK
<1>7. OfficesType' /\ PackagesOK' /\ AuthorsOK' /\ ResponsesAgree' /\ participation' = participationResult'
  BY <1>0, <1>1 DEF OfficesType, PackagesOK, AuthorsOK, ResponsesAgree, StandsAlone
<1> QED BY <1>1, <1>5, <1>6, <1>7, OfficesJoined

LEMMA ParticipationStep ==
    ASSUME OfficesInv, NEW reviewer, NEW result \in Results,
           RecordReviewedParticipationRequest(reviewer, result)
    PROVE  OfficesInv' /\ UNCHANGED discussions
<1>0. /\ OfficesType /\ PackagesOK /\ AuthorsOK /\ ResponsesAgree /\ BriefsAgree /\ BriefOK
  BY OfficesParts
<1>1. /\ UNCHANGED <<discussions, suggestions, departmentWorkPackages, shadowed, responseAuthors, reviewedCitizenBrief>>
      /\ UNCHANGED <<responseInputs, responseReviews, publishedBrief>>
      /\ participation' = result /\ participationResult' = result
  BY DEF RecordReviewedParticipationRequest, RecordParticipationResult
<1>2. BriefOK'
  BY <1>0, <1>1, SamePackages
<1>3. OfficesType' /\ PackagesOK' /\ AuthorsOK' /\ ResponsesAgree' /\ BriefsAgree'
  BY <1>0, <1>1 DEF OfficesType, PackagesOK, AuthorsOK, ResponsesAgree, BriefsAgree, StandsAlone
<1> QED BY <1>1, <1>2, <1>3, OfficesJoined

LEMMA RequestStepKeeps ==
    ASSUME OfficesInv, IngestInv, RequestStep
    PROVE  OfficesInv' /\ UNCHANGED discussions
<1>1. budget.suggestions \subseteq Suggestions
  BY DEF IngestInv, Budget
<1>2. CASE \E citizen \in WithRole("citizen"), id \in budget.suggestions, discussionId \in DOMAIN discussions :
              CraftSuggestionRequest(citizen, id, discussionId, id)
  BY <1>1, <1>2, CraftSuggestionStep
<1>3. CASE \E steward \in WithRole("case_steward"), id \in Suggestions : SubmitSuggestionRequest(steward, id)
  BY <1>3, SubmitSuggestionStep
<1>4. CASE \E agent \in WithRole("department_agent"), p \in DOMAIN departmentWorkPackages, answer \in Answers :
              DepartmentResponseRequest(agent, p, answer)
  BY <1>4, DepartmentResponseStep
<1>5. CASE \E reviewer \in WithRole("department_reviewer"), p \in DOMAIN departmentWorkPackages :
              DepartmentReviewRequest(reviewer, p)
  BY <1>5, DepartmentReviewStep
<1>6. CASE \E publisher \in WithRole("publisher"), summary \in Summaries :
              PublishReviewedBriefRequest(publisher, summary)
  BY <1>6, PublishReviewedBriefStep
<1>7. CASE \E reviewer \in WithRole("participation_reviewer"), result \in Results :
              RecordReviewedParticipationRequest(reviewer, result)
  BY <1>7, ParticipationStep
<1> QED BY <1>2, <1>3, <1>4, <1>5, <1>6, <1>7 DEF RequestStep

LEMMA IngestStepKeeps ==
    ASSUME OfficesInv, IngestInv, IngestStep, UNCHANGED ledgerVars
    PROVE  OfficesInv' /\ IngestInv'
<1>1. CASE UNCHANGED kernelVars /\ ~(\E c \in Calls : QueryAnswered(c))
  <2>1. OfficesInv'
    BY <1>1, OfficesFrame DEF OfficeVars, kernelVars
  <2>2. IngestInv'
    BY <1>1, IngestDiscussionStep, RelayStoresStep, PublishAckedStep, FailedStep, ElsewhereStep DEF IngestStep
  <2> QED BY <2>1, <2>2
<1>2. ASSUME NEW c \in Calls, QueryAnswered(c)
      PROVE  OfficesInv' /\ IngestInv'
  BY <1>2, QueryAnsweredStep, OfficesFrame DEF OfficeVars
<1> QED BY <1>1, <1>2 DEF IngestStep

\* What the relay's side holds does not change.
LEMMA IngestFrame ==
    ASSUME IngestInv, UNCHANGED <<discussions, relayVars>>
    PROVE  IngestInv'
<1>1. SeenOK' /\ ReceiptsOK' /\ RefusalsOK'
  BY HeldFrame DEF IngestInv, relayVars, HeldVars
<1>2. RelayOK' /\ PublishedOK' /\ CallsOK' /\ budget' \in Budget
  BY DEF IngestInv, relayVars, RelayOK, PublishedOK, CallsOK
<1> QED BY <1>1, <1>2 DEF IngestInv

LEMMA InitIInv == Init => IInv
<1> SUFFICES ASSUME Init
             PROVE  IInv
  OBVIOUS
<1>1. DOMAIN Empty = {}
  BY DEF Empty
<1>2. OfficesInv
  BY <1>1 DEF Init, KernelInit, OfficesInv, PackagesOK, AuthorsOK, LedgersAgree, BriefOK
<1>3. IngestInv
  BY <1>1, WorkloadAssumption DEF Init, KernelInit, IngestInv, RelayOK, PublishedOK, CallsOK, CallOK, SeenOK,
                                  ReceiptsOK, RefusalsOK
<1>4. AsksInv
  BY DEF Init, AsksInv, AskOK, NoCall
<1> QED BY <1>2, <1>3, <1>4 DEF IInv

LEMMA NextIInv == IInv /\ [Next]_vars => IInv'
<1> SUFFICES ASSUME OfficesInv, IngestInv, AsksInv, [Next]_vars
             PROVE  OfficesInv' /\ IngestInv' /\ AsksInv'
  BY DEF IInv
<1>1. CASE IngestStep /\ UNCHANGED <<ledgerVars, asks>>
  <2>1. AsksInv'
    BY <1>1 DEF AsksInv
  <2> QED BY <1>1, <2>1, IngestStepKeeps
<1>2. CASE RequestStep /\ UNCHANGED <<relayVars, asks>>
  <2>1. AsksInv'
    BY <1>2 DEF AsksInv
  <2>2. OfficesInv' /\ UNCHANGED discussions
    BY <1>2, RequestStepKeeps
  <2> QED BY <1>2, <2>1, <2>2, IngestFrame
<1>3. CASE AskStep /\ UNCHANGED <<kernelVars, ledgerVars, relayVars>>
  <2>1. UNCHANGED OfficeVars /\ UNCHANGED <<discussions, relayVars>>
    BY <1>3 DEF OfficeVars, kernelVars
  <2> QED BY <1>3, <2>1, AskStepKeeps, OfficesFrame, IngestFrame
<1>4. CASE UNCHANGED vars
  <2>1. UNCHANGED OfficeVars /\ UNCHANGED <<discussions, relayVars>> /\ UNCHANGED asks
    BY <1>4 DEF vars, OfficeVars, kernelVars
  <2>2. AsksInv'
    BY <2>1 DEF AsksInv
  <2> QED BY <2>1, <2>2, OfficesFrame, IngestFrame
<1> QED BY <1>1, <1>2, <1>3, <1>4 DEF Next

LEMMA Invariant == Spec => []IInv
  BY InitIInv, NextIInv, PTL DEF Spec

-----------------------------------------------------------------------------
\* The control plane and its kernel keep their types.
THEOREM TypeCorrect == Spec => []TypeOK
<1>1. ASSUME IInv
      PROVE  TypeOK
  <2>1. OfficesType /\ ResponsesAgree
    BY <1>1, OfficesParts DEF IInv
  <2>2. responseReviews \subseteq {ReviewKey(p, r) : p \in DOMAIN departmentWorkPackages,
                                                   r \in WithRole("department_reviewer")}
    BY <2>1, ReviewersRegistered DEF ResponsesAgree
  <2> QED BY <1>1, <2>1, <2>2 DEF IInv, OfficesType, IngestInv, AsksInv, AskOK, Budget, PublishedOK, Held, TypeOK
<1> QED BY <1>1, Invariant, PTL

\* The ledgers by which the control plane answers a repeated request and the
\* kernel's maps never disagree, whatever is replaced, reviewed and published
\* in between and however ids run into one another: a key in the ledger is of
\* a reviewed package, and a package that stands alone has its key there
\* exactly while it is reviewed.
THEOREM LedgersNeverDisagree == Spec => []LedgersAgree
<1>1. IInv => LedgersAgree
  BY DEF IInv, OfficesInv
<1> QED BY <1>1, Invariant, PTL

\* A published brief rests on reviewed responses that have not changed since,
\* one for every department, with any number of suggestions submitted later.
THEOREM BriefsRest == Spec => []BriefRestsOnReviewed
<1>1. IInv => BriefRestsOnReviewed
  BY DEF IInv, OfficesInv, BriefOK, BriefRestsOnReviewed, CouncilDryRunBrief, ReviewedPackages
<1> QED BY <1>1, Invariant, PTL

\* With any number of calls, signatures and losses, a receipt is of the
\* artifact that the case holds, and what the transport let through is refused
\* later only for one of the causes, an impossible time among them, and never
\* by the kernel.
THEOREM IngestStaysHonest == Spec => []IngestIsHonest
<1>1. ASSUME IInv
      PROVE  IngestIsHonest
  <2>1. SeenOK /\ ReceiptsOK /\ RefusalsOK
    BY <1>1 DEF IInv, IngestInv
  <2>2. ReceiptsAgree
    <3> SUFFICES ASSUME NEW artifact \in receipts
                 PROVE  /\ seen[artifact.id] = artifact
                        /\ artifact.id \in DOMAIN discussions
                        /\ discussions[artifact.id].provenance = Provenance(artifact)
      BY DEF ReceiptsAgree
    <3>1. artifact.id \in DOMAIN seen /\ seen[artifact.id] = artifact
      BY <2>1 DEF ReceiptsOK
    <3>2. /\ ArtifactUnder(artifact, artifact.id)
          /\ artifact.id \in DOMAIN discussions /\ discussions[artifact.id] = Discussion(artifact)
      BY <2>1, <3>1 DEF SeenOK
    <3>3. Discussion(artifact).provenance = Provenance(artifact)
      BY <3>2, HeldArtifact
    <3> QED BY <3>1, <3>2, <3>3
  <2>3. RefusedLateForCause
    BY <2>1 DEF RefusalsOK, Caused, RefusedLateForCause
  <2> QED BY <2>2, <2>3 DEF IngestIsHonest
<1> QED BY <1>1, Invariant, PTL

\* With any number of questions under way and any mixture of a worker's
\* answers, an accepted answer is to the question asked, from the asker's view.
THEOREM AnswersKeep == Spec => []AnswersKeepToTheirQuestion
<1>1. IInv => AnswersKeepToTheirQuestion
  BY DEF IInv, AsksInv, AskOK, AnswersKeepToTheirQuestion
<1> QED BY <1>1, Invariant, PTL
=============================================================================
