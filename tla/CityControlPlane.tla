--------------------------- MODULE CityControlPlane ---------------------------
(***************************************************************************)
(* The one-city control plane of src/src/city-control-plane.ts over        *)
(* CivicKernel.  It keeps ledgers of its own, next to the kernel's maps,   *)
(* by which it answers a repeated request without a second dispatch.  Most *)
(* requests run to the end at once; two wait: ingestDiscussion for the     *)
(* relay, through the transport of                                         *)
(* src/src/adapters/nostr-relay-transport.ts with its cache of published   *)
(* events, and askCompanion for a worker, through CompanionHarness.        *)
(*                                                                         *)
(* A request that throws before it has changed anything is not a step.     *)
(* The relay, the worker and the people are the environment.  The relay    *)
(* holds one event per id, the first it was sent by anyone; it may lose    *)
(* an event, its acknowledgement or its answer.                            *)
(***************************************************************************)
EXTENDS CivicKernel, CompanionHarness

CONSTANTS
    Events,          \* events that citizens may sign and send
    RelayRefs,       \* sets of relay references a request may name
    Suggestions,     \* suggestion ids
    Summaries,       \* texts of a brief
    Results,         \* participation results
    Calls,           \* requests of ingestDiscussion that may be under way
    Questions,       \* the open questions: id -> [actor, profile, session, limits]
    WorkerAnswers,   \* what a worker may answer
    Workloads        \* bounds on what happens in one behaviour: [events, ingests,
                     \* losses, suggestions, questions]

VARIABLES
    responseInputs, responseReviews, publishedBrief, participation,   \* the ledgers;
                   \* responseReviews holds keys, in parts
    published,     \* the transport's cache: id -> event
    relay,         \* what the relay holds: id -> event
    seen,          \* the discussion adapter's artifacts: id -> artifact
    ingests,       \* the calls of ingestDiscussion
    receipts,      \* history: the artifacts of the receipts given
    refusals,      \* history: events published whose call was refused then
    budget,        \* what is left of the workload
    asks           \* the calls of askCompanion

ledgerVars == <<responseInputs, responseReviews, publishedBrief, participation>>
relayVars == <<published, relay, seen, ingests, receipts, refusals, budget>>
vars == <<kernelVars, ledgerVars, relayVars, asks>>

Actor(id) == [id |-> id, role |-> Registry[id].role, department |-> Registry[id].department]
WithRole(role) == {id \in DOMAIN Registry : Registry[id].role = role}

\* normalizeConfig: each department has one agent and one reviewer.
ValidCityConfig ==
    \A d \in Departments, role \in DepartmentRoles :
       Cardinality({id \in WithRole(role) : Registry[id].department = d}) = 1

ASSUME CityAssumption == ValidCityConfig

\* An id has at least one part.
ASSUME PartsAssumption ==
    \A id \in Suggestions \cup Departments \cup DOMAIN Registry :
       Parts[id] \in Seq(STRING) /\ Parts[id] # <<>>

\* An id is a hash: two verified events of one id differ in no field but the
\* signature, and what has a signature that verifies has one.
ASSUME EventAssumption ==
    /\ \A e \in Events :
          /\ e = [id |-> e.id, sig |-> e.sig, signer |-> e.signer, kind |-> e.kind,
                  createdAt |-> e.createdAt, tags |-> e.tags, content |-> e.content,
                  verified |-> e.verified]
          /\ e.verified => e.sig # Blank
    /\ \A e, f \in Events : e.verified /\ f.verified /\ e.id = f.id =>
          /\ e.signer = f.signer /\ e.kind = f.kind /\ e.createdAt = f.createdAt
          /\ e.tags = f.tags /\ e.content = f.content

\* None and Refused are not what a function returns that succeeds.
ASSUME OutcomeAssumption ==
    /\ None \notin [summary : Summaries, publisherId : DOMAIN Registry]
    /\ None \notin [summary : Summaries, citations : SUBSET UNION {Citations[a] : a \in Answers},
                     publishedBy : DOMAIN Registry]
    /\ \A event \in Events, refs \in RelayRefs :
          LET artifact == ArtifactOf(event, refs \cup RelayRefsFromTags(event.tags))
          IN  Refused \notin {artifact, ProvenanceOf(artifact)}

Budget == [events : SUBSET Events, ingests : Nat, losses : Nat, suggestions : SUBSET Suggestions,
           questions : SUBSET DOMAIN Questions]
ASSUME WorkloadAssumption == Workloads \subseteq Budget

NoCall == [stage |-> "idle"]

Init ==
    /\ KernelInit
    /\ responseInputs = Empty /\ responseReviews = {} /\ publishedBrief = None /\ participation = None
    /\ published = Empty /\ relay = Empty /\ seen = Empty
    /\ ingests = [c \in Calls |-> NoCall]
    /\ receipts = {} /\ refusals = {} /\ budget \in Workloads
    /\ asks = [q \in DOMAIN Questions |-> NoCall]

-----------------------------------------------------------------------------
(* ingestDiscussion and the relay                                          *)

EndIngest(c) == ingests' = [ingests EXCEPT ![c] = NoCall]
Proceed(c, stage) == ingests' = [ingests EXCEPT ![c].stage = stage]
Refuse(c, why) ==
    /\ EndIngest(c)
    /\ refusals' = refusals \cup {[why |-> why, event |-> ingests[c].event, refs |-> ingests[c].refs]}
Lose == budget.losses > 0 /\ budget' = [budget EXCEPT !.losses = @ - 1]

\* Up to the first await: a published event is only queried again, and
\* another event of its id is refused.
IngestDiscussion(c, citizen, event, refs) ==
    /\ ingests[c] = NoCall /\ budget.ingests > 0
    /\ ValidateSignedEvent(event)
    /\ event.id \in DOMAIN published => published[event.id] = event
    /\ ingests' = [ingests EXCEPT ![c] =
          [stage |-> IF event.id \in DOMAIN published THEN "querying" ELSE "publishing",
           citizen |-> citizen, event |-> event, refs |-> refs]]
    /\ budget' = [budget EXCEPT !.ingests = @ - 1]
    /\ UNCHANGED <<published, relay, seen, receipts, refusals>>

\* The relay keeps the first event of an id.
Store(event) == relay' = IF event.id \in DOMAIN relay THEN relay ELSE Extend(relay, event.id, event)

RelayStores(c) ==
    /\ ingests[c].stage = "publishing"
    /\ Store(ingests[c].event)
    /\ Proceed(c, "acking")
    /\ UNCHANGED <<published, seen, receipts, refusals, budget>>

\* publish after its await: assertExplicitOk, then the cache.  The query
\* goes out at once.
PublishAcked(c) ==
    /\ ingests[c].stage = "acking"
    /\ published' = Extend(published, ingests[c].event.id, ingests[c].event)
    /\ Proceed(c, "querying")
    /\ UNCHANGED <<relay, seen, receipts, refusals, budget>>

\* The client fails, or what it answers is not an explicit OK.
PublishFails(c) ==
    /\ ingests[c].stage \in {"publishing", "acking"}
    /\ Lose
    /\ EndIngest(c)
    /\ UNCHANGED <<published, relay, seen, receipts, refusals>>

\* query after its await, for the one event the relay returns.
Returned(c, event) ==
    /\ ValidateSignedEvent(event)
    /\ event.id = ingests[c].event.id
    /\ event.id \in DOMAIN published => published[event.id] = event

\* What the kernel is given of an artifact.
Discussion(artifact) ==
    [id |-> artifact.id, content |-> artifact.event.content,
     signature |-> artifact.proof.signature, provenance |-> Provenance(artifact)]

\* The rest of ingestDiscussion: the adapter, the kernel, the receipt.
Record(c, event) ==
    LET artifact == Artifact(event, ingests[c].refs)
        discussion == Discussion(artifact)
    IN  IF ~Normalizes(seen, artifact)
        THEN /\ Refuse(c, IF artifact = Refused THEN "artifact" ELSE "duplicate_conflict")
             /\ UNCHANGED <<kernelVars, seen, receipts>>
        ELSE /\ seen' = Remember(seen, artifact)
             /\ IF MayRecordDiscussion(Actor(ingests[c].citizen), discussion)
                THEN /\ RecordDiscussion(Actor(ingests[c].citizen), discussion)
                     /\ receipts' = receipts \cup {artifact}
                     /\ EndIngest(c)
                     /\ UNCHANGED refusals
                ELSE Refuse(c, "kernel") /\ UNCHANGED <<kernelVars, receipts>>

QueryAnswered(c) ==
    /\ ingests[c].stage = "querying"
    /\ IF ingests[c].event.id \notin DOMAIN relay
       THEN Refuse(c, "event_missing") /\ UNCHANGED <<kernelVars, seen, receipts>>
       ELSE IF Returned(c, relay[ingests[c].event.id])
       THEN Record(c, relay[ingests[c].event.id])
       ELSE Refuse(c, "event_conflict") /\ UNCHANGED <<kernelVars, seen, receipts>>
    /\ UNCHANGED <<published, relay, budget>>

\* The client fails, or answers without EOSE or with other events.
QueryFails(c) ==
    /\ ingests[c].stage = "querying"
    /\ Lose
    /\ EndIngest(c)
    /\ UNCHANGED <<published, relay, seen, receipts, refusals>>

\* The relay serves others too, and does not keep events for ever.
PublishedElsewhere(event) ==
    /\ event.verified
    /\ event.id \notin DOMAIN relay
    /\ Store(event)
    /\ Lose
    /\ UNCHANGED <<published, seen, ingests, receipts, refusals>>
RelayForgets(id) ==
    /\ Lose
    /\ relay' = [i \in DOMAIN relay \ {id} |-> relay[i]]
    /\ UNCHANGED <<published, seen, ingests, receipts, refusals>>

-----------------------------------------------------------------------------
(* The requests that run to the end at once                                *)

\* Mutant: the reviews of a replaced answer stay in the ledger.
KeepReviews(p) == responseReviews

ReviewKey(p, reviewer) == PackageId(p) \o Parts[reviewer]

\* Every key that starts with the package's id and a colon, be it a key of
\* this package or of one whose id goes on from there.
DropReviews(p) == {key \in responseReviews : ~IsStrictPrefix(PackageId(p), key)}

CraftSuggestionRequest(citizen, id, discussionId, title) ==
    /\ CraftSuggestion(Actor(citizen), id, discussionId, title)
    /\ UNCHANGED ledgerVars

SubmitSuggestionRequest(steward, id) ==
    /\ SubmitSuggestionForAdministration(Actor(steward), id)
    /\ UNCHANGED ledgerVars

\* The same answer again is replayed; another one takes the review and the
\* brief away before the kernel hears of it.
DepartmentResponseRequest(agent, p, answer) ==
    /\ p \in DOMAIN responseInputs =>
          responseInputs[p].actorId = agent /\ responseInputs[p].answer # answer
    /\ publishedBrief' = None
    /\ responseReviews' = IF p \in DOMAIN responseInputs THEN DropReviews(p) ELSE responseReviews
    /\ RecordDepartmentResponse(Actor(agent), p, answer)
    /\ responseInputs' = Extend(responseInputs, p, [actorId |-> agent, answer |-> answer])
    /\ UNCHANGED participation

DepartmentReviewRequest(reviewer, p) ==
    /\ p \in DOMAIN responseInputs => responseInputs[p].actorId # reviewer
    /\ ReviewKey(p, reviewer) \notin responseReviews
    /\ ReviewDepartmentResponse(Actor(reviewer), p)
    /\ responseReviews' = responseReviews \cup {ReviewKey(p, reviewer)}
    /\ UNCHANGED <<responseInputs, publishedBrief, participation>>

PublishReviewedBriefRequest(publisher, summary) ==
    /\ publishedBrief = None
    /\ PublishReviewedCitizenBrief(Actor(publisher), summary)
    /\ publishedBrief' = [summary |-> summary, publisherId |-> publisher]
    /\ UNCHANGED <<responseInputs, responseReviews, participation>>

\* A retracted result is kept like any other, and the caller is told that
\* it is missing.
RecordReviewedParticipationRequest(reviewer, result) ==
    /\ BriefFor("public") # None
    /\ participation = None
    /\ RecordParticipationResult(Actor(reviewer), result)
    /\ participation' = result
    /\ UNCHANGED <<responseInputs, responseReviews, publishedBrief>>

-----------------------------------------------------------------------------
(* askCompanion                                                            *)

ProfileRoles ==
    [administration |-> {"case_steward", "department_agent", "department_reviewer",
                         "participation_reviewer", "publisher"},
     council |-> {"council_member"}, public |-> {"citizen", "public_viewer"}]

\* The context of a task: the projection, the private fields in it and the
\* references in it.
Context(profile) ==
    LET projection == Project(profile)
        brief == projection.reviewedCitizenBrief
        responses == {r \in Range(projection.departmentWorkPackages) : r # NoResponse}
    IN  [projection |-> projection,
         fields |-> (IF projection.departmentWorkPackages # Empty THEN {"departmentWorkPackages"} ELSE {})
                      \cup (IF brief # None /\ brief.publishedBy # None THEN {"publishedBy"} ELSE {})
                      \cup (IF projection.councilDryRunBrief # None THEN {"councilDryRunBrief"} ELSE {}),
         refs |-> DOMAIN projection.discussions \cup (IF brief = None THEN {} ELSE brief.citations)
                    \cup UNION {Citations[r.answer] : r \in responses}]

AskCompanion(q) ==
    LET question == Questions[q]
        task == PrepareTask(question.profile, q, Context(question.profile))
        request == WorkerTask(task, question.session, question.limits)
    IN  /\ asks[q] = NoCall
        /\ Registry[question.actor].role \in ProfileRoles[question.profile]
        /\ asks' = [asks EXCEPT ![q] =
              IF request = Unusable THEN [stage |-> "failed"]
              ELSE [stage |-> "waiting", request |-> request]]

\* The worker answers, perhaps with the answer to another question.
WorkerReplies(q, other, answer) ==
    LET raw == WorkerResult(asks[other].request, answer) IN
    /\ asks[q].stage = "waiting"
    /\ asks[other].stage \in {"waiting", "answered"}
    /\ asks' = [asks EXCEPT ![q] =
          IF ValidateResult(asks[q].request, raw)
          THEN [stage |-> "answered", request |-> asks[q].request, result |-> raw]
          ELSE [stage |-> "failed"]]

\* timeout: whatever the worker sends later is dropped.
WorkerTimesOut(q) ==
    /\ asks[q].stage = "waiting"
    /\ asks' = [asks EXCEPT ![q] = [stage |-> "failed"]]

-----------------------------------------------------------------------------
IngestStep ==
    \/ /\ \/ \E c \in Calls, citizen \in WithRole("citizen"), event \in budget.events, refs \in RelayRefs :
                IngestDiscussion(c, citizen, event, refs)
          \/ \E c \in Calls : RelayStores(c) \/ PublishAcked(c) \/ PublishFails(c) \/ QueryFails(c)
          \/ \E event \in budget.events : PublishedElsewhere(event)
          \/ \E id \in DOMAIN relay : RelayForgets(id)
       /\ UNCHANGED kernelVars
    \/ \E c \in Calls : QueryAnswered(c)

RequestStep ==
    \/ \E citizen \in WithRole("citizen"), id \in budget.suggestions, discussionId \in DOMAIN discussions :
          CraftSuggestionRequest(citizen, id, discussionId, id)
    \/ \E steward \in WithRole("case_steward"), id \in Suggestions :
          SubmitSuggestionRequest(steward, id)
    \/ \E agent \in WithRole("department_agent"), p \in DOMAIN departmentWorkPackages, answer \in Answers :
          DepartmentResponseRequest(agent, p, answer)
    \/ \E reviewer \in WithRole("department_reviewer"), p \in DOMAIN departmentWorkPackages :
          DepartmentReviewRequest(reviewer, p)
    \/ \E publisher \in WithRole("publisher"), summary \in Summaries :
          PublishReviewedBriefRequest(publisher, summary)
    \/ \E reviewer \in WithRole("participation_reviewer"), result \in Results :
          RecordReviewedParticipationRequest(reviewer, result)

AskStep ==
    \E q \in budget.questions :
       \/ AskCompanion(q)
       \/ \E other \in budget.questions, answer \in WorkerAnswers : WorkerReplies(q, other, answer)
       \/ WorkerTimesOut(q)

Next ==
    \/ IngestStep /\ UNCHANGED <<ledgerVars, asks>>
    \/ RequestStep /\ UNCHANGED <<relayVars, asks>>
    \/ AskStep /\ UNCHANGED <<kernelVars, ledgerVars, relayVars>>

Spec == Init /\ [][Next]_vars

-----------------------------------------------------------------------------
TypeOK ==
    /\ DOMAIN suggestions \subseteq Suggestions
    /\ DOMAIN departmentWorkPackages \subseteq Suggestions \X Departments
    /\ DOMAIN responseAuthors \subseteq DOMAIN departmentWorkPackages
    /\ participationResult \in Results \cup {None}
    /\ shadowed \subseteq DOMAIN departmentWorkPackages
    /\ responseReviews \subseteq {ReviewKey(p, r) : p \in DOMAIN departmentWorkPackages,
                                                  r \in WithRole("department_reviewer")}
    /\ \A id \in DOMAIN published : published[id] \in Events
    /\ budget.ingests \in Nat /\ budget.losses \in Nat
    /\ \A q \in DOMAIN asks : asks[q].stage \in {"idle", "waiting", "answered", "failed"}

\* Whoever may review a package, and the packages that no other answered one
\* can be mistaken for by its id: no other id is the beginning of their keys.
Reviewers(p) == {r \in WithRole("department_reviewer") : Registry[r].department = p[2]}
StandsAlone(p) ==
    \A q \in DOMAIN responseInputs \ {p}, r \in Reviewers(p) :
       ~IsStrictPrefix(PackageId(q), ReviewKey(p, r))

\* The control plane's ledgers and the kernel's maps, which are kept apart,
\* never disagree: a replayed request gets the answer that the kernel's
\* state would give, in particular no request is taken for a replay of one
\* whose effect was since taken back.  With ids that run into one another the
\* reviews agree only in this: what the ledger holds is the key of a package
\* that the kernel has as reviewed.
LedgersAgree ==
    /\ DOMAIN responseInputs = {p \in DOMAIN departmentWorkPackages : departmentWorkPackages[p] # NoResponse}
    /\ \A p \in DOMAIN responseInputs :
          /\ responseInputs[p].answer = departmentWorkPackages[p].answer
          /\ responseInputs[p].actorId = responseAuthors[p]
          /\ StandsAlone(p) => (departmentWorkPackages[p].status = "reviewed"
                                   <=> \E r \in Reviewers(p) : ReviewKey(p, r) \in responseReviews)
    /\ \A key \in responseReviews : \E p \in DOMAIN responseInputs : \E r \in Reviewers(p) :
          key = ReviewKey(p, r) /\ departmentWorkPackages[p].status = "reviewed"
    /\ publishedBrief = None <=> reviewedCitizenBrief = None
    /\ publishedBrief # None => /\ publishedBrief.summary = reviewedCitizenBrief.summary
                                /\ publishedBrief.publisherId = reviewedCitizenBrief.publishedBy
    /\ participation = participationResult

\* A citizen brief that the public sees rests on every response there is,
\* each of them reviewed and unchanged since: replacing one withdraws the
\* brief, and a suggestion submitted later does not slip under it, nor does
\* the council's dry run count its packages.
BriefRestsOnReviewed ==
    reviewedCitizenBrief # None =>
       /\ reviewedCitizenBrief.citations = CurrentCitations
       /\ \A p \in DOMAIN departmentWorkPackages : departmentWorkPackages[p].status # "pending_review"
       /\ CouncilDryRunBrief # None =>
             CouncilDryRunBrief.reviewedDepartmentResponseCount = Cardinality(Departments)

\* Two receipts for one event are for the same artifact, the one that the
\* case holds: not even two calls that publish two signatures of one event
\* at once, or a relay that returns the other one, get past it.
ReceiptsAgree ==
    \A artifact \in receipts :
       /\ seen[artifact.id] = artifact
       /\ artifact.id \in DOMAIN discussions
       /\ discussions[artifact.id].provenance = Provenance(artifact)

\* What the transport lets through to the relay, the adapter and the kernel
\* take too.  An event is refused after it was published only when its time
\* is negative or no integer, when it is blank, has an empty tag or names a
\* relay that is none, when the relay lost it, when it was signed twice, or
\* when the adapter has it with other relay references.
RefusedLateForCause ==
    \A refusal \in refusals :
       /\ refusal.why # "kernel"
       /\ refusal.why = "artifact" =>
             \/ refusal.event.createdAt \notin Timestamps
             \/ refusal.event.content = Blank
             \/ \E i \in 1..Len(refusal.event.tags) : refusal.event.tags[i] = <<>>
             \/ ~((refusal.refs \cup RelayRefsFromTags(refusal.event.tags)) \subseteq WebSocketUrls)
       /\ refusal.why \in {"event_conflict", "duplicate_conflict"} =>
             \/ \E event \in Events : event.id = refusal.event.id /\ event.sig # refusal.event.sig
             \/ /\ refusal.why = "duplicate_conflict"
                /\ seen[refusal.event.id].event.relayRefs
                      # refusal.refs \cup RelayRefsFromTags(refusal.event.tags)

\* Whatever two calls, two signatures and a losing relay do to one another, a
\* receipt is of what the case holds and a late refusal has its cause.
IngestIsHonest == ReceiptsAgree /\ RefusedLateForCause

\* An accepted answer of a worker is the answer to the question asked, from
\* the asker's own view of the case, even when the worker mixes questions
\* up.
AnswersKeepToTheirQuestion ==
    \A q \in DOMAIN Questions : asks[q].stage = "answered" =>
       /\ asks[q].result.taskId = asks[q].request.taskId
       /\ asks[q].request.question = q
       /\ RoleScoped(Questions[q].profile, asks[q].result.context.fields)
       /\ Registry[Questions[q].actor].role \in ProfileRoles[asks[q].result.profile]
=============================================================================
