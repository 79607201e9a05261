------------------------- MODULE AdministrationReview -------------------------
(***************************************************************************)
(* The review of a synthetic case over HTTP: the server of                 *)
(* src/src/administration-review-server.ts, which answers a bounded number *)
(* of requests at a time; respond of                                       *)
(* src/src/administration-review-service.ts, which awaits a view of the    *)
(* case and then awaits one method of CaseContinuation; and the grants of  *)
(* src/src/staging-administration-authenticator.ts, which both awaits look *)
(* up and which run out.                                                   *)
(*                                                                         *)
(* The browsers are the environment.  A session is a browser tab with one  *)
(* actor's token.  It sends a request with the version of any view it may  *)
(* have loaded, however old, gets the reply or loses it, and may repeat a  *)
(* request word for word when the reply was lost.                          *)
(***************************************************************************)
EXTENDS CaseContinuation

CONSTANTS
    Sessions,        \* browser tabs
    SessionActor,    \* the actor whose grant a tab holds
    ActiveLimit,     \* requests the server answers at a time, 8 in the code
    MaxOpen,         \* bound on the tabs that have a request out
    MaxLag,          \* bound on how many versions old a browser's view is
    MayExpire        \* sessions whose grant may run out

VARIABLES
    call,       \* per session, its request and how far the server is with it
    active,     \* the server's count of requests under way
    expired,    \* sessions whose grant has run out
    previews    \* the previews of a brief that the steward was shown

vars == <<options, journal, replayed, idempotency, commands, call, active, expired, previews>>

NoRequest == [op |-> "none"]
NoView == [caseVersion |-> 0, departmentPackages |-> {}]
Idle == [stage |-> "idle", request |-> NoRequest, view |-> NoView, reply |-> Refusal("none")]

Init ==
    /\ AdmittedCase(TRUE)
    /\ call = [s \in Sessions |-> Idle]
    /\ active = 0
    /\ expired = {}
    /\ previews = {}

\* The operations a body may name, each with its payload.
AssignRequest(v) == [op : {"assign"}, expected : v,
                     package : {[id |-> p, departmentId |-> d, assignedAgentActorId |-> Agent[d],
                                 assignedReviewerActorId |-> Reviewer[d]] :
                                   p \in PackageIds, d \in Departments}]
DraftRequest(v) == [op : {"draft"}, expected : v, packageId : PackageIds, draft : Drafts]
ReviewRequest(v) == [op : {"review"}, expected : v, packageId : PackageIds, draft : Drafts,
                     decision : Decisions]
PrepareRequest(v) == [op : {"prepare_brief"}, expected : v, briefId : BriefIds]
ApplyRequest(v) == [op : {"apply_brief"}, expected : v, briefId : BriefIds,
                    preparation : {shown.preparation : shown \in previews}]

\* The requests a browser offers its actor.
Requests(actor, v) ==
    IF actor = Steward THEN AssignRequest(v) \cup PrepareRequest(v) \cup ApplyRequest(v)
    ELSE IF DepartmentsOf(actor, Agent) # {} THEN DraftRequest(v)
    ELSE ReviewRequest(v)

-----------------------------------------------------------------------------
\* The server takes a request, or refuses it when too many are under way.
Arrive(s, request) ==
    IF active >= ActiveLimit
    THEN /\ call' = [call EXCEPT ![s] = [Idle EXCEPT !.stage = "answered", !.request = request,
                                                     !.reply = Refusal("unavailable")]]
         /\ UNCHANGED active
    ELSE /\ call' = [call EXCEPT ![s] = [Idle EXCEPT !.stage = "reading", !.request = request]]
         /\ active' = active + 1

\* The versions a tab may have loaded.
Loaded == {v \in 3..Len(journal) : Len(journal) <= v + MaxLag}

Open == {s \in Sessions : call[s].stage # "idle"}

Send(s) ==
    /\ call[s].stage = "idle"
    /\ Cardinality(Open) < MaxOpen
    /\ \E request \in Requests(SessionActor[s], Loaded) : Arrive(s, request)
    /\ UNCHANGED <<caseVars, expired, previews>>

\* After a lost reply: the same request again.
Resend(s) ==
    /\ call[s].stage = "lost"
    /\ Arrive(s, call[s].request)
    /\ UNCHANGED <<caseVars, expired, previews>>

\* send, reject and the finally of the request handler.
Answer(s, reply) ==
    /\ call' = [call EXCEPT ![s].stage = "answered", ![s].reply = reply]
    /\ active' = active - 1

\* readBody times out, or the body is not what its length says.
BodyFails(s) ==
    /\ call[s].stage = "reading"
    /\ Answer(s, Refusal("request_invalid"))
    /\ UNCHANGED <<caseVars, expired, previews>>

\* authenticate looks the token up among the grants that are in force.
Authenticated(s) == s \notin expired

\* respond up to and past its first await: the view of the case.  Preparing
\* and applying go on only if it is the view the browser had.
ViewCase(s) ==
    LET request == call[s].request
        view == AdministrationView(SessionActor[s])
    IN
    /\ call[s].stage = "reading"
    /\ IF ~Authenticated(s) THEN Answer(s, Refusal("authentication_required"))
       ELSE IF ~MayView(SessionActor[s]) THEN Answer(s, Refusal("forbidden"))
       ELSE IF request.op \in {"prepare_brief", "apply_brief"} /\ view.caseVersion # request.expected
       THEN Answer(s, Refusal("conflict"))
       ELSE /\ call' = [call EXCEPT ![s].stage = "viewed", ![s].view = view]
            /\ UNCHANGED active
    /\ UNCHANGED <<caseVars, expired, previews>>

\* What a preview shows: the accepted answers of the view it was made from.
Preview(view) ==
    {[packageId |-> k.packageId, draft |-> k.draft] :
       k \in {k \in view.departmentPackages :
                k.reviewState = "accepted" /\ k.correctionState = "current"}}

\* The operation prepare_brief: the preview is made from the view and sealed
\* with the checksum of a preparation made after another await.
PrepareBrief(s) ==
    LET request == call[s].request IN
    IF SessionActor[s] # Steward THEN Answer(s, Refusal("forbidden")) /\ UNCHANGED previews
    ELSE IF ~MayPrepare \/ CitizenBriefReadiness.caseVersion # call[s].view.caseVersion
    THEN Answer(s, Refusal("conflict")) /\ UNCHANGED previews
    ELSE /\ Answer(s, Receipt(call[s].view.caseVersion))
         /\ previews' = previews \cup
              {[briefId |-> request.briefId, shown |-> Preview(call[s].view),
                preparation |-> CitizenBriefDerivation(request.briefId)]}

\* The second await authenticates the caller again.
AuthenticatedAgain(s) == Authenticated(s)

\* respond past its second await: the method of the continuation.
Operate(s) ==
    LET request == call[s].request
        actor == SessionActor[s]
    IN
    /\ call[s].stage = "viewed"
    /\ IF ~AuthenticatedAgain(s)
       THEN Answer(s, Refusal("authentication_required")) /\ UNCHANGED <<caseVars, previews>>
       ELSE IF request.op = "prepare_brief"
       THEN PrepareBrief(s) /\ UNCHANGED caseVars
       ELSE /\ \E reply \in Replies :
                 /\ \/ /\ request.op = "assign"
                       /\ AssignDepartmentPackage(actor, request.expected, request.package, reply)
                    \/ /\ request.op = "draft"
                       /\ RecordDepartmentDraft(actor, request.expected, request.packageId,
                                                request.draft, reply)
                    \/ /\ request.op = "review"
                       /\ AttestDepartmentReview(actor, request.expected, request.packageId,
                                                 request.draft, request.decision, reply)
                    \/ /\ request.op = "apply_brief"
                       /\ ApplyCitizenBrief(actor, request.briefId, request.preparation, reply)
                 /\ Answer(s, reply)
            /\ UNCHANGED previews
    /\ UNCHANGED expired

-----------------------------------------------------------------------------
\* The environment: replies arrive or get lost, and grants run out.
Deliver(s) ==
    /\ call[s].stage = "answered"
    /\ call' = [call EXCEPT ![s] = Idle]
    /\ UNCHANGED <<caseVars, active, expired, previews>>

Lose(s) ==
    /\ call[s].stage = "answered"
    /\ call' = [call EXCEPT ![s].stage = "lost", ![s].reply = Refusal("none"), ![s].view = NoView]
    /\ UNCHANGED <<caseVars, active, expired, previews>>

Reload(s) ==
    /\ call[s].stage = "lost"
    /\ call' = [call EXCEPT ![s] = Idle]
    /\ UNCHANGED <<caseVars, active, expired, previews>>

Expire(s) ==
    /\ s \in MayExpire \ expired
    /\ expired' = expired \cup {s}
    /\ UNCHANGED <<caseVars, call, active, previews>>

Next ==
    \E s \in Sessions :
      \/ Send(s)
      \/ Resend(s)
      \/ BodyFails(s)
      \/ ViewCase(s)
      \/ Operate(s)
      \/ Deliver(s)
      \/ Lose(s)
      \/ Reload(s)
      \/ Expire(s)

Spec == Init /\ [][Next]_vars

-----------------------------------------------------------------------------
Stages == {"idle", "reading", "viewed", "answered", "lost"}
Codes == {"none", "ok", "conflict", "forbidden", "authentication_required",
          "request_invalid", "unavailable"}

\* Type invariant: the server's count is the number of requests it holds, and
\* never more than its limit.
TypeOK ==
    /\ replayed.valid
    /\ \A s \in Sessions : call[s].stage \in Stages /\ call[s].reply.code \in Codes
    /\ active = Cardinality({s \in Sessions : call[s].stage \in {"reading", "viewed"}})
    /\ active <= ActiveLimit
    /\ expired \subseteq MayExpire

\* Citizens read a brief only under the id, and with the answers, of a preview
\* that the steward was shown, however many tabs prepare and apply; and every
\* preview shows what the preparation it is sealed with would publish, although
\* the view and the preparation are read on either side of an await.
PublishedWasPreviewed ==
    /\ SyntheticCitizenBriefReturn.status = "current" =>
         \E shown \in previews :
           /\ shown.briefId = SyntheticCitizenBriefReturn.id
           /\ shown.shown = SyntheticCitizenBriefReturn.responses
    /\ \A shown \in previews :
         shown.shown = {[packageId |-> b.packageId, draft |-> b.draft] :
                          b \in shown.preparation.sourceBindings}

\* A receipt is the receipt of that very request, from this or from an
\* earlier attempt: no retry is answered with another command's receipt, and
\* none appends a second time.
ReceiptsAreTrue ==
    /\ \A s \in Sessions :
         (call[s].reply.code = "ok" /\ call[s].request.op # "prepare_brief") =>
           \E i \in DOMAIN commands :
             /\ idempotency[i].receipt.caseVersion = call[s].reply.caseVersion
             /\ commands[i].actorId = SessionActor[s]
             /\ commands[i].expectedCaseVersion = call[s].request.expected
    /\ \A i, j \in DOMAIN commands : commands[i].key = commands[j].key => i = j

\* Nobody changes a case they have not seen, or no longer may: the command that
\* is appended names the version its sender had loaded, which is the version it
\* changes, and its sender's grant did not run out between the two awaits.
NoBlindAppend ==
    [][\A s \in Sessions :
         (commands' # commands /\ call[s].stage = "viewed" /\ call'[s].stage = "answered")
           => call[s].request.expected = Len(journal) /\ s \notin expired]_vars
=============================================================================
