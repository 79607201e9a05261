--------------------------- MODULE CaseContinuation ---------------------------
(***************************************************************************)
(* createDurableCaseContinuation of src/src/durable-case-continuation.ts:  *)
(* what the administration may do to a case that is already admitted.      *)
(* Every method awaits the authentication of its caller; then, in one      *)
(* piece, it opens the case, reads a fresh projection, checks its input    *)
(* and hands one command to the coordinator, over the continuation journal *)
(* of src/src/adapters/sqlite-atomic-topic-case-admission.ts.  Only this   *)
(* process writes, so nothing comes between the projection and the append. *)
(*                                                                         *)
(* This module has the methods without their callers: AdministrationReview *)
(* calls them over HTTP.                                                   *)
(***************************************************************************)
EXTENDS CaseProjection

CONSTANTS
    MaxEvents,      \* bound on the journal's length
    Steward,        \* actors.caseSteward
    Reader,         \* actors.administrationReader
    Ballot,         \* actors.participationReviewer
    Agent,          \* departments: departmentId -> agent
    Reviewer        \* departments: departmentId -> reviewer

VARIABLES options, journal, replayed, idempotency,
          commands      \* the accepted commands, the i-th being idempotency[i]'s

caseVars == <<options, journal, replayed, idempotency, commands>>

Case == INSTANCE CaseCoordinator

\* validateConfig: every configured actor has its class, and no two roles, of
\* the same or of different departments, are one actor.
ValidConfig ==
    LET roles == {"steward", "reader", "ballot"} \cup
                 ({"agent", "reviewer"} \X Departments)
        actorOf == [r \in roles |->
                      CASE r = "steward" -> Steward
                        [] r = "reader"  -> Reader
                        [] r = "ballot"  -> Ballot
                        [] OTHER -> IF r[1] = "agent" THEN Agent[r[2]] ELSE Reviewer[r[2]]]
    IN  /\ \A r, q \in roles : actorOf[r] = actorOf[q] => r = q
        /\ IsClass(Steward, "case_steward")
        /\ IsClass(Reader, "administration")
        /\ IsClass(Ballot, "participation_reviewer")
        /\ \A d \in Departments : /\ IsScoped(Agent[d], "department_agent", d)
                                  /\ IsScoped(Reviewer[d], "department_reviewer", d)

ASSUME ConfigAssumption == ValidConfig

\* The case as its admission leaves it; syntheticCase selects the caseKind.
AdmittedCase(syntheticCase) ==
    LET type == IF syntheticCase THEN "synthetic_adoption_admitted_v1"
                ELSE "citizen_adoption_admitted_v1"
        events == <<Event("case_created_v1", Steward, None, NoCorrection),
                    Event("discussion_recorded_v1", Steward, None, NoCorrection),
                    Event(type, Steward, None, NoCorrection)>>
        replay[n \in 0..3] == IF n = 0 THEN EmptyCase
                              ELSE ReplayEvent(options, replay[n - 1], n - 1, events[n])
    IN  /\ options = [citizenAdoptionPolicy |-> ~syntheticCase,
                      syntheticAdoptionPolicy |-> syntheticCase,
                      syntheticDepartmentReview |-> syntheticCase,
                      requireSignedSuggestionAdmission |-> TRUE,
                      scope |-> FALSE,
                      requiredDepartmentIds |-> Departments]
        /\ journal = events
        /\ replayed = replay[3]
        /\ idempotency = <<[commandType |-> "admission", actorId |-> Steward,
                            expectedCaseVersion |-> 0,
                            receipt |-> [caseVersion |-> 3, eventIds |-> 1..3]]>>
        /\ commands = <<[key |-> <<"admission">>, actorId |-> Steward,
                         expectedCaseVersion |-> 0, payload |-> <<>>]>>

-----------------------------------------------------------------------------
\* Replies: the receipt of a command by the version it led to, or a refusal.
Receipt(version) == [code |-> "ok", caseVersion |-> version]
Refusal(code) == [code |-> code, caseVersion |-> 0]
Replies == {Receipt(v) : v \in 1..MaxEvents} \cup {Refusal(code) : code \in {"conflict", "forbidden"}}

Command(key, actor, expected, payload) ==
    [key |-> key, actorId |-> actor, expectedCaseVersion |-> expected, payload |-> payload]

\* Mutant: a known key is enough to be answered with its receipt.
SameKey(prior, command) == prior.key = command.key

\* The fingerprint of a command covers its actor, the version it expects and
\* its payload.
SameFingerprint(prior, command) == prior = command

\* Mutant: the expected version is taken to be the current one.
ExpectsAnyVersion(command) == TRUE

ExpectsThisVersion(command) == command.expectedCaseVersion = Len(journal)

\* handle of the coordinator, down to appendAtomic.  A known key is answered
\* with its receipt if the whole command is the same and refused otherwise,
\* before the expected version is looked at.  Step is the command's branch;
\* when a check of it fails the command is refused and nothing changes.  reply
\* is what the caller is answered.
Handle(command, Step, reply) ==
    LET prior == {i \in DOMAIN commands : commands[i].key = command.key} IN
    IF prior # {}
    THEN /\ \E i \in prior :
              reply = IF SameFingerprint(commands[i], command)
                      THEN Receipt(idempotency[i].receipt.caseVersion)
                      ELSE Refusal("conflict")
         /\ UNCHANGED caseVars
    ELSE IF ExpectsThisVersion(command) /\ ENABLED Step
    THEN /\ Step
         /\ commands' = Append(commands, command)
         /\ reply = Receipt(Len(journal'))
    ELSE reply = Refusal("conflict") /\ UNCHANGED caseVars

RefuseCall(code, reply) == reply = Refusal(code) /\ UNCHANGED caseVars

\* requireActor, configuredDepartmentForActor.
DepartmentsOf(actor, role) == {d \in Departments : role[d] = actor}

\* checkedProjection and packageFromProjection: the administration sees every
\* assigned package.
PackageOf(p) == replayed.departments[p].departmentPackage

-----------------------------------------------------------------------------
\* administrationView: the steward and the reader see every package, the
\* agent and the reviewer of a department its own.  The projection itself
\* does not say who an answer is assigned to, hence the second conjunct.
MayView(actor) ==
    actor \in {Steward, Reader} \cup {Agent[d] : d \in Departments}
                                \cup {Reviewer[d] : d \in Departments}

AdministrationView(actor) ==
    [caseVersion |-> Len(journal),
     departmentPackages |->
        {k \in DepartmentPackages(replayed, "administration") :
           \/ actor \in {Steward, Reader}
           \/ PackageOf(k.packageId).assignedAgentActorId = actor
           \/ PackageOf(k.packageId).assignedReviewerActorId = actor}]

\* The package must name the configured agent and reviewer of its department.
AssignDepartmentPackage(actor, expected, package, reply) ==
    IF actor # Steward
    THEN RefuseCall("forbidden", reply)
    ELSE IF \/ package.departmentId \notin Departments
            \/ package.assignedAgentActorId # Agent[package.departmentId]
            \/ package.assignedReviewerActorId # Reviewer[package.departmentId]
    THEN RefuseCall("conflict", reply)
    ELSE Handle(Command(<<"durable-assignment", package.id>>, actor, expected, package),
                Case!AssignDepartmentPackage(actor, package), reply)

\* The caller names the version, the package and its checksum: the package as
\* it was assigned, which never changes.
RecordDepartmentDraft(actor, expected, p, draft, reply) ==
    IF \/ DepartmentsOf(actor, Agent) = {}
       \/ p \notin Assigned(replayed)
       \/ PackageOf(p).assignedAgentActorId # actor
    THEN RefuseCall("forbidden", reply)
    ELSE Handle(Command(<<"durable-draft", p, draft>>, actor, expected,
                        [packageId |-> p, package |-> PackageOf(p), draft |-> draft]),
                Case!RecordDepartmentDraft(actor, p, draft), reply)

AttestDepartmentReview(actor, expected, p, draft, decision, reply) ==
    IF DepartmentsOf(actor, Reviewer) = {}
    THEN RefuseCall("forbidden", reply)
    ELSE IF p \notin Assigned(replayed)
    THEN RefuseCall("conflict", reply)
    ELSE IF DepartmentIdOf(replayed, p) \notin DepartmentsOf(actor, Reviewer)
    THEN RefuseCall("forbidden", reply)
    ELSE Handle(Command(<<"durable-review", p, draft, decision>>, actor, expected,
                        [packageId |-> p, draft |-> draft, decision |-> decision]),
                Case!AttestDepartmentReview(actor, p, draft, decision), reply)

-----------------------------------------------------------------------------
\* src/src/adapters/citizen-brief-readiness-adapter.ts.

\* acceptedBinding and blockerFor of a department, from the projection.
AcceptedPackages ==
    {p \in Assigned(replayed) :
       replayed.departments[p].correctionState = "current" /\ Accepted(replayed, p)}

Blocker(d) ==
    LET assigned == {p \in Assigned(replayed) : DepartmentIdOf(replayed, p) = d} IN
    IF assigned = {} THEN "package_missing"
    ELSE LET p == CHOOSE p \in assigned : TRUE IN
         IF p \in AcceptedPackages THEN "none"
         ELSE IF replayed.departments[p].correctionState # "current"
         THEN replayed.departments[p].correctionState
         ELSE IF HasReview(replayed, p) THEN "review_rejected"
         ELSE IF HasDraft(replayed, p) THEN "review_pending"
         ELSE "response_not_recorded"

\* assessCitizenBriefReadiness; the readiness checksum covers all of it.
CitizenBriefReadiness ==
    [status |-> IF BriefIsCurrent(options, replayed) THEN "citizen_brief_current"
                ELSE IF \A d \in Departments : Blocker(d) = "none" THEN "ready_for_case_steward"
                ELSE "waiting_for_department_review",
     caseVersion |-> Len(journal),
     blockers |-> [d \in Departments |-> Blocker(d)],
     sourceBindings |-> {BindingFor(replayed, p) : p \in AcceptedPackages}]

\* Mutant: the preparation's checksum leaves the brief's id out.
CitizenBriefDerivationUnnamed(briefId) ==
    [briefId |-> None, actorId |-> Steward, caseVersion |-> CitizenBriefReadiness.caseVersion,
     sourceBindings |-> CitizenBriefReadiness.sourceBindings]

\* prepareCitizenBriefDerivation: what preparationChecksum digests.
CitizenBriefDerivation(briefId) ==
    [briefId |-> briefId, actorId |-> Steward, caseVersion |-> CitizenBriefReadiness.caseVersion,
     sourceBindings |-> CitizenBriefReadiness.sourceBindings]

MayPrepare == CitizenBriefReadiness.status = "ready_for_case_steward"

\* applyCitizenBrief prepares again from the case as it stands, and applies
\* nothing but what the named preparation says.
ApplyCitizenBrief(actor, briefId, preparation, reply) ==
    LET expected == CitizenBriefDerivation(briefId) IN
    IF actor # Steward
    THEN RefuseCall("forbidden", reply)
    ELSE IF ~MayPrepare \/ preparation # expected
    THEN RefuseCall("conflict", reply)
    ELSE Handle(Command(<<"citizen-brief-derivation", expected>>, actor, Len(journal),
                        [id |-> briefId, sourceBindings |-> expected.sourceBindings]),
                Case!DeriveCitizenBrief(actor, briefId, expected.sourceBindings), reply)

\* createSyntheticCitizenBriefReturn: what anyone may read of the case.
SyntheticCitizenBriefReturn ==
    LET brief == ReviewedCitizenBrief(options, replayed) IN
    [status |-> CASE brief = "current" -> "current"
                  [] brief = "invalidated" -> "withdrawn"
                  [] OTHER -> "not_ready",
     id |-> IF brief = "current" THEN replayed.brief.id ELSE None,
     responses |-> IF brief = "current"
                   THEN {[packageId |-> b.packageId, draft |-> b.draft] :
                           b \in replayed.brief.packageBindings}
                   ELSE {}]
=============================================================================
