--------------------------- MODULE AtomicAdmission ---------------------------
(***************************************************************************)
(* The admission of a case: `respond` of src/src/roebel-control-service.ts *)
(* over `admit` of src/src/adapters/sqlite-atomic-topic-case-admission.ts  *)
(* and the verifiers of src/src/citizen-adoption-evidence.ts.              *)
(*                                                                         *)
(* A handler awaits the authenticator, the issuer's ledger and its status  *)
(* service; everything after the last await is synchronous in its process, *)
(* but another process with a connection to the same database may run      *)
(* between its transactions (a store with durableState has one owner, and  *)
(* the next owner may meet handlers of the previous one).  Time passes at  *)
(* any point, the issuer may withdraw the eligibility, processes close and *)
(* crash.                                                                  *)
(***************************************************************************)
EXTENDS AdoptionEvidence, Sequences

CONSTANTS
    Processes, Requests, Actors, Nonces,
    Bundle,          \* bundle name -> bundle
    MaxCases,        \* CASE_STATE_RECOVERY_MAX_CASES
    StartClock, MaxClock,
    Workloads,       \* the lanes to look at, each with the bundles that are
                     \* sent and the time it is watched: [lane, bundles, until]
    NoRequest

Bundles == DOMAIN Bundle

ASSUME AdmissionAssumption ==
    /\ MaxCases \in Nat \ {0} /\ StartClock \in Nat /\ MaxClock \in Nat
    /\ Workloads \subseteq [lane : Lanes, bundles : SUBSET Bundles, until : StartClock..MaxClock]
    /\ NoRequest \notin Requests
    /\ \A b \in Bundles :
         {Bundle[b].receivedAt, Bundle[b].receipt.issuedAt, Bundle[b].receipt.expiresAt} \subseteq Nat

VARIABLES
    lane, durable,  \* the store's configuration
    sent, until,    \* what is sent to it, and how long it is watched
    clock,          \* seconds
    withdrawnAt,    \* when the issuer withdraws the eligibility, if it does
    process,        \* process -> "down", "open", "closed" or "crashed"
    pc, call,       \* request -> where its handler is, and what it was sent
    work,           \* request -> the times and the status it has read so far
    outcome,        \* request -> its answer
    txn,            \* the request in a write transaction, or NoRequest
    units,          \* the committed cases: meta, claim, events, receipt
    outbox          \* atomic_binding_outbox, in sequence order

config == <<lane, durable, sent, until>>
env == <<clock, withdrawnAt>>
db == <<txn, units, outbox>>
vars == <<config, env, process, pc, call, work, outcome, db>>

Never == MaxClock + 1
Awaits == {"authenticate", "acceptance", "status", "statusSent"}
Synchronous == {"handle", "append", "txn", "result", "error"}
NoWork == [startedAt |-> 0, requestedAt |-> 0, observedAt |-> 0, active |-> FALSE, nonce |-> 0,
           verifiedAt |-> 0, validUntil |-> 0, code |-> "none"]
NoCall == [process |-> NoRequest, bundle |-> NoRequest, actor |-> NoRequest]

Init ==
    /\ \E w \in Workloads : lane = w.lane /\ sent = w.bundles /\ until = w.until
    /\ durable \in BOOLEAN
    /\ clock = StartClock /\ withdrawnAt = Never
    /\ process = [p \in Processes |-> "down"]
    /\ pc = [q \in Requests |-> "new"]
    /\ call = [q \in Requests |-> NoCall]
    /\ work = [q \in Requests |-> NoWork]
    /\ outcome = [q \in Requests |-> "none"]
    /\ txn = NoRequest /\ units = {} /\ outbox = <<>>

B(q) == Bundle[call[q].bundle]
Case(q) == CaseId(lane, B(q))
Evidence(q) == [observedAt |-> work[q].observedAt, nonce |-> work[q].nonce,
                verifiedAt |-> work[q].verifiedAt, validUntil |-> work[q].validUntil]
UnitsOf(case) == {u \in units : u.case = case}

\* A process runs one callback at a time.
Idle(p) == \A q \in Requests : call[q].process = p => pc[q] \notin Synchronous

\* ensureOpen.
EnsureOpen(q) == process[call[q].process] = "open"

-----------------------------------------------------------------------------
\* The HTTP status of an error code.  The topic lane knows conflicts only; an
\* adoption that does not verify is the sender's fault, a silent service is not.
Conflicts == {"case_binding_root_conflict", "idempotency_conflict", "case_version_conflict"}
Invalid == {"citizen_adoption_status_stale", "citizen_adoption_receipt_expired", "citizen_adoption_binding_invalid"}
TopicStatus(code) == IF code \in Conflicts THEN "409" ELSE "500"
SyntheticStatus(code) ==
    CASE code \in Conflicts -> "409"
      [] code \in Invalid \cup {"citizen_adoption_nonce_consumed"} -> "400"
      [] OTHER -> "500"
CitizenStatus(code) ==
    CASE code \in Conflicts \cup {"citizen_adoption_nonce_consumed"} -> "409"
      [] code \in Invalid -> "400"
      [] OTHER -> "500"
ControlStatus(code) ==
    CASE lane = "citizen" -> CitizenStatus(code)
      [] lane = "synthetic" -> SyntheticStatus(code)
      [] OTHER -> TopicStatus(code)

Goto(q, label) == pc' = [pc EXCEPT ![q] = label] /\ UNCHANGED outcome
Finish(q, status) ==
    /\ pc' = [pc EXCEPT ![q] = "done"]
    /\ outcome' = [outcome EXCEPT ![q] = status]
    /\ work' = [work EXCEPT ![q] = NoWork]
Raise(q, code) ==
    /\ Goto(q, "error")
    /\ work' = [work EXCEPT ![q].code = code]

\* Mutant: the recorded actor is not compared.
AdoptionRetryAnyActor(b, a) ==
    LET claims == {u \in units : u.root = Bundle[b].root.id}
    IN  IF claims = {} THEN "none"
        ELSE IF \E u \in claims : u.candidate # CandidateEvent(lane, Bundle[b]) THEN "case_binding_root_conflict"
        ELSE IF \E u \in claims : u.bundle # b THEN "idempotency_conflict"
        ELSE "found"

\* adoptionRetry: the claim on the bundle's root, and whether it is this very
\* bundle's, sent by this actor.
AdoptionRetry(b, a) ==
    LET claims == {u \in units : u.root = Bundle[b].root.id}
    IN  IF claims = {} THEN "none"
        ELSE IF \E u \in claims : u.candidate # CandidateEvent(lane, Bundle[b]) THEN "case_binding_root_conflict"
        ELSE IF \E u \in claims : u.bundle # b \/ u.actor # a THEN "idempotency_conflict"
        ELSE "found"

\* What a retry that is not "none" makes of the request.
Settle(q, retry) == Finish(q, IF retry = "found" THEN "200" ELSE ControlStatus(retry))

-----------------------------------------------------------------------------
\* Processes and the world.
ValidateDatabase ==
    /\ \A u, v \in units : u.case = v.case => u = v
    /\ \A u, v \in units : lane = "citizen" /\ u.evidence.nonce = v.evidence.nonce => u = v
    /\ {outbox[i] : i \in DOMAIN outbox} = {u.case : u \in units}
    /\ Len(outbox) = Cardinality(units)
    /\ \A u \in units : VerifyRecorded(lane, Bundle[u.bundle], u.evidence)

Open(p) ==
    /\ process[p] = "down"
    /\ durable => \A o \in Processes : process[o] # "open"
    /\ ValidateDatabase
    /\ durable => Cardinality(units) <= MaxCases
    /\ process' = [process EXCEPT ![p] = "open"]
    /\ UNCHANGED <<config, env, pc, call, work, outcome, db>>

\* close: handlers in an await are left to themselves.
Close(p) ==
    /\ process[p] = "open" /\ Idle(p)
    /\ process' = [process EXCEPT ![p] = "closed"]
    /\ UNCHANGED <<config, env, pc, call, work, outcome, db>>

\* A crash rolls an open transaction back; no answer is sent.
Crash(p) ==
    LET hit(q) == call[q].process = p /\ pc[q] \in Awaits \cup Synchronous
    IN  /\ process[p] = "open"
        /\ process' = [process EXCEPT ![p] = "crashed"]
        /\ pc' = [q \in Requests |-> IF hit(q) THEN "done" ELSE pc[q]]
        /\ outcome' = [q \in Requests |-> IF hit(q) THEN "lost" ELSE outcome[q]]
        /\ work' = [q \in Requests |-> IF hit(q) THEN NoWork ELSE work[q]]
        /\ txn' = IF txn # NoRequest /\ hit(txn) THEN NoRequest ELSE txn
        /\ UNCHANGED <<config, env, call, units, outbox>>

Tick ==
    /\ clock < until
    /\ clock' = clock + 1
    /\ UNCHANGED <<config, withdrawnAt, process, pc, call, work, outcome, db>>

Withdraw ==
    /\ lane = "citizen" /\ withdrawnAt = Never
    /\ withdrawnAt' = clock
    /\ UNCHANGED <<config, clock, process, pc, call, work, outcome, db>>

-----------------------------------------------------------------------------
\* A POST to the admission path, awaiting the authenticator.
Receive(q, p, b, a) ==
    /\ pc[q] = "new" /\ process[p] = "open" /\ Idle(p)
    /\ Goto(q, "authenticate")
    /\ call' = [call EXCEPT ![q] = [process |-> p, bundle |-> b, actor |-> a]]
    /\ UNCHANGED <<config, env, process, work, db>>

\* No principal: 401 before the body is looked at.
Unauthenticated(q) ==
    /\ pc[q] = "authenticate" /\ Idle(call[q].process)
    /\ Finish(q, "401")
    /\ UNCHANGED <<config, env, process, call, db>>

\* admit, up to its await: an earlier receipt, or the start of a verification.
\* The topic lane has none and goes on at once.
Authenticated(q) ==
    /\ pc[q] = "authenticate" /\ Idle(call[q].process)
    /\ \/ ~EnsureOpen(q) /\ Finish(q, "500")
       \/ /\ EnsureOpen(q) /\ lane = "topic"
          /\ IF VerifyTopic(B(q)) THEN Goto(q, "handle") /\ UNCHANGED work ELSE Finish(q, "400")
       \/ /\ EnsureOpen(q) /\ lane # "topic"
          /\ LET retry == AdoptionRetry(call[q].bundle, call[q].actor)
                 inspected == IF lane = "citizen" THEN InspectBundle(B(q), clock) ELSE InspectSyntheticBundle(B(q))
             IN  \/ retry # "none" /\ Settle(q, retry)
                 \/ retry = "none" /\ ~inspected /\ Finish(q, "400")
                 \/ /\ retry = "none" /\ inspected
                    /\ work' = [work EXCEPT ![q].startedAt = clock]
                    /\ Goto(q, "acceptance")
    /\ UNCHANGED <<config, env, process, call, db>>

\* The verification timer, or a ledger or status service that does not answer.
VerificationFails(q) ==
    /\ pc[q] \in {"acceptance", "status", "statusSent"} /\ Idle(call[q].process)
    /\ Finish(q, "500")
    /\ UNCHANGED <<config, env, process, call, db>>

\* Mutant: after the verification nobody looks whether the store is open.
AfterVerificationTrusting(q, w) ==
    LET retry == AdoptionRetry(call[q].bundle, call[q].actor)
    IN  IF retry = "none" THEN Goto(q, "handle") /\ work' = [work EXCEPT ![q] = w] ELSE Settle(q, retry)

\* admit, after its await: still open, and nobody was faster.
AfterVerification(q, w) ==
    IF ~EnsureOpen(q) THEN Finish(q, "500")
    ELSE LET retry == AdoptionRetry(call[q].bundle, call[q].actor)
         IN  IF retry = "none" THEN Goto(q, "handle") /\ work' = [work EXCEPT ![q] = w] ELSE Settle(q, retry)

\* The ledger answers.  A citizen's status is asked for next, under a nonce.
Acceptance(q, nonce) ==
    /\ pc[q] = "acceptance" /\ Idle(call[q].process)
    /\ \/ /\ lane = "citizen"
          /\ InspectAcceptance(B(q), B(q).receivedAt, work[q].startedAt)
          /\ clock < B(q).receipt.expiresAt
          /\ work' = [work EXCEPT ![q].requestedAt = clock, ![q].nonce = nonce]
          /\ Goto(q, "status")
       \/ /\ lane = "synthetic"
          /\ InspectSyntheticProjection(B(q), B(q).receivedAt, clock)
          /\ AfterVerification(q, [NoWork EXCEPT !.verifiedAt = clock])
    /\ UNCHANGED <<config, env, process, call, db>>

\* The ledger's answer is refused, or the receipt has expired meanwhile.
AcceptanceRefused(q) ==
    /\ pc[q] = "acceptance" /\ Idle(call[q].process)
    /\ ~ \/ /\ lane = "citizen" /\ clock < B(q).receipt.expiresAt
            /\ InspectAcceptance(B(q), B(q).receivedAt, work[q].startedAt)
         \/ lane = "synthetic" /\ InspectSyntheticProjection(B(q), B(q).receivedAt, clock)
    /\ Finish(q, "400")
    /\ UNCHANGED <<config, env, process, call, db>>

\* The issuer looks the receipt up; its answer takes its time.
IssuerObserves(q) ==
    /\ pc[q] = "status"
    /\ work' = [work EXCEPT ![q].observedAt = clock, ![q].active = clock < withdrawnAt]
    /\ Goto(q, "statusSent")
    /\ UNCHANGED <<config, env, process, call, db>>

Status(q) ==
    LET status == [active |-> work[q].active, observedAt |-> work[q].observedAt]
    IN  /\ pc[q] = "statusSent" /\ Idle(call[q].process)
        /\ IF InspectStatus(B(q), status, work[q].startedAt, work[q].requestedAt, clock)
           THEN AfterVerification(q, [NoWork EXCEPT !.observedAt = status.observedAt, !.nonce = work[q].nonce,
                                      !.verifiedAt = clock, !.validUntil = ValidUntil(B(q), status.observedAt)])
           ELSE Finish(q, "400")
        /\ UNCHANGED <<config, env, process, call, db>>

-----------------------------------------------------------------------------
\* The coordinator over the admission's journal port, synchronous from here.

\* readRecovery and the idempotency check of handle.
Handle(q) ==
    /\ pc[q] = "handle"
    /\ \/ UnitsOf(Case(q)) = {} /\ Goto(q, "append") /\ UNCHANGED work
       \/ \E u \in UnitsOf(Case(q)) :
            IF u.actor = call[q].actor /\ u.bundle = call[q].bundle /\ u.evidence = Evidence(q)
            THEN Goto(q, "result") /\ UNCHANGED work
            ELSE Raise(q, "idempotency_conflict")
    /\ UNCHANGED <<config, env, process, call, db>>

\* Mutant: only what the verification found counts.
FreshAtVerification(q) == TRUE

\* The eligibility, looked at again by the transaction.
Fresh(q) == lane = "citizen" => work[q].verifiedAt <= clock /\ clock < work[q].validUntil

Capacity == durable => Cardinality(units) < MaxCases

\* Mutant: nobody asks whether the nonce was used.
NonceUnusedUnchecked(q) == TRUE

NonceUnused(q) == lane = "citizen" => \A u \in units : u.evidence.nonce # work[q].nonce

\* Mutant: a case may be added to a root that has one.
RootTakenIgnored(q) == FALSE

\* The root is claimed for another candidate.
RootTaken(q) == \E u \in units : u.root = B(q).root.id /\ u.candidate # CandidateEvent(lane, B(q))

\* appendAtomic, from BEGIN IMMEDIATE to the first row.
BeginAppend(q) ==
    LET retry == AdoptionRetry(call[q].bundle, call[q].actor)
    IN  /\ pc[q] = "append" /\ txn = NoRequest
        /\ \/ /\ RootTaken(q)
              /\ Raise(q, "case_binding_root_conflict") /\ UNCHANGED txn
           \/ /\ ~RootTaken(q) /\ UnitsOf(Case(q)) # {}
              /\ IF lane = "topic" \/ retry = "found"
                 THEN Goto(q, "result") /\ UNCHANGED work ELSE Raise(q, retry)
              /\ UNCHANGED txn
           \/ /\ ~RootTaken(q) /\ UnitsOf(Case(q)) = {}
              /\ IF ~Fresh(q) THEN Raise(q, "citizen_adoption_status_stale") /\ UNCHANGED txn
                 ELSE IF ~NonceUnused(q) THEN Raise(q, "citizen_adoption_nonce_consumed") /\ UNCHANGED txn
                 ELSE IF ~Capacity THEN Raise(q, "atomic_admission_capacity_exhausted") /\ UNCHANGED txn
                 ELSE Goto(q, "txn") /\ txn' = q /\ UNCHANGED work
        /\ UNCHANGED <<config, env, process, call, units, outbox>>

\* busy_timeout is over and somebody else still writes.
Busy(q) ==
    /\ pc[q] = "append" /\ txn # NoRequest
    /\ Raise(q, "sqlite_busy")
    /\ UNCHANGED <<config, env, process, call, db>>

\* The rows, the second look at the clock, and COMMIT or ROLLBACK.
Commit(q) ==
    /\ pc[q] = "txn"
    /\ txn' = NoRequest
    /\ \/ /\ Fresh(q)
          /\ units' = units \cup
                {[case |-> Case(q), root |-> B(q).root.id, candidate |-> CandidateEvent(lane, B(q)),
                  answer |-> B(q).answer.id, bundle |-> call[q].bundle, actor |-> call[q].actor,
                  evidence |-> Evidence(q), by |-> q, at |-> clock]}
          /\ outbox' = Append(outbox, Case(q))
          /\ Goto(q, "result") /\ UNCHANGED work
       \/ /\ ~Fresh(q)
          /\ Raise(q, "citizen_adoption_status_stale") /\ UNCHANGED <<units, outbox>>
    /\ UNCHANGED <<config, env, process, call>>

\* The receipt is read back from the committed unit.
Result(q) ==
    /\ pc[q] = "result"
    /\ \/ /\ \E u \in UnitsOf(Case(q)) : u.root = B(q).root.id /\ u.answer = B(q).answer.id
          /\ Finish(q, "200")
       \/ /\ \A u \in UnitsOf(Case(q)) : ~(u.root = B(q).root.id /\ u.answer = B(q).answer.id)
          /\ Raise(q, "case_binding_root_conflict")
    /\ UNCHANGED <<config, env, process, call, db>>

\* The catch: only the identical bundle and actor is a retry.
Rescue(q) ==
    /\ pc[q] = "error"
    /\ LET retry == IF lane = "topic" THEN "none" ELSE AdoptionRetry(call[q].bundle, call[q].actor)
       IN  IF retry = "none" THEN Finish(q, ControlStatus(work[q].code)) ELSE Settle(q, retry)
    /\ UNCHANGED <<config, env, process, call, db>>

-----------------------------------------------------------------------------
Synchronously(q) == Handle(q) \/ BeginAppend(q) \/ Busy(q) \/ Commit(q) \/ Result(q) \/ Rescue(q)

Network(q) ==
    \/ \E n \in Nonces : Acceptance(q, n)
    \/ AcceptanceRefused(q)
    \/ IssuerObserves(q)
    \/ Status(q)

Next ==
    \/ Tick \/ Withdraw
    \/ \E p \in Processes : Open(p) \/ Close(p) \/ Crash(p)
    \/ \E q \in Requests :
        \/ \E p \in Processes, b \in sent, a \in Actors : Receive(q, p, b, a)
        \/ Unauthenticated(q) \/ Authenticated(q)
        \/ VerificationFails(q)
        \/ Network(q)
        \/ Synchronously(q)

Spec == Init /\ [][Next]_vars

-----------------------------------------------------------------------------
\* Type invariant.
TypeOK ==
    /\ [lane |-> lane, bundles |-> sent, until |-> until] \in Workloads /\ durable \in BOOLEAN
    /\ clock \in StartClock..until /\ withdrawnAt \in StartClock..Never
    /\ process \in [Processes -> {"down", "open", "closed", "crashed"}]
    /\ pc \in [Requests -> {"new", "done"} \cup Awaits \cup Synchronous]
    /\ call \in [Requests -> {NoCall} \cup [process : Processes, bundle : Bundles, actor : Actors]]
    /\ outcome \in [Requests -> {"none", "200", "400", "401", "409", "500", "lost"}]
    /\ txn \in Requests \cup {NoRequest}
    /\ txn # NoRequest => pc[txn] = "txn" /\ process[call[txn].process] = "open"
    /\ \A u \in units : u.case = CaseId(lane, Bundle[u.bundle]) /\ u.by \in Requests /\ u.actor \in Actors
    /\ \A i \in DOMAIN outbox : \E u \in units : u.case = outbox[i]

\* Whatever the live verification let through replays from the record alone,
\* each case has one outbox row and each status nonce one case: every process
\* that starts later can read the store.
StoreStaysReadable == ValidateDatabase /\ (durable => Cardinality(units) <= MaxCases)

\* A discussion root has one case, whoever raced, and every acknowledged
\* request is told the one that holds its own candidate.
OneCasePerRoot ==
    /\ \A u, v \in units : u.root = v.root => u = v
    /\ \A q \in Requests : outcome[q] = "200" =>
        \E u \in units : u.root = B(q).root.id /\ u.candidate = CandidateEvent(lane, B(q))

\* The unit of an adoption that is this very request: same bundle, same steward.
IsRetryOf(u, q) == u.bundle = call[q].bundle /\ u.actor = call[q].actor

\* A retry is told what happened.  An adoption acknowledged twice was sent twice
\* by the same steward; one that is in the store is never told that it conflicts
\* with itself, however the attempts overlapped; and a request that is refused
\* has written nothing, so no error follows a commit.
RetriesAreIdentical ==
    [][\A q \in Requests : outcome'[q] # outcome[q] =>
         /\ lane # "topic" /\ outcome'[q] = "200" => \E u \in units : IsRetryOf(u, q)
         /\ lane # "topic" /\ outcome'[q] = "409" => ~\E u \in units : IsRetryOf(u, q)
         /\ outcome'[q] \notin {"200", "lost"} => ~\E u \in units : u.by = q]_vars

\* An eligibility that was withdrawn is gone for new cases as soon as the last
\* status that could have seen it active is too old, wherever the request was.
WithdrawalTakesEffect ==
    lane = "citizen" => \A u \in units : u.at < withdrawnAt + StatusMaxAge

\* A handler that outlived its adapter adds nothing to a store that may have a
\* new owner by now.
LateHandlersWriteNothing ==
    [][\A u \in units' \ units : process[call[u.by].process] = "open"]_vars
=============================================================================
