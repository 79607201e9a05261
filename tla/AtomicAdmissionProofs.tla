------------------------ MODULE AtomicAdmissionProofs -------------------------
(***************************************************************************)
(* Proofs about the admission of AtomicAdmission, for any number of        *)
(* processes, requests, stewards, bundles and cases: one case per root,    *)
(* honest retries, a store that stays readable, withdrawals that take      *)
(* effect and handlers that write nothing after their adapter closed.      *)
(*                                                                         *)
(* What a handler knows at each of its program points is an invariant of   *)
(* its own (HandlerOK); a unit in the store remembers which handler wrote  *)
(* it, and that handler's call says what the unit holds (UnitOK).          *)
(***************************************************************************)
EXTENDS AtomicAdmission, FiniteSetTheorems, SequenceTheorems, TLAPS

Calls == [process : Processes, bundle : Bundles, actor : Actors]
Places == {"new", "done"} \cup Awaits \cup Synchronous
Answers == {"none", "200", "400", "401", "409", "500", "lost"}
Codes ==
    {"none", "case_binding_root_conflict", "idempotency_conflict", "citizen_adoption_status_stale",
     "citizen_adoption_nonce_consumed", "atomic_admission_capacity_exhausted", "sqlite_busy"}
WorkType ==
    [startedAt : Nat, requestedAt : Nat, observedAt : Nat, active : BOOLEAN, nonce : Nonces \cup {0},
     verifiedAt : Nat, validUntil : Nat, code : Codes]
CaseIds == {CaseId(l, Bundle[b]) : l \in Lanes, b \in Bundles}

Types ==
    /\ [lane |-> lane, bundles |-> sent, until |-> until] \in Workloads /\ durable \in BOOLEAN
    /\ clock \in StartClock..until /\ withdrawnAt \in StartClock..Never
    /\ process \in [Processes -> {"down", "open", "closed", "crashed"}]
    /\ pc \in [Requests -> Places]
    /\ call \in [Requests -> {NoCall} \cup Calls]
    /\ work \in [Requests -> WorkType]
    /\ outcome \in [Requests -> Answers]
    /\ outbox \in Seq(CaseIds)

\* A request that was received has a call, and no answer until it is done.
CalledOK(q) ==
    /\ pc[q] # "new" => call[q] \in Calls
    /\ pc[q] # "done" => outcome[q] = "none"

\* A handler past its last await is in a process that is open.
SynchronousOK(q) == pc[q] \in Synchronous => EnsureOpen(q)

\* The tests of the transaction still hold when its rows are written.
TransactionOK(q) ==
    pc[q] = "txn" =>
        /\ txn = q
        /\ ~RootTaken(q) /\ UnitsOf(Case(q)) = {}
        /\ NonceUnused(q) /\ Capacity

\* The result of an adoption is read only when it is in the store.
ResultOK(q) == pc[q] = "result" /\ lane # "topic" => \E u \in units : IsRetryOf(u, q)

\* What the verification has established so far.
VerifiedOK(q) ==
    /\ pc[q] \in {"acceptance", "status", "statusSent"} =>
         /\ lane = "citizen" => InspectBundle(B(q), work[q].startedAt)
         /\ lane = "synthetic" => InspectSyntheticBundle(B(q))
         /\ lane # "topic" /\ work[q].startedAt <= clock
    /\ pc[q] \in {"status", "statusSent"} =>
         /\ lane = "citizen"
         /\ InspectAcceptance(B(q), B(q).receivedAt, work[q].startedAt)
         /\ work[q].startedAt <= work[q].requestedAt
    /\ pc[q] = "statusSent" =>
         /\ work[q].observedAt <= clock
         /\ work[q].active => work[q].observedAt <= withdrawnAt

\* What a handler that may write knows of its evidence.
EvidenceOK(q) ==
    pc[q] \in {"handle", "append", "txn"} =>
        /\ VerifyRecorded(lane, B(q), Evidence(q))
        /\ lane = "citizen" => work[q].observedAt <= withdrawnAt /\ work[q].observedAt <= clock

\* An acknowledged request has its candidate in the store.
AnswerOK(q) ==
    outcome[q] = "200" =>
        \E u \in units : u.root = B(q).root.id /\ u.candidate = CandidateEvent(lane, B(q))

HandlerOK(q) ==
    /\ CalledOK(q) /\ SynchronousOK(q) /\ TransactionOK(q) /\ ResultOK(q)
    /\ VerifiedOK(q) /\ EvidenceOK(q) /\ AnswerOK(q)

HandlersOK == \A q \in Requests : HandlerOK(q)

\* A unit is what the handler that wrote it was called with.
UnitOK(u) ==
    /\ u.by \in Requests /\ pc[u.by] \in {"result", "done"} /\ call[u.by] \in Calls
    /\ u.case = Case(u.by) /\ u.root = B(u.by).root.id
    /\ u.candidate = CandidateEvent(lane, B(u.by)) /\ u.answer = B(u.by).answer.id
    /\ u.bundle = call[u.by].bundle /\ u.actor = call[u.by].actor
    /\ VerifyRecorded(lane, B(u.by), u.evidence)
    /\ u.at \in Nat /\ u.at <= clock
    /\ lane = "citizen" => u.at < withdrawnAt + StatusMaxAge

\* The committed units: one per root and per nonce, each with its outbox row.
UnitsOK ==
    /\ \A u \in units : UnitOK(u)
    /\ \A u, v \in units : u.root = v.root => u = v
    /\ \A u, v \in units : u.case = v.case => u = v
    /\ \A u, v \in units : lane = "citizen" /\ u.evidence.nonce = v.evidence.nonce => u = v
    /\ IsFiniteSet(units) /\ Len(outbox) = Cardinality(units)
    /\ {outbox[i] : i \in DOMAIN outbox} = {u.case : u \in units}
    /\ durable => Cardinality(units) <= MaxCases

LockOK == txn # NoRequest => txn \in Requests /\ pc[txn] = "txn"

IInv == Types /\ HandlersOK /\ UnitsOK /\ LockOK

-----------------------------------------------------------------------------
\* The definitions a statement about a handler is made of.
USE DEF Places, Awaits, Synchronous

\* q's handler moves and nothing else: the database stays, save that q's
\* transaction is rolled back.
Alone(q) ==
    /\ UNCHANGED <<config, env, process, call, units, outbox>>
    /\ txn' = IF txn = q THEN NoRequest ELSE txn
    /\ pc' \in [Requests -> Places] /\ work' \in [Requests -> WorkType] /\ outcome' \in [Requests -> Answers]
    /\ \A r \in Requests \ {q} : pc'[r] = pc[r] /\ work'[r] = work[r] /\ outcome'[r] = outcome[r]

\* Such a move keeps what every other handler knows.
LEMMA OthersKeep ==
    ASSUME NEW q \in Requests, IInv, Alone(q), NEW r \in Requests, r # q
    PROVE  HandlerOK(r)'
<1>1. HandlerOK(r) /\ LockOK
    BY DEF IInv, HandlersOK
<1>2. pc'[r] = pc[r] /\ work'[r] = work[r] /\ outcome'[r] = outcome[r]
    BY DEF Alone
<1>3. UNCHANGED <<lane, durable, clock, withdrawnAt, process, call, units, outbox>>
    BY DEF Alone, config, env
<1>4. pc[r] = "txn" => txn' = txn
    BY <1>1 DEF HandlerOK, TransactionOK, Alone
<1>5. CalledOK(r)' /\ SynchronousOK(r)' /\ ResultOK(r)' /\ AnswerOK(r)'
    BY <1>1, <1>2, <1>3 DEF HandlerOK, CalledOK, SynchronousOK, EnsureOpen, ResultOK, IsRetryOf, AnswerOK, B
<1>6. TransactionOK(r)'
    BY <1>1, <1>2, <1>3, <1>4
    DEF HandlerOK, TransactionOK, RootTaken, UnitsOf, Case, B, NonceUnused, Capacity
<1>7. VerifiedOK(r)' /\ EvidenceOK(r)'
    BY <1>1, <1>2, <1>3 DEF HandlerOK, VerifiedOK, EvidenceOK, B, Evidence
<1> QED BY <1>5, <1>6, <1>7 DEF HandlerOK

\* It keeps the invariant if its own handler is right about where it arrives,
\* and a handler that wrote a unit does not go back.
LEMMA MoveStep ==
    ASSUME NEW q \in Requests, IInv, Alone(q), HandlerOK(q)',
           \A u \in units : u.by = q => pc'[q] \in {"result", "done"}
    PROVE  IInv'
<1>1. Types'
    BY DEF IInv, Types, Alone, config, env, Never
<1>2. HandlersOK'
    BY OthersKeep DEF HandlersOK
<1>3. UnitsOK'
  <2>1. UNCHANGED <<lane, durable, clock, withdrawnAt, call, units, outbox>>
      BY DEF Alone, config, env
  <2>2. ASSUME NEW u \in units PROVE UnitOK(u)'
    <3>1. UnitOK(u)
        BY DEF IInv, UnitsOK
    <3>2. pc'[u.by] \in {"result", "done"}
        BY <3>1 DEF UnitOK, Alone
    <3> QED BY <3>1, <3>2, <2>1 DEF UnitOK, Case, B
  <2> QED BY <2>1, <2>2 DEF IInv, UnitsOK
<1>4. LockOK'
    BY DEF IInv, LockOK, Alone
<1> QED BY <1>1, <1>2, <1>3, <1>4 DEF IInv

\* What a move leaves alone, as the actions say it.
Rest(q) ==
    /\ UNCHANGED <<config, env, process, call, units, outbox>>
    /\ txn' = IF txn = q THEN NoRequest ELSE txn

\* A handler outside the transaction does not hold the lock.
LEMMA Outside ==
    ASSUME NEW q \in Requests, IInv, pc[q] # "txn", UNCHANGED <<config, env, process, call, db>>
    PROVE  Rest(q)
BY DEF Rest, db, IInv, LockOK, AdmissionAssumption

\* An answer: a 200 needs the candidate in the store, nothing else does.
LEMMA FinishStep ==
    ASSUME NEW q \in Requests, NEW s \in Answers \ {"none"}, IInv, Rest(q), Finish(q, s), pc[q] # "new",
           s = "200" => \E u \in units : u.root = B(q).root.id /\ u.candidate = CandidateEvent(lane, B(q))
    PROVE  IInv'
<1>1. NoWork \in WorkType
    BY DEF NoWork, WorkType, Codes
<1>2. Alone(q)
    BY <1>1 DEF Alone, Rest, Finish, IInv, Types
<1>3. pc'[q] = "done" /\ outcome'[q] = s /\ call' = call /\ units' = units /\ lane' = lane
    BY DEF Finish, Rest, config, IInv, Types
<1>4. call[q] \in Calls
    BY DEF IInv, HandlersOK, HandlerOK, CalledOK
<1>5. HandlerOK(q)'
    BY <1>3, <1>4 DEF HandlerOK, CalledOK, SynchronousOK, TransactionOK, ResultOK, VerifiedOK, EvidenceOK, AnswerOK, B
<1> QED BY <1>2, <1>3, <1>5, MoveStep

\* An error: the handler has written nothing.
LEMMA RaiseStep ==
    ASSUME NEW q \in Requests, NEW code \in Codes, IInv, Rest(q), Raise(q, code), pc[q] \in Synchronous,
           \A u \in units : u.by # q
    PROVE  IInv'
<1>1. work' \in [Requests -> WorkType] /\ \A r \in Requests \ {q} : work'[r] = work[r]
  <2>1. work \in [Requests -> WorkType] /\ work' = [work EXCEPT ![q] = [work[q] EXCEPT !.code = code]]
      BY DEF Raise, IInv, Types
  <2>2. [work[q] EXCEPT !.code = code] \in WorkType
      BY <2>1 DEF WorkType
  <2> QED BY <2>1, <2>2
<1>2. Alone(q)
    BY <1>1 DEF Alone, Rest, Raise, Goto, IInv, Types
<1>3. pc'[q] = "error" /\ outcome' = outcome /\ call' = call /\ process' = process
    BY DEF Raise, Goto, Rest, IInv, Types
<1>4. call[q] \in Calls /\ outcome[q] = "none" /\ EnsureOpen(q)
    BY DEF IInv, HandlersOK, HandlerOK, CalledOK, SynchronousOK
<1>5. HandlerOK(q)'
    BY <1>3, <1>4
    DEF HandlerOK, CalledOK, SynchronousOK, TransactionOK, ResultOK, VerifiedOK, EvidenceOK, AnswerOK, EnsureOpen
<1> QED BY <1>2, <1>3, <1>5, MoveStep

\* Every error code has a status, and none of them is a success.
LEMMA StatusIsAnAnswer ==
    \A code : ControlStatus(code) \in {"400", "409", "500"}
BY DEF ControlStatus, CitizenStatus, SyntheticStatus, TopicStatus

\* adoptionRetry finds the candidate it acknowledges.
LEMMA FoundIsThere ==
    ASSUME NEW q \in Requests, IInv, AdoptionRetry(call[q].bundle, call[q].actor) = "found"
    PROVE  \E u \in units : /\ u.root = B(q).root.id /\ u.candidate = CandidateEvent(lane, B(q))
                            /\ IsRetryOf(u, q)
BY DEF AdoptionRetry, B, IsRetryOf

\* A unit that is this very request is never a conflict.
LEMMA RetryIsFound ==
    ASSUME NEW q \in Requests, IInv, NEW v \in units, IsRetryOf(v, q)
    PROVE  AdoptionRetry(call[q].bundle, call[q].actor) = "found"
<1>1. UnitOK(v)
    BY DEF IInv, UnitsOK
<1>2. v.bundle = call[q].bundle /\ v.actor = call[q].actor
    BY DEF IsRetryOf
<1>3. v.root = B(q).root.id /\ v.candidate = CandidateEvent(lane, B(q))
    BY <1>1, <1>2 DEF UnitOK, B
<1>4. \A u \in units : u.root = B(q).root.id => u = v
    BY <1>3 DEF IInv, UnitsOK
<1> QED BY <1>2, <1>3, <1>4 DEF AdoptionRetry, B

\* What adoptionRetry may say.
LEMMA RetryKinds ==
    \A b, a : AdoptionRetry(b, a) \in {"none", "found", "case_binding_root_conflict", "idempotency_conflict"}
BY DEF AdoptionRetry

\* A handler that settles by the stored adoption answers what is in the store.
LEMMA SettleStep ==
    ASSUME NEW q \in Requests, IInv, Rest(q), pc[q] # "new",
           Settle(q, AdoptionRetry(call[q].bundle, call[q].actor))
    PROVE  IInv'
<1> DEFINE retry == AdoptionRetry(call[q].bundle, call[q].actor)
           s == IF retry = "found" THEN "200" ELSE ControlStatus(retry)
<1>1. s \in Answers \ {"none"} /\ (s = "200" => retry = "found")
    BY StatusIsAnAnswer DEF Answers
<1>2. Finish(q, s)
    BY DEF Settle
<1>3. s = "200" => \E u \in units : u.root = B(q).root.id /\ u.candidate = CandidateEvent(lane, B(q))
    BY <1>1, FoundIsThere
<1> HIDE DEF s
<1> QED BY <1>1, <1>2, <1>3, FinishStep

\* A handler that is not past its append has written nothing.
LEMMA Unwritten ==
    ASSUME NEW q \in Requests, IInv, pc[q] \notin {"result", "done"}
    PROVE  \A u \in units : u.by # q
BY DEF IInv, UnitsOK, UnitOK

\* A step on: the handler must know what its next place takes for granted.
LEMMA GotoStep ==
    ASSUME NEW q \in Requests, NEW label \in Places \ {"new", "done", "txn"},
           IInv, Rest(q), Goto(q, label), pc[q] \notin {"new", "result", "done"},
           work' \in [Requests -> WorkType], \A r \in Requests \ {q} : work'[r] = work[r],
           label \in Synchronous => EnsureOpen(q),
           ResultOK(q)', VerifiedOK(q)', EvidenceOK(q)'
    PROVE  IInv'
<1>1. Alone(q)
    BY DEF Alone, Rest, Goto, IInv, Types
<1>2. pc'[q] = label /\ outcome' = outcome /\ call' = call /\ process' = process
    BY DEF Goto, Rest, IInv, Types
<1>3. call[q] \in Calls /\ outcome[q] = "none"
    BY DEF IInv, HandlersOK, HandlerOK, CalledOK
<1>4. HandlerOK(q)'
    BY <1>2, <1>3 DEF HandlerOK, CalledOK, SynchronousOK, TransactionOK, AnswerOK, EnsureOpen
<1> QED BY <1>1, <1>4, MoveStep, Unwritten

-----------------------------------------------------------------------------
\* One lemma per action of a handler.

\* A request without a principal is answered 401 and touches nothing.
LEMMA UnauthenticatedStep ==
    ASSUME NEW q \in Requests, IInv, Unauthenticated(q)
    PROVE  IInv'
<1>1. Rest(q) /\ Finish(q, "401") /\ pc[q] # "new"
    BY Outside DEF Unauthenticated
<1> QED BY <1>1, FinishStep DEF Answers

\* A verification that throws is answered 500 and touches nothing.
LEMMA VerificationFailsStep ==
    ASSUME NEW q \in Requests, IInv, VerificationFails(q)
    PROVE  IInv'
<1>1. Rest(q) /\ Finish(q, "500") /\ pc[q] # "new"
    BY Outside DEF VerificationFails
<1> QED BY <1>1, FinishStep DEF Answers

\* A ledger's answer that is refused is answered 400 and touches nothing.
LEMMA AcceptanceRefusedStep ==
    ASSUME NEW q \in Requests, IInv, AcceptanceRefused(q)
    PROVE  IInv'
<1>1. Rest(q) /\ Finish(q, "400") /\ pc[q] # "new"
    BY Outside DEF AcceptanceRefused
<1> QED BY <1>1, FinishStep DEF Answers

\* A lane is one of three, and the clock a number.
LEMMA Basics ==
    ASSUME IInv
    PROVE  /\ lane \in Lanes /\ clock \in Nat /\ withdrawnAt \in Nat /\ Never \in Nat
           /\ until \in Nat /\ until <= MaxClock /\ clock <= until /\ sent \subseteq Bundles
<1>1. [lane |-> lane, bundles |-> sent, until |-> until] \in
          [lane : Lanes, bundles : SUBSET Bundles, until : StartClock..MaxClock]
    BY AdmissionAssumption DEF IInv, Types
<1>2. lane \in Lanes /\ sent \subseteq Bundles /\ until \in StartClock..MaxClock
    BY <1>1
<1>3. clock \in StartClock..until /\ withdrawnAt \in StartClock..Never /\ StartClock \in Nat /\ MaxClock \in Nat
    BY AdmissionAssumption DEF IInv, Types
<1> QED BY <1>2, <1>3 DEF Never

\* An authenticated handler is answered, or begins with what its bundle says.
LEMMA AuthenticatedStep ==
    ASSUME NEW q \in Requests, IInv, Authenticated(q)
    PROVE  IInv'
<1>1. Rest(q) /\ pc[q] = "authenticate" /\ work \in [Requests -> WorkType]
    BY Outside DEF Authenticated, IInv, Types
<1>2. CASE Finish(q, "500") \/ Finish(q, "400")
    BY <1>1, <1>2, FinishStep DEF Answers
<1>3. CASE Settle(q, AdoptionRetry(call[q].bundle, call[q].actor))
    BY <1>1, <1>3, SettleStep
<1>4. CASE EnsureOpen(q) /\ lane = "topic" /\ VerifyTopic(B(q)) /\ Goto(q, "handle") /\ UNCHANGED work
  <2>1. pc'[q] = "handle" /\ lane' = lane /\ call' = call /\ work' = work
      BY <1>1, <1>4 DEF Goto, Rest, config, IInv, Types
  <2>2. VerifyRecorded(lane, B(q), Evidence(q))
      BY <1>4 DEF VerifyRecorded
  <2>3. ResultOK(q)' /\ VerifiedOK(q)' /\ EvidenceOK(q)'
      BY <2>1, <2>2, <1>4 DEF ResultOK, VerifiedOK, EvidenceOK, B, Evidence
  <2> QED BY <1>1, <1>4, <2>3, GotoStep
<1>5. CASE /\ EnsureOpen(q) /\ lane # "topic"
           /\ IF lane = "citizen" THEN InspectBundle(B(q), clock) ELSE InspectSyntheticBundle(B(q))
           /\ work' = [work EXCEPT ![q].startedAt = clock]
           /\ Goto(q, "acceptance")
  <2>1. pc'[q] = "acceptance" /\ lane' = lane /\ call' = call /\ clock' = clock
      BY <1>1, <1>5 DEF Goto, Rest, config, env, IInv, Types
  <2>2. work'[q].startedAt = clock /\ work' \in [Requests -> WorkType] /\ \A r \in Requests \ {q} : work'[r] = work[r]
      BY <1>1, <1>5, Basics DEF WorkType
  <2>3. ResultOK(q)' /\ VerifiedOK(q)' /\ EvidenceOK(q)'
      BY <2>1, <2>2, <1>5, Basics DEF ResultOK, VerifiedOK, EvidenceOK, B, Lanes
  <2> QED BY <1>1, <1>5, <2>2, <2>3, GotoStep
<1> QED BY <1>2, <1>3, <1>4, <1>5 DEF Authenticated

\* What a verification hands on must replay from the record.
LEMMA AfterVerificationStep ==
    ASSUME NEW q \in Requests, NEW w \in WorkType, IInv, Rest(q), pc[q] \in Awaits, AfterVerification(q, w),
           VerifyRecorded(lane, B(q), [observedAt |-> w.observedAt, nonce |-> w.nonce,
                                       verifiedAt |-> w.verifiedAt, validUntil |-> w.validUntil]),
           lane = "citizen" => w.observedAt <= withdrawnAt /\ w.observedAt <= clock
    PROVE  IInv'
<1>1. work \in [Requests -> WorkType]
    BY DEF IInv, Types
<1>2. CASE Finish(q, "500")
    BY <1>2, FinishStep DEF Answers
<1>3. CASE Settle(q, AdoptionRetry(call[q].bundle, call[q].actor))
    BY <1>3, SettleStep
<1>4. CASE EnsureOpen(q) /\ Goto(q, "handle") /\ work' = [work EXCEPT ![q] = w]
  <2>1. pc'[q] = "handle" /\ lane' = lane /\ call' = call /\ withdrawnAt' = withdrawnAt /\ clock' = clock
      BY <1>4 DEF Goto, Rest, config, env, IInv, Types
  <2>2. work'[q] = w /\ work' \in [Requests -> WorkType] /\ \A r \in Requests \ {q} : work'[r] = work[r]
      BY <1>1, <1>4
  <2>3. ResultOK(q)' /\ VerifiedOK(q)' /\ EvidenceOK(q)'
      BY <2>1, <2>2 DEF ResultOK, VerifiedOK, EvidenceOK, B, Evidence
  <2> QED BY <1>4, <2>2, <2>3, GotoStep
<1> QED BY <1>2, <1>3, <1>4 DEF AfterVerification

\* The ledger's answer: a citizen's handler asks for the status, a synthetic one goes on.
LEMMA AcceptanceStep ==
    ASSUME NEW q \in Requests, NEW n \in Nonces, IInv, Acceptance(q, n)
    PROVE  IInv'
<1>1. Rest(q) /\ pc[q] = "acceptance" /\ work \in [Requests -> WorkType]
    BY Outside DEF Acceptance, IInv, Types
<1>2. VerifiedOK(q)
    BY DEF IInv, HandlersOK, HandlerOK
<1>3. clock \in Nat /\ lane \in Lanes
    BY Basics
<1>4. CASE /\ lane = "citizen"
           /\ InspectAcceptance(B(q), B(q).receivedAt, work[q].startedAt)
           /\ work' = [work EXCEPT ![q].requestedAt = clock, ![q].nonce = n]
           /\ Goto(q, "status")
  <2>1. pc'[q] = "status" /\ lane' = lane /\ call' = call /\ clock' = clock
      BY <1>1, <1>4 DEF Goto, Rest, config, env, IInv, Types
  <2>2. /\ work'[q].startedAt = work[q].startedAt /\ work'[q].requestedAt = clock
        /\ work' \in [Requests -> WorkType] /\ \A r \in Requests \ {q} : work'[r] = work[r]
      BY <1>1, <1>3, <1>4 DEF WorkType
  <2>3. ResultOK(q)' /\ VerifiedOK(q)' /\ EvidenceOK(q)'
      BY <2>1, <2>2, <1>1, <1>2, <1>4 DEF ResultOK, VerifiedOK, EvidenceOK, B
  <2> QED BY <1>1, <2>2, <2>3, <1>4, GotoStep
<1>5. CASE /\ lane = "synthetic"
           /\ InspectSyntheticProjection(B(q), B(q).receivedAt, clock)
           /\ AfterVerification(q, [NoWork EXCEPT !.verifiedAt = clock])
  <2> DEFINE w == [NoWork EXCEPT !.verifiedAt = clock]
  <2>1. w \in WorkType /\ w.verifiedAt = clock
      BY <1>3 DEF NoWork, WorkType, Codes
  <2>2. VerifyRecorded(lane, B(q), [observedAt |-> w.observedAt, nonce |-> w.nonce,
                                    verifiedAt |-> w.verifiedAt, validUntil |-> w.validUntil])
    <3> HIDE DEF w
    <3> QED BY <2>1, <1>1, <1>2, <1>5 DEF VerifyRecorded, VerifyRecordedSynthetic, VerifiedOK
  <2> HIDE DEF w
  <2> QED BY <1>1, <1>5, <2>1, <2>2, AfterVerificationStep DEF w
<1> QED BY <1>4, <1>5 DEF Acceptance

\* The issuer's observation is of the status at this moment of the clock.
LEMMA IssuerObservesStep ==
    ASSUME NEW q \in Requests, IInv, IssuerObserves(q)
    PROVE  IInv'
<1>1. Rest(q) /\ pc[q] = "status" /\ work \in [Requests -> WorkType]
    BY Outside DEF IssuerObserves, IInv, Types
<1>2. VerifiedOK(q)
    BY DEF IInv, HandlersOK, HandlerOK
<1>3. clock \in Nat /\ withdrawnAt \in Nat
    BY Basics
<1>4. pc'[q] = "statusSent" /\ lane' = lane /\ call' = call /\ clock' = clock /\ withdrawnAt' = withdrawnAt
    BY <1>1 DEF IssuerObserves, Goto, Rest, config, env, IInv, Types
<1>5. /\ work'[q].startedAt = work[q].startedAt /\ work'[q].requestedAt = work[q].requestedAt
      /\ work'[q].observedAt = clock /\ (work'[q].active <=> clock < withdrawnAt)
      /\ work' \in [Requests -> WorkType] /\ \A r \in Requests \ {q} : work'[r] = work[r]
  <2> DEFINE seen == clock < withdrawnAt
             w == [work[q] EXCEPT !.observedAt = clock, !.active = seen]
  <2>1. seen \in BOOLEAN /\ work[q] \in WorkType
      BY <1>1, <1>3
  <2> HIDE DEF seen
  <2>2. /\ w \in WorkType /\ w.startedAt = work[q].startedAt /\ w.requestedAt = work[q].requestedAt
        /\ w.observedAt = clock /\ w.active = seen
      BY <2>1, <1>3 DEF WorkType
  <2>3. work' = [work EXCEPT ![q] = w]
      BY DEF IssuerObserves, seen
  <2> HIDE DEF w
  <2>4. work'[q] = w /\ work' \in [Requests -> WorkType] /\ \A r \in Requests \ {q} : work'[r] = work[r]
      BY <1>1, <2>2, <2>3
  <2> QED BY <2>2, <2>4 DEF seen
<1>6. ResultOK(q)' /\ VerifiedOK(q)' /\ EvidenceOK(q)'
    BY <1>1, <1>2, <1>3, <1>4, <1>5 DEF ResultOK, VerifiedOK, EvidenceOK, B
<1>7. Goto(q, "statusSent")
    BY DEF IssuerObserves
<1> QED BY <1>1, <1>5, <1>6, <1>7, GotoStep

\* The status, seen live, passes the tests that the record is put to.
LEMMA LiveIsRecorded ==
    ASSUME NEW q \in Requests, IInv, pc[q] = "statusSent", NEW e,
           e.observedAt = work[q].observedAt, e.verifiedAt = clock, e.validUntil = ValidUntil(B(q), e.observedAt),
           InspectStatus(B(q), [active |-> work[q].active, observedAt |-> work[q].observedAt],
                         work[q].startedAt, work[q].requestedAt, clock)
    PROVE  VerifyRecordedCitizen(B(q), e)
<1> DEFINE b == B(q)
           s == work[q].startedAt
           r == work[q].requestedAt
           o == work[q].observedAt
<1>1. s \in Nat /\ r \in Nat /\ o \in Nat /\ clock \in Nat
    BY Basics DEF IInv, Types, WorkType
<1>2. call[q].bundle \in Bundles
    BY DEF IInv, HandlersOK, HandlerOK, CalledOK, Calls
<1>3. b.receivedAt \in Nat /\ b.receipt.issuedAt \in Nat /\ b.receipt.expiresAt \in Nat /\ StatusMaxAge \in Nat
    BY <1>2, AdmissionAssumption, PolicyAssumption DEF B, CitizenPolicy
<1>4. InspectBundle(b, s) /\ InspectAcceptance(b, b.receivedAt, s) /\ s <= r
    BY DEF IInv, HandlersOK, HandlerOK, VerifiedOK
<1>5. r <= clock /\ clock < b.receipt.expiresAt /\ r <= o /\ o <= clock /\ clock < o + StatusMaxAge
    BY DEF InspectStatus
<1> HIDE DEF b, s, r, o
<1>6. InspectBundle(b, clock)
    BY <1>1, <1>3, <1>4, <1>5 DEF InspectBundle
<1>7. InspectAcceptance(b, b.receivedAt, clock) /\ o >= b.receivedAt
    BY <1>1, <1>3, <1>4, <1>5 DEF InspectAcceptance
<1>8. InspectStatus(b, [active |-> TRUE, observedAt |-> o], o, o, clock)
    BY <1>1, <1>3, <1>5 DEF InspectStatus
<1> QED BY <1>6, <1>7, <1>8 DEF VerifyRecordedCitizen, b, o

\* After the second await the handler may hold an observation that has aged.
LEMMA StatusStep ==
    ASSUME NEW q \in Requests, IInv, Status(q)
    PROVE  IInv'
<1>1. Rest(q) /\ pc[q] = "statusSent" /\ work[q] \in WorkType
    BY Outside DEF Status, IInv, Types
<1>2. VerifiedOK(q)
    BY DEF IInv, HandlersOK, HandlerOK
<1>3. CASE Finish(q, "400")
    BY <1>1, <1>3, FinishStep DEF Answers
<1> DEFINE w == [NoWork EXCEPT !.observedAt = work[q].observedAt, !.nonce = work[q].nonce,
                 !.verifiedAt = clock, !.validUntil = ValidUntil(B(q), work[q].observedAt)]
<1>4. CASE /\ InspectStatus(B(q), [active |-> work[q].active, observedAt |-> work[q].observedAt],
                            work[q].startedAt, work[q].requestedAt, clock)
           /\ AfterVerification(q, w)
  <2>1. call[q].bundle \in Bundles
      BY <1>1 DEF IInv, HandlersOK, HandlerOK, CalledOK, Calls
  <2>2. ValidUntil(B(q), work[q].observedAt) \in Nat /\ clock \in Nat
      BY <2>1, <1>1, Basics, AdmissionAssumption, PolicyAssumption DEF ValidUntil, B, CitizenPolicy, WorkType
  <2>3. /\ w \in WorkType /\ w.observedAt = work[q].observedAt /\ w.verifiedAt = clock
        /\ w.validUntil = ValidUntil(B(q), work[q].observedAt)
      BY <1>1, <2>2 DEF NoWork, WorkType, Codes
  <2> HIDE DEF w
  <2> DEFINE e == [observedAt |-> w.observedAt, nonce |-> w.nonce,
                   verifiedAt |-> w.verifiedAt, validUntil |-> w.validUntil]
  <2>4. e.observedAt = w.observedAt /\ e.verifiedAt = w.verifiedAt /\ e.validUntil = w.validUntil
      OBVIOUS
  <2> HIDE DEF e
  <2>5. VerifyRecordedCitizen(B(q), e)
      BY <1>1, <1>4, <2>3, <2>4, LiveIsRecorded
  <2>6. lane = "citizen" /\ work[q].active
      BY <1>1, <1>2, <1>4 DEF VerifiedOK, InspectStatus
  <2>7. VerifyRecorded(lane, B(q), e) /\ w.observedAt <= withdrawnAt /\ w.observedAt <= clock
      BY <1>1, <1>2, <2>3, <2>5, <2>6 DEF VerifyRecorded, VerifiedOK
  <2> QED BY <1>1, <1>4, <2>3, <2>7, AfterVerificationStep DEF e
<1> HIDE DEF w
<1> QED BY <1>3, <1>4 DEF Status, w

\* To the result, where a unit of this very adoption is in the store.
LEMMA ToResultStep ==
    ASSUME NEW q \in Requests, IInv, Rest(q), pc[q] \in {"handle", "append"}, Goto(q, "result"), UNCHANGED work,
           lane = "topic" \/ \E u \in units : IsRetryOf(u, q)
    PROVE  IInv'
<1>1. pc'[q] = "result" /\ lane' = lane /\ call' = call /\ units' = units /\ work \in [Requests -> WorkType]
    BY DEF Goto, Rest, config, IInv, Types
<1>2. EnsureOpen(q)
    BY DEF IInv, HandlersOK, HandlerOK, SynchronousOK
<1>3. ResultOK(q)' /\ VerifiedOK(q)' /\ EvidenceOK(q)'
    BY <1>1 DEF ResultOK, VerifiedOK, EvidenceOK, IsRetryOf
<1> QED BY <1>1, <1>2, <1>3, GotoStep

\* The coordinator accepts the adoption or raises; neither is a write.
LEMMA HandleStep ==
    ASSUME NEW q \in Requests, IInv, Handle(q)
    PROVE  IInv'
<1>1. Rest(q) /\ pc[q] = "handle" /\ work \in [Requests -> WorkType]
    BY Outside DEF Handle, IInv, Types
<1>2. CASE Goto(q, "append") /\ UNCHANGED work
  <2>1. pc'[q] = "append" /\ UNCHANGED <<lane, call, work, withdrawnAt, clock>>
      BY <1>1, <1>2 DEF Goto, Rest, config, env, IInv, Types
  <2>2. EvidenceOK(q) /\ EnsureOpen(q)
      BY <1>1 DEF IInv, HandlersOK, HandlerOK, SynchronousOK
  <2>3. ResultOK(q)' /\ VerifiedOK(q)' /\ EvidenceOK(q)'
      BY <1>1, <2>1, <2>2 DEF ResultOK, VerifiedOK, EvidenceOK, B, Evidence
  <2> QED BY <1>1, <1>2, <2>2, <2>3, GotoStep
<1>3. CASE \E u \in UnitsOf(Case(q)) : /\ u.actor = call[q].actor /\ u.bundle = call[q].bundle
                                       /\ Goto(q, "result") /\ UNCHANGED work
    BY <1>1, <1>3, ToResultStep DEF UnitsOf, IsRetryOf
<1>4. CASE Raise(q, "idempotency_conflict")
    BY <1>1, <1>4, RaiseStep, Unwritten DEF Codes
<1> QED BY <1>2, <1>3, <1>4 DEF Handle

\* A busy database raises before anything is written.
LEMMA BusyStep ==
    ASSUME NEW q \in Requests, IInv, Busy(q)
    PROVE  IInv'
<1>1. Rest(q) /\ pc[q] = "append" /\ Raise(q, "sqlite_busy")
    BY Outside DEF Busy
<1> QED BY <1>1, RaiseStep, Unwritten DEF Codes

\* The committed row is what the handler answers.
LEMMA ResultStep ==
    ASSUME NEW q \in Requests, IInv, Result(q)
    PROVE  IInv'
<1>1. Rest(q) /\ pc[q] = "result" /\ q \in Requests
    BY Outside DEF Result
<1>2. CASE /\ \E u \in UnitsOf(Case(q)) : u.root = B(q).root.id /\ u.answer = B(q).answer.id
           /\ Finish(q, "200")
  <2>1. PICK u \in units : u.case = Case(q) /\ u.root = B(q).root.id
      BY <1>2 DEF UnitsOf
  <2>2. u.candidate = CandidateEvent(lane, B(q))
    <3>1. u.case = CaseId(lane, B(u.by)) /\ u.candidate = CandidateEvent(lane, B(u.by))
        BY DEF IInv, UnitsOK, UnitOK, Case
    <3> QED BY <2>1, <3>1 DEF Case, CaseId
  <2> QED BY <1>1, <1>2, <2>1, <2>2, FinishStep DEF Answers
<1>3. CASE /\ \A u \in UnitsOf(Case(q)) : ~(u.root = B(q).root.id /\ u.answer = B(q).answer.id)
           /\ Raise(q, "case_binding_root_conflict")
  <2>1. \A u \in units : u.by # q
      BY <1>3 DEF IInv, UnitsOK, UnitOK, UnitsOf
  <2> QED BY <1>1, <1>3, <2>1, RaiseStep DEF Codes
<1> QED BY <1>2, <1>3 DEF Result

\* An error is answered from the store as it is now.
LEMMA RescueStep ==
    ASSUME NEW q \in Requests, IInv, Rescue(q)
    PROVE  IInv'
<1>1. Rest(q) /\ pc[q] = "error"
    BY Outside DEF Rescue
<1>2. CASE Finish(q, ControlStatus(work[q].code))
    BY <1>1, <1>2, FinishStep, StatusIsAnAnswer DEF Answers
<1>3. CASE Settle(q, AdoptionRetry(call[q].bundle, call[q].actor))
    BY <1>1, <1>3, SettleStep
<1> QED BY <1>2, <1>3 DEF Rescue

\* A root whose case is not there yet is free.
LEMMA RootIsFree ==
    ASSUME NEW q \in Requests, IInv, ~RootTaken(q), UnitsOf(Case(q)) = {}
    PROVE  \A u \in units : u.root # B(q).root.id /\ u.case # Case(q)
<1> SUFFICES ASSUME NEW u \in units, u.root = B(q).root.id PROVE FALSE
    BY DEF UnitsOf
<1>1. u.candidate = CandidateEvent(lane, B(q))
    BY DEF RootTaken
<1>2. u.case = CaseId(lane, B(u.by)) /\ u.candidate = CandidateEvent(lane, B(u.by))
    BY DEF IInv, UnitsOK, UnitOK, Case
<1>3. u.case = Case(q)
    BY <1>1, <1>2 DEF Case, CaseId
<1> QED BY <1>3 DEF UnitsOf

\* The transaction begins under the lock with the checks made again.
LEMMA BeginAppendStep ==
    ASSUME NEW q \in Requests, IInv, BeginAppend(q)
    PROVE  IInv'
<1> DEFINE retry == AdoptionRetry(call[q].bundle, call[q].actor)
<1>1. /\ pc[q] = "append" /\ txn = NoRequest /\ q # NoRequest /\ work \in [Requests -> WorkType]
      /\ UNCHANGED <<config, env, process, call, units, outbox>>
    BY AdmissionAssumption DEF BeginAppend, IInv, Types
<1>2. ASSUME UNCHANGED txn PROVE Rest(q)
    BY <1>1, <1>2 DEF Rest
<1>3. CASE \E code \in Codes : Raise(q, code) /\ UNCHANGED txn
    BY <1>1, <1>2, <1>3, RaiseStep, Unwritten
<1>4. CASE (lane = "topic" \/ retry = "found") /\ Goto(q, "result") /\ UNCHANGED work /\ UNCHANGED txn
    BY <1>1, <1>2, <1>4, ToResultStep, FoundIsThere
<1>5. CASE /\ ~RootTaken(q) /\ UnitsOf(Case(q)) = {} /\ NonceUnused(q) /\ Capacity
           /\ Goto(q, "txn") /\ txn' = q /\ UNCHANGED work
  <2>1. /\ pc' = [pc EXCEPT ![q] = "txn"] /\ pc'[q] = "txn" /\ outcome' = outcome /\ work' = work /\ txn' = q
        /\ UNCHANGED <<lane, durable, sent, until, clock, withdrawnAt, process, call, units, outbox>>
      BY <1>1, <1>5 DEF Goto, config, env, IInv, Types
  <2>2. Types'
      BY <2>1 DEF IInv, Types, Never
  <2>3. HandlerOK(q) /\ EnsureOpen(q)
      BY <1>1 DEF IInv, HandlersOK, HandlerOK, SynchronousOK
  <2>4. HandlerOK(q)'
    <3>1. CalledOK(q)' /\ SynchronousOK(q)' /\ ResultOK(q)' /\ AnswerOK(q)'
        BY <1>1, <2>1, <2>3 DEF HandlerOK, CalledOK, SynchronousOK, EnsureOpen, ResultOK, AnswerOK
    <3>2. TransactionOK(q)'
        BY <1>5, <2>1 DEF TransactionOK, RootTaken, UnitsOf, Case, B, NonceUnused, Capacity
    <3>3. VerifiedOK(q)' /\ EvidenceOK(q)'
        BY <1>1, <2>1, <2>3 DEF HandlerOK, VerifiedOK, EvidenceOK, B, Evidence
    <3> QED BY <3>1, <3>2, <3>3 DEF HandlerOK
  <2>5. ASSUME NEW r \in Requests, r # q PROVE HandlerOK(r)'
    <3>1. HandlerOK(r) /\ pc'[r] = pc[r] /\ pc[r] # "txn"
        BY <1>1, <2>1, <2>5, AdmissionAssumption DEF IInv, Types, HandlersOK, HandlerOK, TransactionOK
    <3>2. CalledOK(r)' /\ SynchronousOK(r)' /\ TransactionOK(r)' /\ ResultOK(r)' /\ AnswerOK(r)'
        BY <2>1, <3>1
        DEF HandlerOK, CalledOK, SynchronousOK, EnsureOpen, TransactionOK, ResultOK, IsRetryOf, AnswerOK, B
    <3>3. VerifiedOK(r)' /\ EvidenceOK(r)'
        BY <2>1, <3>1 DEF HandlerOK, VerifiedOK, EvidenceOK, B, Evidence
    <3> QED BY <3>2, <3>3 DEF HandlerOK
  <2>6. UnitsOK'
    <3>1. ASSUME NEW u \in units PROVE UnitOK(u)'
      <4>1. UnitOK(u) /\ u.by # q
          BY <1>1, <3>1, Unwritten DEF IInv, UnitsOK
      <4>2. pc'[u.by] = pc[u.by]
          BY <2>1, <4>1 DEF UnitOK, IInv, Types
      <4> QED BY <1>1, <2>1, <4>1, <4>2 DEF UnitOK, Case, B
    <3> QED BY <2>1, <3>1 DEF IInv, UnitsOK
  <2>7. LockOK'
      BY <2>1 DEF LockOK
  <2> QED BY <2>2, <2>4, <2>5, <2>6, <2>7 DEF IInv, HandlersOK
<1>6. retry \in Codes \/ retry = "found"
    BY RetryKinds DEF Codes
<1> HIDE DEF retry
<1> QED BY <1>3, <1>4, <1>5, <1>6 DEF BeginAppend, retry, Codes

\* The unit that a commit writes.
NewUnit(q) ==
    [case |-> Case(q), root |-> B(q).root.id, candidate |-> CandidateEvent(lane, B(q)),
     answer |-> B(q).answer.id, bundle |-> call[q].bundle, actor |-> call[q].actor,
     evidence |-> Evidence(q), by |-> q, at |-> clock]

\* A committed eligibility was seen active less than statusMaxAgeSeconds ago.
LEMMA CommittedIsRecent ==
    ASSUME NEW q \in Requests, IInv, pc[q] = "txn", Fresh(q), lane = "citizen"
    PROVE  clock < withdrawnAt + StatusMaxAge
<1> DEFINE o == work[q].observedAt
           v == work[q].validUntil
           x == B(q).receipt.expiresAt
<1>1. VerifyRecordedCitizen(B(q), Evidence(q)) /\ o <= withdrawnAt
    BY DEF IInv, HandlersOK, HandlerOK, EvidenceOK, VerifyRecorded
<1>2. v = ValidUntil(B(q), o)
    BY <1>1 DEF VerifyRecordedCitizen, Evidence
<1>3. clock < v
    BY DEF Fresh
<1>4. o \in Nat /\ v \in Nat /\ withdrawnAt \in Nat /\ clock \in Nat /\ StatusMaxAge \in Nat
    BY Basics, PolicyAssumption DEF IInv, Types, WorkType, CitizenPolicy
<1>5. x \in Nat
  <2>1. call[q].bundle \in Bundles
      BY DEF IInv, HandlersOK, HandlerOK, CalledOK, Calls
  <2> QED BY <2>1, AdmissionAssumption DEF B
<1>6. v <= o + StatusMaxAge
  <2>1. v = IF x < o + StatusMaxAge THEN x ELSE o + StatusMaxAge
      BY <1>2 DEF ValidUntil
  <2> HIDE DEF o, v, x
  <2> QED BY <2>1, <1>4, <1>5
<1> HIDE DEF o, v, x
<1> QED BY <1>1, <1>3, <1>4, <1>6

\* A commit writes one unit that the store had no place taken for.
LEMMA CommitStep ==
    ASSUME NEW q \in Requests, IInv, Commit(q)
    PROVE  IInv'
<1>1. /\ pc[q] = "txn" /\ txn = q /\ q # NoRequest /\ txn' = NoRequest /\ UNCHANGED <<config, env, process, call>>
      /\ HandlerOK(q)
    BY AdmissionAssumption DEF Commit, IInv, HandlersOK, HandlerOK, TransactionOK
<1>2. CASE Raise(q, "citizen_adoption_status_stale") /\ UNCHANGED <<units, outbox>>
  <2>1. Rest(q)
      BY <1>1, <1>2 DEF Rest
  <2> QED BY <1>1, <1>2, <2>1, RaiseStep, Unwritten DEF Codes
<1>3. CASE /\ Fresh(q) /\ units' = units \cup {NewUnit(q)} /\ outbox' = Append(outbox, Case(q))
           /\ Goto(q, "result") /\ UNCHANGED work
  <2>0. PICK n : n = NewUnit(q)
      OBVIOUS
  <2>1. /\ pc' = [pc EXCEPT ![q] = "result"] /\ pc'[q] = "result" /\ outcome' = outcome /\ work' = work
        /\ UNCHANGED <<lane, durable, sent, until, clock, withdrawnAt, process, call>>
      BY <1>1, <1>3 DEF Goto, config, env, IInv, Types
  <2>2. /\ n.case = Case(q) /\ n.root = B(q).root.id /\ n.candidate = CandidateEvent(lane, B(q))
        /\ n.answer = B(q).answer.id /\ n.bundle = call[q].bundle /\ n.actor = call[q].actor
        /\ n.evidence = Evidence(q) /\ n.evidence.nonce = work[q].nonce /\ n.by = q /\ n.at = clock
      BY <2>0 DEF NewUnit, Evidence
  <2>3. call[q] \in Calls /\ EnsureOpen(q) /\ outcome[q] = "none"
      BY <1>1 DEF HandlerOK, CalledOK, SynchronousOK
  <2>4. \A u \in units : u.root # n.root /\ u.case # n.case
      BY <1>1, <2>2, RootIsFree DEF HandlerOK, TransactionOK
  <2>5. lane = "citizen" => \A u \in units : u.evidence.nonce # n.evidence.nonce
      BY <1>1, <2>2 DEF HandlerOK, TransactionOK, NonceUnused
  <2>6. Case(q) \in CaseIds
      BY <2>3, Basics DEF CaseIds, Case, B, Calls
  <2>7. Types'
      BY <1>3, <2>1, <2>6 DEF IInv, Types, Never
  <2>8. units' = units \cup {n} /\ n \in units' /\ n \notin units
      BY <1>3, <2>0, <2>4
  <2>9. HandlerOK(q)'
    <3>1. IsRetryOf(n, q)'
        BY <2>1, <2>2 DEF IsRetryOf
    <3> QED
        BY <2>1, <2>3, <2>8, <3>1
        DEF HandlerOK, CalledOK, SynchronousOK, EnsureOpen, TransactionOK, ResultOK, VerifiedOK, EvidenceOK, AnswerOK
  <2>10. ASSUME NEW r \in Requests, r # q PROVE HandlerOK(r)'
    <3>1. HandlerOK(r) /\ pc'[r] = pc[r] /\ pc[r] # "txn"
        BY <1>1, <2>1, <2>10 DEF IInv, Types, HandlersOK, HandlerOK, TransactionOK
    <3>2. CalledOK(r)' /\ SynchronousOK(r)' /\ TransactionOK(r)' /\ ResultOK(r)' /\ AnswerOK(r)'
        BY <2>1, <2>8, <3>1
        DEF HandlerOK, CalledOK, SynchronousOK, EnsureOpen, TransactionOK, ResultOK, IsRetryOf, AnswerOK, B
    <3>3. VerifiedOK(r)' /\ EvidenceOK(r)'
        BY <2>1, <3>1 DEF HandlerOK, VerifiedOK, EvidenceOK, B, Evidence
    <3> QED BY <3>2, <3>3 DEF HandlerOK
  <2>11. UnitOK(n)'
    <3>1. VerifyRecorded(lane, B(q), Evidence(q))
        BY <1>1 DEF HandlerOK, EvidenceOK
    <3>2. lane = "citizen" => clock < withdrawnAt + StatusMaxAge
        BY <1>1, <1>3, CommittedIsRecent
    <3>3. clock \in Nat
        BY Basics
    <3> QED BY <2>1, <2>2, <2>3, <3>1, <3>2, <3>3 DEF UnitOK, Case, B
  <2>12. ASSUME NEW u \in units PROVE UnitOK(u)'
    <3>1. UnitOK(u) /\ pc'[u.by] \in {"result", "done"}
        BY <2>1 DEF IInv, UnitsOK, UnitOK, Types
    <3> QED BY <2>1, <3>1 DEF UnitOK, Case, B
  <2>13. IsFiniteSet(units') /\ Len(outbox') = Cardinality(units') /\ (durable => Cardinality(units') <= MaxCases)
    <3>1. IsFiniteSet(units) /\ Len(outbox) = Cardinality(units) /\ outbox \in Seq(CaseIds)
        BY DEF IInv, UnitsOK, Types
    <3>2. IsFiniteSet(units') /\ Cardinality(units') = Cardinality(units) + 1 /\ Cardinality(units) \in Nat
        BY <2>8, <3>1, FS_AddElement, FS_CardinalityType
    <3>3. Len(outbox') = Len(outbox) + 1
        BY <1>3, <2>6, <3>1
    <3>4. durable => Cardinality(units) < MaxCases
        BY <1>1 DEF HandlerOK, TransactionOK, Capacity
    <3> QED BY <3>1, <3>2, <3>3, <3>4, AdmissionAssumption
  <2>14. {outbox'[i] : i \in DOMAIN outbox'} = {u.case : u \in units'}
    <3>1. {outbox[i] : i \in DOMAIN outbox} = {u.case : u \in units} /\ outbox \in Seq(CaseIds)
        BY DEF IInv, UnitsOK, Types
    <3>2. {outbox'[i] : i \in DOMAIN outbox'} = {outbox[i] : i \in DOMAIN outbox} \cup {n.case}
        BY <1>3, <2>2, <2>6, <3>1
    <3> QED BY <2>8, <3>1, <3>2
  <2>15. UnitsOK'
    <3>1. \A u, v \in units' : (u.root = v.root => u = v) /\ (u.case = v.case => u = v)
        BY <2>4, <2>8 DEF IInv, UnitsOK
    <3>2. \A u, v \in units' : lane = "citizen" /\ u.evidence.nonce = v.evidence.nonce => u = v
        BY <2>5, <2>8 DEF IInv, UnitsOK
    <3>3. \A u \in units' : UnitOK(u)'
        BY <2>8, <2>11, <2>12
    <3> QED BY <2>1, <2>13, <2>14, <3>1, <3>2, <3>3 DEF UnitsOK
  <2>16. LockOK'
      BY <1>1 DEF LockOK
  <2> QED BY <2>7, <2>9, <2>10, <2>15, <2>16 DEF IInv, HandlersOK
<1> QED BY <1>2, <1>3 DEF Commit, NewUnit

-----------------------------------------------------------------------------
\* The processes and the world around the handlers.

\* Where no handler moves, what may break is who is open and what time it is.
LEMMA WorldStep ==
    ASSUME IInv, UNCHANGED <<config, pc, call, work, outcome, db>>, Types',
           \A r \in Requests : SynchronousOK(r)',
           clock <= clock',
           withdrawnAt' = withdrawnAt \/ (lane = "citizen" /\ withdrawnAt' = clock)
    PROVE  IInv'
<1>1. /\ clock \in Nat /\ clock' \in Nat /\ withdrawnAt \in Nat /\ withdrawnAt' \in Nat
      /\ StatusMaxAge \in Nat \ {0}
    BY Basics, AdmissionAssumption, PolicyAssumption DEF CitizenPolicy, Types
<1>2. UNCHANGED <<lane, durable, pc, call, work, outcome, txn, units, outbox>>
    BY DEF config, db
<1>3. ASSUME NEW r \in Requests PROVE HandlerOK(r)'
  <2>1. HandlerOK(r) /\ work[r] \in WorkType
      BY DEF IInv, HandlersOK, Types
  <2>2. CalledOK(r)' /\ TransactionOK(r)' /\ ResultOK(r)' /\ AnswerOK(r)'
      BY <1>2, <2>1
      DEF HandlerOK, CalledOK, TransactionOK, ResultOK, AnswerOK, RootTaken, UnitsOf, Case, B, NonceUnused, Capacity,
          IsRetryOf
  <2>3. VerifiedOK(r)' /\ EvidenceOK(r)'
    <3>1. work[r].startedAt \in Nat /\ work[r].observedAt \in Nat
        BY <2>1 DEF WorkType
    <3>2. VerifiedOK(r)'
        BY <1>1, <1>2, <2>1, <3>1 DEF HandlerOK, VerifiedOK, B
    <3>3. EvidenceOK(r)'
        BY <1>1, <1>2, <2>1, <3>1 DEF HandlerOK, EvidenceOK, B, Evidence
    <3> QED BY <3>2, <3>3
  <2> QED BY <2>2, <2>3 DEF HandlerOK
<1>4. ASSUME NEW u \in units PROVE UnitOK(u)'
  <2>1. UnitOK(u)
      BY DEF IInv, UnitsOK
  <2>2. lane = "citizen" => u.at < withdrawnAt' + StatusMaxAge
      BY <1>1, <2>1 DEF UnitOK
  <2> QED BY <1>1, <1>2, <2>1, <2>2 DEF UnitOK, Case, B
<1>5. UnitsOK'
    BY <1>2, <1>4 DEF IInv, UnitsOK
<1>6. LockOK'
    BY <1>2 DEF IInv, LockOK
<1> QED BY <1>3, <1>5, <1>6 DEF IInv, HandlersOK

\* Time passes: what was observed earlier stays observed earlier.
LEMMA TickStep ==
    ASSUME IInv, Tick
    PROVE  IInv'
<1>1. clock \in Nat /\ until \in Nat /\ clock < until /\ clock' = clock + 1
    BY Basics DEF Tick
<1>2. UNCHANGED <<config, pc, call, work, outcome, db, process, withdrawnAt>>
    BY DEF Tick
<1>3. Types'
    BY <1>1, <1>2, AdmissionAssumption DEF IInv, Types, config, db, Never
<1>4. \A r \in Requests : SynchronousOK(r)'
    BY <1>2 DEF IInv, HandlersOK, HandlerOK, SynchronousOK, EnsureOpen
<1> QED BY <1>1, <1>2, <1>3, <1>4, WorldStep

\* A withdrawal is of now, and no observation is later than now.
LEMMA WithdrawStep ==
    ASSUME IInv, Withdraw
    PROVE  IInv'
<1>1. UNCHANGED <<config, pc, call, work, outcome, db, process, clock>> /\ lane = "citizen" /\ withdrawnAt' = clock
    BY DEF Withdraw
<1>2. Types'
    BY <1>1, Basics, AdmissionAssumption DEF IInv, Types, config, db, Never
<1>3. \A r \in Requests : SynchronousOK(r)'
    BY <1>1 DEF IInv, HandlersOK, HandlerOK, SynchronousOK, EnsureOpen
<1>4. clock <= clock'
    BY <1>1, Basics
<1> QED BY <1>1, <1>2, <1>3, <1>4, WorldStep

\* A process that opens the store changes no row.
LEMMA OpenStep ==
    ASSUME NEW p \in Processes, IInv, Open(p)
    PROVE  IInv'
<1>1. /\ UNCHANGED <<config, pc, call, work, outcome, db, clock, withdrawnAt>>
      /\ process[p] = "down" /\ process' = [process EXCEPT ![p] = "open"]
    BY DEF Open, env
<1>2. Types'
    BY <1>1 DEF IInv, Types, config, db, Never
<1>3. \A r \in Requests : SynchronousOK(r)'
    BY <1>1 DEF IInv, Types, HandlersOK, HandlerOK, SynchronousOK, EnsureOpen
<1>4. clock <= clock'
    BY <1>1, Basics
<1> QED BY <1>1, <1>2, <1>3, <1>4, WorldStep

\* A process closes only between two callbacks.
LEMMA CloseStep ==
    ASSUME NEW p \in Processes, IInv, Close(p)
    PROVE  IInv'
<1>1. /\ UNCHANGED <<config, pc, call, work, outcome, db, clock, withdrawnAt>>
      /\ Idle(p) /\ process' = [process EXCEPT ![p] = "closed"]
    BY DEF Close, env
<1>2. Types'
    BY <1>1 DEF IInv, Types, config, db, Never
<1>3. ASSUME NEW r \in Requests PROVE SynchronousOK(r)'
  <2>1. pc[r] \in Synchronous => EnsureOpen(r) /\ call[r].process # p
      BY <1>1 DEF IInv, HandlersOK, HandlerOK, SynchronousOK, Idle
  <2> QED BY <1>1, <2>1 DEF IInv, Types, SynchronousOK, EnsureOpen
<1>4. clock <= clock'
    BY <1>1, Basics
<1> QED BY <1>1, <1>2, <1>3, <1>4, WorldStep

\* A crash takes its handlers with it and leaves the committed units.
LEMMA CrashStep ==
    ASSUME NEW p \in Processes, IInv, Crash(p)
    PROVE  IInv'
<1> DEFINE hit(r) == call[r].process = p /\ pc[r] \in Awaits \cup Synchronous
<1>1. /\ process' = [process EXCEPT ![p] = "crashed"]
      /\ UNCHANGED <<lane, durable, sent, until, clock, withdrawnAt, call, units, outbox>>
    BY DEF Crash, config, env
<1>2. /\ pc' = [r \in Requests |-> IF hit(r) THEN "done" ELSE pc[r]]
      /\ outcome' = [r \in Requests |-> IF hit(r) THEN "lost" ELSE outcome[r]]
      /\ work' = [r \in Requests |-> IF hit(r) THEN NoWork ELSE work[r]]
      /\ txn' = IF txn # NoRequest /\ hit(txn) THEN NoRequest ELSE txn
    BY DEF Crash
<1>3. NoWork \in WorkType
    BY DEF NoWork, WorkType, Codes
<1>4. Types'
    BY <1>1, <1>2, <1>3 DEF IInv, Types, Never, Answers
<1>5. ASSUME NEW r \in Requests PROVE HandlerOK(r)'
  <2>1. HandlerOK(r) /\ LockOK /\ NoRequest \notin Requests
      BY AdmissionAssumption DEF IInv, HandlersOK
  <2>2. CASE hit(r)
    <3>1. pc'[r] = "done" /\ outcome'[r] = "lost" /\ call[r] \in Calls
        BY <1>2, <2>1, <2>2 DEF HandlerOK, CalledOK
    <3> QED
        BY <1>1, <3>1
        DEF HandlerOK, CalledOK, SynchronousOK, TransactionOK, ResultOK, VerifiedOK, EvidenceOK, AnswerOK
  <2>3. CASE ~hit(r)
    <3>1. pc'[r] = pc[r] /\ outcome'[r] = outcome[r] /\ work'[r] = work[r]
        BY <1>2, <2>3
    <3>2. pc[r] = "txn" => txn = r /\ txn' = r
        BY <1>2, <2>1, <2>3 DEF HandlerOK, TransactionOK
    <3>3. SynchronousOK(r)'
      <4>1. pc[r] \in Synchronous => EnsureOpen(r) /\ call[r].process # p
          BY <2>1, <2>3 DEF HandlerOK, SynchronousOK
      <4> QED BY <1>1, <3>1, <4>1 DEF IInv, Types, SynchronousOK, EnsureOpen
    <3>4. CalledOK(r)' /\ ResultOK(r)' /\ AnswerOK(r)'
        BY <1>1, <2>1, <3>1 DEF HandlerOK, CalledOK, ResultOK, IsRetryOf, AnswerOK, B
    <3>5. TransactionOK(r)'
        BY <1>1, <2>1, <3>1, <3>2
        DEF HandlerOK, TransactionOK, RootTaken, UnitsOf, Case, B, NonceUnused, Capacity
    <3>6. VerifiedOK(r)' /\ EvidenceOK(r)'
        BY <1>1, <2>1, <3>1 DEF HandlerOK, VerifiedOK, EvidenceOK, B, Evidence
    <3> QED BY <3>3, <3>4, <3>5, <3>6 DEF HandlerOK
  <2> QED BY <2>2, <2>3
<1>6. ASSUME NEW u \in units PROVE UnitOK(u)'
  <2>1. UnitOK(u)
      BY DEF IInv, UnitsOK
  <2>2. pc'[u.by] \in {"result", "done"}
      BY <1>2, <2>1 DEF UnitOK
  <2> QED BY <1>1, <2>1, <2>2 DEF UnitOK, Case, B
<1>7. UnitsOK'
    BY <1>1, <1>6 DEF IInv, UnitsOK
<1>8. LockOK'
    BY <1>2 DEF IInv, LockOK
<1> QED BY <1>4, <1>5, <1>7, <1>8 DEF IInv, HandlersOK

\* A new handler knows only its bundle and its actor.
LEMMA ReceiveStep ==
    ASSUME NEW q \in Requests, NEW p \in Processes, NEW b \in sent, NEW a \in Actors, IInv, Receive(q, p, b, a)
    PROVE  IInv'
<1>1. /\ pc[q] = "new" /\ pc' = [pc EXCEPT ![q] = "authenticate"] /\ outcome' = outcome /\ work' = work
      /\ call' = [call EXCEPT ![q] = [process |-> p, bundle |-> b, actor |-> a]]
      /\ UNCHANGED <<lane, durable, sent, until, clock, withdrawnAt, process, txn, units, outbox>>
    BY DEF Receive, Goto, config, env, db
<1>2. [process |-> p, bundle |-> b, actor |-> a] \in Calls
    BY Basics DEF Calls
<1>3. pc'[q] = "authenticate" /\ call'[q] \in Calls
    BY <1>1, <1>2 DEF IInv, Types
<1>4. \A r \in Requests \ {q} : pc'[r] = pc[r] /\ call'[r] = call[r]
    BY <1>1 DEF IInv, Types
<1>5. Types'
    BY <1>1, <1>2 DEF IInv, Types, Never
<1>6. HandlerOK(q)'
  <2>1. outcome[q] = "none"
      BY <1>1 DEF IInv, HandlersOK, HandlerOK, CalledOK
  <2> QED
      BY <1>1, <1>3, <2>1
      DEF HandlerOK, CalledOK, SynchronousOK, TransactionOK, ResultOK, VerifiedOK, EvidenceOK, AnswerOK
<1>7. ASSUME NEW r \in Requests, r # q PROVE HandlerOK(r)'
  <2>1. HandlerOK(r) /\ pc'[r] = pc[r] /\ call'[r] = call[r]
      BY <1>4, <1>7 DEF IInv, HandlersOK
  <2>2. CalledOK(r)' /\ SynchronousOK(r)' /\ ResultOK(r)' /\ AnswerOK(r)'
      BY <1>1, <2>1 DEF HandlerOK, CalledOK, SynchronousOK, EnsureOpen, ResultOK, IsRetryOf, AnswerOK, B
  <2>3. TransactionOK(r)'
      BY <1>1, <2>1 DEF HandlerOK, TransactionOK, RootTaken, UnitsOf, Case, B, NonceUnused, Capacity
  <2>4. VerifiedOK(r)' /\ EvidenceOK(r)'
      BY <1>1, <2>1 DEF HandlerOK, VerifiedOK, EvidenceOK, B, Evidence
  <2> QED BY <2>2, <2>3, <2>4 DEF HandlerOK
<1>8. ASSUME NEW u \in units PROVE UnitOK(u)'
  <2>1. UnitOK(u)
      BY DEF IInv, UnitsOK
  <2>2. pc'[u.by] = pc[u.by] /\ call'[u.by] = call[u.by]
      BY <1>1, <1>4, <2>1 DEF UnitOK
  <2> QED BY <1>1, <2>1, <2>2 DEF UnitOK, Case, B
<1>9. UnitsOK'
    BY <1>1, <1>8 DEF IInv, UnitsOK
<1>10. LockOK'
    BY <1>1, <1>4 DEF IInv, LockOK
<1> QED BY <1>5, <1>6, <1>7, <1>9, <1>10 DEF IInv, HandlersOK

-----------------------------------------------------------------------------
\* The inductive invariant.

\* Nothing is received or stored at the start.
LEMMA InitOK == Init => IInv
<1> SUFFICES ASSUME Init PROVE IInv
    OBVIOUS
<1>1. Types
  <2>1. [lane |-> lane, bundles |-> sent, until |-> until] \in Workloads /\ until \in StartClock..MaxClock
    <3>1. PICK w \in Workloads : lane = w.lane /\ sent = w.bundles /\ until = w.until
        BY DEF Init
    <3>2. w \in [lane : Lanes, bundles : SUBSET Bundles, until : StartClock..MaxClock]
        BY AdmissionAssumption
    <3>3. w = [lane |-> lane, bundles |-> sent, until |-> until]
        BY <3>1, <3>2
    <3> QED BY <3>1, <3>2, <3>3
  <2>2. NoWork \in WorkType
      BY DEF NoWork, WorkType, Codes
  <2>3. clock \in StartClock..until /\ withdrawnAt \in StartClock..Never
      BY <2>1, AdmissionAssumption DEF Init, Never
  <2>4. process \in [Processes -> {"down", "open", "closed", "crashed"}] /\ pc \in [Requests -> Places]
      BY DEF Init
  <2>5. call \in [Requests -> {NoCall} \cup Calls] /\ work \in [Requests -> WorkType]
      BY <2>2 DEF Init
  <2>6. outcome \in [Requests -> Answers] /\ outbox \in Seq(CaseIds)
      BY DEF Init, Answers
  <2> QED BY <2>1, <2>3, <2>4, <2>5, <2>6 DEF Types, Init
<1>2. HandlersOK
    BY DEF Init, HandlersOK, HandlerOK, CalledOK, SynchronousOK, TransactionOK, ResultOK, VerifiedOK, EvidenceOK,
           AnswerOK
<1>3. UnitsOK
  <2>1. IsFiniteSet(units) /\ Cardinality(units) = 0
      BY FS_EmptySet DEF Init
  <2>2. Len(outbox) = 0 /\ DOMAIN outbox = {}
      BY DEF Init
  <2>3. {outbox[i] : i \in DOMAIN outbox} = {u.case : u \in units}
      BY <2>2 DEF Init
  <2> QED BY <2>1, <2>2, <2>3, AdmissionAssumption DEF Init, UnitsOK
<1>4. LockOK
    BY DEF Init, LockOK
<1> QED BY <1>1, <1>2, <1>3, <1>4 DEF IInv

\* Every step keeps the invariant.
LEMMA StepOK == IInv /\ [Next]_vars => IInv'
<1> SUFFICES ASSUME IInv, [Next]_vars PROVE IInv'
    OBVIOUS
<1>1. CASE Tick \/ Withdraw
    BY <1>1, TickStep, WithdrawStep
<1>2. CASE \E p \in Processes : Open(p) \/ Close(p) \/ Crash(p)
    BY <1>2, OpenStep, CloseStep, CrashStep
<1>3. CASE \E q \in Requests, p \in Processes, b \in sent, a \in Actors : Receive(q, p, b, a)
    BY <1>3, ReceiveStep
<1>4. CASE \E q \in Requests : Unauthenticated(q) \/ Authenticated(q) \/ VerificationFails(q)
    BY <1>4, UnauthenticatedStep, AuthenticatedStep, VerificationFailsStep
<1>5. CASE \E q \in Requests : Network(q)
    BY <1>5, AcceptanceStep, AcceptanceRefusedStep, IssuerObservesStep, StatusStep DEF Network
<1>6. CASE \E q \in Requests : Synchronously(q)
    BY <1>6, HandleStep, BeginAppendStep, BusyStep, CommitStep, ResultStep, RescueStep DEF Synchronously
<1>7. CASE UNCHANGED vars
  <2>1. UNCHANGED <<config, pc, call, work, outcome, db>> /\ UNCHANGED <<clock, withdrawnAt, process>>
      BY <1>7 DEF vars, env
  <2>2. Types'
      BY <2>1 DEF IInv, Types, config, db, Never
  <2>3. \A r \in Requests : SynchronousOK(r)'
      BY <2>1 DEF IInv, HandlersOK, HandlerOK, SynchronousOK, EnsureOpen
  <2>4. clock <= clock'
      BY <2>1, Basics
  <2> QED BY <2>1, <2>2, <2>3, <2>4, WorldStep
<1> QED BY <1>1, <1>2, <1>3, <1>4, <1>5, <1>6, <1>7 DEF Next

\* The invariant holds in every reachable state.
LEMMA Invariance == Spec => []IInv
BY InitOK, StepOK, PTL DEF Spec

\* Every variable of the admission has its type; a transaction belongs to a
\* handler of an open process and every outbox row to a unit.
THEOREM TypeCorrect == Spec => []TypeOK
<1>1. IInv => TypeOK
  <2> SUFFICES ASSUME IInv PROVE TypeOK
      OBVIOUS
  <2>1. txn # NoRequest => txn \in Requests /\ pc[txn] = "txn" /\ process[call[txn].process] = "open"
      BY DEF IInv, LockOK, HandlersOK, HandlerOK, SynchronousOK, EnsureOpen
  <2>2. \A u \in units : u.case = CaseId(lane, Bundle[u.bundle]) /\ u.by \in Requests /\ u.actor \in Actors
      BY DEF IInv, UnitsOK, UnitOK, Case, B, Calls
  <2>3. \A i \in DOMAIN outbox : \E u \in units : u.case = outbox[i]
      BY DEF IInv, UnitsOK
  <2> QED BY <2>1, <2>2, <2>3 DEF TypeOK, IInv, Types, Calls, Answers
<1> QED BY <1>1, Invariance, PTL

\* A discussion root never has two cases, whoever raced: appendAtomic's tests
\* hold until its rows are written because nobody else is in a transaction.
THEOREM RootsHaveOneCase == Spec => []OneCasePerRoot
<1>1. IInv => OneCasePerRoot
    BY DEF IInv, OneCasePerRoot, UnitsOK, HandlersOK, HandlerOK, AnswerOK
<1> QED BY <1>1, Invariance, PTL

\* What admit lets through passes the validation that the next process runs
\* over the whole store.
THEOREM StoreIsReadable == Spec => []StoreStaysReadable
<1>1. IInv => StoreStaysReadable
  <2> SUFFICES ASSUME IInv PROVE StoreStaysReadable
      OBVIOUS
  <2>1. \A u \in units : VerifyRecorded(lane, Bundle[u.bundle], u.evidence)
      BY DEF IInv, UnitsOK, UnitOK, B
  <2> QED BY <2>1 DEF IInv, UnitsOK, StoreStaysReadable, ValidateDatabase
<1> QED BY <1>1, Invariance, PTL

\* No case is written statusMaxAgeSeconds or more after its eligibility was
\* withdrawn: the transaction looks at the clock again.
THEOREM WithdrawalHolds == Spec => []WithdrawalTakesEffect
<1>1. IInv => WithdrawalTakesEffect
    BY DEF IInv, UnitsOK, UnitOK, WithdrawalTakesEffect
<1> QED BY <1>1, Invariance, PTL

-----------------------------------------------------------------------------
\* What a step may not do.

\* The answer a request was given, seen against the store.
AnswerIsTrue(q) ==
    /\ lane # "topic" /\ outcome'[q] = "200" => \E u \in units : IsRetryOf(u, q)
    /\ lane # "topic" /\ outcome'[q] = "409" => ~\E u \in units : IsRetryOf(u, q)
    /\ outcome'[q] \notin {"200", "lost"} => ~\E u \in units : u.by = q

\* A plain refusal comes before the first row.
LEMMA RefusalIsTrue ==
    ASSUME NEW q \in Requests, NEW s \in {"400", "401", "500"}, IInv, Finish(q, s), pc[q] \notin {"result", "done"}
    PROVE  AnswerIsTrue(q)
<1>1. outcome'[q] = s
    BY DEF Finish, IInv, Types
<1> QED BY <1>1, Unwritten DEF AnswerIsTrue

\* So does a settled retry; a conflict means that the adoption is not there.
LEMMA SettledIsTrue ==
    ASSUME NEW q \in Requests, IInv, pc[q] \notin {"result", "done"},
           Settle(q, AdoptionRetry(call[q].bundle, call[q].actor))
    PROVE  AnswerIsTrue(q)
<1> DEFINE retry == AdoptionRetry(call[q].bundle, call[q].actor)
<1>1. outcome'[q] = IF retry = "found" THEN "200" ELSE ControlStatus(retry)
    BY DEF Settle, Finish, IInv, Types
<1>2. retry = "found" => \E u \in units : IsRetryOf(u, q)
    BY FoundIsThere
<1>3. retry # "found" => ~\E u \in units : IsRetryOf(u, q)
    BY RetryIsFound
<1>4. ControlStatus(retry) \in {"400", "409", "500"}
    BY StatusIsAnAnswer
<1> HIDE DEF retry
<1> QED BY <1>1, <1>2, <1>3, <1>4, Unwritten DEF AnswerIsTrue

\* The answer right after authentication agrees with the store.
LEMMA AuthenticatedIsTrue ==
    ASSUME NEW q \in Requests, IInv, Authenticated(q), outcome'[q] # outcome[q]
    PROVE  AnswerIsTrue(q)
<1>1. pc[q] = "authenticate"
    BY DEF Authenticated
<1>2. CASE Finish(q, "500") \/ Finish(q, "400")
    BY <1>1, <1>2, RefusalIsTrue
<1>3. CASE Settle(q, AdoptionRetry(call[q].bundle, call[q].actor))
    BY <1>1, <1>3, SettledIsTrue
<1> QED BY <1>2, <1>3 DEF Authenticated, Goto

\* The answer after an await agrees with the store as it is then.
LEMMA AfterVerificationIsTrue ==
    ASSUME NEW q \in Requests, NEW w, IInv, pc[q] \in Awaits, AfterVerification(q, w), outcome'[q] # outcome[q]
    PROVE  AnswerIsTrue(q)
<1>1. CASE Finish(q, "500")
    BY <1>1, RefusalIsTrue
<1>2. CASE Settle(q, AdoptionRetry(call[q].bundle, call[q].actor))
    BY <1>2, SettledIsTrue
<1> QED BY <1>1, <1>2 DEF AfterVerification, Goto

\* So does the answer at any of the awaits.
LEMMA NetworkIsTrue ==
    ASSUME NEW q \in Requests, IInv, Network(q), outcome'[q] # outcome[q]
    PROVE  AnswerIsTrue(q)
<1>1. ASSUME NEW n \in Nonces, Acceptance(q, n) PROVE AnswerIsTrue(q)
    BY <1>1, AfterVerificationIsTrue DEF Acceptance, Goto
<1>2. CASE AcceptanceRefused(q)
    BY <1>2, RefusalIsTrue DEF AcceptanceRefused
<1>3. ~IssuerObserves(q)
    BY DEF IssuerObserves, Goto
<1>4. CASE Status(q)
  <2>1. pc[q] = "statusSent"
      BY <1>4 DEF Status
  <2>2. CASE Finish(q, "400")
      BY <2>1, <2>2, RefusalIsTrue
  <2>3. CASE \E w : AfterVerification(q, w)
      BY <2>1, <2>3, AfterVerificationIsTrue
  <2> QED BY <1>4, <2>2, <2>3 DEF Status
<1> QED BY <1>1, <1>2, <1>3, <1>4 DEF Network

\* A result is read from a unit; an error is answered after one more look.
LEMMA SynchronouslyIsTrue ==
    ASSUME NEW q \in Requests, IInv, Synchronously(q), outcome'[q] # outcome[q]
    PROVE  AnswerIsTrue(q)
<1>1. ~Handle(q) /\ ~BeginAppend(q) /\ ~Busy(q) /\ ~Commit(q)
    BY DEF Handle, BeginAppend, Busy, Commit, Goto, Raise
<1>2. CASE Result(q)
  <2>1. pc[q] = "result" /\ Finish(q, "200")
      BY <1>2 DEF Result, Raise, Goto
  <2>2. outcome'[q] = "200" /\ ResultOK(q)
      BY <2>1 DEF Finish, IInv, Types, HandlersOK, HandlerOK
  <2> QED BY <2>1, <2>2 DEF ResultOK, AnswerIsTrue
<1>3. CASE Rescue(q)
  <2> DEFINE retry == AdoptionRetry(call[q].bundle, call[q].actor)
  <2>1. pc[q] = "error"
      BY <1>3 DEF Rescue
  <2>2. CASE Settle(q, retry)
      BY <2>1, <2>2, SettledIsTrue
  <2>3. CASE Finish(q, ControlStatus(work[q].code)) /\ (lane = "topic" \/ retry = "none")
    <3>1. outcome'[q] \in {"400", "409", "500"}
        BY <2>3, StatusIsAnAnswer DEF Finish, IInv, Types
    <3>2. lane # "topic" => ~\E u \in units : IsRetryOf(u, q)
        BY <2>3, RetryIsFound
    <3> QED BY <2>1, <3>1, <3>2, Unwritten DEF AnswerIsTrue
  <2> QED BY <1>3, <2>2, <2>3 DEF Rescue
<1> QED BY <1>1, <1>2, <1>3 DEF Synchronously

\* A handler answers its own request and no other.
LEMMA AnswersItsOwn ==
    ASSUME NEW q \in Requests, NEW r \in Requests, r # q, IInv,
           \/ \E s : Finish(r, s)
           \/ UNCHANGED outcome
    PROVE  outcome'[q] = outcome[q]
BY DEF Finish, IInv, Types

\* A request is answered by its own handler, or lost with its process.
LEMMA WhoAnswers ==
    ASSUME NEW q \in Requests, IInv, Next, outcome'[q] # outcome[q]
    PROVE  \/ Unauthenticated(q) \/ Authenticated(q) \/ VerificationFails(q) \/ Network(q) \/ Synchronously(q)
           \/ outcome'[q] = "lost"
<1>1. CASE \E p \in Processes : Crash(p)
    BY <1>1 DEF Crash
<1>2. ~Tick /\ ~Withdraw /\ \A p \in Processes : ~Open(p) /\ ~Close(p)
    BY DEF Tick, Withdraw, Open, Close
<1>3. ASSUME NEW r \in Requests, NEW p \in Processes, NEW b \in sent, NEW a \in Actors, Receive(r, p, b, a)
      PROVE  FALSE
    BY <1>3 DEF Receive, Goto
<1>4. ASSUME NEW r \in Requests, Unauthenticated(r) \/ Authenticated(r) \/ VerificationFails(r)
      PROVE  r = q
  <2>1. (\E s : Finish(r, s)) \/ UNCHANGED outcome
      BY <1>4 DEF Unauthenticated, Authenticated, VerificationFails, Settle, Goto
  <2> QED BY <2>1, AnswersItsOwn
<1>5. ASSUME NEW r \in Requests, Network(r)
      PROVE  r = q
  <2>1. \A w : AfterVerification(r, w) => (\E s : Finish(r, s)) \/ UNCHANGED outcome
      BY DEF AfterVerification, Settle, Goto
  <2>2. (\E s : Finish(r, s)) \/ UNCHANGED outcome
      BY <1>5, <2>1 DEF Network, Acceptance, AcceptanceRefused, IssuerObserves, Status, Goto
  <2> QED BY <2>2, AnswersItsOwn
<1>6. ASSUME NEW r \in Requests, Synchronously(r)
      PROVE  r = q
  <2>1. (\E s : Finish(r, s)) \/ UNCHANGED outcome
      BY <1>6 DEF Synchronously, Handle, BeginAppend, Busy, Commit, Result, Rescue, Raise, Goto, Settle
  <2> QED BY <2>1, AnswersItsOwn
<1> QED BY <1>1, <1>2, <1>3, <1>4, <1>5, <1>6 DEF Next

\* A retry is told what happened: no adoption conflicts with itself, nobody is
\* acknowledged for another steward's, and no error follows a commit.
THEOREM RetriesAreHonest == Spec => RetriesAreIdentical
<1>1. ASSUME IInv, Next, NEW q \in Requests, outcome'[q] # outcome[q] PROVE AnswerIsTrue(q)
  <2>1. CASE Unauthenticated(q) \/ VerificationFails(q)
      BY <1>1, <2>1, RefusalIsTrue DEF Unauthenticated, VerificationFails
  <2>2. CASE Authenticated(q)
      BY <1>1, <2>2, AuthenticatedIsTrue
  <2>3. CASE Network(q)
      BY <1>1, <2>3, NetworkIsTrue
  <2>4. CASE Synchronously(q)
      BY <1>1, <2>4, SynchronouslyIsTrue
  <2>5. CASE outcome'[q] = "lost"
      BY <2>5 DEF AnswerIsTrue
  <2> QED BY <1>1, <2>1, <2>2, <2>3, <2>4, <2>5, WhoAnswers
<1>2. IInv /\ [Next]_vars =>
        [\A q \in Requests : outcome'[q] # outcome[q] =>
         /\ lane # "topic" /\ outcome'[q] = "200" => \E u \in units : IsRetryOf(u, q)
         /\ lane # "topic" /\ outcome'[q] = "409" => ~\E u \in units : IsRetryOf(u, q)
         /\ outcome'[q] \notin {"200", "lost"} => ~\E u \in units : u.by = q]_vars
    BY <1>1 DEF AnswerIsTrue
<1> QED BY <1>2, Invariance, PTL DEF Spec, RetriesAreIdentical

\* A handler writes only while its own process is open: the check before the
\* await is made again after it, and close waits for the callback.
THEOREM LateHandlersAreHarmless == Spec => LateHandlersWriteNothing
<1>1. IInv /\ [Next]_vars => [\A u \in units' \ units : process[call[u.by].process] = "open"]_vars
  <2> SUFFICES ASSUME IInv, Next, NEW u \in units' \ units PROVE process[call[u.by].process] = "open"
      OBVIOUS
  <2>1. PICK q \in Requests : Commit(q)
    <3>1. ~Tick /\ ~Withdraw /\ \A p \in Processes : ~Open(p) /\ ~Close(p) /\ ~Crash(p)
        BY DEF Tick, Withdraw, Open, Close, Crash, db
    <3>2. \A q \in Requests : /\ ~Unauthenticated(q) /\ ~Authenticated(q) /\ ~VerificationFails(q) /\ ~Network(q)
                              /\ \A p \in Processes, b \in sent, a \in Actors : ~Receive(q, p, b, a)
        BY DEF Unauthenticated, Authenticated, VerificationFails, Network, Acceptance, AcceptanceRefused,
               IssuerObserves, Status, Receive, db
    <3>3. \A q \in Requests : ~Handle(q) /\ ~BeginAppend(q) /\ ~Busy(q) /\ ~Result(q) /\ ~Rescue(q)
        BY DEF Handle, BeginAppend, Busy, Result, Rescue, db
    <3> QED BY <3>1, <3>2, <3>3 DEF Next, Synchronously
  <2>2. u.by = q /\ pc[q] = "txn"
      BY <2>1 DEF Commit
  <2> QED BY <2>2 DEF IInv, HandlersOK, HandlerOK, SynchronousOK, EnsureOpen
<1> QED BY <1>1, Invariance, PTL DEF Spec, LateHandlersWriteNothing
=============================================================================
