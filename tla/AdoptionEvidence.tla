--------------------------- MODULE AdoptionEvidence ---------------------------
(***************************************************************************)
(* The evidence a case admission rests on, and how it is verified:         *)
(* src/src/citizen-adoption-evidence.ts, citizen-adoption-case-admission.ts*)
(* and topic-case-admission.ts.                                            *)
(*                                                                         *)
(* A bundle is a chain of signed events: the discussion root of a citizen, *)
(* an allowed agent's answer to it, the citizen's suggestion after it, and *)
(* the adoption by somebody the municipality has found eligible.  An event *)
(* is what its tags and content refer to, its author and its time; whether *)
(* all signatures and digests of a bundle verify is one Boolean.  `bytes`  *)
(* tells apart two encodings of the same events (signatures are            *)
(* randomised, event ids are not).                                         *)
(***************************************************************************)
EXTENDS Naturals, FiniteSets

CONSTANTS
    MunicipalityId, AllowedAgents, AllowedSigners,
    ReceiptTtl,       \* receiptTtlSeconds, and the 300 s of a test challenge
    StatusMaxAge,     \* statusMaxAgeSeconds
    MaxSkew           \* maxEventClockSkewSeconds

\* verifyCitizenAdoptionPolicy and verifySyntheticAdoptionPolicy.
CitizenPolicy == ReceiptTtl \in Nat \ {0} /\ StatusMaxAge \in Nat \ {0} /\ MaxSkew \in Nat /\ AllowedAgents # {}
SyntheticPolicy == ReceiptTtl \in Nat \ {0} /\ MaxSkew \in Nat /\ AllowedAgents # {}

ASSUME PolicyAssumption == CitizenPolicy /\ SyntheticPolicy

\* The three lanes of createSqliteAtomicTopicCaseAdmission; a store has one.
Lanes == {"topic", "citizen", "synthetic"}

-----------------------------------------------------------------------------
\* snapshot and event, of all four events: exact shape, id and signature.
EventsVerify(b) == b.signed

\* discussion: a root of this municipality, addressed to an allowed agent.
Discussion(b) ==
    /\ b.root.municipality = MunicipalityId
    /\ b.root.agent \in AllowedAgents

\* sources: each event answers the one before it, and not before it.
Sources(b) ==
    /\ EventsVerify(b)
    /\ Discussion(b)
    /\ b.answer.pubkey = b.root.agent
    /\ b.answer.root = b.root.id
    /\ b.answer.at >= b.root.at
    /\ b.suggestion.pubkey = b.root.pubkey
    /\ b.suggestion.root = b.root.id
    /\ b.suggestion.answer = b.answer.id
    /\ b.suggestion.at > b.answer.at
    /\ b.suggestion.at > b.root.at
    /\ b.adoption.at >= b.suggestion.at

-----------------------------------------------------------------------------
\* Eligible citizens.

\* inspectBundle: the receipt is the issuer's for this adopter and suggestion,
\* in force when the verification starts, and the adoption names it.
InspectBundle(b, startedAt) ==
    /\ Sources(b)
    /\ b.receipt.expiresAt = b.receipt.issuedAt + ReceiptTtl
    /\ b.receipt.issuedAt <= startedAt
    /\ startedAt < b.receipt.expiresAt
    /\ b.receipt.issuedAt >= b.suggestion.at
    /\ b.receipt.subject = b.adoption.pubkey
    /\ b.receipt.suggestion = b.suggestion.id
    /\ b.adoption.suggestion = b.suggestion.id
    /\ b.adoption.root = b.root.id

Skew(s, t) == IF s > t THEN s - t ELSE t - s

\* inspectAcceptance: the ledger received the adoption while the receipt was
\* in force, not after the verification began.
InspectAcceptance(b, receivedAt, startedAt) ==
    /\ receivedAt <= startedAt
    /\ receivedAt >= b.receipt.issuedAt
    /\ receivedAt < b.receipt.expiresAt
    /\ b.adoption.at >= b.receipt.issuedAt
    /\ b.adoption.at < b.receipt.expiresAt
    /\ Skew(receivedAt, b.adoption.at) <= MaxSkew

\* inspectStatus: the issuer saw the receipt active, after it was asked and
\* less than statusMaxAgeSeconds ago.
InspectStatus(b, status, startedAt, requestedAt, verifiedAt) ==
    /\ status.active
    /\ startedAt <= requestedAt /\ requestedAt <= verifiedAt
    /\ verifiedAt < b.receipt.expiresAt
    /\ requestedAt <= status.observedAt /\ status.observedAt <= verifiedAt
    /\ verifiedAt < status.observedAt + StatusMaxAge

ValidUntil(b, observedAt) ==
    IF b.receipt.expiresAt < observedAt + StatusMaxAge THEN b.receipt.expiresAt ELSE observedAt + StatusMaxAge

\* verifyRecordedCitizenAdoptionEvidence: the same tests at the time of the
\* original verification; the request is taken to be the observation.
VerifyRecordedCitizen(b, e) ==
    /\ InspectBundle(b, e.verifiedAt)
    /\ InspectAcceptance(b, b.receivedAt, e.verifiedAt)
    /\ e.observedAt >= b.receivedAt
    /\ InspectStatus(b, [active |-> TRUE, observedAt |-> e.observedAt], e.observedAt, e.observedAt, e.verifiedAt)
    /\ e.validUntil = ValidUntil(b, e.observedAt)

-----------------------------------------------------------------------------
\* Test citizens: a challenge instead of a receipt, and no status to go stale.

\* inspectSyntheticBundle.
InspectSyntheticBundle(b) ==
    /\ Sources(b)
    /\ b.receipt.expiresAt = b.receipt.issuedAt + ReceiptTtl
    /\ b.receipt.issuedAt >= b.suggestion.at
    /\ b.adoption.at >= b.receipt.issuedAt
    /\ b.adoption.at < b.receipt.expiresAt
    /\ b.adoption.suggestion = b.suggestion.id

\* inspectSyntheticProjection.
InspectSyntheticProjection(b, receivedAt, verifiedAt) ==
    /\ receivedAt <= verifiedAt
    /\ receivedAt >= b.receipt.issuedAt
    /\ receivedAt < b.receipt.expiresAt
    /\ Skew(receivedAt, b.adoption.at) <= MaxSkew

\* verifyRecordedSyntheticAdoptionEvidence.
VerifyRecordedSynthetic(b, e) ==
    InspectSyntheticBundle(b) /\ InspectSyntheticProjection(b, b.receivedAt, e.verifiedAt)

-----------------------------------------------------------------------------
\* validSignedEvent, of the three events the topic lane has.
TopicEventsVerify(b) == b.signed

\* verifyTopicCaseAdmission, and the signer registry admit adds to it.
VerifyTopic(b) ==
    /\ TopicEventsVerify(b)
    /\ Discussion(b)
    /\ b.answer.pubkey = b.root.agent
    /\ b.answer.root = b.root.id
    /\ b.answer.at >= b.root.at
    /\ b.suggestion.pubkey = b.root.pubkey
    /\ b.suggestion.root = b.root.id
    /\ b.suggestion.at > b.root.at
    /\ b.suggestion.at > b.answer.at
    /\ b.suggestion.pubkey \in AllowedSigners

\* What validateCaseUnit verifies again in every unit it reads.
VerifyRecorded(lane, b, e) ==
    CASE lane = "citizen" -> VerifyRecordedCitizen(b, e)
      [] lane = "synthetic" -> VerifyRecordedSynthetic(b, e)
      [] OTHER -> VerifyTopic(b)

\* The event a case is named after, and deriveCaseUuidV7 with the canonical
\* ids: the case is a function of that event, synthetic ids being apart.
CandidateEvent(lane, b) == IF lane = "topic" THEN b.suggestion.id ELSE b.adoption.id
CaseId(lane, b) == <<IF lane = "synthetic" THEN "synthetic" ELSE "municipality", CandidateEvent(lane, b)>>
=============================================================================
