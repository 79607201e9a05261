---------------------------- MODULE PublicKnowledge ----------------------------
(***************************************************************************)
(* mapProjection of src/src/public-knowledge.ts, behind Mitmachen: what    *)
(* the reviewed public knowledge of a case is, as a function of the        *)
(* envelope of its public projection, for the case of CaseCoordinator as   *)
(* it stands.                                                              *)
(*                                                                         *)
(* The code wants 8 responses of 8 departments; 8 is RequiredCount here,   *)
(* and what it shows of a case with one department only is left out.       *)
(* Checksums are the data they digest; a part that may be absent is a set  *)
(* of at most one element.  Who wrote the discussion's root and who        *)
(* adopted the suggestion are keys that the case only carries along.       *)
(***************************************************************************)
EXTENDS CaseCoordinator

CONSTANTS
    DraftCitations,    \* the public citations of a department's draft
    Pubkeys            \* the keys discussions, suggestions and adoptions are signed with

ASSUME CitationAssumption == \A d \in Drafts : DraftCitations[d] # {}

Responses(c) ==
    {[departmentId |-> b.package.departmentId, publicSummary |-> b.draft,
      publicCitations |-> DraftCitations[b.draft]] : b \in c.brief.packageBindings}

\* The admission carries the evidence of an adoption.
Adopted(events, c) ==
    /\ c.admission # 0
    /\ events[c.admission].eventType \in
         {"citizen_adoption_admitted_v1", "synthetic_adoption_admitted_v1"}

\* suggestionProjection: an adopted suggestion is signed by whoever adopted it;
\* any other is admitted only if the root's author signed it.
SignerPubkey(events, c, root, adopter) == IF Adopted(events, c) THEN adopter ELSE root

\* What the public projection says of the discussion, the suggestion, the
\* brief, the participation and the outcome.
PublicProjection(o, events, c, root, adopter) ==
    [discussionPubkey |-> root,
     admitted |-> c.admission # 0,
     signerPubkey |-> SignerPubkey(events, c, root, adopter),
     brief |-> IF ReviewedCitizenBrief(o, c) = "absent" THEN {}
               ELSE {[checksum |-> c.brief, correctionState |-> ReviewedCitizenBrief(o, c),
                      responses |-> IF BriefIsCurrent(o, c) THEN Responses(c) ELSE {}]},
     participation |-> IF ParticipationResult(o, c, "public") = "current"
                       THEN {ParticipationChecksum(c.participation)} ELSE {},
     outcome |-> IF OutcomeIsCurrent(o, c) THEN {c.outcome} ELSE {}]

\* The envelope of a projection: the version and the journal it is of.
Envelope(o, events, c, root, adopter) ==
    [caseVersion |-> Len(events), journalHead |-> events,
     projection |-> PublicProjection(o, events, c, root, adopter)]

-----------------------------------------------------------------------------
ReviewedCitations(brief) == UNION {r.publicCitations : r \in brief.responses}

\* An outcome is of the brief and of the participation next to it.
OutcomeIsBound(outcome, brief, participation) ==
    outcome.brief = brief.checksum /\ outcome.participation = participation

\* mapProjection: {} when it throws.
MapProjection(envelope) ==
    LET projection == envelope.projection
        shown == {x \in projection.brief \X projection.participation :
                    /\ envelope.caseVersion >= 1
                    /\ projection.admitted
                    /\ projection.signerPubkey = projection.discussionPubkey
                    /\ x[1].correctionState = "current"
                    /\ Cardinality(x[1].responses) = RequiredCount
                    /\ Cardinality(ReviewedCitations(x[1])) >= RequiredCount
                    /\ \A outcome \in projection.outcome : OutcomeIsBound(outcome, x[1], x[2])}
    IN  {[caseVersion |-> envelope.caseVersion, journalHead |-> envelope.journalHead,
          source |-> projection, citizenBrief |-> x[1].checksum,
          reviewedCitations |-> ReviewedCitations(x[1]),
          participation |-> x[2], reviewedOutcome |-> projection.outcome] : x \in shown}

-----------------------------------------------------------------------------
\* Mitmachen is up exactly as long as an admitted suggestion has a brief, with
\* a reference of each department's own, and a participation that were recorded
\* after the last withdrawal of anything they rest on, and it shows an outcome
\* exactly if that was recorded later still.  A suggestion that somebody else
\* adopted is never shown: the adopter has to be the author of the root.
MitmachenShowsOneChain ==
    \A root, adopter \in Pubkeys :
    LET shown == MapProjection(Envelope(options, journal, replayed, root, adopter))
        standing == LatestSince("advisory_participation_recorded_v1", Withdrawals)
        cited == UNION {DraftCitations[b.draft] : b \in replayed.brief.packageBindings}
    IN  /\ shown # {} <=>
              /\ standing /\ replayed.admission # 0 /\ Cardinality(cited) >= RequiredCount
              /\ Adopted(journal, replayed) => adopter = root
        /\ \A k \in shown :
              k.reviewedOutcome # {} <=> LatestSince("reviewed_outcome_recorded_v1", Withdrawals)
=============================================================================
