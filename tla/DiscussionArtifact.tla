-------------------------- MODULE DiscussionArtifact --------------------------
(***************************************************************************)
(* A signed discussion event and the two checks it passes, as functions of *)
(* the event: validateSignedEvent of                                       *)
(* src/src/adapters/nostr-relay-transport.ts, before the event goes to the *)
(* relay and when it comes back; and buildArtifact of                      *)
(* src/src/adapters/discussion-adapter.ts, which turns it into a           *)
(* provenance artifact.                                                    *)
(*                                                                         *)
(* An event is a record                                                    *)
(* [id, sig, signer, kind, createdAt, tags, content, verified].            *)
(* The tags are a sequence of sequences of strings, as NIP-01 has them.    *)
(* verified is what nostr-tools answers for the hash and the signature.    *)
(* An id is the hash of everything but the signature, so two events of one *)
(* id differ at most in sig.  Byte limits are left out.                    *)
(***************************************************************************)
EXTENDS Naturals, Sequences, SequencesExt, FiniteSets

CONSTANTS
    AllowedSigners,   \* the relay's allowlist, one key in the code
    Municipality,     \* the scope the relay and the city are configured for
    Case,
    Timestamps,       \* the numbers that are safe integers and not negative
    WebSocketUrls,    \* the strings that parse as a ws: or wss: URL
    Refused           \* what a function that throws returns

Blank == ""
Marker == <<"t", "stadtstack-e2e-fixture">>
MunicipalityNames == {"municipality", "municipality_id", "municipalityId"}
CaseNames == {"case", "case_id", "caseId"}
ForbiddenScopeTagNames == (MunicipalityNames \cup CaseNames \cup {"scope"}) \ {"municipality", "case"}

\* A configured scope is never blank.
ASSUME ScopeAssumption == Municipality # Blank /\ Case # Blank

\* The places of the tags with one of the names.
Named(tags, names) == {i \in 1..Len(tags) : tags[i] # <<>> /\ tags[i][1] \in names}

\* One tag has one of the names, and it is this one in full.
OnlyTag(tags, names, tag) == \E i \in 1..Len(tags) : Named(tags, names) = {i} /\ tags[i] = tag

\* The marker and each part of the scope stand there exactly once, in full.
ValidateFixtureTags(tags) ==
    /\ OnlyTag(tags, {Marker[1]}, Marker)
    /\ Named(tags, ForbiddenScopeTagNames) = {}
    /\ OnlyTag(tags, {"municipality"}, <<"municipality", Municipality>>)
    /\ OnlyTag(tags, {"case"}, <<"case", Case>>)

ValidateSignedEvent(event) ==
    /\ event.signer \in AllowedSigners
    /\ ValidateFixtureTags(event.tags)
    /\ event.verified
    /\ event.kind = 1

-----------------------------------------------------------------------------
NoScope == <<>>

\* The parts of the tags with one of the names, where that part is there.
Values(tags, names, part) == {tags[i][part] : i \in {j \in Named(tags, names) : Len(tags[j]) >= part}}

\* The scope that the tags state, NoScope if they state none.
ExtractScopeFromTags(tags) ==
    LET pairs == {<<tags[i][2], tags[i][3]>> : i \in {j \in Named(tags, {"scope"}) : Len(tags[j]) >= 3}}
        municipalities == Values(tags, MunicipalityNames, 2)
        cases == Values(tags, CaseNames, 2)
        stated == IF pairs # {} THEN pairs ELSE municipalities \X cases
    IN  CASE Blank \in municipalities \cup cases \cup UNION {{p[1], p[2]} : p \in pairs} -> Refused
          [] pairs = {} /\ municipalities = {} /\ cases = {} -> NoScope
          [] Cardinality(stated) = 1
             /\ \A pair \in stated : municipalities \subseteq {pair[1]} /\ cases \subseteq {pair[2]}
                -> CHOOSE pair \in stated : TRUE
          [] OTHER -> Refused

\* relayRefsFromTags: the relay hints of an event.
RelayRefsFromTags(tags) ==
    (Values(tags, {"relay"}, 2) \cup Values(tags, {"e", "p", "a"}, 3)) \ {Blank}

ArtifactOf(event, refs) ==
    [id |-> event.id, source |-> "nostr", scope |-> <<Municipality, Case>>,
     proof |-> [kind |-> "nostr_nip01", signature |-> event.sig],
     event |-> [id |-> event.id, signer |-> event.signer, createdAt |-> event.createdAt,
                content |-> event.content, tags |-> event.tags, relayRefs |-> refs]]

\* normalizeAndVerifyNostrEvent, which asks more of a time than the
\* transport does (any number), then the checks of the adapter for the
\* configured and the requested scope, which the city makes the same.
Artifact(event, relayRefs) ==
    LET refs == relayRefs \cup RelayRefsFromTags(event.tags) IN
    IF /\ event.createdAt \in Timestamps
       /\ \A i \in 1..Len(event.tags) : event.tags[i] # <<>>
       /\ event.content # Blank
       /\ event.verified
       /\ event.kind = 1
       /\ Marker[2] \in Values(event.tags, {Marker[1]}, 2)
       /\ ExtractScopeFromTags(event.tags) = <<Municipality, Case>>
       /\ refs \subseteq WebSocketUrls
    THEN ArtifactOf(event, refs)
    ELSE Refused

\* Mutant: a known id is taken without a comparison.
NormalizesAny(seen, artifact) == artifact # Refused

\* StatefulDiscussionAdapter.normalize: the adapter remembers the first
\* artifact of an id and refuses another one.
Normalizes(seen, artifact) ==
    artifact # Refused /\ (artifact.id \in DOMAIN seen => seen[artifact.id] = artifact)

Remember(seen, artifact) ==
    [id \in DOMAIN seen \cup {artifact.id} |->
        IF id = artifact.id THEN artifact ELSE seen[id]]
=============================================================================
