-------------------------- MODULE MCCityControlPlane --------------------------
(***************************************************************************)
(* CityControlPlane for TLC, with two departments of the eight.            *)
(***************************************************************************)
EXTENDS CityControlPlane

Person(role) == [role |-> role, department |-> None]
Officials == [citizen |-> Person("citizen"), steward |-> Person("case_steward"),
              ballot |-> Person("participation_reviewer"), publisher |-> Person("publisher"),
              councillor |-> Person("council_member"), viewer |-> Person("public_viewer")]
Staff(d, agent, reviewer) ==
    [id \in {agent, reviewer} |->
        [role |-> IF id = agent THEN "department_agent" ELSE "department_reviewer", department |-> d]]
\* Ids with colons: d2 is "x:d1", s2 "s1:x", s3 "s1:d1" and reviewer1
\* "x:d1:reviewer2".  Two packages of s1 and s2 are called s1:x:d1.  The id
\* s1:d1 is the beginning of those of s3, and its review key is also the key of
\* s3's s1:d1:x:d1.
IdParts ==
    [id \in DOMAIN Officials \cup {"d1", "agent1", "agent2", "reviewer2", "s1"} |-> <<id>>]
       @@ [d2 |-> <<"x", "d1">>, s2 |-> <<"s1", "x">>, s3 |-> <<"s1", "d1">>,
           reviewer1 |-> <<"x", "d1", "reviewer2">>]
TwoDepartments == Officials @@ Staff("d1", "agent1", "reviewer1") @@ Staff("d2", "agent2", "reviewer2")

Scope == << <<"municipality", "sample-city">>, <<"case", "sample-case">> >>
Event(id, sig, tags, content) ==
    [id |-> id, sig |-> sig, signer |-> "key1", kind |-> 1, createdAt |-> 1, tags |-> <<Marker>> \o tags,
     content |-> content, verified |-> TRUE]
Plain == Event("e1", "sig1", Scope, "text")
Resigned == Event("e1", "sig2", Scope, "text")
BlankText == Event("e2", "sig3", Scope, Blank)
BadHint == Event("e3", "sig4", Scope \o << <<"relay", "http://x">> >>, "text")
EmptyTag == Event("e4", "sig5", Scope \o << <<>> >>, "text")
Hinted == Event("e5", "sig6", Scope \o << <<"e", "e0", "ws://a">> >>, "text")
ForeignScope == Event("e6", "sig7", << <<"municipality", "elsewhere">>, <<"case", "sample-case">> >>, "text")
AliasScope == Event("e7", "sig8", Scope \o << <<"case_id", "other">> >>, "text")
BeforeTime == [Event("e8", "sig9", Scope, "text") EXCEPT !.createdAt = -1]

AllEvents == {Plain, Resigned, BlankText, BadHint, EmptyTag, Hinted, ForeignScope, AliasScope, BeforeTime}
SomeRefs == {{}, {"ws://a"}, {"http://x"}}

AnswerCitations == [x |-> {"cite:x"}, y |-> {"cite:y"}, uncited |-> {}]

Audit(started, completed) == [totalInvited |-> None, totalStarted |-> started, totalCompleted |-> completed]
Result(id, state, accepted, counts) ==
    [id |-> id, shape |-> "aggregate_only", correctionState |-> state, openedAt |-> 1, closedAt |-> 2,
     reviewedAt |-> 2, totalAccepted |-> accepted, representationAudit |-> Audit(3, 2),
     options |-> [i \in 1..Len(counts) |-> [optionId |-> i, aggregateCount |-> counts[i]]]]
Current == Result("r1", "current", 2, <<1, 1>>)
Retracted == Result("r2", "retracted", 2, <<2>>)
Unbalanced == Result("r3", "current", 1, <<1, 1>>)
Individual == [Current EXCEPT !.id = "r4", !.shape = "raw_values"]
ManyResults == {Current, Retracted, Unbalanced, Individual}

Identities == [administration |-> "w1", council |-> "w2", public |-> "w3"]
Allowed == [p \in Profiles |-> {Identities[p]}]
SessionNames == [default |-> Profiles, publicSession |-> {"public"}]
Bounds(tokens) == [maxOutputTokens |-> tokens, timeoutMs |-> 1]
FourQuestions ==
    [q1 |-> [actor |-> "citizen", profile |-> "public", session |-> "publicSession", limits |-> Bounds(1)],
     q2 |-> [actor |-> "viewer", profile |-> "public", session |-> "publicSession", limits |-> Bounds(1)],
     q3 |-> [actor |-> "steward", profile |-> "administration", session |-> "default", limits |-> Bounds(2)],
     q4 |-> [actor |-> "councillor", profile |-> "council", session |-> "publicSession", limits |-> Bounds(1)]]
SomeAnswers == {[tokens |-> 1, leaks |-> FALSE, saysPrivate |-> FALSE],
                [tokens |-> 2, leaks |-> FALSE, saysPrivate |-> TRUE]}

Workload(signed, calls, lost, ids, asked) ==
    [events |-> signed, ingests |-> calls, losses |-> lost, suggestions |-> ids,
     questions |-> asked]
\* Two signatures of one event and a relay that loses; events that only one of
\* the two validators may refuse; two suggestions in the offices, with ids that
\* run into one another; questions to the companions about a case that changes
\* meanwhile.
SignedTwice == Workload({Plain, Resigned}, 4, 2, {}, {})
OddEvents == Workload(AllEvents \ {Resigned}, 2, 1, {}, {})
Offices(ids) == Workload({Plain}, 1, 0, ids, {})
Companions(asked) == Workload({Plain}, 1, 0, {"s1"}, asked)
AllWorkloads == {SignedTwice, OddEvents, Offices({"s1", "s2"}), Offices({"s1", "s3"}),
                 Companions({"q1", "q2"}), Companions({"q3", "q4"})}
=============================================================================
