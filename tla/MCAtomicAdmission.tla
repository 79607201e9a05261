-------------------------- MODULE MCAtomicAdmission --------------------------
(* Bundles for model checking AtomicAdmission: one adoption, the same with   *)
(* other signature bytes, a second adoption of the same suggestion, another  *)
(* discussion, a chain whose suggestion is as old as the answer, and one     *)
(* where the agent answered twice under one receipt.                         *)
EXTENDS AtomicAdmission, TLC

MCChain(root, candidate, bytes, suggestedAt) ==
    [bytes |-> bytes, signed |-> TRUE, receivedAt |-> 2,
     root |-> [id |-> root, pubkey |-> "citizen", at |-> 0, agent |-> "mecky", municipality |-> "roebel"],
     answer |-> [id |-> <<root, "answer">>, pubkey |-> "mecky", at |-> 1, root |-> root],
     suggestion |-> [id |-> <<root, "suggestion">>, pubkey |-> "citizen", at |-> suggestedAt, root |-> root,
                     answer |-> <<root, "answer">>],
     adoption |-> [id |-> <<root, candidate>>, pubkey |-> "adopter", at |-> 2, root |-> root,
                   suggestion |-> <<root, "suggestion">>],
     receipt |-> [subject |-> "adopter", suggestion |-> <<root, "suggestion">>, issuedAt |-> 2, expiresAt |-> 5]]

MCAll == [first |-> MCChain("r1", "adoption1", 1, 2),
          resigned |-> MCChain("r1", "adoption1", 2, 2),
          second |-> MCChain("r1", "adoption2", 1, 2),
          other |-> MCChain("r2", "adoption3", 1, 2),
          backdated |-> MCChain("r2", "adoption4", 1, 1),
          reanswered |-> [MCChain("r1", "adoption1", 1, 2) EXCEPT !.answer.id = <<"r1", "again">>]]

\* Races between identical, similar and conflicting requests in every lane, and
\* in the citizen lane the passage of time until every receipt has expired.
MCWorkloads ==
    [lane : Lanes, bundles : {{"first", "resigned", "second", "other", "reanswered"}}, until : {StartClock}]
    \cup [lane : {"citizen"}, bundles : {{"first", "backdated"}}, until : {MaxClock}]

MCSymmetry == Permutations(Requests) \cup Permutations(Processes) \cup Permutations(Actors)
=============================================================================
