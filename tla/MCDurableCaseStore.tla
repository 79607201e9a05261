-------------------------- MODULE MCDurableCaseStore --------------------------
(***************************************************************************)
(* DurableCaseStore for TLC, on two volumes.  Which process is which makes *)
(* no difference to the specification.                                     *)
(***************************************************************************)
EXTENDS DurableCaseStore, TLC

\* One release, deployed on either volume.
OneRelease == [a1 |-> "A", b1 |-> "B"]

\* Two releases may claim the first volume.
TwoReleases == [a1 |-> "A", a2 |-> "A", b1 |-> "B"]

OneReleaseClaims == DOMAIN OneRelease
TwoReleasesClaims == DOMAIN TwoReleases

\* Every claim on its volume and no claim on the first, all with one
\* configuration; and one of them with another configuration, too.
OneConfig == {<<ClaimVolume[c], c, "k1">> : c \in Claims} \cup {<<"A", None, "k1">>}
OneWrongConfig == OneConfig \cup {<<"A", "a1", "k2">>}

Symmetric == Permutations(Processes)
=============================================================================
