------------------------ MODULE MCPublicBindingRuntime ------------------------
(* PublicBindingRuntime for TLC: the probe and the public listener.          *)
EXTENDS PublicBindingRuntime

PublicListeners == {"probe", "public"}

\* An empty outbox, and one with two rows and gaps.
MCOutboxes == {<<>>, <<Row("synthetic", 1, 2), Row("v2", 2, 4)>>}
=============================================================================
