--------------------------- MODULE MCControlRuntime ---------------------------
(***************************************************************************)
(* ControlRuntime for TLC: the three listeners of the control process.     *)
(***************************************************************************)
EXTENDS ControlRuntime

ControlListeners == {"probe", "outbox", "admission"}
ControlOrder == <<"probe", "outbox", "admission">>
=============================================================================
