--------------------------- MODULE MCReviewMigration ---------------------------
(***************************************************************************)
(* ReviewMigration for TLC.                                                *)
(***************************************************************************)
EXTENDS ReviewMigration
=============================================================================
