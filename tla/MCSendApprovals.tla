-------------------------- MODULE MCSendApprovals --------------------------
(***************************************************************************)
(* The instance of SendApprovals whose inserts lose their answers.         *)
(***************************************************************************)
EXTENDS SendApprovals

CONSTANTS r1, r2, c1, c2, now, later, none
=============================================================================
