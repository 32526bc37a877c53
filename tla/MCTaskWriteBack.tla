--------------------------- MODULE MCTaskWriteBack ---------------------------
(***************************************************************************)
(* Instances of TaskWriteBack for TLC.                                     *)
(***************************************************************************)
EXTENDS TaskWriteBack, TLC

CONSTANTS u1, u2, x1, b1

Updates == Permutations({u1, u2})
=============================================================================
