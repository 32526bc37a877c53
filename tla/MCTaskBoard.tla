----------------------------- MODULE MCTaskBoard -----------------------------
(***************************************************************************)
(* TaskBoard alone.                                                        *)
(***************************************************************************)
EXTENDS TaskBoard

CONSTANTS timer, hand
=============================================================================
