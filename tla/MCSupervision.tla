---------------------------- MODULE MCSupervision ----------------------------
(* One goal, whose plans have two tasks: independent ones, or the second   *)
(* needs the first.                                                        *)
EXTENDS Supervision, TLC
CONSTANTS a, b
MCDrafts == {(a :> {}) @@ (b :> {}), (a :> {}) @@ (b :> {a})}
Perms == Permutations(Workers)
=============================================================================
