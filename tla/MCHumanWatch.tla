---------------------------- MODULE MCHumanWatch ----------------------------
(***************************************************************************)
(* Instances of HumanWatch for TLC.                                        *)
(***************************************************************************)
EXTENDS HumanWatch, TLC
Operators == Permutations(Operator)

\* A binding outside workspace 1 does what one inside it does, save that it is
\* never polled, and no liveness is asked of it: its behaviours are in the run.
PolledInit == Init /\ binding.polled
PolledSpec == PolledInit /\ [][Next]_vars /\ Fairness
=============================================================================
