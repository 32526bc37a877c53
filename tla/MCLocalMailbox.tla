---------------------------- MODULE MCLocalMailbox ----------------------------
(***************************************************************************)
(* Instances of LocalMailbox for TLC.                                      *)
(***************************************************************************)
EXTENDS LocalMailbox

CONSTANTS m1, m2, c1, k1, d1, d2

Row_(i, k, kd) == [client |-> c1, idem |-> i, key |-> k, kind |-> kd]

\* A continue and a permission decision, which belongs to no session.
Rows ==
  m1 :> Row_(1, k1, "continue") @@
  m2 :> Row_(2, NoKey, "decision")

Identity == [k \in {k1, NoKey} |-> k]
DrainSymmetry == Permutations(Drain)
=============================================================================
