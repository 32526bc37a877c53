---------------------------- MODULE MCEdgeDelivery ----------------------------
(***************************************************************************)
(* Instances of EdgeDelivery for TLC.                                      *)
(***************************************************************************)
EXTENDS EdgeDelivery, TLC

CONSTANTS m1, c1, w1, k1, d1, d2

Row_(i, k, kd, mx) ==
  [client |-> c1, workspace |-> w1, tenant |-> 1, idem |-> i, key |-> k, kind |-> kd, max |-> mx]

OneContinue == m1 :> Row_(1, k1, "continue", 2)

AnyFilter == [kinds: {{"assist", "continue", "watched"}}, tenants: {{0, 1}}]
Identity == [k \in Key \cup {NoKey} |-> k]
DrainSymmetry == Permutations(Drain)
=============================================================================
