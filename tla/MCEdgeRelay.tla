----------------------------- MODULE MCEdgeRelay -----------------------------
(***************************************************************************)
(* An instance of EdgeRelay for TLC.                                       *)
(***************************************************************************)
EXTENDS EdgeRelay

CONSTANTS m1, m2, m3, c1, w1, w2, k1

Row_(w, t, i, k, kd, mx) ==
  [client |-> c1, workspace |-> w, tenant |-> t, idem |-> i, key |-> k, kind |-> kd, max |-> mx]

\* A watch reply that may be retried once and an assist request of one Worker
\* session, both with the same idempotency key but of different tenants (one
\* of them NULL), and a task mutation of another workspace that repeats the
\* key of the first.
Rows ==
  m1 :> Row_(w1, 1, 1, k1, "watched", 2) @@
  m2 :> Row_(w1, 0, 1, k1, "assist", 2) @@
  m3 :> Row_(w2, 1, 1, NoKey, "mutation", 1)

\* A caller without a tenant, and one of the first tenant.
AnyFilter == [kinds: {Kind}, tenants: {{0, 1}, {1}}]
Identity == [k \in Key \cup {NoKey} |-> k]
=============================================================================
