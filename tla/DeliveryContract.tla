--------------------------- MODULE DeliveryContract ---------------------------
(***************************************************************************)
(* What the reliable mailbox promises to the programs that put a message   *)
(* into it, without leases, inboxes, receipts or a network: a message is   *)
(* reported as delivered only after it ran at the edge, a settled message  *)
(* stays settled, and a session message does not run again once it was     *)
(* reported as delivered.  A dropped message may still run: the edge may   *)
(* have taken it before the operator cancelled it.                         *)
(*                                                                         *)
(* The edge knows a message by its idempotency key alone.  Messages that   *)
(* it cannot tell apart are Twins: the run of one of them is taken for     *)
(* that of the other.                                                      *)
(***************************************************************************)
EXTENDS Naturals

CONSTANTS
  Message,   \* messages
  Twins,     \* the messages whose run counts as the run of each, itself included
  Session,   \* those that write into a Worker session and have no other twin
  RunCap     \* runs are counted up to here

VARIABLES fate, ran

Fate == {"none", "open", "delivered", "dropped"}

Init == fate = [m \in Message |-> "none"] /\ ran = [m \in Message |-> 0]

Offer(m) ==
  /\ fate[m] = "none"
  /\ fate' = [fate EXCEPT ![m] = "open"]
  /\ UNCHANGED ran

Run(m) ==
  /\ fate[m] # "none"
  /\ fate[m] = "delivered" => m \notin Session
  /\ ran[m] < RunCap
  /\ ran' = [ran EXCEPT ![m] = @ + 1]
  /\ UNCHANGED fate

Deliver(m) ==
  /\ fate[m] = "open"
  /\ \E n \in Twins[m] : ran[n] > 0
  /\ fate' = [fate EXCEPT ![m] = "delivered"]
  /\ UNCHANGED ran

Drop(m) ==
  /\ fate[m] = "open"
  /\ fate' = [fate EXCEPT ![m] = "dropped"]
  /\ UNCHANGED ran

Next == \E m \in Message : Offer(m) \/ Run(m) \/ Deliver(m) \/ Drop(m)

Spec == Init /\ [][Next]_<<fate, ran>>
=============================================================================
