------------------------------ MODULE MCCenter ------------------------------
(***************************************************************************)
(* EdgeRelay, Supervision and Webhooks in one run.  All are tables of the  *)
(* center, but none reads another's: of a message that supervision queues  *)
(* it keeps only the idempotency key (orders), the relay does not know     *)
(* what a message is for, and no one waits for a webhook.  So a behaviour  *)
(* here is one of a single component, and the others stay as they began.   *)
(***************************************************************************)
EXTENDS MCEdgeRelay, MCSupervision, Webhooks

CONSTANTS e1, e2, ping, bus, hand, j1, j2

VARIABLE part  \* the component that moves

CenterInit ==
  /\ part \in {"relay", "goal", "hook"}
  /\ Init /\ GoalInit /\ HookInit
  /\ part # "relay" => \A c \in Client : home[c] = Nobody  \* one of the first states

RelayPart == part = "relay" /\ Next /\ UNCHANGED <<goalVars, hookVars, part>>
GoalPart == part = "goal" /\ GoalNext /\ UNCHANGED <<vars, hookVars, part>>
HookPart == part = "hook" /\ HookNext /\ UNCHANGED <<vars, goalVars, part>>

CenterNext == RelayPart \/ GoalPart \/ HookPart

CenterSpec == CenterInit /\ [][CenterNext]_<<vars, goalVars, hookVars, part>>
=============================================================================
