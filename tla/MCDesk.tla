------------------------------- MODULE MCDesk -------------------------------
(***************************************************************************)
(* TaskWriteBack, Permissions and TaskBoard in one run.  The three share   *)
(* no state: a local task of an edge, a permission request and a task of   *)
(* the center's board are rows of different tables, and no handler of one  *)
(* writes another's (that a Worker waits for a permission is a state of    *)
(* the Worker to the board).  So a behaviour here is one of a single       *)
(* component, and the others stay as they began.                           *)
(***************************************************************************)
EXTENDS MCTaskWriteBack, Permissions, TaskBoard

CONSTANTS k1, timer, hand

VARIABLE part  \* the component that moves

DeskInit ==
  /\ part \in {"local", "request", "board"}
  /\ Init /\ RequestInit /\ BoardInit
  /\ part # "request" => ~ dangerous /\ ~ open  \* one of the states that rest
  /\ part # "board" => column = "inbox"

LocalPart == part = "local" /\ Next /\ UNCHANGED <<requestVars, boardVars, part>>
RequestPart == part = "request" /\ RequestNext /\ UNCHANGED <<vars, boardVars, part>>
BoardPart == part = "board" /\ BoardNext /\ UNCHANGED <<vars, requestVars, part>>

DeskNext == LocalPart \/ RequestPart \/ BoardPart

DeskSpec == DeskInit /\ [][DeskNext]_<<vars, requestVars, boardVars, part>>
=============================================================================
