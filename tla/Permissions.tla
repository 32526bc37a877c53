----------------------------- MODULE Permissions -----------------------------
(***************************************************************************)
(* One permission request of a Worker: the copy of the center and the copy *)
(* of the edge (permission-requests.ts of both programs), the snapshots    *)
(* the center's bridge sends down, the decisions and replies the edge      *)
(* sends up, its outbox for decisions taken offline, the steward that      *)
(* judges on the edge, and the Worker that waits on the edge's copy.       *)
(*                                                                         *)
(* Of an option only its action counts: "approve" approves, all others     *)
(* ("deny", "ask_human") deny.  Of the context only the idempotency keys   *)
(* of its audit list are kept.  Deciders other than the steward are all    *)
(* "human" here, since the code tells only the steward apart.              *)
(***************************************************************************)
EXTENDS Naturals, Sequences

CONSTANTS
  Key,      \* idempotency keys of replies observed in the Worker's session
  Cap       \* decisions and replies made at the edge, and lost connections

VARIABLES
  dangerous,  \* the text matches a dangerous-action rule; never changes
  lapsed,     \* expires_at has passed
  status,     \* of each copy, "absent" when there is no row
  keys,       \* idempotency keys in the audit list of each copy
  rows,       \* permission_request_decisions of each database
  open,       \* the bridge is connected
  down, up,   \* what its socket holds in each direction
  missed,     \* a snapshot never reached the edge
  edgeChose,  \* the edge's copy was changed there, not by a snapshot
  judging,    \* the steward is being asked
  outbox,     \* pending rows "permission_decision_sync", by action
  forwarding, \* a decision of the center is on its way to the exec gateway
  told,       \* what the waiting Worker was told
  spent       \* of Cap

channel == <<open, down, up, missed, spent>>
copies == <<status, keys, rows>>
edgeWork == <<judging, outbox, edgeChose>>
requestVars == <<dangerous, lapsed, copies, channel, edgeWork, forwarding, told>>

Side == {"center", "edge"}
Action == {"approve", "deny"}
Decider == {"human", "steward"}
Final == {"approved", "denied", "expired"}
NoKey == "none"

\* Mutant: the status is the action of the option.
OutcomeIsAction(a) == IF a = "approve" THEN "approved" ELSE a

OutcomeOf(a) == IF a = "approve" THEN "approved" ELSE "denied"

\* enqueuePermissionDecisionSync names the request and the option.
QueuedKey(a) == a
AuditKey == Key \cup Action
DecisionRow == [outcome : {"approved", "denied"}, by : Decider]
Snapshot == [status : {"pending"} \cup Final, keys : SUBSET AuditKey]
Message ==
  [kind : {"decision"}, action : Action, key : {NoKey}]
    \cup [kind : {"reply"}, action : Action, key : Key]

RequestTypeOK ==
  /\ dangerous \in BOOLEAN /\ lapsed \in BOOLEAN
  /\ status \in [Side -> {"absent", "pending"} \cup Final]
  /\ keys \in [Side -> SUBSET AuditKey]
  /\ rows \in [Side -> Seq(DecisionRow)]
  /\ open \in BOOLEAN /\ missed \in BOOLEAN
  /\ down \in Seq(Snapshot) /\ up \in Seq(Message)
  /\ edgeChose \in BOOLEAN /\ judging \in BOOLEAN
  /\ outbox \subseteq Action
  /\ forwarding \in BOOLEAN
  /\ told \in {"nothing"} \cup Final
  /\ spent \in Nat

RequestInit ==
  /\ dangerous \in BOOLEAN /\ lapsed = FALSE
  /\ status = [s \in Side |-> "absent"]
  /\ keys = [s \in Side |-> {}] /\ rows = [s \in Side |-> <<>>]
  /\ open \in BOOLEAN /\ missed = FALSE
  /\ down = <<>> /\ up = <<>>
  /\ edgeChose = FALSE /\ judging = FALSE /\ outbox = {}
  /\ forwarding = FALSE
  /\ told = "nothing"
  /\ spent = 0

-----------------------------------------------------------------------------
\* The center's bridge answers an event with a snapshot of the new row; a
\* client that is not connected does not get it, then or later.
Publish ==
  /\ down' = IF open
             THEN Append(down, [status |-> status'["center"], keys |-> keys'["center"]])
             ELSE down
  /\ missed' = (missed \/ ~ open)

Quiet == UNCHANGED <<down, missed>>

\* Mutant: only decisions are broadcast, not that the request expired.
PublishDecision(s) ==
  IF s = "center" /\ rows' # rows THEN Publish ELSE Quiet

\* decidePermissionRequest broadcasts whenever it changed the status.
PublishChange(s) ==
  IF s = "center" /\ status' # status THEN Publish ELSE Quiet

\* Mutant: the edge leaves the policy to the center.
ForbiddenAtCenter(s, a, by) ==
  s = "center" /\ dangerous /\ by = "steward" /\ a = "approve"

\* "Steward agent cannot approve dangerous action permission requests".
Forbidden(s, a, by) == dangerous /\ by = "steward" /\ a = "approve"

Audit(s, k) == keys' = [keys EXCEPT ![s] = @ \cup ({k} \cap AuditKey)]

\* Mutant: the status is read before the transaction only.
OpenOrDecided(s) == status[s] \in {"pending", "approved", "denied"}

IsPending(s) == status[s] = "pending"

\* decidePermissionRequest returns a row instead of throwing an error.
Succeeds(s, a, by) == IsPending(s) /\ ~ lapsed /\ ~ Forbidden(s, a, by)

DecisionTaken(s, a, by, k) ==
  /\ Succeeds(s, a, by) /\ k \notin keys[s]
  /\ status' = [status EXCEPT ![s] = OutcomeOf(a)]
  /\ rows' = [rows EXCEPT ![s] = Append(@, [outcome |-> OutcomeOf(a), by |-> by])]
  /\ Audit(s, k)

DecisionExpires(s) ==
  /\ status[s] = "pending" /\ lapsed
  /\ status' = [status EXCEPT ![s] = "expired"]
  /\ UNCHANGED <<keys, rows>>

DecisionForbidden(s, a, by, k) ==
  /\ status[s] = "pending" /\ ~ lapsed /\ Forbidden(s, a, by)
  /\ Audit(s, k)
  /\ UNCHANGED <<status, rows>>

\* Not found, decided before, or done under this key: nothing changes.
DecisionIgnored(s, a, by, k) ==
  /\ ~ IsPending(s) \/ (Succeeds(s, a, by) /\ k \in keys[s])
  /\ UNCHANGED copies

\* decidePermissionRequest, which the two programs share.
Decide(s, a, by, k) ==
  /\ \/ DecisionTaken(s, a, by, k)
     \/ DecisionExpires(s)
     \/ DecisionForbidden(s, a, by, k)
     \/ DecisionIgnored(s, a, by, k)
  /\ PublishChange(s)

\* recordWorkerHumanReply.  A late reply is audited under its key, and the
\* row is broadcast again though its status is as it was.
Reply(s, a, k) ==
  \/ /\ k \in keys[s] \/ status[s] = "absent"
     /\ UNCHANGED copies /\ Quiet
  \/ /\ k \notin keys[s] /\ status[s] \in Final
     /\ Audit(s, k)
     /\ UNCHANGED <<status, rows>>
     /\ IF s = "center" THEN Publish ELSE Quiet
  \/ /\ k \notin keys[s] /\ status[s] = "pending"
     /\ Decide(s, a, "human", k)

\* The decision of a gateway's exec approval is forwarded to the gateway.
MayForward ==
  forwarding' \in IF rows'["center"] # rows["center"] THEN BOOLEAN ELSE {forwarding}

-----------------------------------------------------------------------------
\* POST /api/permission-requests or the mirror of the gateway's exec
\* approvals, on either program; an id is taken once in each database.
Create(s) ==
  /\ status[s] = "absent"
  /\ status' = [status EXCEPT ![s] = "pending"]
  /\ UNCHANGED <<keys, rows>>
  /\ IF s = "center" THEN Publish ELSE Quiet
  /\ UNCHANGED <<dangerous, lapsed, open, up, spent, edgeWork, forwarding, told>>

Lapse ==
  /\ ~ lapsed /\ lapsed' = TRUE
  /\ UNCHANGED <<dangerous, copies, channel, edgeWork, forwarding, told>>

\* The center's decision route; whoever calls it says who decides.
CenterDecides ==
  /\ \E a \in Action, by \in Decider : Decide("center", a, by, NoKey)
  /\ MayForward
  /\ UNCHANGED <<dangerous, lapsed, open, up, spent, edgeWork, told>>

\* The center's worker-human-reply route.
CenterReply ==
  /\ \E a \in Action, k \in Key : Reply("center", a, k)
  /\ UNCHANGED <<dangerous, lapsed, open, up, spent, edgeWork, forwarding, told>>

\* Applied or failed, the gateway's answer is patched into the context.
Forwarded ==
  /\ forwarding /\ forwarding' = FALSE
  /\ UNCHANGED copies
  /\ Publish
  /\ UNCHANGED <<dangerous, lapsed, open, up, spent, edgeWork, told>>

\* permission_decision_sync and worker_human_reply_sync at the center.
Receive ==
  /\ up # <<>> /\ up' = Tail(up)
  /\ LET m == Head(up) IN
     \/ m.kind = "decision" /\ Decide("center", m.action, "steward", NoKey) /\ MayForward
     \/ m.kind = "reply" /\ Reply("center", m.action, m.key) /\ UNCHANGED forwarding
  /\ UNCHANGED <<dangerous, lapsed, open, spent, edgeWork, told>>

-----------------------------------------------------------------------------
\* permission_request_sync: the snapshot overwrites the edge's copy, and a
\* harmless pending request is put to the steward.
Deliver ==
  /\ down # <<>> /\ down' = Tail(down)
  /\ status' = [status EXCEPT !["edge"] = Head(down).status]
  /\ keys' = [keys EXCEPT !["edge"] = Head(down).keys]
  /\ judging' = (judging \/ (Head(down).status = "pending" /\ ~ dangerous))
  /\ UNCHANGED <<dangerous, lapsed, rows, open, up, missed, spent, edgeChose,
                 outbox, forwarding, told>>

PushUp(kind, a, k) == up' = Append(up, [kind |-> kind, action |-> a, key |-> k])

Spend == spent < Cap /\ spent' = spent + 1

\* The judge's verdict is pushed, whatever became of the request meanwhile;
\* without a steward, a verdict or a connection nothing is.
JudgeAnswers ==
  /\ judging /\ judging' = FALSE
  /\ \/ open /\ \E a \in Action : PushUp("decision", a, NoKey)
     \/ UNCHANGED up
  /\ UNCHANGED <<dangerous, lapsed, copies, open, down, missed, spent, edgeChose,
                 outbox, forwarding, told>>

\* The edge's decision route for a steward while the bridge is connected and
\* its worker-human-reply route: the center decides, not this copy.
EdgePushes ==
  /\ open /\ Spend
  /\ \/ status["edge"] # "absent" /\ \E a \in Action : PushUp("decision", a, NoKey)
     \/ \E a \in Action, k \in Key : PushUp("reply", a, k)
  /\ UNCHANGED <<dangerous, lapsed, copies, open, down, missed, edgeWork,
                 forwarding, told>>

ChosenAtEdge == edgeChose' = (edgeChose \/ status' # status)

\* The same offline: the decision is queued for the center, then taken here.
EdgeStewardOffline ==
  /\ ~ open /\ status["edge"] # "absent" /\ Spend
  /\ \E a \in Action :
       /\ outbox' = outbox \cup {QueuedKey(a)}
       /\ Decide("edge", a, "steward", NoKey)
  /\ ChosenAtEdge
  /\ UNCHANGED <<dangerous, lapsed, open, up, judging, forwarding, told>>

\* Decisions of humans at the edge and those the mailbox brings, by anybody.
EdgeDecides ==
  /\ Spend
  /\ \E a \in Action, by \in Decider : Decide("edge", a, by, NoKey)
  /\ ChosenAtEdge
  /\ UNCHANGED <<dangerous, lapsed, open, up, judging, outbox, forwarding, told>>

EdgeReplyOffline ==
  /\ ~ open /\ Spend
  /\ \E a \in Action, k \in Key : Reply("edge", a, k)
  /\ ChosenAtEdge
  /\ UNCHANGED <<dangerous, lapsed, open, up, judging, outbox, forwarding, told>>

\* Mutant: what the center refuses is given up.
GivenUp(a) == outbox \ {a}

\* What flushOutbox keeps when the center refused its request.
KeptAfterRefusal(a) == outbox

\* flushOutbox posts a queued decision to the center's decision route over
\* HTTP.  The answer may be lost; "sent" needs one that says ok.
Flush ==
  /\ \E a \in outbox :
       /\ Decide("center", a, "steward", QueuedKey(a))
       /\ outbox' \in IF Succeeds("center", a, "steward") THEN {outbox, outbox \ {a}}
                      ELSE {KeptAfterRefusal(a)}
  /\ MayForward
  /\ UNCHANGED <<dangerous, lapsed, open, up, spent, judging, edgeChose, told>>

-----------------------------------------------------------------------------
\* The socket closes with what it holds.
Disconnect ==
  /\ open /\ open' = FALSE /\ Spend
  /\ missed' = (missed \/ down # <<>>)
  /\ down' = <<>> /\ up' = <<>>
  /\ UNCHANGED <<dangerous, lapsed, copies, edgeWork, forwarding, told>>

\* A new connection transfers nothing that was missed.
Connect ==
  /\ ~ open /\ open' = TRUE
  /\ UNCHANGED <<dangerous, lapsed, copies, down, up, missed, spent, edgeWork,
                 forwarding, told>>

\* waitForPermissionRequestDecision on the edge; a wait that timed out may be
\* repeated.
WorkerIsTold ==
  /\ told = "nothing" /\ status["edge"] \in Final
  /\ told' = status["edge"]
  /\ UNCHANGED <<dangerous, lapsed, copies, channel, edgeWork, forwarding>>

CenterStep == Create("center") \/ CenterDecides \/ CenterReply \/ Forwarded \/ Receive
EdgeStep ==
  \/ Create("edge") \/ Deliver \/ JudgeAnswers \/ EdgePushes \/ EdgeStewardOffline
  \/ EdgeDecides \/ EdgeReplyOffline \/ Flush
RequestNext == CenterStep \/ EdgeStep \/ Lapse \/ Disconnect \/ Connect \/ WorkerIsTold

RequestSpec == RequestInit /\ [][RequestNext]_requestVars

-----------------------------------------------------------------------------
\* Four paths decide a request at the center (its own route, the bridge, the
\* edge's outbox and the reply in the session), late and repeated: the first
\* decision or its expiry stands, with one row that records it.
CenterFinal ==
  [][status["center"] \in Final =>
       status'["center"] = status["center"] /\ rows'["center"] = rows["center"]]_requestVars

\* When no snapshot was missed and none is on the way, an edge that took no
\* decision of its own shows what the center shows, however often the two
\* were connected, replies came late and forwards were patched in between.
EdgeFollows ==
  ~ missed /\ down = <<>> /\ ~ edgeChose /\ status["center"] # "absent" =>
    status["edge"] = status["center"]

\* A Worker that asked for something dangerous is told "approved", and a copy
\* shows it, only if a decision row of a human says so, whichever side took
\* it and whichever way it came.
DangerousByHuman ==
  dangerous /\ (told = "approved" \/ \E s \in Side : status[s] = "approved") =>
    \E s \in Side : \E i \in DOMAIN rows[s] : rows[s][i] = [outcome |-> "approved", by |-> "human"]

\* A decision the steward took offline stays in the outbox until the center
\* has decided the request.
OfflineDecisionKept ==
  [][\A a \in outbox : a \notin outbox' => status'["center"] \in {"approved", "denied"}]_requestVars

=============================================================================
