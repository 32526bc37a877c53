-------------------------- MODULE PermissionsProofs --------------------------
(***************************************************************************)
(* What holds of a permission request for any reply keys and any number of *)
(* calls and lost connections.  The two copies change only through         *)
(* decidePermissionRequest, recordWorkerHumanReply and snapshots; CopyStep *)
(* says what the first two may do to a copy and to the bridge, and every   *)
(* theorem is an argument over it.                                         *)
(***************************************************************************)
EXTENDS Permissions, TLAPS

HumanApproved ==
  \E s \in Side : \E i \in DOMAIN rows[s] : rows[s][i] = [outcome |-> "approved", by |-> "human"]

\* A snapshot carries an approval as well as a copy does, and the Worker's
\* answer outlives both.
HumanBehind ==
  dangerous /\ (\/ told = "approved"
                \/ \E s \in Side : status[s] = "approved"
                \/ \E i \in DOMAIN down : down[i].status = "approved") => HumanApproved

\* The newest snapshot on the way, or else the edge's copy, shows the center.
NewestShown ==
  ~ missed /\ ~ edgeChose /\ status["center"] # "absent" =>
    IF down = <<>> THEN status["edge"] = status["center"]
    ELSE down[Len(down)].status = status["center"]

ForwardsDecided == forwarding => status["center"] \in Final

CopyTypes ==
  /\ status' \in [Side -> {"absent", "pending"} \cup Final]
  /\ keys' \in [Side -> SUBSET AuditKey]
  /\ rows' \in [Side -> Seq(DecisionRow)]

CopyStep(s) ==
  /\ CopyTypes
  /\ \A t \in Side : t # s => status'[t] = status[t] /\ rows'[t] = rows[t]
  /\ status[s] # "pending" => status'[s] = status[s] /\ rows'[s] = rows[s]
  /\ status'[s] # status[s] => status'[s] \in Final
  /\ rows'[s] # rows[s] => status'[s] \in {"approved", "denied"}
  /\ HumanApproved => HumanApproved'
  /\ dangerous /\ status'[s] = "approved" /\ status[s] # "approved" => HumanApproved'
  /\ \/ Publish /\ s = "center" /\ status'["center"] # "absent"
     \/ Quiet /\ (s = "center" => status'["center"] = status["center"])

-----------------------------------------------------------------------------
\* A decision row is appended, never rewritten.
LEMMA RowsGrow ==
  ASSUME RequestTypeOK, NEW s \in Side, NEW r \in DecisionRow,
         rows' = [rows EXCEPT ![s] = Append(@, r)]
  PROVE  /\ rows' \in [Side -> Seq(DecisionRow)]
         /\ HumanApproved => HumanApproved'
         /\ r = [outcome |-> "approved", by |-> "human"] => HumanApproved'
<1>1. rows \in [Side -> Seq(DecisionRow)]
  BY DEF RequestTypeOK
<1>2. rows'[s] = Append(rows[s], r) /\ rows[s] \in Seq(DecisionRow)
  BY <1>1
<1>3. /\ \A i \in DOMAIN rows[s] : i \in DOMAIN rows'[s] /\ rows'[s][i] = rows[s][i]
      /\ Len(rows[s]) + 1 \in DOMAIN rows'[s] /\ rows'[s][Len(rows[s]) + 1] = r
  BY <1>2
<1>4. rows' \in [Side -> Seq(DecisionRow)]
  BY <1>1, <1>2
<1>5. ASSUME HumanApproved
      PROVE  HumanApproved'
  <2>1. PICK t \in Side : \E i \in DOMAIN rows[t] : rows[t][i] = [outcome |-> "approved", by |-> "human"]
    BY <1>5 DEF HumanApproved
  <2>2. CASE t = s
    BY <1>3, <2>1, <2>2 DEF HumanApproved
  <2>3. CASE t # s
    <3>1. rows'[t] = rows[t]
      BY <1>1, <2>3
    <3> QED
      BY <2>1, <3>1 DEF HumanApproved
  <2> QED
    BY <2>2, <2>3
<1>6. ASSUME r = [outcome |-> "approved", by |-> "human"]
      PROVE  HumanApproved'
  BY <1>3, <1>6 DEF HumanApproved
<1> QED
  BY <1>4, <1>5, <1>6

\* decidePermissionRequest, on either side and for any decider.
LEMMA DecideStep ==
  ASSUME RequestTypeOK, NEW s \in Side, NEW a \in Action, NEW by \in Decider,
         NEW k \in AuditKey \cup {NoKey}, Decide(s, a, by, k)
  PROVE  CopyStep(s)
<1>0. /\ status \in [Side -> {"absent", "pending"} \cup Final]
      /\ keys \in [Side -> SUBSET AuditKey] /\ rows \in [Side -> Seq(DecisionRow)]
  BY DEF RequestTypeOK
<1>1. CASE DecisionTaken(s, a, by, k)
  <2>1. /\ status[s] = "pending" /\ ~ Forbidden(s, a, by)
        /\ status' = [status EXCEPT ![s] = OutcomeOf(a)]
        /\ rows' = [rows EXCEPT ![s] = Append(@, [outcome |-> OutcomeOf(a), by |-> by])]
        /\ keys' = [keys EXCEPT ![s] = @ \cup ({k} \cap AuditKey)]
    BY <1>1 DEF DecisionTaken, Succeeds, IsPending, Audit
  <2>2. OutcomeOf(a) \in {"approved", "denied"} /\ (OutcomeOf(a) = "approved" <=> a = "approve")
    BY DEF OutcomeOf, Action
  <2>3. [outcome |-> OutcomeOf(a), by |-> by] \in DecisionRow
    BY <2>2 DEF DecisionRow
  <2>4. /\ rows' \in [Side -> Seq(DecisionRow)]
        /\ HumanApproved => HumanApproved'
        /\ [outcome |-> OutcomeOf(a), by |-> by] = [outcome |-> "approved", by |-> "human"] => HumanApproved'
    BY <2>1, <2>3, RowsGrow
  <2>5. /\ status'[s] = OutcomeOf(a)
        /\ \A t \in Side : t # s => status'[t] = status[t] /\ rows'[t] = rows[t]
        /\ status' \in [Side -> {"absent", "pending"} \cup Final]
        /\ keys' \in [Side -> SUBSET AuditKey]
    BY <1>0, <2>1, <2>2 DEF Final
  <2>6. dangerous /\ status'[s] = "approved" => by = "human" /\ a = "approve"
    BY <2>1, <2>2, <2>5 DEF Forbidden, Decider
  <2>7. status'[s] # status[s] /\ status' # status
    BY <2>1, <2>2, <2>5
  <2>8. \/ Publish /\ s = "center"
        \/ Quiet /\ s # "center"
    BY <2>7 DEF Decide, PublishChange
  <2> QED
    BY <2>1, <2>2, <2>4, <2>5, <2>6, <2>7, <2>8 DEF CopyStep, CopyTypes, Final
<1>2. CASE DecisionExpires(s)
  <2>1. /\ status[s] = "pending" /\ status' = [status EXCEPT ![s] = "expired"]
        /\ rows' = rows /\ keys' = keys
    BY <1>2 DEF DecisionExpires
  <2>2. /\ status'[s] = "expired" /\ status' # status
        /\ \A t \in Side : t # s => status'[t] = status[t]
        /\ status' \in [Side -> {"absent", "pending"} \cup Final]
    BY <1>0, <2>1 DEF Final
  <2>3. \/ Publish /\ s = "center"
        \/ Quiet /\ s # "center"
    BY <2>2 DEF Decide, PublishChange
  <2>4. HumanApproved => HumanApproved'
    BY <2>1 DEF HumanApproved
  <2> QED
    BY <1>0, <2>1, <2>2, <2>3, <2>4 DEF CopyStep, CopyTypes, Final
<1>3. CASE DecisionForbidden(s, a, by, k) \/ DecisionIgnored(s, a, by, k)
  <2>1. /\ status' = status /\ rows' = rows
        /\ keys' \in [Side -> SUBSET AuditKey]
    BY <1>0, <1>3 DEF DecisionForbidden, DecisionIgnored, Audit, copies
  <2>2. Quiet
    BY <2>1 DEF Decide, PublishChange
  <2>3. HumanApproved => HumanApproved'
    BY <2>1 DEF HumanApproved
  <2> QED
    BY <1>0, <2>1, <2>2, <2>3 DEF CopyStep, CopyTypes
<1> QED
  BY <1>1, <1>2, <1>3 DEF Decide

\* recordWorkerHumanReply, early or late.
LEMMA ReplyStep ==
  ASSUME RequestTypeOK, NEW s \in Side, NEW a \in Action, NEW k \in Key, Reply(s, a, k)
  PROVE  CopyStep(s)
<1>0. /\ status \in [Side -> {"absent", "pending"} \cup Final]
      /\ keys \in [Side -> SUBSET AuditKey] /\ rows \in [Side -> Seq(DecisionRow)]
  BY DEF RequestTypeOK
<1>1. CASE UNCHANGED copies /\ Quiet
  <2>1. status' = status /\ rows' = rows /\ keys' = keys
    BY <1>1 DEF copies
  <2>2. HumanApproved => HumanApproved'
    BY <2>1 DEF HumanApproved
  <2> QED
    BY <1>0, <1>1, <2>1, <2>2 DEF CopyStep, CopyTypes
<1>2. CASE /\ status[s] \in Final /\ Audit(s, k) /\ UNCHANGED <<status, rows>>
           /\ IF s = "center" THEN Publish ELSE Quiet
  <2>1. /\ status' = status /\ rows' = rows
        /\ keys' \in [Side -> SUBSET AuditKey]
    BY <1>0, <1>2 DEF Audit
  <2>2. HumanApproved => HumanApproved'
    BY <2>1 DEF HumanApproved
  <2> QED
    BY <1>0, <1>2, <2>1, <2>2 DEF CopyStep, CopyTypes, Final
<1>3. CASE Decide(s, a, "human", k)
  BY <1>3, DecideStep DEF Decider, AuditKey
<1> QED
  BY <1>1, <1>2, <1>3 DEF Reply

-----------------------------------------------------------------------------
IInv == RequestTypeOK /\ ForwardsDecided /\ HumanBehind /\ NewestShown

\* A snapshot of a row that exists is one.
LEMMA PublishTypes ==
  ASSUME RequestTypeOK, CopyTypes, Publish, status'["center"] # "absent"
  PROVE  /\ down' \in Seq(Snapshot) /\ missed' \in BOOLEAN
         /\ open => /\ down' # <<>> /\ down'[Len(down')].status = status'["center"]
                    /\ \A i \in DOMAIN down' : \/ i \in DOMAIN down /\ down'[i] = down[i]
                                               \/ down'[i].status = status'["center"]
         /\ ~ open => missed' /\ down' = down
<1> DEFINE new == [status |-> status'["center"], keys |-> keys'["center"]]
<1>1. new \in Snapshot
  BY DEF CopyTypes, Snapshot, Side, Final
<1>2. down \in Seq(Snapshot) /\ open \in BOOLEAN /\ missed \in BOOLEAN
  BY DEF RequestTypeOK
<1>3. down' = (IF open THEN Append(down, new) ELSE down) /\ missed' = (missed \/ ~ open)
  BY DEF Publish
<1>4. new.status = status'["center"]
  OBVIOUS
<1> HIDE DEF new
<1>5. CASE open
  BY <1>1, <1>2, <1>3, <1>4, <1>5
<1>6. CASE ~ open
  BY <1>2, <1>3, <1>6
<1> QED
  BY <1>5, <1>6

\* So a change of a copy through the two functions keeps the invariant.
LEMMA CopyStepKeeps ==
  ASSUME IInv, NEW s \in Side, CopyStep(s), told' = told, dangerous' = dangerous,
         s = "center" => edgeChose' = edgeChose, s = "edge" => ChosenAtEdge
  PROVE  down' \in Seq(Snapshot) /\ missed' \in BOOLEAN /\ HumanBehind' /\ NewestShown'
<1>0. /\ RequestTypeOK /\ HumanBehind /\ NewestShown /\ CopyTypes
      /\ status \in [Side -> {"absent", "pending"} \cup Final]
      /\ open \in BOOLEAN /\ missed \in BOOLEAN /\ edgeChose \in BOOLEAN
      /\ down \in Seq(Snapshot)
  BY DEF IInv, RequestTypeOK, CopyStep
<1>1. /\ \A t \in Side : t # s => status'[t] = status[t]
      /\ HumanApproved => HumanApproved'
      /\ dangerous /\ status'[s] = "approved" /\ status[s] # "approved" => HumanApproved'
  BY DEF CopyStep
<1>2. dangerous /\ (\E t \in Side : status'[t] = "approved") => HumanApproved'
  BY <1>0, <1>1 DEF HumanBehind
<1>3. CASE Publish /\ s = "center" /\ status'["center"] # "absent"
  <2>1. /\ down' \in Seq(Snapshot) /\ missed' \in BOOLEAN
        /\ open => /\ down' # <<>> /\ down'[Len(down')].status = status'["center"]
                   /\ \A i \in DOMAIN down' : \/ i \in DOMAIN down /\ down'[i] = down[i]
                                              \/ down'[i].status = status'["center"]
        /\ ~ open => missed' /\ down' = down
    BY <1>0, <1>3, PublishTypes
  <2>2. HumanBehind'
    <3>1. ASSUME dangerous, NEW i \in DOMAIN down', down'[i].status = "approved"
          PROVE  HumanApproved'
      BY <1>0, <1>1, <1>2, <1>3, <2>1, <3>1 DEF HumanBehind, Side
    <3> QED
      BY <1>0, <1>1, <1>2, <3>1 DEF HumanBehind
  <2>3. NewestShown'
    BY <1>0, <1>3, <2>1 DEF NewestShown
  <2> QED
    BY <2>1, <2>2, <2>3
<1>4. CASE Quiet /\ (s = "center" => status'["center"] = status["center"])
  <2>1. down' = down /\ missed' = missed
    BY <1>4 DEF Quiet
  <2>2. HumanBehind'
    BY <1>0, <1>1, <1>2, <2>1 DEF HumanBehind
  <2>3. NewestShown'
    <3>1. CASE s = "center"
      BY <1>0, <1>1, <1>4, <2>1, <3>1 DEF NewestShown, Side
    <3>2. CASE s = "edge"
      BY <1>0, <1>1, <2>1, <3>2 DEF NewestShown, ChosenAtEdge, Side
    <3> QED
      BY <3>1, <3>2 DEF Side
  <2> QED
    BY <1>0, <2>1, <2>2, <2>3
<1> QED
  BY <1>3, <1>4 DEF CopyStep

\* The steps that take or record a decision, each with its frame.
DecidingStep(s) ==
  /\ CopyStep(s)
  /\ UNCHANGED <<told, dangerous, lapsed, open>>
  /\ s = "center" => edgeChose' = edgeChose
  /\ s = "edge" => ChosenAtEdge
  /\ up' \in Seq(Message) /\ judging' \in BOOLEAN /\ outbox' \subseteq Action /\ spent' \in Nat
  /\ forwarding' \in BOOLEAN
  /\ forwarding' => forwarding \/ (rows'["center"] # rows["center"] /\ s = "center")

\* MayForward marks decisions of the center only.
LEMMA ForwardMarks ==
  ASSUME RequestTypeOK, MayForward
  PROVE  /\ forwarding' \in BOOLEAN
         /\ forwarding' => forwarding \/ rows'["center"] # rows["center"]
BY DEF RequestTypeOK, MayForward

LEMMA CenterDeciding ==
  ASSUME RequestTypeOK, CenterDecides \/ CenterReply \/ Receive \/ Flush
  PROVE  DecidingStep("center")
<1> USE DEF Side
<1>0. /\ up \in Seq(Message) /\ judging \in BOOLEAN /\ outbox \subseteq Action
      /\ spent \in Nat /\ forwarding \in BOOLEAN
  BY DEF RequestTypeOK
<1>1. CASE CenterDecides
  <2>1. PICK a \in Action, by \in Decider : Decide("center", a, by, NoKey)
    BY <1>1 DEF CenterDecides
  <2>2. CopyStep("center")
    BY <2>1, DecideStep
  <2> QED
    BY <1>0, <1>1, <2>2, ForwardMarks DEF CenterDecides, DecidingStep, edgeWork
<1>2. CASE CenterReply
  <2>1. PICK a \in Action, k \in Key : Reply("center", a, k)
    BY <1>2 DEF CenterReply
  <2>2. CopyStep("center")
    BY <2>1, ReplyStep
  <2> QED
    BY <1>0, <1>2, <2>2 DEF CenterReply, DecidingStep, edgeWork
<1>3. CASE Receive
  <2>1. up # <<>> /\ Head(up) \in Message /\ up' = Tail(up) /\ up' \in Seq(Message)
    BY <1>0, <1>3 DEF Receive
  <2>2. CASE Decide("center", Head(up).action, "steward", NoKey) /\ MayForward
    <3>1. CopyStep("center")
      BY <2>1, <2>2, DecideStep DEF Message, Decider
    <3> QED
      BY <1>0, <1>3, <2>1, <2>2, <3>1, ForwardMarks DEF Receive, DecidingStep, edgeWork
  <2>3. CASE Head(up).kind = "reply" /\ Reply("center", Head(up).action, Head(up).key) /\ UNCHANGED forwarding
    <3>1. CopyStep("center")
      BY <2>1, <2>3, ReplyStep DEF Message
    <3> QED
      BY <1>0, <1>3, <2>1, <2>3, <3>1 DEF Receive, DecidingStep, edgeWork
  <2> QED
    BY <1>3, <2>2, <2>3 DEF Receive
<1>4. CASE Flush
  <2>1. PICK a \in outbox :
          /\ Decide("center", a, "steward", QueuedKey(a))
          /\ outbox' \in IF Succeeds("center", a, "steward") THEN {outbox, outbox \ {a}}
                         ELSE {KeptAfterRefusal(a)}
    BY <1>4 DEF Flush
  <2>2. a \in Action /\ QueuedKey(a) \in AuditKey \cup {NoKey} /\ "steward" \in Decider
    BY <1>0 DEF QueuedKey, AuditKey, Decider
  <2>3. CopyStep("center")
    BY <2>1, <2>2, DecideStep
  <2>4. outbox' \subseteq Action
    BY <1>0, <2>1 DEF KeptAfterRefusal
  <2> QED
    BY <1>0, <1>4, <2>3, <2>4, ForwardMarks DEF Flush, DecidingStep
<1> QED
  BY <1>1, <1>2, <1>3, <1>4

LEMMA EdgeDeciding ==
  ASSUME RequestTypeOK, EdgeStewardOffline \/ EdgeDecides \/ EdgeReplyOffline
  PROVE  DecidingStep("edge")
<1> USE DEF Side
<1>0. /\ up \in Seq(Message) /\ judging \in BOOLEAN /\ outbox \subseteq Action
      /\ spent \in Nat /\ forwarding \in BOOLEAN
  BY DEF RequestTypeOK
<1>1. CASE EdgeStewardOffline
  <2>1. PICK a \in Action : outbox' = outbox \cup {QueuedKey(a)} /\ Decide("edge", a, "steward", NoKey)
    BY <1>1 DEF EdgeStewardOffline
  <2>2. CopyStep("edge")
    BY <2>1, DecideStep DEF Decider
  <2> QED
    BY <1>0, <1>1, <2>1, <2>2 DEF EdgeStewardOffline, DecidingStep, QueuedKey, Spend
<1>2. CASE EdgeDecides
  <2>1. PICK a \in Action, by \in Decider : Decide("edge", a, by, NoKey)
    BY <1>2 DEF EdgeDecides
  <2>2. CopyStep("edge")
    BY <2>1, DecideStep
  <2> QED
    BY <1>0, <1>2, <2>2 DEF EdgeDecides, DecidingStep, Spend
<1>3. CASE EdgeReplyOffline
  <2>1. PICK a \in Action, k \in Key : Reply("edge", a, k)
    BY <1>3 DEF EdgeReplyOffline
  <2>2. CopyStep("edge")
    BY <2>1, ReplyStep
  <2> QED
    BY <1>0, <1>3, <2>2 DEF EdgeReplyOffline, DecidingStep, Spend
<1> QED
  BY <1>1, <1>2, <1>3

LEMMA DecidingKeeps ==
  ASSUME IInv, NEW s \in Side, DecidingStep(s)
  PROVE  IInv'
<1>1. /\ RequestTypeOK /\ CopyStep(s) /\ told' = told /\ dangerous' = dangerous
      /\ s = "center" => edgeChose' = edgeChose
      /\ s = "edge" => ChosenAtEdge
  BY DEF IInv, DecidingStep
<1>2. down' \in Seq(Snapshot) /\ missed' \in BOOLEAN /\ HumanBehind' /\ NewestShown'
  BY <1>1, CopyStepKeeps
<1>3. RequestTypeOK'
  <2>1. edgeChose' \in BOOLEAN
    BY <1>1 DEF RequestTypeOK, ChosenAtEdge, Side
  <2> QED
    BY <1>1, <1>2, <2>1 DEF RequestTypeOK, DecidingStep, CopyStep, CopyTypes
<1>4. ForwardsDecided'
  BY <1>1 DEF IInv, ForwardsDecided, DecidingStep, CopyStep, RequestTypeOK, Side, Final
<1> QED
  BY <1>2, <1>3, <1>4 DEF IInv

LEMMA EmptySequence == \A S : <<>> \in Seq(S)
OBVIOUS

\* A step that changes neither a copy's status nor the decision rows.
LEMMA SameCopies ==
  ASSUME rows' = rows
  PROVE  HumanApproved' = HumanApproved
BY DEF HumanApproved

\* A new row, and a gateway's answer patched into a decided one, are published
\* by the center; at the edge they stay there.
LEMMA PublishingKeeps ==
  ASSUME IInv, Create("center") \/ Create("edge") \/ Forwarded
  PROVE  IInv'
<1> USE DEF Side
<1>0. /\ RequestTypeOK /\ HumanBehind /\ NewestShown /\ ForwardsDecided
      /\ status \in [Side -> {"absent", "pending"} \cup Final]
      /\ down \in Seq(Snapshot) /\ open \in BOOLEAN /\ missed \in BOOLEAN
  BY DEF IInv, RequestTypeOK
<1>1. CASE Create("edge")
  <2>1. /\ status["edge"] = "absent" /\ status' = [status EXCEPT !["edge"] = "pending"]
        /\ rows' = rows /\ keys' = keys /\ down' = down /\ missed' = missed /\ told' = told
        /\ UNCHANGED <<dangerous, lapsed, open, up, spent, forwarding, judging, outbox, edgeChose>>
    BY <1>1 DEF Create, Quiet, edgeWork
  <2>2. status'["center"] = status["center"] /\ status'["edge"] = "pending"
    BY <1>0, <2>1
  <2>3. RequestTypeOK'
    BY <1>0, <2>1 DEF RequestTypeOK
  <2>4. HumanBehind'
    BY <1>0, <2>1, <2>2, SameCopies DEF HumanBehind
  <2>5. NewestShown' /\ ForwardsDecided'
    BY <1>0, <2>1, <2>2 DEF NewestShown, ForwardsDecided
  <2> QED
    BY <2>3, <2>4, <2>5 DEF IInv
<1>2. CASE Create("center") \/ Forwarded
  <2>1. /\ rows' = rows /\ keys' = keys /\ Publish /\ told' = told
        /\ status' \in [Side -> {"absent", "pending"} \cup Final]
        /\ status'["edge"] = status["edge"] /\ status'["center"] # "absent"
        /\ status'["center"] = "approved" => status["center"] = "approved"
        /\ UNCHANGED <<dangerous, lapsed, open, up, spent, judging, outbox, edgeChose>>
        /\ forwarding' \in BOOLEAN
        /\ forwarding' => forwarding /\ status["center"] = "absent"
    <3>1. CASE Create("center")
      <4>1. /\ status["center"] = "absent" /\ status' = [status EXCEPT !["center"] = "pending"]
            /\ rows' = rows /\ keys' = keys /\ Publish /\ told' = told /\ forwarding' = forwarding
            /\ UNCHANGED <<dangerous, lapsed, open, up, spent, judging, outbox, edgeChose>>
        BY <3>1 DEF Create, edgeWork
      <4>2. /\ status'["center"] = "pending" /\ status'["edge"] = status["edge"]
            /\ status' \in [Side -> {"absent", "pending"} \cup Final]
        BY <1>0, <4>1
      <4>3. forwarding \in BOOLEAN
        BY <1>0 DEF RequestTypeOK
      <4> QED
        BY <4>1, <4>2, <4>3
    <3>2. CASE Forwarded
      <4>1. /\ forwarding /\ forwarding' = FALSE /\ status' = status
            /\ rows' = rows /\ keys' = keys /\ Publish /\ told' = told
            /\ UNCHANGED <<dangerous, lapsed, open, up, spent, judging, outbox, edgeChose>>
        BY <3>2 DEF Forwarded, copies, edgeWork
      <4>2. status["center"] # "absent"
        BY <1>0, <4>1 DEF ForwardsDecided, Final
      <4> QED
        BY <1>0, <4>1, <4>2
    <3> QED
      BY <1>2, <3>1, <3>2
  <2>2. /\ down' \in Seq(Snapshot) /\ missed' \in BOOLEAN
        /\ open => /\ down' # <<>> /\ down'[Len(down')].status = status'["center"]
                   /\ \A i \in DOMAIN down' : \/ i \in DOMAIN down /\ down'[i] = down[i]
                                              \/ down'[i].status = status'["center"]
        /\ ~ open => missed' /\ down' = down
    <3>1. CopyTypes
      BY <1>0, <2>1 DEF CopyTypes, RequestTypeOK
    <3> QED
      BY <1>0, <2>1, <3>1, PublishTypes
  <2>3. RequestTypeOK'
    BY <1>0, <2>1, <2>2 DEF RequestTypeOK
  <2>4. HumanBehind'
    <3>1. ASSUME dangerous, NEW i \in DOMAIN down', down'[i].status = "approved"
          PROVE  HumanApproved
      BY <1>0, <2>1, <2>2, <3>1 DEF HumanBehind
    <3> QED
      BY <1>0, <2>1, <3>1, SameCopies DEF HumanBehind
  <2>5. NewestShown'
    BY <1>0, <2>1, <2>2 DEF NewestShown
  <2>6. ForwardsDecided'
    BY <1>0, <2>1 DEF ForwardsDecided, Final
  <2> QED
    BY <2>3, <2>4, <2>5, <2>6 DEF IInv
<1> QED
  BY <1>1, <1>2

\* The oldest snapshot overwrites the edge's copy.
LEMMA DeliverKeeps ==
  ASSUME IInv, Deliver
  PROVE  IInv'
<1> USE DEF Side
<1>0. /\ RequestTypeOK /\ HumanBehind /\ NewestShown /\ ForwardsDecided
      /\ status \in [Side -> {"absent", "pending"} \cup Final]
      /\ keys \in [Side -> SUBSET AuditKey]
      /\ down \in Seq(Snapshot) /\ judging \in BOOLEAN
  BY DEF IInv, RequestTypeOK
<1>1. /\ down # <<>> /\ down' = Tail(down)
      /\ status' = [status EXCEPT !["edge"] = Head(down).status]
      /\ keys' = [keys EXCEPT !["edge"] = Head(down).keys]
      /\ judging' \in BOOLEAN
      /\ UNCHANGED <<dangerous, lapsed, rows, open, up, missed, spent, edgeChose, outbox,
                     forwarding, told>>
  BY <1>0 DEF Deliver
<1>2. /\ Head(down) \in Snapshot /\ Head(down) = down[1] /\ 1 \in DOMAIN down
      /\ down' \in Seq(Snapshot)
      /\ \A i \in DOMAIN down' : i + 1 \in DOMAIN down /\ down'[i] = down[i + 1]
      /\ down' = <<>> => Len(down) = 1
      /\ down' # <<>> => /\ Len(down') \in DOMAIN down'
                         /\ Len(down') + 1 = Len(down)
  <2>1. /\ Len(down) \in Nat \ {0} /\ down' \in Seq(Snapshot)
        /\ Len(down') = Len(down) - 1
        /\ \A i \in 1..Len(down) - 1 : down'[i] = down[i + 1]
    BY <1>0, <1>1
  <2>2. DOMAIN down = 1..Len(down) /\ DOMAIN down' = 1..Len(down')
    BY <1>0, <2>1
  <2>3. Head(down) = down[1] /\ down[1] \in Snapshot
    BY <1>0, <1>1
  <2>4. down' = <<>> => Len(down') = 0
    OBVIOUS
  <2>5. down' # <<>> => Len(down') # 0
    BY <2>1
  <2> QED
    BY <2>1, <2>2, <2>3, <2>4, <2>5
<1>3. status'["center"] = status["center"] /\ status'["edge"] = Head(down).status
  BY <1>0, <1>1
<1>4. RequestTypeOK'
  <2>1. Head(down).status \in {"pending"} \cup Final /\ Head(down).keys \in SUBSET AuditKey
    BY <1>2 DEF Snapshot
  <2> QED
    BY <1>0, <1>1, <1>2, <2>1 DEF RequestTypeOK
<1>5. HumanBehind'
  BY <1>0, <1>1, <1>2, <1>3, SameCopies DEF HumanBehind
<1>6. NewestShown'
  <2>1. CASE down' = <<>>
    BY <1>0, <1>1, <1>2, <1>3, <2>1 DEF NewestShown
  <2>2. CASE down' # <<>>
    <3>1. down'[Len(down')] = down[Len(down)]
      BY <1>2, <2>2
    <3> QED
      BY <1>0, <1>1, <1>3, <2>2, <3>1 DEF NewestShown
  <2> QED
    BY <2>1, <2>2
<1>7. ForwardsDecided'
  BY <1>0, <1>1, <1>3 DEF ForwardsDecided
<1> QED
  BY <1>4, <1>5, <1>6, <1>7 DEF IInv

\* Steps that leave the copies, the rows and the snapshots' order alone.
LEMMA OtherStepKeeps ==
  ASSUME IInv, Lapse \/ JudgeAnswers \/ EdgePushes \/ Disconnect \/ Connect \/ WorkerIsTold
                 \/ UNCHANGED requestVars
  PROVE  IInv'
<1>0. /\ RequestTypeOK /\ HumanBehind /\ NewestShown /\ ForwardsDecided
  BY DEF IInv
<1>1. /\ status' = status /\ rows' = rows /\ keys' = keys
      /\ dangerous' = dangerous /\ edgeChose' = edgeChose /\ forwarding' = forwarding
  BY DEF Lapse, JudgeAnswers, EdgePushes, Disconnect, Connect, WorkerIsTold, requestVars, copies,
         channel, edgeWork
<1>2. (down' = down /\ missed' = missed) \/ (down' = <<>> /\ missed' = (missed \/ down # <<>>))
  BY DEF Lapse, JudgeAnswers, EdgePushes, Disconnect, Connect, WorkerIsTold, requestVars, copies,
         channel, edgeWork
<1>3. told' = told \/ (told' = status["edge"] /\ status["edge"] \in Final)
  BY DEF Lapse, JudgeAnswers, EdgePushes, Disconnect, Connect, WorkerIsTold, requestVars, copies,
         channel, edgeWork
<1>4. up' \in Seq(Message)
  <2>1. up \in Seq(Message)
    BY <1>0 DEF RequestTypeOK
  <2>2. ASSUME NEW m \in Message, up' = Append(up, m)
        PROVE  up' \in Seq(Message)
    BY <2>1, <2>2
  <2>3. \A a \in Action : [kind |-> "decision", action |-> a, key |-> NoKey] \in Message
    BY DEF Message
  <2>4. \A a \in Action, k \in Key : [kind |-> "reply", action |-> a, key |-> k] \in Message
    BY DEF Message
  <2>5. CASE JudgeAnswers \/ EdgePushes
    BY <2>1, <2>2, <2>3, <2>4, <2>5 DEF JudgeAnswers, EdgePushes, PushUp
  <2>6. CASE Lapse \/ Disconnect \/ Connect \/ WorkerIsTold \/ UNCHANGED requestVars
    <3>1. up' = up \/ up' = <<>>
      BY <2>6 DEF Lapse, Disconnect, Connect, WorkerIsTold, requestVars, channel
    <3> QED
      BY <2>1, <3>1, EmptySequence
  <2> QED
    BY <2>5, <2>6
<1>5. /\ lapsed' \in BOOLEAN /\ open' \in BOOLEAN /\ judging' \in BOOLEAN
      /\ outbox' \subseteq Action /\ spent' \in Nat
  <2>1. /\ lapsed \in BOOLEAN /\ open \in BOOLEAN /\ judging \in BOOLEAN
        /\ outbox \subseteq Action /\ spent \in Nat
    BY <1>0 DEF RequestTypeOK
  <2>2. CASE Lapse
    BY <2>1, <2>2 DEF Lapse, channel, edgeWork
  <2>3. CASE JudgeAnswers
    BY <2>1, <2>3 DEF JudgeAnswers
  <2>4. CASE EdgePushes
    BY <2>1, <2>4 DEF EdgePushes, edgeWork, Spend
  <2>5. CASE Disconnect
    <3>1. open' \in BOOLEAN
      <4>1. open' = FALSE
        BY <2>5 DEF Disconnect
      <4> QED
        BY <4>1
    <3>3. spent' = spent + 1
      BY <2>5 DEF Disconnect, Spend
    <3>2. lapsed' = lapsed /\ judging' = judging /\ outbox' = outbox
      BY <2>5 DEF Disconnect, edgeWork
    <3>4. spent' \in Nat
      BY <2>1, <3>3
    <3> QED
      BY <2>1, <3>1, <3>2, <3>4
  <2>6. CASE Connect
    BY <2>1, <2>6 DEF Connect, edgeWork
  <2>7. CASE WorkerIsTold \/ UNCHANGED requestVars
    BY <2>1, <2>7 DEF WorkerIsTold, requestVars, channel, edgeWork
  <2> QED
    BY <2>2, <2>3, <2>4, <2>5, <2>6, <2>7
<1>6. RequestTypeOK'
  <2>1. down' \in Seq(Snapshot) /\ missed' \in BOOLEAN
    <3>1. down \in Seq(Snapshot) /\ missed \in BOOLEAN
      BY <1>0 DEF RequestTypeOK
    <3>2. down' \in Seq(Snapshot)
      BY <1>2, <3>1, EmptySequence
    <3>3. missed' \in BOOLEAN
      BY <1>2, <3>1
    <3> QED
      BY <3>2, <3>3
  <2>2. told' \in {"nothing"} \cup Final
    BY <1>0, <1>3 DEF RequestTypeOK
  <2>3. /\ dangerous' \in BOOLEAN /\ edgeChose' \in BOOLEAN /\ forwarding' \in BOOLEAN
        /\ status' \in [Side -> {"absent", "pending"} \cup Final]
        /\ keys' \in [Side -> SUBSET AuditKey] /\ rows' \in [Side -> Seq(DecisionRow)]
    BY <1>0, <1>1 DEF RequestTypeOK
  <2> QED
    BY <1>4, <1>5, <2>1, <2>2, <2>3 DEF RequestTypeOK
<1>7. HumanBehind'
  BY <1>0, <1>1, <1>2, <1>3, SameCopies DEF HumanBehind, Side
<1>8. NewestShown' /\ ForwardsDecided'
  BY <1>0, <1>1, <1>2 DEF NewestShown, ForwardsDecided, RequestTypeOK
<1> QED
  BY <1>6, <1>7, <1>8 DEF IInv

-----------------------------------------------------------------------------
\* The invariant of the two copies and the bridge between them.
THEOREM Invariant == RequestSpec => []IInv
<1>1. RequestInit => IInv
  <2> SUFFICES ASSUME RequestInit
               PROVE  IInv
    OBVIOUS
  <2>1. /\ status = [s \in Side |-> "absent"] /\ keys = [s \in Side |-> {}]
        /\ rows = [s \in Side |-> <<>>] /\ down = <<>> /\ up = <<>> /\ told = "nothing"
        /\ dangerous \in BOOLEAN /\ open \in BOOLEAN /\ lapsed = FALSE /\ missed = FALSE
        /\ edgeChose = FALSE /\ judging = FALSE /\ outbox = {} /\ forwarding = FALSE
        /\ spent = 0
    BY DEF RequestInit
  <2>2. /\ \A s \in Side : status[s] = "absent"
        /\ DOMAIN down = {}
    BY <2>1
  <2>3. RequestTypeOK
    <3>1. rows \in [Side -> Seq(DecisionRow)] /\ down \in Seq(Snapshot) /\ up \in Seq(Message)
      BY <2>1
    <3> QED
      BY <2>1, <3>1 DEF RequestTypeOK
  <2>4. HumanBehind
    BY <2>1, <2>2 DEF HumanBehind
  <2>5. NewestShown /\ ForwardsDecided
    BY <2>1, <2>2 DEF NewestShown, ForwardsDecided, Side
  <2> QED
    BY <2>3, <2>4, <2>5 DEF IInv
<1>2. IInv /\ [RequestNext]_requestVars => IInv'
  <2> SUFFICES ASSUME IInv, [RequestNext]_requestVars
               PROVE  IInv'
    OBVIOUS
  <2>0. RequestTypeOK
    BY DEF IInv
  <2>1. CASE CenterDecides \/ CenterReply \/ Receive \/ Flush
    BY <2>0, <2>1, CenterDeciding, DecidingKeeps DEF Side
  <2>2. CASE EdgeStewardOffline \/ EdgeDecides \/ EdgeReplyOffline
    BY <2>0, <2>2, EdgeDeciding, DecidingKeeps DEF Side
  <2>3. CASE Create("center") \/ Create("edge") \/ Forwarded
    BY <2>3, PublishingKeeps
  <2>4. CASE Deliver
    BY <2>4, DeliverKeeps
  <2>5. CASE \/ Lapse \/ JudgeAnswers \/ EdgePushes \/ Disconnect \/ Connect \/ WorkerIsTold
             \/ UNCHANGED requestVars
    BY <2>5, OtherStepKeeps
  <2> QED
    BY <2>1, <2>2, <2>3, <2>4, <2>5 DEF RequestNext, CenterStep, EdgeStep
<1> QED
  BY <1>1, <1>2, PTL DEF RequestSpec

\* Every step keeps the two copies, the bridge and the outbox well formed.
THEOREM TypeCorrect == RequestSpec => []RequestTypeOK
<1>1. IInv => RequestTypeOK
  BY DEF IInv
<1> QED
  BY <1>1, Invariant, PTL

\* A dangerous action is approved by humans only, on every path and for any
\* number of replies, calls and lost connections.
THEOREM DangerousByHumanHolds == RequestSpec => []DangerousByHuman
<1>1. IInv => DangerousByHuman
  BY DEF IInv, HumanBehind, HumanApproved, DangerousByHuman
<1> QED
  BY <1>1, Invariant, PTL

\* An edge that missed no snapshot and took no decision shows the center.
THEOREM EdgeFollowsHolds == RequestSpec => []EdgeFollows
<1>1. IInv => EdgeFollows
  BY DEF IInv, NewestShown, EdgeFollows
<1> QED
  BY <1>1, Invariant, PTL

\* The center's decision, or its expiry, is never changed nor recorded twice.
THEOREM CenterFinalHolds == RequestSpec => CenterFinal
<1>1. RequestTypeOK /\ [RequestNext]_requestVars =>
        [status["center"] \in Final =>
           status'["center"] = status["center"] /\ rows'["center"] = rows["center"]]_requestVars
  <2> SUFFICES ASSUME RequestTypeOK, [RequestNext]_requestVars, status["center"] \in Final
               PROVE  status'["center"] = status["center"] /\ rows'["center"] = rows["center"]
    OBVIOUS
  <2> USE DEF Side
  <2>0. status \in [Side -> {"absent", "pending"} \cup Final]
    BY DEF RequestTypeOK
  <2>1. CASE CenterDecides \/ CenterReply \/ Receive \/ Flush
    BY <2>1, CenterDeciding DEF DecidingStep, CopyStep, Final
  <2>2. CASE EdgeStewardOffline \/ EdgeDecides \/ EdgeReplyOffline
    BY <2>2, EdgeDeciding DEF DecidingStep, CopyStep
  <2>3. CASE Create("center") \/ Create("edge") \/ Deliver
    BY <2>0, <2>3 DEF Create, Deliver, Final
  <2>4. CASE \/ Forwarded \/ Lapse \/ JudgeAnswers \/ EdgePushes \/ Disconnect \/ Connect
             \/ WorkerIsTold \/ UNCHANGED requestVars
    BY <2>4 DEF Forwarded, Lapse, JudgeAnswers, EdgePushes, Disconnect, Connect, WorkerIsTold,
                copies, requestVars
  <2> QED
    BY <2>1, <2>2, <2>3, <2>4 DEF RequestNext, CenterStep, EdgeStep
<1> QED
  BY <1>1, TypeCorrect, PTL DEF RequestSpec, CenterFinal

-----------------------------------------------------------------------------
\* While the center waits, only a refused approval can have left its key.
KeysOfPending ==
  status["center"] \notin Final =>
    /\ "deny" \notin keys["center"]
    /\ "approve" \in keys["center"] => dangerous

\* Routes, bridge and outbox decide without a key or with one that names the
\* option.
LEMMA DecideKeepsKeys ==
  ASSUME RequestTypeOK, KeysOfPending, dangerous' = dangerous, NEW a \in Action, NEW by \in Decider,
         NEW k, Decide("center", a, by, k), k \in {NoKey, a} \/ by = "human"
  PROVE  KeysOfPending'
<1>0. /\ status \in [Side -> {"absent", "pending"} \cup Final]
      /\ keys \in [Side -> SUBSET AuditKey] /\ "center" \in Side
  BY DEF RequestTypeOK, Side
<1>1. CASE DecisionTaken("center", a, by, k)
  <2>1. status'["center"] \in Final
    BY <1>0, <1>1 DEF DecisionTaken, OutcomeOf, Final
  <2> QED
    BY <2>1 DEF KeysOfPending
<1>2. CASE DecisionExpires("center")
  <2>1. status'["center"] \in Final
    BY <1>0, <1>2 DEF DecisionExpires, Final
  <2> QED
    BY <2>1 DEF KeysOfPending
<1>3. CASE DecisionForbidden("center", a, by, k)
  <2>1. dangerous /\ a = "approve" /\ k \in {NoKey, "approve"}
    BY <1>3 DEF DecisionForbidden, Forbidden
  <2>2. keys'["center"] = keys["center"] \cup ({k} \cap AuditKey) /\ status' = status
    BY <1>0, <1>3 DEF DecisionForbidden, Audit
  <2>3. "deny" \notin {k}
    BY <2>1 DEF NoKey
  <2> QED
    BY <2>1, <2>2, <2>3 DEF KeysOfPending
<1>4. CASE DecisionIgnored("center", a, by, k)
  BY <1>4 DEF DecisionIgnored, copies, KeysOfPending
<1> QED
  BY <1>1, <1>2, <1>3, <1>4 DEF Decide

LEMMA ReplyKeepsKeys ==
  ASSUME RequestTypeOK, KeysOfPending, dangerous' = dangerous, NEW a \in Action, NEW k \in Key,
         Reply("center", a, k)
  PROVE  KeysOfPending'
<1>1. CASE UNCHANGED copies
  BY <1>1 DEF copies, KeysOfPending
<1>2. CASE status["center"] \in Final /\ UNCHANGED <<status, rows>>
  BY <1>2 DEF KeysOfPending
<1>3. CASE Decide("center", a, "human", k)
  BY <1>3, DecideKeepsKeys DEF Decider
<1> QED
  BY <1>1, <1>2, <1>3 DEF Reply

\* Steps at the edge leave the center's row alone.
LEMMA EdgeStepsApart ==
  ASSUME RequestTypeOK, \/ EdgeStewardOffline \/ EdgeDecides \/ EdgeReplyOffline \/ Create("edge")
                 \/ Deliver
  PROVE  /\ status'["center"] = status["center"] /\ keys'["center"] = keys["center"]
         /\ dangerous' = dangerous
<1> USE DEF Side
<1>0. /\ status \in [Side -> {"absent", "pending"} \cup Final]
      /\ keys \in [Side -> SUBSET AuditKey]
  BY DEF RequestTypeOK
<1>1. ASSUME NEW a, NEW by, NEW k, Decide("edge", a, by, k)
      PROVE  status'["center"] = status["center"] /\ keys'["center"] = keys["center"]
  BY <1>0, <1>1 DEF Decide, DecisionTaken, DecisionExpires, DecisionForbidden, DecisionIgnored,
                    Audit, copies
<1>2. ASSUME NEW a, NEW k, Reply("edge", a, k)
      PROVE  status'["center"] = status["center"] /\ keys'["center"] = keys["center"]
  BY <1>0, <1>1, <1>2 DEF Reply, Audit, copies
<1>3. CASE EdgeStewardOffline \/ EdgeDecides
  BY <1>1, <1>3 DEF EdgeStewardOffline, EdgeDecides
<1>4. CASE EdgeReplyOffline
  BY <1>2, <1>4 DEF EdgeReplyOffline
<1>5. CASE Create("edge") \/ Deliver
  BY <1>0, <1>5 DEF Create, Deliver
<1> QED
  BY <1>3, <1>4, <1>5

THEOREM KeysOfPendingHold == RequestSpec => []KeysOfPending
<1>1. RequestInit => KeysOfPending
  BY DEF RequestInit, KeysOfPending, Side
<1>2. RequestTypeOK /\ KeysOfPending /\ [RequestNext]_requestVars => KeysOfPending'
  <2> SUFFICES ASSUME RequestTypeOK, KeysOfPending, [RequestNext]_requestVars
               PROVE  KeysOfPending'
    OBVIOUS
  <2>1. CASE CenterDecides
    <3>1. PICK a \in Action, by \in Decider : Decide("center", a, by, NoKey)
      BY <2>1 DEF CenterDecides
    <3>2. dangerous' = dangerous
      BY <2>1 DEF CenterDecides
    <3> QED
      BY <3>1, <3>2, DecideKeepsKeys
  <2>2. CASE CenterReply
    BY <2>2, ReplyKeepsKeys DEF CenterReply
  <2>3. CASE Receive
    <3>1. Head(up) \in Message /\ dangerous' = dangerous
      <4>1. up \in Seq(Message) /\ up # <<>>
        BY <2>3 DEF RequestTypeOK, Receive
      <4> QED
        BY <2>3, <4>1 DEF Receive
    <3>2. CASE Decide("center", Head(up).action, "steward", NoKey)
      <4>1. Head(up).action \in Action
        BY <3>1 DEF Message
      <4> QED
        BY <3>1, <3>2, <4>1, DecideKeepsKeys DEF Decider
    <3>3. CASE Head(up).kind = "reply" /\ Reply("center", Head(up).action, Head(up).key)
      <4>1. Head(up).action \in Action /\ Head(up).key \in Key
        BY <3>1, <3>3 DEF Message
      <4> QED
        BY <3>1, <3>3, <4>1, ReplyKeepsKeys
    <3> QED
      BY <2>3, <3>2, <3>3 DEF Receive
  <2>4. CASE Flush
    <3>1. PICK a \in outbox : Decide("center", a, "steward", QueuedKey(a))
      BY <2>4 DEF Flush
    <3>2. a \in Action /\ dangerous' = dangerous
      BY <2>4 DEF RequestTypeOK, Flush
    <3> QED
      BY <3>1, <3>2, DecideKeepsKeys DEF Decider, QueuedKey
  <2>5. CASE EdgeStewardOffline \/ EdgeDecides \/ EdgeReplyOffline \/ Create("edge") \/ Deliver
    BY <2>5, EdgeStepsApart DEF KeysOfPending
  <2>6. CASE Create("center")
    <3>1. /\ status["center"] = "absent" /\ keys' = keys /\ dangerous' = dangerous
      BY <2>6 DEF Create
    <3> QED
      BY <3>1 DEF KeysOfPending, Final
  <2>7. CASE \/ Forwarded \/ Lapse \/ JudgeAnswers \/ EdgePushes \/ Disconnect \/ Connect
             \/ WorkerIsTold \/ UNCHANGED requestVars
    BY <2>7 DEF Forwarded, Lapse, JudgeAnswers, EdgePushes, Disconnect, Connect, WorkerIsTold,
                copies, requestVars, KeysOfPending
  <2> QED
    BY <2>1, <2>2, <2>3, <2>4, <2>5, <2>6, <2>7 DEF RequestNext, CenterStep, EdgeStep
<1> QED
  BY <1>1, <1>2, TypeCorrect, PTL DEF RequestSpec

\* An offline decision leaves the outbox only when the center has decided: the
\* key of a decision is never one the waiting center knows from elsewhere.
THEOREM OfflineDecisionKeptHolds == RequestSpec => OfflineDecisionKept
<1>1. RequestTypeOK /\ KeysOfPending /\ [RequestNext]_requestVars =>
        [\A a \in outbox : a \notin outbox' => status'["center"] \in {"approved", "denied"}]_requestVars
  <2> SUFFICES ASSUME RequestTypeOK, KeysOfPending, [RequestNext]_requestVars,
                      NEW a \in outbox, a \notin outbox'
               PROVE  status'["center"] \in {"approved", "denied"}
    OBVIOUS
  <2>1. CASE Flush
    <3>1. PICK b \in outbox :
            /\ Decide("center", b, "steward", QueuedKey(b))
            /\ outbox' \in IF Succeeds("center", b, "steward") THEN {outbox, outbox \ {b}}
                           ELSE {KeptAfterRefusal(b)}
      BY <2>1 DEF Flush
    <3>2. b \in Action /\ Succeeds("center", b, "steward")
      BY <3>1 DEF RequestTypeOK, KeptAfterRefusal
    <3>3. /\ status["center"] = "pending" /\ ~ lapsed /\ ~ Forbidden("center", b, "steward")
      BY <3>2 DEF Succeeds, IsPending
    <3>4. b \notin keys["center"]
      BY <3>2, <3>3 DEF KeysOfPending, Forbidden, Action, Final
    <3>5. DecisionTaken("center", b, "steward", b)
      BY <3>1, <3>3, <3>4 DEF Decide, DecisionExpires, DecisionForbidden, DecisionIgnored,
                              QueuedKey, IsPending
    <3> QED
      BY <3>5 DEF DecisionTaken, OutcomeOf, RequestTypeOK, Side
  <2>2. CASE RequestNext /\ ~ Flush
    <3>1. outbox' = outbox \/ outbox \subseteq outbox'
      BY <2>2 DEF RequestNext, CenterStep, EdgeStep, CenterDecides, CenterReply, Receive, Create,
                  Forwarded, Deliver, JudgeAnswers, EdgePushes, EdgeStewardOffline, EdgeDecides,
                  EdgeReplyOffline, Lapse, Disconnect, Connect, WorkerIsTold, edgeWork
    <3> QED
      BY <3>1
  <2>3. CASE UNCHANGED requestVars
    BY <2>3 DEF requestVars, edgeWork
  <2> QED
    BY <2>1, <2>2, <2>3
<1> QED
  BY <1>1, TypeCorrect, KeysOfPendingHold, PTL DEF RequestSpec, OfflineDecisionKept

=============================================================================
