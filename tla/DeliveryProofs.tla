--------------------------- MODULE DeliveryProofs ---------------------------
(***************************************************************************)
(* Proofs about EdgeDelivery: every step of the whole is a step, or none,  *)
(* of the relay and of the mailbox, so what is proved of each of them      *)
(* alone holds here, and together they keep DeliveryContract.              *)
(***************************************************************************)
EXTENDS EdgeDelivery, SequenceTheorems, FiniteSetTheorems, TLAPS

RelayP == INSTANCE EdgeRelayProofs WITH Askers <- 0
BoxP == INSTANCE LocalMailboxProofs

-----------------------------------------------------------------------------
\* The operators of a component are those its proofs are about.
LEMMA RelayAssumed ==
  /\ RelayP!MessageAssumption /\ RelayP!EnvelopeAssumption /\ RelayP!KeyAssumption
  /\ RelayP!OwnerAssumption /\ RelayP!LimitAssumption /\ RelayP!CapAssumption
BY RelayAssumptions
DEF Relay!MessageAssumption, Relay!EnvelopeAssumption, Relay!KeyAssumption,
    Relay!OwnerAssumption, Relay!LimitAssumption, Relay!CapAssumption, Relay!Kind,
    RelayP!MessageAssumption, RelayP!EnvelopeAssumption, RelayP!KeyAssumption,
    RelayP!OwnerAssumption, RelayP!LimitAssumption, RelayP!CapAssumption, RelayP!Kind,
    Relay!IsFiniteSet, RelayP!IsFiniteSet

LEMMA BoxAssumed == BoxP!MessageAssumption /\ BoxP!BoundAssumption
BY BoxAssumptions
DEF Box!MessageAssumption, Box!BoundAssumption, BoxP!MessageAssumption, BoxP!BoundAssumption,
    Box!IsFiniteSet, BoxP!IsFiniteSet

LEMMA RelaySame ==
  /\ Relay!Init => RelayP!Init
  /\ \A m, delayed : Relay!Create(m, delayed) => RelayP!Create(m, delayed)
  /\ \A m, o, delivered : Relay!Ack(m, o, delivered) => RelayP!Ack(m, o, delivered)
  /\ \A m, o, retryable, dueNow :
       Relay!Fail(m, o, retryable, dueNow) => RelayP!Fail(m, o, retryable, dueNow)
  /\ \A m : Relay!Cancel(m) => RelayP!Cancel(m)
  /\ \A m : Relay!LeaseLapses(m) => RelayP!LeaseLapses(m)
  /\ \A m : Relay!BackoffEnds(m) => RelayP!BackoffEnds(m)
<1> USE DEF Relay!ClientOf, RelayP!ClientOf, Relay!OwnsWorkspace, RelayP!OwnsWorkspace,
            Relay!HoldsLease, RelayP!HoldsLease, Relay!Settle, RelayP!Settle,
            Relay!OpenStatus, RelayP!OpenStatus
<1>1. Relay!Init => RelayP!Init
  BY DEF Relay!Init, RelayP!Init, Relay!NoEvent, RelayP!NoEvent
<1>2. \A m, delayed : Relay!Create(m, delayed) => RelayP!Create(m, delayed)
  BY DEF Relay!Create, RelayP!Create, Relay!IsDuplicate, RelayP!IsDuplicate, Relay!Row, RelayP!Row,
         Relay!SameKey, RelayP!SameKey, Relay!TenantOf, RelayP!TenantOf,
         Relay!NamedEvents, RelayP!NamedEvents, Relay!NoEvent, RelayP!NoEvent,
         Relay!Raised, RelayP!Raised
<1>3. \A m, o, delivered : Relay!Ack(m, o, delivered) => RelayP!Ack(m, o, delivered)
  BY DEF Relay!Ack, RelayP!Ack, Relay!AckOutcome, RelayP!AckOutcome,
         Relay!EventAfterAck, RelayP!EventAfterAck, Relay!MayOpen, RelayP!MayOpen
<1>4. \A m, o, retryable, dueNow :
        Relay!Fail(m, o, retryable, dueNow) => RelayP!Fail(m, o, retryable, dueNow)
  BY DEF Relay!Fail, RelayP!Fail, Relay!FailOutcome, RelayP!FailOutcome,
         Relay!CanRetry, RelayP!CanRetry
<1>5. \A m : Relay!Cancel(m) => RelayP!Cancel(m)
  BY DEF Relay!Cancel, RelayP!Cancel
<1>6. \A m : Relay!LeaseLapses(m) => RelayP!LeaseLapses(m)
  BY DEF Relay!LeaseLapses, RelayP!LeaseLapses
<1>7. \A m : Relay!BackoffEnds(m) => RelayP!BackoffEnds(m)
  BY DEF Relay!BackoffEnds, RelayP!BackoffEnds
<1> QED
  BY <1>1, <1>2, <1>3, <1>4, <1>5, <1>6, <1>7

LEMMA LeaseSame ==
  ASSUME NEW c, NEW o, NEW n, NEW w, NEW filter, Relay!Lease(c, o, n, w, filter)
  PROVE  RelayP!Lease(c, o, n, w, filter)
BY DEF Relay!Lease, RelayP!Lease, Relay!LeaseBatch, RelayP!LeaseBatch,
       Relay!Scans, RelayP!Scans, Relay!Due, RelayP!Due, Relay!Swept, RelayP!Swept,
       Relay!Page, RelayP!Page, Relay!IsBatch, RelayP!IsBatch,
       Relay!HasLeasedSerialPeer, RelayP!HasLeasedSerialPeer,
       Relay!SerialKey, RelayP!SerialKey, Relay!PeerKey, RelayP!PeerKey,
       Relay!ClientOf, RelayP!ClientOf, Relay!TenantOf, RelayP!TenantOf,
       Relay!SetToSeqs, RelayP!SetToSeqs,
       Relay!Cardinality, RelayP!Cardinality

LEMMA BoxSame ==
  /\ Box!Init => BoxP!Init
  /\ \A d : Box!StartDrain(d) => BoxP!StartDrain(d)
  /\ \A d : Box!EndScan(d) => BoxP!EndScan(d)
  /\ \A d, ok : Box!PostDone(d, ok) => BoxP!PostDone(d, ok)
  /\ \A d, S : Box!PullDone(d, S) => BoxP!PullDone(d, S)
  /\ \A id : Box!OutboxDue(id) => BoxP!OutboxDue(id)
  /\ Box!Crash => BoxP!Crash
<1> USE DEF Box!LoopFree, BoxP!LoopFree, Box!HoldsLoop, BoxP!HoldsLoop,
            Box!SessionKind, BoxP!SessionKind, Box!Goto, BoxP!Goto,
            Box!EnterFlush, BoxP!EnterFlush, Box!OutboxRows, BoxP!OutboxRows,
            Box!Query, BoxP!Query, Box!FirstRows, BoxP!FirstRows, Box!SetToSeqs, BoxP!SetToSeqs,
            Box!Cardinality, BoxP!Cardinality
<1>1. Box!Init => BoxP!Init
  BY DEF Box!Init, BoxP!Init, Box!Idem, BoxP!Idem, Box!IdemOf, BoxP!IdemOf, Box!Idle, BoxP!Idle
<1>2. \A d : Box!StartDrain(d) => BoxP!StartDrain(d)
  BY DEF Box!StartDrain, BoxP!StartDrain
<1>3. \A d : Box!EndScan(d) => BoxP!EndScan(d)
  BY DEF Box!EndScan, BoxP!EndScan
<1>4. \A d, ok : Box!PostDone(d, ok) => BoxP!PostDone(d, ok)
  BY DEF Box!PostDone, BoxP!PostDone
<1>5. \A d, S : Box!PullDone(d, S) => BoxP!PullDone(d, S)
  BY DEF Box!PullDone, BoxP!PullDone, Box!InboxRows, BoxP!InboxRows
<1>6. \A id : Box!OutboxDue(id) => BoxP!OutboxDue(id)
  BY DEF Box!OutboxDue, BoxP!OutboxDue
<1>7. Box!Crash => BoxP!Crash
  BY DEF Box!Crash, BoxP!Crash, Box!Idle, BoxP!Idle
<1> QED
  BY <1>1, <1>2, <1>3, <1>4, <1>5, <1>6, <1>7

LEMMA ScanSame ==
  /\ \A d : Box!SkipRow(d) => BoxP!SkipRow(d)
  /\ \A d : Box!AckDuplicate(d) => BoxP!AckDuplicate(d)
  /\ \A d : Box!BeginRow(d) => BoxP!BeginRow(d)
  /\ \A d : Box!HandlerWrites(d) => BoxP!HandlerWrites(d)
  /\ \A d : Box!Succeed(d) => BoxP!Succeed(d)
  /\ \A d, retryable : Box!FailRow(d, retryable) => BoxP!FailRow(d, retryable)
<1> USE DEF Box!LoopFree, BoxP!LoopFree, Box!HoldsLoop, BoxP!HoldsLoop,
            Box!SessionKind, BoxP!SessionKind, Box!SyncKind, BoxP!SyncKind,
            Box!Goto, BoxP!Goto, Box!Row, BoxP!Row, Box!Scanning, BoxP!Scanning,
            Box!KeyTaken, BoxP!KeyTaken, Box!KeyOf, BoxP!KeyOf, Box!KeySet, BoxP!KeySet,
            Box!IdemOf, BoxP!IdemOf, Box!NewReceipt, BoxP!NewReceipt, Box!Finish, BoxP!Finish,
            Box!OneMore, BoxP!OneMore, Box!MayTakeEffect, BoxP!MayTakeEffect
<1>1. \A d : Box!SkipRow(d) => BoxP!SkipRow(d)
  BY DEF Box!SkipRow, BoxP!SkipRow
<1>2. \A d : Box!AckDuplicate(d) => BoxP!AckDuplicate(d)
  BY DEF Box!AckDuplicate, BoxP!AckDuplicate
<1>3. \A d : Box!BeginRow(d) => BoxP!BeginRow(d)
  BY DEF Box!BeginRow, BoxP!BeginRow
<1>4. \A d : Box!HandlerWrites(d) => BoxP!HandlerWrites(d)
  BY DEF Box!HandlerWrites, BoxP!HandlerWrites
<1>5. \A d : Box!Succeed(d) => BoxP!Succeed(d)
  BY DEF Box!Succeed, BoxP!Succeed
<1>6. \A d, retryable : Box!FailRow(d, retryable) => BoxP!FailRow(d, retryable)
  BY DEF Box!FailRow, BoxP!FailRow
<1> QED
  BY <1>1, <1>2, <1>3, <1>4, <1>5, <1>6

-----------------------------------------------------------------------------
\* What the relay may do to the statuses when something reaches it.
Open == {"pending", "leased", "failed_retryable"}
Keeps == \A m \in Message : status'[m] = status[m] \/ (status[m] \in Open /\ status'[m] \in Open)
Offers(m) == status[m] = "absent" /\ status' = [status EXCEPT ![m] = "pending"]
Delivers(m) == status[m] = "leased" /\ status' = [status EXCEPT ![m] = "completed"]
Drops(m) == /\ status[m] \notin {"absent", "completed"}
            /\ \E s \in {"dead_letter", "cancelled"} : status' = [status EXCEPT ![m] = s]
RelayStep == [RelayP!Next]_RelayP!vars

LEMMA RelayRests ==
  ASSUME UNCHANGED relayVars
  PROVE  RelayStep /\ Keeps
BY DEF relayVars, RelayStep, RelayP!vars, Keeps

LEMMA PullHandled ==
  ASSUME RelayP!TypeOK, ServePull
  PROVE  /\ RelayStep /\ Keeps
         /\ \A m \in Leased : m \in Message /\ status'[m] # "absent" /\ Envelope[m].client = Edge
<1>1. PICK n \in Limits, w \in Workspace, filter \in Filters :
        Relay!Lease(Edge, LeaseOwner, n, w, filter)
  BY DEF ServePull
<1>2. Edge \in Client /\ LeaseOwner \in Owner
  BY EdgeAssumption
<1>3. RelayP!Lease(Edge, LeaseOwner, n, w, filter)
  BY <1>1, LeaseSame
<1>4. RelayStep
  BY <1>2, <1>3 DEF RelayStep, RelayP!Next
<1>5. PICK batch \in SUBSET RelayP!Due(Edge, w, filter, RelayP!Swept(Edge)) :
        RelayP!LeaseBatch(Edge, LeaseOwner, batch)
  BY <1>2, <1>3, RelayAssumed, RelayP!LeaseStep
  DEF RelayP!MessageAssumption, RelayP!EnvelopeAssumption, RelayP!KeyAssumption,
      RelayP!OwnerAssumption, RelayP!LimitAssumption, RelayP!CapAssumption
<1>6. \A m \in batch : /\ m \in Message /\ Envelope[m].client = Edge
                        /\ RelayP!Swept(Edge)[m] \in {"pending", "failed_retryable"}
  BY DEF RelayP!Due, RelayP!ClientOf
<1>7. \A m \in Message : status'[m] = IF m \in batch THEN "leased" ELSE RelayP!Swept(Edge)[m]
  BY <1>5 DEF RelayP!LeaseBatch
<1>8. \A m \in Message : /\ RelayP!Swept(Edge)[m] \in {status[m], "pending"}
                         /\ RelayP!Swept(Edge)[m] # status[m] => status[m] = "leased"
                         /\ RelayP!Swept(Edge)[m] = Relay!Swept(Edge)[m]
  BY DEF RelayP!Swept, Relay!Swept, RelayP!ClientOf, Relay!ClientOf
<1>9. Keeps
  BY <1>6, <1>7, <1>8 DEF Keeps, Open
<1>10. \A m \in Leased : m \in batch
  BY <1>7, <1>8 DEF Leased
<1> QED
  BY <1>4, <1>6, <1>7, <1>9, <1>10

LEMMA ReceiptHandled ==
  ASSUME NEW r, ServeReceipt(r), r.msg \in Message, r.retryable \in BOOLEAN
  PROVE  /\ RelayStep
         /\ Keeps \/ Drops(r.msg) \/ (r.action = "ack" /\ Delivers(r.msg))
         /\ r.action = "ack" => Delivers(r.msg)
<1>1. CASE r.action = "ack"
  <2>1. Relay!Ack(r.msg, Nobody, TRUE)
    BY <1>1 DEF ServeReceipt
  <2>2. RelayStep
    BY <2>1, RelaySame DEF RelayStep, RelayP!Next
  <2>3. Delivers(r.msg)
    BY <2>1 DEF Relay!Ack, Relay!HoldsLease, Relay!Settle, Delivers
  <2> QED
    BY <1>1, <2>2, <2>3
<1>2. CASE r.action # "ack"
  <2>1. Relay!Fail(r.msg, Nobody, r.retryable, FALSE)
    BY <1>2 DEF ServeReceipt
  <2>2. RelayStep
    BY <2>1, RelaySame DEF RelayStep, RelayP!Next
  <2>3. /\ status[r.msg] = "leased"
        /\ \/ status' = [status EXCEPT ![r.msg] = "failed_retryable"]
           \/ status' = [status EXCEPT ![r.msg] = "dead_letter"]
    BY <2>1 DEF Relay!Fail, Relay!HoldsLease, Relay!Settle
  <2>4. CASE status' = [status EXCEPT ![r.msg] = "failed_retryable"]
    BY <1>2, <2>2, <2>3, <2>4 DEF Keeps, Open
  <2>5. CASE status' = [status EXCEPT ![r.msg] = "dead_letter"]
    BY <1>2, <2>2, <2>3, <2>5 DEF Drops
  <2> QED
    BY <2>3, <2>4, <2>5
<1> QED
  BY <1>1, <1>2

LEMMA RelayOthers ==
  /\ \A m \in Message : Offered(m) => RelayStep /\ Offers(m)
  /\ \A m \in Message : Cancelled(m) => RelayStep /\ Drops(m)
  /\ \A m \in Message : Clock(m) => RelayStep /\ Keeps
<1>1. ASSUME NEW m \in Message, Offered(m)
      PROVE  RelayStep /\ Offers(m)
  BY <1>1, RelaySame DEF Offered, RelayStep, RelayP!Next, Relay!Create, Offers
<1>2. ASSUME NEW m \in Message, Cancelled(m)
      PROVE  RelayStep /\ Drops(m)
  BY <1>2, RelaySame DEF Cancelled, RelayStep, RelayP!Next, Relay!Cancel, Relay!Settle, Drops
<1>3. ASSUME NEW m \in Message, Clock(m)
      PROVE  RelayStep /\ Keeps
  BY <1>3, RelaySame
  DEF Clock, RelayStep, RelayP!Next, Relay!LeaseLapses, Relay!BackoffEnds, Keeps
<1> QED
  BY <1>1, <1>2, <1>3

-----------------------------------------------------------------------------
\* What a step of the mailbox does to its rows and its receipts.
BoxStep == [BoxP!Next]_BoxP!vars

\* Receipts are only added, and keep what they say.
Grows == \A i \in DOMAIN outbox :
           /\ i \in DOMAIN outbox'
           /\ outbox'[i].msg = outbox[i].msg /\ outbox'[i].action = outbox[i].action
NoneSent == \A i \in DOMAIN outbox' :
              outbox'[i].state = "sent" => i \in DOMAIN outbox /\ outbox[i].state = "sent"
OthersKept(d) == \A e \in Drain \ {d} : drain'[e] = drain[e]

\* The rows of the mailbox stay within S: what is in the inbox, what drains go
\* through, what the center is told of and what ran.
InboxIn(S) == \A m \in Message : inbox[m] # "absent" => m \in S
RowsIn(S) == \A d \in Drain : drain[d].phase \in {"scan", "handle", "wrote"} => drain[d].rows \in Seq(S)
ToldIn(S) == \A m \in Message : \A a \in {"ack", "fail"} : <<m, a>> \in BoxP!Told => m \in S
RanIn(S) == \A m \in Message : effects[m] > 0 => m \in S
RowsWithin(S) == InboxIn(S) /\ RowsIn(S) /\ ToldIn(S) /\ RanIn(S)

LEMMA BoxTyped ==
  ASSUME BoxP!Typed
  PROVE  /\ outbox \in Seq(BoxP!Receipt) /\ Len(outbox) \in Nat /\ DOMAIN outbox = 1..Len(outbox)
         /\ \A i \in DOMAIN outbox : outbox[i] \in BoxP!Receipt
         /\ inbox \in [Message -> {"absent", "pending", "processing", "completed", "failed"}]
         /\ effects \in [Message -> 0..RunCap] /\ RunCap \in Nat
<1>1. outbox \in Seq(BoxP!Receipt)
  BY DEF BoxP!Typed, BoxP!TypeOK
<1>2. RunCap \in Nat
  BY BoxAssumed DEF BoxP!BoundAssumption
<1> QED
  BY <1>1, <1>2, LenProperties, ElementOfSeq DEF BoxP!Typed, BoxP!TypeOK

\* A drain that goes on within S, while nothing else changes but what is said.
LEMMA DrainWithin ==
  ASSUME NEW S, RowsIn(S), NEW d \in Drain, NEW p, NEW rows, NEW c, BoxP!Moved(d, p, rows, c),
         p \in {"scan", "handle", "wrote"} => rows \in Seq(S)
  PROVE  RowsIn(S)' /\ OthersKept(d)
BY DEF RowsIn, BoxP!Moved, OthersKept

\* A receipt about a message of S is added.
LEMMA ReceiptWithin ==
  ASSUME BoxP!Typed, NEW S, ToldIn(S), NEW r \in BoxP!Receipt, r.msg \in S, r.state = "pending",
         outbox' = Append(outbox, r)
  PROVE  ToldIn(S)' /\ Grows /\ NoneSent
<1>1. outbox \in Seq(BoxP!Receipt)
  BY BoxTyped
<1>2. BoxP!Told' = BoxP!Told \cup {<<r.msg, r.action>>}
  BY <1>1, BoxAssumed, BoxP!ToldMore DEF BoxP!MessageAssumption, BoxP!BoundAssumption
<1>3. /\ DOMAIN outbox = 1..Len(outbox) /\ Len(outbox) \in Nat
      /\ DOMAIN outbox' = 1..(Len(outbox) + 1)
      /\ \A i \in DOMAIN outbox : outbox'[i] = outbox[i]
      /\ outbox'[Len(outbox) + 1] = r
  BY <1>1, BoxAssumed, BoxP!Queued DEF BoxP!MessageAssumption, BoxP!BoundAssumption
<1>4. ToldIn(S)'
  BY <1>2 DEF ToldIn
<1> QED
  BY <1>3, <1>4 DEF Grows, NoneSent

LEMMA FlushWithin ==
  ASSUME BoxP!Typed, NEW S, RowsWithin(S), NEW d \in Drain,
         Box!StartDrain(d) \/ Box!EndScan(d)
  PROVE  BoxStep /\ RowsWithin(S)' /\ OthersKept(d) /\ Grows /\ NoneSent /\ ~ Asking(d)
<1> USE BoxAssumed DEF BoxP!MessageAssumption, BoxP!BoundAssumption
<1>1. BoxP!StartDrain(d) \/ BoxP!EndScan(d)
  BY BoxSame
<1>2. BoxStep
  BY <1>1 DEF BoxStep, BoxP!Next, BoxP!LocalStep
<1>3. UNCHANGED <<inbox, outbox, effects>> /\ ~ Asking(d)
  BY <1>1 DEF BoxP!StartDrain, BoxP!EndScan, Asking
<1>4. \E q, rows, c : q \in {"idle", "flush1", "pull", "flush2"} /\ BoxP!Moved(d, q, rows, c)
  <2>1. CASE BoxP!StartDrain(d)
    BY <2>1, BoxP!FlushEntry DEF BoxP!StartDrain
  <2>2. CASE BoxP!EndScan(d)
    BY <2>2, BoxP!EndScanMove
  <2> QED
    BY <1>1, <2>1, <2>2
<1>5. RowsIn(S)' /\ OthersKept(d)
  BY <1>4, DrainWithin DEF RowsWithin
<1>6. RowsWithin(S)'
  BY <1>3, <1>5 DEF RowsWithin, InboxIn, ToldIn, RanIn, BoxP!Told
<1> QED
  BY <1>2, <1>3, <1>5, <1>6 DEF Grows, NoneSent

LEMMA ScanWithin ==
  ASSUME BoxP!Typed, NEW S \in SUBSET Message, RowsWithin(S), NEW d \in Drain,
         Box!SkipRow(d) \/ Box!AckDuplicate(d) \/ Box!BeginRow(d) \/ Box!HandlerWrites(d)
  PROVE  BoxStep /\ RowsWithin(S)' /\ OthersKept(d) /\ Grows /\ NoneSent /\ ~ Asking(d)
<1> USE BoxAssumed DEF BoxP!MessageAssumption, BoxP!BoundAssumption
<1>0. /\ inbox \in [Message -> {"absent", "pending", "processing", "completed", "failed"}]
      /\ effects \in [Message -> 0..RunCap]
  BY BoxTyped
<1>1. BoxP!SkipRow(d) \/ BoxP!AckDuplicate(d) \/ BoxP!BeginRow(d) \/ BoxP!HandlerWrites(d)
  BY ScanSame
<1>2. BoxStep
  BY <1>1 DEF BoxStep, BoxP!Next, BoxP!LocalStep
<1>3. drain[d].phase \in {"scan", "handle", "wrote"} /\ drain[d].rows # <<>> /\ ~ Asking(d)
  BY <1>1
  DEF BoxP!SkipRow, BoxP!AckDuplicate, BoxP!BeginRow, BoxP!HandlerWrites, BoxP!Scanning,
      BoxP!Typed, BoxP!RowsFit, Asking
<1>4. /\ drain[d].rows \in Seq(S) /\ Tail(drain[d].rows) \in Seq(S)
      /\ BoxP!Row(d) \in S /\ BoxP!Row(d) \in Message
  BY <1>3, HeadTailProperties DEF RowsWithin, RowsIn, BoxP!Row
<1>5. RowsIn(S)' /\ OthersKept(d)
  <2>1. \E p, rows, c : /\ BoxP!Moved(d, p, rows, c)
                        /\ rows \in {drain[d].rows, Tail(drain[d].rows)}
    BY <1>1, BoxP!ScanMove
  <2> QED
    BY <1>4, <2>1, DrainWithin DEF RowsWithin
<1>6. InboxIn(S)'
  BY <1>0, <1>1, <1>4
  DEF RowsWithin, InboxIn, BoxP!SkipRow, BoxP!AckDuplicate, BoxP!BeginRow, BoxP!HandlerWrites
<1>7. RanIn(S)'
  <2>1. UNCHANGED effects \/ effects' = BoxP!OneMore(BoxP!Row(d))
    BY <1>1 DEF BoxP!SkipRow, BoxP!AckDuplicate, BoxP!BeginRow, BoxP!HandlerWrites
  <2>2. \A n \in Message : n # BoxP!Row(d) => BoxP!OneMore(BoxP!Row(d))[n] = effects[n]
    BY <1>4, BoxP!Counted
  <2> QED
    BY <1>4, <2>1, <2>2 DEF RowsWithin, RanIn
<1>8. ToldIn(S)' /\ Grows /\ NoneSent
  <2>1. CASE UNCHANGED outbox
    BY <2>1 DEF RowsWithin, ToldIn, BoxP!Told, Grows, NoneSent
  <2>2. CASE BoxP!AckDuplicate(d)
    <3> DEFINE r == BoxP!NewReceipt(BoxP!Row(d), "ack", FALSE)
    <3>1. r \in BoxP!Receipt /\ r.msg = BoxP!Row(d) /\ r.state = "pending"
      BY <1>4 DEF BoxP!NewReceipt, BoxP!Receipt
    <3>2. outbox' = Append(outbox, r)
      BY <2>2 DEF BoxP!AckDuplicate
    <3> HIDE DEF r
    <3> QED
      BY <1>4, <3>1, <3>2, ReceiptWithin DEF RowsWithin
  <2> QED
    BY <1>1, <2>1, <2>2 DEF BoxP!SkipRow, BoxP!BeginRow, BoxP!HandlerWrites
<1> QED
  BY <1>2, <1>3, <1>5, <1>6, <1>7, <1>8 DEF RowsWithin

LEMMA FinishWithin ==
  ASSUME BoxP!Typed, NEW S \in SUBSET Message, RowsWithin(S), NEW d \in Drain,
         Box!Succeed(d) \/ \E retryable \in BOOLEAN : Box!FailRow(d, retryable)
  PROVE  BoxStep /\ RowsWithin(S)' /\ OthersKept(d) /\ Grows /\ NoneSent /\ ~ Asking(d)
<1> USE BoxAssumed DEF BoxP!MessageAssumption, BoxP!BoundAssumption
<1>0. inbox \in [Message -> {"absent", "pending", "processing", "completed", "failed"}]
  BY BoxTyped
<1>1. BoxP!Succeed(d) \/ \E retryable \in BOOLEAN : BoxP!FailRow(d, retryable)
  BY ScanSame
<1>2. BoxStep
  BY <1>1 DEF BoxStep, BoxP!Next, BoxP!LocalStep
<1>3. PICK s \in {"completed", "failed"}, r \in BoxP!Receipt :
        /\ drain[d].phase \in {"handle", "wrote"}
        /\ r.msg = BoxP!Row(d) /\ r.state = "pending" /\ BoxP!Finish(d, s, r)
  BY <1>1, BoxP!ReceiptOf
<1>4. drain[d].rows \in Seq(S) /\ drain[d].rows # <<>> /\ ~ Asking(d)
  BY <1>3 DEF RowsWithin, RowsIn, BoxP!Typed, BoxP!RowsFit, Asking
<1>5. Tail(drain[d].rows) \in Seq(S) /\ BoxP!Row(d) \in S
  BY <1>4, HeadTailProperties DEF BoxP!Row
<1>6. /\ inbox' = [inbox EXCEPT ![BoxP!Row(d)] = s] /\ outbox' = Append(outbox, r)
      /\ UNCHANGED effects /\ drain' = BoxP!Goto(d, "scan", Tail(drain[d].rows))
  BY <1>3 DEF BoxP!Finish
<1>7. RowsIn(S)' /\ OthersKept(d)
  <2>1. Tail(drain[d].rows) \in Seq(Message)
    BY <1>5, SeqMonotonic
  <2>2. BoxP!Moved(d, "scan", Tail(drain[d].rows), drain[d].claimed)
    BY <1>6, <2>1, BoxP!GotoMoves DEF BoxP!Phase
  <2> QED
    BY <1>5, <2>2, DrainWithin DEF RowsWithin
<1>8. ToldIn(S)' /\ Grows /\ NoneSent
  BY <1>3, <1>5, <1>6, ReceiptWithin DEF RowsWithin
<1>9. InboxIn(S)' /\ RanIn(S)'
  BY <1>0, <1>5, <1>6 DEF RowsWithin, InboxIn, RanIn
<1> QED
  BY <1>2, <1>4, <1>7, <1>8, <1>9 DEF RowsWithin

LEMMA EdgeStepWithin ==
  ASSUME BoxP!Typed, NEW S \in SUBSET Message, RowsWithin(S), NEW d \in Drain, EdgeStep(d)
  PROVE  /\ BoxStep /\ RowsWithin(S)' /\ OthersKept(d) /\ Grows /\ NoneSent /\ ~ Asking(d)
         /\ UNCHANGED <<relayVars, answer, stray>>
BY FlushWithin, ScanWithin, FinishWithin DEF EdgeStep, Box!LocalStep

\* The answer to a post marks the row it is about, as sent if it was taken.
LEMMA PostWithin ==
  ASSUME BoxP!Typed, NEW S, RowsWithin(S), NEW d \in Drain, NEW ok \in BOOLEAN, Box!PostDone(d, ok)
  PROVE  /\ BoxStep /\ RowsWithin(S)' /\ OthersKept(d) /\ Grows
         /\ drain[d].phase \in {"flush1", "flush2"} /\ Head(drain[d].rows) \in DOMAIN outbox
         /\ \A i \in DOMAIN outbox' : outbox'[i].state = "sent" =>
              i \in DOMAIN outbox /\ (outbox[i].state = "sent" \/ (ok /\ i = Head(drain[d].rows)))
<1> USE BoxAssumed DEF BoxP!MessageAssumption, BoxP!BoundAssumption
<1>0. outbox \in Seq(BoxP!Receipt)
  BY BoxTyped
<1>1. BoxP!PostDone(d, ok)
  BY BoxSame
<1>2. BoxStep
  BY <1>1 DEF BoxStep, BoxP!Next
<1> DEFINE id == Head(drain[d].rows)
<1>3. /\ drain[d].phase \in {"flush1", "flush2"} /\ id \in DOMAIN outbox
      /\ UNCHANGED <<inbox, effects>>
  BY <1>1, BoxP!PostMove
<1>4. PICK r \in BoxP!Receipt :
        /\ outbox' = [outbox EXCEPT ![id] = r]
        /\ r.msg = outbox[id].msg /\ r.action = outbox[id].action
        /\ r.state = "sent" => ok \/ outbox[id].state = "sent"
  BY <1>1, BoxP!PostMove
<1>5. PICK q, rows : q \in {"pull", "idle", drain[d].phase} /\ BoxP!Moved(d, q, rows, drain[d].claimed)
  BY <1>1, BoxP!PostMove
<1>6. RowsIn(S)' /\ OthersKept(d)
  BY <1>3, <1>5, DrainWithin DEF RowsWithin
<1>7. BoxP!Told' = BoxP!Told
  BY <1>0, <1>3, <1>4, BoxP!ToldSame
<1>8. /\ DOMAIN outbox' = DOMAIN outbox
      /\ \A j \in DOMAIN outbox : outbox'[j] = IF j = id THEN r ELSE outbox[j]
  BY <1>0, <1>3, <1>4, BoxP!Marked
<1> HIDE DEF id
<1>9. Grows /\ \A i \in DOMAIN outbox' : outbox'[i].state = "sent" =>
              i \in DOMAIN outbox /\ (outbox[i].state = "sent" \/ (ok /\ i = id))
  BY <1>4, <1>8 DEF Grows
<1>10. RowsWithin(S)'
  BY <1>3, <1>6, <1>7 DEF RowsWithin, InboxIn, ToldIn, RanIn
<1> QED
  BY <1>2, <1>3, <1>6, <1>9, <1>10 DEF id

\* The rows of a pull are those it brought and those that were there.
LEMMA PullWithin ==
  ASSUME BoxP!Typed, NEW S \in SUBSET Message, RowsWithin(S), NEW d \in Drain,
         NEW G \in SUBSET S, Box!PullDone(d, G)
  PROVE  BoxStep /\ RowsWithin(S)' /\ OthersKept(d) /\ Grows /\ NoneSent /\ drain[d].phase = "pull"
<1> USE BoxAssumed DEF BoxP!MessageAssumption, BoxP!BoundAssumption
<1>0. inbox \in [Message -> {"absent", "pending", "processing", "completed", "failed"}]
  BY BoxTyped
<1>1. BoxP!PullDone(d, G)
  BY BoxSame
<1>2. BoxStep
  BY <1>1 DEF BoxStep, BoxP!Next
<1>3. UNCHANGED <<outbox, effects>> /\ drain[d].phase = "pull"
  BY <1>1 DEF BoxP!PullDone
<1>4. InboxIn(S)'
  BY <1>0, <1>1 DEF BoxP!PullDone, RowsWithin, InboxIn
<1>5. PICK rows \in Seq(Message) :
        /\ BoxP!Moved(d, "scan", rows, {})
        /\ \A i \in 1..Len(rows) : inbox'[rows[i]] \in {"pending", "processing"}
  BY <1>1, BoxP!PullMove
<1>6. rows \in Seq(S)
  <2>1. Len(rows) \in Nat /\ \A i \in 1..Len(rows) : rows[i] \in Message
    BY LenProperties, ElementOfSeq
  <2>2. \A i \in 1..Len(rows) : rows[i] \in S
    BY <1>4, <1>5, <2>1 DEF InboxIn
  <2>3. rows \in [1..Len(rows) -> S]
    BY <2>1, <2>2, LenProperties
  <2> QED
    BY <2>1, <2>3, SeqDef
<1>7. RowsIn(S)' /\ OthersKept(d)
  BY <1>5, <1>6, DrainWithin DEF RowsWithin
<1> QED
  BY <1>2, <1>3, <1>4, <1>7 DEF RowsWithin, ToldIn, RanIn, BoxP!Told, Grows, NoneSent

LEMMA DueWithin ==
  ASSUME BoxP!Typed, NEW S, RowsWithin(S), RowDue
  PROVE  /\ BoxStep /\ RowsWithin(S)' /\ Grows /\ NoneSent
         /\ UNCHANGED <<drain, relayVars, answer, stray>>
<1> USE BoxAssumed DEF BoxP!MessageAssumption, BoxP!BoundAssumption
<1>0. outbox \in Seq(BoxP!Receipt) /\ \A i \in DOMAIN outbox : outbox[i] \in BoxP!Receipt
  BY BoxTyped
<1>1. PICK id \in DOMAIN outbox : BoxP!OutboxDue(id) /\ UNCHANGED <<relayVars, answer, stray>>
  BY BoxSame DEF RowDue
<1>2. BoxStep
  BY <1>1 DEF BoxStep, BoxP!Next
<1>3. UNCHANGED <<inbox, effects, drain>>
  BY <1>1 DEF BoxP!OutboxDue
<1> DEFINE r == [outbox[id] EXCEPT !.due = TRUE]
<1>4. /\ r \in BoxP!Receipt /\ r.msg = outbox[id].msg /\ r.action = outbox[id].action
      /\ r.state = outbox[id].state
  BY <1>0 DEF BoxP!Receipt
<1>5. outbox' = [outbox EXCEPT ![id] = r]
  BY <1>1 DEF BoxP!OutboxDue
<1> HIDE DEF r
<1>6. BoxP!Told' = BoxP!Told
  BY <1>0, <1>4, <1>5, BoxP!ToldSame
<1>7. /\ DOMAIN outbox' = DOMAIN outbox
      /\ \A j \in DOMAIN outbox : outbox'[j] = IF j = id THEN r ELSE outbox[j]
  BY <1>0, <1>4, <1>5, BoxP!Marked
<1>8. Grows /\ NoneSent
  BY <1>4, <1>7 DEF Grows, NoneSent
<1> QED
  BY <1>1, <1>2, <1>3, <1>6, <1>8 DEF RowsWithin, InboxIn, RowsIn, ToldIn, RanIn

LEMMA CrashWithin ==
  ASSUME NEW S, RowsWithin(S), Box!Crash
  PROVE  /\ BoxStep /\ RowsWithin(S)' /\ Grows /\ NoneSent
         /\ \A d \in Drain : ~ Asking(d)'
<1>1. BoxP!Crash
  BY BoxSame
<1>2. BoxStep
  BY <1>1 DEF BoxStep, BoxP!Next
<1>3. UNCHANGED <<inbox, effects, outbox>> /\ \A d \in Drain : drain'[d].phase = "idle"
  BY <1>1 DEF BoxP!Crash, BoxP!Idle
<1> QED
  BY <1>2, <1>3 DEF RowsWithin, InboxIn, RowsIn, ToldIn, RanIn, BoxP!Told, Grows, NoneSent, Asking

-----------------------------------------------------------------------------
\* The whole implements its two components: what is proved of the mailbox and
\* of the relay alone holds of them here.
AnswerFit == answer \in [Drain -> [given: BOOLEAN, ok: BOOLEAN, got: SUBSET Message]]

LEMMA AnswerFitHolds == Spec => []AnswerFit
<1>1. Init => AnswerFit
  BY DEF Init, AnswerFit, NoAnswer
<1>2. AnswerFit /\ [Next]_vars => AnswerFit'
  <2> SUFFICES ASSUME AnswerFit, [Next]_vars PROVE AnswerFit'
    OBVIOUS
  <2>1. NoAnswer \in [given: BOOLEAN, ok: BOOLEAN, got: SUBSET Message]
    BY DEF NoAnswer
  <2>2. ASSUME NEW d \in Drain, Serve(d)
        PROVE  AnswerFit'
    <3>1. PICK ok \in BOOLEAN, got \in SUBSET Message :
            answer' = [answer EXCEPT ![d] = [given |-> TRUE, ok |-> ok, got |-> got]]
      BY <2>2 DEF Serve, Leased
    <3> QED
      BY <3>1 DEF AnswerFit
  <2>3. ASSUME NEW d \in Drain, Receive(d) \/ Lose(d) \/ Resend(d)
        PROVE  AnswerFit'
    BY <2>1, <2>3 DEF AnswerFit, Receive, Lose, Resend
  <2>4. CASE Crash
    BY <2>1, <2>4 DEF AnswerFit, Crash
  <2>5. CASE UNCHANGED answer
    BY <2>5 DEF AnswerFit
  <2> QED
    BY <2>2, <2>3, <2>4, <2>5
    DEF Next, vars, EdgeStep, ServeStray, Offered, Cancelled, Clock, RowDue
<1> QED
  BY <1>1, <1>2, PTL DEF Spec

LEMMA ResumeSame ==
  ASSUME NEW d \in Drain, NEW ok \in BOOLEAN, NEW got \in SUBSET Message, Resume(d, ok, got)
  PROVE  BoxStep
BY BoxSame DEF Resume, BoxStep, BoxP!Next

\* The edge takes only steps of the mailbox: a request that is lost, repeated or
\* answered late, and a Runtime that dies with requests under way, is a post or
\* pull that ends in one of the ways drainLocalMailbox provides for, or a crash.
THEOREM ImplementsBox == Spec => BoxP!Spec
<1>1. Init => BoxP!Init
  BY BoxSame DEF Init
<1>2. AnswerFit /\ [Next]_vars => [BoxP!Next]_BoxP!vars
  <2> SUFFICES ASSUME AnswerFit, [Next]_vars PROVE BoxStep
    BY DEF BoxStep
  <2>1. ASSUME NEW d \in Drain, EdgeStep(d)
        PROVE  BoxStep
    <3>1. BoxP!LocalStep(d)
      BY <2>1, BoxSame, ScanSame DEF EdgeStep, Box!LocalStep, BoxP!LocalStep
    <3> QED
      BY <3>1 DEF BoxStep, BoxP!Next
  <2>2. ASSUME NEW d \in Drain, Receive(d)
        PROVE  BoxStep
    BY <2>2, ResumeSame DEF Receive, AnswerFit
  <2>3. ASSUME NEW d \in Drain, Lose(d)
        PROVE  BoxStep
    BY <2>3, ResumeSame DEF Lose
  <2>4. CASE RowDue
    BY <2>4, BoxSame DEF RowDue, BoxStep, BoxP!Next
  <2>5. CASE Crash
    BY <2>5, BoxSame DEF Crash, BoxStep, BoxP!Next
  <2>6. CASE UNCHANGED boxVars
    BY <2>6 DEF boxVars, BoxStep, BoxP!vars
  <2> QED
    BY <2>1, <2>2, <2>3, <2>4, <2>5, <2>6
    DEF Next, vars, Serve, Resend, ServeStray, Offered, Cancelled, Clock
<1> QED
  BY <1>1, <1>2, AnswerFitHolds, PTL DEF Spec, BoxP!Spec

LEMMA BoxFacts == Spec => [](BoxP!Typed /\ BoxP!Exclusion /\ BoxP!Backed)
<1>1. BoxP!Spec => []BoxP!Typed
  BY BoxAssumed, BoxP!TypedHolds DEF BoxP!MessageAssumption, BoxP!BoundAssumption
<1>2. BoxP!Spec => []BoxP!Exclusion
  BY BoxAssumed, BoxP!ExclusionHolds DEF BoxP!MessageAssumption, BoxP!BoundAssumption
<1>3. BoxP!Spec => []BoxP!Backed
  BY BoxAssumed, BoxP!BackedHolds DEF BoxP!MessageAssumption, BoxP!BoundAssumption
<1> QED
  BY <1>1, <1>2, <1>3, ImplementsBox, PTL

\* What a request may say: a receipt, drawn from the outbox, and an
\* acknowledgement only one that is there.
Truthful(r) ==
  r # Pull => /\ r.msg \in Message /\ r.retryable \in BOOLEAN
              /\ r.action = "ack" => <<r.msg, "ack">> \in BoxP!Told
StrayFit == \A r \in stray : Truthful(r)

LEMMA RequestFit ==
  ASSUME BoxP!Typed, NEW d \in Drain, Asking(d)
  PROVE  /\ Truthful(RequestOf(d))
         /\ drain[d].phase = "pull" => RequestOf(d) = Pull
         /\ drain[d].phase # "pull" =>
              /\ Head(drain[d].rows) \in DOMAIN outbox
              /\ RequestOf(d).action = outbox[Head(drain[d].rows)].action
              /\ RequestOf(d).msg = outbox[Head(drain[d].rows)].msg
              /\ RequestOf(d) # Pull
<1>1. CASE drain[d].phase = "pull"
  BY <1>1 DEF RequestOf, Truthful
<1>2. CASE drain[d].phase # "pull"
  <2>1. drain[d].rows \in Seq(1..Len(outbox)) /\ drain[d].rows # <<>>
    BY <1>2 DEF Asking, BoxP!Typed, BoxP!RowsFit
  <2>2. Head(drain[d].rows) \in DOMAIN outbox
    BY <2>1, BoxTyped, HeadTailProperties
  <2> DEFINE row == outbox[Head(drain[d].rows)]
  <2>3. row \in BoxP!Receipt
    BY <2>2, BoxTyped
  <2>4. row.msg \in Message /\ row.action \in {"ack", "fail"} /\ row.retryable \in BOOLEAN
    BY <2>3 DEF BoxP!Receipt
  <2>5. /\ RequestOf(d).action = row.action /\ RequestOf(d).msg = row.msg
        /\ RequestOf(d).retryable = row.retryable
    BY <1>2 DEF RequestOf
  <2>6. <<row.msg, row.action>> \in BoxP!Told
    BY <2>2 DEF BoxP!Told
  <2>7. RequestOf(d) # Pull
    BY <2>4, <2>5 DEF Pull
  <2> QED
    BY <1>2, <2>2, <2>4, <2>5, <2>6, <2>7 DEF Truthful
<1> QED
  BY <1>1, <1>2

LEMMA Heard ==
  ASSUME Grows
  PROVE  BoxP!Told \subseteq BoxP!Told'
BY DEF Grows, BoxP!Told

LEMMA StepGrows ==
  ASSUME BoxP!Typed, AnswerFit, [Next]_vars
  PROVE  Grows
<1>1. RowsWithin(Message)
  BY DEF RowsWithin, InboxIn, RowsIn, ToldIn, RanIn, BoxP!Typed, BoxP!RowsFit
<1>2. ASSUME NEW d \in Drain, EdgeStep(d)
      PROVE  Grows
  BY <1>1, <1>2, EdgeStepWithin
<1>3. ASSUME NEW d \in Drain, NEW ok \in BOOLEAN, NEW got \in SUBSET Message, Resume(d, ok, got)
      PROVE  Grows
  BY <1>1, <1>3, PostWithin, PullWithin DEF Resume
<1>4. ASSUME NEW d \in Drain, Receive(d) \/ Lose(d)
      PROVE  Grows
  BY <1>3, <1>4 DEF Receive, Lose, AnswerFit
<1>5. CASE RowDue
  BY <1>1, <1>5, DueWithin
<1>6. CASE Crash
  BY <1>1, <1>6, CrashWithin DEF Crash
<1>7. CASE UNCHANGED boxVars
  BY <1>7 DEF boxVars, Grows
<1> QED
  BY <1>2, <1>4, <1>5, <1>6, <1>7
  DEF Next, vars, Serve, Resend, ServeStray, Offered, Cancelled, Clock

LEMMA StrayFitHolds == Spec => []StrayFit
<1>1. Init => StrayFit
  BY DEF Init, StrayFit
<1>2. StrayFit /\ BoxP!Typed /\ AnswerFit /\ [Next]_vars => StrayFit'
  <2> SUFFICES ASSUME StrayFit, BoxP!Typed, AnswerFit, [Next]_vars, NEW r \in stray'
               PROVE  Truthful(r)'
    BY DEF StrayFit
  <2>1. BoxP!Told \subseteq BoxP!Told'
    BY StepGrows, Heard
  <2>2. Truthful(r) => Truthful(r)'
    BY <2>1 DEF Truthful, Pull
  <2>3. r \in stray \/ \E d \in Drain : (Asking(d) /\ r = RequestOf(d))
    <3>1. ASSUME NEW d \in Drain, Lose(d)
          PROVE  r \in stray \/ (r = RequestOf(d) /\ Asking(d))
      BY <3>1 DEF Lose
    <3>2. CASE Crash
      BY <3>2 DEF Crash
    <3>3. CASE stray' \subseteq stray
      BY <3>3
    <3>4. ASSUME NEW q \in stray, ServeStray(q)
          PROVE  stray' \subseteq stray
      BY <3>4 DEF ServeStray
    <3>5. ASSUME NEW d \in Drain, EdgeStep(d) \/ Serve(d) \/ Receive(d) \/ Resend(d)
          PROVE  stray' \subseteq stray
      BY <3>5 DEF EdgeStep, Serve, Receive, Resend
    <3> QED
      BY <3>1, <3>2, <3>3, <3>4, <3>5 DEF Next, vars, Offered, Cancelled, Clock, RowDue
  <2>4. Truthful(r)
    BY <2>3, RequestFit DEF StrayFit
  <2> QED
    BY <2>2, <2>4
<1> QED
  BY <1>1, <1>2, AnswerFitHolds, BoxFacts, PTL DEF Spec

\* The relay is only reached by truthful requests.
LEMMA Handled ==
  ASSUME NEW r, Truthful(r), r # Pull, ServeReceipt(r)
  PROVE  /\ RelayStep
         /\ Keeps \/ Drops(r.msg) \/ (r.action = "ack" /\ Delivers(r.msg))
         /\ r.action = "ack" => Delivers(r.msg)
         /\ r.msg \in Message
BY ReceiptHandled DEF Truthful

\* The center takes only steps of the relay: whatever request the routes serve,
\* twice or after its drain is gone, is a call of lease, ack or fail that
\* edge-messages.ts allows for.
THEOREM ImplementsRelay == Spec => RelayP!Spec
<1>1. Init => RelayP!Init
  BY RelaySame DEF Init
<1>2. StrayFit /\ BoxP!Typed /\ [Next]_vars => [RelayP!Next]_RelayP!vars
  <2> SUFFICES ASSUME StrayFit, BoxP!Typed, [Next]_vars PROVE RelayStep
    BY DEF RelayStep
  <2>1. CASE ServePull
    <3>1. PICK n \in Limits, w \in Workspace, filter \in Filters :
            RelayP!Lease(Edge, LeaseOwner, n, w, filter)
      BY <2>1, LeaseSame DEF ServePull
    <3> QED
      BY <3>1, EdgeAssumption DEF RelayStep, RelayP!Next
  <2>2. CASE UNCHANGED relayVars
    BY <2>2, RelayRests
  <2>3. ASSUME NEW d \in Drain, Serve(d)
        PROVE  RelayStep
    BY <2>1, <2>2, <2>3, RequestFit, Handled DEF Serve
  <2>4. ASSUME NEW r \in stray, ServeStray(r)
        PROVE  RelayStep
    BY <2>1, <2>2, <2>4, Handled DEF ServeStray, StrayFit
  <2> QED
    BY <2>2, <2>3, <2>4, RelayOthers
    DEF Next, vars, EdgeStep, Receive, Lose, Resend, RowDue, Crash
<1> QED
  BY <1>1, <1>2, StrayFitHolds, BoxFacts, PTL DEF Spec, RelayP!Spec

LEMMA RelayFacts == Spec => [](RelayP!TypeOK /\ RelayP!OneRowPerKey)
<1> USE RelayAssumed
    DEF RelayP!MessageAssumption, RelayP!EnvelopeAssumption, RelayP!KeyAssumption,
        RelayP!OwnerAssumption, RelayP!LimitAssumption, RelayP!CapAssumption
<1>1. RelayP!Spec => []RelayP!TypeOK
  BY RelayP!TypeCorrect
<1>2. RelayP!Spec => []RelayP!OneRowPerKey
  BY RelayP!OneRowPerKeyHolds
<1> QED
  BY <1>1, <1>2, ImplementsRelay, PTL

-----------------------------------------------------------------------------
\* The two together.  Mine are the rows the relay holds for this edge.
Mine == {m \in Message : status[m] # "absent" /\ Envelope[m].client = Edge}

Facts ==
  /\ AnswerFit /\ StrayFit
  /\ BoxP!Typed /\ BoxP!Exclusion /\ BoxP!Backed
  /\ RelayP!TypeOK /\ RelayP!OneRowPerKey

LEMMA FactsHold == Spec => []Facts
BY AnswerFitHolds, StrayFitHolds, BoxFacts, RelayFacts, PTL DEF Facts

\* Nothing reaches the edge but what the relay holds for it, and only a drain
\* that asked has an answer.
Within ==
  /\ RowsWithin(Mine)
  /\ \A d \in Drain : /\ answer[d].got \subseteq Mine
                      /\ answer[d].given => Asking(d)

\* What a step does to the statuses: a message is delivered only on an
\* acknowledgement that the edge has queued.
RelayMove ==
  \/ Keeps
  \/ \E m \in Message : \/ Offers(m)
                        \/ Drops(m)
                        \/ Delivers(m) /\ <<m, "ack">> \in BoxP!Told

LEMMA RelayMoves ==
  ASSUME Facts, [Next]_vars
  PROVE  RelayMove
<1>1. CASE ServePull
  BY <1>1, PullHandled DEF Facts, RelayMove
<1>2. CASE UNCHANGED relayVars
  BY <1>2, RelayRests DEF RelayMove
<1>3. ASSUME NEW r, Truthful(r), r # Pull, ServeReceipt(r)
      PROVE  RelayMove
  <2>1. r.action = "ack" => <<r.msg, "ack">> \in BoxP!Told
    BY <1>3 DEF Truthful
  <2> QED
    BY <1>3, <2>1, Handled DEF RelayMove
<1>4. ASSUME NEW d \in Drain, Serve(d)
      PROVE  RelayMove
  BY <1>1, <1>2, <1>3, <1>4, RequestFit DEF Serve, Facts
<1>5. ASSUME NEW r \in stray, ServeStray(r)
      PROVE  RelayMove
  BY <1>1, <1>2, <1>3, <1>5 DEF ServeStray, StrayFit, Facts
<1>6. ASSUME NEW m \in Message, Offered(m) \/ Cancelled(m) \/ Clock(m)
      PROVE  RelayMove
  BY <1>6, RelayOthers DEF RelayMove
<1> QED
  BY <1>2, <1>4, <1>5, <1>6
  DEF Next, vars, EdgeStep, Receive, Lose, Resend, RowDue, Crash

\* No row goes away and a completed row stays completed.
LEMMA RowsStay ==
  ASSUME Facts, RelayMove
  PROVE  /\ Mine \subseteq Mine'
         /\ \A m \in Message : status[m] = "completed" => status'[m] = "completed"
<1>1. status \in [Message -> RelayP!Status]
  BY DEF Facts, RelayP!TypeOK
<1>2. \A m \in Message : /\ status[m] # "absent" => status'[m] # "absent"
                         /\ status[m] = "completed" => status'[m] = "completed"
  BY <1>1 DEF RelayMove, Keeps, Open, Offers, Drops, Delivers
<1> QED
  BY <1>2 DEF Mine

\* What a step does to the mailbox: its rows stay within S, and a receipt is
\* marked as sent only by a drain that was told it was taken.
SentFits ==
  \A i \in DOMAIN outbox' :
    outbox'[i].state = "sent" =>
      /\ i \in DOMAIN outbox
      /\ \/ outbox[i].state = "sent"
         \/ \E d \in Drain : /\ answer[d].given /\ answer[d].ok /\ drain[d].phase # "pull"
                             /\ Asking(d) /\ i = Head(drain[d].rows)

AnswersFit ==
  \A e \in Drain :
    /\ answer'[e].got = {} \/ answer'[e] = answer[e] \/ Serve(e)
    /\ answer'[e].given => /\ drain'[e] = drain[e] /\ Asking(e)
                           /\ answer'[e] = answer[e] \/ Serve(e)

LEMMA NotSent == NoneSent => SentFits
BY DEF NoneSent, SentFits

LEMMA AnswersKept ==
  ASSUME \A d \in Drain : answer[d].given => Asking(d),
         NEW d \in Drain, OthersKept(d), ~ Asking(d), UNCHANGED answer
  PROVE  AnswersFit
BY DEF AnswersFit, OthersKept

LEMMA AnswerTaken ==
  ASSUME AnswerFit, \A d \in Drain : answer[d].given => Asking(d),
         NEW d \in Drain, OthersKept(d), answer' = [answer EXCEPT ![d] = NoAnswer]
  PROVE  AnswersFit
BY DEF AnswersFit, OthersKept, AnswerFit, NoAnswer

LEMMA BoxMoves ==
  ASSUME Facts, NEW S \in SUBSET Message, RowsWithin(S),
         \A d \in Drain : answer[d].got \in SUBSET S /\ (answer[d].given => Asking(d)),
         [Next]_vars
  PROVE  RowsWithin(S)' /\ SentFits /\ AnswersFit
<1> USE DEF Facts
<1>1. ASSUME NEW d \in Drain, EdgeStep(d)
      PROVE  RowsWithin(S)' /\ SentFits /\ AnswersFit
  BY <1>1, EdgeStepWithin, NotSent, AnswersKept
<1>2. ASSUME NEW d \in Drain, Receive(d)
      PROVE  RowsWithin(S)' /\ SentFits /\ AnswersFit
  <2>0. /\ answer[d].ok \in BOOLEAN /\ answer[d].got \in SUBSET S /\ answer[d].given /\ Asking(d)
        /\ answer' = [answer EXCEPT ![d] = NoAnswer] /\ Resume(d, answer[d].ok, answer[d].got)
    BY <1>2 DEF Receive, AnswerFit
  <2>1. CASE Box!PullDone(d, answer[d].got)
    BY <2>0, <2>1, PullWithin, NotSent, AnswerTaken
  <2>2. CASE drain[d].phase # "pull" /\ Box!PostDone(d, answer[d].ok)
    <3>1. RowsWithin(S)' /\ OthersKept(d) /\ SentFits
      BY <2>0, <2>2, PostWithin DEF SentFits
    <3> QED
      BY <2>0, <3>1, AnswerTaken
  <2> QED
    BY <2>0, <2>1, <2>2 DEF Resume
<1>3. ASSUME NEW d \in Drain, Lose(d)
      PROVE  RowsWithin(S)' /\ SentFits /\ AnswersFit
  <2>0. answer' = [answer EXCEPT ![d] = NoAnswer] /\ Resume(d, FALSE, {})
    BY <1>3 DEF Lose
  <2>1. CASE Box!PullDone(d, {})
    BY <2>0, <2>1, PullWithin, NotSent, AnswerTaken
  <2>2. CASE Box!PostDone(d, FALSE)
    <3>1. RowsWithin(S)' /\ OthersKept(d) /\ SentFits
      BY <2>2, PostWithin DEF SentFits
    <3> QED
      BY <2>0, <3>1, AnswerTaken
  <2> QED
    BY <2>0, <2>1, <2>2 DEF Resume
<1>4. CASE RowDue
  <2>1. RowsWithin(S)' /\ SentFits /\ UNCHANGED <<drain, answer>>
    BY <1>4, DueWithin, NotSent
  <2> QED
    BY <2>1 DEF AnswersFit
<1>5. CASE Crash
  <2>1. RowsWithin(S)' /\ SentFits
    BY <1>5, CrashWithin, NotSent DEF Crash
  <2>2. \A e \in Drain : answer'[e] = NoAnswer
    BY <1>5 DEF Crash
  <2> QED
    BY <2>1, <2>2 DEF AnswersFit, NoAnswer
<1>6. ASSUME UNCHANGED boxVars
      PROVE  RowsWithin(S)' /\ SentFits
  BY <1>6 DEF boxVars, RowsWithin, InboxIn, RowsIn, ToldIn, RanIn, BoxP!Told, SentFits
<1>7. ASSUME NEW d \in Drain, Serve(d)
      PROVE  AnswersFit /\ UNCHANGED boxVars
  <2>1. UNCHANGED boxVars /\ Asking(d)
    BY <1>7 DEF Serve
  <2>2. \A e \in Drain \ {d} : answer'[e] = answer[e]
    BY <1>7 DEF Serve, AnswerFit
  <2> QED
    BY <1>7, <2>1, <2>2 DEF AnswersFit, boxVars
<1>8. ASSUME NEW d \in Drain, Resend(d)
      PROVE  AnswersFit /\ UNCHANGED boxVars
  <2>1. UNCHANGED boxVars /\ answer' = [answer EXCEPT ![d] = NoAnswer]
    BY <1>8 DEF Resend
  <2> QED
    BY <2>1, AnswerTaken DEF OthersKept, boxVars
<1>9. CASE UNCHANGED <<boxVars, answer>>
  BY <1>6, <1>9 DEF boxVars, AnswersFit
<1> QED
  BY <1>1, <1>2, <1>3, <1>4, <1>5, <1>6, <1>7, <1>8, <1>9
  DEF Next, vars, ServeStray, Offered, Cancelled, Clock

\* An answer brings rows of this edge, and a positive one to an
\* acknowledgement means that the relay has taken it.
LEMMA Served ==
  ASSUME Facts, NEW d \in Drain, Serve(d)
  PROVE  /\ answer'[d].got \subseteq Mine'
         /\ answer'[d].ok /\ drain[d].phase # "pull" /\ RequestOf(d).action = "ack"
              => status'[RequestOf(d).msg] = "completed"
<1> DEFINE r == RequestOf(d)
<1>0. Asking(d) /\ Truthful(r) /\ (drain[d].phase # "pull" => r # Pull)
  BY RequestFit DEF Serve, Facts
<1>1. /\ r = Pull => r.action # "ack"
      /\ status \in [Message -> RelayP!Status]
  BY DEF Pull, Facts, RelayP!TypeOK
<1>2. CASE r = Pull /\ ServePull /\ answer' = [answer EXCEPT ![d] = [given |-> TRUE, ok |-> TRUE, got |-> Leased]]
  <2>1. answer'[d].got = Leased
    BY <1>2 DEF Facts, AnswerFit
  <2>2. Leased \subseteq Mine'
    BY <1>2, PullHandled DEF Mine, Facts
  <2> QED
    BY <1>1, <1>2, <2>1, <2>2
<1>3. CASE r # Pull /\ ServeReceipt(r) /\ answer' = [answer EXCEPT ![d] = [given |-> TRUE, ok |-> TRUE, got |-> {}]]
  <2>1. answer'[d].got = {}
    BY <1>3 DEF Facts, AnswerFit
  <2>2. r.action = "ack" => Delivers(r.msg) /\ r.msg \in Message
    BY <1>0, <1>3, Handled
  <2>3. r.action = "ack" => status'[r.msg] = "completed"
    BY <1>1, <2>2 DEF Delivers
  <2> QED
    BY <2>1, <2>3
<1>4. CASE answer' = [answer EXCEPT ![d] = [given |-> TRUE, ok |-> FALSE, got |-> {}]]
  BY <1>4 DEF Facts, AnswerFit
<1> QED
  BY <1>2, <1>3, <1>4 DEF Serve

LEMMA WithinHolds == Spec => []Within
<1>1. Init => Within
  <2> SUFFICES ASSUME Init PROVE Within
    OBVIOUS
  <2>1. BoxP!Init
    BY BoxSame DEF Init
  <2> QED
    BY <2>1
    DEF Init, Within, NoAnswer, RowsWithin, InboxIn, RowsIn, ToldIn, RanIn,
        BoxP!Told, BoxP!Init, BoxP!Idle
<1>2. Facts /\ Within /\ [Next]_vars => Within'
  <2> SUFFICES ASSUME Facts, Within, [Next]_vars
               PROVE  Within'
    OBVIOUS
  <2>1. PICK S \in SUBSET Message : S = Mine
    BY DEF Mine
  <2>2. RowsWithin(S) /\ \A d \in Drain : answer[d].got \in SUBSET S /\ (answer[d].given => Asking(d))
    BY <2>1 DEF Within
  <2>3. RowsWithin(S)' /\ AnswersFit
    BY <2>2, BoxMoves
  <2>4. S \subseteq Mine'
    BY <2>1, RelayMoves, RowsStay
  <2>5. Seq(S) \subseteq Seq(Mine')
    BY <2>4, SeqMonotonic
  <2>6. RowsWithin(Mine)'
    BY <2>3, <2>4, <2>5 DEF RowsWithin, InboxIn, RowsIn, ToldIn, RanIn
  <2>7. ASSUME NEW d \in Drain
        PROVE  answer'[d].got \subseteq Mine' /\ (answer'[d].given => Asking(d)')
    BY <2>2, <2>3, <2>4, Served DEF AnswersFit, Asking
  <2> QED
    BY <2>6, <2>7 DEF Within
<1> QED
  BY <1>1, <1>2, FactsHold, PTL DEF Spec

-----------------------------------------------------------------------------
\* A completed row has an acknowledgement in the outbox, and a drain that was
\* told its acknowledgement is taken was told the truth.
Reported == \A m \in Message : status[m] = "completed" => <<m, "ack">> \in BoxP!Told

Confirmed ==
  \A d \in Drain :
    answer[d].given /\ answer[d].ok /\ drain[d].phase # "pull" /\ RequestOf(d).action = "ack"
      => status[RequestOf(d).msg] = "completed"

LEMMA ReportedHolds == Spec => []Reported
<1>1. Init => Reported
  BY RelaySame DEF Init, Reported, RelayP!Init
<1>2. Facts /\ Reported /\ [Next]_vars => Reported'
  <2> SUFFICES ASSUME Facts, Reported, [Next]_vars, NEW m \in Message, status'[m] = "completed"
               PROVE  <<m, "ack">> \in BoxP!Told'
    BY DEF Reported
  <2>1. BoxP!Told \subseteq BoxP!Told'
    BY StepGrows, Heard DEF Facts
  <2>2. status \in [Message -> RelayP!Status]
    BY DEF Facts, RelayP!TypeOK
  <2>3. status[m] = "completed" \/ <<m, "ack">> \in BoxP!Told
    BY <2>2, RelayMoves DEF RelayMove, Keeps, Open, Offers, Drops, Delivers
  <2> QED
    BY <2>1, <2>3 DEF Reported
<1> QED
  BY <1>1, <1>2, FactsHold, PTL DEF Spec

LEMMA SameRequest ==
  ASSUME Facts, [Next]_vars, NEW d \in Drain, Asking(d), drain[d].phase # "pull", drain'[d] = drain[d]
  PROVE  /\ RequestOf(d)'.action = RequestOf(d).action
         /\ RequestOf(d)'.msg = RequestOf(d).msg /\ RequestOf(d).msg \in Message
<1>1. Grows
  BY StepGrows DEF Facts
<1>2. /\ Head(drain[d].rows) \in DOMAIN outbox
      /\ RequestOf(d).action = outbox[Head(drain[d].rows)].action
      /\ RequestOf(d).msg = outbox[Head(drain[d].rows)].msg
      /\ RequestOf(d).msg \in Message
  BY RequestFit DEF Facts, Truthful
<1>3. /\ RequestOf(d)'.action = outbox'[Head(drain[d].rows)].action
      /\ RequestOf(d)'.msg = outbox'[Head(drain[d].rows)].msg
  BY DEF RequestOf
<1> QED
  BY <1>1, <1>2, <1>3 DEF Grows

\* An acknowledgement the edge believes delivered was taken by the center.
THEOREM SentMeansCompletedHolds == Spec => []SentMeansCompleted
<1>1. Init => Confirmed /\ SentMeansCompleted
  <2> SUFFICES ASSUME Init PROVE Confirmed /\ SentMeansCompleted
    OBVIOUS
  <2>1. BoxP!Init
    BY BoxSame DEF Init
  <2>2. outbox = <<>> /\ \A d \in Drain : answer[d] = NoAnswer
    BY <2>1 DEF Init, BoxP!Init
  <2> QED
    BY <2>2 DEF Confirmed, SentMeansCompleted, NoAnswer
<1>2. Facts /\ Within /\ Confirmed /\ SentMeansCompleted /\ [Next]_vars
        => Confirmed' /\ SentMeansCompleted'
  <2> SUFFICES ASSUME Facts, Within, Confirmed, SentMeansCompleted, [Next]_vars
               PROVE  Confirmed' /\ SentMeansCompleted'
    OBVIOUS
  <2>1. \A m \in Message : status[m] = "completed" => status'[m] = "completed"
    BY RelayMoves, RowsStay
  <2>2. SentFits /\ AnswersFit
    <3>1. PICK S \in SUBSET Message : S = Mine
      BY DEF Mine
    <3> QED
      BY <3>1, BoxMoves DEF Within
  <2>3. ASSUME NEW d \in Drain, answer'[d].given, answer'[d].ok, drain'[d].phase # "pull",
               RequestOf(d)'.action = "ack"
        PROVE  status'[RequestOf(d)'.msg] = "completed"
    <3>1. drain'[d] = drain[d] /\ Asking(d) /\ (answer'[d] = answer[d] \/ Serve(d))
      BY <2>2, <2>3 DEF AnswersFit
    <3>2. /\ RequestOf(d).action = "ack"
          /\ RequestOf(d)'.msg = RequestOf(d).msg /\ RequestOf(d).msg \in Message
      BY <2>3, <3>1, SameRequest
    <3>3. CASE answer'[d] = answer[d]
      BY <2>1, <2>3, <3>1, <3>2, <3>3 DEF Confirmed
    <3>4. CASE Serve(d)
      BY <2>3, <3>1, <3>2, <3>4, Served
    <3> QED
      BY <3>1, <3>3, <3>4
  <2>4. ASSUME NEW i \in DOMAIN outbox', outbox'[i].action = "ack", outbox'[i].state = "sent"
        PROVE  status'[outbox'[i].msg] = "completed"
    <3>1. i \in DOMAIN outbox /\ outbox'[i].action = outbox[i].action /\ outbox'[i].msg = outbox[i].msg
      BY <2>2, <2>4, StepGrows DEF SentFits, Grows, Facts
    <3>2. outbox[i].msg \in Message
      BY <3>1, BoxTyped DEF Facts, BoxP!Receipt
    <3>3. CASE outbox[i].state = "sent"
      BY <2>1, <2>4, <3>1, <3>2, <3>3 DEF SentMeansCompleted
    <3>4. ASSUME NEW d \in Drain, answer[d].given, answer[d].ok, drain[d].phase # "pull", Asking(d),
                 i = Head(drain[d].rows)
          PROVE  status'[outbox'[i].msg] = "completed"
      <4>1. RequestOf(d).action = outbox[i].action /\ RequestOf(d).msg = outbox[i].msg
        BY <3>4, RequestFit DEF Facts
      <4> QED
        BY <2>1, <2>4, <3>1, <3>2, <3>4, <4>1 DEF Confirmed
    <3> QED
      BY <2>2, <2>4, <3>3, <3>4 DEF SentFits
  <2> QED
    BY <2>3, <2>4 DEF Confirmed, SentMeansCompleted
<1> QED
  BY <1>1, <1>2, FactsHold, WithinHolds, PTL DEF Spec

-----------------------------------------------------------------------------
\* Two rows of this edge with one key are twins: the relay keeps one row for a
\* tenant, a client and a key.
LEMMA OwnKeys ==
  ASSUME Facts, NEW m \in Mine, NEW n \in Mine, BoxP!IdemOf(m) = BoxP!IdemOf(n)
  PROVE  n \in Twin(m) /\ m \in Twin(n)
BY DEF Facts, Mine, Twin, BoxP!IdemOf, RelayP!OneRowPerKey, RelayP!Row, RelayP!ClientOf,
       RelayP!TenantOf

\* No other tenant of its client uses the key of m.
Alone(m) == Twin(m) = {m}

\* A session message without a twin that is acknowledged is on record, and one
\* that runs is not: only its own run could have left the record, or could
\* overwrite it.
Recorded ==
  /\ \A m \in Message :
       <<m, "ack">> \in BoxP!Told /\ BoxP!KeyOf(m) # NoKey /\ Alone(m)
         => exec[BoxP!IdemOf(m)] = "completed"
  /\ \A d \in Drain :
       BoxP!Running(d) /\ BoxP!KeyOf(BoxP!Row(d)) # NoKey /\ Alone(BoxP!Row(d))
         => exec[BoxP!IdemOf(BoxP!Row(d))] # "completed"

LEMMA RecordedStep ==
  ASSUME Facts, Within, Recorded, BoxP!StepKind
  PROVE  Recorded'
<1>0. /\ exec \in [BoxP!Idem -> {"none", "completed", "failed"}]
      /\ \A m \in Message : BoxP!IdemOf(m) \in BoxP!Idem
  BY DEF Facts, BoxP!Typed, BoxP!TypeOK, BoxP!Idem
<1>1. \A d \in Drain : BoxP!Running(d) => BoxP!Row(d) \in Mine /\ BoxP!Row(d) \in Message
  <2> SUFFICES ASSUME NEW d \in Drain, BoxP!Running(d)
               PROVE  BoxP!Row(d) \in Mine
    BY DEF Mine
  <2>1. drain[d].rows \in Seq(Mine) /\ drain[d].rows # <<>>
    BY DEF Within, RowsWithin, RowsIn, Facts, BoxP!Typed, BoxP!RowsFit, BoxP!Running
  <2> QED
    BY <2>1, HeadTailProperties DEF BoxP!Row
<1>2. \A m \in Message : <<m, "ack">> \in BoxP!Told => m \in Mine
  BY DEF Within, RowsWithin, ToldIn
<1> USE DEF Recorded, BoxP!Row
<1>3. CASE BoxP!Rests
  BY <1>3 DEF BoxP!Rests, BoxP!Same
<1>4. ASSUME NEW m \in Message, BoxP!Repeats(m)
      PROVE  Recorded'
  BY <1>4 DEF BoxP!Repeats, BoxP!Same
<1>5. ASSUME NEW d \in Drain, NEW m \in Message, BoxP!Begins(d, m)
      PROVE  Recorded'
  BY <1>5 DEF BoxP!Begins, BoxP!OthersSame, BoxP!Same
<1>6. ASSUME NEW d \in Drain, NEW m \in Message, BoxP!Writes(d, m)
      PROVE  Recorded'
  BY <1>6 DEF BoxP!Writes, BoxP!OthersSame, BoxP!Same, BoxP!Running
<1>7. ASSUME NEW d \in Drain, NEW m \in Message, NEW a \in {"ack", "fail"}, BoxP!Ends(d, m, a)
      PROVE  Recorded'
  <2>1. BoxP!Running(d) /\ BoxP!Row(d) = m /\ m \in Mine /\ ~ BoxP!Running(d)'
    BY <1>1, <1>7 DEF BoxP!Ends
  <2>2. /\ exec'[BoxP!IdemOf(m)] = IF a = "ack" THEN "completed" ELSE "failed"
        /\ \A i \in BoxP!Idem : i # BoxP!IdemOf(m) => exec'[i] = exec[i]
        /\ BoxP!Told' = BoxP!Told \cup {<<m, a>>}
    BY <1>0, <1>7 DEF BoxP!Ends
  <2>3. ASSUME NEW n \in Message, <<n, "ack">> \in BoxP!Told', BoxP!KeyOf(n) # NoKey, Alone(n)
        PROVE  exec'[BoxP!IdemOf(n)] = "completed"
    <3>1. CASE n = m /\ a = "ack"
      BY <2>2, <3>1
    <3>2. CASE <<n, "ack">> \in BoxP!Told
      <4>1. n \in Mine /\ exec[BoxP!IdemOf(n)] = "completed"
        BY <1>2, <2>3, <3>2
      <4>2. n # m => BoxP!IdemOf(n) # BoxP!IdemOf(m)
        BY <2>1, <2>3, <4>1, OwnKeys DEF Alone
      <4>3. n # m
        BY <1>7, <2>1, <2>3, <4>1 DEF BoxP!Running
      <4> QED
        BY <1>0, <2>2, <4>1, <4>2, <4>3
    <3> QED
      BY <2>2, <2>3, <3>1, <3>2
  <2>4. ASSUME NEW e \in Drain, BoxP!Running(e)', BoxP!KeyOf(BoxP!Row(e)') # NoKey,
               Alone(BoxP!Row(e)')
        PROVE  exec'[BoxP!IdemOf(BoxP!Row(e)')] # "completed"
    <3>1. e # d /\ BoxP!Running(e) /\ drain'[e].rows = drain[e].rows
      BY <1>7, <2>1, <2>4 DEF BoxP!Ends, BoxP!OthersSame, BoxP!Same
    <3>2. BoxP!Row(e)' = BoxP!Row(e) /\ BoxP!Row(e) \in Mine /\ BoxP!Row(e) \in Message
      BY <1>1, <3>1
    <3>3. BoxP!Row(e) # m
      BY <2>1, <2>4, <3>1, <3>2 DEF Facts, BoxP!Exclusion, BoxP!OneAtATime, BoxP!KeySet
    <3>4. BoxP!IdemOf(BoxP!Row(e)) # BoxP!IdemOf(m)
      BY <2>1, <2>4, <3>2, <3>3, OwnKeys DEF Alone
    <3> QED
      BY <1>0, <2>2, <2>4, <3>1, <3>2, <3>4
  <2> QED
    BY <2>3, <2>4
<1>8. CASE BoxP!Stops
  BY <1>8 DEF BoxP!Stops
<1> QED
  BY <1>3, <1>4, <1>5, <1>6, <1>7, <1>8 DEF BoxP!StepKind

LEMMA BoxKind == Spec => [][BoxP!StepKind]_vars
<1>1. BoxP!Typed /\ [BoxP!Next]_BoxP!vars => BoxP!StepKind
  BY BoxAssumed, BoxP!NextIs DEF BoxP!MessageAssumption, BoxP!BoundAssumption
<1> QED
  BY <1>1, ImplementsBox, BoxFacts, PTL DEF BoxP!Spec

LEMMA RecordedHolds == Spec => []Recorded
<1>1. Init => Recorded
  <2> SUFFICES ASSUME Init PROVE Recorded
    OBVIOUS
  <2>1. BoxP!Init
    BY BoxSame DEF Init
  <2> QED
    BY <2>1 DEF BoxP!Init, Recorded, BoxP!Told, BoxP!Running, BoxP!Idle
<1>2. Facts /\ Within /\ Recorded /\ [BoxP!StepKind]_vars => Recorded'
  <2>1. Facts /\ Within /\ Recorded /\ BoxP!StepKind => Recorded'
    BY RecordedStep
  <2>2. Recorded /\ UNCHANGED vars => Recorded'
    BY DEF vars, boxVars, Recorded, BoxP!Told, BoxP!Running, BoxP!Row
  <2> QED
    BY <2>1, <2>2
<1> QED
  BY <1>1, <1>2, FactsHold, WithinHolds, BoxKind, PTL DEF Spec

\* The fate of a message, as DeliveryContract speaks of it.
FateOf(s) ==
  CASE s = "absent" -> "none"
    [] s = "completed" -> "delivered"
    [] s \in {"dead_letter", "cancelled"} -> "dropped"
    [] OTHER -> "open"
Fates == [m \in Message |-> FateOf(status[m])]
Sessions == {m \in Message : Envelope[m].key # NoKey /\ Twin(m) = {m}}
Twins == [m \in Message |-> Twin(m)]

LEMMA FatesOf ==
  /\ FateOf("absent") = "none" /\ FateOf("completed") = "delivered"
  /\ FateOf("dead_letter") = "dropped" /\ FateOf("cancelled") = "dropped"
  /\ \A s \in Open : FateOf(s) = "open"
BY DEF FateOf, Open

\* A change of one status is a change of one fate.
LEMMA FateMoves ==
  ASSUME RelayP!TypeOK, NEW m \in Message, NEW s, status' = [status EXCEPT ![m] = s]
  PROVE  Fates' = [Fates EXCEPT ![m] = FateOf(s)]
BY DEF Fates, RelayP!TypeOK

\* One side at a time.
LEMMA OneSide ==
  ASSUME [Next]_vars
  PROVE  UNCHANGED relayVars \/ UNCHANGED boxVars
BY DEF Next, vars, EdgeStep, Serve, Receive, Lose, Resend, ServeStray, Offered, Cancelled,
       Clock, RowDue, Crash

\* What the contract sees of a step of the relay.
LEMMA RelayKeeps ==
  ASSUME Facts, Within, RelayMove, UNCHANGED effects
  PROVE  \/ UNCHANGED <<Fates, effects>>
         \/ \E m \in Message :
              \/ Fates[m] = "none" /\ Fates' = [Fates EXCEPT ![m] = "open"]
              \/ /\ Fates[m] = "open" /\ \E n \in Twins[m] : effects[n] > 0
                 /\ Fates' = [Fates EXCEPT ![m] = "delivered"]
              \/ Fates[m] = "open" /\ Fates' = [Fates EXCEPT ![m] = "dropped"]
<1>0. RelayP!TypeOK /\ status \in [Message -> RelayP!Status]
  BY DEF Facts, RelayP!TypeOK
<1>1. CASE Keeps
  <2>1. \A m \in Message : FateOf(status'[m]) = FateOf(status[m])
    BY <1>1, FatesOf DEF Keeps
  <2> QED
    BY <2>1 DEF Fates
<1>2. ASSUME NEW m \in Message, Offers(m)
      PROVE  Fates[m] = "none" /\ Fates' = [Fates EXCEPT ![m] = "open"]
  <2>1. Fates[m] = "none"
    BY <1>2, FatesOf DEF Fates, Offers
  <2>2. Fates' = [Fates EXCEPT ![m] = FateOf("pending")]
    BY <1>0, <1>2, FateMoves DEF Offers
  <2> QED
    BY <2>1, <2>2, FatesOf DEF Open
<1>3. ASSUME NEW m \in Message, Delivers(m), <<m, "ack">> \in BoxP!Told
      PROVE  /\ Fates[m] = "open" /\ \E n \in Twins[m] : effects[n] > 0
             /\ Fates' = [Fates EXCEPT ![m] = "delivered"]
  <2>1. Fates[m] = "open"
    BY <1>3, FatesOf DEF Fates, Delivers, Open
  <2>2. Fates' = [Fates EXCEPT ![m] = FateOf("completed")]
    BY <1>0, <1>3, FateMoves DEF Delivers
  <2>3. PICK n \in Message : BoxP!IdemOf(n) = BoxP!IdemOf(m) /\ effects[n] > 0
    BY <1>3 DEF Facts, BoxP!Backed, BoxP!Ran
  <2>4. m \in Mine /\ n \in Mine
    BY <1>3, <2>3 DEF Within, RowsWithin, ToldIn, RanIn
  <2>5. n \in Twins[m]
    BY <2>3, <2>4, OwnKeys DEF Twins
  <2> QED
    BY <2>1, <2>2, <2>3, <2>5, FatesOf
<1>4. ASSUME NEW m \in Message, Drops(m)
      PROVE  \/ UNCHANGED Fates
             \/ Fates[m] = "open" /\ Fates' = [Fates EXCEPT ![m] = "dropped"]
  <2>1. PICK s \in {"dead_letter", "cancelled"} : status' = [status EXCEPT ![m] = s]
    BY <1>4 DEF Drops
  <2>2. Fates' = [Fates EXCEPT ![m] = "dropped"]
    BY <1>0, <2>1, FateMoves, FatesOf
  <2>3. Fates[m] \in {"open", "dropped"}
    <3>1. status[m] \in Open \cup {"dead_letter", "cancelled"}
      BY <1>0, <1>4 DEF Drops, Open, RelayP!Status
    <3> QED
      BY <3>1, FatesOf DEF Fates
  <2>4. Fates[m] = "dropped" => Fates' = Fates
    BY <2>2 DEF Fates
  <2> QED
    BY <2>2, <2>3, <2>4
<1> QED
  BY <1>1, <1>2, <1>3, <1>4 DEF RelayMove

\* What the contract sees of a step of the edge.
LEMMA EdgeKeeps ==
  ASSUME Facts, Within, Within', Reported, Recorded, BoxP!StepKind, UNCHANGED relayVars
  PROVE  \/ UNCHANGED <<Fates, effects>>
         \/ /\ UNCHANGED Fates
            /\ \E m \in Message :
                 /\ Fates[m] # "none"
                 /\ Fates[m] = "delivered" => m \notin Sessions
                 /\ effects[m] < RunCap
                 /\ effects' = [effects EXCEPT ![m] = @ + 1]
<1>1. UNCHANGED Fates /\ Mine' = Mine
  BY DEF relayVars, Fates, Mine
<1>2. ASSUME UNCHANGED effects
      PROVE  UNCHANGED <<Fates, effects>>
  BY <1>1, <1>2
<1>3. ASSUME NEW m \in Message, m \in Mine, effects' = BoxP!OneMore(m),
             BoxP!KeyOf(m) # NoKey /\ Alone(m) => exec[BoxP!IdemOf(m)] # "completed"
      PROVE  \/ UNCHANGED effects
             \/ /\ Fates[m] # "none"
                /\ Fates[m] = "delivered" => m \notin Sessions
                /\ effects[m] < RunCap
                /\ effects' = [effects EXCEPT ![m] = @ + 1]
  <2>1. effects' = IF effects[m] < RunCap THEN [effects EXCEPT ![m] = @ + 1] ELSE effects
    <3>1. effects \in [Message -> 0..RunCap]
      BY BoxTyped DEF Facts
    <3> QED
      BY <1>3, <3>1 DEF BoxP!OneMore
  <2>2. status[m] \in RelayP!Status /\ status[m] # "absent"
    BY <1>3 DEF Facts, RelayP!TypeOK, Mine
  <2>3. status[m] \in Open \cup {"completed", "dead_letter", "cancelled"}
    BY <2>2 DEF Open, RelayP!Status
  <2>4. Fates[m] # "none"
    BY <2>3, FatesOf DEF Fates
  <2>5. ASSUME Fates[m] = "delivered"
        PROVE  m \notin Sessions
    <3>1. status[m] = "completed"
      BY <2>3, <2>5, FatesOf DEF Fates
    <3>2. BoxP!KeyOf(m) = NoKey \/ ~ Alone(m)
      BY <1>3, <3>1 DEF Reported, Recorded
    <3>3. Envelope[m].key \in Key \cup {NoKey}
      BY RelayAssumed DEF RelayP!EnvelopeAssumption
    <3> QED
      BY <3>2, <3>3, RelayAssumed DEF RelayP!KeyAssumption, BoxP!KeyOf, Sessions, Alone
  <2> QED
    BY <2>1, <2>4, <2>5
<1>4. ASSUME NEW d \in Drain, NEW m \in Message, BoxP!Begins(d, m)
      PROVE  m \in Mine /\ (UNCHANGED effects \/ effects' = BoxP!OneMore(m))
             /\ exec[BoxP!IdemOf(m)] # "completed"
  <2>2. inbox'[m] = "processing"
    <3>1. inbox \in [Message -> {"absent", "pending", "processing", "completed", "failed"}]
      BY BoxTyped DEF Facts
    <3> QED
      BY <1>4, <3>1 DEF BoxP!Begins
  <2>3. m \in Mine'
    BY <2>2 DEF Within, RowsWithin, InboxIn
  <2> QED
    BY <1>1, <1>4, <2>3 DEF BoxP!Begins
<1>5. ASSUME NEW d \in Drain, NEW m \in Message, BoxP!Writes(d, m)
      PROVE  /\ m \in Mine /\ effects' = BoxP!OneMore(m)
             /\ BoxP!KeyOf(m) # NoKey /\ Alone(m) => exec[BoxP!IdemOf(m)] # "completed"
  <2>1. BoxP!Running(d) /\ BoxP!Row(d) = m
    BY <1>5 DEF BoxP!Writes, BoxP!Running
  <2>2. drain[d].rows \in Seq(Mine) /\ drain[d].rows # <<>>
    BY <2>1 DEF Within, RowsWithin, RowsIn, Facts, BoxP!Typed, BoxP!RowsFit, BoxP!Running
  <2>3. m \in Mine
    BY <2>1, <2>2, HeadTailProperties DEF BoxP!Row
  <2> QED
    BY <1>5, <2>1, <2>3 DEF Recorded, BoxP!Writes
<1>6. UNCHANGED effects
      \/ \E d \in Drain, m \in Message : BoxP!Begins(d, m) \/ BoxP!Writes(d, m)
  BY DEF BoxP!StepKind, BoxP!Rests, BoxP!Repeats, BoxP!Ends, BoxP!Stops
<1> QED
  BY <1>1, <1>2, <1>3, <1>4, <1>5, <1>6

\* The relay, the network and the mailbox together keep DeliveryContract.
THEOREM KeepsContractHolds == Spec => KeepsContract
<1>1. Init => Contract!Init
  <2> SUFFICES ASSUME Init PROVE Contract!Init
    OBVIOUS
  <2>1. status = [m \in Message |-> "absent"] /\ effects = [m \in Message |-> 0]
    BY BoxSame, RelaySame DEF Init, BoxP!Init, RelayP!Init
  <2> QED
    BY <2>1 DEF Contract!Init
<1>2. Facts /\ Within /\ Within' /\ Reported /\ Recorded /\ [BoxP!StepKind]_vars /\ [Next]_vars
        => [Contract!Next]_<<Fates, effects>>
  <2> SUFFICES ASSUME Facts, Within, Within', Reported, Recorded, BoxP!StepKind, [Next]_vars
               PROVE  [Contract!Next]_<<Fates, effects>>
    BY DEF vars, relayVars, boxVars, Fates
  <2> USE DEF Contract!Next, Contract!Offer, Contract!Run, Contract!Deliver, Contract!Drop,
              Fates, FateOf, Sessions, Twins
  <2>1. CASE UNCHANGED boxVars
    <3>1. UNCHANGED effects
      BY <2>1 DEF boxVars
    <3> QED
      BY <3>1, RelayMoves, RelayKeeps
  <2>2. CASE UNCHANGED relayVars
    BY <2>2, EdgeKeeps
  <2> QED
    BY <2>1, <2>2, OneSide
<1> QED
  BY <1>1, <1>2, FactsHold, WithinHolds, ReportedHolds, RecordedHolds, BoxKind, PTL
  DEF Spec, KeepsContract, Contract!Spec, Fates, FateOf

=============================================================================
