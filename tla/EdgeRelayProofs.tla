--------------------------- MODULE EdgeRelayProofs ---------------------------
(***************************************************************************)
(* Proofs about EdgeRelay for every set of messages, clients and keys.     *)
(* The inductive invariant is TypeOK, LeaseColumns, RetryBudget,           *)
(* OneRowPerKey, AuditTruth and, for keys stored without surrounding       *)
(* blanks, SerialExclusion.                                                *)
(***************************************************************************)
EXTENDS EdgeRelay, SequenceTheorems, FiniteSetTheorems, TLAPS

\* The keys of the sessions are stored as serialKey() would return them.
KeysTrimmed == \A m \in Message : SerialKey(m) = PeerKey(m)

-----------------------------------------------------------------------------
\* Every position of a scan names a due row: what the SQL of leaseEdgeMessages
\* selected is all the loop can lease.
LEMMA ScanRows ==
  ASSUME NEW S \in SUBSET Message, NEW q \in SetToSeqs(S)
  PROVE  /\ q \in Seq(S)
         /\ \A i \in 1..Len(q) : q[i] \in S
<1>1. IsFiniteSet(S)
  BY MessageAssumption, FS_Subset
<1>2. Cardinality(S) \in Nat
  BY <1>1, FS_CardinalityType
<1>3. q \in [1..Cardinality(S) -> S]
  BY DEF SetToSeqs
<1>4. q \in Seq(S)
  BY <1>2, <1>3, SeqDef
<1> QED
  BY <1>4

\* The rows a Lease step hands out were due, and none of them has a serial
\* peer among the rows that stay leased or among the others handed out.
LEMMA BatchRows ==
  ASSUME TypeOK, NEW c \in Client, NEW n \in Limits, NEW w \in Workspace, NEW filter \in Filters,
         NEW q \in Scans(Due(c, w, filter, Swept(c))),
         NEW B \in SUBSET Page(q, n), IsBatch(B, q, n, Swept(c))
  PROVE  /\ {q[i] : i \in B} \subseteq Due(c, w, filter, Swept(c))
         /\ \A i \in B : ~ HasLeasedSerialPeer(q[i], {m \in Message : Swept(c)[m] = "leased"})
         /\ \A i, j \in B : i < j => ~ HasLeasedSerialPeer(q[j], {q[i]})
<1> DEFINE D == Due(c, w, filter, Swept(c))
           L == {m \in Message : Swept(c)[m] = "leased"}
           Earlier(i) == {j \in B : j < i}
<1>1. D \in SUBSET Message /\ q \in SetToSeqs(D)
  BY DEF Scans, Due
<1>2. \A i \in B : i \in 1..Len(q) /\ i \in Page(q, n)
  BY DEF Page
<1>3. \A i \in B : q[i] \in D
  BY <1>1, <1>2, ScanRows
<1>4. \A i \in B : ~ HasLeasedSerialPeer(q[i], L \cup {q[j] : j \in Earlier(i)})
  BY <1>2 DEF IsBatch
<1>5. ASSUME NEW m \in Message, NEW P, NEW R, P \subseteq R, ~ HasLeasedSerialPeer(m, R)
      PROVE  ~ HasLeasedSerialPeer(m, P)
  BY <1>5 DEF HasLeasedSerialPeer
<1>6. \A i \in B : ~ HasLeasedSerialPeer(q[i], L)
  <2> TAKE i \in B
  <2>1. L \subseteq L \cup {q[j] : j \in Earlier(i)}
    OBVIOUS
  <2> QED
    BY <2>1, <1>1, <1>3, <1>4, <1>5
<1>7. ASSUME NEW i \in B, NEW j \in B, i < j
      PROVE  ~ HasLeasedSerialPeer(q[j], {q[i]})
  <2>1. {q[i]} \subseteq L \cup {q[k] : k \in Earlier(j)}
    BY <1>7
  <2> QED
    BY <2>1, <1>1, <1>3, <1>4, <1>5
<1> QED
  BY <1>3, <1>6, <1>7

-----------------------------------------------------------------------------
\* A Lease step in the terms the invariants need: some set of due rows without
\* serial conflicts is handed out.
LEMMA LeaseStep ==
  ASSUME TypeOK, NEW c \in Client, NEW o \in Owner, NEW n \in Limits,
         NEW w \in Workspace, NEW filter \in Filters, Lease(c, o, n, w, filter)
  PROVE  \E batch \in SUBSET Due(c, w, filter, Swept(c)) :
           /\ LeaseBatch(c, o, batch)
           /\ \A m \in batch : ~ HasLeasedSerialPeer(m, {p \in Message : Swept(c)[p] = "leased"})
           /\ \A a, b \in batch : a # b => \/ ~ HasLeasedSerialPeer(a, {b})
                                           \/ ~ HasLeasedSerialPeer(b, {a})
<1>0. PICK q \in Scans(Due(c, w, filter, Swept(c))) :
        \E B \in SUBSET Page(q, n) :
          IsBatch(B, q, n, Swept(c)) /\ LeaseBatch(c, o, {q[i] : i \in B})
  BY DEF Lease
<1>1. PICK B \in SUBSET Page(q, n) :
        IsBatch(B, q, n, Swept(c)) /\ LeaseBatch(c, o, {q[i] : i \in B})
  BY <1>0
<1>2. B \subseteq Nat
  BY DEF Page
<1>3. ASSUME NEW i \in B, NEW j \in B, q[i] # q[j]
      PROVE  ~ HasLeasedSerialPeer(q[i], {q[j]}) \/ ~ HasLeasedSerialPeer(q[j], {q[i]})
  <2>1. i < j \/ j < i
    BY <1>2, <1>3
  <2> QED
    BY <1>1, <2>1, BatchRows
<1> DEFINE batch == {q[i] : i \in B}
           L == {p \in Message : Swept(c)[p] = "leased"}
<1>4. batch \in SUBSET Due(c, w, filter, Swept(c)) /\ LeaseBatch(c, o, batch)
  BY <1>1, BatchRows
<1>5. \A m \in batch : ~ HasLeasedSerialPeer(m, L)
  BY <1>1, BatchRows
<1>6. \A a, b \in batch : a # b => ~ HasLeasedSerialPeer(a, {b}) \/ ~ HasLeasedSerialPeer(b, {a})
  BY <1>3
<1> HIDE DEF batch
<1> QED
  BY <1>4, <1>5, <1>6

-----------------------------------------------------------------------------
\* What people and evaluations do to a watch event is nothing to the messages.
LEMMA EventOnly ==
  ASSUME Restart \/ \E m \in Message : EventMoves(m)
  PROVE  UNCHANGED <<status, owner, attempts, born, second, lapsed, backoff, home, audit>>
BY DEF Restart, EventMoves, Show, Claim, Dismiss, AnswerEnds, RivalRaised, RivalClosed, Write

\* Every writer of a watch event writes an event.
LEMMA EventTyped ==
  ASSUME event \in [Message -> WatchEvent]
  PROVE  /\ \A m \in Message : NamedEvents(m) \subseteq WatchEvent
         /\ \A m \in Message, delivered \in BOOLEAN : EventAfterAck(m, delivered) \in WatchEvent
         /\ Restart \/ (\E m \in Message : EventMoves(m)) => event' \in [Message -> WatchEvent]
<1> DEFINE Count == 0..Askers
<1>1. /\ 0 \in Count
      /\ \A n \in Count : (n < Askers => n + 1 \in Count) /\ (n > 0 => n - 1 \in Count)
  BY CapAssumption
<1>2. WatchEvent = [status: {"none"} \cup OpenStatus \cup ClosedStatus, claimed: BOOLEAN,
                    asked: Count, rival: BOOLEAN]
  BY DEF WatchEvent
<1>3. /\ NoEvent \in WatchEvent /\ Raised \in WatchEvent
      /\ [status: OpenStatus, claimed: {TRUE}, asked: Count, rival: {FALSE}] \subseteq WatchEvent
  <2> HIDE DEF Count
  <2>1. NoEvent \in WatchEvent
    BY <1>1, <1>2, Zenon DEF NoEvent
  <2>2. Raised \in WatchEvent
    BY <1>1, <1>2, Zenon DEF Raised, OpenStatus
  <2> QED
    BY <1>2, <2>1, <2>2
<1>4. \A m \in Message : NamedEvents(m) \subseteq WatchEvent
  BY <1>3 DEF NamedEvents
<1> HIDE DEF Count
<1> USE DEF OpenStatus, ClosedStatus
<1>5. \A m \in Message, delivered \in BOOLEAN : EventAfterAck(m, delivered) \in WatchEvent
  BY <1>2 DEF EventAfterAck
<1>6. ASSUME Restart
      PROVE  event' \in [Message -> WatchEvent]
  BY <1>1, <1>2, <1>6 DEF Restart
<1>7. ASSUME NEW m \in Message, EventMoves(m)
      PROVE  event' \in [Message -> WatchEvent]
  <2>1. CASE Show(m) \/ Dismiss(m) \/ RivalRaised(m) \/ RivalClosed(m)
    <3>1. CASE Show(m)
      BY <1>2, <3>1 DEF Show, Write
    <3>2. CASE Dismiss(m)
      BY <1>2, <3>2 DEF Dismiss, Write
    <3>3. CASE RivalRaised(m)
      BY <1>2, <3>3 DEF RivalRaised, Write
    <3>4. CASE RivalClosed(m)
      BY <1>2, <3>4 DEF RivalClosed, Write
    <3> QED
      BY <2>1, <3>1, <3>2, <3>3, <3>4
  <2>2. CASE Claim(m)
    BY <1>1, <1>2, <2>2 DEF Claim, Write
  <2>3. CASE AnswerEnds(m)
    <3>1. PICK s : /\ s \in {"resolved", "pending", event[m].status}
                   /\ event' = [event EXCEPT ![m] = [event[m] EXCEPT !.status = s, !.asked = @ - 1]]
      BY <2>3 DEF AnswerEnds, Write
    <3>2. event[m].asked - 1 \in Count
      BY <1>1, <1>2, <2>3 DEF AnswerEnds
    <3> QED
      BY <1>2, <3>1, <3>2
  <2> QED
    BY <1>7, <2>1, <2>2, <2>3 DEF EventMoves
<1> QED
  BY <1>4, <1>5, <1>6, <1>7

\* Type correctness.
THEOREM TypeCorrect == Spec => []TypeOK
<1>1. Init => TypeOK
  BY EnvelopeAssumption, CapAssumption DEF Init, TypeOK, Status, WatchEvent, NoEvent
<1>2. TypeOK /\ [Next]_vars => TypeOK'
  <2> SUFFICES ASSUME TypeOK, [Next]_vars
               PROVE  TypeOK'
    OBVIOUS
  <2> USE DEF TypeOK, Status
  <2>1. ASSUME NEW m \in Message, NEW delayed \in BOOLEAN, Create(m, delayed)
        PROVE  TypeOK'
    <3>1. event' \in [Message -> WatchEvent]
      BY <2>1, EventTyped DEF Create
    <3> QED
      BY <2>1, <3>1 DEF Create
  <2>2. ASSUME NEW m \in Message, NEW o \in Owner \cup {Nobody}, NEW delivered \in BOOLEAN,
               Ack(m, o, delivered)
        PROVE  TypeOK'
    <3>1. event' \in [Message -> WatchEvent]
      BY <2>2, EventTyped DEF Ack
    <3> QED
      BY <2>2, <3>1 DEF Ack, Settle, AckOutcome, Outcome
  <2>3. ASSUME NEW m \in Message, NEW o \in Owner \cup {Nobody},
               NEW retryable \in BOOLEAN, NEW dueNow \in BOOLEAN,
               Fail(m, o, retryable, dueNow)
        PROVE  TypeOK'
    BY <2>3 DEF Fail, Settle, FailOutcome, Outcome
  <2>4. ASSUME NEW m \in Message, Cancel(m)
        PROVE  TypeOK'
    BY <2>4 DEF Cancel, Settle
  <2>5. ASSUME NEW m \in Message, LeaseLapses(m) \/ BackoffEnds(m)
        PROVE  TypeOK'
    BY <2>5 DEF LeaseLapses, BackoffEnds
  <2>6. CASE Restart \/ \E m \in Message : EventMoves(m)
    BY <2>6, EventOnly, EventTyped
  <2>7. ASSUME NEW c \in Client, NEW o \in Owner, NEW n \in Limits, NEW w \in Workspace,
               NEW filter \in Filters, Lease(c, o, n, w, filter)
        PROVE  TypeOK'
    <3>1. PICK batch \in SUBSET Due(c, w, filter, Swept(c)) : LeaseBatch(c, o, batch)
      BY <2>7, LeaseStep
    <3>2. attempts' \in [Message -> 0..AttemptCap]
      BY <3>1, CapAssumption DEF LeaseBatch
    <3> QED
      BY <3>1, <3>2 DEF LeaseBatch, Swept
  <2>8. ASSUME NEW c \in Client, NEW w \in Workspace \cup {Nobody}, Heartbeat(c, w)
        PROVE  TypeOK'
    BY <2>8 DEF Heartbeat
  <2>9. CASE UNCHANGED vars
    BY <2>9 DEF vars
  <2> QED
    BY <2>1, <2>2, <2>3, <2>4, <2>5, <2>6, <2>7, <2>8, <2>9 DEF Next
<1> QED
  BY <1>1, <1>2, PTL DEF Spec

-----------------------------------------------------------------------------
\* A settled or waiting row carries no lease, whatever order leases lapse,
\* receipts arrive and operators cancel in.
THEOREM LeaseColumnsHold == Spec => []LeaseColumns
<1>1. Init => LeaseColumns
  BY DEF Init, LeaseColumns
<1>2. TypeOK /\ LeaseColumns /\ [Next]_vars => LeaseColumns'
  <2> SUFFICES ASSUME TypeOK, LeaseColumns, [Next]_vars
               PROVE  LeaseColumns'
    OBVIOUS
  <2> USE DEF TypeOK, LeaseColumns
  <2>1. ASSUME NEW m \in Message, NEW delayed \in BOOLEAN, Create(m, delayed)
        PROVE  LeaseColumns'
    BY <2>1 DEF Create
  <2>2. ASSUME NEW m \in Message, NEW o \in Owner \cup {Nobody}, NEW delivered \in BOOLEAN,
               Ack(m, o, delivered)
        PROVE  LeaseColumns'
    BY <2>2 DEF Ack, HoldsLease, Settle
  <2>3. ASSUME NEW m \in Message, NEW o \in Owner \cup {Nobody},
               NEW retryable \in BOOLEAN, NEW dueNow \in BOOLEAN,
               Fail(m, o, retryable, dueNow)
        PROVE  LeaseColumns'
    BY <2>3 DEF Fail, HoldsLease, Settle
  <2>4. ASSUME NEW m \in Message, Cancel(m)
        PROVE  LeaseColumns'
    BY <2>4 DEF Cancel, Settle
  <2>5. ASSUME NEW m \in Message, LeaseLapses(m) \/ BackoffEnds(m)
        PROVE  LeaseColumns'
    BY <2>5 DEF LeaseLapses, BackoffEnds
  <2>6. CASE Restart \/ \E m \in Message : EventMoves(m)
    BY <2>6, EventOnly
  <2>7. ASSUME NEW c \in Client, NEW o \in Owner, NEW n \in Limits, NEW w \in Workspace,
               NEW filter \in Filters, Lease(c, o, n, w, filter)
        PROVE  LeaseColumns'
    <3>1. PICK batch \in SUBSET Due(c, w, filter, Swept(c)) : LeaseBatch(c, o, batch)
      BY <2>7, LeaseStep
    <3>2. batch \subseteq Message
      BY DEF Due
    <3>3. \A m \in Message : owner'[m] # Nobody <=> status'[m] = "leased"
      BY <3>1, <3>2, OwnerAssumption DEF LeaseBatch, Swept
    <3>4. \A m \in Message : m \in lapsed' => status'[m] = "leased"
      BY <3>1, <3>2 DEF LeaseBatch, Swept
    <3>5. \A m \in Message :
            status'[m] \in {"leased", "completed", "failed_retryable", "dead_letter"}
            => attempts'[m] > 0
      BY <3>1, <3>2, CapAssumption, EnvelopeAssumption DEF LeaseBatch, Swept
    <3> QED
      BY <3>3, <3>4, <3>5
  <2>8. ASSUME NEW c \in Client, NEW w \in Workspace \cup {Nobody}, Heartbeat(c, w)
        PROVE  LeaseColumns'
    BY <2>8 DEF Heartbeat
  <2>9. CASE UNCHANGED vars
    BY <2>9 DEF vars
  <2> QED
    BY <2>1, <2>2, <2>3, <2>4, <2>5, <2>6, <2>7, <2>8, <2>9 DEF Next
<1> QED
  BY <1>1, <1>2, TypeCorrect, PTL DEF Spec

-----------------------------------------------------------------------------
\* One Worker session is handed to at most one message at a time.  Only a Lease
\* step adds leased rows, and LeaseStep says it adds none beside a serial peer;
\* with trimmed keys "serial peer" is a symmetric relation.
THEOREM SerialExclusionHolds ==
  ASSUME KeysTrimmed
  PROVE  Spec => []SerialExclusion
<1>1. Init => SerialExclusion
  BY DEF Init, SerialExclusion, Row
<1>2. TypeOK /\ SerialExclusion /\ [Next]_vars => SerialExclusion'
  <2> SUFFICES ASSUME TypeOK, SerialExclusion, [Next]_vars
               PROVE  SerialExclusion'
    OBVIOUS
  <2> USE DEF TypeOK, SerialExclusion, Row, SerialKey, ClientOf
  <2>1. ASSUME NEW m \in Message, NEW delayed \in BOOLEAN, Create(m, delayed)
        PROVE  SerialExclusion'
    BY <2>1 DEF Create
  <2>2. ASSUME NEW m \in Message, NEW o \in Owner \cup {Nobody}, NEW delivered \in BOOLEAN,
               Ack(m, o, delivered)
        PROVE  SerialExclusion'
    BY <2>2 DEF Ack, HoldsLease, Settle
  <2>3. ASSUME NEW m \in Message, NEW o \in Owner \cup {Nobody},
               NEW retryable \in BOOLEAN, NEW dueNow \in BOOLEAN,
               Fail(m, o, retryable, dueNow)
        PROVE  SerialExclusion'
    BY <2>3 DEF Fail, HoldsLease, Settle
  <2>4. ASSUME NEW m \in Message, Cancel(m)
        PROVE  SerialExclusion'
    BY <2>4 DEF Cancel, Settle
  <2>5. ASSUME NEW m \in Message, LeaseLapses(m) \/ BackoffEnds(m)
        PROVE  SerialExclusion'
    BY <2>5 DEF LeaseLapses, BackoffEnds
  <2>6. CASE Restart \/ \E m \in Message : EventMoves(m)
    BY <2>6, EventOnly
  <2>7. ASSUME NEW c \in Client, NEW o \in Owner, NEW n \in Limits, NEW w \in Workspace,
               NEW filter \in Filters, Lease(c, o, n, w, filter)
        PROVE  SerialExclusion'
    <3> DEFINE L == {p \in Message : Swept(c)[p] = "leased"}
    <3>1. PICK batch \in SUBSET Due(c, w, filter, Swept(c)) :
            /\ LeaseBatch(c, o, batch)
            /\ \A m \in batch : ~ HasLeasedSerialPeer(m, L)
            /\ \A a, b \in batch : a # b => ~ HasLeasedSerialPeer(a, {b}) \/ ~ HasLeasedSerialPeer(b, {a})
      BY <2>7, LeaseStep
    <3>2. \A m \in Message : status'[m] = "leased" <=> m \in batch \cup L
      BY <3>1 DEF LeaseBatch, Due
    <3>3. L \subseteq {m \in Message : status[m] = "leased"}
      BY DEF Swept
    <3>4. batch \subseteq Message /\ batch \cap L = {}
      BY DEF Due
    <3>5. ASSUME NEW a \in batch, NEW b \in batch \cup L, a # b,
                 ClientOf(a) = ClientOf(b), SerialKey(a) = SerialKey(b), SerialKey(a) # NoKey
          PROVE  FALSE
      <4>1. CASE b \in L
        BY <3>1, <3>4, <3>5, <4>1, KeysTrimmed DEF HasLeasedSerialPeer, KeysTrimmed
      <4>2. CASE b \in batch
        BY <3>1, <3>4, <3>5, <4>2, KeysTrimmed DEF HasLeasedSerialPeer, KeysTrimmed
      <4> QED
        BY <3>5, <4>1, <4>2
    <3>6. SUFFICES ASSUME NEW a \in batch \cup L, NEW b \in batch \cup L,
                          ClientOf(a) = ClientOf(b), SerialKey(a) = SerialKey(b), SerialKey(a) # NoKey
                   PROVE  a = b
      BY <3>2 DEF SerialExclusion
    <3>7. CASE a \in L /\ b \in L
      BY <3>3, <3>6, <3>7
    <3> QED
      BY <3>5, <3>6, <3>7
  <2>8. ASSUME NEW c \in Client, NEW w \in Workspace \cup {Nobody}, Heartbeat(c, w)
        PROVE  SerialExclusion'
    BY <2>8 DEF Heartbeat
  <2>9. CASE UNCHANGED vars
    BY <2>9 DEF vars
  <2> HIDE DEF TypeOK, SerialExclusion, Row, SerialKey, ClientOf
  <2> QED
    BY <2>1, <2>2, <2>3, <2>4, <2>5, <2>6, <2>7, <2>8, <2>9 DEF Next
<1> QED
  BY <1>1, <1>2, TypeCorrect, PTL DEF Spec

\* A row waits for a retry only while attempts are left: the count compared by
\* failEdgeMessage is the count of the lease being failed, and only a new lease
\* raises it.
THEOREM RetryBudgetHolds == Spec => []RetryBudget
<1>1. Init => RetryBudget
  BY DEF Init, RetryBudget
<1>2. TypeOK /\ RetryBudget /\ [Next]_vars => RetryBudget'
  <2> SUFFICES ASSUME TypeOK, RetryBudget, [Next]_vars
               PROVE  RetryBudget'
    OBVIOUS
  <2> USE DEF TypeOK, RetryBudget
  <2>1. ASSUME NEW m \in Message, NEW delayed \in BOOLEAN, Create(m, delayed)
        PROVE  RetryBudget'
    BY <2>1 DEF Create
  <2>2. ASSUME NEW m \in Message, NEW o \in Owner \cup {Nobody}, NEW delivered \in BOOLEAN,
               Ack(m, o, delivered)
        PROVE  RetryBudget'
    BY <2>2 DEF Ack, HoldsLease, Settle
  <2>3. ASSUME NEW m \in Message, NEW o \in Owner \cup {Nobody},
               NEW retryable \in BOOLEAN, NEW dueNow \in BOOLEAN,
               Fail(m, o, retryable, dueNow)
        PROVE  RetryBudget'
    BY <2>3 DEF Fail, HoldsLease, Settle, CanRetry
  <2>4. ASSUME NEW m \in Message, Cancel(m)
        PROVE  RetryBudget'
    BY <2>4 DEF Cancel, Settle
  <2>5. ASSUME NEW m \in Message, LeaseLapses(m) \/ BackoffEnds(m)
        PROVE  RetryBudget'
    BY <2>5 DEF LeaseLapses, BackoffEnds
  <2>6. CASE Restart \/ \E m \in Message : EventMoves(m)
    BY <2>6, EventOnly
  <2>7. ASSUME NEW c \in Client, NEW o \in Owner, NEW n \in Limits, NEW w \in Workspace,
               NEW filter \in Filters, Lease(c, o, n, w, filter)
        PROVE  RetryBudget'
    <3>1. PICK batch \in SUBSET Due(c, w, filter, Swept(c)) : LeaseBatch(c, o, batch)
      BY <2>7, LeaseStep
    <3> QED
      BY <3>1 DEF LeaseBatch, Swept, Due
  <2>8. ASSUME NEW c \in Client, NEW w \in Workspace \cup {Nobody}, Heartbeat(c, w)
        PROVE  RetryBudget'
    BY <2>8 DEF Heartbeat
  <2>9. CASE UNCHANGED vars
    BY <2>9 DEF vars
  <2> QED
    BY <2>1, <2>2, <2>3, <2>4, <2>5, <2>6, <2>7, <2>8, <2>9 DEF Next
<1> QED
  BY <1>1, <1>2, TypeCorrect, PTL DEF Spec

\* createEdgeMessage keeps one row per tenant, client and key: no other
\* function inserts a row or changes its key.
THEOREM OneRowPerKeyHolds == Spec => []OneRowPerKey
<1>1. Init => OneRowPerKey
  BY DEF Init, OneRowPerKey, Row
<1>2. TypeOK /\ OneRowPerKey /\ [Next]_vars => OneRowPerKey'
  <2> SUFFICES ASSUME TypeOK, OneRowPerKey, [Next]_vars
               PROVE  OneRowPerKey'
    OBVIOUS
  <2> USE DEF TypeOK, OneRowPerKey, Row, ClientOf, TenantOf
  <2>1. ASSUME NEW m \in Message, NEW delayed \in BOOLEAN, Create(m, delayed)
        PROVE  OneRowPerKey'
    BY <2>1 DEF Create, IsDuplicate, SameKey
  <2>2. ASSUME NEW m \in Message, NEW o \in Owner \cup {Nobody}, NEW delivered \in BOOLEAN,
               Ack(m, o, delivered)
        PROVE  OneRowPerKey'
    BY <2>2 DEF Ack, HoldsLease, Settle
  <2>3. ASSUME NEW m \in Message, NEW o \in Owner \cup {Nobody},
               NEW retryable \in BOOLEAN, NEW dueNow \in BOOLEAN,
               Fail(m, o, retryable, dueNow)
        PROVE  OneRowPerKey'
    BY <2>3 DEF Fail, HoldsLease, Settle
  <2>4. ASSUME NEW m \in Message, Cancel(m)
        PROVE  OneRowPerKey'
    BY <2>4 DEF Cancel, Settle
  <2>5. ASSUME NEW m \in Message, LeaseLapses(m) \/ BackoffEnds(m)
        PROVE  OneRowPerKey'
    BY <2>5 DEF LeaseLapses, BackoffEnds
  <2>6. CASE Restart \/ \E m \in Message : EventMoves(m)
    BY <2>6, EventOnly
  <2>7. ASSUME NEW c \in Client, NEW o \in Owner, NEW n \in Limits, NEW w \in Workspace,
               NEW filter \in Filters, Lease(c, o, n, w, filter)
        PROVE  OneRowPerKey'
    <3>1. PICK batch \in SUBSET Due(c, w, filter, Swept(c)) : LeaseBatch(c, o, batch)
      BY <2>7, LeaseStep
    <3> QED
      BY <3>1 DEF LeaseBatch, Swept, Due
  <2>8. ASSUME NEW c \in Client, NEW w \in Workspace \cup {Nobody}, Heartbeat(c, w)
        PROVE  OneRowPerKey'
    BY <2>8 DEF Heartbeat
  <2>9. CASE UNCHANGED vars
    BY <2>9 DEF vars
  <2> HIDE DEF TypeOK, OneRowPerKey, Row, ClientOf, TenantOf
  <2> QED
    BY <2>1, <2>2, <2>3, <2>4, <2>5, <2>6, <2>7, <2>8, <2>9 DEF Next
<1> QED
  BY <1>1, <1>2, TypeCorrect, PTL DEF Spec

-----------------------------------------------------------------------------
\* The audit never claims a delivery that did not happen and never loses the
\* outcome of a settled human-watch message.
THEOREM AuditTruthHolds == Spec => []AuditTruth
<1>1. Init => AuditTruth
  BY DEF Init, AuditTruth
<1>2. TypeOK /\ AuditTruth /\ [Next]_vars => AuditTruth'
  <2> SUFFICES ASSUME TypeOK, AuditTruth, [Next]_vars
               PROVE  AuditTruth'
    OBVIOUS
  <2> USE DEF TypeOK, AuditTruth
  <2>1. ASSUME NEW m \in Message, NEW delayed \in BOOLEAN, Create(m, delayed)
        PROVE  AuditTruth'
    BY <2>1 DEF Create
  <2>2. ASSUME NEW m \in Message, NEW o \in Owner \cup {Nobody}, NEW delivered \in BOOLEAN,
               Ack(m, o, delivered)
        PROVE  AuditTruth'
    BY <2>2 DEF Ack, HoldsLease, Settle, AckOutcome
  <2>3. ASSUME NEW m \in Message, NEW o \in Owner \cup {Nobody},
               NEW retryable \in BOOLEAN, NEW dueNow \in BOOLEAN,
               Fail(m, o, retryable, dueNow)
        PROVE  AuditTruth'
    BY <2>3 DEF Fail, HoldsLease, Settle, FailOutcome, CanRetry
  <2>4. ASSUME NEW m \in Message, Cancel(m)
        PROVE  AuditTruth'
    BY <2>4 DEF Cancel, Settle
  <2>5. ASSUME NEW m \in Message, LeaseLapses(m) \/ BackoffEnds(m)
        PROVE  AuditTruth'
    BY <2>5 DEF LeaseLapses, BackoffEnds
  <2>6. CASE Restart \/ \E m \in Message : EventMoves(m)
    BY <2>6, EventOnly
  <2>7. ASSUME NEW c \in Client, NEW o \in Owner, NEW n \in Limits, NEW w \in Workspace,
               NEW filter \in Filters, Lease(c, o, n, w, filter)
        PROVE  AuditTruth'
    <3>1. PICK batch \in SUBSET Due(c, w, filter, Swept(c)) : LeaseBatch(c, o, batch)
      BY <2>7, LeaseStep
    <3> QED
      BY <3>1 DEF LeaseBatch, Swept, Due
  <2>8. ASSUME NEW c \in Client, NEW w \in Workspace \cup {Nobody}, Heartbeat(c, w)
        PROVE  AuditTruth'
    BY <2>8 DEF Heartbeat
  <2>9. CASE UNCHANGED vars
    BY <2>9 DEF vars
  <2> HIDE DEF TypeOK, AuditTruth
  <2> QED
    BY <2>1, <2>2, <2>3, <2>4, <2>5, <2>6, <2>7, <2>8, <2>9 DEF Next
<1> QED
  BY <1>1, <1>2, TypeCorrect, PTL DEF Spec

\* A completed or cancelled message is out of reach of late receipts, of the
\* sweep and of later scans.
THEOREM FinalStaysHolds == Spec => FinalStays
<1> DEFINE Stays ==
      \A m \in Message :
        status[m] \in {"completed", "cancelled"}
        => status'[m] = status[m] /\ audit'[m] = audit[m] /\ owner'[m] = owner[m]
<1>1. TypeOK /\ LeaseColumns /\ [Next]_vars => [Stays]_vars
  <2> SUFFICES ASSUME TypeOK, LeaseColumns, [Next]_vars
               PROVE  Stays
    OBVIOUS
  <2> USE DEF TypeOK, LeaseColumns
  <2>1. ASSUME NEW m \in Message, NEW delayed \in BOOLEAN, Create(m, delayed)
        PROVE  Stays
    BY <2>1 DEF Create
  <2>2. ASSUME NEW m \in Message, NEW o \in Owner \cup {Nobody}, NEW delivered \in BOOLEAN,
               Ack(m, o, delivered)
        PROVE  Stays
    BY <2>2 DEF Ack, HoldsLease, Settle
  <2>3. ASSUME NEW m \in Message, NEW o \in Owner \cup {Nobody},
               NEW retryable \in BOOLEAN, NEW dueNow \in BOOLEAN,
               Fail(m, o, retryable, dueNow)
        PROVE  Stays
    BY <2>3 DEF Fail, HoldsLease, Settle
  <2>4. ASSUME NEW m \in Message, Cancel(m)
        PROVE  Stays
    BY <2>4 DEF Cancel, Settle
  <2>5. ASSUME NEW m \in Message, LeaseLapses(m) \/ BackoffEnds(m)
        PROVE  Stays
    BY <2>5 DEF LeaseLapses, BackoffEnds
  <2>6. CASE Restart \/ \E m \in Message : EventMoves(m)
    BY <2>6, EventOnly
  <2>7. ASSUME NEW c \in Client, NEW o \in Owner, NEW n \in Limits, NEW w \in Workspace,
               NEW filter \in Filters, Lease(c, o, n, w, filter)
        PROVE  Stays
    <3>1. PICK batch \in SUBSET Due(c, w, filter, Swept(c)) : LeaseBatch(c, o, batch)
      BY <2>7, LeaseStep
    <3> QED
      BY <3>1 DEF LeaseBatch, Swept, Due
  <2>8. ASSUME NEW c \in Client, NEW w \in Workspace \cup {Nobody}, Heartbeat(c, w)
        PROVE  Stays
    BY <2>8 DEF Heartbeat
  <2>9. CASE UNCHANGED vars
    BY <2>9 DEF vars
  <2> HIDE DEF TypeOK, LeaseColumns
  <2> QED
    BY <2>1, <2>2, <2>3, <2>4, <2>5, <2>6, <2>7, <2>8, <2>9 DEF Next
<1> QED
  BY <1>1, TypeCorrect, LeaseColumnsHold, PTL DEF Spec, FinalStays
-----------------------------------------------------------------------------
\* An acknowledged reply leaves its watch event waiting only if an operator had
\* taken the event up.  The branch of ackEdgeMessage for other kinds writes no
\* event; that this is enough rests on WatchedOnly: only a watched message names
\* an event.  What sets an event back to pending is a request of an operator,
\* and by TakenUp such a request has left its mark on the event.
WatchedOnly ==
  \A m \in Message :
    event[m].status # "none" \/ event[m].asked > 0 => Envelope[m].kind = "watched"
TakenUp == \A m \in Message : event[m].asked > 0 => event[m].claimed

THEOREM AckReleasesEventHolds == Spec => []AckReleasesEvent
<1> DEFINE Inv == WatchedOnly /\ TakenUp /\ AckReleasesEvent
<1>1. Init => Inv
  BY DEF Init, WatchedOnly, TakenUp, AckReleasesEvent, NoEvent
<1>2. TypeOK /\ Inv /\ [Next]_vars => Inv'
  <2> SUFFICES ASSUME TypeOK, Inv, [Next]_vars
               PROVE  Inv'
    OBVIOUS
  <2> USE DEF TypeOK, WatchedOnly, TakenUp, AckReleasesEvent
  <2>1. ASSUME NEW m \in Message, NEW delayed \in BOOLEAN, Create(m, delayed)
        PROVE  Inv'
    <3>1. PICK e \in NamedEvents(m) : event' = [event EXCEPT ![m] = e]
      BY <2>1 DEF Create
    <3>2. /\ e.status # "none" \/ e.asked > 0 => Envelope[m].kind = "watched"
          /\ e.asked > 0 => e.claimed
      <4>1. CASE e = NoEvent
        BY <4>1 DEF NoEvent
      <4>2. CASE Envelope[m].kind = "watched" /\ e = Raised
        BY <4>2 DEF Raised
      <4>3. CASE /\ Envelope[m].kind = "watched"
                 /\ e \in [status: OpenStatus, claimed: {TRUE}, asked: 0..Askers, rival: {FALSE}]
        BY <4>3
      <4> QED
        BY <4>1, <4>2, <4>3 DEF NamedEvents
    <3> QED
      BY <2>1, <3>1, <3>2 DEF Create
  <2>2. ASSUME NEW m \in Message, NEW o \in Owner \cup {Nobody}, NEW delivered \in BOOLEAN,
               Ack(m, o, delivered)
        PROVE  Inv'
    <3> DEFINE e == EventAfterAck(m, delivered)
    <3>1. /\ event' = [event EXCEPT ![m] = e]
          /\ status' = [status EXCEPT ![m] = "completed"]
      BY <2>2 DEF Ack, Settle
    <3>2. /\ e.status # "none" => Envelope[m].kind = "watched"
          /\ e.status # "pending"
          /\ e.asked = event[m].asked /\ e.claimed = event[m].claimed
      BY DEF EventAfterAck, WatchEvent
    <3> QED
      BY <3>1, <3>2
  <2>3. ASSUME NEW m \in Message, NEW o \in Owner \cup {Nobody},
               NEW retryable \in BOOLEAN, NEW dueNow \in BOOLEAN,
               Fail(m, o, retryable, dueNow)
        PROVE  Inv'
    BY <2>3 DEF Fail, Settle
  <2>4. ASSUME NEW m \in Message, Cancel(m)
        PROVE  Inv'
    BY <2>4 DEF Cancel, Settle
  <2>5. ASSUME NEW m \in Message, LeaseLapses(m) \/ BackoffEnds(m)
        PROVE  Inv'
    BY <2>5 DEF LeaseLapses, BackoffEnds
  <2>6. ASSUME NEW m \in Message, EventMoves(m)
        PROVE  Inv'
    <3>1. status' = status
      BY <2>6, EventOnly
    <3> DEFINE old == event[m]
               new == event'[m]
    <3>2. \A n \in Message \ {m} : event'[n] = event[n]
      BY <2>6 DEF EventMoves, Show, Claim, Dismiss, AnswerEnds, RivalRaised, RivalClosed, Write
    <3>3. /\ new.status # "none" \/ new.asked > 0 => old.status # "none" \/ old.asked > 0
          /\ new.asked > 0 => old.asked > 0 \/ new.claimed
          /\ new.status = "pending" => old.status = "pending" \/ old.asked > 0
          /\ old.claimed => new.claimed
      <4> USE DEF Write, OpenStatus, ClosedStatus
      <4>0. old \in WatchEvent /\ old.asked \in Nat
        BY DEF WatchEvent
      <4>1. CASE Show(m)
        BY <4>0, <4>1 DEF Show, WatchEvent
      <4>2. CASE Claim(m)
        BY <4>0, <4>2 DEF Claim, WatchEvent
      <4>3. CASE Dismiss(m)
        BY <4>0, <4>3 DEF Dismiss, WatchEvent
      <4>4. CASE AnswerEnds(m)
        BY <4>0, <4>4 DEF AnswerEnds, WatchEvent
      <4>5. CASE RivalRaised(m)
        BY <4>0, <4>5 DEF RivalRaised, WatchEvent
      <4>6. CASE RivalClosed(m)
        BY <4>0, <4>6 DEF RivalClosed, WatchEvent
      <4> QED
        BY <2>6, <4>1, <4>2, <4>3, <4>4, <4>5, <4>6 DEF EventMoves
    <3> QED
      BY <3>1, <3>2, <3>3
  <2>7. ASSUME NEW c \in Client, NEW o \in Owner, NEW n \in Limits, NEW w \in Workspace,
               NEW filter \in Filters, Lease(c, o, n, w, filter)
        PROVE  Inv'
    <3>1. PICK batch \in SUBSET Due(c, w, filter, Swept(c)) : LeaseBatch(c, o, batch)
      BY <2>7, LeaseStep
    <3> QED
      BY <3>1 DEF LeaseBatch, Swept
  <2>8. ASSUME NEW c \in Client, NEW w \in Workspace \cup {Nobody}, Heartbeat(c, w)
        PROVE  Inv'
    BY <2>8 DEF Heartbeat
  <2>9. CASE UNCHANGED vars
    BY <2>9 DEF vars
  <2>10. CASE Restart
    <3>1. \A m \in Message : /\ event'[m].status = event[m].status /\ event'[m].asked = 0
                             /\ event'[m].claimed = event[m].claimed
      BY <2>10 DEF Restart, WatchEvent
    <3> QED
      BY <2>10, <3>1 DEF Restart
  <2> HIDE DEF Inv
  <2> QED
    BY <2>1, <2>2, <2>3, <2>4, <2>5, <2>6, <2>7, <2>8, <2>9, <2>10 DEF Next
<1>3. Inv => AckReleasesEvent
  OBVIOUS
<1> QED
  BY <1>1, <1>2, <1>3, TypeCorrect, PTL DEF Spec
=============================================================================
