-------------------------- MODULE LocalMailboxProofs --------------------------
(***************************************************************************)
(* Proofs about LocalMailbox for every set of messages and drains, every   *)
(* page size and any number of restarts.                                   *)
(***************************************************************************)
EXTENDS LocalMailbox, SequenceTheorems, FiniteSetTheorems, TLAPS

\* The rows a drain holds are what its phase says: nothing between the loops,
\* positions of the outbox in a flush, messages of the inbox in a scan, and the
\* message of its handler while that runs.
RowsFit ==
  \A d \in Drain :
    LET rows == drain[d].rows
    IN  /\ drain[d].phase \in {"idle", "pull"} => rows = <<>>
        /\ drain[d].phase \in {"flush1", "flush2"} => rows \in Seq(1..Len(outbox)) /\ rows # <<>>
        /\ drain[d].phase \in {"scan", "handle", "wrote"} => rows \in Seq(Message)
        /\ drain[d].phase \in {"handle", "wrote"} => rows # <<>>

Typed == TypeOK /\ RowsFit

-----------------------------------------------------------------------------
\* A query returns rows of the table it asks.
LEMMA QueryRows ==
  ASSUME NEW S, IsFiniteSet(S), NEW at, NEW rows \in Query(S, at)
  PROVE  rows \in Seq(S)
<1>1. PICK q \in SetToSeqs(S) : rows = FirstRows(q)
  BY DEF Query
<1>2. Cardinality(S) \in Nat
  BY FS_CardinalityType
<1>3. q \in Seq(S)
  BY <1>1, <1>2, SeqDef DEF SetToSeqs
<1>4. Len(q) \in Nat /\ \A i \in 1..Len(q) : q[i] \in S
  BY <1>3, LenProperties, ElementOfSeq
<1> DEFINE n == IF Len(q) < QueryLimit THEN Len(q) ELSE QueryLimit
<1>5. n \in Int /\ \A i \in 1..n : q[i] \in S
  BY <1>4, BoundAssumption
<1> HIDE DEF n
<1>6. SubSeq(q, 1, n) \in Seq(S)
  BY <1>5, SubSeqProperties
<1> QED
  BY <1>1, <1>6 DEF FirstRows, n

LEMMA FlushRows ==
  ASSUME NEW box \in Seq(Receipt), NEW rows \in OutboxRows(box)
  PROVE  rows \in Seq(1..Len(box))
<1> DEFINE S == {i \in DOMAIN box : box[i].state = "pending" /\ box[i].due}
<1>1. DOMAIN box = 1..Len(box) /\ Len(box) \in Nat
  BY LenProperties
<1>2. IsFiniteSet(1..Len(box))
  BY <1>1, FS_Interval
<1>3. S \subseteq 1..Len(box) /\ IsFiniteSet(S)
  BY <1>1, <1>2, FS_Subset
<1>4. rows \in Seq(S)
  BY <1>3, QueryRows DEF OutboxRows
<1> QED
  BY <1>3, <1>4, SeqMonotonic

LEMMA ScanRows ==
  ASSUME NEW box, NEW at, NEW rows \in InboxRows(box, at)
  PROVE  /\ rows \in Seq(Message)
         /\ \A i \in 1..Len(rows) : box[rows[i]] \in {"pending", "processing"}
<1> DEFINE S == {m \in Message : box[m] \in {"pending", "processing"}}
<1>1. IsFiniteSet(S)
  BY MessageAssumption, FS_Subset
<1>2. rows \in Seq(S)
  BY <1>1, QueryRows DEF InboxRows
<1>3. rows \in Seq(Message)
  BY <1>2, SeqMonotonic
<1>4. \A i \in 1..Len(rows) : rows[i] \in S
  BY <1>2, ElementOfSeq
<1> QED
  BY <1>3, <1>4

\* What is left of a page after its first row.
LEMMA RestOfRows ==
  ASSUME NEW S, NEW rows \in Seq(S), rows # <<>>
  PROVE  Head(rows) \in S /\ Tail(rows) \in Seq(S)
BY HeadTailProperties

\* A receipt that is queued changes no earlier one, and positions stay good.
LEMMA Queued ==
  ASSUME NEW box \in Seq(Receipt), NEW r \in Receipt
  PROVE  /\ Append(box, r) \in Seq(Receipt)
         /\ DOMAIN box = 1..Len(box) /\ Len(box) \in Nat
         /\ DOMAIN Append(box, r) = 1..(Len(box) + 1)
         /\ Len(Append(box, r)) = Len(box) + 1
         /\ \A i \in DOMAIN box : Append(box, r)[i] = box[i]
         /\ Append(box, r)[Len(box) + 1] = r
         /\ \A rows \in Seq(1..Len(box)) : rows \in Seq(1..Len(Append(box, r)))
<1>1. /\ Append(box, r) \in Seq(Receipt)
      /\ Len(Append(box, r)) = Len(box) + 1
      /\ \A i \in 1..Len(box) : Append(box, r)[i] = box[i]
      /\ Append(box, r)[Len(box) + 1] = r
  BY AppendProperties
<1>2. DOMAIN box = 1..Len(box) /\ Len(box) \in Nat
  BY LenProperties
<1>3. DOMAIN Append(box, r) = 1..(Len(box) + 1)
  BY <1>1, LenProperties
<1>4. 1..Len(box) \subseteq 1..Len(Append(box, r))
  BY <1>1, <1>2
<1> QED
  BY <1>1, <1>2, <1>3, <1>4, SeqMonotonic

\* A receipt that is posted, refused or due again stays the receipt it was.
LEMMA Marked ==
  ASSUME NEW box \in Seq(Receipt), NEW i \in DOMAIN box, NEW r \in Receipt
  PROVE  /\ [box EXCEPT ![i] = r] \in Seq(Receipt)
         /\ DOMAIN [box EXCEPT ![i] = r] = DOMAIN box
         /\ Len([box EXCEPT ![i] = r]) = Len(box)
         /\ \A j \in DOMAIN box : [box EXCEPT ![i] = r][j] = IF j = i THEN r ELSE box[j]
BY LenProperties, ExceptSeq
-----------------------------------------------------------------------------
\* One drain goes to phase p with the given rows; the others stay as they are.
Drains == [Drain -> [phase: Phase, rows: Seq(Message) \cup Seq(Nat), claimed: SUBSET Keys]]

Moved(d, p, rows, c) ==
  /\ drain' \in Drains
  /\ drain'[d].phase = p /\ drain'[d].rows = rows /\ drain'[d].claimed = c
  /\ \A e \in Drain \ {d} : drain'[e] = drain[e]

LEMMA GotoMoves ==
  ASSUME Typed, NEW d \in Drain, NEW p \in Phase, NEW rows \in Seq(Message) \cup Seq(Nat),
         drain' = Goto(d, p, rows)
  PROVE  Moved(d, p, rows, drain[d].claimed)
BY DEF Typed, TypeOK, Goto, Moved, Drains

\* An effect is counted up to RunCap, of its own message only.
LEMMA Counted ==
  ASSUME Typed, NEW m \in Message
  PROVE  /\ OneMore(m) \in [Message -> 0..RunCap]
         /\ OneMore(m)[m] > 0
         /\ \A n \in Message : OneMore(m)[n] >= effects[n] /\ (n # m => OneMore(m)[n] = effects[n])
<1> DEFINE k == IF effects[m] < RunCap THEN effects[m] + 1 ELSE effects[m]
<1>1. effects \in [Message -> 0..RunCap]
  BY DEF Typed, TypeOK
<1>2. RunCap \in Nat /\ RunCap > 0
  BY BoundAssumption
<1>3. effects[m] \in 0..RunCap
  BY <1>1
<1>4. k \in 0..RunCap /\ k > 0 /\ k >= effects[m]
  BY <1>2, <1>3
<1>5. OneMore(m) = [effects EXCEPT ![m] = k]
  BY DEF OneMore
<1> HIDE DEF k
<1> QED
  BY <1>1, <1>2, <1>4, <1>5

LEMMA KeySetIn == \A m \in Message : KeySet(m) \in SUBSET Keys
BY DEF KeySet, Keys

\* A flush begins, or is over at once.
LEMMA FlushEntry ==
  ASSUME Typed, NEW d \in Drain, NEW p \in {"flush1", "flush2"}, NEW next \in {"pull", "idle"},
         drain' \in EnterFlush(d, outbox, p, next)
  PROVE  \E q \in {p, next}, rows \in Seq(1..Len(outbox)) :
            Moved(d, q, rows, drain[d].claimed) /\ (rows = <<>> <=> q = next)
<1>1. PICK rows \in OutboxRows(outbox) :
        drain' = Goto(d, IF rows = <<>> THEN next ELSE p, rows)
  BY DEF EnterFlush
<1>2. rows \in Seq(1..Len(outbox)) /\ Len(outbox) \in Nat
  BY FlushRows, LenProperties DEF Typed, TypeOK
<1>3. rows \in Seq(Nat)
  BY <1>2, SeqMonotonic, 1..Len(outbox) \subseteq Nat
<1> DEFINE q == IF rows = <<>> THEN next ELSE p
<1>4. q \in {p, next} /\ (rows = <<>> <=> q = next) /\ q \in Phase
  BY DEF Phase
<1>5. drain' = Goto(d, q, rows)
  BY <1>1
<1> HIDE DEF q
<1>6. Moved(d, q, rows, drain[d].claimed)
  BY <1>3, <1>4, <1>5, GotoMoves
<1> QED
  BY <1>2, <1>4, <1>6

\* The answer to a post: the drain goes to the next row, or on.
LEMMA PostMove ==
  ASSUME Typed, NEW d \in Drain, NEW ok \in BOOLEAN, PostDone(d, ok)
  PROVE  /\ drain[d].phase \in {"flush1", "flush2"}
         /\ Head(drain[d].rows) \in DOMAIN outbox
         /\ \E r \in Receipt :
              /\ outbox' = [outbox EXCEPT ![Head(drain[d].rows)] = r]
              /\ r.msg = outbox[Head(drain[d].rows)].msg
              /\ r.action = outbox[Head(drain[d].rows)].action
              /\ r.retryable = outbox[Head(drain[d].rows)].retryable
              /\ r.state = "sent" => ok \/ outbox[Head(drain[d].rows)].state = "sent"
         /\ \E q \in {"pull", "idle", drain[d].phase}, rows \in Seq(1..Len(outbox)) :
              /\ Moved(d, q, rows, drain[d].claimed)
              /\ rows = <<>> <=> q # drain[d].phase
         /\ UNCHANGED <<inbox, received, stamp, exec, active, effects, crashes>>
<1> DEFINE id == Head(drain[d].rows)
           rest == Tail(drain[d].rows)
           q == IF rest = <<>> THEN (IF drain[d].phase = "flush1" THEN "pull" ELSE "idle")
                ELSE drain[d].phase
<1>1. drain[d].phase \in {"flush1", "flush2"}
  BY DEF PostDone
<1>2. drain[d].rows \in Seq(1..Len(outbox)) /\ drain[d].rows # <<>>
  BY <1>1 DEF Typed, RowsFit
<1>3. id \in 1..Len(outbox) /\ rest \in Seq(1..Len(outbox))
  BY <1>2, RestOfRows
<1>4. DOMAIN outbox = 1..Len(outbox)
  BY LenProperties DEF Typed, TypeOK
<1>5. outbox[id] \in Receipt
  BY <1>3, ElementOfSeq DEF Typed, TypeOK
<1>6. drain' = Goto(d, q, rest)
  BY DEF PostDone
<1>7. Moved(d, q, rest, drain[d].claimed)
  <2>1. Len(outbox) \in Nat
    BY LenProperties DEF Typed, TypeOK
  <2>2. rest \in Seq(Nat)
    BY <1>3, <2>1, SeqMonotonic, 1..Len(outbox) \subseteq Nat
  <2>3. q \in Phase
    BY <1>1 DEF Phase
  <2> QED
    BY <1>6, <2>2, <2>3, GotoMoves
<1>8. q \in {"pull", "idle", drain[d].phase} /\ (rest = <<>> <=> q # drain[d].phase)
  BY <1>1
<1> DEFINE r == IF ok THEN [outbox[id] EXCEPT !.state = "sent"] ELSE [outbox[id] EXCEPT !.due = FALSE]
<1>9. outbox' = [outbox EXCEPT ![id] = r]
  BY DEF PostDone
<1>10. /\ r \in Receipt /\ r.msg = outbox[id].msg /\ r.action = outbox[id].action
       /\ r.retryable = outbox[id].retryable
       /\ r.state = "sent" => ok \/ outbox[id].state = "sent"
  BY <1>5 DEF Receipt
<1> HIDE DEF r, q, rest, id
<1>11. UNCHANGED <<inbox, received, stamp, exec, active, effects, crashes>>
  BY DEF PostDone
<1>12. \E r_1 \in Receipt :
              /\ outbox' = [outbox EXCEPT ![id] = r_1]
              /\ r_1.msg = outbox[id].msg
              /\ r_1.action = outbox[id].action
              /\ r_1.retryable = outbox[id].retryable
              /\ r_1.state = "sent" => ok \/ outbox[id].state = "sent"
  BY <1>9, <1>10
<1> QED
  BY <1>1, <1>3, <1>4, <1>7, <1>8, <1>11, <1>12 DEF id

\* The end of a row, in the terms the invariants need.
LEMMA FinishMove ==
  ASSUME Typed, NEW d \in Drain, drain[d].phase \in {"handle", "wrote"},
         NEW s \in {"completed", "failed"}, NEW r \in Receipt, Finish(d, s, r)
  PROVE  /\ Row(d) \in Message
         /\ inbox' = [inbox EXCEPT ![Row(d)] = s]
         /\ exec' = [exec EXCEPT ![IdemOf(Row(d))] = s]
         /\ outbox' = Append(outbox, r)
         /\ active' = active \ KeySet(Row(d))
         /\ \E rest \in Seq(Message) : Moved(d, "scan", rest, drain[d].claimed)
         /\ UNCHANGED <<received, stamp, effects, crashes>>
<1>1. drain[d].rows \in Seq(Message) /\ drain[d].rows # <<>>
  BY DEF Typed, RowsFit
<1>2. Row(d) \in Message /\ Tail(drain[d].rows) \in Seq(Message)
  BY <1>1, RestOfRows DEF Row
<1> QED
  BY <1>2, GotoMoves DEF Finish, Phase

\* A row of the scan that is passed over or taken up.
LEMMA ScannedRow ==
  ASSUME Typed, NEW d \in Drain, drain[d].phase \in {"scan", "handle", "wrote"}, drain[d].rows # <<>>
  PROVE  /\ Row(d) \in Message
         /\ Tail(drain[d].rows) \in Seq(Message)
         /\ drain[d].rows \in Seq(Message)
         /\ drain[d].claimed \in SUBSET Keys
         /\ drain[d].claimed \cup KeySet(Row(d)) \in SUBSET Keys
BY RestOfRows, KeySetIn DEF Typed, TypeOK, RowsFit, Row
LEMMA EndScanMove ==
  ASSUME Typed, NEW d \in Drain, EndScan(d)
  PROVE  /\ drain[d].phase = "scan"
         /\ \E q \in {"flush2", "idle"}, rows \in Seq(1..Len(outbox)) :
              Moved(d, q, rows, {}) /\ (rows = <<>> <=> q = "idle")
<1>1. PICK rows \in OutboxRows(outbox) :
        drain' = [Goto(d, IF rows = <<>> THEN "idle" ELSE "flush2", rows) EXCEPT ![d].claimed = {}]
  BY DEF EndScan, EnterFlush
<1>2. rows \in Seq(1..Len(outbox)) /\ Len(outbox) \in Nat
  BY FlushRows, LenProperties DEF Typed, TypeOK
<1>3. rows \in Seq(Nat)
  BY <1>2, SeqMonotonic, 1..Len(outbox) \subseteq Nat
<1> DEFINE q == IF rows = <<>> THEN "idle" ELSE "flush2"
<1>4. q \in {"flush2", "idle"} /\ (rows = <<>> <=> q = "idle") /\ q \in Phase
  BY DEF Phase
<1>5. drain' = [Goto(d, q, rows) EXCEPT ![d].claimed = {}]
  BY <1>1
<1> HIDE DEF q
<1>6. Moved(d, q, rows, {})
  BY <1>3, <1>4, <1>5 DEF Typed, TypeOK, Goto, Moved, Drains
<1> QED
  BY <1>2, <1>4, <1>6 DEF EndScan

LEMMA PullMove ==
  ASSUME Typed, NEW d \in Drain, NEW S \in SUBSET Message, PullDone(d, S)
  PROVE  /\ drain[d].phase = "pull"
         /\ \E rows \in Seq(Message) :
              /\ Moved(d, "scan", rows, {})
              /\ \A i \in 1..Len(rows) : inbox'[rows[i]] \in {"pending", "processing"}
<1>1. PICK rows \in InboxRows(inbox', received') :
        drain' = [drain EXCEPT ![d] = [phase |-> "scan", rows |-> rows, claimed |-> {}]]
  BY DEF PullDone
<1>2. rows \in Seq(Message) /\ \A i \in 1..Len(rows) : inbox'[rows[i]] \in {"pending", "processing"}
  BY ScanRows
<1>3. Moved(d, "scan", rows, {})
  BY <1>1, <1>2 DEF Typed, TypeOK, Moved, Drains, Phase
<1> QED
  BY <1>2, <1>3 DEF PullDone

\* The scan's own steps.
LEMMA ScanMove ==
  ASSUME Typed, NEW d \in Drain
  PROVE  /\ SkipRow(d) => Moved(d, "scan", Tail(drain[d].rows), drain[d].claimed)
         /\ AckDuplicate(d) => Moved(d, "scan", Tail(drain[d].rows), drain[d].claimed \cup KeySet(Row(d)))
         /\ BeginRow(d) => \E p \in {"handle", "wrote"} :
                             Moved(d, p, drain[d].rows, drain[d].claimed \cup KeySet(Row(d)))
         /\ HandlerWrites(d) => Moved(d, "wrote", drain[d].rows, drain[d].claimed)
<1> USE DEF Typed, TypeOK, Drains, Moved, Phase
<1>1. ASSUME SkipRow(d)
      PROVE  Moved(d, "scan", Tail(drain[d].rows), drain[d].claimed)
  <2>1. Tail(drain[d].rows) \in Seq(Message)
    BY <1>1, ScannedRow DEF SkipRow, Scanning
  <2> QED
    BY <1>1, <2>1, GotoMoves DEF SkipRow
<1>2. ASSUME AckDuplicate(d)
      PROVE  Moved(d, "scan", Tail(drain[d].rows), drain[d].claimed \cup KeySet(Row(d)))
  <2>1. /\ Tail(drain[d].rows) \in Seq(Message)
        /\ drain[d].claimed \cup KeySet(Row(d)) \in SUBSET Keys
        /\ drain[d].phase = "scan"
    BY <1>2, ScannedRow DEF AckDuplicate, Scanning
  <2> QED
    BY <1>2, <2>1 DEF AckDuplicate
<1>3. ASSUME BeginRow(d)
      PROVE  \E p \in {"handle", "wrote"} :
               Moved(d, p, drain[d].rows, drain[d].claimed \cup KeySet(Row(d)))
  <2>1. /\ drain[d].rows \in Seq(Message)
        /\ drain[d].claimed \cup KeySet(Row(d)) \in SUBSET Keys
    BY <1>3, ScannedRow DEF BeginRow, Scanning
  <2>2. PICK p \in {"handle", "wrote"} :
          drain' = [drain EXCEPT ![d].phase = p, ![d].claimed = @ \cup KeySet(Row(d))]
    BY <1>3 DEF BeginRow
  <2>3. Moved(d, p, drain[d].rows, drain[d].claimed \cup KeySet(Row(d)))
    BY <2>1, <2>2
  <2> QED
    BY <2>3
<1>4. ASSUME HandlerWrites(d)
      PROVE  Moved(d, "wrote", drain[d].rows, drain[d].claimed)
  BY <1>4 DEF HandlerWrites
<1> QED
  BY <1>1, <1>2, <1>3, <1>4

\* A drain whose new rows fit its new phase keeps RowsFit, if the outbox only
\* grew.
LEMMA FitMoved ==
  ASSUME Typed, NEW d \in Drain, NEW p \in Phase, NEW rows, NEW c, Moved(d, p, rows, c),
         Len(outbox) <= Len(outbox'), Len(outbox') \in Nat,
         p \in {"idle", "pull"} => rows = <<>>,
         p \in {"flush1", "flush2"} => rows \in Seq(1..Len(outbox')) /\ rows # <<>>,
         p \in {"scan", "handle", "wrote"} => rows \in Seq(Message),
         p \in {"handle", "wrote"} => rows # <<>>
  PROVE  RowsFit'
<1>1. Len(outbox) \in Nat
  BY LenProperties DEF Typed, TypeOK
<1>2. 1..Len(outbox) \subseteq 1..Len(outbox')
  BY <1>1
<1>3. \A q \in Seq(1..Len(outbox)) : q \in Seq(1..Len(outbox'))
  BY <1>2, SeqMonotonic
<1> SUFFICES ASSUME NEW e \in Drain
             PROVE  LET r == drain'[e].rows
                    IN  /\ drain'[e].phase \in {"idle", "pull"} => r = <<>>
                        /\ drain'[e].phase \in {"flush1", "flush2"}
                             => r \in Seq(1..Len(outbox')) /\ r # <<>>
                        /\ drain'[e].phase \in {"scan", "handle", "wrote"} => r \in Seq(Message)
                        /\ drain'[e].phase \in {"handle", "wrote"} => r # <<>>
  BY DEF RowsFit
<1>4. CASE e = d
  BY <1>4 DEF Moved
<1>5. CASE e # d
  BY <1>3, <1>5 DEF Moved, Typed, RowsFit
<1> QED
  BY <1>4, <1>5
\* The two ends of a row: an acknowledgement after the effect, or a failure.
LEMMA ReceiptOf ==
  ASSUME Typed, NEW d \in Drain
  PROVE  /\ Succeed(d) =>
              /\ drain[d].phase = "wrote"
              /\ \E r \in Receipt : /\ r.msg = Row(d) /\ r.action = "ack" /\ r.state = "pending"
                                    /\ Finish(d, "completed", r)
         /\ \A retryable \in BOOLEAN : FailRow(d, retryable) =>
              /\ drain[d].phase \in {"handle", "wrote"}
              /\ \E r \in Receipt : /\ r.msg = Row(d) /\ r.action = "fail" /\ r.state = "pending"
                                    /\ Finish(d, "failed", r)
<1>1. drain[d].phase \in {"handle", "wrote"} => Row(d) \in Message
  BY ScannedRow DEF Typed, RowsFit
<1>2. \A m \in Message, a \in {"ack", "fail"}, b \in BOOLEAN :
        /\ NewReceipt(m, a, b) \in Receipt
        /\ NewReceipt(m, a, b).msg = m
        /\ NewReceipt(m, a, b).action = a
        /\ NewReceipt(m, a, b).state = "pending"
  BY DEF NewReceipt, Receipt
<1>3. ASSUME Succeed(d)
      PROVE  /\ drain[d].phase = "wrote"
             /\ \E r \in Receipt : /\ r.msg = Row(d) /\ r.action = "ack" /\ r.state = "pending"
                                   /\ Finish(d, "completed", r)
  <2>1. drain[d].phase = "wrote" /\ Finish(d, "completed", NewReceipt(Row(d), "ack", FALSE))
    BY <1>3 DEF Succeed
  <2> DEFINE r == NewReceipt(Row(d), "ack", FALSE)
  <2>2. r \in Receipt /\ r.msg = Row(d) /\ r.action = "ack" /\ r.state = "pending"
    BY <1>1, <1>2, <2>1
  <2> HIDE DEF r
  <2> QED
    BY <2>1, <2>2 DEF r
<1>4. ASSUME NEW retryable \in BOOLEAN, FailRow(d, retryable)
      PROVE  /\ drain[d].phase \in {"handle", "wrote"}
             /\ \E r \in Receipt : /\ r.msg = Row(d) /\ r.action = "fail" /\ r.state = "pending"
                                   /\ Finish(d, "failed", r)
  <2>1. /\ drain[d].phase \in {"handle", "wrote"}
        /\ Finish(d, "failed", NewReceipt(Row(d), "fail", retryable))
    BY <1>4 DEF FailRow
  <2> DEFINE r == NewReceipt(Row(d), "fail", retryable)
  <2>2. r \in Receipt /\ r.msg = Row(d) /\ r.action = "fail" /\ r.state = "pending"
    BY <1>1, <1>2, <2>1
  <2> HIDE DEF r
  <2> QED
    BY <2>1, <2>2 DEF r
<1> QED
  BY <1>3, <1>4

-----------------------------------------------------------------------------
\* The inductive form of TypeOK.
LEMMA TypedHolds == Spec => []Typed
<1>1. Init => Typed
  <2> SUFFICES ASSUME Init PROVE Typed
    OBVIOUS
  <2>1. <<>> \in Seq(Receipt) /\ <<>> \in Seq(Message)
    BY EmptySeq
  <2> QED
    BY <2>1, BoundAssumption DEF Init, Typed, TypeOK, RowsFit, Idle, Phase
<1>2. Typed /\ [Next]_vars => Typed'
  <2> SUFFICES ASSUME Typed, [Next]_vars
               PROVE  Typed'
    OBVIOUS
  <2>0. Len(outbox) \in Nat /\ DOMAIN outbox = 1..Len(outbox) /\ outbox \in Seq(Receipt)
    BY LenProperties DEF Typed, TypeOK
  <2>1. ASSUME NEW d \in Drain, StartDrain(d)
        PROVE  Typed'
    <3>1. PICK q \in {"flush1", "pull"}, rows \in Seq(1..Len(outbox)) :
            Moved(d, q, rows, drain[d].claimed) /\ (rows = <<>> <=> q = "pull")
      BY <2>1, FlushEntry DEF StartDrain
    <3>2. UNCHANGED <<inbox, received, stamp, exec, outbox, active, effects, crashes>>
      BY <2>1 DEF StartDrain
    <3>3. RowsFit'
      BY <2>0, <3>1, <3>2, FitMoved DEF Phase
    <3> QED
      BY <3>1, <3>2, <3>3 DEF Typed, TypeOK, Moved, Drains
  <2>2. ASSUME NEW d \in Drain, NEW ok \in BOOLEAN, PostDone(d, ok)
        PROVE  Typed'
    <3>1. PICK r \in Receipt : outbox' = [outbox EXCEPT ![Head(drain[d].rows)] = r]
      BY <2>2, PostMove
    <3>2. outbox' \in Seq(Receipt) /\ Len(outbox') = Len(outbox)
      BY <2>0, <2>2, <3>1, PostMove, Marked
    <3>3. PICK q \in {"pull", "idle", drain[d].phase}, rows \in Seq(1..Len(outbox)) :
            Moved(d, q, rows, drain[d].claimed) /\ (rows = <<>> <=> q # drain[d].phase)
      BY <2>2, PostMove
    <3>4. drain[d].phase \in {"flush1", "flush2"}
      BY <2>2, PostMove
    <3>5. RowsFit'
      BY <2>0, <3>2, <3>3, <3>4, FitMoved DEF Phase
    <3>6. UNCHANGED <<inbox, received, stamp, exec, active, effects, crashes>>
      BY <2>2, PostMove
    <3> QED
      BY <3>2, <3>3, <3>5, <3>6 DEF Typed, TypeOK, Moved, Drains
  <2>3. ASSUME NEW id \in DOMAIN outbox, OutboxDue(id)
        PROVE  Typed'
    <3> DEFINE r == [outbox[id] EXCEPT !.due = TRUE]
    <3>0. outbox[id] \in Receipt
      BY <2>0, ElementOfSeq
    <3>1. r \in Receipt
      BY <3>0 DEF Receipt
    <3>2. outbox' = [outbox EXCEPT ![id] = r]
      BY <2>3 DEF OutboxDue
    <3>3. outbox' \in Seq(Receipt) /\ Len(outbox') = Len(outbox)
      BY <2>0, <3>1, <3>2, Marked
    <3>4. UNCHANGED <<inbox, received, stamp, exec, active, drain, effects, crashes>>
      BY <2>3 DEF OutboxDue
    <3> QED
      BY <3>3, <3>4 DEF Typed, TypeOK, RowsFit
  <2>4. ASSUME NEW d \in Drain, NEW S \in SUBSET Message, PullDone(d, S)
        PROVE  Typed'
    <3>1. PICK rows \in Seq(Message) : Moved(d, "scan", rows, {})
      BY <2>4, PullMove
    <3>2. UNCHANGED <<exec, outbox, active, effects, crashes>>
      BY <2>4 DEF PullDone
    <3>3. RowsFit'
      BY <2>0, <3>1, <3>2, FitMoved DEF Phase
    <3>4. /\ inbox' \in [Message -> {"absent", "pending", "processing", "completed", "failed"}]
          /\ stamp' \in Nat
          /\ received' \in [Message -> Nat]
      BY <2>4 DEF PullDone, Typed, TypeOK
    <3> QED
      BY <3>1, <3>2, <3>3, <3>4 DEF Typed, TypeOK, Moved, Drains
  <2>5. ASSUME NEW d \in Drain, SkipRow(d)
        PROVE  Typed'
    <3>1. PICK rest \in Seq(Message) : Moved(d, "scan", rest, drain[d].claimed)
      BY <2>5, ScanMove, ScannedRow DEF SkipRow, Scanning
    <3>3. UNCHANGED <<inbox, received, stamp, exec, outbox, active, effects, crashes>>
      BY <2>5 DEF SkipRow
    <3>4. RowsFit'
      BY <2>0, <3>1, <3>3, FitMoved DEF Phase
    <3> QED
      BY <3>1, <3>3, <3>4 DEF Typed, TypeOK, Moved, Drains
  <2>6. ASSUME NEW d \in Drain, AckDuplicate(d)
        PROVE  Typed'
    <3>1. PICK rest \in Seq(Message), c \in SUBSET Keys : Moved(d, "scan", rest, c)
      BY <2>6, ScanMove, ScannedRow DEF AckDuplicate, Scanning
    <3>2. Row(d) \in Message
      BY <2>6, ScannedRow DEF AckDuplicate, Scanning
    <3> DEFINE r == NewReceipt(Row(d), "ack", FALSE)
    <3>3. r \in Receipt
      BY <3>2 DEF NewReceipt, Receipt
    <3>4. outbox' \in Seq(Receipt) /\ Len(outbox') = Len(outbox) + 1
      BY <2>0, <2>6, <3>3, Queued DEF AckDuplicate
    <3>5. RowsFit'
      BY <2>0, <3>1, <3>4, FitMoved DEF Phase
    <3> QED
      BY <2>6, <3>1, <3>2, <3>4, <3>5 DEF AckDuplicate, Typed, TypeOK, Moved, Drains
  <2>7. ASSUME NEW d \in Drain, BeginRow(d)
        PROVE  Typed'
    <3>1. PICK p \in {"handle", "wrote"}, rows \in Seq(Message), c \in SUBSET Keys :
            Moved(d, p, rows, c) /\ rows # <<>>
      BY <2>7, ScanMove, ScannedRow DEF BeginRow, Scanning
    <3>2. Row(d) \in Message
      BY <2>7, ScannedRow DEF BeginRow, Scanning
    <3>3. KeySet(Row(d)) \in SUBSET Keys
      BY <3>2, KeySetIn
    <3>4. RowsFit'
      <4>1. outbox' = outbox
        BY <2>7 DEF BeginRow
      <4> QED
        BY <2>0, <3>1, <4>1, FitMoved DEF Phase
    <3>5. effects' \in [Message -> 0..RunCap]
      BY <2>7, <3>2, Counted DEF BeginRow, Typed, TypeOK
    <3>6. inbox' \in [Message -> {"absent", "pending", "processing", "completed", "failed"}]
          /\ active' \subseteq Keys
      BY <2>7, <3>3 DEF BeginRow, Typed, TypeOK
    <3> QED
      BY <2>7, <3>1, <3>4, <3>5, <3>6 DEF BeginRow, Typed, TypeOK, Moved, Drains
  <2>8. ASSUME NEW d \in Drain, HandlerWrites(d)
        PROVE  Typed'
    <3>1. PICK rows \in Seq(Message) : Moved(d, "wrote", rows, drain[d].claimed) /\ rows # <<>>
      BY <2>8, ScanMove DEF HandlerWrites, Typed, RowsFit
    <3>3. UNCHANGED <<inbox, received, stamp, exec, outbox, active, crashes>>
      BY <2>8 DEF HandlerWrites
    <3>4. RowsFit'
      BY <2>0, <3>1, <3>3, FitMoved DEF Phase
    <3>5. effects' \in [Message -> 0..RunCap]
      BY <2>8, Counted, ScannedRow DEF HandlerWrites, Typed, RowsFit
    <3> QED
      BY <3>1, <3>3, <3>4, <3>5 DEF Typed, TypeOK, Moved, Drains
  <2>9. ASSUME NEW d \in Drain, NEW s \in {"completed", "failed"}, NEW r \in Receipt,
               drain[d].phase \in {"handle", "wrote"}, Finish(d, s, r)
        PROVE  Typed'
    <3>1. PICK rest \in Seq(Message) : Moved(d, "scan", rest, drain[d].claimed)
      BY <2>9, FinishMove
    <3>0. outbox' = Append(outbox, r)
      BY <2>9, FinishMove
    <3>2. outbox' \in Seq(Receipt) /\ Len(outbox') = Len(outbox) + 1
      BY <2>0, <3>0, Queued
    <3>3. RowsFit'
      BY <2>0, <3>1, <3>2, FitMoved DEF Phase
    <3>4. /\ inbox' \in [Message -> {"absent", "pending", "processing", "completed", "failed"}]
          /\ exec' \in [Idem -> {"none", "completed", "failed"}]
          /\ active' \subseteq Keys
          /\ UNCHANGED <<received, stamp, effects, crashes>>
      BY <2>9, FinishMove DEF Typed, TypeOK
    <3> QED
      BY <3>1, <3>2, <3>3, <3>4 DEF Typed, TypeOK, Moved, Drains
  <2>10. ASSUME NEW d \in Drain, EndScan(d)
         PROVE  Typed'
    <3>1. PICK q \in {"flush2", "idle"}, rows \in Seq(1..Len(outbox)) :
            Moved(d, q, rows, {}) /\ (rows = <<>> <=> q = "idle")
      BY <2>10, EndScanMove
    <3>2. UNCHANGED <<inbox, received, stamp, exec, outbox, active, effects, crashes>>
      BY <2>10 DEF EndScan
    <3>3. RowsFit'
      BY <2>0, <3>1, <3>2, FitMoved DEF Phase
    <3> QED
      BY <3>1, <3>2, <3>3 DEF Typed, TypeOK, Moved, Drains
  <2>11. CASE Crash
    <3>1. <<>> \in Seq(Message)
      BY EmptySeq
    <3> QED
      BY <2>11, <3>1, BoundAssumption DEF Crash, Typed, TypeOK, RowsFit, Idle, Phase
  <2>12. CASE UNCHANGED vars
    BY <2>12 DEF vars, Typed, TypeOK, RowsFit
  <2>13. ASSUME NEW d \in Drain, Succeed(d) \/ \E retryable \in BOOLEAN : FailRow(d, retryable)
         PROVE  Typed'
    BY <2>9, <2>13, ReceiptOf
  <2> QED
    BY <2>1, <2>2, <2>3, <2>4, <2>5, <2>6, <2>7, <2>8, <2>10, <2>11, <2>12, <2>13
       DEF Next, LocalStep
<1> QED
  BY <1>1, <1>2, PTL DEF Spec
\* The tables and the drains stay well formed, whatever the center answers,
\* however drains overlap and whenever the process dies.
THEOREM TypeCorrect == Spec => []TypeOK
<1>1. Typed => TypeOK
  BY DEF Typed
<1> QED
  BY <1>1, TypedHolds, PTL

-----------------------------------------------------------------------------
\* A step in the terms of the safety properties: which rows run, what is on
\* record, what the center is told, and how often handlers had their effect.
Told == {<<outbox[i].msg, outbox[i].action>> : i \in DOMAIN outbox}

Same(e) ==
  /\ Running(e)' <=> Running(e)
  /\ Running(e) => drain'[e].rows = drain[e].rows /\ drain'[e].phase = drain[e].phase

OthersSame(d) == \A e \in Drain \ {d} : Same(e)

\* Nothing of it changes, but that new messages may come in.
Rests ==
  /\ \A e \in Drain : Same(e)
  /\ Told' = Told
  /\ \A m \in Message : inbox'[m] = inbox[m] \/ (inbox[m] = "absent" /\ inbox'[m] = "pending")
  /\ UNCHANGED <<exec, active, effects>>

\* A message whose key is on record is acknowledged again.
Repeats(m) ==
  /\ KeySet(m) \cap active = {}
  /\ exec[IdemOf(m)] = "completed"
  /\ \A e \in Drain : Same(e)
  /\ Told' = Told \cup {<<m, "ack">>}
  /\ inbox' = [inbox EXCEPT ![m] = "completed"]
  /\ UNCHANGED <<exec, active, effects>>

Begins(d, m) ==
  /\ ~ Running(d) /\ Running(d)' /\ Head(drain'[d].rows) = m
  /\ KeySet(m) \cap active = {}
  /\ exec[IdemOf(m)] # "completed"
  /\ OthersSame(d)
  /\ inbox' = [inbox EXCEPT ![m] = "processing"]
  /\ active' = active \cup KeySet(m)
  /\ \/ drain'[d].phase = "handle" /\ UNCHANGED effects
     \/ drain'[d].phase = "wrote" /\ effects' = OneMore(m)
  /\ Told' = Told
  /\ UNCHANGED exec

Writes(d, m) ==
  /\ drain[d].phase = "handle" /\ Row(d) = m
  /\ drain'[d].phase = "wrote" /\ drain'[d].rows = drain[d].rows
  /\ OthersSame(d)
  /\ effects' = OneMore(m)
  /\ Told' = Told
  /\ UNCHANGED <<inbox, exec, active>>

Ends(d, m, a) ==
  /\ Running(d) /\ Row(d) = m /\ ~ Running(d)'
  /\ a = "ack" => drain[d].phase = "wrote"
  /\ OthersSame(d)
  /\ LET s == IF a = "ack" THEN "completed" ELSE "failed"
     IN  inbox' = [inbox EXCEPT ![m] = s] /\ exec' = [exec EXCEPT ![IdemOf(m)] = s]
  /\ active' = active \ KeySet(m)
  /\ Told' = Told \cup {<<m, a>>}
  /\ UNCHANGED effects

Stops ==
  /\ \A e \in Drain : ~ Running(e)'
  /\ active' = {}
  /\ Told' = Told
  /\ UNCHANGED <<inbox, exec, effects>>

StepKind ==
  \/ Rests
  \/ \E d \in Drain, m \in Message : Repeats(m) \/ Begins(d, m) \/ Writes(d, m)
  \/ \E d \in Drain, m \in Message, a \in {"ack", "fail"} : Ends(d, m, a)
  \/ Stops

LEMMA ToldMore ==
  ASSUME outbox \in Seq(Receipt), NEW r \in Receipt, outbox' = Append(outbox, r)
  PROVE  Told' = Told \cup {<<r.msg, r.action>>}
<1>1. /\ DOMAIN outbox = 1..Len(outbox) /\ Len(outbox) \in Nat
      /\ DOMAIN outbox' = 1..(Len(outbox) + 1)
      /\ \A i \in DOMAIN outbox : outbox'[i] = outbox[i]
      /\ outbox'[Len(outbox) + 1] = r
  BY Queued
<1>2. DOMAIN outbox' = DOMAIN outbox \cup {Len(outbox) + 1}
  BY <1>1
<1> QED
  BY <1>1, <1>2 DEF Told

LEMMA ToldSame ==
  ASSUME outbox \in Seq(Receipt), NEW id \in DOMAIN outbox, NEW r \in Receipt,
         outbox' = [outbox EXCEPT ![id] = r],
         r.msg = outbox[id].msg, r.action = outbox[id].action
  PROVE  Told' = Told
<1>1. /\ DOMAIN outbox' = DOMAIN outbox
      /\ \A j \in DOMAIN outbox : outbox'[j] = IF j = id THEN r ELSE outbox[j]
  BY Marked
<1>2. \A j \in DOMAIN outbox : outbox'[j].msg = outbox[j].msg /\ outbox'[j].action = outbox[j].action
  BY <1>1
<1> QED
  BY <1>1, <1>2 DEF Told

\* A drain that moves without running a row before or after.
LEMMA MovesAside ==
  ASSUME NEW d \in Drain, NEW p, NEW rows, NEW c, Moved(d, p, rows, c),
         p \notin {"handle", "wrote"}
  PROVE  /\ ~ Running(d)'
         /\ OthersSame(d)
         /\ ~ Running(d) => \A e \in Drain : Same(e)
BY DEF Moved, OthersSame, Same, Running

LEMMA KeyFree ==
  ASSUME NEW d \in Drain, ~ KeyTaken(d)
  PROVE  KeySet(Row(d)) \cap active = {}
BY DEF KeyTaken, KeySet

LEMMA NextIs ==
  ASSUME Typed, [Next]_vars
  PROVE  StepKind
<1>0. outbox \in Seq(Receipt) /\ inbox \in [Message -> {"absent", "pending", "processing", "completed", "failed"}]
  BY DEF Typed, TypeOK
<1>1. ASSUME NEW d \in Drain, StartDrain(d)
      PROVE  Rests
  <2>1. PICK q, rows : q \in {"flush1", "pull"} /\ Moved(d, q, rows, drain[d].claimed)
    BY <1>1, FlushEntry DEF StartDrain
  <2>2. ~ Running(d) /\ UNCHANGED <<inbox, exec, outbox, active, effects>>
    BY <1>1 DEF StartDrain, Running
  <2> QED
    BY <1>0, <2>1, <2>2, MovesAside DEF Rests, Told
<1>2. ASSUME NEW d \in Drain, NEW ok \in BOOLEAN, PostDone(d, ok)
      PROVE  Rests
  <2>1. PICK r \in Receipt : /\ outbox' = [outbox EXCEPT ![Head(drain[d].rows)] = r]
                             /\ r.msg = outbox[Head(drain[d].rows)].msg
                             /\ r.action = outbox[Head(drain[d].rows)].action
    BY <1>2, PostMove
  <2>2. Told' = Told
    BY <1>0, <1>2, <2>1, PostMove, ToldSame
  <2>3. drain[d].phase \in {"flush1", "flush2"}
    BY <1>2, PostMove
  <2>4. PICK q, rows : q \in {"pull", "idle", drain[d].phase} /\ Moved(d, q, rows, drain[d].claimed)
    BY <1>2, PostMove
  <2>5. \A e \in Drain : Same(e)
    BY <2>3, <2>4, MovesAside DEF Running
  <2> QED
    BY <1>2, <2>2, <2>5, PostMove DEF Rests
<1>3. ASSUME NEW id \in DOMAIN outbox, OutboxDue(id)
      PROVE  Rests
  <2> DEFINE r == [outbox[id] EXCEPT !.due = TRUE]
  <2>1. outbox[id] \in Receipt
    BY <1>0, ElementOfSeq, LenProperties
  <2>2. r \in Receipt /\ r.msg = outbox[id].msg /\ r.action = outbox[id].action
    BY <2>1 DEF Receipt
  <2>3. outbox' = [outbox EXCEPT ![id] = r]
    BY <1>3 DEF OutboxDue
  <2> HIDE DEF r
  <2>4. Told' = Told
    BY <1>0, <2>2, <2>3, ToldSame
  <2> QED
    BY <1>3, <2>4 DEF OutboxDue, Rests, Same, Running
<1>4. ASSUME NEW d \in Drain, NEW S \in SUBSET Message, PullDone(d, S)
      PROVE  Rests
  <2>1. PICK rows : Moved(d, "scan", rows, {})
    BY <1>4, PullMove
  <2>2. ~ Running(d) /\ UNCHANGED <<exec, outbox, active, effects>>
    BY <1>4 DEF PullDone, Running
  <2>3. \A m \in Message : inbox'[m] = inbox[m] \/ (inbox[m] = "absent" /\ inbox'[m] = "pending")
    BY <1>0, <1>4 DEF PullDone
  <2> QED
    BY <2>1, <2>2, <2>3, MovesAside DEF Rests, Told
<1>5. ASSUME NEW d \in Drain, SkipRow(d)
      PROVE  Rests
  <2>1. Moved(d, "scan", Tail(drain[d].rows), drain[d].claimed)
    BY <1>5, ScanMove
  <2>2. ~ Running(d) /\ UNCHANGED <<inbox, exec, outbox, active, effects>>
    BY <1>5 DEF SkipRow, Scanning, Running
  <2> QED
    BY <2>1, <2>2, MovesAside DEF Rests, Told
<1>6. ASSUME NEW d \in Drain, AckDuplicate(d)
      PROVE  \E m \in Message : Repeats(m)
  <2>1. Row(d) \in Message
    BY <1>6, ScannedRow DEF AckDuplicate, Scanning
  <2>2. PICK rows, c : Moved(d, "scan", rows, c)
    BY <1>6, ScanMove
  <2>3. ~ Running(d)
    BY <1>6 DEF AckDuplicate, Scanning, Running
  <2>4. \A e \in Drain : Same(e)
    BY <2>2, <2>3, MovesAside
  <2> DEFINE r == NewReceipt(Row(d), "ack", FALSE)
  <2>5. r \in Receipt /\ r.msg = Row(d) /\ r.action = "ack"
    BY <2>1 DEF NewReceipt, Receipt
  <2>6. outbox' = Append(outbox, r)
    BY <1>6 DEF AckDuplicate
  <2> HIDE DEF r
  <2>7. Told' = Told \cup {<<Row(d), "ack">>}
    BY <1>0, <2>5, <2>6, ToldMore
  <2>8. Repeats(Row(d))
    BY <1>6, <2>4, <2>7, KeyFree DEF AckDuplicate, Repeats
  <2> QED
    BY <2>1, <2>8
<1>7. ASSUME NEW d \in Drain, BeginRow(d)
      PROVE  \E m \in Message : Begins(d, m)
  <2>1. Row(d) \in Message
    BY <1>7, ScannedRow DEF BeginRow, Scanning
  <2>2. drain'[d].rows = drain[d].rows /\ OthersSame(d) /\ Running(d)'
    BY <1>7, ScanMove DEF Moved, OthersSame, Same, Running
  <2>3. ~ Running(d)
    BY <1>7 DEF BeginRow, Scanning, Running
  <2>4. \/ drain'[d].phase = "handle" /\ UNCHANGED effects
        \/ drain'[d].phase = "wrote" /\ effects' = OneMore(Row(d))
    BY <1>7 DEF BeginRow, Typed, TypeOK
  <2>5. Head(drain'[d].rows) = Row(d) /\ Told' = Told
    BY <1>7, <2>2 DEF Row, Told, BeginRow
  <2>6. Begins(d, Row(d))
    BY <1>7, <2>2, <2>3, <2>4, <2>5, KeyFree DEF BeginRow, Begins
  <2> QED
    BY <2>1, <2>6
<1>8. ASSUME NEW d \in Drain, HandlerWrites(d)
      PROVE  \E m \in Message : Writes(d, m)
  <2>1. Row(d) \in Message
    BY <1>8, ScannedRow DEF HandlerWrites, Typed, RowsFit
  <2>2. drain'[d].phase = "wrote" /\ drain'[d].rows = drain[d].rows /\ OthersSame(d)
    BY <1>8, ScanMove DEF Moved, OthersSame, Same, Running
  <2>3. Writes(d, Row(d))
    BY <1>8, <2>2 DEF HandlerWrites, Writes, Told
  <2> QED
    BY <2>1, <2>3
<1>9. ASSUME NEW d \in Drain, NEW a \in {"ack", "fail"}, NEW r \in Receipt,
             drain[d].phase \in {"handle", "wrote"}, a = "ack" => drain[d].phase = "wrote",
             r.msg = Row(d), r.action = a,
             Finish(d, IF a = "ack" THEN "completed" ELSE "failed", r)
      PROVE  \E m \in Message : Ends(d, m, a)
  <2> DEFINE s == IF a = "ack" THEN "completed" ELSE "failed"
  <2>1. s \in {"completed", "failed"}
    OBVIOUS
  <2> HIDE DEF s
  <2>2. Finish(d, s, r)
    BY <1>9 DEF s
  <2>3. /\ Row(d) \in Message
        /\ inbox' = [inbox EXCEPT ![Row(d)] = s]
        /\ exec' = [exec EXCEPT ![IdemOf(Row(d))] = s]
        /\ outbox' = Append(outbox, r)
        /\ active' = active \ KeySet(Row(d))
        /\ UNCHANGED effects
    BY <1>9, <2>1, <2>2, FinishMove
  <2>4. PICK rest : Moved(d, "scan", rest, drain[d].claimed)
    BY <1>9, <2>1, <2>2, FinishMove
  <2>5. ~ Running(d)' /\ OthersSame(d)
    BY <2>4, MovesAside
  <2>6. Told' = Told \cup {<<Row(d), a>>}
    BY <1>0, <1>9, <2>3, ToldMore
  <2>7. Ends(d, Row(d), a)
    BY <1>9, <2>3, <2>5, <2>6 DEF Ends, Running, s
  <2> QED
    BY <2>3, <2>7
<1>10. ASSUME NEW d \in Drain, Succeed(d)
       PROVE  \E m \in Message : Ends(d, m, "ack")
  BY <1>9, <1>10, ReceiptOf
<1>11. ASSUME NEW d \in Drain, NEW retryable \in BOOLEAN, FailRow(d, retryable)
       PROVE  \E m \in Message : Ends(d, m, "fail")
  BY <1>9, <1>11, ReceiptOf
<1>12. ASSUME NEW d \in Drain, EndScan(d)
       PROVE  Rests
  <2>1. PICK q, rows : q \in {"flush2", "idle"} /\ Moved(d, q, rows, {})
    BY <1>12, EndScanMove
  <2>2. ~ Running(d) /\ UNCHANGED <<inbox, exec, outbox, active, effects>>
    BY <1>12 DEF EndScan, Running
  <2> QED
    BY <2>1, <2>2, MovesAside DEF Rests, Told
<1>13. CASE Crash
  BY <1>13 DEF Crash, StepKind, Stops, Running, Idle, Told
<1>14. CASE UNCHANGED vars
  BY <1>14 DEF vars, StepKind, Rests, Same, Running, Told
<1> QED
  BY <1>1, <1>2, <1>3, <1>4, <1>5, <1>6, <1>7, <1>8, <1>10, <1>11, <1>12, <1>13, <1>14
     DEF Next, LocalStep, StepKind
-----------------------------------------------------------------------------
\* The keys held are those of the running rows, and no two running rows share
\* one.  Neither is inductive alone: a row that ends must not release the key of
\* another one, and a row that begins is compared with the keys held.
HeldByRunning ==
  \A k : k \in active <=> \E e \in Drain : Running(e) /\ k \in KeySet(Row(e))
OneAtATime ==
  \A d, e \in Drain : d # e /\ Running(d) /\ Running(e) => KeySet(Row(d)) \cap KeySet(Row(e)) = {}
Exclusion == HeldByRunning /\ OneAtATime

LEMMA ExclusionStep ==
  ASSUME Typed, Exclusion, [Next]_vars
  PROVE  Exclusion'
<1> USE DEF Exclusion, HeldByRunning, OneAtATime, Row
<1>1. CASE Rests
  BY <1>1 DEF Rests, Same
<1>2. ASSUME NEW m \in Message, Repeats(m)
      PROVE  Exclusion'
  BY <1>2 DEF Repeats, Same
<1>3. ASSUME NEW d \in Drain, NEW m \in Message, Begins(d, m)
      PROVE  Exclusion'
  <2>1. /\ \A e \in Drain \ {d} : Running(e)' <=> Running(e)
        /\ \A e \in Drain \ {d} : Running(e) => Head(drain'[e].rows) = Head(drain[e].rows)
        /\ ~ Running(d) /\ Running(d)' /\ Head(drain'[d].rows) = m
        /\ KeySet(m) \cap active = {}
        /\ active' = active \cup KeySet(m)
    BY <1>3 DEF Begins, OthersSame, Same
  <2>2. HeldByRunning'
    BY <2>1
  <2>3. OneAtATime'
    BY <2>1
  <2> QED
    BY <2>2, <2>3
<1>4. ASSUME NEW d \in Drain, NEW m \in Message, Writes(d, m)
      PROVE  Exclusion'
  <2>1. /\ \A e \in Drain : Running(e)' <=> Running(e)
        /\ \A e \in Drain : Running(e) => Head(drain'[e].rows) = Head(drain[e].rows)
        /\ active' = active
    BY <1>4 DEF Writes, OthersSame, Same, Running
  <2> QED
    BY <2>1
<1>5. ASSUME NEW d \in Drain, NEW m \in Message, NEW a \in {"ack", "fail"}, Ends(d, m, a)
      PROVE  Exclusion'
  <2>1. /\ \A e \in Drain \ {d} : Running(e)' <=> Running(e)
        /\ \A e \in Drain \ {d} : Running(e) => Head(drain'[e].rows) = Head(drain[e].rows)
        /\ Running(d) /\ ~ Running(d)' /\ Head(drain[d].rows) = m
        /\ active' = active \ KeySet(m)
    BY <1>5 DEF Ends, OthersSame, Same
  <2>2. HeldByRunning'
    BY <2>1
  <2>3. OneAtATime'
    BY <2>1
  <2> QED
    BY <2>2, <2>3
<1>6. CASE Stops
  BY <1>6 DEF Stops
<1> HIDE DEF Exclusion
<1> QED
  BY <1>1, <1>2, <1>3, <1>4, <1>5, <1>6, NextIs DEF StepKind

LEMMA ExclusionHolds == Spec => []Exclusion
<1>1. Init => Exclusion
  BY DEF Init, Exclusion, HeldByRunning, OneAtATime, Running, Idle
<1> QED
  BY <1>1, ExclusionStep, TypedHolds, PTL DEF Spec

\* activeSerialKeys holds exactly the keys of the rows whose handlers run: the
\* finally clause leaks none and releases none that is in use.
THEOREM KeysHeldHolds == Spec => []KeysHeld
<1>1. Exclusion => KeysHeld
  BY DEF Exclusion, HeldByRunning, KeysHeld
<1> QED
  BY <1>1, ExclusionHolds, PTL

\* Two drains never write into one Worker session at the same time.
THEOREM SerialExecutionHolds == Spec => []SerialExecution
<1>1. Exclusion => SerialExecution
  BY DEF Exclusion, OneAtATime, SerialExecution, KeySet
<1> QED
  BY <1>1, ExclusionHolds, PTL

-----------------------------------------------------------------------------
\* What is on record, what the center is told and what a handler is about to
\* report has an effect behind it.
Ran(i) == \E m \in Message : IdemOf(m) = i /\ effects[m] > 0
Backed ==
  /\ \A m \in Message : exec[IdemOf(m)] = "completed" => Ran(IdemOf(m))
  /\ \A m \in Message : <<m, "ack">> \in Told => Ran(IdemOf(m))
  /\ \A d \in Drain : drain[d].phase = "wrote" => effects[Row(d)] > 0

LEMMA BackedStep ==
  ASSUME Typed, Backed, [Next]_vars
  PROVE  Backed'
<1>0. /\ effects \in [Message -> 0..RunCap] /\ exec \in [Idem -> {"none", "completed", "failed"}]
      /\ \A m \in Message : IdemOf(m) \in Idem
      /\ \A d \in Drain : Running(d) => Row(d) \in Message
  BY ScannedRow DEF Typed, TypeOK, RowsFit, Idem, Running
<1> USE DEF Backed, Row
<1>1. CASE Rests
  BY <1>1 DEF Rests, Same, Running, Ran
<1>2. ASSUME NEW m \in Message, Repeats(m)
      PROVE  Backed'
  BY <1>2 DEF Repeats, Same, Running, Ran
<1>3. ASSUME NEW d \in Drain, NEW m \in Message, Begins(d, m)
      PROVE  Backed'
  <2>1. \A n \in Message : effects'[n] >= effects[n]
    BY <1>0, <1>3, Counted DEF Begins
  <2>2. \A i : Ran(i) => Ran(i)'
    BY <1>0, <2>1, Counted, <1>3 DEF Ran, Begins
  <2>3. exec' = exec /\ Told' = Told
    BY <1>3 DEF Begins
  <2>4. \A e \in Drain : drain'[e].phase = "wrote" => effects'[Head(drain'[e].rows)] > 0
    <3> TAKE e \in Drain
    <3>1. CASE e = d
      BY <1>3, <3>1, Counted DEF Begins
    <3>2. CASE e # d
      BY <1>0, <1>3, <2>1, <3>2, Counted DEF Begins, OthersSame, Same, Running
    <3> QED
      BY <3>1, <3>2
  <2> QED
    BY <2>2, <2>3, <2>4
<1>4. ASSUME NEW d \in Drain, NEW m \in Message, Writes(d, m)
      PROVE  Backed'
  <2>1. effects' = OneMore(m)
    BY <1>4 DEF Writes
  <2>2. \A i : Ran(i) => Ran(i)'
    BY <1>0, <2>1, Counted DEF Ran
  <2>3. exec' = exec /\ Told' = Told
    BY <1>4 DEF Writes
  <2>4. \A e \in Drain : drain'[e].phase = "wrote" => effects'[Head(drain'[e].rows)] > 0
    <3> TAKE e \in Drain
    <3>1. CASE e = d
      BY <1>4, <2>1, <3>1, Counted DEF Writes
    <3>2. CASE e # d
      BY <1>0, <1>4, <2>1, <3>2, Counted DEF Writes, OthersSame, Same, Running
    <3> QED
      BY <3>1, <3>2
  <2> QED
    BY <2>2, <2>3, <2>4
<1>5. ASSUME NEW d \in Drain, NEW m \in Message, NEW a \in {"ack", "fail"}, Ends(d, m, a)
      PROVE  Backed'
  <2>1. a = "ack" => Ran(IdemOf(m))
    BY <1>5 DEF Ends, Ran
  <2>2. \A i : Ran(i)' <=> Ran(i)
    BY <1>5 DEF Ends, Ran
  <2>3. \A n \in Message : exec'[IdemOf(n)] = "completed" => Ran(IdemOf(n))
    BY <1>0, <1>5, <2>1 DEF Ends
  <2>4. \A n \in Message : <<n, "ack">> \in Told' => Ran(IdemOf(n))
    BY <1>5, <2>1 DEF Ends
  <2>5. \A e \in Drain : drain'[e].phase = "wrote" => effects'[Head(drain'[e].rows)] > 0
    BY <1>5 DEF Ends, OthersSame, Same, Running
  <2> QED
    BY <2>2, <2>3, <2>4, <2>5
<1>6. CASE Stops
  BY <1>6 DEF Stops, Running, Ran
<1> QED
  BY <1>1, <1>2, <1>3, <1>4, <1>5, <1>6, NextIs DEF StepKind

LEMMA BackedHolds == Spec => []Backed
<1>1. Init => Backed
  BY DEF Init, Backed, Told, Idle, Idem, Running
<1> QED
  BY <1>1, BackedStep, TypedHolds, PTL DEF Spec

\* Nothing is acknowledged that had no effect.
THEOREM AckBackedHolds == Spec => []AckBacked
<1>1. Typed /\ Backed => AckBacked
  <2> SUFFICES ASSUME Typed, Backed, NEW i \in DOMAIN outbox, outbox[i].action = "ack"
               PROVE  \E m \in Message : IdemOf(m) = IdemOf(outbox[i].msg) /\ effects[m] > 0
    BY DEF AckBacked
  <2>1. outbox[i] \in Receipt
    BY ElementOfSeq, LenProperties DEF Typed, TypeOK
  <2>2. outbox[i].msg \in Message /\ <<outbox[i].msg, "ack">> \in Told
    BY <2>1 DEF Receipt, Told
  <2> QED
    BY <2>2 DEF Backed, Ran
<1> QED
  BY <1>1, BackedHolds, TypedHolds, PTL

-----------------------------------------------------------------------------
\* A finished row always left its receipt: one transaction writes both, and no
\* step takes a receipt back.
Answered ==
  \A m \in Message :
    /\ inbox[m] = "completed" => <<m, "ack">> \in Told
    /\ inbox[m] = "failed" => <<m, "fail">> \in Told

THEOREM ReceiptForOutcomeHolds == Spec => []ReceiptForOutcome
<1>1. Init => Answered
  BY DEF Init, Answered
<1>2. Typed /\ Answered /\ [Next]_vars => Answered'
  <2> SUFFICES ASSUME Typed, Answered, [Next]_vars
               PROVE  Answered'
    OBVIOUS
  <2>0. inbox \in [Message -> {"absent", "pending", "processing", "completed", "failed"}]
    BY DEF Typed, TypeOK
  <2> QED
    BY <2>0, NextIs DEF StepKind, Answered, Rests, Repeats, Begins, Writes, Ends, Stops
<1>3. Answered => ReceiptForOutcome
  BY DEF Answered, ReceiptForOutcome, Told
<1> QED
  BY <1>1, <1>2, <1>3, TypedHolds, PTL DEF Spec

-----------------------------------------------------------------------------
\* The messages of one idempotency key belong to one session.  The relay keeps
\* one row per client and key (EdgeRelay, OneRowPerKey).
IdemNamesSession == \A m, n \in Message : IdemOf(m) = IdemOf(n) => KeyOf(m) = KeyOf(n)

\* A handler of a session message that has not had its effect yet is not one
\* whose execution is on record: a record of its key would be of the same
\* session, and that is held.
NotOnRecord ==
  \A d \in Drain :
    drain[d].phase = "handle" /\ KeyOf(Row(d)) # NoKey => exec[IdemOf(Row(d))] # "completed"

\* A message of a session never runs again once its execution is on record.
THEOREM NoRunAfterRecordHolds ==
  ASSUME IdemNamesSession
  PROVE  Spec => NoRunAfterRecord
<1> DEFINE Keeps == \A m \in Message :
             KeyOf(m) # NoKey /\ effects'[m] # effects[m] => exec[IdemOf(m)] # "completed"
<1>1. Init => NotOnRecord
  BY DEF Init, NotOnRecord, Idle
<1>2. Typed /\ Exclusion /\ NotOnRecord /\ [Next]_vars => NotOnRecord'
  <2> SUFFICES ASSUME Typed, Exclusion, NotOnRecord, [Next]_vars
               PROVE  NotOnRecord'
    OBVIOUS
  <2>0. /\ exec \in [Idem -> {"none", "completed", "failed"}]
        /\ \A m \in Message : IdemOf(m) \in Idem
        /\ \A d \in Drain : Running(d) => Row(d) \in Message
    BY ScannedRow DEF Typed, TypeOK, RowsFit, Idem, Running
  <2> USE DEF NotOnRecord, Row
  <2>1. CASE Rests
    BY <2>1 DEF Rests, Same, Running
  <2>2. ASSUME NEW m \in Message, Repeats(m)
        PROVE  NotOnRecord'
    BY <2>2 DEF Repeats, Same, Running
  <2>3. ASSUME NEW d \in Drain, NEW m \in Message, Begins(d, m)
        PROVE  NotOnRecord'
    BY <2>3 DEF Begins, OthersSame, Same, Running
  <2>4. ASSUME NEW d \in Drain, NEW m \in Message, Writes(d, m)
        PROVE  NotOnRecord'
    BY <2>4 DEF Writes, OthersSame, Same, Running
  <2>5. ASSUME NEW d \in Drain, NEW m \in Message, NEW a \in {"ack", "fail"}, Ends(d, m, a)
        PROVE  NotOnRecord'
    <3> SUFFICES ASSUME NEW e \in Drain, drain'[e].phase = "handle",
                        KeyOf(Head(drain'[e].rows)) # NoKey
                 PROVE  exec'[IdemOf(Head(drain'[e].rows))] # "completed"
      OBVIOUS
    <3>1. e # d /\ Running(e) /\ drain[e].phase = "handle" /\ Head(drain'[e].rows) = Head(drain[e].rows)
      BY <2>5 DEF Ends, OthersSame, Same, Running
    <3>2. KeySet(Row(e)) \cap KeySet(Row(d)) = {}
      BY <2>5, <3>1 DEF Ends, Exclusion, OneAtATime
    <3>3. KeyOf(Row(e)) # KeyOf(m)
      BY <2>5, <3>1, <3>2 DEF KeySet, Ends
    <3>4. IdemOf(Row(e)) # IdemOf(m)
      BY <2>0, <3>1, <3>3 DEF IdemNamesSession
    <3> QED
      BY <2>0, <2>5, <3>1, <3>4 DEF Ends
  <2>6. CASE Stops
    BY <2>6 DEF Stops, Running
  <2> QED
    BY <2>1, <2>2, <2>3, <2>4, <2>5, <2>6, NextIs DEF StepKind
<1>3. Typed /\ NotOnRecord /\ [Next]_vars => [Keeps]_vars
  <2> SUFFICES ASSUME Typed, NotOnRecord, [Next]_vars, NEW m \in Message,
                      KeyOf(m) # NoKey, effects'[m] # effects[m]
               PROVE  exec[IdemOf(m)] # "completed"
    OBVIOUS
  <2>1. ASSUME NEW d \in Drain, NEW n \in Message, Begins(d, n)
        PROVE  exec[IdemOf(m)] # "completed"
    BY <2>1, Counted DEF Begins
  <2>2. ASSUME NEW d \in Drain, NEW n \in Message, Writes(d, n)
        PROVE  exec[IdemOf(m)] # "completed"
    BY <2>2, Counted DEF Writes, NotOnRecord
  <2> QED
    BY <2>1, <2>2, NextIs DEF StepKind, Rests, Repeats, Ends, Stops
<1> QED
  BY <1>1, <1>2, <1>3, TypedHolds, ExclusionHolds, PTL DEF Spec, NoRunAfterRecord
=============================================================================
