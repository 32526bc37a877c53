-------------------------- MODULE HumanWatchProofs --------------------------
(***************************************************************************)
(* Proofs about HumanWatch for any fingerprints, operators and limits:     *)
(* what evaluations, operators and receipts do to the events of a session. *)
(***************************************************************************)
EXTENDS HumanWatch, SequenceTheorems, FiniteSetTheorems, WellFoundedInduction, TLAPS

EventRow == [of : Fingerprint \union {None}, status : OpenStatus \union ClosedStatus,
             handed : BOOLEAN, by : {"nobody", "steward", "human"}]
ReplyRow == [state : {"none", "queued", "delivered", "refused", "dead"}, event : Nat]

Typed ==
  /\ TypeOK
  /\ events \in Seq(EventRow)
  /\ reply \in [Fingerprint -> ReplyRow]

-----------------------------------------------------------------------------
\* A finite set of numbers that is not empty has a largest one.
LEMMA Largest ==
  ASSUME NEW S, S \subseteq Nat, IsFiniteSet(S), S # {}
  PROVE  \E m \in S : \A n \in S : n <= m
<1> DEFINE Up(m) == {n \in S : m <= n}
           F == {Up(m) : m \in S}
<1>0. \A m \in S : Up(m) \in SUBSET S /\ IsFiniteSet(Up(m))
  <2> SUFFICES ASSUME NEW m \in S PROVE Up(m) \in SUBSET S /\ IsFiniteSet(Up(m))
    OBVIOUS
  <2>1. Up(m) \in SUBSET S
    OBVIOUS
  <2> QED
    BY <2>1, FS_Subset
<1>1. F \subseteq FiniteSubsetsOf(S) /\ F # {}
  <2> HIDE DEF Up
  <2>1. F # {}
    OBVIOUS
  <2>2. \A X \in F : X \in FiniteSubsetsOf(S)
    BY <1>0 DEF FiniteSubsetsOf
  <2> QED
    BY <2>1, <2>2
<1>2. IsWellFoundedOn(StrictSubsetOrdering(S), FiniteSubsetsOf(S))
  BY FS_StrictSubsetOrderingWellFounded
<1>3. \E X \in F : \A Y \in F : ~ (<<Y, X>> \in StrictSubsetOrdering(S))
  <2> HIDE DEF F
  <2> QED
    BY <1>1, <1>2, WFMin
<1>4. PICK m \in S : \A n \in S : ~ (<<Up(n), Up(m)>> \in StrictSubsetOrdering(S))
  BY <1>3
<1>5. ASSUME NEW n \in S, ~ (n <= m)
      PROVE  FALSE
  <2>0. m \in Nat /\ n \in Nat /\ m < n
    BY <1>5
  <2>1. Up(n) \subseteq Up(m) /\ m \in Up(m) /\ m \notin Up(n)
    <3>1. \A k \in S : n <= k => m <= k
      BY <2>0
    <3>2. m \in Up(m) /\ m \notin Up(n)
      BY <2>0
    <3>3. Up(n) \subseteq Up(m)
      BY <3>1
    <3> QED
      BY <3>2, <3>3
  <2>2. <<Up(n), Up(m)>> \in StrictSubsetOrdering(S)
    <3> HIDE DEF Up
    <3>1. Up(n) \in SUBSET S /\ Up(m) \in SUBSET S /\ Up(n) # Up(m)
      BY <1>0, <2>1
    <3> DEFINE ss == <<Up(n), Up(m)>>
    <3>2. ss \in (SUBSET S) \X (SUBSET S) /\ ss[1] = Up(n) /\ ss[2] = Up(m)
      BY <3>1
    <3> HIDE DEF ss
    <3>3. ss \in StrictSubsetOrdering(S)
      BY <2>1, <3>1, <3>2 DEF StrictSubsetOrdering
    <3> QED
      BY <3>3 DEF ss
  <2> QED
    BY <1>4, <2>2
<1> QED
  BY <1>5

LEMMA Rows ==
  ASSUME Typed
  PROVE  /\ DOMAIN events = 1..Len(events) /\ Len(events) \in Nat
         /\ \A e \in DOMAIN events : events[e] \in EventRow
BY LenProperties, ElementOfSeq DEF Typed

LEMMA EventForOpen ==
  ASSUME Typed, NEW f, OpenOf(f) # {}
  PROVE  EventFor(f) \in OpenOf(f)
<1>1. OpenOf(f) \subseteq 1..Len(events) /\ Len(events) \in Nat
  BY Rows DEF OpenOf
<1>2. IsFiniteSet(OpenOf(f)) /\ OpenOf(f) \subseteq Nat
  <2> DEFINE All == 1..Len(events)
  <2>1. IsFiniteSet(All) /\ All \subseteq Nat
    BY <1>1, FS_Interval
  <2>2. OpenOf(f) \in SUBSET All
    BY <1>1
  <2> HIDE DEF All
  <2> QED
    BY <2>1, <2>2, FS_Subset
<1>3. PICK e \in OpenOf(f) : \A d \in OpenOf(f) : d <= e
  BY <1>2, Largest
<1> DEFINE P(x) == \A d \in OpenOf(f) : d <= x
<1>4. EventFor(f) = CHOOSE x \in OpenOf(f) : P(x)
  BY DEF EventFor
<1>5. e \in OpenOf(f) /\ P(e)
  BY <1>3
<1> HIDE DEF P
<1> QED
  <2> DEFINE O == OpenOf(f)
  <2>1. e \in O /\ P(e) /\ EventFor(f) = CHOOSE x \in O : P(x)
    BY <1>4, <1>5
  <2> HIDE DEF O
  <2>2. EventFor(f) \in O
    BY <2>1
  <2> QED
    BY <2>2 DEF O

-----------------------------------------------------------------------------
\* What a step does to the events: none is lost or renamed, one that is open
\* was open or is known as reopened, and a new one is open and of something
\* that had no open event, or a request for help.
EventsMove ==
  /\ events' \in Seq(EventRow)
  /\ reopened \subseteq reopened'
  /\ reopened' \subseteq reopened \union Fingerprint \union {None}
  /\ \A e \in DOMAIN events :
       /\ e \in DOMAIN events'
       /\ events'[e].of = events[e].of
       /\ events'[e].status \in OpenStatus => Open(e) \/ events[e].of \in reopened'
  /\ \A e \in DOMAIN events' : e \notin DOMAIN events =>
       /\ e = Len(events) + 1 /\ events'[e].status \in OpenStatus
       /\ events'[e].of = None \/ OpenOf(events'[e].of) = {}

LEMMA Appended ==
  ASSUME Typed, NEW row \in EventRow, events' = Append(events, row), UNCHANGED reopened,
         row.of = None \/ OpenOf(row.of) = {}, row.status \in OpenStatus
  PROVE  /\ EventsMove
         /\ Len(events') = Len(events) + 1
         /\ Len(events) + 1 \in DOMAIN events' /\ events'[Len(events) + 1] = row
         /\ \A e \in DOMAIN events : events'[e] = events[e]
<1>1. DOMAIN events = 1..Len(events) /\ Len(events) \in Nat
  BY Rows
<1>2. /\ events' \in Seq(EventRow) /\ Len(events') = Len(events) + 1
      /\ events'[Len(events) + 1] = row
      /\ \A e \in 1..Len(events) : events'[e] = events[e]
  BY AppendProperties DEF Typed
<1>3. DOMAIN events' = 1..(Len(events) + 1)
  BY <1>2, LenProperties
<1> QED
  BY <1>1, <1>2, <1>3 DEF EventsMove, Open

\* Rows that are changed one by one.
LEMMA Touched ==
  ASSUME Typed, events' \in Seq(EventRow), Len(events') = Len(events), UNCHANGED reopened,
         \A e \in DOMAIN events : /\ events'[e].of = events[e].of
                                  /\ events'[e].status \in OpenStatus => Open(e)
  PROVE  EventsMove
<1>1. DOMAIN events = 1..Len(events) /\ DOMAIN events' = 1..Len(events')
  BY Rows, LenProperties
<1> QED
  BY <1>1 DEF EventsMove

LEMMA Written ==
  ASSUME Typed, NEW e \in DOMAIN events, NEW s \in OpenStatus \union ClosedStatus,
         NEW who \in {"nobody", "steward", "human"}, WriteEvent(e, s, who)
  PROVE  /\ EventsMove
         /\ DOMAIN events' = DOMAIN events
         /\ events'[e].status = s /\ events'[e].by = who
         /\ \A d \in DOMAIN events : /\ events'[d].handed = events[d].handed
                                     /\ d # e => events'[d] = events[d]
<1> DEFINE r == [[events[e] EXCEPT !.status = s] EXCEPT !.by = who]
<1>0. events[e] \in EventRow /\ events \in Seq(EventRow)
  BY Rows DEF Typed
<1>1. /\ r \in EventRow /\ r.of = events[e].of /\ r.handed = events[e].handed
      /\ r.status = s /\ r.by = who
  BY <1>0 DEF EventRow
<1>2. events' = [events EXCEPT ![e] = r]
  BY <1>0 DEF WriteEvent
<1> HIDE DEF r
<1>3. /\ events' \in Seq(EventRow) /\ DOMAIN events' = DOMAIN events
      /\ \A d \in DOMAIN events : events'[d] = IF d = e THEN r ELSE events[d]
  BY <1>0, <1>1, <1>2, ExceptSeq, LenProperties
<1>4. /\ reopened \subseteq reopened' /\ reopened' \subseteq reopened \union {events[e].of}
      /\ Open(e) \/ events[e].of \in reopened'
  BY DEF WriteEvent
<1>5. events[e].of \in Fingerprint \union {None}
  BY <1>0 DEF EventRow
<1>6. EventsMove
  BY <1>1, <1>3, <1>4, <1>5 DEF EventsMove, Open
<1> QED
  BY <1>1, <1>3, <1>6

\* An event is raised, or the open one is used.
LEMMA Raised ==
  ASSUME Typed, NEW f \in Fingerprint, Raise(f), UNCHANGED reopened
  PROVE  /\ EventsMove
         /\ EventFor(f) \in DOMAIN events' /\ events'[EventFor(f)].of = f
         /\ \A e \in DOMAIN events : events'[e] = events[e]
         /\ OpenOf(f) = {} => /\ EventFor(f) \notin DOMAIN events
                              /\ ~ events'[EventFor(f)].handed
<1>0. DOMAIN events = 1..Len(events) /\ Len(events) \in Nat
  BY Rows
<1>1. CASE OpenOf(f) = {}
  <2> DEFINE row == [of |-> f, status |-> "pending", handed |-> FALSE, by |-> "nobody"]
  <2>1. row \in EventRow /\ row.of = f /\ ~ row.handed /\ row.status \in OpenStatus
    BY DEF EventRow, OpenStatus
  <2>2. events' = Append(events, row)
    BY <1>1 DEF Raise, NewEvent
  <2>3. EventFor(f) = Len(events) + 1
    BY <1>1 DEF EventFor
  <2> HIDE DEF row
  <2> QED
    BY <1>0, <1>1, <2>1, <2>2, <2>3, Appended
<1>2. CASE OpenOf(f) # {}
  <2>1. events' = events
    BY <1>2 DEF Raise
  <2>2. EventFor(f) \in DOMAIN events /\ events[EventFor(f)].of = f
    BY <1>2, EventForOpen DEF OpenOf
  <2> QED
    BY <1>2, <2>1, <2>2, Touched DEF Typed, Open
<1> QED
  BY <1>1, <1>2

LEMMA HandedOver ==
  ASSUME Typed, NEW f \in Fingerprint, HandOver(f), UNCHANGED reopened
  PROVE  /\ EventsMove
         /\ \A e \in DOMAIN events : events'[e] = events[e] \/ (events[e].of = f /\ Open(e))
         /\ \A e \in DOMAIN events : events'[e].status \in ClosedStatus => events'[e] = events[e]
         /\ \A e \in DOMAIN events' : e \notin DOMAIN events => events'[e].of = f
<1>0. DOMAIN events = 1..Len(events) /\ Len(events) \in Nat
  BY Rows
<1>1. CASE OpenOf(f) = {}
  <2> DEFINE row == [of |-> f, status |-> "visible", handed |-> TRUE, by |-> "nobody"]
  <2>1. row \in EventRow /\ row.of = f /\ row.status \in OpenStatus
    BY DEF EventRow, OpenStatus
  <2>2. events' = Append(events, row)
    BY <1>1 DEF HandOver, NewEvent
  <2> HIDE DEF row
  <2> QED
    BY <1>0, <1>1, <2>1, <2>2, Appended DEF EventsMove
<1>2. CASE OpenOf(f) # {}
  <2> DEFINE e == EventFor(f)
             r == [[events[e] EXCEPT !.status = "visible"] EXCEPT !.handed = TRUE]
  <2>1. e \in DOMAIN events /\ events[e].of = f /\ Open(e)
    BY <1>2, EventForOpen DEF OpenOf
  <2>2. events[e] \in EventRow /\ events \in Seq(EventRow)
    BY <2>1, Rows DEF Typed
  <2>3. r \in EventRow /\ r.of = f /\ r.status = "visible"
    BY <2>1, <2>2 DEF EventRow, OpenStatus
  <2>4. events' = [events EXCEPT ![e] = r]
    BY <1>2, <2>2 DEF HandOver
  <2> HIDE DEF e, r
  <2>5. /\ events' \in Seq(EventRow) /\ Len(events') = Len(events) /\ DOMAIN events' = DOMAIN events
        /\ \A d \in DOMAIN events : events'[d] = IF d = e THEN r ELSE events[d]
    BY <2>1, <2>2, <2>3, <2>4, ExceptSeq, LenProperties
  <2>6. EventsMove
    BY <2>1, <2>3, <2>5, Touched DEF Open
  <2> QED
    BY <2>1, <2>3, <2>5, <2>6 DEF ClosedStatus
<1> QED
  BY <1>1, <1>2

-----------------------------------------------------------------------------
\* Why an event is closed after a step: it was and nobody wrote it, or a
\* human, the request for help it belongs to or the receipt of a reply that
\* was queued for it closed it.
Cause(e) ==
  \/ events'[e] = events[e]
  \/ events'[e].by = "human"
  \/ assist # Idle /\ e = assist.event
  \/ \E f \in Fingerprint : /\ reply[f].state = "queued" /\ e = reply[f].event
                             /\ reply'[f].state = "delivered"

\* Only the evaluation that asked the steward and the request for help hand an
\* event over.
EventsEffect ==
  /\ EventsMove
  /\ \A e \in DOMAIN events :
       \/ events'[e].handed = events[e].handed
       \/ eval.at = "judge" /\ e \in OpenOf(eval.of)
       \/ assist # Idle /\ assist' = Idle /\ e = assist.event
  /\ \A e \in DOMAIN events : events'[e].status \in ClosedStatus => Cause(e)
  /\ \A e \in DOMAIN events' : e \notin DOMAIN events => eval' = Idle \/ events'[e].of = None

LEMMA Still ==
  ASSUME Typed, UNCHANGED <<events, reopened>>
  PROVE  EventsEffect
<1>1. EventsMove
  BY Touched DEF Typed, Open
<1>2. \A e \in DOMAIN events : Cause(e)
  BY DEF Cause
<1> QED
  BY <1>1, <1>2 DEF EventsEffect

\* A row is written with a status that closes it only by those who may.
LEMMA Wrote ==
  ASSUME Typed, NEW e \in DOMAIN events, NEW s \in OpenStatus \union ClosedStatus,
         NEW who \in {"nobody", "steward", "human"}, WriteEvent(e, s, who),
         \/ s \in OpenStatus
         \/ who = "human"
         \/ assist # Idle /\ e = assist.event
         \/ \E f \in Fingerprint : /\ reply[f].state = "queued" /\ e = reply[f].event
                                    /\ reply'[f].state = "delivered"
  PROVE  EventsEffect
<1>1. /\ EventsMove /\ DOMAIN events' = DOMAIN events
      /\ events'[e].status = s /\ events'[e].by = who
      /\ \A d \in DOMAIN events : /\ events'[d].handed = events[d].handed
                                  /\ d # e => events'[d] = events[d]
  BY Written
<1>2. OpenStatus \intersect ClosedStatus = {}
  BY DEF OpenStatus, ClosedStatus
<1>3. ASSUME NEW d \in DOMAIN events, events'[d].status \in ClosedStatus
      PROVE  Cause(d)
  <2>1. CASE d # e
    BY <1>1, <2>1 DEF Cause
  <2>2. CASE d = e
    <3>1. s \notin OpenStatus
      BY <1>1, <1>2, <1>3, <2>2
    <3> QED
      BY <1>1, <2>2, <3>1 DEF Cause
  <2> QED
    BY <2>1, <2>2
<1> QED
  BY <1>1, <1>3 DEF EventsEffect

LEMMA EventsStep ==
  ASSUME Typed, [Next]_vars
  PROVE  EventsEffect
<1>0. /\ DOMAIN events = 1..Len(events) /\ Len(events) \in Nat
      /\ \A e \in DOMAIN events : events[e] \in EventRow
      /\ OpenStatus \intersect ClosedStatus = {}
  BY Rows DEF OpenStatus, ClosedStatus
<1>a. /\ {"resolved", "dismissed"} \subseteq ClosedStatus /\ {"visible", "claimed", "pending"} \subseteq OpenStatus
  BY DEF OpenStatus, ClosedStatus
<1>b. ASSUME NEW e \in DOMAIN events, NEW s \in ClosedStatus, WriteEvent(e, s, "human")
      PROVE  EventsEffect
  <2> DEFINE who == "human"
  <2>1. who = "human" /\ who \in {"nobody", "steward", "human"} /\ WriteEvent(e, s, who)
    BY <1>b
  <2> HIDE DEF who
  <2>2. s \in OpenStatus \union ClosedStatus
    OBVIOUS
  <2>3. \/ s \in OpenStatus
        \/ who = "human"
        \/ assist # Idle /\ e = assist.event
        \/ \E f \in Fingerprint : /\ reply[f].state = "queued" /\ e = reply[f].event
                                   /\ reply'[f].state = "delivered"
    BY <2>1
  <2> QED
    BY <2>1, <2>2, <2>3, Wrote
<1>c. ASSUME NEW e \in DOMAIN events, NEW s \in OpenStatus, WriteEvent(e, s, events[e].by)
      PROVE  EventsEffect
  <2> DEFINE who == events[e].by
  <2>1. who \in {"nobody", "steward", "human"} /\ WriteEvent(e, s, who)
    BY <1>0, <1>c DEF EventRow
  <2> HIDE DEF who
  <2>2. s \in OpenStatus \union ClosedStatus
    OBVIOUS
  <2>3. \/ s \in OpenStatus
        \/ who = "human"
        \/ assist # Idle /\ e = assist.event
        \/ \E f \in Fingerprint : /\ reply[f].state = "queued" /\ e = reply[f].event
                                   /\ reply'[f].state = "delivered"
    BY <2>1
  <2> QED
    BY <2>1, <2>2, <2>3, Wrote
<1> DEFINE Quiet == UNCHANGED <<events, reopened>>
<1>1. CASE UNCHANGED vars
  BY <1>1, Still DEF vars
<1>2. CASE Configure \/ SetPolicy \/ Poll \/ TranscriptUpdated \/ TimerFires \/ EvaluateNow
  <2>1. Quiet
    BY <1>2 DEF Configure, SetPolicy, Poll, TranscriptUpdated, TimerFires, EvaluateNow, Begin
  <2> QED
    BY <2>1, Still
<1>3. CASE FetchFails \/ JudgeFails \/ HelpIsSent \/ GraceEnds \/ WindowSlides \/ RuntimeEnds
           \/ WorkerMoves \/ GoesOffline \/ ComesBack \/ Restart
  <2>1. Quiet
    BY <1>3 DEF FetchFails, JudgeFails, HelpIsSent, GraceEnds, WindowSlides, RuntimeEnds,
      WorkerMoves, GoesOffline, ComesBack, Restart, KeepsForAssist, OnlyTime, KeepsOffline
  <2> QED
    BY <2>1, Still
<1>4. CASE \E f \in Fingerprint : GivenUp(f)
  <2>1. Quiet
    BY <1>4 DEF GivenUp
  <2> QED
    BY <2>1, Still
<1>5. ASSUME NEW f \in Fingerprint, Raise(f), UNCHANGED reopened, eval' = Idle
      PROVE  EventsEffect
  <2>1. EventsMove /\ \A e \in DOMAIN events : events'[e] = events[e]
    BY <1>5, Raised
  <2> QED
    BY <1>0, <1>5, <2>1 DEF EventsEffect, Cause
<1>6. CASE Fetched
  <2>1. Quiet \/ (Raise(worker) /\ UNCHANGED reopened /\ eval' = Idle /\ worker # None)
    BY <1>6 DEF Fetched, Suggest, RateLimited, AskSteward, Over
  <2>2. worker \in Fingerprint \union {None}
    BY DEF Typed, TypeOK
  <2> HIDE DEF Quiet
  <2>3. CASE Quiet
    BY <2>3, Still DEF Quiet
  <2> QED
    BY <1>5, <2>1, <2>2, <2>3
<1>7. ASSUME eval.at = "judge" PROVE eval.of \in Fingerprint
  BY <1>7 DEF Typed, TypeOK, Idle
<1>8. CASE Replies \/ QueueFails
  <2>1. eval.at = "judge" /\ Raise(eval.of) /\ UNCHANGED reopened /\ eval' = Idle
    BY <1>8 DEF Replies, QueueFails, Over
  <2> QED
    BY <1>5, <1>7, <2>1
<1>9. CASE Escalates
  <2>1. eval.at = "judge" /\ HandOver(eval.of) /\ UNCHANGED reopened /\ eval' = Idle
    BY <1>9 DEF Escalates, Over
  <2>2. eval.of \in Fingerprint
    BY <1>7, <2>1
  <2>3. /\ EventsMove
        /\ \A e \in DOMAIN events : events'[e] = events[e] \/ (events[e].of = eval.of /\ Open(e))
        /\ \A e \in DOMAIN events : events'[e].status \in ClosedStatus => events'[e] = events[e]
    BY <2>1, <2>2, HandedOver
  <2>4. \A e \in DOMAIN events : events'[e].status \in ClosedStatus => Cause(e)
    BY <2>3 DEF Cause
  <2> QED
    BY <2>1, <2>3, <2>4 DEF EventsEffect, OpenOf
<1>10. ASSUME NEW f \in Fingerprint, Delivered(f) \/ NotDelivered(f)
       PROVE  EventsEffect
  <2> DEFINE e == reply[f].event
  <2>1. reply[f].state = "queued" /\ e \in DOMAIN events
    BY <1>10 DEF Delivered, NotDelivered, Settles, Typed, TypeOK
  <2>3. CASE WriteEvent(e, "resolved", "steward") /\ Settles(f, "delivered")
    <3>1. reply'[f].state = "delivered"
      BY <2>3 DEF Settles, Typed, ReplyRow
    <3> QED
      BY <1>a, <2>1, <2>3, <3>1, Wrote
  <2>4. CASE WriteEvent(e, "visible", events[e].by)
    BY <1>a, <1>c, <2>1, <2>4
  <2> QED
    BY <1>10, <2>3, <2>4 DEF Delivered, NotDelivered, EventOf
<1>11. CASE ListEvents
  <2>1. /\ UNCHANGED reopened /\ DOMAIN events' = DOMAIN events
        /\ events' = [e \in DOMAIN events |-> events'[e]]
        /\ \A e \in DOMAIN events :
             \/ events'[e] = events[e]
             \/ events[e].status = "pending" /\ events'[e] = [events[e] EXCEPT !.status = "visible"]
    BY <1>11 DEF ListEvents
  <2>2. ASSUME NEW e \in DOMAIN events
        PROVE  /\ events'[e] \in EventRow
               /\ events'[e].of = events[e].of /\ events'[e].handed = events[e].handed
               /\ events'[e].status \in OpenStatus => Open(e)
               /\ events'[e].status \in ClosedStatus => Cause(e)
    BY <1>0, <2>1, <2>2 DEF EventRow, Open, OpenStatus, ClosedStatus, Cause
  <2>3. events' \in Seq(EventRow) /\ Len(events') = Len(events)
    <3>1. events' \in [1..Len(events) -> EventRow]
      BY <1>0, <2>1, <2>2
    <3>2. events' \in Seq(EventRow)
      BY <1>0, <3>1, SeqDef
    <3>3. DOMAIN events' = 1..Len(events') /\ Len(events') \in Nat
      BY <3>2, LenProperties
    <3>4. Len(events') = Len(events)
      <4> DEFINE m == Len(events)
                 n == Len(events')
      <4>1. m \in Nat /\ n \in Nat /\ 1..m = 1..n
        BY <1>0, <2>1, <3>3
      <4> HIDE DEF m, n
      <4>2. (m >= 1 => m <= n) /\ (n >= 1 => n <= m)
        BY <4>1
      <4>3. m = n
        BY <4>1, <4>2
      <4> QED
        BY <4>3 DEF m, n
    <3> QED
      BY <3>2, <3>4
  <2>4. EventsMove
    BY <2>1, <2>2, <2>3, Touched
  <2> QED
    BY <2>1, <2>2, <2>4 DEF EventsEffect
<1>12. CASE \E e \in DOMAIN events : Dismiss(e) \/ \E o \in Operator : Claim(o, e)
  <2>1. PICK e \in DOMAIN events : Dismiss(e) \/ \E o \in Operator : Claim(o, e)
    BY <1>12
  <2>3. CASE WriteEvent(e, "dismissed", "human")
    BY <1>a, <1>b, <2>3
  <2>4. CASE WriteEvent(e, "claimed", events[e].by)
    BY <1>a, <1>c, <2>4
  <2> QED
    BY <2>1, <2>3, <2>4 DEF Dismiss, Claim
<1>13. CASE \E o \in Operator : AnswerArrives(o) \/ AnswerFails(o)
  <2>1. PICK o \in Operator : AnswerArrives(o) \/ AnswerFails(o)
    BY <1>13
  <2> DEFINE e == answering[o]
  <2>2. e \in DOMAIN events
    BY <2>1 DEF AnswerArrives, AnswerFails, Answered, Typed, TypeOK
  <2>4. CASE WriteEvent(e, "resolved", "human")
    BY <1>a, <1>b, <2>2, <2>4
  <2>5. CASE WriteEvent(e, "pending", events[e].by)
    BY <1>a, <1>c, <2>2, <2>5
  <2>6. CASE UNCHANGED <<events, reopened>>
    BY <2>6, Still
  <2> QED
    BY <2>1, <2>4, <2>5, <2>6 DEF AnswerArrives, AnswerFails, Answered
<1>14. CASE AskForHelp
  <2> DEFINE row == [of |-> None, status |-> "pending", handed |-> FALSE, by |-> "nobody"]
  <2>1. row \in EventRow /\ row.of = None /\ row.status \in OpenStatus
    BY DEF EventRow, OpenStatus
  <2>2. events' = Append(events, row) /\ UNCHANGED reopened
    BY <1>14 DEF AskForHelp, NewEvent
  <2> HIDE DEF row
  <2>3. /\ EventsMove /\ \A e \in DOMAIN events : events'[e] = events[e]
        /\ events'[Len(events) + 1] = row
    BY <2>1, <2>2, Appended
  <2>4. \A e \in DOMAIN events' : e \notin DOMAIN events => events'[e].of = None
    BY <2>1, <2>3 DEF EventsMove
  <2>5. \A e \in DOMAIN events : Cause(e)
    BY <2>3 DEF Cause
  <2> QED
    BY <2>3, <2>4, <2>5 DEF EventsEffect
<1>15. ASSUME assist # Idle PROVE assist.event \in DOMAIN events
  BY <1>15 DEF Typed, TypeOK
<1>16. CASE HelpFails
  <2>1. assist # Idle /\ assist' = Idle /\ UNCHANGED reopened
        /\ (UNCHANGED events \/ events' = [events EXCEPT ![assist.event].handed = TRUE])
    BY <1>16 DEF HelpFails
  <2>2. CASE UNCHANGED events
    BY <2>1, <2>2, Still
  <2>3. CASE events' = [events EXCEPT ![assist.event].handed = TRUE]
    <3> DEFINE e == assist.event
               r == [events[e] EXCEPT !.handed = TRUE]
    <3>1. e \in DOMAIN events /\ events[e] \in EventRow /\ events \in Seq(EventRow)
      BY <1>0, <1>15, <2>1 DEF Typed
    <3>2. r \in EventRow /\ r.of = events[e].of /\ r.status = events[e].status
      BY <3>1 DEF EventRow
    <3>3. events' = [events EXCEPT ![e] = r]
      BY <2>3
    <3>4. /\ assist # Idle /\ assist' = Idle /\ e = assist.event
      BY <2>1
    <3> HIDE DEF e, r
    <3>5. /\ events' \in Seq(EventRow) /\ Len(events') = Len(events) /\ DOMAIN events' = DOMAIN events
          /\ \A d \in DOMAIN events : events'[d] = IF d = e THEN r ELSE events[d]
      BY <1>0, <3>1, <3>2, <3>3, ExceptSeq, LenProperties
    <3>6. EventsMove
      BY <2>1, <3>2, <3>5, Touched DEF Open
    <3>7. \A d \in DOMAIN events : Cause(d)
      BY <3>4, <3>5 DEF Cause
    <3> QED
      BY <3>4, <3>5, <3>6, <3>7 DEF EventsEffect
  <2> QED
    BY <2>1, <2>2, <2>3
<1>17. CASE HelpIsEmpty \/ Helped
  <2>1. WriteEvent(assist.event, "resolved", "steward") /\ assist # Idle
    BY <1>17 DEF HelpIsEmpty, Helped, Idle
  <2>2. assist.event \in DOMAIN events
    BY <1>15, <2>1
  <2> QED
    BY <2>1, <2>2, Wrote DEF ClosedStatus
<1> HIDE DEF Quiet
<1> QED
  BY <1>1, <1>2, <1>3, <1>4, <1>6, <1>8, <1>9, <1>10, <1>11, <1>12, <1>13, <1>14, <1>16, <1>17
  DEF Next

-----------------------------------------------------------------------------
\* The type of every variable, in the form a step preserves.
BindingType == [enabled : BOOLEAN, mode : Mode, overtime : BOOLEAN,
                successes : 0..SuccessLimit, skips : 0..SkipLimit,
                polled : BOOLEAN, allowed : BOOLEAN]
EvalType == {Idle} \union [at : {"fetch"}, row : Row]
                     \union [at : {"judge"}, row : Row, of : Fingerprint]
AssistType(D) == {Idle} \union [at : {"judge", "send"}, mode : Mode, event : D]

Fit ==
  /\ binding \in BindingType
  /\ worker \in Fingerprint \union {None}
  /\ online \in BOOLEAN /\ grace \in BOOLEAN /\ recent \in Nat
  /\ timer \in {None} \union Row
  /\ eval \in EvalType
  /\ reply \in [Fingerprint -> ReplyRow]
  /\ \A f \in Fingerprint :
       /\ (reply[f].state = "none") <=> (reply[f].event = 0)
       /\ reply[f].event \in {0} \union DOMAIN events
  /\ success \subseteq Fingerprint
  /\ answering \in [Operator -> {0} \union DOMAIN events]
  /\ assist \in AssistType(DOMAIN events)
  /\ events \in Seq(EventRow) /\ reopened \subseteq Fingerprint \union {None}

LEMMA Parts == Typed <=> Fit
<1>1. ASSUME Typed PROVE Fit
  BY <1>1 DEF Typed, TypeOK, Fit, BindingType, EvalType, AssistType
<1>2. ASSUME Fit PROVE Typed
  <2>1. \A e \in DOMAIN events : events[e] \in EventRow
    BY <1>2, ElementOfSeq, LenProperties DEF Fit
  <2>2. \A f \in Fingerprint : reply[f].state \in {"none", "queued", "delivered", "refused", "dead"}
    BY <1>2 DEF Fit, ReplyRow
  <2>3. \/ eval = Idle
        \/ eval \in [at : {"fetch"}, row : Row]
        \/ eval \in [at : {"judge"}, row : Row, of : Fingerprint]
    BY <1>2 DEF Fit, EvalType
  <2>4. assist = Idle \/ assist \in [at : {"judge", "send"}, mode : Mode, event : DOMAIN events]
    BY <1>2 DEF Fit, AssistType
  <2>5. TypeOK
    BY <1>2, <2>1, <2>2, <2>3, <2>4 DEF Fit, TypeOK, BindingType, EventRow
  <2> QED
    BY <1>2, <2>5 DEF Fit, Typed
<1> QED
  BY <1>1, <1>2

LEMMA Bindings ==
  ASSUME NEW b \in BindingType
  PROVE  /\ b.enabled \in BOOLEAN /\ b.mode \in Mode
         /\ [b EXCEPT !.enabled = FALSE] \in BindingType
         /\ [b EXCEPT !.overtime = TRUE] \in BindingType
         /\ [b EXCEPT !.allowed = ~@] \in BindingType
         /\ [b EXCEPT !.successes = AtMost(@ + 1, SuccessLimit)] \in BindingType
         /\ [b EXCEPT !.skips = AtMost(@ + 1, SkipLimit)] \in BindingType
         /\ \A stop \in BOOLEAN : AutoStop(b, stop) => binding' \in BindingType
         /\ \A on \in BOOLEAN, mode \in Mode : Fresh(b, on, mode) \in BindingType
         /\ \A row \in Row : Stops(b, row) \subseteq BOOLEAN
<1>1. SuccessLimit \in Nat \ {0} /\ SkipLimit \in Nat \ {0}
  BY WatchAssumption
<1>2. /\ b.enabled \in BOOLEAN /\ b.mode \in Mode /\ b.overtime \in BOOLEAN
      /\ b.successes \in 0..SuccessLimit /\ b.skips \in 0..SkipLimit
  BY DEF BindingType
<1>3. /\ AtMost(b.successes + 1, SuccessLimit) \in 0..SuccessLimit
      /\ AtMost(b.skips + 1, SkipLimit) \in 0..SkipLimit
  BY <1>1, <1>2 DEF AtMost
<1>4. /\ [b EXCEPT !.enabled = FALSE] \in BindingType
      /\ [b EXCEPT !.overtime = TRUE] \in BindingType
      /\ [b EXCEPT !.successes = AtMost(@ + 1, SuccessLimit)] \in BindingType
      /\ [b EXCEPT !.skips = AtMost(@ + 1, SkipLimit)] \in BindingType
  BY <1>3 DEF BindingType
<1>5. ASSUME NEW stop \in BOOLEAN, AutoStop(b, stop) PROVE binding' \in BindingType
  BY <1>2, <1>5 DEF AutoStop, BindingType
<1>6. ASSUME NEW on \in BOOLEAN, NEW mode \in Mode PROVE Fresh(b, on, mode) \in BindingType
  <2> DEFINE A == 0..SuccessLimit
             B == 0..SkipLimit
  <2>1. 0 \in A /\ 0 \in B
    BY <1>1
  <2>2. BindingType = [enabled : BOOLEAN, mode : Mode, overtime : BOOLEAN, successes : A,
                       skips : B, polled : BOOLEAN, allowed : BOOLEAN]
    BY DEF BindingType
  <2> HIDE DEF A, B
  <2> QED
    BY <1>6, <2>1, <2>2 DEF Fresh
<1>7. ASSUME NEW row \in Row PROVE Stops(b, row) \subseteq BOOLEAN
  BY <1>2 DEF Stops, StopReason, Row
<1>8. [b EXCEPT !.allowed = ~@] \in BindingType
  BY <1>2 DEF BindingType
<1> QED
  BY <1>2, <1>4, <1>5, <1>6, <1>7, <1>8

LEMMA BindingStep ==
  ASSUME Typed, [Next]_vars
  PROVE  binding' \in BindingType
<1>0. binding \in BindingType
  BY Parts DEF Fit
<1>1. CASE UNCHANGED binding
  BY <1>0, <1>1
<1>2. CASE Configure \/ SetPolicy
  <2>1. CASE Configure
    <3>1. PICK on \in BOOLEAN, mode \in Mode : binding' = Fresh(binding, on, mode)
      BY <2>1 DEF Configure
    <3> QED
      BY <1>0, <3>1, Bindings
  <2>2. CASE SetPolicy
    <3>1. binding' = [binding EXCEPT !.allowed = ~@]
      BY <2>2 DEF SetPolicy
    <3>2. [binding EXCEPT !.allowed = ~@] \in BindingType
      BY <1>0, Bindings
    <3> QED
      BY <3>1, <3>2
  <2> QED
    BY <1>2, <2>1, <2>2
<1>3. CASE Poll
  BY <1>0, <1>3, Bindings DEF Poll
<1>4. ASSUME NEW row \in Row, Begin(row) PROVE binding' \in BindingType
  BY <1>0, <1>4, Bindings DEF Begin, Forbidden, Allowed
<1>5. CASE TimerFires \/ EvaluateNow
  <2>1. Current \in Row
    BY <1>0, Bindings DEF Current, Row
  <2>2. timer # None => timer \in Row
    BY Parts DEF Fit
  <2> QED
    BY <1>4, <1>5, <2>1, <2>2 DEF TimerFires, EvaluateNow
<1>6. CASE Fetched
  <2>1. UNCHANGED binding \/ (eval.at = "fetch" /\ RateLimited)
    BY <1>6 DEF Fetched, Suggest, AskSteward
  <2>2. ASSUME eval.at = "fetch", RateLimited PROVE binding' \in BindingType
    <3> DEFINE b == [binding EXCEPT !.skips = AtMost(@ + 1, SkipLimit)]
    <3>1. b \in BindingType
      BY <1>0, Bindings
    <3>2. eval.row \in Row
      BY <2>2, Parts DEF Fit, EvalType, Idle
    <3>3. \E stop \in Stops(b, eval.row) : AutoStop(b, stop)
      BY <2>2 DEF RateLimited
    <3> HIDE DEF b
    <3> QED
      BY <3>1, <3>2, <3>3, Bindings
  <2> QED
    BY <1>1, <2>1, <2>2
<1>7. CASE Succeeded
  BY <1>0, <1>7, Bindings DEF Succeeded
<1>8. CASE RuntimeEnds
  BY <1>0, <1>8, Bindings DEF RuntimeEnds
<1>9. CASE \E f \in Fingerprint : Delivered(f) \/ NotDelivered(f) \/ GivenUp(f)
  BY <1>1, <1>7, <1>9 DEF Delivered, NotDelivered, GivenUp
<1>10. CASE TranscriptUpdated \/ FetchFails \/ JudgeFails \/ Escalates \/ Replies \/ QueueFails
  BY <1>1, <1>10 DEF TranscriptUpdated, FetchFails, JudgeFails, Escalates, Replies, QueueFails
<1>11. CASE \/ ListEvents
            \/ \E e \in DOMAIN events : Dismiss(e) \/ \E o \in Operator : Claim(o, e)
            \/ \E o \in Operator : AnswerArrives(o) \/ AnswerFails(o)
  BY <1>1, <1>11 DEF ListEvents, Dismiss, Claim, AnswerArrives, AnswerFails, Answered, Keeps
<1>12. CASE AskForHelp \/ HelpFails \/ HelpIsEmpty \/ HelpIsSent \/ Helped
  BY <1>1, <1>7, <1>12 DEF AskForHelp, HelpFails, HelpIsEmpty, HelpIsSent, Helped
<1>13. CASE GraceEnds \/ WindowSlides \/ WorkerMoves \/ GoesOffline \/ ComesBack \/ Restart
  BY <1>1, <1>13 DEF GraceEnds, WindowSlides, WorkerMoves, GoesOffline, ComesBack, Restart,
     KeepsOffline
<1> QED
  BY <1>1, <1>2, <1>3, <1>5, <1>6, <1>8, <1>9, <1>10, <1>11, <1>12, <1>13 DEF Next, vars

\* An evaluation asks the steward only about what has no open event, and goes
\* on with what it asked.
LEMMA EvalStep ==
  ASSUME Typed, [Next]_vars
  PROVE  /\ eval' \in EvalType
         /\ timer' \in {None} \union Row
         /\ eval'.at = "judge" =>
              \/ eval.at = "judge" /\ eval'.of = eval.of
              \/ UNCHANGED <<events, reopened>> /\ OpenOf(eval'.of) = {}
<1> DEFINE Goal == /\ eval' \in EvalType
                   /\ timer' \in {None} \union Row
                   /\ eval'.at = "judge" =>
                        \/ eval.at = "judge" /\ eval'.of = eval.of
                        \/ UNCHANGED <<events, reopened>> /\ OpenOf(eval'.of) = {}
<1> SUFFICES Goal
  OBVIOUS
<1>0. /\ eval \in EvalType /\ timer \in {None} \union Row /\ binding \in BindingType
      /\ worker \in Fingerprint \union {None}
  BY Parts DEF Fit
<1>1. Current \in Row /\ (\A row \in Row : Outdated(row) \in Row)
  BY <1>0, Bindings DEF Current, Outdated, Row
<1>2. Idle \in EvalType /\ Idle.at = "idle"
  BY DEF EvalType, Idle
<1>3. ASSUME UNCHANGED eval, timer' \in {timer, None, Current} PROVE Goal
  BY <1>0, <1>1, <1>3
<1>4. ASSUME eval' = Idle, timer' \in {timer, None, Current} PROVE Goal
  BY <1>0, <1>1, <1>2, <1>4
<1>5. CASE Configure
  <2>1. timer' \in {None} \union Row
    BY <1>0, <1>1, <1>5 DEF Configure
  <2>2. CASE eval = Idle
    BY <1>2, <1>5, <2>1, <2>2 DEF Configure
  <2>3. CASE eval # Idle
    <3> DEFINE r == Outdated(eval.row)
    <3>1. r \in Row
      BY <1>0, <1>1, <2>3 DEF EvalType
    <3>2. eval' = [eval EXCEPT !.row = r]
      BY <1>5, <2>3 DEF Configure
    <3> HIDE DEF r
    <3>3. eval' \in EvalType /\ eval'.at = eval.at /\ (eval.at = "judge" => eval'.of = eval.of)
      BY <1>0, <2>3, <3>1, <3>2 DEF EvalType
    <3> QED
      BY <2>1, <3>3
  <2> QED
    BY <2>2, <2>3
<1>6. ASSUME NEW row \in Row, timer' \in {timer, None}, Begin(row) PROVE Goal
  <2>1. UNCHANGED eval \/ eval' = [at |-> "fetch", row |-> row]
    BY <1>6 DEF Begin, Forbidden, Allowed
  <2>2. CASE eval' = [at |-> "fetch", row |-> row]
    <3>1. eval' \in EvalType /\ eval'.at = "fetch"
      BY <1>6, <2>2 DEF EvalType
    <3> QED
      BY <1>0, <1>6, <3>1
  <2> QED
    BY <1>3, <1>6, <2>1, <2>2
<1>7. CASE TimerFires \/ EvaluateNow
  BY <1>0, <1>1, <1>6, <1>7 DEF TimerFires, EvaluateNow
<1>8. CASE Fetched
  <2>1. \/ eval' = Idle /\ UNCHANGED timer
        \/ eval.at = "fetch" /\ AskSteward /\ worker # None /\ UNCHANGED <<reopened, timer, events>>
    BY <1>8 DEF Fetched, Suggest, RateLimited, AskSteward, Over
  <2>2. ASSUME eval.at = "fetch", AskSteward, worker # None, OpenOf(worker) = {},
               UNCHANGED <<reopened, timer, events>>
        PROVE  Goal
    <3>1. eval' = [at |-> "judge", row |-> eval.row, of |-> worker]
      BY <2>2 DEF AskSteward, HasActive
    <3>2. eval.row \in Row
      BY <1>0, <2>2 DEF EvalType, Idle
    <3>3. eval' \in EvalType /\ eval'.of = worker
      BY <1>0, <2>2, <3>1, <3>2 DEF EvalType
    <3> QED
      BY <1>0, <2>2, <3>3
  <2>3. AskSteward => eval' = Idle \/ OpenOf(worker) = {}
    BY DEF AskSteward, HasActive
  <2> HIDE DEF Goal
  <2> QED
    BY <1>4, <2>1, <2>2, <2>3
<1>9. CASE FetchFails \/ JudgeFails \/ Escalates \/ Replies \/ QueueFails \/ Restart
  BY <1>4, <1>9 DEF FetchFails, JudgeFails, Escalates, Replies, QueueFails, Restart, Over
<1>10. CASE SetPolicy \/ Poll \/ TranscriptUpdated
  BY <1>3, <1>10 DEF SetPolicy, Poll, TranscriptUpdated
<1>11. CASE \E f \in Fingerprint : Delivered(f) \/ NotDelivered(f) \/ GivenUp(f)
  BY <1>3, <1>11 DEF Delivered, NotDelivered, GivenUp, Settles
<1>12. CASE \/ ListEvents
            \/ \E e \in DOMAIN events : Dismiss(e) \/ \E o \in Operator : Claim(o, e)
            \/ \E o \in Operator : AnswerArrives(o) \/ AnswerFails(o)
  BY <1>3, <1>12 DEF ListEvents, Dismiss, Claim, AnswerArrives, AnswerFails, Answered, Keeps
<1>13. CASE AskForHelp \/ HelpFails \/ HelpIsEmpty \/ HelpIsSent \/ Helped
  BY <1>3, <1>13 DEF AskForHelp, HelpFails, HelpIsEmpty, HelpIsSent, Helped, KeepsForAssist
<1>14. CASE GraceEnds \/ WindowSlides \/ RuntimeEnds \/ WorkerMoves \/ GoesOffline \/ ComesBack
  BY <1>3, <1>14 DEF GraceEnds, WindowSlides, RuntimeEnds, WorkerMoves, GoesOffline, ComesBack,
     KeepsOffline, OnlyTime
<1>15. CASE UNCHANGED vars
  BY <1>3, <1>15 DEF vars
<1> HIDE DEF Goal
<1> QED
  BY <1>5, <1>7, <1>8, <1>9, <1>10, <1>11, <1>12, <1>13, <1>14, <1>15 DEF Next

-----------------------------------------------------------------------------
\* A reply keeps its event; it is queued by the evaluation that asked about it.
ReplyQueued(f) ==
  /\ eval.at = "judge" /\ eval.of = f /\ eval' = Idle
  /\ reply[f].state = "none" /\ reply'[f].state = "queued" /\ reply'[f].event = EventFor(f)
  /\ Raise(f) /\ UNCHANGED <<reopened, answering>>

LEMMA ReplyStep ==
  ASSUME Typed, [Next]_vars
  PROVE  /\ reply' \in [Fingerprint -> ReplyRow]
         /\ \A f \in Fingerprint :
              \/ reply'[f] = reply[f]
              \/ /\ reply[f].state = "queued" /\ reply'[f].state \in {"delivered", "refused", "dead"}
                 /\ reply'[f].event = reply[f].event
              \/ ReplyQueued(f)
<1> DEFINE Goal == /\ reply' \in [Fingerprint -> ReplyRow]
                   /\ \A f \in Fingerprint :
                        \/ reply'[f] = reply[f]
                        \/ /\ reply[f].state = "queued"
                           /\ reply'[f].state \in {"delivered", "refused", "dead"}
                           /\ reply'[f].event = reply[f].event
                        \/ ReplyQueued(f)
<1> SUFFICES Goal
  OBVIOUS
<1>0. reply \in [Fingerprint -> ReplyRow] /\ eval \in EvalType
  BY Parts DEF Fit
<1>1. CASE UNCHANGED reply
  BY <1>0, <1>1
<1>2. ASSUME NEW f \in Fingerprint, NEW state \in {"delivered", "refused", "dead"}, Settles(f, state)
      PROVE  Goal
  <2> DEFINE r == [reply[f] EXCEPT !.state = state]
  <2>1. reply[f] \in ReplyRow /\ reply[f].state = "queued"
    BY <1>0, <1>2 DEF Settles
  <2>2. r \in ReplyRow /\ r.state = state /\ r.event = reply[f].event
    BY <2>1 DEF ReplyRow
  <2>3. reply' = [reply EXCEPT ![f] = r]
    BY <1>2 DEF Settles
  <2> HIDE DEF r
  <2> QED
    BY <1>0, <2>1, <2>2, <2>3
<1>3. CASE \E f \in Fingerprint : Delivered(f) \/ NotDelivered(f) \/ GivenUp(f)
  BY <1>2, <1>3 DEF Delivered, NotDelivered, GivenUp
<1>4. CASE Replies
  <2> DEFINE f == eval.of
             r == [state |-> "queued", event |-> EventFor(f)]
  <2>1. f \in Fingerprint /\ eval.at = "judge" /\ eval' = Idle /\ Raise(f)
        /\ UNCHANGED <<reopened, answering>>
    BY <1>0, <1>4 DEF Replies, EvalType, Idle, Over
  <2>2. CASE UNCHANGED reply
    BY <1>1, <2>2
  <2>3. CASE reply[f] = Nothing /\ reply' = [reply EXCEPT ![f] = r]
    <3>0. DOMAIN events = 1..Len(events) /\ Len(events) \in Nat
      BY Rows
    <3>1. EventFor(f) \in Nat
      <4>1. CASE OpenOf(f) = {}
        BY <3>0, <4>1 DEF EventFor
      <4>2. CASE OpenOf(f) # {}
        BY <3>0, <4>2, EventForOpen DEF OpenOf
      <4> QED
        BY <4>1, <4>2
    <3>2. r \in ReplyRow /\ r.state = "queued" /\ r.event = EventFor(f) /\ reply[f].state = "none"
      BY <2>3, <3>1 DEF ReplyRow, Nothing
    <3>4. f = eval.of
      OBVIOUS
    <3>5. reply' = [reply EXCEPT ![f] = r]
      BY <2>3
    <3> HIDE DEF f, r
    <3>6. reply' \in [Fingerprint -> ReplyRow] /\ reply'[f] = r
          /\ \A g \in Fingerprint : g # f => reply'[g] = reply[g]
      BY <1>0, <2>1, <3>2, <3>5
    <3>7. ReplyQueued(f)
      BY <2>1, <3>2, <3>4, <3>6 DEF ReplyQueued
    <3> QED
      BY <3>6, <3>7
  <2> HIDE DEF Goal
  <2> QED
    BY <1>4, <2>2, <2>3 DEF Replies
<1>5. UNCHANGED reply \/ Replies \/ \E f \in Fingerprint : Delivered(f) \/ NotDelivered(f) \/ GivenUp(f)
  <2>1. CASE UNCHANGED vars
    BY <2>1 DEF vars
  <2>2. CASE Configure \/ SetPolicy \/ Poll \/ TranscriptUpdated \/ TimerFires \/ EvaluateNow
    BY <2>2 DEF Configure, SetPolicy, Poll, TranscriptUpdated, TimerFires, EvaluateNow, Begin
  <2>3. CASE FetchFails \/ Fetched \/ JudgeFails \/ Escalates \/ QueueFails
    BY <2>3 DEF FetchFails, Fetched, JudgeFails, Escalates, QueueFails
  <2>4. CASE \/ ListEvents
             \/ \E e \in DOMAIN events : Dismiss(e) \/ \E o \in Operator : Claim(o, e)
             \/ \E o \in Operator : AnswerArrives(o) \/ AnswerFails(o)
    BY <2>4 DEF ListEvents, Dismiss, Claim, AnswerArrives, AnswerFails, Answered, Keeps
  <2>5. CASE AskForHelp \/ HelpFails \/ HelpIsEmpty \/ HelpIsSent \/ Helped
    BY <2>5 DEF AskForHelp, HelpFails, HelpIsEmpty, HelpIsSent, Helped, KeepsForAssist
  <2>6. CASE GraceEnds \/ WindowSlides \/ RuntimeEnds \/ WorkerMoves \/ GoesOffline \/ ComesBack \/ Restart
    BY <2>6 DEF GraceEnds, WindowSlides, RuntimeEnds, WorkerMoves, GoesOffline, ComesBack,
       KeepsOffline, OnlyTime, Restart
  <2> QED
    BY <2>1, <2>2, <2>3, <2>4, <2>5, <2>6 DEF Next
<1> HIDE DEF Goal
<1> QED
  BY <1>1, <1>3, <1>4, <1>5

-----------------------------------------------------------------------------
LEMMA RestStep ==
  ASSUME Typed, [Next]_vars
  PROVE  /\ worker' \in Fingerprint \union {None}
         /\ online' \in BOOLEAN /\ grace' \in BOOLEAN /\ recent' \in Nat
         /\ success' \subseteq Fingerprint
<1> DEFINE Goal == /\ worker' \in Fingerprint \union {None}
                   /\ online' \in BOOLEAN /\ grace' \in BOOLEAN /\ recent' \in Nat
                   /\ success' \subseteq Fingerprint
<1> SUFFICES Goal
  OBVIOUS
<1>0. /\ worker \in Fingerprint \union {None}
      /\ online \in BOOLEAN /\ grace \in BOOLEAN /\ recent \in Nat /\ success \subseteq Fingerprint
  BY Parts DEF Fit
<1>1. CASE UNCHANGED vars
  BY <1>0, <1>1 DEF vars
<1>2. CASE Configure \/ SetPolicy \/ Poll \/ TranscriptUpdated \/ TimerFires \/ EvaluateNow
  BY <1>0, <1>2 DEF Configure, SetPolicy, Poll, TranscriptUpdated, TimerFires, EvaluateNow, Begin
<1>3. CASE FetchFails \/ Fetched \/ JudgeFails \/ Escalates \/ Replies \/ QueueFails
  BY <1>0, <1>3 DEF FetchFails, Fetched, JudgeFails, Escalates, Replies, QueueFails, Complete
<1>4. CASE \E f \in Fingerprint : Delivered(f) \/ NotDelivered(f) \/ GivenUp(f)
  <2>1. PICK f \in Fingerprint : Delivered(f) \/ NotDelivered(f) \/ GivenUp(f)
    BY <1>4
  <2>2. UNCHANGED <<worker, online>>
    BY <2>1 DEF Delivered, NotDelivered, GivenUp, Settles
  <2>3. grace' \in BOOLEAN
    BY <1>0, <2>1 DEF Delivered, NotDelivered, GivenUp, Complete, Succeeded
  <2>4. UNCHANGED recent \/ recent' = recent + 1
    BY <2>1 DEF Delivered, NotDelivered, GivenUp, Complete, Succeeded
  <2>5. recent' \in Nat
    BY <1>0, <2>4
  <2>6. success' \subseteq Fingerprint
    BY <1>0, <2>1 DEF Delivered, NotDelivered, GivenUp
  <2> QED
    BY <1>0, <2>2, <2>3, <2>5, <2>6
<1>5. CASE \/ ListEvents
           \/ \E e \in DOMAIN events : Dismiss(e) \/ \E o \in Operator : Claim(o, e)
           \/ \E o \in Operator : AnswerArrives(o) \/ AnswerFails(o)
  BY <1>0, <1>5 DEF ListEvents, Dismiss, Claim, AnswerArrives, AnswerFails, Answered, Keeps
<1>6. CASE AskForHelp \/ HelpFails \/ HelpIsEmpty \/ HelpIsSent \/ Helped
  <2>1. /\ UNCHANGED <<online, success>>
        /\ UNCHANGED worker \/ worker' \in Fingerprint \union {None}
    BY <1>6 DEF AskForHelp, HelpFails, HelpIsEmpty, HelpIsSent, Helped, KeepsForAssist
  <2>2. grace' \in BOOLEAN
    BY <1>0, <1>6 DEF AskForHelp, HelpFails, HelpIsEmpty, HelpIsSent, Helped, Complete, Succeeded
  <2>3. UNCHANGED recent \/ recent' = recent + 1
    BY <1>6 DEF AskForHelp, HelpFails, HelpIsEmpty, HelpIsSent, Helped, Complete, Succeeded
  <2>4. recent' \in Nat
    BY <1>0, <2>3
  <2> QED
    BY <1>0, <2>1, <2>2, <2>4
<1>7. CASE GraceEnds \/ WindowSlides \/ RuntimeEnds
  <2>1. UNCHANGED <<worker, online, success>>
    BY <1>7 DEF GraceEnds, WindowSlides, RuntimeEnds, OnlyTime
  <2>2. grace' \in BOOLEAN
    BY <1>0, <1>7 DEF GraceEnds, WindowSlides, RuntimeEnds
  <2>3. UNCHANGED recent \/ (recent > 0 /\ recent' = recent - 1)
    BY <1>7 DEF GraceEnds, WindowSlides, RuntimeEnds
  <2>4. recent' \in Nat
    BY <1>0, <2>3
  <2> QED
    BY <1>0, <2>1, <2>2, <2>4
<1>8. CASE WorkerMoves \/ GoesOffline \/ ComesBack \/ Restart
  BY <1>0, <1>8 DEF WorkerMoves, GoesOffline, ComesBack, KeepsOffline, Restart
<1> HIDE DEF Goal
<1> QED
  BY <1>1, <1>2, <1>3, <1>4, <1>5, <1>6, <1>7, <1>8 DEF Next

\* A request for help is about its own event, which is new when it starts.
LEMMA AssistStep ==
  ASSUME Typed, [Next]_vars, EventsMove
  PROVE  /\ answering' \in [Operator -> {0} \union DOMAIN events']
         /\ assist' \in AssistType(DOMAIN events')
         /\ assist' # Idle =>
              \/ assist # Idle /\ assist'.event = assist.event
              \/ /\ events'[assist'.event].of = None /\ ~ events'[assist'.event].handed
                 /\ assist'.event \notin DOMAIN events
<1> DEFINE Goal == /\ answering' \in [Operator -> {0} \union DOMAIN events']
                   /\ assist' \in AssistType(DOMAIN events')
                   /\ assist' # Idle =>
                        \/ assist # Idle /\ assist'.event = assist.event
                        \/ /\ events'[assist'.event].of = None /\ ~ events'[assist'.event].handed
                           /\ assist'.event \notin DOMAIN events
<1> SUFFICES Goal
  OBVIOUS
<1>0. /\ answering \in [Operator -> {0} \union DOMAIN events]
      /\ assist \in AssistType(DOMAIN events)
      /\ binding \in BindingType
  BY Parts DEF Fit
<1>1. /\ DOMAIN events \subseteq DOMAIN events'
      /\ answering \in [Operator -> {0} \union DOMAIN events']
      /\ assist \in AssistType(DOMAIN events')
  <2>1. DOMAIN events \subseteq DOMAIN events'
    BY DEF EventsMove
  <2>2. answering \in [Operator -> {0} \union DOMAIN events']
    BY <1>0, <2>1
  <2>3. assist \in AssistType(DOMAIN events')
    BY <1>0, <2>1 DEF AssistType
  <2> QED
    BY <2>1, <2>2, <2>3
<1>2. Idle \in AssistType(DOMAIN events')
  BY DEF AssistType
<1>3. ASSUME UNCHANGED <<answering, assist>> PROVE Goal
  BY <1>1, <1>3
<1>4. ASSUME UNCHANGED answering, assist' = Idle PROVE Goal
  BY <1>1, <1>2, <1>4
<1>5. CASE Restart
  BY <1>2, <1>5 DEF Restart
<1>6. CASE \E e \in DOMAIN events : Dismiss(e) \/ \E o \in Operator : Claim(o, e)
  BY <1>1, <1>3, <1>6 DEF Dismiss, Claim
<1>7. CASE \E o \in Operator : AnswerArrives(o) \/ AnswerFails(o)
  BY <1>1, <1>7 DEF AnswerArrives, AnswerFails, Answered
<1>8. CASE AskForHelp
  <2> DEFINE row == [of |-> None, status |-> "pending", handed |-> FALSE, by |-> "nobody"]
  <2>0. DOMAIN events = 1..Len(events) /\ Len(events) \in Nat
    BY Rows
  <2>1. row \in EventRow /\ row.of = None /\ ~ row.handed /\ row.status \in OpenStatus
    BY DEF EventRow, OpenStatus
  <2>2. events' = Append(events, row) /\ UNCHANGED <<reopened, answering>>
    BY <1>8 DEF AskForHelp, NewEvent, KeepsForAssist
  <2>3. assist' = [at |-> "judge", mode |-> binding.mode, event |-> Len(events')]
    BY <1>8 DEF AskForHelp
  <2> HIDE DEF row
  <2>4. /\ Len(events') = Len(events) + 1
        /\ Len(events) + 1 \in DOMAIN events' /\ events'[Len(events) + 1] = row
    BY <2>1, <2>2, Appended
  <2>5. assist' \in AssistType(DOMAIN events') /\ assist'.event = Len(events) + 1
    BY <1>0, <2>3, <2>4, Bindings DEF AssistType
  <2> QED
    BY <1>1, <2>0, <2>1, <2>2, <2>4, <2>5
<1>9. CASE HelpFails \/ HelpIsEmpty \/ Helped
  BY <1>4, <1>9 DEF HelpFails, HelpIsEmpty, Helped, KeepsForAssist
<1>10. CASE HelpIsSent
  <2>1. assist.at = "judge" /\ assist' = [assist EXCEPT !.at = "send"] /\ UNCHANGED answering
    BY <1>10 DEF HelpIsSent, KeepsForAssist
  <2>2. assist # Idle
    BY <2>1 DEF Idle
  <2>3. assist' \in AssistType(DOMAIN events') /\ assist'.event = assist.event
    BY <1>1, <2>1, <2>2 DEF AssistType
  <2> QED
    BY <1>1, <2>1, <2>2, <2>3
<1>11. CASE UNCHANGED vars
  BY <1>3, <1>11 DEF vars
<1>12. CASE Configure \/ SetPolicy \/ Poll \/ TranscriptUpdated \/ TimerFires \/ EvaluateNow
  BY <1>3, <1>12 DEF Configure, SetPolicy, Poll, TranscriptUpdated, TimerFires, EvaluateNow, Begin
<1>13. CASE FetchFails \/ Fetched \/ JudgeFails \/ Escalates \/ Replies \/ QueueFails
  BY <1>3, <1>13 DEF FetchFails, Fetched, JudgeFails, Escalates, Replies, QueueFails
<1>14. CASE \E f \in Fingerprint : Delivered(f) \/ NotDelivered(f) \/ GivenUp(f)
  BY <1>3, <1>14 DEF Delivered, NotDelivered, GivenUp, Settles
<1>15. CASE ListEvents
  BY <1>3, <1>15 DEF ListEvents
<1>16. CASE GraceEnds \/ WindowSlides \/ RuntimeEnds \/ WorkerMoves \/ GoesOffline \/ ComesBack
  BY <1>3, <1>16 DEF GraceEnds, WindowSlides, RuntimeEnds, WorkerMoves, GoesOffline, ComesBack,
     KeepsOffline, OnlyTime
<1> HIDE DEF Goal
<1> QED
  BY <1>5, <1>6, <1>7, <1>8, <1>9, <1>10, <1>11, <1>12, <1>13, <1>14, <1>15, <1>16 DEF Next

LEMMA TypedStep ==
  ASSUME Typed, [Next]_vars
  PROVE  Typed'
<1>1. EventsMove
  BY EventsStep DEF EventsEffect
<1>2. /\ events' \in Seq(EventRow) /\ DOMAIN events \subseteq DOMAIN events'
      /\ reopened' \subseteq Fingerprint \union {None}
  BY <1>1, Parts DEF EventsMove, Fit
<1>3. reply' \in [Fingerprint -> ReplyRow]
  BY ReplyStep
<1>4. ASSUME NEW f \in Fingerprint
      PROVE  /\ (reply'[f].state = "none") <=> (reply'[f].event = 0)
             /\ reply'[f].event \in {0} \union DOMAIN events'
  <2>0. /\ (reply[f].state = "none") <=> (reply[f].event = 0)
        /\ reply[f].event \in {0} \union DOMAIN events
    BY Parts DEF Fit
  <2>1. CASE reply'[f] = reply[f]
    BY <1>2, <2>0, <2>1
  <2>2. CASE /\ reply[f].state = "queued" /\ reply'[f].state \in {"delivered", "refused", "dead"}
             /\ reply'[f].event = reply[f].event
    BY <1>2, <2>0, <2>2
  <2>3. CASE ReplyQueued(f)
    <3>1. EventFor(f) \in DOMAIN events'
      BY <2>3, Raised DEF ReplyQueued
    <3>2. DOMAIN events' = 1..Len(events') /\ Len(events') \in Nat
      BY <1>2, LenProperties
    <3>3. EventFor(f) # 0
      BY <3>1, <3>2
    <3> QED
      BY <2>3, <3>1, <3>3 DEF ReplyQueued
  <2> QED
    BY <2>1, <2>2, <2>3, ReplyStep
<1>5. Fit'
  <2>1. binding' \in BindingType
    BY BindingStep
  <2>2. /\ worker' \in Fingerprint \union {None}
        /\ online' \in BOOLEAN /\ grace' \in BOOLEAN /\ recent' \in Nat
        /\ success' \subseteq Fingerprint
    BY RestStep
  <2>3. eval' \in EvalType /\ timer' \in {None} \union Row
    BY EvalStep
  <2>4. answering' \in [Operator -> {0} \union DOMAIN events'] /\ assist' \in AssistType(DOMAIN events')
    BY <1>1, AssistStep
  <2> QED
    BY <1>2, <1>3, <1>4, <2>1, <2>2, <2>3, <2>4 DEF Fit
<1> QED
  BY <1>5, Parts, PTL

-----------------------------------------------------------------------------
(* The invariant.  What the steward is asked about stays without an open   *)
(* event until it answers (nobody else writes one, unless a closed one is  *)
(* written again); so a reply that is queued finds none, and what it gets  *)
(* is a new event that is not handed over.  A request for help has an      *)
(* event of its own, and its end never closes an event of something else.  *)
Asked == eval.at = "judge" /\ eval.of \notin reopened => OpenOf(eval.of) = {}

HelpAlone ==
  assist # Idle => events[assist.event].of = None /\ ~ events[assist.event].handed

ReplyFits ==
  \A f \in Fingerprint : reply[f].state = "queued" =>
    /\ events[reply[f].event].of = f
    /\ Open(reply[f].event) /\ f \notin reopened => ~ events[reply[f].event].handed

WatchInv == Typed /\ ClosedForCause /\ Asked /\ HelpAlone /\ ReplyFits

LEMMA StartsRight == Init => WatchInv
<1> SUFFICES ASSUME Init PROVE WatchInv
  OBVIOUS
<1>1. events = << >> /\ eval = Idle /\ assist = Idle /\ reopened = {} /\ worker = None
      /\ reply = [f \in Fingerprint |-> Nothing] /\ timer = None /\ recent = 0
  BY DEF Init
<1>2. events \in Seq(EventRow) /\ Len(events) = 0
  BY <1>1, EmptySeq
<1>3. DOMAIN events = {}
  BY <1>2, LenProperties
<1>4. binding \in BindingType
  <2>1. 0 \in 0..SuccessLimit /\ 0 \in 0..SkipLimit
    BY WatchAssumption
  <2> DEFINE A == 0..SuccessLimit
             B == 0..SkipLimit
  <2>2. 0 \in A /\ 0 \in B
    BY <2>1
  <2>3. BindingType = [enabled : BOOLEAN, mode : Mode, overtime : BOOLEAN, successes : A,
                       skips : B, polled : BOOLEAN, allowed : BOOLEAN]
    BY DEF BindingType
  <2> HIDE DEF A, B
  <2> QED
    BY <2>2, <2>3 DEF Init
<1>5. reply \in [Fingerprint -> ReplyRow]
      /\ \A f \in Fingerprint : reply[f].state = "none" /\ reply[f].event = 0
  BY <1>1 DEF Nothing, ReplyRow
<1>6. eval \in EvalType /\ assist \in AssistType(DOMAIN events) /\ eval.at = "idle"
  BY <1>1 DEF EvalType, AssistType, Idle
<1>7. online \in BOOLEAN /\ grace \in BOOLEAN /\ success = {} /\ answering \in [Operator -> {0}]
  BY DEF Init
<1>8. Fit
  BY <1>1, <1>2, <1>4, <1>5, <1>6, <1>7 DEF Fit
<1> QED
  BY <1>1, <1>3, <1>5, <1>6, <1>8, Parts DEF WatchInv, ClosedForCause, Asked, HelpAlone, ReplyFits

LEMMA CauseStep ==
  ASSUME Typed, ClosedForCause, HelpAlone, [Next]_vars
  PROVE  ClosedForCause'
<1> SUFFICES ASSUME NEW e \in DOMAIN events', events'[e].status \notin OpenStatus,
                    events'[e].of # None, events'[e].by # "human"
             PROVE  \E f \in Fingerprint : reply'[f] = [state |-> "delivered", event |-> e]
  BY DEF ClosedForCause, Open
<1>1. EventsEffect /\ EventsMove
  BY EventsStep DEF EventsEffect
<1>2. e \in DOMAIN events /\ events'[e].of = events[e].of
  BY <1>1 DEF EventsMove
<1>3. events'[e].status \in ClosedStatus
  <2>1. events'[e] \in EventRow
    BY <1>1, ElementOfSeq, LenProperties DEF EventsMove
  <2> QED
    BY <2>1 DEF EventRow
<1>4. Cause(e)
  BY <1>1, <1>2, <1>3 DEF EventsEffect
<1>5. ~ (assist # Idle /\ e = assist.event)
  BY <1>2 DEF HelpAlone
<1>6. CASE events'[e] = events[e]
  <2>1. PICK f \in Fingerprint : reply[f] = [state |-> "delivered", event |-> e]
    BY <1>2, <1>6 DEF ClosedForCause, Open
  <2>2. reply'[f] = reply[f]
    BY <2>1, ReplyStep DEF ReplyQueued
  <2> QED
    BY <2>1, <2>2
<1>7. ASSUME NEW f \in Fingerprint, reply[f].state = "queued", e = reply[f].event,
             reply'[f].state = "delivered"
      PROVE  reply'[f] = [state |-> "delivered", event |-> e]
  <2>1. reply'[f].event = e
    BY <1>7, ReplyStep DEF ReplyQueued
  <2>2. reply'[f] \in ReplyRow
    BY ReplyStep
  <2> QED
    BY <1>7, <2>1, <2>2 DEF ReplyRow
<1> QED
  BY <1>4, <1>5, <1>6, <1>7 DEF Cause

LEMMA AskedStep ==
  ASSUME Typed, Asked, [Next]_vars
  PROVE  Asked'
<1> SUFFICES ASSUME eval'.at = "judge", eval'.of \notin reopened', NEW e \in DOMAIN events',
                    events'[e].of = eval'.of, events'[e].status \in OpenStatus
             PROVE  FALSE
  BY DEF Asked, OpenOf, Open
<1>1. /\ EventsMove
      /\ \A d \in DOMAIN events' : d \notin DOMAIN events => eval' = Idle \/ events'[d].of = None
  BY EventsStep DEF EventsEffect
<1>2. CASE eval.at = "judge" /\ eval'.of = eval.of
  <2>1. eval' # Idle /\ eval'.of # None
    <3>1. eval.of \in Fingerprint
      BY <1>2, Parts DEF Fit, EvalType, Idle
    <3> QED
      BY <1>2, <3>1, WatchAssumption DEF Idle
  <2>2. e \in DOMAIN events
    BY <1>1, <2>1
  <2>3. Open(e) /\ events[e].of = eval.of /\ eval.of \notin reopened
    BY <1>1, <1>2, <2>2 DEF EventsMove
  <2> QED
    BY <1>2, <2>2, <2>3 DEF Asked, OpenOf
<1>3. CASE UNCHANGED <<events, reopened>> /\ OpenOf(eval'.of) = {}
  BY <1>3 DEF OpenOf, Open
<1> QED
  BY <1>2, <1>3, EvalStep

LEMMA HelpStep ==
  ASSUME Typed, HelpAlone, [Next]_vars
  PROVE  HelpAlone'
<1> SUFFICES ASSUME assist' # Idle
             PROVE  events'[assist'.event].of = None /\ ~ events'[assist'.event].handed
  BY DEF HelpAlone
<1>1. EventsEffect
  BY EventsStep
<1>2. CASE assist # Idle /\ assist'.event = assist.event
  <2> DEFINE e == assist.event
  <2>1. e \in DOMAIN events /\ events[e].of = None /\ ~ events[e].handed
    BY <1>2, Parts DEF HelpAlone, Fit, AssistType
  <2>2. events'[e].of = None
    BY <1>1, <2>1 DEF EventsEffect, EventsMove
  <2>3. ~ (eval.at = "judge" /\ e \in OpenOf(eval.of))
    BY <2>1, Parts, WatchAssumption DEF OpenOf, Fit, EvalType, Idle
  <2>4. events'[e].handed = events[e].handed
    BY <1>1, <2>1, <2>3 DEF EventsEffect
  <2> QED
    BY <1>2, <2>1, <2>2, <2>4
<1> QED
  BY <1>1, <1>2, AssistStep DEF EventsEffect

LEMMA ReplyFitsStep ==
  ASSUME WatchInv, [Next]_vars
  PROVE  ReplyFits'
<1>0. Typed /\ Asked /\ HelpAlone /\ ReplyFits
  BY DEF WatchInv
<1>1. EventsEffect /\ EventsMove
  BY <1>0, EventsStep DEF EventsEffect
<1> SUFFICES ASSUME NEW f \in Fingerprint, reply'[f].state = "queued"
             PROVE  /\ events'[reply'[f].event].of = f
                    /\ events'[reply'[f].event].status \in OpenStatus /\ f \notin reopened' =>
                         ~ events'[reply'[f].event].handed
  BY DEF ReplyFits, Open
<1> DEFINE e == reply'[f].event
<1>2. CASE reply'[f] = reply[f]
  <2>1. reply[f].state = "queued" /\ e = reply[f].event /\ e \in DOMAIN events
    BY <1>0, <1>2, Parts DEF Fit
  <2>2. events[e].of = f /\ (Open(e) /\ f \notin reopened => ~ events[e].handed)
    BY <1>0, <2>1 DEF ReplyFits
  <2>3. events'[e].of = f
    BY <1>1, <2>1, <2>2 DEF EventsMove
  <2>4. ASSUME events'[e].status \in OpenStatus, f \notin reopened' PROVE ~ events'[e].handed
    <3>1. Open(e) /\ f \notin reopened
      BY <1>1, <2>1, <2>2, <2>4 DEF EventsMove, Open
    <3>2. ~ (eval.at = "judge" /\ e \in OpenOf(eval.of))
      BY <1>0, <2>2, <3>1 DEF Asked, OpenOf
    <3>3. ~ (assist # Idle /\ e = assist.event)
      BY <1>0, <2>2, WatchAssumption DEF HelpAlone
    <3>4. events'[e].handed = events[e].handed
      BY <1>1, <2>1, <3>2, <3>3 DEF EventsEffect
    <3> QED
      BY <2>2, <3>1, <3>4
  <2> QED
    BY <2>3, <2>4
<1>3. CASE ReplyQueued(f)
  <2>1. Raise(f) /\ UNCHANGED reopened /\ e = EventFor(f) /\ eval.at = "judge" /\ eval.of = f
    BY <1>3 DEF ReplyQueued
  <2>2. /\ events'[EventFor(f)].of = f
        /\ OpenOf(f) = {} => ~ events'[EventFor(f)].handed
    BY <1>0, <2>1, Raised
  <2>3. f \notin reopened => OpenOf(f) = {}
    BY <1>0, <2>1 DEF Asked
  <2> QED
    BY <2>1, <2>2, <2>3
<1> QED
  BY <1>0, <1>2, <1>3, ReplyStep

LEMMA WatchStep == WatchInv /\ [Next]_vars => WatchInv'
<1> SUFFICES ASSUME WatchInv, [Next]_vars PROVE WatchInv'
  OBVIOUS
<1>1. Typed /\ ClosedForCause /\ Asked /\ HelpAlone
  BY DEF WatchInv
<1>2. Typed' /\ ClosedForCause' /\ Asked' /\ HelpAlone' /\ ReplyFits'
  BY <1>1, TypedStep, CauseStep, AskedStep, HelpStep, ReplyFitsStep
<1> QED
  BY <1>2 DEF WatchInv

LEMMA AlwaysRight == Spec => []WatchInv
BY StartsRight, WatchStep, PTL DEF Spec

-----------------------------------------------------------------------------
\* What an evaluation, an operator, a receipt, a request for help and a
\* restart leave are rows and a binding of the types the code declares.
THEOREM WatchTypeCorrect == Spec => []TypeOK
<1>1. WatchInv => TypeOK
  BY DEF WatchInv, Typed
<1> QED
  BY <1>1, AlwaysRight, PTL

\* A refused, late or given up reply and a request for help close no event of
\* something the Worker waits for, also after a closed event was written
\* again: behind every closed one is a human or the delivered reply that
\* logHumanWatchContinueAck found its event in.
THEOREM ClosedForCauseHolds == Spec => []ClosedForCause
<1>1. WatchInv => ClosedForCause
  BY DEF WatchInv
<1> QED
  BY <1>1, AlwaysRight, PTL

\* When the steward's reply is queued no operator is answering an open event
\* of the same thing: hasActiveHumanWatchEvent was read before the steward was
\* asked, and still holds when it answers.
THEOREM OneAnswererHolds == Spec => OneAnswerer
<1> DEFINE A == \A f \in Fingerprint :
        reply[f].state = "none" /\ reply'[f].state = "queued" /\ f \notin reopened =>
          \A o \in Operator : answering[o] # 0 /\ events[answering[o]].of = f => ~Open(answering[o])
<1>1. ASSUME WatchInv, [Next]_vars PROVE A
  <2> SUFFICES ASSUME NEW f \in Fingerprint, reply[f].state = "none", reply'[f].state = "queued",
                      f \notin reopened, NEW o \in Operator, answering[o] # 0,
                      events[answering[o]].of = f, Open(answering[o])
               PROVE  FALSE
    OBVIOUS
  <2>0. Typed /\ Asked
    BY <1>1 DEF WatchInv
  <2>1. ReplyQueued(f)
    BY <1>1, <2>0, ReplyStep
  <2>2. OpenOf(f) = {}
    BY <2>0, <2>1 DEF ReplyQueued, Asked
  <2>3. answering[o] \in DOMAIN events
    BY <2>0, Parts DEF Fit
  <2> QED
    BY <2>2, <2>3 DEF OpenOf
<1>2. ASSUME WatchInv, [Next]_vars PROVE [A]_vars
  BY <1>1, <1>2
<1> QED
  BY <1>2, AlwaysRight, PTL DEF Spec, OneAnswerer

\* An event the steward handed over is closed by a human: neither a receipt
\* that comes late nor a request for help closes it.
THEOREM ClosedByHumanHolds == Spec => ClosedByHuman
<1> DEFINE A == \A e \in DOMAIN events :
        Open(e) /\ events[e].handed /\ events[e].of \notin reopened
          /\ events'[e].status \in ClosedStatus => events'[e].by = "human"
<1>1. ASSUME WatchInv, [Next]_vars PROVE A
  <2> SUFFICES ASSUME NEW e \in DOMAIN events, Open(e), events[e].handed,
                      events[e].of \notin reopened, events'[e].status \in ClosedStatus
               PROVE  events'[e].by = "human"
    OBVIOUS
  <2>0. Typed /\ HelpAlone /\ ReplyFits
    BY <1>1 DEF WatchInv
  <2>1. ~ (assist # Idle /\ e = assist.event)
    BY <2>0 DEF HelpAlone
  <2>2. ~ \E f \in Fingerprint : reply[f].state = "queued" /\ e = reply[f].event
    BY <2>0 DEF ReplyFits
  <2>3. events'[e] # events[e]
    BY DEF Open, OpenStatus, ClosedStatus
  <2> QED
    BY <1>1, <2>0, <2>1, <2>2, <2>3, EventsStep DEF EventsEffect, Cause
<1>2. ASSUME WatchInv, [Next]_vars PROVE [A]_vars
  BY <1>1, <1>2
<1> QED
  BY <1>2, AlwaysRight, PTL DEF Spec, ClosedByHuman
=============================================================================
