--------------------------- MODULE WebhooksProofs ---------------------------
(***************************************************************************)
(* The circuit breaker and the retries of a webhook, for any events, any   *)
(* number of retries and any number of runs of the retry job at a time.    *)
(***************************************************************************)
EXTENDS Webhooks, FiniteSetTheorems, TLAPS

\* While nobody answers and no administrator interferes, every attempt that is
\* still to be made has a failure on the count for each one before it.
AttemptsCounted ==
  /\ \A r \in AwaitRetry : failures > r.attempt
  /\ \A j \in Job : \A a \in claimed[j] : failures >= a.attempt
  /\ \A c \in calls : Automatic(c) => failures >= c.attempt

Unanswered == ~ answered /\ requests = 0

Cut ==
  Unanswered => /\ AttemptsCounted
                /\ webhook # "deleted"
                /\ givenUp # {} => webhook = "off"

-----------------------------------------------------------------------------
\* The log gains one row; only rows that waited, or that one, go unanswered.
LEMMA LogTyped ==
  ASSUME HookTypeOK, NEW c \in calls, NEW retry \in BOOLEAN, Log(c, retry)
  PROVE  /\ rows' \subseteq Delivery /\ lastId' \in Nat
         /\ \A r \in rows' : r.retry => r \in rows \/ (retry /\ r.event = c.event /\ r.attempt = c.attempt)
         /\ \A e \in dropped' :
              \/ e \in dropped \/ \E r \in AwaitRetry : r.event = e
              \/ retry /\ e = c.event
<1> DEFINE row == [id |-> lastId + 1, event |-> c.event, attempt |-> c.attempt, retry |-> retry]
           all == rows \cup {row}
<1>1. row \in Delivery /\ row.retry = retry /\ row.event = c.event /\ row.attempt = c.attempt
  BY DEF HookTypeOK, Delivery, Call
<1>2. PICK old \in IF Cardinality(all) > Keep THEN {{r} : r \in all} ELSE {{}} :
        /\ rows' = all \ old
        /\ dropped' = dropped \cup {r.event : r \in {q \in old : q.retry}}
  BY DEF Log
<1>3. old \subseteq all
  OBVIOUS
<1>4. lastId' \in Nat
  BY DEF Log, HookTypeOK
<1> HIDE DEF row
<1>5. QED
  BY <1>1, <1>2, <1>3, <1>4 DEF HookTypeOK, AwaitRetry

\* Whatever waits for its time, is claimed or is under way is about an event that
\* was fired; only the calls of administrators may be pings.
CallsOfEvents ==
  /\ \A c \in calls : Automatic(c) => c.event \in fired
  /\ \A j \in Job : \A a \in claimed[j] : a.event \in fired
  /\ \A r \in AwaitRetry : r.event \in fired

HookInv == HookTypeOK /\ CallsOfEvents

\* The tables, the claims of the jobs and the posts under way are well formed.
THEOREM HookInvHolds == HookSpec => []HookInv
<1>1. HookInit => HookInv
  <2>1. HandCap \in Nat /\ CrashCap \in Nat
    BY HookAssumption DEF HookAssumption
  <2>2. HookInit => HookTypeOK
    <3>1. HookInit => requests \in 0..HandCap /\ crashes \in 0..CrashCap
      BY <2>1 DEF HookInit
    <3>2. HookInit => claimed \in [Job -> SUBSET Attempt] /\ failures \in Nat /\ lastId \in Nat
      BY DEF HookInit
    <3>3. HookInit => /\ webhook \in {"on", "off", "deleted"} /\ answered \in BOOLEAN
                      /\ rows \subseteq Delivery /\ calls \subseteq Call
                      /\ fired \subseteq Event /\ taken \subseteq fired
                      /\ givenUp \subseteq fired /\ dropped \subseteq fired
      BY Zenon DEF HookInit
    <3>4. QED
      BY <3>1, <3>2, <3>3, Zenon DEF HookTypeOK
  <2>3. HookInit => CallsOfEvents
    BY DEF HookInit, CallsOfEvents, AwaitRetry
  <2>4. QED
    BY <2>2, <2>3 DEF HookInv
<1>2. HookInv /\ [HookNext]_hookVars => HookInv'
  <2> SUFFICES ASSUME HookInv, [HookNext]_hookVars PROVE HookInv'
    OBVIOUS
  <2> USE HookAssumption DEF HookInv
  <2>1. CASE \E e \in Event : Fire(e)
    BY <2>1 DEF Fire, Post, HookTypeOK, CallsOfEvents, AwaitRetry, Call, Automatic
  <2>2. ASSUME NEW j \in Job, ReadDue(j) PROVE HookInv'
    <3>1. PICK due \in SUBSET AwaitRetry :
            /\ rows' = Cleared(due)
            /\ claimed' = [claimed EXCEPT ![j] =
                 {[event |-> r.event, attempt |-> r.attempt + 1] : r \in due}]
      BY <2>2 DEF ReadDue
    <3>2. \A r \in due : r \in Delivery /\ r.event \in fired /\ r.attempt \in Nat
      BY DEF CallsOfEvents, HookTypeOK, AwaitRetry, Delivery
    <3>3. \A r \in {[d EXCEPT !.retry = FALSE] : d \in due} : r \in Delivery /\ ~ r.retry
      BY <3>2 DEF Delivery
    <3>4. rows' \subseteq Delivery /\ \A r \in rows' : r.retry => r \in rows
      BY <3>1, <3>3 DEF Cleared, HookTypeOK
    <3>5. claimed' \in [Job -> SUBSET Attempt]
      BY <3>1, <3>2 DEF HookTypeOK, Attempt
    <3>6. \A i \in Job : \A a \in claimed'[i] : a.event \in fired
      BY <3>1, <3>2 DEF HookTypeOK, CallsOfEvents
    <3>7. QED
      BY <2>2, <3>4, <3>5, <3>6 DEF ReadDue, HookTypeOK, CallsOfEvents, AwaitRetry, Automatic
  <2>3. CASE \E j \in Job : Repost(j)
    BY <2>3 DEF Repost, Post, HookTypeOK, CallsOfEvents, AwaitRetry, Attempt, Call, Automatic
  <2>4. ASSUME NEW c \in calls, NEW ok \in BOOLEAN, Answer(c, ok) PROVE HookInv'
    <3>1. c \in Call /\ calls' \subseteq calls
      BY <2>4 DEF Answer, HookTypeOK
    <3>2. CASE webhook # "deleted" /\ Automatic(c) /\ AutomaticAnswer(c, ok)
      <4> DEFINE again == ~ ok /\ ~ c.attempt >= MaxAttempts - 1
      <4>1. Log(c, again) /\ c.event \in fired /\ again \in BOOLEAN
        BY <3>2 DEF AutomaticAnswer, CallsOfEvents
      <4> HIDE DEF again
      <4>2. rows' \subseteq Delivery /\ lastId' \in Nat /\ dropped' \subseteq fired
        BY <4>1, LogTyped DEF CallsOfEvents, HookTypeOK
      <4>3. \A r \in rows' : r.retry => r.event \in fired
        BY <4>1, LogTyped DEF CallsOfEvents, AwaitRetry
      <4>4. failures' \in Nat
        BY <3>2 DEF AutomaticAnswer, FailuresAfter, HookTypeOK
      <4>5. /\ taken' \subseteq fired /\ givenUp' \subseteq fired /\ answered' \in BOOLEAN
            /\ webhook' \in {"on", "off", "deleted"}
        BY <3>2, <4>1 DEF AutomaticAnswer, HookTypeOK
      <4>6. QED
        BY <2>4, <3>1, <4>2, <4>3, <4>4, <4>5
        DEF Answer, HookTypeOK, CallsOfEvents, AwaitRetry, Automatic
    <3>3. CASE /\ webhook # "deleted" /\ ~ Automatic(c) /\ Log(c, FALSE)
               /\ UNCHANGED <<webhook, failures, taken, givenUp, answered>>
      <4>1. rows' \subseteq Delivery /\ lastId' \in Nat /\ dropped' \subseteq fired
        BY <3>3, LogTyped DEF CallsOfEvents, HookTypeOK
      <4>2. \A r \in rows' : r.retry => r.event \in fired
        BY <3>3, LogTyped DEF CallsOfEvents, AwaitRetry
      <4>3. QED
        BY <2>4, <3>1, <3>3, <4>1, <4>2
        DEF Answer, HookTypeOK, CallsOfEvents, AwaitRetry, Automatic
    <3>4. CASE UNCHANGED <<webhook, failures, rows, lastId, taken, givenUp, dropped, answered>>
      BY <2>4, <3>1, <3>4 DEF Answer, HookTypeOK, CallsOfEvents, AwaitRetry, Automatic
    <3>5. QED
      BY <2>4, <3>2, <3>3, <3>4 DEF Answer
  <2>5. ASSUME HookRequest PROVE HookInv'
    <3>1. requests' \in 0..HandCap
      BY <2>5 DEF HookRequest, Update, Delete, Test, RetryByHand, PostByHand, Requests, HookTypeOK
    <3>2. ASSUME NEW event \in Event \cup {Ping}, NEW attempt \in Nat, PostByHand(event, attempt)
          PROVE  HookInv'
      <4>1. requests' \in Nat /\ Post(event, attempt, Hand, requests')
        BY <3>1, <3>2 DEF PostByHand
      <4>2. calls' \subseteq Call /\ \A c \in calls' : Automatic(c) => c \in calls
        BY <4>1 DEF Post, HookTypeOK, Call, Automatic
      <4>3. QED
        BY <3>1, <3>2, <4>2 DEF PostByHand, HookTypeOK, CallsOfEvents, AwaitRetry
    <3>3. CASE Test
      BY <3>2, <3>3 DEF Test
    <3>4. CASE RetryByHand
      BY <3>2, <3>4 DEF RetryByHand, HookTypeOK, Delivery
    <3>5. CASE \E state \in {"on", "off"}, reset \in BOOLEAN : Update(state, reset)
      BY <3>1, <3>5 DEF Update, HookTypeOK, CallsOfEvents, AwaitRetry, Automatic
    <3>6. CASE Delete
      BY <3>1, <3>6 DEF Delete, HookTypeOK, CallsOfEvents, AwaitRetry, Automatic
    <3>7. QED
      BY <2>5, <3>3, <3>4, <3>5, <3>6 DEF HookRequest
  <2>6. CASE HookRestart
    BY <2>6 DEF HookRestart, HookTypeOK, CallsOfEvents, AwaitRetry
  <2>7. CASE UNCHANGED hookVars
    BY <2>7 DEF hookVars, HookTypeOK, CallsOfEvents, AwaitRetry, Automatic
  <2>8. QED
    BY <2>1, <2>2, <2>3, <2>4, <2>5, <2>6, <2>7 DEF HookNext, HookAnswer
<1>3. QED
  BY <1>1, <1>2, PTL DEF HookSpec

\* Every step of a webhook keeps its state well formed.
THEOREM HookTypeCorrect == HookSpec => []HookTypeOK
<1>1. HookInv => HookTypeOK
  BY DEF HookInv
<1>2. QED
  BY <1>1, HookInvHolds, PTL

-----------------------------------------------------------------------------
\* The last attempt of an event finds a failure for every attempt before it, and
\* its own makes the count complete.
LEMMA CutStep == HookInv /\ Cut /\ [HookNext]_hookVars => Cut'
<1> SUFFICES ASSUME HookInv, Cut, [HookNext]_hookVars, Unanswered' PROVE Cut'
  BY DEF Cut
<1> USE DEF HookInv
<1>1. CASE \E e \in Event : Fire(e)
  BY <1>1 DEF Fire, Post, Cut, Unanswered, AttemptsCounted, AwaitRetry, HookTypeOK, Automatic
<1>2. ASSUME NEW j \in Job, ReadDue(j) PROVE Cut'
  <2>1. PICK due \in SUBSET AwaitRetry :
          /\ rows' = Cleared(due)
          /\ claimed' = [claimed EXCEPT ![j] =
               {[event |-> r.event, attempt |-> r.attempt + 1] : r \in due}]
    BY <1>2 DEF ReadDue
  <2>2. Unanswered /\ failures' = failures
    BY <1>2 DEF ReadDue, Unanswered
  <2>3. \A r \in due : r \in Delivery /\ r.attempt \in Nat /\ failures > r.attempt
    BY <2>2 DEF HookTypeOK, Delivery, AwaitRetry, Cut, AttemptsCounted
  <2>4. \A r \in {[d EXCEPT !.retry = FALSE] : d \in due} : ~ r.retry
    BY <2>3 DEF Delivery
  <2>5. \A r \in rows' : r.retry => r \in AwaitRetry
    BY <2>1, <2>4 DEF Cleared, AwaitRetry
  <2>6. \A i \in Job : \A a \in claimed'[i] : failures' >= a.attempt
    BY <2>1, <2>2, <2>3 DEF HookTypeOK, Cut, AttemptsCounted
  <2>7. QED
    BY <1>2, <2>2, <2>5, <2>6 DEF ReadDue, Cut, AttemptsCounted, AwaitRetry, Automatic
<1>3. CASE \E j \in Job : Repost(j)
  BY <1>3 DEF Repost, Post, Cut, Unanswered, AttemptsCounted, AwaitRetry, HookTypeOK, Automatic
<1>4. ASSUME NEW c \in calls, NEW ok \in BOOLEAN, Answer(c, ok) PROVE Cut'
  <2>0. ~ answered
    <3>1. ~ answered' /\ (answered' = answered \/ answered' = (answered \/ ok))
      BY <1>4, Zenon DEF Answer, AutomaticAnswer, Unanswered
    <3>2. QED
      BY <3>1, Zenon
  <2>1. Unanswered /\ webhook # "deleted" /\ calls' \subseteq calls /\ c \in Call
    BY <1>4, <2>0 DEF Answer, Unanswered, Cut, HookTypeOK
  <2>2. AttemptsCounted /\ (givenUp # {} => webhook = "off")
    BY <2>1 DEF Cut
  <2>3. CASE Automatic(c) /\ AutomaticAnswer(c, ok)
    <3>1. ~ ok /\ failures' = failures + 1 /\ failures >= c.attempt
      BY <2>2, <2>3 DEF AutomaticAnswer, FailuresAfter, Unanswered, AttemptsCounted
    <3>2. c.attempt \in Nat /\ failures \in Nat
      BY <2>1 DEF HookTypeOK, Call
    <3> DEFINE again == ~ ok /\ ~ c.attempt >= MaxAttempts - 1
    <3>3. Log(c, again) /\ again \in BOOLEAN
      BY <2>3 DEF AutomaticAnswer
    <3>4. \A r \in rows' : r.retry => r \in AwaitRetry \/ r.attempt = c.attempt
      <4> HIDE DEF again
      <4> QED  BY <3>3, LogTyped DEF AwaitRetry
    <3>5. \A r \in rows' : r.retry => failures' > r.attempt
      <4>1. \A r \in AwaitRetry : r.attempt \in Nat /\ failures > r.attempt
        BY <2>2 DEF AttemptsCounted, AwaitRetry, HookTypeOK, Delivery
      <4>2. QED
        BY <3>1, <3>2, <3>4, <4>1
    <3>6. /\ \A j \in Job : \A a \in claimed'[j] : failures' >= a.attempt
          /\ \A d \in calls' : Automatic(d) => failures' >= d.attempt
      BY <1>4, <2>1, <2>2, <3>1, <3>2
      DEF Answer, AttemptsCounted, HookTypeOK, Attempt, Call, Automatic
    <3>7. givenUp' # {} => webhook' = "off"
      <4>1. CASE c.attempt >= MaxAttempts - 1
        <5>1. MaxAttempts \in Nat /\ failures' >= MaxAttempts
          BY <3>1, <3>2, <4>1, HookAssumption DEF HookAssumption
        <5>2. QED
          BY <2>3, <3>1, <4>1, <5>1 DEF AutomaticAnswer
      <4>2. CASE ~ c.attempt >= MaxAttempts - 1
        BY <2>2, <2>3, <4>2 DEF AutomaticAnswer
      <4>3. QED
        BY <4>1, <4>2
    <3>8. webhook' # "deleted"
      BY <2>1, <2>3 DEF AutomaticAnswer
    <3>9. QED
      BY <3>5, <3>6, <3>7, <3>8 DEF Cut, AttemptsCounted, AwaitRetry, Automatic
  <2>4. CASE /\ ~ Automatic(c) /\ Log(c, FALSE)
             /\ UNCHANGED <<webhook, failures, taken, givenUp, answered>>
    <3>1. \A r \in rows' : r.retry => r \in AwaitRetry
      BY <2>4, LogTyped DEF AwaitRetry
    <3>2. QED
      BY <1>4, <2>1, <2>2, <2>4, <3>1 DEF Answer, Cut, AttemptsCounted, AwaitRetry, Automatic
  <2>5. QED
    BY <1>4, <2>1, <2>3, <2>4 DEF Answer
<1>5. CASE HookRequest
  BY <1>5 DEF HookRequest, Update, Delete, Test, RetryByHand, PostByHand, Requests, Unanswered, HookTypeOK
<1>6. CASE HookRestart
  BY <1>6 DEF HookRestart, Cut, Unanswered, AttemptsCounted, AwaitRetry
<1>7. CASE UNCHANGED hookVars
  BY <1>7 DEF hookVars, Cut, Unanswered, AttemptsCounted, AwaitRetry, Automatic
<1>8. QED
  BY <1>1, <1>2, <1>3, <1>4, <1>5, <1>6, <1>7 DEF HookNext, HookAnswer

\* DeadReceiverIsCut: without one answer, the webhook is off as soon as an event
\* is given up.
THEOREM DeadReceiverIsCutHolds == HookSpec => []DeadReceiverIsCut
<1>1. HookInit => Cut
  BY DEF HookInit, Cut, AttemptsCounted, AwaitRetry
<1>2. Cut => DeadReceiverIsCut
  BY DEF Cut, Unanswered, DeadReceiverIsCut
<1>3. QED
  BY <1>1, <1>2, CutStep, HookInvHolds, PTL DEF HookSpec

-----------------------------------------------------------------------------
(* Where the attempt at an event is, as three predicates: no set is counted*)
(* before the end.                                                         *)
Waits(e, r) == r \in rows /\ r.retry /\ r.event = e
Claims(e, j, a) == j \in Job /\ a \in claimed[j] /\ a.event = e
Calls(e, c) == c \in calls /\ Automatic(c) /\ c.event = e

NoWait(e) == \A r : ~ Waits(e, r)
NoClaim(e) == \A j, a : ~ Claims(e, j, a)
NoCall(e) == \A c : ~ Calls(e, c)

OnlyWaits(e) ==
  /\ \E r : Waits(e, r) /\ \A q : Waits(e, q) => q = r
  /\ NoClaim(e) /\ NoCall(e)
OnlyClaimed(e) ==
  /\ \E j, a : Claims(e, j, a) /\ \A i, b : Claims(e, i, b) => i = j /\ b = a
  /\ NoWait(e) /\ NoCall(e)
OnlyCalled(e) ==
  /\ \E c : Calls(e, c) /\ \A d : Calls(e, d) => d = c
  /\ NoWait(e) /\ NoClaim(e)
Nowhere(e) == NoWait(e) /\ NoClaim(e) /\ NoCall(e)
Somewhere(e) == OnlyWaits(e) \/ OnlyClaimed(e) \/ OnlyCalled(e)

Linked(e) == IF e \in taken \cup givenUp THEN Nowhere(e) ELSE Somewhere(e)

Whole == crashes = 0 /\ webhook # "deleted"
Chain == Whole => \A e \in fired \ dropped : Linked(e)

\* What the log does to the rows of an event that is not dropped: it adds the
\* one that waits for its retry, and takes none.
LEMMA LogKeeps ==
  ASSUME HookTypeOK, NEW c \in calls, NEW retry \in BOOLEAN, Log(c, retry),
         NEW e, e \notin dropped'
  PROVE  \E row : /\ row.event = c.event /\ row.retry = retry
                  /\ dropped \subseteq dropped'
                  /\ \A r : (r \in rows' /\ r.retry /\ r.event = e) <=>
                            \/ Waits(e, r)
                            \/ retry /\ e = c.event /\ r = row
<1> DEFINE row == [id |-> lastId + 1, event |-> c.event, attempt |-> c.attempt, retry |-> retry]
           all == rows \cup {row}
<1>1. row.retry = retry /\ row.event = c.event
  OBVIOUS
<1>2. PICK old \in IF Cardinality(all) > Keep THEN {{r} : r \in all} ELSE {{}} :
        /\ rows' = all \ old
        /\ dropped' = dropped \cup {r.event : r \in {q \in old : q.retry}}
  BY DEF Log
<1> HIDE DEF row
<1>3. \A r \in old : r.retry => r.event # e
  BY <1>2
<1>4. ASSUME NEW r
      PROVE  (r \in rows' /\ r.retry /\ r.event = e) <=> Waits(e, r) \/ (retry /\ e = c.event /\ r = row)
  <2>1. r \in rows' <=> (r \in rows \/ r = row) /\ r \notin old
    BY <1>2
  <2>2. r = row => (r.retry <=> retry) /\ r.event = c.event
    BY <1>1
  <2> QED
    BY <1>3, <2>1, <2>2 DEF Waits
<1>5. dropped \subseteq dropped'
  BY <1>2
<1> QED
  BY <1>1, <1>4, <1>5

\* An event none of whose places changes keeps its link.
LEMMA Untroubled ==
  ASSUME NEW e, Linked(e), e \in (taken \cup givenUp)' <=> e \in taken \cup givenUp,
         \A r : Waits(e, r)' <=> Waits(e, r),
         \A j, a : Claims(e, j, a)' <=> Claims(e, j, a),
         \A c : Calls(e, c)' <=> Calls(e, c)
  PROVE  Linked(e)'
<1>1. /\ NoWait(e)' <=> NoWait(e)
      /\ NoClaim(e)' <=> NoClaim(e)
      /\ NoCall(e)' <=> NoCall(e)
  BY DEF NoWait, NoClaim, NoCall
<1>2. OnlyWaits(e) => OnlyWaits(e)'
  BY <1>1 DEF OnlyWaits
<1>3. OnlyClaimed(e) => OnlyClaimed(e)'
  BY <1>1 DEF OnlyClaimed
<1>4. OnlyCalled(e) => OnlyCalled(e)'
  BY <1>1 DEF OnlyCalled
<1> QED
  BY <1>1, <1>2, <1>3, <1>4 DEF Linked, Nowhere, Somewhere

LEMMA ChainStep == HookInv /\ Chain /\ [HookNext]_hookVars => Chain'
<1> SUFFICES ASSUME HookInv, Chain, [HookNext]_hookVars, Whole', NEW e \in (fired \ dropped)'
             PROVE  Linked(e)'
  BY DEF Chain
<1>0. HookTypeOK /\ CallsOfEvents /\ crashes \in Nat
  BY DEF HookInv, HookTypeOK
<1> DEFINE Same == /\ \A r : Waits(e, r)' <=> Waits(e, r)
                   /\ \A j, a : Claims(e, j, a)' <=> Claims(e, j, a)
                   /\ \A c : Calls(e, c)' <=> Calls(e, c)
                   /\ e \in (taken \cup givenUp)' <=> e \in taken \cup givenUp
<1>1. ASSUME Whole, e \in fired \ dropped PROVE Linked(e)
  BY <1>1 DEF Chain
<1>2. ASSUME Same, Whole, e \in fired \ dropped PROVE Linked(e)'
  BY <1>1, <1>2, Untroubled
<1>3. ASSUME NEW f \in Event, Fire(f) PROVE Linked(e)'
  <2>1. Whole /\ (e = f \/ e \in fired \ dropped) /\ f \notin fired
    BY <1>3 DEF Fire, Whole
  <2> DEFINE d == [event |-> f, attempt |-> 0, by |-> Bus, nth |-> 0]
  <2>2. d.event = f /\ Automatic(d) /\ calls' = calls \cup {d}
    BY <1>3, HookAssumption DEF Fire, Post, Automatic
  <2> HIDE DEF d
  <2>3. /\ UNCHANGED <<rows, claimed, taken, givenUp>>
        /\ taken \subseteq fired /\ givenUp \subseteq fired
    BY <1>0, <1>3 DEF Fire, HookTypeOK
  <2>4. CASE e = f
    <3>1. Nowhere(e) /\ e \notin (taken \cup givenUp)'
      BY <1>0, <2>1, <2>3, <2>4 DEF Nowhere, NoWait, NoClaim, NoCall, Waits, Claims, Calls, CallsOfEvents, AwaitRetry
    <3>2. NoWait(e)' /\ NoClaim(e)'
      BY <2>3, <3>1 DEF Nowhere, NoWait, NoClaim, Waits, Claims
    <3>3. \A c : Calls(e, c)' <=> c = d
      BY <2>2, <2>4, <3>1 DEF Nowhere, NoCall, Calls, Automatic
    <3>4. OnlyCalled(e)'
      BY <3>2, <3>3 DEF OnlyCalled
    <3> QED
      BY <3>1, <3>4 DEF Linked, Somewhere
  <2>5. CASE e # f
    <3>1. Same
      BY <2>2, <2>3, <2>5 DEF Waits, Claims, Calls, Automatic
    <3> QED
      BY <1>2, <2>1, <2>5, <3>1
  <2> QED
    BY <2>4, <2>5
<1>4. ASSUME NEW j \in Job, ReadDue(j) PROVE Linked(e)'
  <2>1. /\ Whole /\ e \in fired \ dropped /\ claimed[j] = {}
        /\ UNCHANGED <<calls, taken, givenUp>> /\ claimed \in [Job -> SUBSET Attempt]
    BY <1>0, <1>4 DEF ReadDue, Whole, HookTypeOK
  <2>2. PICK due \in SUBSET AwaitRetry :
          /\ rows' = Cleared(due)
          /\ claimed' = [claimed EXCEPT ![j] =
               {[event |-> r.event, attempt |-> r.attempt + 1] : r \in due}]
    BY <1>4 DEF ReadDue
  <2>3. \A r \in {[q EXCEPT !.retry = FALSE] : q \in due} : ~ r.retry
    <3>1. \A q \in due : q \in Delivery
      BY <1>0 DEF HookTypeOK, AwaitRetry
    <3> QED
      BY <3>1 DEF Delivery
  <2>4. \A r : Waits(e, r)' <=> Waits(e, r) /\ r \notin due
    BY <2>2, <2>3 DEF Cleared, Waits
  <2>5. \A i, a : Claims(e, i, a)' <=>
          \/ Claims(e, i, a)
          \/ i = j /\ \E r \in due : r.event = e /\ a = [event |-> r.event, attempt |-> r.attempt + 1]
    BY <2>1, <2>2 DEF Claims
  <2>6. \A c : Calls(e, c)' <=> Calls(e, c)
    BY <2>1 DEF Calls, Automatic
  <2>7. CASE \A r \in due : r.event # e
    <3>1. Same
      BY <2>1, <2>4, <2>5, <2>6, <2>7 DEF Waits
    <3> QED
      BY <1>2, <2>1, <3>1
  <2>8. ASSUME NEW r \in due, r.event = e PROVE Linked(e)'
    <3>1. Waits(e, r)
      BY <2>8 DEF Waits, AwaitRetry
    <3>2. e \notin taken \cup givenUp /\ OnlyWaits(e)
      BY <1>1, <2>1, <3>1 DEF Linked, Nowhere, Somewhere, NoWait, OnlyClaimed, OnlyCalled
    <3>3. \A q : Waits(e, q) => q = r
      BY <3>1, <3>2 DEF OnlyWaits
    <3>4. NoWait(e)' /\ NoCall(e)'
      BY <2>4, <2>6, <2>8, <3>2, <3>3 DEF OnlyWaits, NoWait, NoCall
    <3> DEFINE b == [event |-> r.event, attempt |-> r.attempt + 1]
    <3>5. \A q \in due : q.event = e => q = r
      BY <3>3 DEF Waits, AwaitRetry
    <3>6. \A i, a : Claims(e, i, a)' <=> i = j /\ a = b
      BY <2>5, <2>8, <3>2, <3>5 DEF OnlyWaits, NoClaim
    <3> HIDE DEF b
    <3>7. OnlyClaimed(e)'
      BY <3>4, <3>6 DEF OnlyClaimed
    <3> QED
      BY <2>1, <3>2, <3>7 DEF Linked, Somewhere
  <2> QED
    BY <2>7, <2>8
<1>5. ASSUME NEW j \in Job, Repost(j) PROVE Linked(e)'
  <2>1. /\ Whole /\ e \in fired \ dropped
        /\ UNCHANGED <<rows, taken, givenUp>> /\ claimed \in [Job -> SUBSET Attempt]
    BY <1>0, <1>5 DEF Repost, Whole, HookTypeOK
  <2>2. PICK a \in claimed[j] : /\ claimed' = [claimed EXCEPT ![j] = @ \ {a}]
                                /\ Post(a.event, a.attempt, j, 0)
    BY <1>5 DEF Repost
  <2> DEFINE d == [event |-> a.event, attempt |-> a.attempt, by |-> j, nth |-> 0]
  <2>3. d.event = a.event /\ Automatic(d) /\ calls' = calls \cup {d}
    BY <2>2, HookAssumption DEF Post, Automatic
  <2> HIDE DEF d
  <2>4. \A r : Waits(e, r)' <=> Waits(e, r)
    BY <2>1 DEF Waits
  <2>5. \A i, b : Claims(e, i, b)' <=> Claims(e, i, b) /\ ~ (i = j /\ b = a)
    BY <2>1, <2>2 DEF Claims
  <2>6. \A c : Calls(e, c)' <=> Calls(e, c) \/ (e = a.event /\ c = d)
    BY <2>3 DEF Calls, Automatic
  <2>7. CASE e # a.event
    <3>1. Same
      BY <2>1, <2>4, <2>5, <2>6, <2>7 DEF Claims
    <3> QED
      BY <1>2, <2>1, <3>1
  <2>8. CASE e = a.event
    <3>1. Claims(e, j, a)
      BY <2>8 DEF Claims
    <3>2. e \notin taken \cup givenUp /\ OnlyClaimed(e)
      BY <1>1, <2>1, <3>1 DEF Linked, Nowhere, Somewhere, NoClaim, OnlyWaits, OnlyCalled
    <3>3. NoWait(e)' /\ NoClaim(e)'
      BY <2>4, <2>5, <3>1, <3>2 DEF OnlyClaimed, NoWait, NoClaim
    <3>4. \A c : Calls(e, c)' <=> c = d
      BY <2>6, <2>8, <3>2 DEF OnlyClaimed, NoCall
    <3>5. OnlyCalled(e)'
      BY <3>3, <3>4 DEF OnlyCalled
    <3> QED
      BY <2>1, <3>2, <3>5 DEF Linked, Somewhere
  <2> QED
    BY <2>7, <2>8
<1>6. ASSUME NEW c \in calls, NEW ok \in BOOLEAN, Answer(c, ok) PROVE Linked(e)'
  <2>1. /\ calls' = calls \ {c} /\ UNCHANGED <<claimed, fired, crashes>> /\ e \in fired
    BY <1>6 DEF Answer
  <2>2. webhook # "deleted"
    BY <1>6 DEF Answer, Whole
  <2>3. Whole
    BY <2>1, <2>2 DEF Whole
  <2>4. \A i, b : Claims(e, i, b)' <=> Claims(e, i, b)
    BY <2>1 DEF Claims
  <2>5. \A d : Calls(e, d)' <=> Calls(e, d) /\ d # c
    BY <2>1 DEF Calls, Automatic
  <2>6. CASE ~ Automatic(c) /\ Log(c, FALSE) /\ UNCHANGED <<taken, givenUp>>
    <3>1. PICK row : /\ dropped \subseteq dropped'
                     /\ \A r : (r \in rows' /\ r.retry /\ r.event = e) <=> Waits(e, r)
      BY <1>0, <2>6, LogKeeps
    <3>2. Same
      BY <2>4, <2>5, <2>6, <3>1 DEF Waits, Calls
    <3> QED
      BY <1>2, <2>1, <2>3, <3>1, <3>2
  <2>7. CASE Automatic(c) /\ AutomaticAnswer(c, ok)
    <3> DEFINE last == c.attempt >= MaxAttempts - 1
               again == ~ ok /\ ~ last
    <3>1. /\ Log(c, again) /\ again \in BOOLEAN
          /\ taken' = IF ok THEN taken \cup {c.event} ELSE taken
          /\ givenUp' = IF ~ ok /\ last THEN givenUp \cup {c.event} ELSE givenUp
      BY <2>7 DEF AutomaticAnswer
    <3>2. (c.event \in (taken \cup givenUp)') <=> (~ again \/ c.event \in taken \cup givenUp)
      BY <3>1
    <3>3. c.event # e => (e \in (taken \cup givenUp)' <=> e \in taken \cup givenUp)
      BY <3>1
    <3> HIDE DEF again
    <3>4. PICK row : /\ row.event = c.event /\ row.retry = again
                     /\ dropped \subseteq dropped'
                     /\ \A r : (r \in rows' /\ r.retry /\ r.event = e) <=>
                               \/ Waits(e, r)
                               \/ again /\ e = c.event /\ r = row
      <4>1. Log(c, again) /\ again \in BOOLEAN /\ e \notin dropped' /\ HookTypeOK
        BY <1>0, <3>1
      <4> QED
        BY <4>1, LogKeeps
    <3>5. /\ \A r : Waits(e, r)' <=> Waits(e, r) \/ (again /\ e = c.event /\ r = row)
          /\ e \in fired \ dropped
      BY <2>1, <3>4 DEF Waits
    <3>6. CASE c.event # e
      <4>1. Same
        BY <2>4, <2>5, <3>3, <3>5, <3>6 DEF Calls
      <4> QED
        BY <1>2, <2>3, <3>5, <4>1
    <3>7. CASE c.event = e
      <4>1. Calls(e, c)
        BY <2>7, <3>7 DEF Calls
      <4>2. e \notin taken \cup givenUp /\ OnlyCalled(e)
        BY <1>1, <2>3, <3>5, <4>1 DEF Linked, Nowhere, Somewhere, NoCall, OnlyWaits, OnlyClaimed
      <4>3. NoClaim(e)' /\ NoCall(e)'
        BY <2>4, <2>5, <4>1, <4>2 DEF OnlyCalled, NoClaim, NoCall
      <4>4. CASE again
        <5>1. \A r : Waits(e, r)' <=> r = row
          BY <3>5, <3>7, <4>2, <4>4 DEF OnlyCalled, NoWait
        <5>2. OnlyWaits(e)'
          BY <4>3, <5>1 DEF OnlyWaits
        <5>3. e \notin (taken \cup givenUp)'
          BY <3>2, <3>7, <4>2, <4>4
        <5> QED
          BY <5>2, <5>3 DEF Linked, Somewhere
      <4>5. CASE ~ again
        <5>1. NoWait(e)'
          BY <3>5, <4>2, <4>5 DEF OnlyCalled, NoWait
        <5>2. e \in (taken \cup givenUp)'
          BY <3>2, <3>7, <4>5
        <5> QED
          BY <4>3, <5>1, <5>2 DEF Linked, Nowhere
      <4> QED
        BY <4>4, <4>5
    <3> QED
      BY <3>6, <3>7
  <2> QED
    BY <1>6, <2>2, <2>6, <2>7 DEF Answer
<1>7. CASE HookRequest
  <2>1. webhook # "deleted" /\ UNCHANGED <<crashes, fired, dropped, taken, givenUp, claimed>>
    BY <1>7 DEF HookRequest, Update, Delete, Test, RetryByHand, PostByHand, Requests
  <2>2. UNCHANGED rows
    BY <1>7 DEF HookRequest, Update, Delete, Test, RetryByHand, PostByHand, Whole
  <2>3. \A c : Automatic(c) => (c \in calls' <=> c \in calls)
    BY <1>7 DEF HookRequest, Update, Delete, Test, RetryByHand, PostByHand, Post, Automatic
  <2>4. Same
    BY <2>1, <2>2, <2>3 DEF Waits, Claims, Calls, Automatic
  <2>5. Whole /\ e \in fired \ dropped
    BY <2>1 DEF Whole
  <2> QED
    BY <1>2, <2>4, <2>5
<1>8. CASE HookRestart
  BY <1>0, <1>8 DEF HookRestart, Whole
<1>9. CASE UNCHANGED hookVars
  <2>1. Same /\ Whole /\ e \in fired \ dropped
    BY <1>9 DEF hookVars, Waits, Claims, Calls, Automatic, Whole
  <2> QED
    BY <1>2, <2>1
<1> HIDE DEF Same
<1> QED
  BY <1>3, <1>4, <1>5, <1>6, <1>7, <1>8, <1>9 DEF HookNext, HookAnswer

\* One place, whatever it is, is one element of Live.
LEMMA Places ==
  ASSUME NEW e
  PROVE  /\ Nowhere(e) => Cardinality(Live(e)) = 0
         /\ Somewhere(e) => Cardinality(Live(e)) = 1
<1> DEFINE W == {<<"waiting", r.id>> : r \in {q \in AwaitRetry : q.event = e}}
           K == {<<"claimed", j>> : j \in {i \in Job : \E a \in claimed[i] : a.event = e}}
           C == {<<"calling", c.by>> : c \in {d \in calls : Automatic(d) /\ d.event = e}}
<1>1. Live(e) = W \cup K \cup C
  BY DEF Live
<1>2. /\ NoWait(e) => W = {}
      /\ NoClaim(e) => K = {}
      /\ NoCall(e) => C = {}
  BY DEF NoWait, NoClaim, NoCall, Waits, Claims, Calls, AwaitRetry
<1>3. /\ OnlyWaits(e) => \E x : W = {x}
      /\ OnlyClaimed(e) => \E x : K = {x}
      /\ OnlyCalled(e) => \E x : C = {x}
  <2>1. ASSUME OnlyWaits(e) PROVE \E x : W = {x}
    <3>1. PICK r : Waits(e, r) /\ \A q : Waits(e, q) => q = r
      BY <2>1 DEF OnlyWaits
    <3>2. {q \in AwaitRetry : q.event = e} = {r}
      BY <3>1 DEF Waits, AwaitRetry
    <3>3. W = {<<"waiting", r.id>>}
      BY <3>2
    <3> QED
      BY <3>3
  <2>2. ASSUME OnlyClaimed(e) PROVE \E x : K = {x}
    <3>1. PICK j, a : Claims(e, j, a) /\ \A i, b : Claims(e, i, b) => i = j /\ b = a
      BY <2>2 DEF OnlyClaimed
    <3>2. {i \in Job : \E b \in claimed[i] : b.event = e} = {j}
      BY <3>1 DEF Claims
    <3>3. K = {<<"claimed", j>>}
      BY <3>2
    <3> QED
      BY <3>3
  <2>3. ASSUME OnlyCalled(e) PROVE \E x : C = {x}
    <3>1. PICK c : Calls(e, c) /\ \A d : Calls(e, d) => d = c
      BY <2>3 DEF OnlyCalled
    <3>2. {d \in calls : Automatic(d) /\ d.event = e} = {c}
      BY <3>1 DEF Calls
    <3>3. C = {<<"calling", c.by>>}
      BY <3>2
    <3> QED
      BY <3>3
  <2> QED
    BY <2>1, <2>2, <2>3
<1> HIDE DEF W, K, C
<1>4. Nowhere(e) => Live(e) = {}
  BY <1>1, <1>2 DEF Nowhere
<1>5. Somewhere(e) => \E x : Live(e) = {x}
  BY <1>1, <1>2, <1>3 DEF Somewhere, OnlyWaits, OnlyClaimed, OnlyCalled
<1>6. ASSUME Nowhere(e) PROVE Cardinality(Live(e)) = 0
  BY <1>4, <1>6, FS_EmptySet
<1>7. ASSUME Somewhere(e) PROVE Cardinality(Live(e)) = 1
  <2>1. PICK x : Live(e) = {x}
    BY <1>5, <1>7
  <2> QED
    BY <2>1, FS_Singleton
<1> QED
  BY <1>6, <1>7

\* ChainUnbroken: while nothing restarts, nobody removes the webhook and the
\* history has room, an event that is not settled has exactly one attempt left,
\* and a settled one none, for any number of overlapping runs of the retry job.
THEOREM ChainUnbrokenHolds == HookSpec => []ChainUnbroken
<1>1. HookInit => Chain
  BY DEF HookInit, Chain
<1>2. Chain => ChainUnbroken
  BY Places DEF Chain, Whole, Linked, ChainUnbroken
<1>3. QED
  BY <1>1, <1>2, ChainStep, HookInvHolds, PTL DEF HookSpec
=============================================================================
