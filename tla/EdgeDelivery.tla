----------------------------- MODULE EdgeDelivery -----------------------------
(***************************************************************************)
(* The cloud relay (EdgeRelay) and the mailbox of one edge Runtime         *)
(* (LocalMailbox) with the HTTP between them: lease/route.ts,              *)
(* [id]/ack/route.ts and [id]/fail/route.ts on one side, centerRequest and *)
(* edgeUpstreamFetch on the other.                                         *)
(*                                                                         *)
(* A drain whose phase is "pull" or a flush has one request under way.     *)
(* The relay handles it at some moment, and its answer comes back or is    *)
(* lost.  A request that its drain gave up (connection error, dead         *)
(* process) may still be handled later: it is then in stray.               *)
(*                                                                         *)
(* Nothing here reads the watch event a reply names: what operators do to  *)
(* it is left to EdgeRelay and HumanWatch, and no one answers it here.     *)
(***************************************************************************)
EXTENDS Naturals, FiniteSets, SequencesExt

CONSTANTS
  Message, Client, Workspace, Owner, Key, NoKey, Nobody, Envelope, Trim,
  Limits, Filters, AttemptCap,                    \* of EdgeRelay
  Drain, QueryLimit, RunCap, CrashCap,            \* of LocalMailbox
  Edge,       \* the client id of the Runtime
  LeaseOwner, \* the lease_owner it sends
  StrayCap    \* requests that may be under way without a drain

VARIABLES
  status, owner, attempts, born, second, lapsed, backoff, home, event, audit,
  inbox, received, stamp, exec, outbox, active, drain, effects, crashes,
  answer,   \* the answer to the request of each drain
  stray     \* requests nobody waits for

relayVars == <<status, owner, attempts, born, second, lapsed, backoff, home, event, audit>>
boxVars == <<inbox, received, stamp, exec, outbox, active, drain, effects, crashes>>
vars == <<relayVars, boxVars, answer, stray>>

Relay == INSTANCE EdgeRelay WITH Askers <- 0
Box == INSTANCE LocalMailbox

ASSUME RelayAssumptions ==
  /\ Relay!MessageAssumption /\ Relay!EnvelopeAssumption /\ Relay!KeyAssumption
  /\ Relay!OwnerAssumption /\ Relay!LimitAssumption /\ Relay!CapAssumption
ASSUME BoxAssumptions == Box!MessageAssumption /\ Box!BoundAssumption
ASSUME EdgeAssumption == Edge \in Client /\ LeaseOwner \in Owner /\ StrayCap \in Nat

NoAnswer == [given |-> FALSE, ok |-> FALSE, got |-> {}]
Pull == [action |-> "pull", msg |-> NoKey, retryable |-> FALSE]

TypeOK ==
  /\ Relay!TypeOK /\ Box!TypeOK
  /\ answer \in [Drain -> [given: BOOLEAN, ok: BOOLEAN, got: SUBSET Message]]
  /\ stray \subseteq {Pull} \cup [action: {"ack", "fail"}, msg: Message, retryable: BOOLEAN]
  /\ Cardinality(stray) <= StrayCap

Init ==
  /\ Relay!Init /\ Box!Init
  /\ answer = [d \in Drain |-> NoAnswer]
  /\ stray = {}

-----------------------------------------------------------------------------
Asking(d) == drain[d].phase \in {"flush1", "pull", "flush2"}

RequestOf(d) ==
  IF drain[d].phase = "pull" THEN Pull
  ELSE LET row == outbox[Head(drain[d].rows)]
       IN  [action |-> row.action, msg |-> row.msg, retryable |-> row.retryable]

\* The lease route, with the fixed arguments of pullMailboxMessages.
ServePull == \E n \in Limits, w \in Workspace, filter \in Filters :
               Relay!Lease(Edge, LeaseOwner, n, w, filter)

\* The rows a lease call handed out.
Leased == {m \in Message : Relay!Swept(Edge)[m] # "leased" /\ status'[m] = "leased"}

\* The ack and fail routes.  The mailbox names no lease owner and no
\* next_attempt_at, and reports success only for a delivered prompt.
Accepts(r) == Relay!HoldsLease(r.msg, Nobody) /\ Relay!OwnsWorkspace(r.msg)

\* Mutant: the fail route completes the message.
FailCompletes(r) == Relay!Ack(r.msg, Nobody, TRUE)

ServeReceipt(r) ==
  \/ r.action = "ack" /\ Relay!Ack(r.msg, Nobody, TRUE)
  \/ r.action = "fail" /\ Relay!Fail(r.msg, Nobody, r.retryable, FALSE)

Serve(d) ==
  /\ Asking(d) /\ ~ answer[d].given
  /\ LET r == RequestOf(d)
         Answer(ok, got) == answer' = [answer EXCEPT ![d] = [given |-> TRUE, ok |-> ok, got |-> got]]
     IN  \/ r = Pull /\ ServePull /\ Answer(TRUE, Leased)
         \/ r # Pull /\ ServeReceipt(r) /\ Answer(TRUE, {})
         \/ r # Pull /\ ~ Accepts(r) /\ Answer(FALSE, {}) /\ UNCHANGED relayVars
  /\ UNCHANGED <<boxVars, stray>>

ServeStray(r) ==
  /\ \/ r = Pull /\ ServePull
     \/ r # Pull /\ ServeReceipt(r)
     \/ r # Pull /\ ~ Accepts(r) /\ UNCHANGED relayVars
  /\ stray' = stray \ {r}
  /\ UNCHANGED <<boxVars, answer>>

\* The drain goes on with what it was told.
Resume(d, ok, got) ==
  \/ drain[d].phase = "pull" /\ Box!PullDone(d, got)
  \/ drain[d].phase # "pull" /\ Box!PostDone(d, ok)

Receive(d) ==
  /\ Asking(d) /\ answer[d].given
  /\ Resume(d, answer[d].ok, answer[d].got)
  /\ answer' = [answer EXCEPT ![d] = NoAnswer]
  /\ UNCHANGED <<relayVars, stray>>

\* Mutant: a broken connection counts as an answer.
LostAsDone(d) ==
  /\ Asking(d)
  /\ Resume(d, TRUE, {})
  /\ answer' = [answer EXCEPT ![d] = NoAnswer]
  /\ UNCHANGED <<relayVars, stray>>

\* The connection breaks: the request or its answer is lost, or the request
\* is handled when nobody listens any more.
Lose(d) ==
  /\ Asking(d)
  /\ stray' \in {stray} \cup (IF answer[d].given THEN {} ELSE {stray \cup {RequestOf(d)}})
  /\ Cardinality(stray') <= StrayCap
  /\ Resume(d, FALSE, {})
  /\ answer' = [answer EXCEPT ![d] = NoAnswer]
  /\ UNCHANGED relayVars

\* edgeUpstreamFetch repeats a request after any "fetch failed", also one
\* that the relay has handled.
Resend(d) ==
  /\ Asking(d) /\ answer[d].given
  /\ answer' = [answer EXCEPT ![d] = NoAnswer]
  /\ UNCHANGED <<relayVars, boxVars, stray>>

\* The Runtime dies with its requests under way.
Crash ==
  /\ Box!Crash
  /\ \E S \in SUBSET {d \in Drain : Asking(d) /\ ~ answer[d].given} :
       stray' = stray \cup {RequestOf(d) : d \in S}
  /\ Cardinality(stray') <= StrayCap
  /\ answer' = [d \in Drain |-> NoAnswer]
  /\ UNCHANGED relayVars

-----------------------------------------------------------------------------
EdgeStep(d) == Box!LocalStep(d) /\ UNCHANGED <<relayVars, answer, stray>>

RowDue == \E id \in DOMAIN outbox : Box!OutboxDue(id) /\ UNCHANGED <<relayVars, answer, stray>>

Offered(m) ==
  /\ \E delayed \in BOOLEAN : Relay!Create(m, delayed)
  /\ UNCHANGED <<boxVars, answer, stray>>

Cancelled(m) == Relay!Cancel(m) /\ UNCHANGED <<boxVars, answer, stray>>

Clock(m) ==
  /\ Relay!LeaseLapses(m) \/ Relay!BackoffEnds(m)
  /\ UNCHANGED <<boxVars, answer, stray>>

Next ==
  \/ \E d \in Drain : EdgeStep(d) \/ Serve(d) \/ Receive(d) \/ Lose(d) \/ Resend(d)
  \/ \E r \in stray : ServeStray(r)
  \/ \E m \in Message : Offered(m) \/ Cancelled(m) \/ Clock(m)
  \/ RowDue
  \/ Crash

Spec == Init /\ [][Next]_vars

PullServed(d) == drain[d].phase = "pull" /\ Serve(d)
PostServed(d) == drain[d].phase # "pull" /\ Serve(d)
PullAnswered(d) == drain[d].phase = "pull" /\ Receive(d)
MailArrives(d) == answer[d].got # {} /\ Receive(d)
PostAnswered(d) == drain[d].phase # "pull" /\ Receive(d)

\* Drains keep being started and never hang in the event loop, the relay
\* handles what reaches it, time passes, and the network is not dead for
\* ever: a pull that brings messages, and a receipt, get their answer
\* through if they are tried again and again.
Fairness ==
  /\ \A d \in Drain :
       /\ SF_vars(EdgeStep(d))
       /\ SF_vars(PullServed(d)) /\ SF_vars(PostServed(d))
       /\ SF_vars(PullAnswered(d)) /\ SF_vars(MailArrives(d)) /\ SF_vars(PostAnswered(d))
  /\ WF_vars(RowDue)
  /\ \A m \in Message : WF_vars(Clock(m))

FairSpec == Spec /\ Fairness

-----------------------------------------------------------------------------
\* The relay keeps a row for each tenant that uses a key, the Runtime one
\* record for the key: rows of different tenants with the same key are one
\* message to it.
Twin(m) ==
  {n \in Message : \/ n = m
                   \/ /\ Envelope[n].client = Envelope[m].client
                      /\ Envelope[n].idem = Envelope[m].idem
                      /\ Envelope[n].tenant # Envelope[m].tenant}

\* The whole chain keeps the promise of DeliveryContract through lost and
\* repeated requests, late receipts, lapsed leases, overlapping drains and
\* restarts of the Runtime.  Of a key that two tenants of one client use it
\* promises only that one of the messages ran.
Contract == INSTANCE DeliveryContract WITH
  Twins <- [m \in Message |-> Twin(m)],
  Session <- {m \in Message : Envelope[m].key # NoKey /\ Twin(m) = {m}},
  fate <- [m \in Message |->
             CASE status[m] = "absent" -> "none"
               [] status[m] = "completed" -> "delivered"
               [] status[m] \in {"dead_letter", "cancelled"} -> "dropped"
               [] OTHER -> "open"],
  ran <- effects

KeepsContract == Contract!Spec

\* An acknowledgement the edge believes delivered was taken by the center: no
\* drain marks a row as sent on somebody else's answer.
SentMeansCompleted ==
  \A i \in DOMAIN outbox :
    outbox[i].action = "ack" /\ outbox[i].state = "sent" => status[outbox[i].msg] = "completed"

\* Every message the relay holds for the edge is taken up and tried there,
\* however many pulls were lost on the way, unless it is cancelled.
EveryMessageTried ==
  \A m \in Message :
    status[m] = "pending" ~> inbox[m] \in {"completed", "failed"} \/ status[m] = "cancelled"

\* A message that ran is in the end reported as delivered.
EveryRunReported ==
  \A m \in Message :
    inbox[m] = "completed" ~> status[m] \in {"completed", "dead_letter", "cancelled"}

\* PRD section 4.1 and the relay's own test "marks retryable failure and
\* leases again after next_attempt_at": a retryable failure is tried again
\* until it succeeds or its attempts are used up.
RetriesSettle ==
  \A m \in Message :
    status[m] = "failed_retryable" ~> status[m] \in {"completed", "dead_letter", "cancelled"}
=============================================================================
