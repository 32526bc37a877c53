------------------------------ MODULE Webhooks ------------------------------
(***************************************************************************)
(* One outbound webhook of the center: webhooks.ts and the routes under    *)
(* api/webhooks.                                                           *)
(*                                                                         *)
(* An event is posted; each attempt becomes a row of webhook_deliveries,   *)
(* and a failed one carries the time of its retry.  A run of the retry job *)
(* takes the rows that are due, clears their times at once, and posts one  *)
(* after the other, waiting up to ten seconds for each answer.  Runs of    *)
(* the scheduler and runs started by hand may overlap.  After MAX_RETRIES  *)
(* attempts an event is given up and, if that many deliveries failed in a  *)
(* row, the webhook is disabled.                                           *)
(***************************************************************************)
EXTENDS Integers, FiniteSets

CONSTANTS
  Event,      \* events the webhook subscribes to
  Ping,       \* the event of the test route
  Bus, Hand,  \* who posts besides the jobs: an event, an administrator
  Job,        \* runs of processWebhookRetries that may overlap
  MaxAttempts, \* MAX_RETRIES, 5
  Keep,       \* deliveries kept, 200
  HandCap,    \* requests of administrators
  CrashCap    \* restarts of the center

ASSUME HookAssumption ==
  /\ Ping \notin Event
  /\ {MaxAttempts, Keep} \subseteq Nat \ {0} /\ {HandCap, CrashCap} \subseteq Nat
  /\ Hand \notin Job \cup {Bus}

VARIABLES
  webhook,  \* webhooks.enabled, or the row is deleted
  failures, \* webhooks.consecutive_failures
  rows,     \* webhook_deliveries; retry says that next_retry_at is set
  lastId,
  claimed,  \* what each run of the retry job has read and not posted yet
  calls,    \* the posts that wait for an answer, by whom they are made
  fired,    \* the events that were posted at all
  taken,    \* those an automatic post of which was answered with success
  givenUp,  \* those whose last attempt failed
  dropped,  \* those whose row was pruned while it waited for its retry
  answered, \* whether an automatic post ever succeeded
  requests, crashes

hookVars == <<webhook, failures, rows, lastId, claimed, calls, fired, taken, givenUp,
              dropped, answered, requests, crashes>>

Delivery == [id : Nat, event : Event \cup {Ping}, attempt : Nat, retry : BOOLEAN]
Attempt == [event : Event, attempt : Nat]
Call == [event : Event \cup {Ping}, attempt : Nat, by : Job \cup {Bus, Hand}, nth : Nat]

HookTypeOK ==
  /\ webhook \in {"on", "off", "deleted"}
  /\ failures \in Nat /\ lastId \in Nat
  /\ rows \subseteq Delivery
  /\ claimed \in [Job -> SUBSET Attempt]
  /\ calls \subseteq Call
  /\ fired \subseteq Event /\ taken \subseteq fired
  /\ givenUp \subseteq fired /\ dropped \subseteq fired
  /\ answered \in BOOLEAN
  /\ requests \in 0..HandCap /\ crashes \in 0..CrashCap

HookInit ==
  /\ webhook = "on" /\ failures = 0
  /\ rows = {} /\ lastId = 0
  /\ claimed = [j \in Job |-> {}] /\ calls = {}
  /\ fired = {} /\ taken = {} /\ givenUp = {} /\ dropped = {}
  /\ answered = FALSE /\ requests = 0 /\ crashes = 0

\* allowRetry: the posts of events and of the retry job count, those of
\* administrators do not.
Automatic(c) == c.by # Hand

Post(event, attempt, by, nth) ==
  calls' = calls \cup
    {[event |-> event, attempt |-> attempt, by |-> by, nth |-> nth]}

-----------------------------------------------------------------------------
\* fireWebhooksAsync: an event reaches the webhook while it is enabled.
Fire(e) ==
  /\ webhook = "on" /\ e \notin fired
  /\ fired' = fired \cup {e}
  /\ Post(e, 0, Bus, 0)
  /\ UNCHANGED <<webhook, failures, rows, lastId, claimed, taken, givenUp, dropped,
                 answered, requests, crashes>>

AwaitRetry == {r \in rows : r.retry}

\* Mutant: the time of a retry is cleared when its post is made.
Untouched(due) == rows

Cleared(due) == (rows \ due) \cup {[r EXCEPT !.retry = FALSE] : r \in due}

\* processWebhookRetries reads rows that are due, at most fifty, and clears
\* their times before it posts the first.
ReadDue(j) ==
  /\ webhook = "on"
  /\ claimed[j] = {} /\ \A c \in calls : c.by # j
  /\ \E due \in (SUBSET AwaitRetry) \ {{}} :
       /\ rows' = Cleared(due)
       /\ claimed' = [claimed EXCEPT ![j] =
            {[event |-> r.event, attempt |-> r.attempt + 1] : r \in due}]
  /\ UNCHANGED <<webhook, failures, lastId, calls, fired, taken, givenUp, dropped,
                 answered, requests, crashes>>

\* The run posts the next one, whatever became of the webhook meanwhile.
Repost(j) ==
  /\ \A c \in calls : c.by # j
  /\ \E a \in claimed[j] :
       /\ claimed' = [claimed EXCEPT ![j] = @ \ {a}]
       /\ Post(a.event, a.attempt, j, 0)
  /\ UNCHANGED <<webhook, failures, rows, lastId, fired, taken, givenUp, dropped,
                 answered, requests, crashes>>

-----------------------------------------------------------------------------
(* deliverWebhook, after the answer.                                       *)

\* Mutant: a failure counts while there is a retry to come.
CountsUnlessLast(c, ok) ==
  IF ok THEN 0 ELSE IF c.attempt < MaxAttempts - 1 THEN failures + 1 ELSE failures

FailuresAfter(c, ok) == IF ok THEN 0 ELSE failures + 1

\* The attempt is logged and the history cut to the newest rows.  Their age is a
\* second: of a burst any row may be the one that goes.
Log(c, retry) ==
  LET row == [id |-> lastId + 1, event |-> c.event, attempt |-> c.attempt, retry |-> retry]
      all == rows \cup {row}
  IN  /\ lastId' = lastId + 1
      /\ \E old \in IF Cardinality(all) > Keep THEN {{r} : r \in all} ELSE {{}} :
           /\ rows' = all \ old
           /\ dropped' = dropped \cup {r.event : r \in {q \in old : q.retry}}

AutomaticAnswer(c, ok) ==
  LET last == c.attempt >= MaxAttempts - 1
  IN  /\ failures' = FailuresAfter(c, ok)
      /\ Log(c, ~ ok /\ ~ last)
      /\ taken' = IF ok THEN taken \cup {c.event} ELSE taken
      /\ answered' = (answered \/ ok)
      /\ givenUp' = IF ~ ok /\ last THEN givenUp \cup {c.event} ELSE givenUp
      /\ webhook' = IF ~ ok /\ last /\ failures' >= MaxAttempts THEN "off" ELSE webhook

\* The receiver answers, or does not within ten seconds.
Answer(c, ok) ==
  /\ c \in calls /\ calls' = calls \ {c}
  /\ \/ /\ webhook # "deleted" /\ Automatic(c)
        /\ AutomaticAnswer(c, ok)
     \/ /\ webhook # "deleted" /\ ~ Automatic(c)
        /\ Log(c, FALSE)
        /\ UNCHANGED <<webhook, failures, taken, givenUp, answered>>
     \/ /\ webhook = "deleted"
        /\ UNCHANGED <<webhook, failures, rows, lastId, taken, givenUp, dropped, answered>>
  /\ UNCHANGED <<claimed, fired, requests, crashes>>

-----------------------------------------------------------------------------
(* Administrators, and restarts.                                           *)

Requests == requests < HandCap /\ requests' = requests + 1 /\ webhook # "deleted"

\* PUT: enabled is set, and reset_circuit clears the count too.
Update(state, reset) ==
  /\ Requests
  /\ webhook' = IF reset THEN "on" ELSE state
  /\ failures' = IF reset THEN 0 ELSE failures
  /\ UNCHANGED <<rows, lastId, claimed, calls, fired, taken, givenUp, dropped,
                 answered, crashes>>

Delete ==
  /\ Requests
  /\ webhook' = "deleted" /\ rows' = {}
  /\ UNCHANGED <<failures, lastId, claimed, calls, fired, taken, givenUp, dropped,
                 answered, crashes>>

\* The test route, and the retry of one delivery by hand: enabled or not, and
\* whether the delivery waits for its own retry or not.
PostByHand(event, attempt) ==
  /\ Requests
  /\ Post(event, attempt, Hand, requests')
  /\ UNCHANGED <<webhook, failures, rows, lastId, claimed, fired, taken, givenUp,
                 dropped, answered, crashes>>

Test == PostByHand(Ping, 0)

RetryByHand == \E r \in rows : PostByHand(r.event, r.attempt + 1)

HookRestart ==
  /\ crashes < CrashCap /\ crashes' = crashes + 1
  /\ calls' = {} /\ claimed' = [j \in Job |-> {}]
  /\ UNCHANGED <<webhook, failures, rows, lastId, fired, taken, givenUp, dropped,
                 answered, requests>>

-----------------------------------------------------------------------------
HookAnswer == \E c \in calls, ok \in BOOLEAN : Answer(c, ok)

HookRequest ==
  \/ \E state \in {"on", "off"}, reset \in BOOLEAN : Update(state, reset)
  \/ Delete \/ Test \/ RetryByHand

HookNext ==
  \/ \E e \in Event : Fire(e)
  \/ \E j \in Job : ReadDue(j) \/ Repost(j)
  \/ HookAnswer \/ HookRequest \/ HookRestart

HookSpec == HookInit /\ [][HookNext]_hookVars

-----------------------------------------------------------------------------
\* Where the attempts at an event are: waiting for their time, claimed by a run
\* of the job, or under way.
Live(e) ==
  {<<"waiting", r.id>> : r \in {q \in AwaitRetry : q.event = e}}
    \cup {<<"claimed", j>> : j \in {i \in Job : \E a \in claimed[i] : a.event = e}}
    \cup {<<"calling", c.by>> : c \in {d \in calls : Automatic(d) /\ d.event = e}}

\* However runs of the retry job overlap, whatever administrators do and
\* whichever order the answers come in: an event nobody has taken or given up has
\* exactly one attempt left somewhere, and a settled one has none.  Only a
\* restart, the removal of the webhook or a history that is full loses one.
ChainUnbroken ==
  crashes = 0 /\ webhook # "deleted" =>
    \A e \in fired \ dropped :
      Cardinality(Live(e)) = IF e \in taken \cup givenUp THEN 0 ELSE 1

\* A receiver that never answered is cut off by the time an event is given up,
\* unless an administrator set the webhook: the attempts of one event are enough,
\* however those of others come between.
DeadReceiverIsCut == givenUp # {} /\ ~ answered /\ requests = 0 => webhook = "off"
=============================================================================
