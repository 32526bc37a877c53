------------------------------ MODULE HumanWatch ------------------------------
(***************************************************************************)
(* Automatic watching of one Worker session for one binding:               *)
(* human-watch-orchestrator.ts, -events.ts, -audit.ts, -assist.ts and the  *)
(* route of an operator's action on an event.                              *)
(*                                                                         *)
(* What a Worker shows is a fingerprint of what it waits for.  An          *)
(* evaluation fetches the transcript, asks the steward and then queues a   *)
(* reply or raises an event; it runs in pieces between awaits, each of     *)
(* which is one action here (one Node process, synchronous SQLite), and    *)
(* goes on with the binding row it was started with.  Its competitors are  *)
(* operators who answer events and wait up to three minutes for the        *)
(* Bridge, receipts of earlier replies, requests for help, and whoever     *)
(* changes the binding.  The relay is EdgeRelay; here a queued message     *)
(* only has its outcome.                                                   *)
(*                                                                         *)
(* Time is what has passed: the grace period, the window of the rate limit *)
(* and the runtime of the binding end by actions of their own.             *)
(***************************************************************************)
EXTENDS Naturals, Sequences, FiniteSets

CONSTANTS
  Fingerprint,  \* what the Worker may wait for
  Dangerous,    \* those that classifyDangerousWorkerRequest names
  None,         \* the rules do not match
  Operator,
  RateLimit,    \* max_interventions_per_hour
  SuccessLimit, \* auto_stop.max_successful_interventions
  SkipLimit,    \* auto_stop.max_rate_limited_skips
  Cap           \* bound: requests of operators that change something, requests
                \* for help, lost connections, restarts, changes of the
                \* policy and the end of the runtime of the binding, together

ASSUME WatchAssumption ==
  /\ Dangerous \subseteq Fingerprint /\ None \notin Fingerprint
  /\ {RateLimit, SuccessLimit, SkipLimit} \subseteq Nat \ {0}
  /\ Cap \in Nat

VARIABLES
  binding,  \* enabled and mode; what counts since its last change; whether
            \* it is in workspace 1, the one that is polled, and whether
            \* the policy of its tenant allows human watch
  worker,   \* what the Worker waits for
  online,   \* isBridgeClientOnline
  timer,    \* the debounced evaluation: the binding row it will use
  eval,     \* the evaluation that holds the key of the session in inFlight
  events,   \* human_watch_events, by creation
  reply,    \* the message of each fingerprint in the relay and its event
  success,  \* fingerprints with a successful intervention_completed
  recent,   \* successful interventions within the window of the rate limit
  grace,    \* an intervention was completed within the grace period
  answering,\* the event whose answer an operator's request waits for
  assist,   \* the request for help under way
  reopened, \* fingerprints of which a closed event was written again
  spent     \* what the bound counts
vars == <<binding, worker, online, timer, eval, events, reply, success, recent,
          grace, answering, assist, reopened, spent>>

Mode == {"auto_send", "suggest_only"}
Row == [mode : Mode, stale : BOOLEAN]
Idle == [at |-> "idle"]
Nothing == [state |-> "none", event |-> 0]
OpenStatus == {"pending", "visible", "claimed"}
ClosedStatus == {"resolved", "dismissed"}

TypeOK ==
  /\ binding \in [enabled : BOOLEAN, mode : Mode, overtime : BOOLEAN,
                  successes : 0..SuccessLimit, skips : 0..SkipLimit,
                  polled : BOOLEAN, allowed : BOOLEAN]
  /\ worker \in Fingerprint \union {None}
  /\ online \in BOOLEAN /\ grace \in BOOLEAN /\ recent \in Nat
  /\ timer \in {None} \union Row
  /\ \/ eval = Idle
     \/ eval \in [at : {"fetch"}, row : Row]
     \/ eval \in [at : {"judge"}, row : Row, of : Fingerprint]
  /\ \A e \in DOMAIN events : events[e] \in
       [of : Fingerprint \union {None}, status : OpenStatus \union ClosedStatus,
        handed : BOOLEAN, by : {"nobody", "steward", "human"}]
  /\ \A f \in Fingerprint :
       /\ reply[f].state \in {"none", "queued", "delivered", "refused", "dead"}
       /\ (reply[f].state = "none") <=> (reply[f].event = 0)
       /\ reply[f].event \in {0} \union DOMAIN events
  /\ success \subseteq Fingerprint /\ reopened \subseteq Fingerprint \union {None}
  /\ answering \in [Operator -> {0} \union DOMAIN events]
  /\ assist = Idle \/ assist \in [at : {"judge", "send"}, mode : Mode, event : DOMAIN events]

\* A row that is written anew: its counts start again.
Fresh(b, enabled, mode) ==
  [b EXCEPT !.enabled = enabled, !.mode = mode, !.overtime = FALSE,
            !.successes = 0, !.skips = 0]

Init ==
  /\ binding \in [enabled : {TRUE}, mode : Mode, overtime : {FALSE}, successes : {0},
                  skips : {0}, polled : BOOLEAN, allowed : BOOLEAN]
  /\ worker = None /\ online = TRUE
  /\ timer = None /\ eval = Idle
  /\ events = << >> /\ reply = [f \in Fingerprint |-> Nothing]
  /\ success = {} /\ recent = 0 /\ grace = FALSE
  /\ answering = [o \in Operator |-> 0]
  /\ assist = Idle /\ reopened = {}
  /\ spent = 0

AtMost(n, limit) == IF n < limit THEN n ELSE limit

-----------------------------------------------------------------------------
(* Events.  updateHumanWatchEvent writes whatever status it is given, but  *)
(* the unique index of open events refuses a second one of a key: then the *)
(* write throws.  A request for help has a key of its own.                 *)
Open(e) == events[e].status \in OpenStatus
OpenOf(f) == {e \in DOMAIN events : events[e].of = f /\ Open(e)}

Refused(e) == ~Open(e) /\ events[e].of # None /\ OpenOf(events[e].of) # {}

WriteEvent(e, status, by) ==
  /\ status \in OpenStatus => ~Refused(e)
  /\ events' = [events EXCEPT ![e].status = status, ![e].by = by]
  /\ reopened' = IF Open(e) THEN reopened ELSE reopened \union {events[e].of}

NewEvent(f, status, handed) ==
  Append(events, [of |-> f, status |-> status, handed |-> handed, by |-> "nobody"])

(* createHumanWatchEvent with the key of f returns the latest open event   *)
(* of that key, if there is one.                                           *)
(* Mutation: the identity a new event would have had one event ago.        *)
EventBefore(f) == IF OpenOf(f) = {} THEN Len(events)
                  ELSE CHOOSE e \in OpenOf(f) : \A d \in OpenOf(f) : d <= e
EventFor(f) == IF OpenOf(f) = {} THEN Len(events) + 1
               ELSE CHOOSE e \in OpenOf(f) : \A d \in OpenOf(f) : d <= e
Raise(f) == events' = IF OpenOf(f) = {} THEN NewEvent(f, "pending", FALSE) ELSE events
HandOver(f) ==
  events' = IF OpenOf(f) = {} THEN NewEvent(f, "visible", TRUE)
            ELSE [events EXCEPT ![EventFor(f)].status = "visible",
                                ![EventFor(f)].handed = TRUE]

(* Mutation: a closed event of f counts as an active one.                  *)
HasAny(f) == \E e \in DOMAIN events : events[e].of = f
(* Mutation: open events are not looked for before the steward is asked.   *)
HasNone(f) == FALSE
HasActive(f) == OpenOf(f) # {}

(* intervention_completed, of which a fingerprint has one success.         *)
Complete == grace' = TRUE
Succeeded ==
  /\ Complete
  /\ recent' = recent + 1
  /\ binding' = [binding EXCEPT !.successes = AtMost(@ + 1, SuccessLimit)]

Spend == spent < Cap /\ spent' = spent + 1

-----------------------------------------------------------------------------
(* The binding.                                                            *)
StopReason(b) == \/ b.overtime
                 \/ b.successes = SuccessLimit
                 \/ b.skips = SkipLimit

(* The counts start at the change of the row they are asked for: an old    *)
(* row counts at least what the present one does.                          *)
Stops(b, row) == {StopReason(b), StopReason(b) \/ row.stale}

(* maybeAutoStopBinding; b is the binding with what this step counted.     *)
(* A binding that is switched off already is not stopped.                  *)
AutoStop(b, stop) == binding' = [b EXCEPT !.enabled = @ /\ ~stop]

Current == [mode |-> binding.mode, stale |-> FALSE]
Outdated(row) == [row EXCEPT !.stale = TRUE]

Configure ==
  /\ Spend
  /\ \E enabled \in BOOLEAN, mode \in Mode : binding' = Fresh(binding, enabled, mode)
  /\ timer' = IF timer = None THEN None ELSE Outdated(timer)
  /\ eval' = IF eval = Idle THEN Idle ELSE [eval EXCEPT !.row = Outdated(@)]
  /\ UNCHANGED <<worker, online, events, reply, success, recent, grace, answering,
                 assist, reopened>>

\* setHumanWatchEnabledForTenant.
SetPolicy ==
  /\ Spend
  /\ binding' = [binding EXCEPT !.allowed = ~@]
  /\ UNCHANGED <<worker, online, timer, eval, events, reply, success, recent, grace,
                 answering, assist, reopened>>

(* pollActiveBindings: the stop conditions of the bindings of workspace 1, *)
(* also of those whose client is offline, then the evaluation of those that*)
(* are left.  No binding of another workspace is asked for.                *)
(* Mutation: only bindings that can be evaluated are checked.              *)
PollOnline ==
  /\ binding.enabled /\ binding.polled /\ online
  /\ IF StopReason(binding)
       THEN binding' = [binding EXCEPT !.enabled = FALSE] /\ UNCHANGED timer
       ELSE timer' = Current /\ UNCHANGED binding
  /\ UNCHANGED <<worker, online, eval, events, reply, success, recent, grace, answering,
                 assist, reopened, spent>>

Poll ==
  /\ binding.enabled /\ binding.polled
  /\ IF StopReason(binding)
       THEN binding' = [binding EXCEPT !.enabled = FALSE] /\ UNCHANGED timer
       ELSE timer' = (IF online THEN Current ELSE timer) /\ UNCHANGED binding
  /\ UNCHANGED <<worker, online, eval, events, reply, success, recent, grace, answering,
                 assist, reopened, spent>>

\* handleTranscriptEvent, the message of the Bridge that the session changed.
TranscriptUpdated ==
  /\ binding.enabled /\ online
  /\ timer' = Current
  /\ UNCHANGED <<binding, worker, online, eval, events, reply, success, recent, grace,
                 answering, assist, reopened, spent>>

(* The timer of 100 milliseconds, and POST /human-watch/evaluate, which    *)
(* reads the row itself.  A row whose binding was switched off meanwhile   *)
(* is evaluated all the same; one whose tenant does not allow human watch  *)
(* is neither stopped nor evaluated.                                       *)
Forbidden == ~binding.allowed /\ UNCHANGED <<binding, eval>>
Allowed(row) ==
  binding.allowed /\ \E stop \in Stops(binding, row) :
    /\ AutoStop(binding, stop)
    /\ eval' = IF (stop /\ binding.enabled) \/ ~online \/ eval # Idle THEN eval
               ELSE [at |-> "fetch", row |-> row]
Begin(row) ==
  /\ Forbidden \/ Allowed(row)
  /\ UNCHANGED <<worker, online, events, reply, success, recent, grace, answering,
                 assist, reopened, spent>>

TimerFires == timer # None /\ Begin(timer) /\ timer' = None
EvaluateNow == binding.enabled /\ Begin(Current) /\ UNCHANGED timer

-----------------------------------------------------------------------------
(* An evaluation after its awaits.                                         *)
Over == eval' = Idle

FetchFails ==
  /\ eval.at = "fetch" /\ Over
  /\ UNCHANGED <<binding, worker, online, timer, events, reply, success, recent, grace,
                 answering, assist, reopened, spent>>

Suggest ==
  /\ worker # None /\ eval.row.mode = "suggest_only"
  /\ Raise(worker) /\ Over
  /\ UNCHANGED <<binding, timer>>

(* A binding may be counted out by the skip it is limited by.              *)
RateLimited ==
  /\ recent >= RateLimit /\ Over
  /\ LET b == [binding EXCEPT !.skips = AtMost(@ + 1, SkipLimit)]
     IN  \E stop \in Stops(b, eval.row) : AutoStop(b, stop)
  /\ UNCHANGED <<timer, events>>

AskSteward ==
  /\ recent < RateLimit
  /\ eval' = IF HasActive(worker) THEN Idle
             ELSE [at |-> "judge", row |-> eval.row, of |-> worker]
  /\ UNCHANGED <<binding, timer, events>>

Fetched ==
  /\ eval.at = "fetch"
  /\ \/ worker = None /\ Over /\ UNCHANGED <<binding, timer, events>>
     \/ Suggest
     \/ /\ worker # None /\ eval.row.mode = "auto_send"
        /\ \/ (grace \/ worker \in success) /\ Over /\ UNCHANGED <<binding, timer, events>>
           \/ ~grace /\ worker \notin success /\ (RateLimited \/ AskSteward)
  /\ UNCHANGED <<worker, online, reply, success, recent, grace, answering, assist,
                 reopened, spent>>

\* The steward cannot be asked, or says nothing that can be used.
JudgeFails ==
  /\ eval.at = "judge" /\ Over
  /\ UNCHANGED <<binding, worker, online, timer, events, reply, success, recent, grace,
                 answering, assist, reopened, spent>>

Escalates ==
  /\ eval.at = "judge" /\ HandOver(eval.of) /\ Over
  /\ UNCHANGED <<binding, worker, online, timer, reply, success, recent, grace,
                 answering, assist, reopened, spent>>

(* The key of the message names the fingerprint and no attempt: a reply    *)
(* that was given up is not sent again.                                    *)
Replies ==
  /\ eval.at = "judge" /\ eval.of \notin Dangerous /\ Over
  /\ Raise(eval.of)
  /\ reply' = IF reply[eval.of] # Nothing THEN reply
              ELSE [reply EXCEPT ![eval.of] = [state |-> "queued", event |-> EventFor(eval.of)]]
  /\ UNCHANGED <<binding, worker, online, timer, success, recent, grace,
                 answering, assist, reopened, spent>>

\* createEdgeMessage throws: the client has left the workspace of the binding.
QueueFails ==
  /\ eval.at = "judge" /\ eval.of \notin Dangerous /\ Over
  /\ Raise(eval.of) /\ Complete
  /\ UNCHANGED <<binding, worker, online, timer, reply, success, recent,
                 answering, assist, reopened, spent>>

-----------------------------------------------------------------------------
(* Receipts of the relay for a reply, which name the event it was for.     *)
(* Mutation: the latest event of the fingerprint.                          *)
LatestEvent(f) == CHOOSE e \in DOMAIN events :
  events[e].of = f /\ \A d \in DOMAIN events : events[d].of = f => d <= e
EventOf(f) == reply[f].event
Settles(f, state) ==
  /\ reply[f].state = "queued"
  /\ reply' = [reply EXCEPT ![f].state = state]
  /\ UNCHANGED <<worker, online, timer, eval, answering, assist, spent>>

Delivered(f) ==
  /\ Settles(f, "delivered")
  /\ WriteEvent(EventOf(f), "resolved", "steward")
  /\ success' = success \union {f} /\ Succeeded

(* Mutation: a reply that did not arrive closes its event too.             *)
RefusalCloses(f) ==
  /\ Settles(f, "refused")
  /\ WriteEvent(EventOf(f), "resolved", "steward")
  /\ Complete /\ UNCHANGED <<binding, success, recent>>
\* The receipt fails with its transaction when the event cannot be written.
NotDelivered(f) ==
  /\ Settles(f, "refused")
  /\ WriteEvent(EventOf(f), "visible", events[EventOf(f)].by)
  /\ Complete /\ UNCHANGED <<binding, success, recent>>

\* The last failure is recorded and the event left as it is; a message that
\* is cancelled leaves nothing.
GivenUp(f) ==
  /\ Settles(f, "dead")
  /\ Complete \/ UNCHANGED grace
  /\ UNCHANGED <<binding, success, recent, events, reopened>>

-----------------------------------------------------------------------------
(* Operators.                                                              *)
Keeps == UNCHANGED <<binding, online, timer, eval, reply, success, recent, grace>>
\* GET /human-watch/events shows what it lists.
ListEvents ==
  /\ \E shown \in SUBSET {e \in DOMAIN events : events[e].status = "pending"} :
       /\ shown # {}
       /\ events' = [e \in DOMAIN events |->
                       IF e \in shown THEN [events[e] EXCEPT !.status = "visible"] ELSE events[e]]
  /\ Keeps /\ UNCHANGED <<worker, answering, assist, reopened, spent>>

Dismiss(e) ==
  /\ Open(e) /\ Spend
  /\ WriteEvent(e, "dismissed", "human")
  /\ Keeps /\ UNCHANGED <<worker, answering, assist>>

\* send_message_to_worker: an event somebody has claimed may be claimed again.
Claim(o, e) ==
  /\ answering[o] = 0 /\ Open(e) /\ Spend
  /\ WriteEvent(e, "claimed", events[e].by)
  /\ answering' = [answering EXCEPT ![o] = e]
  /\ Keeps /\ UNCHANGED <<worker, assist>>

(* The Bridge answers, or the message goes to the local queue: resolved.   *)
(* Anything else sets the event back to pending, whatever it is by now, or *)
(* throws once more.                                                       *)
Answered(o, status, by) ==
  /\ answering[o] # 0
  /\ WriteEvent(answering[o], status, by)
  /\ answering' = [answering EXCEPT ![o] = 0]
  /\ Keeps /\ UNCHANGED <<assist, spent>>

AnswerArrives(o) == Answered(o, "resolved", "human") /\ worker' \in Fingerprint \union {None}
AnswerFails(o) ==
  /\ UNCHANGED worker
  /\ \/ Answered(o, "pending", events[answering[o]].by)
     \/ /\ answering[o] # 0 /\ Refused(answering[o])
        /\ answering' = [answering EXCEPT ![o] = 0]
        /\ Keeps /\ UNCHANGED <<events, reopened, assist, spent>>

-----------------------------------------------------------------------------
(* A Worker asks for help (triggerHumanWatchAssist): no limit is checked,  *)
(* no fingerprint recorded, and what it needed of the binding is read once.*)
KeepsForAssist == UNCHANGED <<online, timer, eval, reply, success, answering>>

AskForHelp ==
  /\ assist = Idle /\ binding.enabled /\ online
  /\ Spend
  /\ events' = NewEvent(None, "pending", FALSE)
  /\ assist' = [at |-> "judge", mode |-> binding.mode, event |-> Len(events')]
  /\ KeepsForAssist /\ UNCHANGED <<binding, worker, recent, grace, reopened>>

\* The Bridge fails, or the steward wants a human: the event stays as it is.
HelpFails ==
  /\ assist # Idle /\ assist' = Idle
  /\ \/ UNCHANGED events
     \/ assist.at = "judge" /\ events' = [events EXCEPT ![assist.event].handed = TRUE]
  /\ KeepsForAssist /\ UNCHANGED <<binding, worker, recent, grace, reopened, spent>>

\* An empty answer closes the event.
HelpIsEmpty ==
  /\ assist.at = "judge" /\ assist' = Idle
  /\ WriteEvent(assist.event, "resolved", "steward")
  /\ KeepsForAssist /\ UNCHANGED <<binding, worker, recent, grace, spent>>

HelpIsSent ==
  /\ assist.at = "judge" /\ assist.mode = "auto_send"
  /\ assist' = [assist EXCEPT !.at = "send"]
  /\ KeepsForAssist /\ UNCHANGED <<binding, worker, recent, grace, events, reopened, spent>>

\* Under suggest_only nothing is sent, and it counts as a success.
Helped ==
  /\ \/ assist.at = "send" /\ worker' \in Fingerprint \union {None}
     \/ assist.at = "judge" /\ assist.mode = "suggest_only" /\ UNCHANGED worker
  /\ assist' = Idle
  /\ WriteEvent(assist.event, "resolved", "steward") /\ Succeeded
  /\ KeepsForAssist /\ UNCHANGED spent

-----------------------------------------------------------------------------
(* Time, the Worker, the connection and the process.                       *)
OnlyTime == UNCHANGED <<worker, online, timer, eval, events, reply, success, answering,
                        assist, reopened>>
GraceEnds == /\ grace /\ grace' = FALSE
             /\ OnlyTime /\ UNCHANGED <<binding, recent, spent>>
WindowSlides == /\ recent > 0 /\ ~grace /\ recent' = recent - 1
                /\ OnlyTime /\ UNCHANGED <<binding, grace, spent>>
RuntimeEnds == /\ ~binding.overtime /\ Spend
               /\ binding' = [binding EXCEPT !.overtime = TRUE]
               /\ OnlyTime /\ UNCHANGED <<recent, grace>>

WorkerMoves ==
  /\ worker' \in (Fingerprint \union {None}) \ {worker}
  /\ UNCHANGED <<binding, online, timer, eval, events, reply, success, recent, grace,
                 answering, assist, reopened, spent>>

KeepsOffline == UNCHANGED <<binding, worker, timer, eval, events, reply, success, recent,
                            grace, answering, assist, reopened>>
GoesOffline == online /\ Spend /\ online' = FALSE /\ KeepsOffline
ComesBack == ~online /\ online' = TRUE /\ KeepsOffline /\ UNCHANGED spent

\* What waits for an answer is gone; what was written stays.
Restart ==
  /\ Spend
  /\ timer' = None /\ eval' = Idle /\ assist' = Idle
  /\ answering' = [o \in Operator |-> 0]
  /\ UNCHANGED <<binding, worker, online, events, reply, success, recent, grace, reopened>>

Next ==
  \/ Configure \/ SetPolicy \/ Poll \/ TranscriptUpdated \/ TimerFires \/ EvaluateNow
  \/ FetchFails \/ Fetched \/ JudgeFails \/ Escalates \/ Replies \/ QueueFails
  \/ \E f \in Fingerprint : Delivered(f) \/ NotDelivered(f) \/ GivenUp(f)
  \/ ListEvents \/ \E e \in DOMAIN events : Dismiss(e) \/ \E o \in Operator : Claim(o, e)
  \/ \E o \in Operator : AnswerArrives(o) \/ AnswerFails(o)
  \/ AskForHelp \/ HelpFails \/ HelpIsEmpty \/ HelpIsSent \/ Helped
  \/ GraceEnds \/ WindowSlides \/ RuntimeEnds \/ WorkerMoves \/ GoesOffline \/ ComesBack \/ Restart

Spec == Init /\ [][Next]_vars

(* The poll of 60 seconds goes on, for a binding of workspace 1, and so do *)
(* the timers; time comes to an end; a client that keeps coming back is not*)
(* offline at every poll and every evaluation, and neither its transcript  *)
(* nor the steward is out of reach for ever.  Every evaluation ends, since *)
(* whatever can fail to be fetched or judged can also succeed.             *)
Fairness ==
  /\ WF_vars(Poll) /\ SF_vars(online /\ Poll) /\ SF_vars(online /\ eval = Idle /\ TimerFires)
  /\ SF_vars(Fetched) /\ SF_vars(Escalates \/ Replies)
  /\ WF_vars(GraceEnds) /\ WF_vars(WindowSlides)
FairSpec == Spec /\ Fairness

-----------------------------------------------------------------------------
(* An event of something the Worker waits for is closed by a human, or     *)
(* because a reply to it, queued for that very event, was delivered; a     *)
(* reply that was refused or given up, or one for another event of the same*)
(* thing, leaves it with the operators.                                    *)
ClosedForCause ==
  \A e \in DOMAIN events : ~Open(e) /\ events[e].of # None =>
    \/ events[e].by = "human"
    \/ \E f \in Fingerprint : reply[f] = [state |-> "delivered", event |-> e]

(* The steward does not answer what an operator is answering: when a reply *)
(* is queued, no operator's message for an open event of that fingerprint  *)
(* is on its way.                                                          *)
OneAnswerer ==
  [][\A f \in Fingerprint :
        reply[f].state = "none" /\ reply'[f].state = "queued" /\ f \notin reopened =>
          \A o \in Operator : answering[o] # 0 /\ events[answering[o]].of = f => ~Open(answering[o])]_vars

(* An event the steward handed over is closed by a human, and not by the   *)
(* receipt of an earlier reply to the same fingerprint.                    *)
ClosedByHuman ==
  [][\A e \in DOMAIN events :
        Open(e) /\ events[e].handed /\ events[e].of \notin reopened
          /\ events'[e].status \in ClosedStatus => events'[e].by = "human"]_vars

(* A binding of workspace 1 that reached one of its limits is switched     *)
(* off, offline or not, unless it is configured anew.  Those of other      *)
(* workspaces are stopped by an evaluation only.                           *)
LimitStops ==
  (binding.polled /\ binding.enabled /\ StopReason(binding))
    ~> ~(binding.enabled /\ StopReason(binding))

(* Of a client that is not offline for ever: while a binding of workspace 1*)
(* is on, its tenant allows human watch and its Worker waits for one thing,*)
(* that thing ends in an open event for the operators or in a delivered    *)
(* reply; no limit, failed reply or dismissed event lets it fall silent.   *)
WaitingIsHandled ==
  []<>online => \A f \in Fingerprint :
    (binding.polled /\ binding.enabled /\ worker = f)
      ~> (\/ f \in success \/ OpenOf(f) # {}
          \/ worker # f \/ ~binding.enabled \/ ~binding.allowed)

(* An event that was closed accepts no second closing and is not open      *)
(* again.                                                                  *)
ClosedStays ==
  [][\A e \in DOMAIN events : ~Open(e) => events'[e].status = events[e].status]_vars
=============================================================================
