------------------------------ MODULE TaskBoard ------------------------------
(***************************************************************************)
(* One task on the center's board, outside any supervised goal:            *)
(* task-dispatch.ts of mission-control (routing, dispatch, the review by   *)
(* Aegis, the requeue of stale tasks), the queue that Workers poll, and    *)
(* the routes by which operators and Workers write the row.                *)
(*                                                                         *)
(* Dispatch and review claim the task, wait for an agent for minutes, and  *)
(* write when it answers.  A dispatch writes only while the task is still  *)
(* in progress; a review writes whatever became of it.  Several dispatches *)
(* may wait at once, when the task was requeued meanwhile.  A resolution   *)
(* is named by the sending it answers, or by the negative number of the    *)
(* request that brought it.                                                *)
(***************************************************************************)
EXTENDS Integers

CONSTANTS
  Run,                \* runs of Aegis: those of the scheduler never overlap,
  Scheduled,          \* this is it; the others are started by hand
  MaxDispatchRetries, \* 5
  MaxAegisRetries,    \* 3
  ActCap,             \* requests of operators, and reports of Workers
  RestartCap          \* restarts of the center

ASSUME LimitAssumption ==
  /\ Scheduled \in Run
  /\ MaxDispatchRetries \in Nat \ {0} /\ MaxAegisRetries \in 1..MaxDispatchRetries
  /\ ActCap \in Nat /\ RestartCap \in Nat

VARIABLES
  column,     \* tasks.status
  owned,      \* tasks.assigned_to is set
  attempts,   \* tasks.dispatch_attempts
  resolution, \* tasks.resolution, 0 while there is none
  old,        \* tasks.updated_at is ten minutes ago
  listed,     \* a run of the dispatcher has read the row
  aegis,      \* the latest row of quality_reviews whose reviewer is aegis
  worker,     \* "asking": offline, and a permission request of it is pending
  waiting,    \* the dispatches whose agent has not answered
  reviews,    \* what each run of Aegis is about: [phase, of]
  signed,     \* the resolutions somebody approved
  sent,       \* how often the task went out to a Worker
  acts, restarts

boardVars == <<column, owned, attempts, resolution, old, listed, aegis, worker,
               waiting, reviews, signed, sent, acts, restarts>>

Writable == {"inbox", "assigned", "in_progress", "review", "quality_review", "done"}
Status == Writable \cup {"failed"}
Review == [phase : {"idle", "listed", "judging"}, of : Int]
Idle == [phase |-> "idle", of |-> 0]

BoardTypeOK ==
  /\ column \in Status
  /\ owned \in BOOLEAN /\ old \in BOOLEAN /\ listed \in BOOLEAN
  /\ attempts \in Nat /\ resolution \in Int
  /\ aegis \in {"none", "approved", "rejected"}
  /\ worker \in {"online", "offline", "asking"}
  /\ waiting \subseteq 1..sent
  /\ reviews \in [Run -> Review]
  /\ signed \subseteq Int
  /\ sent \in Nat /\ acts \in 0..ActCap /\ restarts \in 0..RestartCap

BoardInit ==
  /\ \/ column = "inbox" /\ owned = FALSE
     \/ column = "assigned" /\ owned = TRUE
  /\ attempts = 0 /\ resolution = 0 /\ old = FALSE /\ listed = FALSE
  /\ aegis = "none" /\ signed = {}
  /\ worker = "online"
  /\ waiting = {}
  /\ reviews = [r \in Run |-> Idle]
  /\ sent = 0 /\ acts = 0 /\ restarts = 0

\* Every UPDATE of a task sets its updated_at.
Moves(s) == column' = s /\ old' = FALSE

-----------------------------------------------------------------------------
(* autoRouteInboxTasks and the queue.                                      *)

\* An inbox task of nobody goes to the best agent that is not offline.
Route ==
  /\ column = "inbox" /\ ~ owned /\ worker = "online"
  /\ Moves("assigned") /\ owned' = TRUE
  /\ UNCHANGED <<attempts, resolution, listed, aegis, worker, waiting,
                 reviews, signed, sent, acts, restarts>>

GoesOut ==
  /\ Moves("in_progress")
  /\ sent' = sent + 1

\* A Worker polls the queue and claims the task; one it already works on is
\* only shown to it again.
Poll ==
  /\ column \in {"assigned", "inbox"}
  /\ GoesOut /\ owned' = TRUE
  /\ UNCHANGED <<attempts, resolution, listed, aegis, worker, waiting,
                 reviews, signed, acts, restarts>>

-----------------------------------------------------------------------------
(* dispatchAssignedTasks: at most three tasks are read, and claimed one     *)
(* after the other; then the answer or the error of each.                  *)

ListTask ==
  /\ column = "assigned" /\ owned /\ ~ listed /\ listed' = TRUE
  /\ UNCHANGED <<column, owned, attempts, resolution, old, aegis, worker, waiting,
                 reviews, signed, sent, acts, restarts>>

\* The claim looks at the column, not at who owns the task by now.
Dispatch ==
  /\ listed /\ listed' = FALSE
  /\ \/ column = "assigned" /\ GoesOut /\ waiting' = waiting \cup {sent'}
     \/ column # "assigned" /\ UNCHANGED <<column, old, sent, waiting>>
  /\ UNCHANGED <<owned, attempts, resolution, aegis, worker, reviews, signed, acts,
                 restarts>>

\* Mutant: the result is written whatever the task is doing.
AnswerLate(d) ==
  /\ d \in waiting /\ waiting' = waiting \ {d}
  /\ Moves("review") /\ resolution' = d
  /\ UNCHANGED <<owned, attempts, listed, aegis, worker, reviews, signed,
                 sent, acts, restarts>>

Answer(d) ==
  /\ d \in waiting /\ waiting' = waiting \ {d}
  /\ \/ column = "in_progress" /\ Moves("review") /\ resolution' = d
     \/ column # "in_progress" /\ UNCHANGED <<column, old, resolution>>
  /\ UNCHANGED <<owned, attempts, listed, aegis, worker, reviews, signed,
                 sent, acts, restarts>>

\* Mutant: gives up one attempt too late.
RetryOnceMore(tries, limit) ==
  /\ attempts' = tries + 1
  /\ Moves(IF tries + 1 > limit THEN "failed" ELSE "assigned")

\* One more attempt, and the task goes back to the assigned ones while fewer
\* than limit were made.
Retry(tries, limit) ==
  /\ attempts' = tries + 1
  /\ Moves(IF tries + 1 >= limit THEN "failed" ELSE "assigned")

DispatchFails(d) ==
  /\ d \in waiting /\ waiting' = waiting \ {d}
  /\ \/ column = "in_progress" /\ Retry(attempts, MaxDispatchRetries)
     \/ column # "in_progress" /\ UNCHANGED <<column, old, attempts>>
  /\ UNCHANGED <<owned, resolution, listed, aegis, worker, reviews, signed,
                 sent, acts, restarts>>

\* requeueStaleTasks: nobody asks whether a dispatch still waits.
Requeue ==
  /\ column = "in_progress" /\ old
  /\ \/ ~ owned
     \/ worker = "offline"
  /\ Retry(attempts, MaxDispatchRetries)
  /\ UNCHANGED <<owned, resolution, listed, aegis, worker, waiting, reviews,
                 signed, sent, acts, restarts>>

-----------------------------------------------------------------------------
(* runAegisReviews.  A run reads the tasks under review, at most three, and *)
(* then takes one after the other, each with the resolution it read.        *)

Judging(r, phase, of) == reviews' = [reviews EXCEPT ![r] = [phase |-> phase, of |-> of]]

\* The scheduler's run is one; another is an operator's request.
ListReview(r) ==
  /\ reviews[r] = Idle /\ column = "review"
  /\ \/ r = Scheduled /\ acts' = acts
     \/ r # Scheduled /\ acts < ActCap /\ acts' = acts + 1
  /\ Judging(r, "listed", resolution)
  /\ UNCHANGED <<column, owned, attempts, resolution, old, listed, aegis,
                 worker, waiting, signed, sent, restarts>>

ClaimReview(r) ==
  /\ reviews[r].phase = "listed"
  /\ \/ column = "review" /\ Moves("quality_review") /\ Judging(r, "judging", reviews[r].of)
     \/ column # "review" /\ reviews' = [reviews EXCEPT ![r] = Idle] /\ UNCHANGED <<column, old>>
  /\ UNCHANGED <<owned, attempts, resolution, listed, aegis, worker, waiting,
                 signed, sent, acts, restarts>>

Verdict(r) == reviews[r].phase = "judging" /\ reviews' = [reviews EXCEPT ![r] = Idle]

Approve(r) ==
  /\ Verdict(r)
  /\ aegis' = "approved" /\ signed' = signed \cup {reviews[r].of}
  /\ Moves("done")
  /\ UNCHANGED <<owned, attempts, resolution, listed, worker, waiting, sent,
                 acts, restarts>>

Reject(r) ==
  /\ Verdict(r)
  /\ aegis' = "rejected" /\ Retry(attempts, MaxAegisRetries)
  /\ UNCHANGED <<owned, resolution, listed, worker, waiting, signed, sent,
                 acts, restarts>>

ReviewFails(r) ==
  /\ Verdict(r) /\ Moves("review")
  /\ UNCHANGED <<owned, attempts, resolution, listed, aegis, worker, waiting,
                 signed, sent, acts, restarts>>

-----------------------------------------------------------------------------
(* The routes, and what else happens.                                       *)

Acts == acts < ActCap /\ acts' = acts + 1

\* PUT /api/tasks, PUT /api/tasks/[id]: any column or none, an owner, a
\* resolution; done only if the latest review of Aegis approved.
Put(s) ==
  /\ Acts
  /\ s \in Writable \cup {column}
  /\ s = "done" => aegis = "approved" \/ column = "done"
  /\ Moves(s)
  /\ owned' \in BOOLEAN /\ resolution' \in {resolution, - acts'}
  /\ UNCHANGED <<attempts, listed, aegis, worker, waiting, reviews, signed,
                 sent, restarts>>

\* POST /api/quality-review: the row of a reviewer, who may be called aegis.
PostReview(verdict) ==
  /\ Acts
  /\ aegis' \in {aegis, verdict}
  /\ signed' = IF verdict = "approved" THEN signed \cup {resolution} ELSE signed
  /\ Moves(IF verdict = "approved" THEN "done" ELSE "in_progress")
  /\ UNCHANGED <<owned, attempts, resolution, listed, worker, waiting,
                 reviews, sent, restarts>>

\* The heartbeat job, an agent that comes back, a permission request.
WorkerChanges ==
  /\ worker' \in {"online", "offline", "asking"} \ {worker}
  /\ UNCHANGED <<column, owned, attempts, resolution, old, listed, aegis,
                 waiting, reviews, signed, sent, acts, restarts>>

GetsOld ==
  /\ column = "in_progress" /\ ~ old /\ old' = TRUE
  /\ UNCHANGED <<column, owned, attempts, resolution, listed, aegis, worker,
                 waiting, reviews, signed, sent, acts, restarts>>

\* A restart forgets the calls; the row says in_progress or quality_review.
Restart ==
  /\ restarts < RestartCap /\ restarts' = restarts + 1
  /\ listed' = FALSE /\ waiting' = {} /\ reviews' = [r \in Run |-> Idle]
  /\ UNCHANGED <<column, owned, attempts, resolution, old, aegis, worker, signed,
                 sent, acts>>

-----------------------------------------------------------------------------
AnswerStep == \E d \in waiting : Answer(d) \/ DispatchFails(d)

ReviewStep ==
  \E r \in Run : ListReview(r) \/ ClaimReview(r) \/ Approve(r) \/ Reject(r) \/ ReviewFails(r)

RouteStep ==
  \/ \E s \in Status : Put(s)
  \/ \E v \in {"approved", "rejected"} : PostReview(v)

BoardNext ==
  \/ Route \/ Poll \/ ListTask \/ Dispatch \/ AnswerStep \/ Requeue
  \/ ReviewStep \/ RouteStep
  \/ WorkerChanges \/ GetsOld \/ Restart

BoardSpec == BoardInit /\ [][BoardNext]_boardVars

-----------------------------------------------------------------------------
\* However dispatches, polls, requeues and reviews interleave, and however late
\* agents answer, the task goes out MaxDispatchRetries times, and once more for
\* each request of an operator: no path out of a claim is free of an attempt.
SendBudget == sent <= MaxDispatchRetries + acts

\* A task nobody interfered with is done only with a resolution that was
\* approved: a late answer does not replace the one under review.
SignedOff == column = "done" /\ acts = 0 => resolution \in signed

\* "Built-in Aegis review system that blocks task completion without sign-off"
\* (mission-control/README.md:27): no step completes a task whose resolution
\* nobody approved, whatever operators and Workers did meanwhile.
OnlySignedOff ==
  [][column # "done" /\ column' = "done" => resolution' \in signed']_boardVars
=============================================================================
