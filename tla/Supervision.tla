---------------------------- MODULE Supervision ----------------------------
(***************************************************************************)
(* Supervised goals of the center: mission-control/src/lib/supervision-*.  *)
(*                                                                         *)
(* A goal is planned, its plan is saved and possibly approved, the tasks   *)
(* of the plan are dispatched to Workers, watched and corrected, and when  *)
(* all are done the result is judged.  Three parties change the same rows: *)
(* operators through the API, Workers that report a task, and the          *)
(* supervision run of the scheduler.  Every piece of code between two      *)
(* awaits runs to its end before another one starts (one Node process,     *)
(* synchronous SQLite), so such a piece is one action.  The awaits are the *)
(* calls of the steward as planner and as judge, minutes long; what the    *)
(* caller read before such a call is kept in `judging' until the answer.   *)
(*                                                                         *)
(* One goal.  The steps of a supervision run are actions of their own and  *)
(* in no order: each is also a route, or can be started by the operator    *)
(* while a run of the scheduler waits.  The lease of the monitor (55       *)
(* seconds, shorter than what it covers) and the attempts of the automatic *)
(* planner limit how often the scheduler acts, not what a step does, and   *)
(* are left out, as is the semantic check of single outputs, which spends  *)
(* a model call and at most sends a message to the Worker.  Rows of tasks  *)
(* are written by the supervision only: an operator who edits or deletes a *)
(* supervised task on the task board is outside this module.               *)
(***************************************************************************)
EXTENDS Naturals, Sequences, FiniteSets

CONSTANTS
    Keys,         \* logical_key of the tasks a plan may contain
    Drafts,       \* plans a reply may hold: their tasks, with what each depends on
    Workers,      \* Workers of the goal's client that may be given tasks
    NoWorker,       \* the worker of a task that has none
    MaxParallel,  \* budget.max_parallel_workers
    MaxRetries,   \* budget.max_retries_per_task
    MaxReplans,   \* budget.max_replans
    MaxCalls,     \* budget.max_model_calls
    PlanCap,      \* bound: versions of the plan
    EventCap,     \* bound: observations that ask for a correction
    HumanCap      \* bound: requests of operators that change something

ASSUME DraftsAreClosed ==   \* validateSupervisionGoalPlan, for the keys
    Drafts \subseteq UNION {[D -> SUBSET D] : D \in SUBSET Keys}
ASSUME KeysAssumption == IsFiniteSet(Keys)
ASSUME NoWorkerAssumption == NoWorker \notin Workers
ASSUME Budgets == /\ MaxParallel \in Nat /\ MaxRetries \in Nat
                  /\ MaxReplans \in Nat /\ MaxCalls \in Nat
                  /\ PlanCap \in Nat /\ EventCap \in Nat /\ HumanCap \in Nat

VARIABLES
    goal,     \* the row of supervision_goals
    plans,    \* supervision_goal_plans, by version
    tasks,    \* supervision_goal_tasks joined with tasks
    orders,   \* idempotency keys of the messages sent to Workers
    events,   \* observations that ask for a correction
    judging,  \* calls of the steward that have not been answered
    seen,     \* what an operator read of the goal under its present version
    humans    \* requests of operators so far
goalVars == <<goal, plans, tasks, orders, events, judging, seen, humans>>

GoalStatus == {"planning", "awaiting_plan_approval", "running", "verifying",
               "blocked", "paused", "completed", "failed", "cancelled"}
Terminal == {"completed", "failed", "cancelled"}
PlanStatus == {"draft", "approved", "superseded", "rejected"}
Action == {"start_planning", "approve_plan", "reject_plan", "pause", "resume",
           "cancel", "request_replan", "start_verification", "accept_result",
           "reject_result", "fail"}
Recovery == {"retry_task", "reassign_task"}

Ids == (1..PlanCap) \X Keys
Absent == [status |-> "absent", failed |-> FALSE, worker |-> NoWorker,
           retries |-> 0, moves |-> 0]

Planned(p) == IF p \in DOMAIN plans THEN DOMAIN plans[p].needs ELSE {}
TasksOf(p) == {t \in Ids : t[1] = p /\ tasks[t].status # "absent"}
InProgress(S) == {t \in S : tasks[t].status = "in_progress"}
AllDone(p) == /\ TasksOf(p) # {}
              /\ \A t \in TasksOf(p) : tasks[t].status = "done"
(* The tasks a Worker has.  The matcher also counts a task for the session *)
(* it was first sent to while that is the session of the Worker, which may *)
(* change at any time and only refuses more.                               *)
Load(w) == Cardinality({t \in InProgress(Ids) : tasks[t].worker = w})
Unread == << >>
Counts(t) == <<tasks[t].retries, tasks[t].moves>>

(* An observation, with the assignment it is about: its idempotency key    *)
(* names the message and the time of its failure, the index row or the     *)
(* task by the last change.  What one assignment gives rise to twice in    *)
(* the same way counts once.                                               *)
Observation(t, kind) == [task |-> t, kind |-> kind, at |-> Counts(t)]

(* Mutation: the key of a correction without the event or the counts.      *)
OrderByAction(t, action, cause) == [task |-> t, action |-> action, cause |-> t]

(* A message to a Worker, by its idempotency key: a dispatch has one for a *)
(* task of a plan, a correction one for the observation it answers, or, by *)
(* hand, for the counts of the task as they were read.  A key that is      *)
(* known creates no second message.                                        *)
Order(t, action, cause) == [task |-> t, action |-> action, cause |-> cause]

GoalInit == /\ goal = [status |-> "planning", plan |-> 0, replans |-> 0, calls |-> 0]
        /\ plans = << >>
        /\ tasks = [t \in Ids |-> Absent]
        /\ orders = {} /\ events = {} /\ judging = {}
        /\ seen = Unread /\ humans = 0

(* version = version + 1: no request that names an earlier version is      *)
(* taken any more.                                                         *)
NextVersion == seen' = Unread
(* Mutation: a status written without a new version.                       *)
MoveToUnversioned(s) == goal' = [goal EXCEPT !.status = s] /\ UNCHANGED seen
MoveTo(s) == goal' = [goal EXCEPT !.status = s] /\ NextVersion
Stays == UNCHANGED <<goal, seen>>

(***************************************************************************)
(* Operators.  A request on the goal names the version its sender read;    *)
(* the requests on plans and tasks do not.                                 *)
(***************************************************************************)
ByHuman == humans < HumanCap /\ humans' = humans + 1

Look == /\ seen = Unread
        /\ humans < HumanCap
        /\ seen' = <<goal.status, goal.plan>>
        /\ UNCHANGED <<goal, plans, tasks, orders, events, judging, humans>>

(* ACTION_TARGETS, without the rows of status draft, which no goal has.    *)
Targets(a) ==
    LET active == {"planning", "awaiting_plan_approval", "running", "blocked", "verifying"}
    IN  CASE a = "start_planning"     -> [from |-> {}, to |-> "planning"]
          [] a = "approve_plan"       -> [from |-> {"awaiting_plan_approval"}, to |-> "running"]
          [] a = "reject_plan"        -> [from |-> {"awaiting_plan_approval"}, to |-> "planning"]
          [] a = "pause"              -> [from |-> active, to |-> "paused"]
          [] a = "resume"             -> [from |-> {"paused", "blocked"}, to |-> "running"]
          [] a = "cancel"             -> [from |-> active \cup {"paused"}, to |-> "cancelled"]
          [] a = "request_replan"     -> [from |-> {"running", "blocked", "verifying"}, to |-> "planning"]
          [] a = "start_verification" -> [from |-> {"running"}, to |-> "verifying"]
          [] a = "accept_result"      -> [from |-> {"verifying"}, to |-> "completed"]
          [] a = "reject_result"      -> [from |-> {"verifying"}, to |-> "running"]
          [] a = "fail"               -> [from |-> active \cup {"paused"}, to |-> "failed"]

Approved(p) == [q \in DOMAIN plans |->
    CASE q = p -> [plans[q] EXCEPT !.status = "approved"]
      [] q # p /\ plans[q].status = "approved" -> [plans[q] EXCEPT !.status = "superseded"]
      [] OTHER -> plans[q]]

(* applySupervisionGoalAction; p is the plan_version of the body, which    *)
(* only approvals and rejections look up, or the current one if the body   *)
(* names none.                                                             *)
HumanAction(a, p) ==
    /\ ByHuman
    /\ p \in (1..PlanCap) \cup {goal.plan}
    /\ seen # Unread
    /\ goal.status \in Targets(a).from
    /\ a \in {"approve_plan", "reject_plan"} =>
          p \in DOMAIN plans /\ plans[p].status = "draft"
    /\ plans' = CASE a = "approve_plan" -> Approved(p)
                  [] a = "reject_plan"  -> [plans EXCEPT ![p].status = "rejected"]
                  [] OTHER              -> plans
    /\ goal' = [goal EXCEPT !.status = Targets(a).to, !.plan = p]
    /\ NextVersion
    /\ UNCHANGED <<tasks, orders, events, judging>>

(* updateSupervisionGoal.  Of the fields it writes, the need for an        *)
(* approval, the dates and the allowed Workers are free wherever another   *)
(* step looks at them; the numbers of the budget are taken as constant.    *)
UpdateGoal ==
    /\ ByHuman
    /\ seen # Unread
    /\ goal.status \notin Terminal
    /\ NextVersion
    /\ UNCHANGED <<goal, plans, tasks, orders, events, judging>>

(***************************************************************************)
(* Planning.                                                               *)
(***************************************************************************)

(* consumeSupervisionModelCall: refused once the calls are spent.  It      *)
(* writes usage_json and leaves the version alone.                         *)
Ask(kind, of) ==
    /\ goal.calls < MaxCalls
    /\ goal' = [goal EXCEPT !.calls = @ + 1]
    /\ judging' = judging \cup {[id |-> goal.calls + 1, kind |-> kind,
                                 plan |-> goal.plan, of |-> of]}

(* saveSupervisionGoalPlan: the next version.  A plan waits for the        *)
(* operator if the goal wants that or one of its tasks is risky.           *)
SavePlan(D, waits) ==
    /\ goal.status = "planning"
    /\ Len(plans) < PlanCap
    /\ plans' = Append(plans, [status |-> IF waits THEN "draft" ELSE "approved",
                               needs |-> D])
    /\ goal' = [goal EXCEPT !.status = IF waits THEN "awaiting_plan_approval" ELSE "running",
                            !.plan = Len(plans) + 1]
    /\ NextVersion

(* A plan the operator wrote himself: mode submit of the plan route.       *)
SubmitPlan(D, waits) ==
    /\ ByHuman
    /\ SavePlan(D, waits)
    /\ UNCHANGED <<tasks, orders, events, judging>>

(* generateSupervisionGoalPlan up to its await, for the scheduler or for   *)
(* the plan route.                                                         *)
AskForPlan ==
    /\ goal.status = "planning"
    /\ Ask("plan", {})
    /\ UNCHANGED <<plans, tasks, orders, events, seen, humans>>

(* The answer is saved if the goal is still, or again, in planning; a      *)
(* reply that is no plan, an error and a timeout leave the rows alone.     *)
PlanAnswer(j) ==
    /\ j.kind = "plan"
    /\ judging' = judging \ {j}
    /\ \/ \E D \in Drafts, waits \in BOOLEAN : SavePlan(D, waits)
       \/ Stays /\ UNCHANGED plans
    /\ UNCHANGED <<tasks, orders, events, humans>>

(***************************************************************************)
(* Dispatch.                                                               *)
(***************************************************************************)

(* Mutation: the outcome of a dependency is not looked at.                 *)
DependenciesDone(t) ==
    \A k \in plans[t[1]].needs[t[2]] : tasks[<<t[1], k>>].status = "done"

(* dependenciesSatisfied                                                   *)
DependenciesSatisfied(t) ==
    \A k \in plans[t[1]].needs[t[2]] : LET d == tasks[<<t[1], k>>]
                          IN  d.status = "done" /\ ~d.failed

(* A task that waits: its row is missing, or still in the inbox, where the *)
(* dispatcher holds what it cannot dispatch under an assignee of its own.  *)
Waiting(p) == {t \in {p} \X Planned(p) : tasks[t].status \in {"absent", "inbox"}}
Ready(p) == {t \in Waiting(p) : DependenciesSatisfied(t)}
(* Mutation: the default capacity of the matcher instead of one task.      *)
FreeForThree(w) == Load(w) < 3
Free(w) == Load(w) = 0

(* Mutation: any plan of the goal is dispatched.                           *)
HasPlan(p) == p \in DOMAIN plans

(* getApprovedPlan *)
HasApprovedPlan(p) == p \in DOMAIN plans /\ plans[p].status = "approved"

(* dispatchSupervisionGoal: rows for all tasks of the plan, and as many    *)
(* ready tasks as the limit allows given to distinct idle Workers.  Which  *)
(* Workers match, and so which tasks go out, depends on the index.         *)
DispatchGoal ==
    LET p == goal.plan IN
    /\ goal.status = "running"
    /\ HasApprovedPlan(p)
    /\ \E S \in SUBSET Ready(p) : \E to \in [S -> {w \in Workers : Free(w)}] :
          /\ \A t, u \in S : to[t] = to[u] => t = u
          /\ S # {} => Cardinality(S) + Cardinality(InProgress(TasksOf(p))) <= MaxParallel
          /\ tasks' = [t \in Ids |->
                IF t \in S THEN [tasks[t] EXCEPT !.status = "in_progress", !.worker = to[t]]
                ELSE IF t \in Waiting(p) THEN [tasks[t] EXCEPT !.status = "inbox"]
                ELSE tasks[t]]
          /\ orders' = orders \cup {Order(t, "dispatch", Observation(t, "plan")) : t \in S}

(* POST goals/[id]/dispatch                                                *)
Dispatch == /\ ByHuman
            /\ DispatchGoal
            /\ UNCHANGED <<goal, plans, events, judging, seen>>

(***************************************************************************)
(* Workers.                                                                *)
(***************************************************************************)

(* POST worker-tasks/[taskId]/complete, from the Worker the task is        *)
(* assigned to; for any plan of the goal, not only the current one.        *)
Complete(t, failed) ==
    /\ goal.status = "running"
    /\ tasks[t].status = "in_progress"
    /\ tasks' = [tasks EXCEPT ![t].status = "done", ![t].failed = failed]
    /\ UNCHANGED <<goal, plans, orders, events, judging, seen, humans>>

(***************************************************************************)
(* The monitor.                                                            *)
(***************************************************************************)

(* deterministicObservations, as far as runSupervisionCorrections answers  *)
(* them: a Worker that is offline or a message that failed asks for        *)
(* another Worker, a task without news for a report.  What an observation  *)
(* says of the world outside, any of them may.                             *)
Observable(p) ==
    {Observation(t, "dispatch_failure") : t \in {u \in TasksOf(p) : \E o \in orders : o.task = u}}
        \cup {Observation(t, kind) : t \in InProgress(TasksOf(p)),
                                     kind \in {"worker_offline", "timeout"}}

(* runSupervisionMonitor: what is observed, then either the goal goes to   *)
(* the verifier or its plan is dispatched; a goal without an approved plan *)
(* makes the dispatcher throw, which is logged.                            *)
MonitorScan ==
    LET p == goal.plan IN
    /\ goal.status = "running"
    /\ \E E \in SUBSET {e \in Observable(p) : \A d \in events : d.event # e} :
          /\ Cardinality(events) + Cardinality(E) <= EventCap
          /\ events' = events \cup {[event |-> e, corrected |-> FALSE] : e \in E}
    /\ IF AllDone(p)
       THEN MoveTo("verifying") /\ UNCHANGED <<tasks, orders>>
       ELSE Stays /\ (DispatchGoal \/ UNCHANGED <<tasks, orders>>)
    /\ UNCHANGED <<plans, judging, humans>>

(***************************************************************************)
(* Corrections.                                                            *)
(***************************************************************************)
Correctable == goal.status \in {"running", "blocked", "verifying"}

(* resumeBlockedGoalForWorkerRecovery *)
Resumed(action) == IF goal.status = "blocked" /\ action \in Recovery
                   THEN MoveTo("running") ELSE Stays

(* taskContext and planTaskFor: a task is found by its row and looked up   *)
(* in the current plan by its key, whichever plan the row belongs to.      *)
Addressable(t) == tasks[t].status # "absent" /\ t[2] \in Planned(goal.plan)

(* The branches retry_task and reassign_task, for an event or by hand.     *)
CorrectWorker(t, action, cause) ==
    /\ Correctable
    /\ Addressable(t)
    /\ CASE action = "reassign_task" ->
              /\ tasks[t].moves < MaxRetries
              /\ \E w \in Workers \ {tasks[t].worker} :
                    /\ Load(w) < 3
                    /\ tasks' = [tasks EXCEPT ![t].worker = w, ![t].status = "in_progress",
                                              ![t].moves = @ + 1]
         [] action = "retry_task" ->
              /\ tasks[t].worker # NoWorker
              /\ tasks[t].retries < MaxRetries
              /\ tasks' = [tasks EXCEPT ![t].status = "in_progress", ![t].failed = FALSE,
                                        ![t].retries = @ + 1]
    /\ Resumed(action)
    /\ orders' = orders \cup {Order(t, action, cause)}

(* The branch escalate_human. *)
Escalate == /\ Correctable
            /\ IF goal.status = "blocked" THEN Stays ELSE MoveTo("blocked")
            /\ UNCHANGED <<tasks, orders>>

(* Mutation: the budget of replans is not compared.                        *)
ReplanUncounted == /\ Correctable
                   /\ goal' = [goal EXCEPT !.status = "planning", !.replans = @ + 1]
                   /\ NextVersion
                   /\ UNCHANGED <<tasks, orders>>

(* The branch request_replan.  Like all corrections it compares no version.*)
Replan == /\ Correctable
          /\ goal.replans < MaxReplans
          /\ goal' = [goal EXCEPT !.status = "planning", !.replans = @ + 1]
          /\ NextVersion
          /\ UNCHANGED <<tasks, orders>>

(* POST goals/[id]/tasks/[taskId]/actions, for a request that names no     *)
(* source event.  The actions request_progress and correct_direction only  *)
(* send a message and are left out.                                        *)
ManualCorrection ==
    /\ ByHuman
    /\ \/ \E t \in Ids, a \in Recovery : CorrectWorker(t, a, Observation(t, "manual"))
       \/ Escalate
       \/ Replan
    /\ UNCHANGED <<plans, events, judging>>

(* One turn of the loop of runSupervisionCorrections.  No turn ends what   *)
(* makes another event due, so the turns need no common action.  What the  *)
(* correction throws is escalated under the same event.                    *)
AutoCorrection(e) ==
    /\ Correctable
    /\ tasks[e.event.task].status = "in_progress"
    /\ ~e.corrected
    /\ events' = (events \ {e}) \cup {[e EXCEPT !.corrected = TRUE]}
    /\ \/ /\ e.event.kind \in {"dispatch_failure", "worker_offline"}
          /\ CorrectWorker(e.event.task, "reassign_task", e.event)
       \/ /\ e.event.kind = "timeout" /\ Addressable(e.event.task)
          /\ Stays /\ UNCHANGED <<tasks, orders>>
       \/ Escalate
    /\ UNCHANGED <<plans, judging, humans>>

(***************************************************************************)
(* The verifier and the budgets.                                           *)
(***************************************************************************)
Results(p) == {<<t[2], Counts(t)>> : t \in TasksOf(p)}

(* verifySupervisionGoal up to its await; the tasks are looked at here and *)
(* not again.  Without independent evidence for a task no one is asked and *)
(* the goal goes to a human at once.                                       *)
AskForVerdict ==
    /\ goal.status = "verifying"
    /\ AllDone(goal.plan)
    /\ \/ Ask("verdict", Results(goal.plan)) /\ UNCHANGED seen
       \/ MoveTo("blocked") /\ UNCHANGED judging
    /\ UNCHANGED <<plans, tasks, orders, events, humans>>

(* Mutation: the verdict is written whatever the status is by now.         *)
VerdictAnyState(j) ==
    /\ j.kind = "verdict"
    /\ judging' = judging \ {j}
    /\ \E s \in {"completed", "running", "blocked"} : MoveTo(s)
    /\ UNCHANGED <<plans, tasks, orders, events, humans>>

(* recordVerification: whatever verification of the goal is going on takes *)
(* the verdict; an error, or a goal that is not verified any more, changes *)
(* nothing.                                                                *)
Verdict(j) ==
    /\ j.kind = "verdict"
    /\ judging' = judging \ {j}
    /\ \/ /\ goal.status = "verifying"
          /\ \E s \in {"completed", "running", "blocked"} : MoveTo(s)
       \/ Stays
    /\ UNCHANGED <<plans, tasks, orders, events, humans>>

(* enforceSupervisionBudgets: the deadline or the runtime is exceeded.     *)
EnforceBudgets ==
    /\ goal.status \in {"planning", "awaiting_plan_approval", "running", "verifying"}
    /\ MoveTo("blocked")
    /\ UNCHANGED <<plans, tasks, orders, events, judging, humans>>

GoalNext ==
    \/ Look
    \/ \E a \in Action, p \in 0..PlanCap : HumanAction(a, p)
    \/ UpdateGoal
    \/ \E D \in Drafts, waits \in BOOLEAN : SubmitPlan(D, waits)
    \/ AskForPlan
    \/ \E j \in judging : PlanAnswer(j)
    \/ Dispatch
    \/ \E t \in Ids, failed \in BOOLEAN : Complete(t, failed)
    \/ MonitorScan
    \/ ManualCorrection
    \/ \E e \in events : AutoCorrection(e)
    \/ AskForVerdict
    \/ \E j \in judging : Verdict(j)
    \/ EnforceBudgets

GoalSpec == GoalInit /\ [][GoalNext]_goalVars

(***************************************************************************)
(* Properties.                                                             *)
(***************************************************************************)

(* What an order or an event may be about. *)
Observed == [task : Ids,
             kind : {"plan", "manual", "dispatch_failure", "worker_offline", "timeout"},
             at : (0..MaxRetries) \X (0..MaxRetries)]

(* The rows are well formed. *)
GoalTypeOK ==
    /\ goal \in [status : GoalStatus, plan : 0..PlanCap, replans : 0..MaxReplans,
                 calls : 0..MaxCalls]
    /\ plans \in Seq([status : PlanStatus, needs : Drafts]) /\ Len(plans) <= PlanCap
    /\ tasks \in [Ids -> [status : {"absent", "inbox", "in_progress", "done"},
                          failed : BOOLEAN, worker : Workers \cup {NoWorker},
                          retries : 0..MaxRetries, moves : 0..MaxRetries]]
    /\ orders \subseteq [task : Ids, action : {"dispatch"} \cup Recovery, cause : Observed]
    /\ events \subseteq [event : Observed, corrected : BOOLEAN]
    /\ \A j \in judging : j.id \in 1..MaxCalls /\ j.kind \in {"plan", "verdict"}
    /\ seen \in {Unread} \cup (GoalStatus \X (0..PlanCap))

(* The optimistic lock of the goal (expectedVersion of                     *)
(* applySupervisionGoalAction) protects operators from every other writer  *)
(* of the row: whoever changes the status or the current plan, scheduler,  *)
(* correction, verifier or another operator, also changes the version, so  *)
(* a request that is accepted was made by someone who saw both.            *)
SeenIsCurrent == seen # Unread => seen = <<goal.status, goal.plan>>

(* A goal that is completed, failed or cancelled stays so, whatever answer *)
(* of the steward, correction, observation or budget check is still on its *)
(* way: several of these write the row without comparing its version.      *)
TerminalStays == [][goal.status \in Terminal => goal'.status = goal.status]_goalVars

(* Work is created only from plans that were approved, by the operator or  *)
(* because no approval was needed: not under a draft or a rejected plan,   *)
(* although pausing, resuming, replanning and naming a plan in a request   *)
(* all move the goal between its plans.                                    *)
WorkIsApproved ==
    \A t \in Ids : tasks[t].status # "absent" =>
        /\ t[2] \in Planned(t[1])
        /\ plans[t[1]].status \in {"approved", "superseded"}

(* Every retry and every new Worker of a task, by hand or automatic, is an *)
(* order of its own: none is counted against the budget of the task and    *)
(* then swallowed because its idempotency key was used before.             *)
EveryRecoveryOrdered ==
    \A t \in Ids :
        Cardinality({o \in orders : o.task = t /\ o.action \in Recovery})
            = tasks[t].retries + tasks[t].moves

(* A task was dispatched after what it depends on: each such task is done  *)
(* and did not fail, unless it has been retried or reassigned since.       *)
DependenciesFirst ==
    \A o \in orders : o.action = "dispatch" =>
        \A k \in plans[o.task[1]].needs[o.task[2]] :
            LET d == tasks[<<o.task[1], k>>]
            IN  (d.status = "done" /\ ~d.failed) \/ d.retries + d.moves > 0

(* Apart from tasks that a correction started again, no plan has more      *)
(* tasks under way than max_parallel_workers, and no Worker more than one, *)
(* counting what earlier plans of the goal left running.                   *)
ParallelLimits ==
    LET firsts == {t \in InProgress(Ids) : Counts(t) = <<0, 0>>}
    IN  /\ \A p \in 1..PlanCap : Cardinality({t \in firsts : t[1] = p}) <= MaxParallel
        /\ \A w \in Workers : Cardinality({t \in firsts : tasks[t].worker = w}) <= 1

(* A goal is completed by a verdict only on the results the verdict is     *)
(* about: the tasks of the current plan, still done, as they were when the *)
(* steward was asked.                                                      *)
AcceptedAsJudged ==
    [][\A j \in judging :
          (goal.status = "verifying" /\ goal'.status = "completed" /\ j \notin judging') =>
              /\ j.plan = goal.plan
              /\ AllDone(goal.plan)
              /\ j.of = Results(goal.plan)]_goalVars
=============================================================================
