-------------------------- MODULE SupervisionProofs --------------------------
(***************************************************************************)
(* Proofs about Supervision for every set of tasks, plans and Workers and  *)
(* every budget.                                                           *)
(***************************************************************************)
EXTENDS Supervision, SequenceTheorems, FiniteSetTheorems, TLAPS

PlanRow == [status : PlanStatus, needs : Drafts]
TaskRow == [status : {"absent", "inbox", "in_progress", "done"},
            failed : BOOLEAN, worker : Workers \cup {NoWorker},
            retries : 0..MaxRetries, moves : 0..MaxRetries]
OrderRow == [task : Ids, action : {"dispatch"} \cup Recovery, cause : Observed]
EventRow == [event : Observed, corrected : BOOLEAN]
GoalRow == [status : GoalStatus, plan : 0..PlanCap, replans : 0..MaxReplans, calls : 0..MaxCalls]

-----------------------------------------------------------------------------
\* Lemmas about the tables.

\* A plan's tasks are keys, and depend on tasks of the same plan.
LEMMA DraftRows ==
  ASSUME NEW D \in Drafts
  PROVE  DOMAIN D \subseteq Keys /\ \A k \in DOMAIN D : D[k] \subseteq DOMAIN D
BY DraftsAreClosed

LEMMA PlanRows ==
  ASSUME GoalTypeOK
  PROVE  /\ DOMAIN plans = 1..Len(plans) /\ Len(plans) \in Nat /\ Len(plans) <= PlanCap
         /\ \A p \in DOMAIN plans : plans[p] \in PlanRow /\ plans[p].needs \in Drafts /\ p \in 1..PlanCap
         /\ plans \in Seq(PlanRow)
<1>1. plans \in Seq(PlanRow) /\ Len(plans) <= PlanCap
  BY DEF GoalTypeOK, PlanRow
<1>2. Len(plans) \in Nat /\ DOMAIN plans = 1..Len(plans)
  BY <1>1, LenProperties
<1>3. \A p \in DOMAIN plans : plans[p] \in PlanRow
  BY <1>1, <1>2, ElementOfSeq
<1>4. \A r \in PlanRow : r.needs \in Drafts
  BY DEF PlanRow
<1>5. \A p \in DOMAIN plans : p \in 1..PlanCap
  BY <1>1, <1>2, Budgets
<1> QED
  BY <1>1, <1>2, <1>3, <1>4, <1>5

\* The tasks of a plan have rows.
LEMMA PlannedRows ==
  ASSUME GoalTypeOK, NEW p
  PROVE  /\ {p} \X Planned(p) \subseteq Ids
         /\ \A k \in Planned(p) :
              /\ p \in DOMAIN plans
              /\ plans[p].needs[k] \subseteq Planned(p)
              /\ \A d \in plans[p].needs[k] : <<p, d>> \in Ids
<1>1. CASE p \in DOMAIN plans
  <2>1. plans[p].needs \in Drafts /\ p \in 1..PlanCap
    BY <1>1, PlanRows
  <2>2. /\ DOMAIN plans[p].needs \subseteq Keys
        /\ \A k \in DOMAIN plans[p].needs : plans[p].needs[k] \subseteq DOMAIN plans[p].needs
    BY <2>1, DraftRows
  <2> QED
    BY <1>1, <2>1, <2>2 DEF Planned, Ids
<1>2. CASE p \notin DOMAIN plans
  BY <1>2 DEF Planned
<1> QED
  BY <1>1, <1>2

LEMMA IdsFinite == IsFiniteSet(Ids)
<1>1. IsFiniteSet(1..PlanCap)
  BY Budgets, FS_Interval
<1> QED
  BY <1>1, KeysAssumption, FS_Product DEF Ids

-----------------------------------------------------------------------------
\* What a step does to the plans.
Approves(p) == plans[p].status = "draft" /\ plans' = Approved(p)
Rejects(p) == plans[p].status = "draft" /\ plans' = [plans EXCEPT ![p].status = "rejected"]
Saves == \E D \in Drafts, waits \in BOOLEAN :
           plans' = Append(plans, [status |-> IF waits THEN "draft" ELSE "approved", needs |-> D])
           /\ Len(plans) < PlanCap
PlansStep == \/ UNCHANGED plans
             \/ \E p \in DOMAIN plans : Approves(p) \/ Rejects(p)
             \/ Saves

\* Plans are only added, and an approved plan stays approved or is superseded.
PlansGrow ==
  /\ DOMAIN plans \subseteq DOMAIN plans'
  /\ \A p \in DOMAIN plans :
       /\ plans'[p].needs = plans[p].needs
       /\ plans[p].status \in {"approved", "superseded"}
            => plans'[p].status \in {"approved", "superseded"}

LEMMA PlansAfter ==
  ASSUME GoalTypeOK, PlansStep
  PROVE  plans' \in Seq(PlanRow) /\ Len(plans') <= PlanCap /\ PlansGrow
<1>0. /\ DOMAIN plans = 1..Len(plans) /\ Len(plans) \in Nat /\ Len(plans) <= PlanCap
      /\ plans \in Seq(PlanRow)
      /\ \A p \in DOMAIN plans : plans[p] \in PlanRow
  BY PlanRows
<1>1. CASE UNCHANGED plans
  BY <1>0, <1>1 DEF PlansGrow
<1>2. ASSUME NEW p \in DOMAIN plans, Approves(p)
      PROVE  plans' \in Seq(PlanRow) /\ Len(plans') <= PlanCap /\ PlansGrow
  <2>1. \A q \in DOMAIN plans :
          /\ Approved(p)[q] \in PlanRow
          /\ Approved(p)[q].needs = plans[q].needs
          /\ plans[q].status \in {"approved", "superseded"}
               => Approved(p)[q].status \in {"approved", "superseded"}
    BY <1>0 DEF Approved, PlanRow, PlanStatus
  <2>2. Approved(p) = [q \in 1..Len(plans) |-> Approved(p)[q]]
    BY <1>0 DEF Approved
  <2>3. Approved(p) \in [1..Len(plans) -> PlanRow]
    BY <1>0, <2>1, <2>2
  <2>4. plans' \in [1..Len(plans) -> PlanRow]
    BY <1>2, <2>3 DEF Approves
  <2>5. plans' \in Seq(PlanRow) /\ Len(plans') = Len(plans) /\ DOMAIN plans' = DOMAIN plans
    BY <1>0, <2>4, SeqDef, LenProperties
  <2> QED
    BY <1>0, <1>2, <2>1, <2>5 DEF Approves, PlansGrow
<1>3. ASSUME NEW p \in DOMAIN plans, Rejects(p)
      PROVE  plans' \in Seq(PlanRow) /\ Len(plans') <= PlanCap /\ PlansGrow
  <2> DEFINE r == [plans[p] EXCEPT !.status = "rejected"]
  <2>1. r \in PlanRow /\ r.needs = plans[p].needs
    BY <1>0 DEF PlanRow, PlanStatus
  <2>2. plans' = [plans EXCEPT ![p] = r]
    BY <1>3 DEF Rejects
  <2> HIDE DEF r
  <2>3. /\ plans' \in Seq(PlanRow) /\ Len(plans') = Len(plans)
        /\ \A q \in 1..Len(plans) : plans'[q] = IF q = p THEN r ELSE plans[q]
    BY <1>0, <2>1, <2>2, ExceptSeq
  <2>4. DOMAIN plans' = DOMAIN plans
    BY <2>2
  <2> QED
    BY <1>0, <1>3, <2>1, <2>3, <2>4 DEF Rejects, PlansGrow
<1>4. ASSUME Saves
      PROVE  plans' \in Seq(PlanRow) /\ Len(plans') <= PlanCap /\ PlansGrow
  <2>1. PICK D \in Drafts, waits \in BOOLEAN :
          /\ plans' = Append(plans, [status |-> IF waits THEN "draft" ELSE "approved", needs |-> D])
          /\ Len(plans) < PlanCap
    BY <1>4 DEF Saves
  <2> DEFINE r == [status |-> IF waits THEN "draft" ELSE "approved", needs |-> D]
  <2>2. r \in PlanRow
    BY DEF PlanRow, PlanStatus
  <2> HIDE DEF r
  <2>3. plans' = Append(plans, r) /\ Len(plans) < PlanCap
    BY <2>1 DEF r
  <2>4. /\ plans' \in Seq(PlanRow) /\ Len(plans') = Len(plans) + 1
        /\ \A q \in 1..Len(plans) : plans'[q] = plans[q]
    BY <1>0, <2>2, <2>3, AppendProperties
  <2>5. DOMAIN plans' = 1..(Len(plans) + 1)
    BY <2>4, LenProperties
  <2> QED
    BY <1>0, <2>3, <2>4, <2>5, Budgets DEF PlansGrow
<1> QED
  BY <1>1, <1>2, <1>3, <1>4 DEF PlansStep

-----------------------------------------------------------------------------
\* What a step does to the row of the goal, and to what an operator read of it.
KeepsGoal == goal'.status = goal.status /\ goal'.plan = goal.plan
GoalStep ==
  /\ goal' \in GoalRow
  /\ \/ seen' = Unread
     \/ KeepsGoal /\ (seen' = seen \/ seen' = <<goal.status, goal.plan>>)
  /\ goal.status \in Terminal => goal'.status = goal.status

LEMMA GoalKept ==
  ASSUME GoalTypeOK, Stays
  PROVE  GoalStep
BY DEF GoalTypeOK, GoalRow, Stays, GoalStep, KeepsGoal

LEMMA GoalMoved ==
  ASSUME GoalTypeOK, NEW s \in GoalStatus, goal.status \notin Terminal, MoveTo(s)
  PROVE  GoalStep
BY DEF GoalTypeOK, GoalRow, MoveTo, NextVersion, GoalStep

LEMMA GoalAsked ==
  ASSUME GoalTypeOK, NEW kind, NEW of, Ask(kind, of), UNCHANGED seen
  PROVE  GoalStep
<1>1. goal \in GoalRow
  BY DEF GoalTypeOK, GoalRow
<1>2. goal' = [goal EXCEPT !.calls = goal.calls + 1] /\ goal.calls < MaxCalls
  BY DEF Ask
<1>3. goal.calls + 1 \in 0..MaxCalls
  BY <1>1, <1>2, Budgets DEF GoalRow
<1>4. goal' \in GoalRow /\ KeepsGoal
  BY <1>1, <1>2, <1>3 DEF GoalRow, KeepsGoal
<1> QED
  BY <1>4 DEF GoalStep, KeepsGoal

LEMMA GoalPlanned ==
  ASSUME GoalTypeOK, NEW D \in Drafts, NEW waits \in BOOLEAN, SavePlan(D, waits)
  PROVE  GoalStep /\ Saves
<1>1. Saves
  BY DEF SavePlan, Saves
<1>2. Len(plans) \in Nat /\ Len(plans) < PlanCap /\ PlanCap \in Nat
  BY PlanRows, Budgets DEF SavePlan
<1>3. Len(plans) + 1 \in 0..PlanCap
  BY <1>2
<1>4. goal' \in GoalRow
  BY <1>3 DEF SavePlan, GoalTypeOK, GoalRow, GoalStatus
<1>5. goal.status \notin Terminal /\ seen' = Unread
  BY DEF SavePlan, NextVersion, Terminal
<1> QED
  BY <1>1, <1>4, <1>5 DEF GoalStep

-----------------------------------------------------------------------------
\* What a step does to the tasks and the messages about them.
Others(t) == \A u \in Ids : u # t => tasks'[u] = tasks[u]
Rests == UNCHANGED <<tasks, orders>>
Gives == DispatchGoal /\ UNCHANGED plans
Reports(t) ==
  /\ tasks[t].status = "in_progress" /\ tasks'[t].status = "done"
  /\ tasks'[t].retries = tasks[t].retries /\ tasks'[t].moves = tasks[t].moves
  /\ tasks' \in [Ids -> TaskRow] /\ Others(t)
  /\ UNCHANGED <<plans, orders>>
Recovers(t, action, cause) ==
  /\ tasks[t].status # "absent" /\ tasks'[t].status = "in_progress"
  /\ \/ tasks'[t].retries = tasks[t].retries + 1 /\ tasks'[t].moves = tasks[t].moves
     \/ tasks'[t].retries = tasks[t].retries /\ tasks'[t].moves = tasks[t].moves + 1
  /\ tasks' \in [Ids -> TaskRow] /\ Others(t)
  /\ orders' = orders \cup {Order(t, action, cause)}
  /\ UNCHANGED plans

\* What it does to the observations.
Finds(E) ==
  /\ \A e \in E : e \in Observed /\ e.kind # "manual" /\ \A d \in events : d.event # e
  /\ events' = events \cup {[event |-> e, corrected |-> FALSE] : e \in E}
Corrects(e) ==
  /\ e \in events /\ ~e.corrected
  /\ events' = (events \ {e}) \cup {[e EXCEPT !.corrected = TRUE]}
EventsStep == \/ UNCHANGED events
              \/ \E E \in SUBSET Observed : Finds(E)
              \/ \E e \in events : Corrects(e)

JudgingOK == \A j \in judging : j.id \in 1..MaxCalls /\ j.kind \in {"plan", "verdict"}

Moves ==
  \/ Rests /\ PlansStep /\ EventsStep
  \/ Gives /\ EventsStep
  \/ \E t \in Ids : Reports(t) /\ UNCHANGED events
  \/ \E t \in Ids, a \in Recovery : Recovers(t, a, Observation(t, "manual")) /\ UNCHANGED events
  \/ \E e \in events : Recovers(e.event.task, "reassign_task", e.event) /\ Corrects(e)

LEMMA Observations ==
  ASSUME GoalTypeOK, NEW t \in Ids,
         NEW kind \in {"plan", "manual", "dispatch_failure", "worker_offline", "timeout"}
  PROVE  Observation(t, kind) \in Observed
<1>1. tasks[t] \in TaskRow
  BY DEF GoalTypeOK, TaskRow
<1>2. Counts(t) \in (0..MaxRetries) \X (0..MaxRetries)
  BY <1>1 DEF TaskRow, Counts
<1> QED
  BY <1>2 DEF Observation, Observed

\* A retry or a reassignment, under either of its names.
LEMMA CorrectionRecovers ==
  ASSUME GoalTypeOK, NEW t \in Ids, NEW a \in Recovery, NEW cause,
         CorrectWorker(t, a, cause), UNCHANGED plans
  PROVE  Recovers(t, a, cause)
<1>1. tasks \in [Ids -> TaskRow] /\ tasks[t] \in TaskRow
  BY DEF GoalTypeOK, TaskRow
<1>2. /\ tasks[t].status # "absent"
      /\ orders' = orders \cup {Order(t, a, cause)}
  BY DEF CorrectWorker, Addressable
<1>3. CASE a = "reassign_task"
  <2>1. PICK w \in Workers :
          /\ tasks[t].moves < MaxRetries
          /\ tasks' = [tasks EXCEPT ![t].worker = w, ![t].status = "in_progress",
                                    ![t].moves = @ + 1]
    BY <1>3 DEF CorrectWorker
  <2> DEFINE r == [tasks[t] EXCEPT !.worker = w, !.status = "in_progress", !.moves = @ + 1]
  <2>2. /\ r \in TaskRow /\ r.status = "in_progress"
        /\ r.retries = tasks[t].retries /\ r.moves = tasks[t].moves + 1
    BY <1>1, <2>1, Budgets DEF TaskRow
  <2>3. tasks' = [tasks EXCEPT ![t] = r]
    BY <1>1, <2>1
  <2> HIDE DEF r
  <2>4. tasks' \in [Ids -> TaskRow] /\ tasks'[t] = r /\ Others(t)
    BY <1>1, <2>2, <2>3 DEF Others
  <2> QED
    BY <1>2, <2>2, <2>4 DEF Recovers
<1>4. CASE a = "retry_task"
  <2>1. /\ tasks[t].retries < MaxRetries
        /\ tasks' = [tasks EXCEPT ![t].status = "in_progress", ![t].failed = FALSE,
                                  ![t].retries = @ + 1]
    BY <1>4 DEF CorrectWorker
  <2> DEFINE r == [tasks[t] EXCEPT !.status = "in_progress", !.failed = FALSE, !.retries = @ + 1]
  <2>2. /\ r \in TaskRow /\ r.status = "in_progress"
        /\ r.moves = tasks[t].moves /\ r.retries = tasks[t].retries + 1
    BY <1>1, <2>1, Budgets DEF TaskRow
  <2>3. tasks' = [tasks EXCEPT ![t] = r]
    BY <1>1, <2>1
  <2> HIDE DEF r
  <2>4. tasks' \in [Ids -> TaskRow] /\ tasks'[t] = r /\ Others(t)
    BY <1>1, <2>2, <2>3 DEF Others
  <2> QED
    BY <1>2, <2>2, <2>4 DEF Recovers
<1> QED
  BY <1>3, <1>4 DEF Recovery

LEMMA ReportOf ==
  ASSUME GoalTypeOK, NEW t \in Ids, NEW failed \in BOOLEAN, Complete(t, failed)
  PROVE  Reports(t)
<1>1. tasks \in [Ids -> TaskRow] /\ tasks[t] \in TaskRow
  BY DEF GoalTypeOK, TaskRow
<1>2. /\ tasks[t].status = "in_progress" /\ UNCHANGED <<plans, orders>>
      /\ tasks' = [tasks EXCEPT ![t].status = "done", ![t].failed = failed]
  BY DEF Complete
<1> DEFINE r == [tasks[t] EXCEPT !.status = "done", !.failed = failed]
<1>3. r \in TaskRow /\ r.status = "done" /\ r.retries = tasks[t].retries /\ r.moves = tasks[t].moves
  BY <1>1 DEF TaskRow
<1>4. tasks' = [tasks EXCEPT ![t] = r]
  BY <1>1, <1>2
<1> HIDE DEF r
<1>5. tasks' \in [Ids -> TaskRow] /\ tasks'[t] = r /\ Others(t)
  BY <1>1, <1>3, <1>4 DEF Others
<1> QED
  BY <1>2, <1>3, <1>5 DEF Reports

\* The branches of a correction that is no recovery.
LEMMA GoalEscalates ==
  ASSUME GoalTypeOK, Escalate
  PROVE  GoalStep /\ Rests
<1>1. "blocked" \in GoalStatus /\ goal.status \notin Terminal /\ Rests
  BY DEF Escalate, Correctable, GoalStatus, Terminal, Rests
<1>2. Stays \/ MoveTo("blocked")
  BY DEF Escalate
<1> QED
  BY <1>1, <1>2, GoalKept, GoalMoved

LEMMA GoalReplans ==
  ASSUME GoalTypeOK, Replan
  PROVE  GoalStep /\ Rests
<1>1. goal \in GoalRow
  BY DEF GoalTypeOK, GoalRow
<1>2. /\ goal' = [goal EXCEPT !.status = "planning", !.replans = goal.replans + 1]
      /\ goal.replans < MaxReplans /\ seen' = Unread
      /\ goal.status \notin Terminal /\ Rests
  BY DEF Replan, Correctable, NextVersion, Rests, Terminal
<1>3. goal.replans + 1 \in 0..MaxReplans
  BY <1>1, <1>2, Budgets DEF GoalRow
<1>4. goal' \in GoalRow
  BY <1>1, <1>2, <1>3 DEF GoalRow, GoalStatus
<1> QED
  BY <1>2, <1>4 DEF GoalStep

LEMMA GoalResumed ==
  ASSUME GoalTypeOK, NEW t, NEW action, NEW cause, CorrectWorker(t, action, cause)
  PROVE  GoalStep
<1>1. Stays \/ (MoveTo("running") /\ goal.status = "blocked")
  BY DEF CorrectWorker, Resumed
<1>2. "running" \in GoalStatus /\ (goal.status = "blocked" => goal.status \notin Terminal)
  BY DEF GoalStatus, Terminal
<1> QED
  BY <1>1, <1>2, GoalKept, GoalMoved

\* What a call of the steward is kept as.
LEMMA Asked ==
  ASSUME GoalTypeOK, NEW kind \in {"plan", "verdict"}, NEW of, Ask(kind, of)
  PROVE  JudgingOK'
<1>1. goal.calls \in 0..MaxCalls /\ goal.calls < MaxCalls
  BY DEF GoalTypeOK, Ask
<1>2. goal.calls + 1 \in 1..MaxCalls
  BY <1>1, Budgets
<1> DEFINE j == [id |-> goal.calls + 1, kind |-> kind, plan |-> goal.plan, of |-> of]
<1>3. judging' = judging \cup {j} /\ j.id = goal.calls + 1 /\ j.kind = kind
  BY DEF Ask
<1> HIDE DEF j
<1> QED
  BY <1>2, <1>3 DEF GoalTypeOK, JudgingOK

\* The row of the goal after a request of an operator.
LEMMA GoalRequested ==
  ASSUME GoalTypeOK, NEW a \in Action, NEW p \in 0..PlanCap, HumanAction(a, p)
  PROVE  GoalStep /\ PlansStep
<1>1. /\ goal \in GoalRow /\ seen' = Unread
      /\ goal.status \in Targets(a).from
      /\ goal' = [goal EXCEPT !.status = Targets(a).to, !.plan = p]
  BY DEF HumanAction, GoalTypeOK, GoalRow, NextVersion
<1>2. Targets(a).to \in GoalStatus /\ Targets(a).from \cap Terminal = {}
  BY DEF Targets, Action, GoalStatus, Terminal
<1>3. GoalStep
  BY <1>1, <1>2 DEF GoalRow, GoalStep
<1>4. CASE a = "approve_plan"
  <2>1. p \in DOMAIN plans /\ Approves(p)
    BY <1>4 DEF HumanAction, Approves
  <2> QED
    BY <1>3, <2>1 DEF PlansStep
<1>5. CASE a = "reject_plan"
  <2>1. p \in DOMAIN plans /\ Rejects(p)
    BY <1>5 DEF HumanAction, Rejects
  <2> QED
    BY <1>3, <2>1 DEF PlansStep
<1>6. CASE a # "approve_plan" /\ a # "reject_plan"
  BY <1>3, <1>6 DEF HumanAction, PlansStep
<1> QED
  BY <1>4, <1>5, <1>6

\* What the monitor finds concerns tasks that exist.
LEMMA ScanFinds ==
  ASSUME GoalTypeOK, MonitorScan
  PROVE  \E E \in SUBSET Observed : Finds(E)
<1>1. PICK E \in SUBSET {e \in Observable(goal.plan) : \A d \in events : d.event # e} :
        events' = events \cup {[event |-> e, corrected |-> FALSE] : e \in E}
  BY DEF MonitorScan
<1>2. TasksOf(goal.plan) \subseteq Ids
  BY DEF TasksOf
<1>3. \A t, kind : Observation(t, kind).kind = kind
  BY DEF Observation
<1>4. \A e \in Observable(goal.plan) : e \in Observed /\ e.kind # "manual"
  BY <1>2, <1>3, Observations DEF Observable, InProgress
<1>5. Finds(E) /\ E \in SUBSET Observed
  BY <1>1, <1>4 DEF Finds
<1> QED
  BY <1>5

LEMMA NextIs ==
  ASSUME GoalTypeOK, [GoalNext]_goalVars
  PROVE  GoalStep /\ JudgingOK' /\ Moves
<1>0. JudgingOK /\ goal.status \in GoalStatus
  BY DEF GoalTypeOK, JudgingOK
<1>1. CASE UNCHANGED goalVars
  BY <1>0, <1>1, GoalKept
  DEF goalVars, Stays, JudgingOK, Moves, Rests, PlansStep, EventsStep
<1>2. CASE Look
  BY <1>0, <1>2
  DEF Look, GoalTypeOK, GoalStep, GoalRow, KeepsGoal, JudgingOK, Moves, Rests, PlansStep, EventsStep
<1>3. ASSUME NEW a \in Action, NEW p \in 0..PlanCap, HumanAction(a, p)
      PROVE  GoalStep /\ JudgingOK' /\ Moves
  <2>1. UNCHANGED <<tasks, orders, events, judging>>
    BY <1>3 DEF HumanAction
  <2> QED
    BY <1>0, <1>3, <2>1, GoalRequested DEF JudgingOK, Moves, Rests, EventsStep
<1>4. CASE UpdateGoal
  BY <1>0, <1>4
  DEF UpdateGoal, NextVersion, GoalTypeOK, GoalStep, GoalRow, JudgingOK, Moves, Rests, PlansStep, EventsStep
<1>5. ASSUME NEW D \in Drafts, NEW waits \in BOOLEAN, SubmitPlan(D, waits)
      PROVE  GoalStep /\ JudgingOK' /\ Moves
  <2>1. UNCHANGED <<tasks, orders, events, judging>> /\ SavePlan(D, waits)
    BY <1>5 DEF SubmitPlan
  <2>2. GoalStep /\ PlansStep
    BY <2>1, GoalPlanned DEF PlansStep
  <2> QED
    BY <1>0, <2>1, <2>2 DEF JudgingOK, Moves, Rests, EventsStep
<1>6. CASE AskForPlan
  <2>1. UNCHANGED <<plans, tasks, orders, events, seen>> /\ Ask("plan", {})
    BY <1>6 DEF AskForPlan
  <2>2. GoalStep /\ JudgingOK'
    BY <2>1, GoalAsked, Asked
  <2> QED
    BY <2>1, <2>2 DEF Moves, Rests, PlansStep, EventsStep
<1>7. ASSUME NEW j \in judging, PlanAnswer(j)
      PROVE  GoalStep /\ JudgingOK' /\ Moves
  <2>1. UNCHANGED <<tasks, orders, events>> /\ judging' = judging \ {j}
    BY <1>7 DEF PlanAnswer
  <2>2. (\E D \in Drafts, waits \in BOOLEAN : SavePlan(D, waits)) \/ (Stays /\ UNCHANGED plans)
    BY <1>7 DEF PlanAnswer
  <2>3. GoalStep /\ PlansStep
    BY <2>2, GoalPlanned, GoalKept DEF PlansStep
  <2> QED
    BY <1>0, <2>1, <2>3 DEF JudgingOK, Moves, Rests, EventsStep
<1>8. CASE Dispatch
  <2>1. DispatchGoal /\ Stays /\ UNCHANGED <<plans, events, judging>>
    BY <1>8 DEF Dispatch, Stays
  <2> QED
    BY <1>0, <2>1, GoalKept DEF JudgingOK, Moves, Gives, EventsStep
<1>9. ASSUME NEW t \in Ids, NEW failed \in BOOLEAN, Complete(t, failed)
      PROVE  GoalStep /\ JudgingOK' /\ Moves
  <2>1. Stays /\ UNCHANGED <<events, judging>>
    BY <1>9 DEF Complete, Stays
  <2> QED
    BY <1>0, <1>9, <2>1, GoalKept, ReportOf DEF JudgingOK, Moves
<1>10. CASE MonitorScan
  <2>1. UNCHANGED <<plans, judging>>
    BY <1>10 DEF MonitorScan
  <2>2. EventsStep
    BY <1>10, ScanFinds DEF EventsStep
  <2>3. \/ MoveTo("verifying") /\ goal.status = "running" /\ Rests
        \/ Stays /\ (DispatchGoal \/ Rests)
    BY <1>10 DEF MonitorScan, Rests
  <2>4. GoalStep
    <3>1. "verifying" \in GoalStatus /\ "running" \notin Terminal
      BY DEF GoalStatus, Terminal
    <3> QED
      BY <2>3, <3>1, GoalKept, GoalMoved
  <2>5. Moves
    BY <2>1, <2>2, <2>3 DEF Moves, Gives, PlansStep
  <2> QED
    BY <1>0, <2>1, <2>4, <2>5 DEF JudgingOK
<1>11. CASE ManualCorrection
  <2>1. UNCHANGED <<plans, events, judging>>
    BY <1>11 DEF ManualCorrection
  <2>2. ASSUME NEW t \in Ids, NEW a \in Recovery, CorrectWorker(t, a, Observation(t, "manual"))
        PROVE  GoalStep /\ Moves
    <3>1. GoalStep
      BY <2>2, GoalResumed
    <3>2. Recovers(t, a, Observation(t, "manual"))
      BY <2>1, <2>2, CorrectionRecovers
    <3> QED
      BY <2>1, <3>1, <3>2 DEF Moves
  <2>3. ASSUME Escalate \/ Replan
        PROVE  GoalStep /\ Moves
    BY <2>1, <2>3, GoalEscalates, GoalReplans DEF Moves, PlansStep, EventsStep
  <2> QED
    BY <1>0, <1>11, <2>1, <2>2, <2>3 DEF ManualCorrection, JudgingOK
<1>12. ASSUME NEW e \in events, AutoCorrection(e)
       PROVE  GoalStep /\ JudgingOK' /\ Moves
  <2>1. UNCHANGED <<plans, judging>> /\ Corrects(e)
    BY <1>12 DEF AutoCorrection, Corrects
  <2>2. \/ CorrectWorker(e.event.task, "reassign_task", e.event)
        \/ Stays /\ Rests
        \/ Escalate
    BY <1>12 DEF AutoCorrection, Rests
  <2>3. ASSUME CorrectWorker(e.event.task, "reassign_task", e.event)
        PROVE  GoalStep /\ Moves
    <3>1. e.event.task \in Ids /\ "reassign_task" \in Recovery
      BY DEF GoalTypeOK, Observed, Recovery
    <3>2. GoalStep
      BY <2>3, GoalResumed
    <3>3. Recovers(e.event.task, "reassign_task", e.event)
      BY <2>1, <2>3, <3>1, CorrectionRecovers
    <3> QED
      BY <2>1, <3>2, <3>3 DEF Moves
  <2>4. ASSUME (Stays /\ Rests) \/ Escalate
        PROVE  GoalStep /\ Moves
    BY <2>1, <2>4, GoalEscalates, GoalKept DEF Moves, PlansStep, EventsStep
  <2> QED
    BY <1>0, <2>1, <2>2, <2>3, <2>4 DEF JudgingOK
<1>13. CASE AskForVerdict
  <2>1. UNCHANGED <<plans, tasks, orders, events>>
    BY <1>13 DEF AskForVerdict
  <2>2. \/ Ask("verdict", Results(goal.plan)) /\ UNCHANGED seen
        \/ MoveTo("blocked") /\ UNCHANGED judging /\ goal.status = "verifying"
    BY <1>13 DEF AskForVerdict
  <2>3. "blocked" \in GoalStatus /\ "verifying" \notin Terminal
    BY DEF GoalStatus, Terminal
  <2>4. GoalStep /\ JudgingOK'
    BY <1>0, <2>2, <2>3, GoalAsked, Asked, GoalMoved DEF JudgingOK
  <2> QED
    BY <2>1, <2>4 DEF Moves, Rests, PlansStep, EventsStep
<1>14. ASSUME NEW j \in judging, Verdict(j)
       PROVE  GoalStep /\ JudgingOK' /\ Moves
  <2>1. UNCHANGED <<plans, tasks, orders, events>> /\ judging' = judging \ {j}
    BY <1>14 DEF Verdict
  <2>2. \/ goal.status = "verifying" /\ \E s \in {"completed", "running", "blocked"} : MoveTo(s)
        \/ Stays
    BY <1>14 DEF Verdict
  <2>3. {"completed", "running", "blocked"} \subseteq GoalStatus /\ "verifying" \notin Terminal
    BY DEF GoalStatus, Terminal
  <2>4. GoalStep
    BY <2>2, <2>3, GoalKept, GoalMoved
  <2> QED
    BY <1>0, <2>1, <2>4 DEF JudgingOK, Moves, Rests, PlansStep, EventsStep
<1>15. CASE EnforceBudgets
  <2>1. UNCHANGED <<plans, tasks, orders, events, judging>> /\ MoveTo("blocked")
        /\ goal.status \notin Terminal /\ "blocked" \in GoalStatus
    BY <1>15 DEF EnforceBudgets, Terminal, GoalStatus
  <2> QED
    BY <1>0, <2>1, GoalMoved DEF JudgingOK, Moves, Rests, PlansStep, EventsStep
<1> QED
  BY <1>1, <1>2, <1>3, <1>4, <1>5, <1>6, <1>7, <1>8, <1>9, <1>10, <1>11, <1>12, <1>13, <1>14, <1>15
  DEF GoalNext

-----------------------------------------------------------------------------
\* A dispatch that gives the tasks in S to the Workers `to' names.
Sends(S, to) ==
  /\ HasApprovedPlan(goal.plan)
  /\ S \subseteq Ready(goal.plan)
  /\ \A t \in S : to[t] \in Workers /\ Free(to[t])
  /\ \A t, u \in S : to[t] = to[u] => t = u
  /\ S # {} => Cardinality(S) + Cardinality(InProgress(TasksOf(goal.plan))) <= MaxParallel
  /\ tasks' \in [Ids -> TaskRow]
  /\ \A t \in S : tasks'[t].status = "in_progress" /\ tasks'[t].worker = to[t]
  /\ \A t \in Ids :
       /\ tasks'[t].retries = tasks[t].retries /\ tasks'[t].moves = tasks[t].moves
       /\ t \in Waiting(goal.plan) /\ t \notin S => tasks'[t].status = "inbox"
       /\ t \notin Waiting(goal.plan) => tasks'[t] = tasks[t]
  /\ orders' = orders \cup {Order(t, "dispatch", Observation(t, "plan")) : t \in S}

LEMMA DispatchSends ==
  ASSUME GoalTypeOK, DispatchGoal
  PROVE  \E S, to : S \in SUBSET Ids /\ Sends(S, to)
<1> DEFINE p == goal.plan
<1>0. tasks \in [Ids -> TaskRow]
  BY DEF GoalTypeOK, TaskRow
<1>1. Ready(p) \subseteq Waiting(p) /\ Waiting(p) \subseteq Ids
  BY PlannedRows DEF Ready, Waiting
<1>2. PICK S \in SUBSET Ready(p) : \E to \in [S -> {w \in Workers : Free(w)}] :
        /\ \A t, u \in S : to[t] = to[u] => t = u
        /\ S # {} => Cardinality(S) + Cardinality(InProgress(TasksOf(p))) <= MaxParallel
        /\ tasks' = [t \in Ids |->
              IF t \in S THEN [tasks[t] EXCEPT !.status = "in_progress", !.worker = to[t]]
              ELSE IF t \in Waiting(p) THEN [tasks[t] EXCEPT !.status = "inbox"]
              ELSE tasks[t]]
        /\ orders' = orders \cup {Order(t, "dispatch", Observation(t, "plan")) : t \in S}
  BY DEF DispatchGoal
<1>3. PICK to \in [S -> {w \in Workers : Free(w)}] :
        /\ \A t, u \in S : to[t] = to[u] => t = u
        /\ S # {} => Cardinality(S) + Cardinality(InProgress(TasksOf(p))) <= MaxParallel
        /\ tasks' = [t \in Ids |->
              IF t \in S THEN [tasks[t] EXCEPT !.status = "in_progress", !.worker = to[t]]
              ELSE IF t \in Waiting(p) THEN [tasks[t] EXCEPT !.status = "inbox"]
              ELSE tasks[t]]
        /\ orders' = orders \cup {Order(t, "dispatch", Observation(t, "plan")) : t \in S}
  BY <1>2
<1>4. \A t \in S : to[t] \in Workers /\ Free(to[t])
  BY <1>3
<1>5. S \subseteq Waiting(p) /\ S \subseteq Ids
  BY <1>1
<1>6. ASSUME NEW t \in Ids
      PROVE  /\ tasks'[t] \in TaskRow
             /\ t \in S => tasks'[t].status = "in_progress" /\ tasks'[t].worker = to[t]
             /\ tasks'[t].retries = tasks[t].retries /\ tasks'[t].moves = tasks[t].moves
             /\ t \in Waiting(p) /\ t \notin S => tasks'[t].status = "inbox"
             /\ t \notin Waiting(p) => tasks'[t] = tasks[t]
  <2>1. tasks[t] \in TaskRow
    BY <1>0
  <2>2. CASE t \in S
    <3>1. tasks'[t] = [tasks[t] EXCEPT !.status = "in_progress", !.worker = to[t]]
      BY <1>3, <2>2
    <3>2. to[t] \in Workers /\ t \in Waiting(p)
      BY <1>4, <1>5, <2>2
    <3> QED
      BY <2>1, <2>2, <3>1, <3>2 DEF TaskRow
  <2>3. CASE t \notin S /\ t \in Waiting(p)
    <3>1. tasks'[t] = [tasks[t] EXCEPT !.status = "inbox"]
      BY <1>3, <2>3
    <3> QED
      BY <2>1, <2>3, <3>1 DEF TaskRow
  <2>4. CASE t \notin Waiting(p)
    <3>1. t \notin S
      BY <1>5, <2>4
    <3>2. tasks'[t] = tasks[t]
      BY <1>3, <2>4, <3>1
    <3> QED
      BY <2>1, <2>4, <3>1, <3>2
  <2> QED
    BY <2>2, <2>3, <2>4
<1>7. tasks' \in [Ids -> TaskRow]
  <2>1. tasks' = [t \in Ids |-> tasks'[t]]
    BY <1>3
  <2> QED
    BY <1>6, <2>1
<1>8. HasApprovedPlan(p)
  BY DEF DispatchGoal
<1>9. /\ \A t, u \in S : to[t] = to[u] => t = u
      /\ S # {} => Cardinality(S) + Cardinality(InProgress(TasksOf(p))) <= MaxParallel
      /\ orders' = orders \cup {Order(t, "dispatch", Observation(t, "plan")) : t \in S}
  BY <1>3
<1>10. \A t \in S : tasks'[t].status = "in_progress" /\ tasks'[t].worker = to[t]
  BY <1>5, <1>6
<1>11. S \subseteq Ready(p)
  OBVIOUS
<1>12. Sends(S, to)
  BY <1>4, <1>6, <1>7, <1>8, <1>9, <1>10, <1>11 DEF Sends
<1> QED
  BY <1>5, <1>12

-----------------------------------------------------------------------------
\* Type correctness.
LEMMA TypeInit == GoalInit => GoalTypeOK
<1> SUFFICES ASSUME GoalInit PROVE GoalTypeOK
  OBVIOUS
<1>1. Absent \in TaskRow
  BY Budgets DEF Absent, TaskRow
<1>2. tasks \in [Ids -> TaskRow]
  BY <1>1 DEF GoalInit
<1>3. plans \in Seq(PlanRow) /\ Len(plans) = 0
  BY DEF GoalInit
<1> QED
  BY <1>2, <1>3, Budgets DEF GoalInit, GoalTypeOK, GoalStatus, TaskRow, PlanRow

LEMMA TypeStep == GoalTypeOK /\ [GoalNext]_goalVars => GoalTypeOK'
<1> SUFFICES ASSUME GoalTypeOK, [GoalNext]_goalVars PROVE GoalTypeOK'
  OBVIOUS
<1>0. /\ goal \in GoalRow /\ tasks \in [Ids -> TaskRow]
      /\ orders \subseteq OrderRow /\ events \subseteq EventRow
      /\ seen \in {Unread} \cup (GoalStatus \X (0..PlanCap))
      /\ plans \in Seq(PlanRow) /\ Len(plans) <= PlanCap
  BY DEF GoalTypeOK, GoalRow, TaskRow, OrderRow, EventRow, PlanRow
<1>1. GoalStep /\ JudgingOK' /\ Moves
  BY NextIs
<1>2. goal' \in GoalRow /\ seen' \in {Unread} \cup (GoalStatus \X (0..PlanCap))
  BY <1>0, <1>1 DEF GoalStep, GoalRow
<1>3. plans' \in Seq(PlanRow) /\ Len(plans') <= PlanCap
  <2>1. PlansStep
    BY <1>1 DEF Moves, Gives, Reports, Recovers, PlansStep
  <2> QED
    BY <2>1, PlansAfter
<1>4. ASSUME NEW e, Corrects(e)
      PROVE  events' \subseteq EventRow
  <2>1. e \in EventRow /\ events' = (events \ {e}) \cup {[e EXCEPT !.corrected = TRUE]}
    BY <1>0, <1>4 DEF Corrects
  <2>2. [e EXCEPT !.corrected = TRUE] \in EventRow
    BY <2>1 DEF EventRow
  <2> QED
    BY <1>0, <2>1, <2>2
<1>5. ASSUME NEW E, Finds(E)
      PROVE  events' \subseteq EventRow
  <2>1. \A o \in E : [event |-> o, corrected |-> FALSE] \in EventRow
    BY <1>5 DEF Finds, EventRow
  <2> QED
    BY <1>0, <1>5, <2>1 DEF Finds
<1>6. events' \subseteq EventRow
  <2>1. EventsStep \/ \E e \in events : Corrects(e)
    BY <1>1 DEF Moves, EventsStep
  <2> QED
    BY <1>0, <1>4, <1>5, <2>1 DEF EventsStep
<1>7. tasks' \in [Ids -> TaskRow] /\ orders' \subseteq OrderRow
  <2>1. CASE Rests
    BY <1>0, <2>1 DEF Rests
  <2>2. CASE Gives
    <3>1. PICK S, to : S \in SUBSET Ids /\ Sends(S, to)
      BY <2>2, DispatchSends DEF Gives
    <3>2. \A t \in S : Order(t, "dispatch", Observation(t, "plan")) \in OrderRow
      BY <3>1, Observations DEF Order, OrderRow
    <3> QED
      BY <1>0, <3>1, <3>2 DEF Sends
  <2>3. ASSUME NEW t \in Ids, Reports(t)
        PROVE  tasks' \in [Ids -> TaskRow] /\ orders' \subseteq OrderRow
    BY <1>0, <2>3 DEF Reports
  <2>4. ASSUME NEW t \in Ids, NEW a \in Recovery, NEW cause \in Observed, Recovers(t, a, cause)
        PROVE  tasks' \in [Ids -> TaskRow] /\ orders' \subseteq OrderRow
    <3>1. Order(t, a, cause) \in OrderRow
      BY DEF Order, OrderRow
    <3> QED
      BY <1>0, <2>4, <3>1 DEF Recovers
  <2>5. \A t \in Ids : Observation(t, "manual") \in Observed
    BY Observations
  <2>6. \A e \in events : e.event \in Observed /\ e.event.task \in Ids /\ "reassign_task" \in Recovery
    BY <1>0 DEF EventRow, Observed, Recovery
  <2>7. \/ Rests \/ Gives \/ \E t \in Ids : Reports(t)
        \/ \E t \in Ids, a \in Recovery : Recovers(t, a, Observation(t, "manual"))
        \/ \E e \in events : Recovers(e.event.task, "reassign_task", e.event)
    BY <1>1 DEF Moves
  <2> QED
    BY <2>1, <2>2, <2>3, <2>4, <2>5, <2>6, <2>7
<1> QED
  BY <1>1, <1>2, <1>3, <1>6, <1>7
  DEF GoalTypeOK, GoalRow, TaskRow, OrderRow, EventRow, PlanRow, JudgingOK

\* The rows of the goal, its plans, its tasks, the messages about them and
\* the observations are well formed, whatever the answers of the steward.
THEOREM GoalTypeCorrect == GoalSpec => []GoalTypeOK
<1> QED
  BY TypeInit, TypeStep, PTL DEF GoalSpec

-----------------------------------------------------------------------------
\* Every writer of the goal's status or current plan also writes its
\* version: a request that is taken was made on the row as it is now.
THEOREM SeenIsCurrentHolds == GoalSpec => []SeenIsCurrent
<1>1. GoalInit => SeenIsCurrent
  BY DEF GoalInit, SeenIsCurrent
<1>2. SeenIsCurrent /\ GoalTypeOK /\ [GoalNext]_goalVars => SeenIsCurrent'
  <2> SUFFICES ASSUME SeenIsCurrent, GoalTypeOK, [GoalNext]_goalVars PROVE SeenIsCurrent'
    OBVIOUS
  <2>1. \/ seen' = Unread
        \/ KeepsGoal /\ (seen' = seen \/ seen' = <<goal.status, goal.plan>>)
    BY NextIs DEF GoalStep
  <2>2. Unread' = Unread
    BY DEF Unread
  <2> QED
    BY <2>1, <2>2 DEF SeenIsCurrent, KeepsGoal
<1> QED
  BY <1>1, <1>2, GoalTypeCorrect, PTL DEF GoalSpec

\* No answer, correction, observation or budget check that is still on its
\* way takes a goal out of a terminal status.
THEOREM TerminalStaysHolds == GoalSpec => TerminalStays
<1>1. GoalTypeOK /\ [GoalNext]_goalVars => [goal.status \in Terminal => goal'.status = goal.status]_goalVars
  BY NextIs DEF GoalStep
<1> QED
  BY <1>1, GoalTypeCorrect, PTL DEF GoalSpec, TerminalStays

-----------------------------------------------------------------------------
\* Tasks exist under approved plans only.
LEMMA WorkIsApprovedStep ==
  ASSUME GoalTypeOK, WorkIsApproved, [GoalNext]_goalVars
  PROVE  WorkIsApproved'
<1>1. Moves
  BY NextIs
<1>2. PlansGrow
  <2>1. PlansStep
    BY <1>1 DEF Moves, Gives, Reports, Recovers, PlansStep
  <2> QED
    BY <2>1, PlansAfter
<1>3. ASSUME NEW t \in Ids, t[2] \in Planned(t[1]),
             plans[t[1]].status \in {"approved", "superseded"}
      PROVE  t[2] \in Planned(t[1])' /\ plans'[t[1]].status \in {"approved", "superseded"}
  BY <1>2, <1>3 DEF Planned, PlansGrow
<1> SUFFICES ASSUME NEW t \in Ids, tasks'[t].status # "absent"
             PROVE  t[2] \in Planned(t[1]) /\ plans[t[1]].status \in {"approved", "superseded"}
  BY <1>3 DEF WorkIsApproved
<1>4. CASE tasks[t].status # "absent"
  BY <1>4 DEF WorkIsApproved
<1>5. CASE Gives /\ tasks[t].status = "absent"
  <2>1. PICK S, to : S \in SUBSET Ids /\ Sends(S, to)
    BY <1>5, DispatchSends DEF Gives
  <2>2. t \in Waiting(goal.plan)
    BY <1>5, <2>1 DEF Sends
  <2>3. t[1] = goal.plan /\ t[2] \in Planned(goal.plan)
    BY <2>2 DEF Waiting
  <2> QED
    BY <2>1, <2>3 DEF Sends, HasApprovedPlan
<1>6. CASE tasks[t].status = "absent" /\ ~Gives
  <2>1. ASSUME NEW u, NEW a, NEW cause, Recovers(u, a, cause)
        PROVE  FALSE
    BY <1>6, <2>1 DEF Recovers, Others
  <2>2. ASSUME NEW u, Reports(u)
        PROVE  FALSE
    BY <1>6, <2>2 DEF Reports, Others
  <2> QED
    BY <1>1, <1>6, <2>1, <2>2 DEF Moves, Rests
<1> QED
  BY <1>4, <1>5, <1>6

\* No task exists under a plan that is still a draft or was rejected, however
\* the goal has been moved between its plans.
THEOREM WorkIsApprovedHolds == GoalSpec => []WorkIsApproved
<1>1. GoalInit => WorkIsApproved
  BY DEF GoalInit, WorkIsApproved, Absent
<1>2. GoalTypeOK /\ WorkIsApproved /\ [GoalNext]_goalVars => WorkIsApproved'
  BY WorkIsApprovedStep
<1> QED
  BY <1>1, <1>2, GoalTypeCorrect, PTL DEF GoalSpec

-----------------------------------------------------------------------------
\* A message is about a task that exists.
OrdersHaveTasks == \A o \in orders : tasks[o.task].status # "absent"

LEMMA OrdersHaveTasksStep ==
  ASSUME GoalTypeOK, OrdersHaveTasks, [GoalNext]_goalVars
  PROVE  OrdersHaveTasks'
<1>1. Moves
  BY NextIs
<1>2. \A o \in orders : o.task \in Ids
  BY DEF GoalTypeOK
<1>3. CASE Rests
  BY <1>3 DEF Rests, OrdersHaveTasks
<1>4. CASE Gives
  <2>1. PICK S, to : S \in SUBSET Ids /\ Sends(S, to)
    BY <1>4, DispatchSends DEF Gives
  <2>2. \A t \in Ids : tasks[t].status # "absent" => tasks'[t].status # "absent"
    BY <2>1 DEF Sends
  <2>3. \A t \in S : tasks'[t].status # "absent"
    BY <2>1 DEF Sends
  <2>4. \A o \in orders' : o \in orders \/ o.task \in S
    BY <2>1 DEF Sends, Order
  <2> QED
    BY <1>2, <2>2, <2>3, <2>4 DEF OrdersHaveTasks
<1>5. ASSUME NEW t \in Ids, Reports(t)
      PROVE  OrdersHaveTasks'
  BY <1>2, <1>5 DEF Reports, Others, OrdersHaveTasks
<1>6. ASSUME NEW t, NEW a, NEW cause, Recovers(t, a, cause)
      PROVE  OrdersHaveTasks'
  <2>1. \A o \in orders' : o \in orders \/ o.task = t
    BY <1>6 DEF Recovers, Order
  <2> QED
    BY <1>2, <1>6, <2>1 DEF Recovers, Others, OrdersHaveTasks
<1> QED
  BY <1>1, <1>3, <1>4, <1>5, <1>6 DEF Moves

Met(d) == (d.status = "done" /\ ~d.failed) \/ d.retries + d.moves > 0

\* What a dispatched task depends on stays done, or has been started again.
LEMMA MetStays ==
  ASSUME GoalTypeOK, [GoalNext]_goalVars, NEW t \in Ids, Met(tasks[t])
  PROVE  Met(tasks'[t])
<1>1. Moves
  BY NextIs
<1>2. tasks[t].retries \in Nat /\ tasks[t].moves \in Nat
  BY Budgets DEF GoalTypeOK
<1>3. CASE Gives
  <2>1. PICK S, to : S \in SUBSET Ids /\ Sends(S, to)
    BY <1>3, DispatchSends DEF Gives
  <2>2. CASE tasks[t].status = "done"
    BY <2>1, <2>2 DEF Sends, Waiting
  <2>3. CASE tasks[t].retries + tasks[t].moves > 0
    BY <2>1, <2>3 DEF Sends, Met
  <2> QED
    BY <2>2, <2>3 DEF Met
<1>4. ASSUME NEW u, Reports(u)
      PROVE  Met(tasks'[t])
  BY <1>4 DEF Reports, Others, Met
<1>5. ASSUME NEW u, NEW a, NEW cause, Recovers(u, a, cause)
      PROVE  Met(tasks'[t])
  BY <1>2, <1>5 DEF Recovers, Others, Met
<1> QED
  BY <1>1, <1>3, <1>4, <1>5 DEF Moves, Rests

LEMMA DependenciesFirstStep ==
  ASSUME GoalTypeOK, WorkIsApproved, OrdersHaveTasks, DependenciesFirst, [GoalNext]_goalVars
  PROVE  DependenciesFirst'
<1>1. Moves /\ \A o \in orders : o.task \in Ids
  BY NextIs DEF GoalTypeOK
<1>2. PlansGrow
  <2>1. PlansStep
    BY <1>1 DEF Moves, Gives, Reports, Recovers, PlansStep
  <2> QED
    BY <2>1, PlansAfter
<1>3. ASSUME NEW t \in Ids, t[2] \in Planned(t[1])
      PROVE  /\ plans'[t[1]].needs = plans[t[1]].needs
             /\ \A k \in plans[t[1]].needs[t[2]] : <<t[1], k>> \in Ids
  BY <1>2, <1>3, PlannedRows DEF PlansGrow
<1> SUFFICES ASSUME NEW o \in orders', o.action = "dispatch",
                    NEW k \in plans'[o.task[1]].needs[o.task[2]]
             PROVE  Met(tasks'[<<o.task[1], k>>])
  BY DEF DependenciesFirst, Met
<1>4. CASE o \in orders
  <2>1. o.task \in Ids /\ o.task[2] \in Planned(o.task[1])
    BY <1>1, <1>4 DEF OrdersHaveTasks, WorkIsApproved
  <2>2. k \in plans[o.task[1]].needs[o.task[2]] /\ <<o.task[1], k>> \in Ids
    BY <1>3, <2>1
  <2>3. Met(tasks[<<o.task[1], k>>])
    BY <1>4, <2>2 DEF DependenciesFirst, Met
  <2> QED
    BY <2>2, <2>3, MetStays
<1>5. CASE o \notin orders
  <2>1. Gives
    <3>1. ASSUME NEW t, NEW a \in Recovery, NEW cause, Recovers(t, a, cause)
          PROVE  FALSE
      BY <1>5, <3>1 DEF Recovers, Order, Recovery
    <3>2. "reassign_task" \in Recovery
      BY DEF Recovery
    <3> QED
      BY <1>1, <1>5, <3>1, <3>2 DEF Moves, Rests, Reports
  <2>2. PICK S, to : S \in SUBSET Ids /\ Sends(S, to)
    BY <2>1, DispatchSends DEF Gives
  <2>3. o.task \in S /\ o.task \in Ids
    BY <1>5, <2>2 DEF Sends, Order
  <2>4. o.task \in Ready(goal.plan) /\ plans' = plans
    BY <2>1, <2>2, <2>3 DEF Sends, Gives
  <2>5. DependenciesSatisfied(o.task) /\ o.task[1] = goal.plan /\ o.task[2] \in Planned(goal.plan)
    BY <2>4 DEF Ready, Waiting
  <2>6. <<o.task[1], k>> \in Ids
    BY <1>3, <2>3, <2>4, <2>5
  <2>7. Met(tasks[<<o.task[1], k>>])
    BY <2>4, <2>5 DEF DependenciesSatisfied, Met
  <2> QED
    BY <2>6, <2>7, MetStays
<1> QED
  BY <1>4, <1>5

\* No task is dispatched before what it depends on is done without failure.
THEOREM DependenciesFirstHolds == GoalSpec => []DependenciesFirst
<1>1. GoalInit => OrdersHaveTasks /\ DependenciesFirst
  BY DEF GoalInit, OrdersHaveTasks, DependenciesFirst
<1>2. GoalTypeOK /\ OrdersHaveTasks /\ [GoalNext]_goalVars => OrdersHaveTasks'
  BY OrdersHaveTasksStep
<1>3. GoalTypeOK /\ WorkIsApproved /\ OrdersHaveTasks /\ DependenciesFirst /\ [GoalNext]_goalVars
        => DependenciesFirst'
  BY DependenciesFirstStep
<1> QED
  BY <1>1, <1>2, <1>3, GoalTypeCorrect, WorkIsApprovedHolds, PTL DEF GoalSpec

-----------------------------------------------------------------------------
\* The recoveries of a task that were ordered.  Each is known by what it
\* answers: by hand, the counts of the task before it, and otherwise an
\* observation that is corrected once.
Recoveries(t) == {o \in orders : o.task = t /\ o.action \in Recovery}
OnRecord ==
  /\ IsFiniteSet(orders)
  /\ \A o \in orders : o.action \in Recovery =>
       IF o.cause.kind = "manual"
       THEN o.cause.at[1] + o.cause.at[2] < tasks[o.task].retries + tasks[o.task].moves
       ELSE \E e \in events : e.event = o.cause /\ e.corrected
  /\ \A e \in events : e.event.kind # "manual"
  /\ \A e, f \in events : e.event = f.event => e = f

\* An observation that was corrected stays so, and is on record once.
LEMMA EventsAfter ==
  ASSUME GoalTypeOK, OnRecord, EventsStep
  PROVE  /\ \A e \in events : e.corrected => e \in events'
         /\ \A e \in events' : e.event.kind # "manual"
         /\ \A e, f \in events' : e.event = f.event => e = f
<1>0. events \subseteq EventRow
  BY DEF GoalTypeOK, EventRow
<1>1. CASE UNCHANGED events
  BY <1>1 DEF OnRecord
<1>2. ASSUME NEW E, Finds(E)
      PROVE  /\ \A e \in events : e.corrected => e \in events'
             /\ \A e \in events' : e.event.kind # "manual"
             /\ \A e, f \in events' : e.event = f.event => e = f
  <2>1. events' = events \cup {[event |-> o, corrected |-> FALSE] : o \in E}
    BY <1>2 DEF Finds
  <2>2. \A o \in E : o.kind # "manual" /\ \A d \in events : d.event # o
    BY <1>2 DEF Finds
  <2>3. \A e \in events' : e \in events \/ (e.event \in E /\ e = [event |-> e.event, corrected |-> FALSE])
    BY <2>1
  <2> QED
    BY <2>1, <2>2, <2>3 DEF OnRecord
<1>3. ASSUME NEW e \in events, Corrects(e)
      PROVE  /\ \A d \in events : d.corrected => d \in events'
             /\ \A d \in events' : d.event.kind # "manual"
             /\ \A d, f \in events' : d.event = f.event => d = f
  <2> DEFINE g == [e EXCEPT !.corrected = TRUE]
  <2>1. g.event = e.event
    BY <1>0 DEF EventRow
  <2>2. events' = (events \ {e}) \cup {g} /\ ~e.corrected
    BY <1>3 DEF Corrects
  <2> HIDE DEF g
  <2> QED
    BY <2>1, <2>2 DEF OnRecord
<1> QED
  BY <1>1, <1>2, <1>3 DEF EventsStep

\* An order for a recovery is a new one.
LEMMA RecoveryIsNew ==
  ASSUME GoalTypeOK, OnRecord, NEW t \in Ids, NEW a \in Recovery, NEW cause,
         \/ cause = Observation(t, "manual")
         \/ \E e \in events : cause = e.event /\ ~e.corrected
  PROVE  Order(t, a, cause) \notin orders
<1> SUFFICES ASSUME Order(t, a, cause) \in orders PROVE FALSE
  OBVIOUS
<1>1. PICK o \in orders : o.task = t /\ o.action = a /\ o.cause = cause
  BY DEF Order
<1>2. tasks[t].retries \in Nat /\ tasks[t].moves \in Nat
  BY Budgets DEF GoalTypeOK
<1>3. CASE cause = Observation(t, "manual")
  <2>1. /\ o.cause.kind = "manual"
        /\ o.cause.at[1] = tasks[t].retries /\ o.cause.at[2] = tasks[t].moves
    BY <1>1, <1>3 DEF Observation, Counts
  <2> QED
    BY <1>1, <1>2, <2>1 DEF OnRecord
<1>4. ASSUME NEW e \in events, cause = e.event, ~e.corrected PROVE FALSE
  BY <1>1, <1>4 DEF OnRecord
<1> QED
  BY <1>3, <1>4

LEMMA RecoveryOnRecord ==
  ASSUME GoalTypeOK, OnRecord, EveryRecoveryOrdered,
         NEW t \in Ids, NEW a \in Recovery, NEW cause, Recovers(t, a, cause),
         \/ cause = Observation(t, "manual") /\ UNCHANGED events
         \/ \E e \in events : cause = e.event /\ Corrects(e)
  PROVE  OnRecord' /\ EveryRecoveryOrdered'
<1>0. \A u \in Ids : tasks[u].retries \in Nat /\ tasks[u].moves \in Nat
  BY Budgets DEF GoalTypeOK
<1>1. /\ \A e \in events : e.corrected => e \in events'
      /\ \A e \in events' : e.event.kind # "manual"
      /\ \A e, f \in events' : e.event = f.event => e = f
  BY EventsAfter DEF EventsStep
<1>2. Order(t, a, cause) \notin orders
  BY RecoveryIsNew DEF Corrects
<1> DEFINE n == Order(t, a, cause)
<1>3. /\ n.task = t /\ n.action = a /\ n.cause = cause
      /\ orders' = orders \cup {n}
  BY DEF Order, Recovers
<1> HIDE DEF n
<1>4. IsFiniteSet(orders')
  BY <1>3, FS_AddElement DEF OnRecord
<1>5. /\ tasks'[t].retries + tasks'[t].moves = tasks[t].retries + tasks[t].moves + 1
      /\ \A u \in Ids : u # t => tasks'[u] = tasks[u]
  BY <1>0 DEF Recovers, Others
<1>6. IF cause.kind = "manual"
      THEN cause.at[1] + cause.at[2] < tasks'[t].retries + tasks'[t].moves
      ELSE \E e \in events' : e.event = cause /\ e.corrected
  <2>1. CASE cause = Observation(t, "manual")
    <3>1. cause.kind = "manual" /\ cause.at[1] = tasks[t].retries /\ cause.at[2] = tasks[t].moves
      BY <2>1 DEF Observation, Counts
    <3> QED
      BY <1>0, <1>5, <3>1
  <2>2. ASSUME NEW e \in events, cause = e.event, Corrects(e)
        PROVE  cause.kind # "manual" /\ \E f \in events' : f.event = cause /\ f.corrected
    <3> DEFINE g == [e EXCEPT !.corrected = TRUE]
    <3>1. g.event = e.event /\ g.corrected
      BY DEF GoalTypeOK
    <3>2. g \in events'
      BY <2>2 DEF Corrects
    <3> HIDE DEF g
    <3> QED
      BY <2>2, <3>1, <3>2 DEF OnRecord
  <2> QED
    BY <2>1, <2>2
<1>7. OnRecord'
  <2>1. ASSUME NEW o \in orders, o.action \in Recovery
        PROVE  IF o.cause.kind = "manual"
               THEN o.cause.at[1] + o.cause.at[2] < tasks'[o.task].retries + tasks'[o.task].moves
               ELSE \E e \in events' : e.event = o.cause /\ e.corrected
    <3>1. o.task \in Ids /\ o.cause.at[1] \in Nat /\ o.cause.at[2] \in Nat
      BY Budgets DEF GoalTypeOK, Observed
    <3>2. IF o.cause.kind = "manual"
          THEN o.cause.at[1] + o.cause.at[2] < tasks[o.task].retries + tasks[o.task].moves
          ELSE \E e \in events : e.event = o.cause /\ e.corrected
      BY <2>1 DEF OnRecord
    <3> QED
      BY <1>0, <1>1, <1>5, <3>1, <3>2
  <2> QED
    BY <1>1, <1>3, <1>4, <1>6, <2>1 DEF OnRecord
<1>8. EveryRecoveryOrdered'
  <2> SUFFICES ASSUME NEW u \in Ids
               PROVE  Cardinality(Recoveries(u)') = tasks'[u].retries + tasks'[u].moves
    BY DEF EveryRecoveryOrdered, Recoveries
  <2>1. IsFiniteSet(Recoveries(u)) /\ Cardinality(Recoveries(u)) = tasks[u].retries + tasks[u].moves
    BY FS_Subset DEF OnRecord, Recoveries, EveryRecoveryOrdered
  <2>2. CASE u = t
    <3>1. Recoveries(u)' = Recoveries(u) \cup {n} /\ n \notin Recoveries(u)
      BY <1>2, <1>3, <2>2 DEF Recoveries, n
    <3>2. Cardinality(Recoveries(u)') = Cardinality(Recoveries(u)) + 1
      BY <2>1, <3>1, FS_AddElement
    <3> QED
      BY <1>0, <1>5, <2>1, <2>2, <3>2
  <2>3. CASE u # t
    <3>1. Recoveries(u)' = Recoveries(u)
      BY <1>3, <2>3 DEF Recoveries
    <3> QED
      BY <1>5, <2>1, <2>3, <3>1
  <2> QED
    BY <2>2, <2>3
<1> QED
  BY <1>7, <1>8

\* Every other step leaves the recoveries and their counts alone.
LEMMA OtherwiseOnRecord ==
  ASSUME GoalTypeOK, OnRecord, EveryRecoveryOrdered, EventsStep, IsFiniteSet(orders'),
         orders \subseteq orders', \A o \in orders' : o \in orders \/ o.action = "dispatch",
         \A u \in Ids : tasks'[u].retries = tasks[u].retries /\ tasks'[u].moves = tasks[u].moves
  PROVE  OnRecord' /\ EveryRecoveryOrdered'
<1>1. /\ \A e \in events : e.corrected => e \in events'
      /\ \A e \in events' : e.event.kind # "manual"
      /\ \A e, f \in events' : e.event = f.event => e = f
  BY EventsAfter
<1>2. \A o \in orders : o.task \in Ids
  BY DEF GoalTypeOK
<1>3. \A o \in orders' : o.action \in Recovery => o \in orders
  BY DEF Recovery
<1>4. OnRecord'
  BY <1>1, <1>2, <1>3 DEF OnRecord
<1>5. \A u \in Ids : Recoveries(u)' = Recoveries(u)
  BY <1>3 DEF Recoveries
<1>6. EveryRecoveryOrdered'
  BY <1>5 DEF EveryRecoveryOrdered, Recoveries
<1> QED
  BY <1>4, <1>6

LEMMA OnRecordStep ==
  ASSUME GoalTypeOK, OnRecord, EveryRecoveryOrdered, [GoalNext]_goalVars
  PROVE  OnRecord' /\ EveryRecoveryOrdered'
<1>1. Moves
  BY NextIs
<1>2. IsFiniteSet(orders)
  BY DEF OnRecord
<1>3. CASE Rests /\ EventsStep
  BY <1>2, <1>3, OtherwiseOnRecord DEF Rests
<1>4. CASE Gives /\ EventsStep
  <2>1. PICK S, to : S \in SUBSET Ids /\ Sends(S, to)
    BY <1>4, DispatchSends DEF Gives
  <2> DEFINE N == {Order(t, "dispatch", Observation(t, "plan")) : t \in S}
  <2>2. IsFiniteSet(S)
    BY <2>1, IdsFinite, FS_Subset
  <2>3. IsFiniteSet(N)
    <3> DEFINE f == [t \in S |-> Order(t, "dispatch", Observation(t, "plan"))]
    <3>1. f \in Surjection(S, N)
      BY DEF Surjection
    <3> QED
      BY <2>2, <3>1, FS_Surjection
  <2>4. orders' = orders \cup N
    BY <2>1 DEF Sends
  <2>5. \A o \in N : o.action = "dispatch"
    BY DEF Order
  <2>6. \A u \in Ids : tasks'[u].retries = tasks[u].retries /\ tasks'[u].moves = tasks[u].moves
    BY <2>1 DEF Sends
  <2> HIDE DEF N
  <2>7. IsFiniteSet(orders')
    BY <1>2, <2>3, <2>4, FS_Union
  <2> QED
    BY <1>4, <2>4, <2>5, <2>6, <2>7, OtherwiseOnRecord
<1>5. ASSUME NEW t \in Ids, Reports(t), UNCHANGED events
      PROVE  OnRecord' /\ EveryRecoveryOrdered'
  BY <1>2, <1>5, OtherwiseOnRecord DEF Reports, Others, EventsStep
<1>6. ASSUME NEW t \in Ids, NEW a \in Recovery, Recovers(t, a, Observation(t, "manual")), UNCHANGED events
      PROVE  OnRecord' /\ EveryRecoveryOrdered'
  BY <1>6, RecoveryOnRecord
<1>7. ASSUME NEW e \in events, Recovers(e.event.task, "reassign_task", e.event), Corrects(e)
      PROVE  OnRecord' /\ EveryRecoveryOrdered'
  <2>1. e.event.task \in Ids /\ "reassign_task" \in Recovery
    BY DEF GoalTypeOK, Observed, Recovery
  <2> QED
    BY <1>7, <2>1, RecoveryOnRecord
<1> QED
  BY <1>1, <1>3, <1>4, <1>5, <1>6, <1>7 DEF Moves

\* No retry and no new Worker is counted without a message of its own: an
\* idempotency key never swallows one.
THEOREM EveryRecoveryOrderedHolds == GoalSpec => []EveryRecoveryOrdered
<1>1. GoalInit => OnRecord /\ EveryRecoveryOrdered
  <2> SUFFICES ASSUME GoalInit PROVE OnRecord /\ EveryRecoveryOrdered
    OBVIOUS
  <2>1. orders = {} /\ events = {} /\ \A t \in Ids : tasks[t].retries = 0 /\ tasks[t].moves = 0
    BY DEF GoalInit, Absent
  <2>2. \A t \in Ids : Recoveries(t) = {}
    BY <2>1 DEF Recoveries
  <2> QED
    BY <2>1, <2>2, FS_EmptySet DEF OnRecord, EveryRecoveryOrdered, Recoveries
<1>2. GoalTypeOK /\ OnRecord /\ EveryRecoveryOrdered /\ [GoalNext]_goalVars
        => OnRecord' /\ EveryRecoveryOrdered'
  BY OnRecordStep
<1> QED
  BY <1>1, <1>2, GoalTypeCorrect, PTL DEF GoalSpec

-----------------------------------------------------------------------------
\* The tasks under way that no correction started again.
Firsts == {t \in InProgress(Ids) : Counts(t) = <<0, 0>>}
FirstsOf(p) == {t \in Firsts : t[1] = p}
FirstsAt(w) == {t \in Firsts : tasks[t].worker = w}

LEMMA FirstsFinite ==
  /\ \A p : FirstsOf(p) \subseteq Ids /\ IsFiniteSet(FirstsOf(p)) /\ Cardinality(FirstsOf(p)) \in Nat
  /\ \A w : FirstsAt(w) \subseteq Ids /\ IsFiniteSet(FirstsAt(w)) /\ Cardinality(FirstsAt(w)) \in Nat
<1>1. \A p : FirstsOf(p) \subseteq Ids
  BY DEF FirstsOf, Firsts, InProgress
<1>2. \A w : FirstsAt(w) \subseteq Ids
  BY DEF FirstsAt, Firsts, InProgress
<1> QED
  BY <1>1, <1>2, IdsFinite, FS_Subset, FS_CardinalityType

\* Only a dispatch adds to them, and it adds what it gives out.
LEMMA FirstsAfter ==
  ASSUME GoalTypeOK, [GoalNext]_goalVars
  PROVE  \/ /\ \A p : FirstsOf(p)' \subseteq FirstsOf(p)
            /\ \A w : FirstsAt(w)' \subseteq FirstsAt(w)
         \/ \E S, to :
              /\ S \in SUBSET Ids /\ Sends(S, to)
              /\ \A p : FirstsOf(p)' \subseteq FirstsOf(p) \cup {t \in S : t[1] = p}
              /\ \A w : FirstsAt(w)' \subseteq FirstsAt(w) \cup {t \in S : to[t] = w}
<1>1. Moves
  BY NextIs
<1>2. \A t \in Ids : tasks[t].retries \in Nat /\ tasks[t].moves \in Nat
  BY Budgets DEF GoalTypeOK
<1>3. \A t : /\ t \in Firsts <=> /\ t \in Ids /\ tasks[t].status = "in_progress"
                                /\ tasks[t].retries = 0 /\ tasks[t].moves = 0
             /\ t \in Firsts' <=> /\ t \in Ids /\ tasks'[t].status = "in_progress"
                                 /\ tasks'[t].retries = 0 /\ tasks'[t].moves = 0
  BY DEF Firsts, InProgress, Counts
<1>4. CASE Rests
  BY <1>4 DEF Rests, FirstsOf, FirstsAt, Firsts, InProgress, Counts
<1>5. CASE Gives
  <2>1. PICK S, to : S \in SUBSET Ids /\ Sends(S, to)
    BY <1>5, DispatchSends DEF Gives
  <2>2. ASSUME NEW t \in Firsts', t \notin S
        PROVE  t \in Firsts /\ tasks'[t] = tasks[t]
    <3>1. t \in Ids /\ tasks'[t].status = "in_progress"
      BY <1>3, <2>2
    <3>2. t \notin Waiting(goal.plan)
      BY <2>1, <2>2, <3>1 DEF Sends
    <3>3. tasks'[t] = tasks[t]
      BY <2>1, <3>1, <3>2 DEF Sends
    <3> QED
      BY <1>3, <2>2, <3>3
  <2>3. \A p : FirstsOf(p)' \subseteq FirstsOf(p) \cup {t \in S : t[1] = p}
    BY <2>2 DEF FirstsOf
  <2>4. \A w : FirstsAt(w)' \subseteq FirstsAt(w) \cup {t \in S : to[t] = w}
    <3>1. \A t \in S : tasks'[t].worker = to[t]
      BY <2>1 DEF Sends
    <3> QED
      BY <2>2, <3>1 DEF FirstsAt
  <2> QED
    BY <2>1, <2>3, <2>4
<1>6. ASSUME NEW u \in Ids, \A t \in Firsts' : t # u, Others(u)
      PROVE  /\ \A p : FirstsOf(p)' \subseteq FirstsOf(p)
             /\ \A w : FirstsAt(w)' \subseteq FirstsAt(w)
  <2>1. \A t \in Firsts' : t \in Firsts /\ tasks'[t] = tasks[t]
    BY <1>3, <1>6 DEF Others
  <2> QED
    BY <2>1 DEF FirstsOf, FirstsAt
<1>7. ASSUME NEW u \in Ids, Reports(u)
      PROVE  /\ \A p : FirstsOf(p)' \subseteq FirstsOf(p)
             /\ \A w : FirstsAt(w)' \subseteq FirstsAt(w)
  <2>1. Others(u) /\ \A t \in Firsts' : t # u
    BY <1>3, <1>7 DEF Reports
  <2> QED
    BY <1>6, <2>1
<1>8. ASSUME NEW u \in Ids, NEW a, NEW cause, Recovers(u, a, cause)
      PROVE  /\ \A p : FirstsOf(p)' \subseteq FirstsOf(p)
             /\ \A w : FirstsAt(w)' \subseteq FirstsAt(w)
  <2>1. Others(u) /\ \A t \in Firsts' : t # u
    BY <1>2, <1>3, <1>8 DEF Recovers
  <2> QED
    BY <1>6, <2>1
<1>9. \A e \in events : e.event.task \in Ids
  BY DEF GoalTypeOK, Observed
<1> QED
  BY <1>1, <1>4, <1>5, <1>7, <1>8, <1>9 DEF Moves

LEMMA ParallelLimitsStep ==
  ASSUME GoalTypeOK, ParallelLimits, [GoalNext]_goalVars
  PROVE  ParallelLimits'
<1>0. /\ \A p \in 1..PlanCap : Cardinality(FirstsOf(p)) <= MaxParallel
      /\ \A w \in Workers : Cardinality(FirstsAt(w)) <= 1
  BY DEF ParallelLimits, FirstsOf, FirstsAt, Firsts
<1> SUFFICES /\ \A p \in 1..PlanCap : Cardinality(FirstsOf(p)') <= MaxParallel
             /\ \A w \in Workers : Cardinality(FirstsAt(w)') <= 1
  BY DEF ParallelLimits, FirstsOf, FirstsAt, Firsts
<1>1. \A p : /\ IsFiniteSet(FirstsOf(p)) /\ Cardinality(FirstsOf(p)) \in Nat
             /\ IsFiniteSet(FirstsOf(p)') /\ Cardinality(FirstsOf(p)') \in Nat
  BY FirstsFinite, IdsFinite, FS_Subset, FS_CardinalityType DEF FirstsOf, Firsts, InProgress
<1>2. \A w : /\ IsFiniteSet(FirstsAt(w)) /\ Cardinality(FirstsAt(w)) \in Nat
             /\ IsFiniteSet(FirstsAt(w)') /\ Cardinality(FirstsAt(w)') \in Nat
  BY FirstsFinite, IdsFinite, FS_Subset, FS_CardinalityType DEF FirstsAt, Firsts, InProgress
<1>3. \A A, B : IsFiniteSet(B) /\ A \subseteq B => Cardinality(A) <= Cardinality(B)
  BY FS_Subset
<1>4. CASE /\ \A p : FirstsOf(p)' \subseteq FirstsOf(p)
           /\ \A w : FirstsAt(w)' \subseteq FirstsAt(w)
  <2>1. ASSUME NEW p \in 1..PlanCap PROVE Cardinality(FirstsOf(p)') <= MaxParallel
    <3>1. Cardinality(FirstsOf(p)') <= Cardinality(FirstsOf(p))
      BY <1>1, <1>3, <1>4
    <3> QED
      BY <1>0, <1>1, <3>1, Budgets
  <2>2. ASSUME NEW w \in Workers PROVE Cardinality(FirstsAt(w)') <= 1
    <3>1. Cardinality(FirstsAt(w)') <= Cardinality(FirstsAt(w))
      BY <1>2, <1>3, <1>4
    <3> QED
      BY <1>0, <1>2, <3>1
  <2> QED
    BY <2>1, <2>2
<1>5. ASSUME NEW S \in SUBSET Ids, NEW to, Sends(S, to),
             \A p : FirstsOf(p)' \subseteq FirstsOf(p) \cup {t \in S : t[1] = p},
             \A w : FirstsAt(w)' \subseteq FirstsAt(w) \cup {t \in S : to[t] = w}
      PROVE  /\ \A p \in 1..PlanCap : Cardinality(FirstsOf(p)') <= MaxParallel
             /\ \A w \in Workers : Cardinality(FirstsAt(w)') <= 1
  <2>0. IsFiniteSet(S) /\ Cardinality(S) \in Nat
    BY IdsFinite, FS_Subset, FS_CardinalityType
  <2>1. \A t \in S : t[1] = goal.plan
    BY <1>5 DEF Sends, Ready, Waiting
  <2>2. ASSUME NEW p \in 1..PlanCap PROVE Cardinality(FirstsOf(p)') <= MaxParallel
    <3>1. CASE p # goal.plan \/ S = {}
      <4>1. FirstsOf(p)' \subseteq FirstsOf(p)
        BY <1>5, <2>1, <3>1
      <4>2. Cardinality(FirstsOf(p)') <= Cardinality(FirstsOf(p))
        BY <1>1, <1>3, <4>1
      <4> QED
        BY <1>0, <1>1, <4>2, Budgets
    <3>2. CASE p = goal.plan /\ S # {}
      <4> DEFINE busy == InProgress(TasksOf(p))
      <4>1. IsFiniteSet(busy) /\ Cardinality(busy) \in Nat
        <5>1. busy \subseteq Ids
          BY DEF InProgress, TasksOf
        <5> QED
          BY <5>1, IdsFinite, FS_Subset, FS_CardinalityType
      <4>2. FirstsOf(p) \subseteq busy
        BY DEF FirstsOf, Firsts, InProgress, TasksOf
      <4>3. Cardinality(S) + Cardinality(busy) <= MaxParallel
        BY <1>5, <3>2 DEF Sends
      <4> HIDE DEF busy
      <4>4. FirstsOf(p)' \subseteq S \cup busy
        BY <1>5, <4>2
      <4>5. /\ IsFiniteSet(S \cup busy) /\ IsFiniteSet(S \cap busy)
            /\ Cardinality(S \cup busy) = Cardinality(S) + Cardinality(busy) - Cardinality(S \cap busy)
        BY <2>0, <4>1, FS_Union, FS_Subset
      <4>6. Cardinality(S \cap busy) \in Nat
        BY <4>5, FS_CardinalityType
      <4>7. Cardinality(FirstsOf(p)') <= Cardinality(S \cup busy)
        BY <1>3, <4>4, <4>5
      <4> QED
        BY <1>1, <2>0, <4>1, <4>3, <4>5, <4>6, <4>7, Budgets
    <3> QED
      BY <3>1, <3>2
  <2>3. ASSUME NEW w \in Workers PROVE Cardinality(FirstsAt(w)') <= 1
    <3>1. CASE \E t \in S : to[t] = w
      <4>1. PICK t \in S : to[t] = w
        BY <3>1
      <4>2. {u \in S : to[u] = w} \subseteq {t}
        BY <1>5, <4>1 DEF Sends
      <4>3. FirstsAt(w) = {}
        <5> DEFINE held == {u \in InProgress(Ids) : tasks[u].worker = w}
        <5>1. IsFiniteSet(held)
          BY IdsFinite, FS_Subset DEF InProgress
        <5>2. Cardinality(held) = 0
          BY <1>5, <4>1 DEF Sends, Free, Load
        <5>3. held = {}
          BY <5>1, <5>2, FS_EmptySet
        <5> QED
          BY <5>3 DEF FirstsAt, Firsts
      <4>4. FirstsAt(w)' \subseteq {t}
        BY <1>5, <4>2, <4>3
      <4>5. IsFiniteSet({t}) /\ Cardinality({t}) = 1
        BY FS_Singleton
      <4> QED
        BY <1>3, <4>4, <4>5
    <3>2. CASE ~ \E t \in S : to[t] = w
      <4>1. FirstsAt(w)' \subseteq FirstsAt(w)
        BY <1>5, <3>2
      <4>2. Cardinality(FirstsAt(w)') <= Cardinality(FirstsAt(w))
        BY <1>2, <1>3, <4>1
      <4> QED
        BY <1>0, <1>2, <4>2
    <3> QED
      BY <3>1, <3>2
  <2> QED
    BY <2>2, <2>3
<1> QED
  BY <1>4, <1>5, FirstsAfter

\* The dispatcher never has more first attempts under way than the budget
\* of the plan allows, nor two at one Worker, whoever calls it when.
THEOREM ParallelLimitsHolds == GoalSpec => []ParallelLimits
<1>1. GoalInit => ParallelLimits
  <2> SUFFICES ASSUME GoalInit PROVE ParallelLimits
    OBVIOUS
  <2>1. Firsts = {}
    BY DEF GoalInit, Absent, Firsts, InProgress
  <2> QED
    BY <2>1, FS_EmptySet, Budgets DEF ParallelLimits, Firsts
<1>2. GoalTypeOK /\ ParallelLimits /\ [GoalNext]_goalVars => ParallelLimits'
  BY ParallelLimitsStep
<1> QED
  BY <1>1, <1>2, GoalTypeCorrect, PTL DEF GoalSpec
=============================================================================
