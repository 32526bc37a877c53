----------------------------- MODULE TaskProofs -----------------------------
(***************************************************************************)
(* What is proved of tasks, at the edge (TaskWriteBack) and on the board   *)
(* of the center (TaskBoard); the two have no state in common.             *)
(*                                                                         *)
(* The optimistic lock of work.task.mutation.requested does its job for    *)
(* any number of mutations, edits and restarts, provided that two changes  *)
(* of one task never fall into the same second.  The invariant behind it:  *)
(* a snapshot that misses an edit is older than the row.                   *)
(*                                                                         *)
(* Of the board: its type invariant, the budget of sendings and the        *)
(* sign-off of undisturbed tasks, for any limits and any runs.             *)
(***************************************************************************)
EXTENDS TaskWriteBack, TaskBoard, TLAPS

\* A snapshot of version v that includes e edits is from the past; if the task
\* changed since, the row is newer or gone, and this is what makes comparing
\* seconds enough.
Dated(v, e) ==
  /\ v <= now
  /\ e <= edits
  /\ e < edits => version = Gone \/ v < version
  /\ e = edits => v = version

Lock ==
  /\ version <= now
  /\ \A view \in views : Dated(view[1], view[2])
  /\ \A m \in Mutation : Dated(expected[m], basis[m])

\* A mutation that was applied has made its own snapshot stale.
Spent ==
  \A m \in Mutation :
    /\ applied[m] <= 1
    /\ applied[m] = 1 => basis[m] < edits
    /\ state[m] = "none" => applied[m] = 0

-----------------------------------------------------------------------------
\* Type correctness.
THEOREM TypeCorrect == Spec => []TypeOK
<1> USE ParameterAssumption DEF TypeOK, State, Gone
<1>1. Init => TypeOK
  BY DEF Init
<1>2. TypeOK /\ [Next]_vars => TypeOK'
  <2> SUFFICES ASSUME TypeOK, [Next]_vars
               PROVE  TypeOK'
    OBVIOUS
  <2>1. CASE Tick
    BY <2>1 DEF Tick
  <2>2. CASE LocalEdit
    BY <2>2 DEF LocalEdit, ChangeTask
  <2>3. CASE Project
    BY <2>3 DEF Project
  <2>4. CASE Crash
    BY <2>4 DEF Crash
  <2>5. ASSUME NEW m \in Mutation, Queue(m)
        PROVE  TypeOK'
    BY <2>5 DEF Queue
  <2>6. ASSUME NEW m \in Mutation, Apply(m)
        PROVE  TypeOK'
    BY <2>6 DEF Apply, ChangeTask
  <2>7. ASSUME NEW m \in Mutation, Refuse(m) \/ Record(m)
        PROVE  TypeOK'
    BY <2>7 DEF Refuse, Record
  <2>8. CASE UNCHANGED vars
    BY <2>8 DEF vars
  <2> HIDE DEF TypeOK
  <2> QED
    BY <2>1, <2>2, <2>3, <2>4, <2>5, <2>6, <2>7, <2>8 DEF Next
<1> QED
  BY <1>1, <1>2, PTL DEF Spec

\* A change of the row in a later second than its own: every snapshot that was
\* dated is older than the new row.
LEMMA LaterChange ==
  ASSUME TypeOK, Spaced, version <= now, NEW v \in {now, Gone}, ChangeTask(v)
  PROVE  /\ version' <= now
         /\ \A w, e \in Nat :
              Dated(w, e) => /\ w <= now /\ e < edits'
                             /\ version' = Gone \/ w < version'
<1>1. /\ version \in Nat /\ now \in Nat /\ edits \in Nat
      /\ version # Gone /\ version < now /\ version' = v /\ edits' = edits + 1
  BY ParameterAssumption DEF TypeOK, ChangeTask
<1> QED
  BY <1>1 DEF Dated, Gone

\* So such a change leaves the lock's invariant in place.
LEMMA KeepsDates ==
  ASSUME TypeOK, TypeOK', Lock, Spaced, NEW v \in {now, Gone}, ChangeTask(v),
         now' = now, views' = views, expected' = expected, basis' = basis
  PROVE  Lock'
<1>0. /\ version' <= now
      /\ \A w, e \in Nat :
           Dated(w, e) => w <= now /\ e < edits' /\ (version' = Gone \/ w < version')
  BY LaterChange DEF Lock
<1>1. edits' \in Nat
  BY DEF TypeOK
<1>2. ASSUME NEW w \in Nat, NEW e \in Nat, Dated(w, e)
      PROVE  /\ w <= now /\ e <= edits' /\ e # edits'
             /\ e < edits' => version' = Gone \/ w < version'
  BY <1>0, <1>1, <1>2
<1>4. ASSUME NEW view \in views
      PROVE  Dated(view[1], view[2])'
  <2>1. view[1] \in Nat /\ view[2] \in Nat /\ Dated(view[1], view[2])
    BY DEF TypeOK, Lock
  <2> QED
    BY <1>2, <2>1 DEF Dated
<1>5. ASSUME NEW m \in Mutation
      PROVE  Dated(expected[m], basis[m])'
  <2>1. expected[m] \in Nat /\ basis[m] \in Nat /\ Dated(expected[m], basis[m])
    BY DEF TypeOK, Lock
  <2> QED
    BY <1>2, <2>1 DEF Dated
<1> QED
  BY <1>0, <1>4, <1>5 DEF Lock

\* The lock's invariant: a change in a later second than the row's own leaves
\* every snapshot dated.
THEOREM LockHolds == ASSUME Spaced PROVE Spec => []Lock
<1> USE ParameterAssumption
<1>1. Init => Lock
  BY DEF Init, Lock, Dated, Gone
<1>2. TypeOK /\ TypeOK' /\ Lock /\ [Next]_vars => Lock'
  <2> SUFFICES ASSUME TypeOK, TypeOK', Lock, [Next]_vars
               PROVE  Lock'
    OBVIOUS
  <2> USE DEF Lock
  <2>0. /\ \A view \in views : view[1] \in Nat /\ view[2] \in Nat
        /\ \A m \in Mutation : expected[m] \in Nat /\ basis[m] \in Nat
    BY DEF TypeOK
  <2>1. CASE Tick
    BY <2>1, <2>0 DEF Tick, Dated, TypeOK
  <2>2. CASE LocalEdit
    <3>1. PICK v \in {now, Gone} : ChangeTask(v)
      BY <2>2 DEF LocalEdit
    <3>2. /\ now' = now /\ views' = views /\ expected' = expected /\ basis' = basis
      BY <2>2 DEF LocalEdit
    <3> QED
      BY <3>1, <3>2, KeepsDates
  <2>3. CASE Project
    BY <2>0, <2>3 DEF Project, Dated, TypeOK
  <2>4. CASE Crash
    BY <2>4 DEF Crash, Dated
  <2>5. ASSUME NEW m \in Mutation, Queue(m)
        PROVE  Lock'
    BY <2>5 DEF Queue, Dated, TypeOK
  <2>6. ASSUME NEW m \in Mutation, Apply(m)
        PROVE  Lock'
    <3>1. PICK v \in {now, Gone} : ChangeTask(v)
      BY <2>6 DEF Apply
    <3>2. /\ now' = now /\ views' = views /\ expected' = expected /\ basis' = basis
      BY <2>6 DEF Apply
    <3> QED
      BY <3>1, <3>2, KeepsDates
  <2>7. ASSUME NEW m \in Mutation, Refuse(m) \/ Record(m)
        PROVE  Lock'
    BY <2>7 DEF Refuse, Record, Dated
  <2>8. CASE UNCHANGED vars
    BY <2>8 DEF vars, Dated
  <2> HIDE DEF Lock
  <2> QED
    BY <2>1, <2>2, <2>3, <2>4, <2>5, <2>6, <2>7, <2>8 DEF Next
<1> QED
  BY <1>1, <1>2, TypeCorrect, PTL DEF Spec

\* With changes in distinct seconds no mutation overwrites a change its
\* operator had not seen.
THEOREM NoLostUpdateHolds == ASSUME Spaced PROVE Spec => NoLostUpdate
<1> DEFINE Current == \A m \in Mutation : applied'[m] # applied[m] => basis[m] = edits
<1>1. TypeOK /\ Lock /\ [Next]_vars => [Current]_vars
  <2> SUFFICES ASSUME TypeOK, Lock, [Next]_vars, NEW m \in Mutation, applied'[m] # applied[m]
               PROVE  basis[m] = edits
    OBVIOUS
  <2>1. Apply(m)
    BY DEF Next, Tick, LocalEdit, Project, Crash, Queue, Apply, Refuse, Record, vars, TypeOK
  <2>2. /\ basis[m] \in Nat /\ edits \in Nat /\ expected[m] \in Nat
        /\ Dated(expected[m], basis[m])
    BY DEF TypeOK, Lock
  <2>3. version # Gone /\ version = expected[m]
    BY <2>1 DEF Apply, Fresh
  <2>4. ~ (basis[m] < edits)
    BY <2>2, <2>3 DEF Dated
  <2> QED
    BY <2>2, <2>4 DEF Dated
<1> QED
  BY <1>1, TypeCorrect, LockHolds, PTL DEF Spec, NoLostUpdate

\* With changes in distinct seconds a mutation is applied at most once, also
\* when the Runtime dies before the outcome is on record and runs it again.
THEOREM AppliedOnceHolds == ASSUME Spaced PROVE Spec => []AppliedOnce
<1> USE ParameterAssumption
<1>1. Init => Spent
  <2> SUFFICES ASSUME Init PROVE Spent
    OBVIOUS
  <2>1. \A m \in Mutation : applied[m] = 0
    BY DEF Init
  <2>2. 0 <= 1 /\ 0 # 1
    OBVIOUS
  <2> QED
    BY <2>1, <2>2, Zenon DEF Spent
<1>2. TypeOK /\ Lock /\ Spent /\ [Next]_vars => Spent'
  <2> SUFFICES ASSUME TypeOK, Lock, Spent, [Next]_vars
               PROVE  Spent'
    OBVIOUS
  <2> USE DEF Spent, TypeOK
  <2>1. CASE Tick \/ Project
    BY <2>1 DEF Tick, Project
  <2>2. CASE LocalEdit
    BY <2>2 DEF LocalEdit, ChangeTask
  <2>3. CASE Crash
    BY <2>3 DEF Crash
  <2>4. ASSUME NEW m \in Mutation, Queue(m)
        PROVE  Spent'
    BY <2>4 DEF Queue
  <2>5. ASSUME NEW m \in Mutation, Apply(m)
        PROVE  Spent'
    <3>0. /\ basis[m] \in Nat /\ edits \in Nat /\ applied[m] \in Nat
          /\ Dated(expected[m], basis[m])
      BY DEF Lock
    <3>1. version # Gone /\ version = expected[m]
      BY <2>5 DEF Apply, Fresh
    <3>2. basis[m] = edits
      BY <3>0, <3>1 DEF Dated
    <3>3. applied[m] = 0
      BY <3>0, <3>2
    <3>4. edits' = edits + 1 /\ basis' = basis
      BY <2>5 DEF Apply, ChangeTask
    <3>5. /\ applied' = [applied EXCEPT ![m] = 1]
          /\ state' = [state EXCEPT ![m] = "applied"]
      BY <2>5, <3>3 DEF Apply
    <3>6. \A n \in Mutation : basis[n] \in Nat /\ basis[n] <= edits
      BY DEF Lock, Dated
    <3> QED
      BY <3>2, <3>4, <3>5, <3>6
  <2>6. ASSUME NEW m \in Mutation, Refuse(m) \/ Record(m)
        PROVE  Spent'
    BY <2>6 DEF Refuse, Record
  <2>7. CASE UNCHANGED vars
    BY <2>7 DEF vars
  <2> HIDE DEF Spent, TypeOK
  <2> QED
    BY <2>1, <2>2, <2>3, <2>4, <2>5, <2>6, <2>7 DEF Next
<1>3. Spent => AppliedOnce
  BY DEF Spent, AppliedOnce
<1> QED
  BY <1>1, <1>2, <1>3, TypeCorrect, LockHolds, PTL DEF Spec

-----------------------------------------------------------------------------
(* The type invariant in three parts, which no action mixes much.          *)

Marks ==
  /\ column \in Status
  /\ owned \in BOOLEAN /\ old \in BOOLEAN /\ listed \in BOOLEAN
  /\ aegis \in {"none", "approved", "rejected"}
  /\ worker \in {"online", "offline", "asking"}

Counts ==
  /\ attempts \in Nat /\ resolution \in Int
  /\ waiting \subseteq 1..sent /\ signed \subseteq Int
  /\ sent \in Nat /\ acts \in 0..ActCap /\ restarts \in 0..RestartCap

Reviewed == reviews \in [Run -> Review]

LEMMA Parts == BoardTypeOK <=> Marks /\ Counts /\ Reviewed
BY DEF BoardTypeOK, Marks, Counts, Reviewed

\* What a run is about stays a phase and a resolution.
LEMMA ReviewTyped ==
  ASSUME Reviewed, NEW r \in Run, NEW rec \in Review,
         reviews' = [reviews EXCEPT ![r] = rec]
  PROVE Reviewed'
BY DEF Reviewed

LEMMA IdleTyped == Idle \in Review
BY DEF Idle, Review

\* The resolution a run carries is one.
LEMMA OfTyped == ASSUME Reviewed, NEW r \in Run PROVE reviews[r].of \in Int
BY DEF Reviewed, Review

LEMMA MarksKept == Marks /\ [BoardNext]_boardVars => Marks'
<1> SUFFICES ASSUME Marks, [BoardNext]_boardVars PROVE Marks'
  OBVIOUS
<1> USE DEF Marks, Status, Writable, Moves
<1>1. CASE Route \/ Poll \/ ListTask \/ Dispatch
  BY <1>1 DEF Route, Poll, GoesOut, ListTask, Dispatch
<1>2. ASSUME NEW d \in waiting, Answer(d) \/ DispatchFails(d) PROVE Marks'
  BY <1>2 DEF Answer, DispatchFails, Retry
<1>3. CASE Requeue BY <1>3 DEF Requeue, Retry
<1>4. ASSUME NEW r \in Run, ListReview(r) \/ ClaimReview(r) PROVE Marks'
  BY <1>4 DEF ListReview, ClaimReview
<1>5. ASSUME NEW r \in Run, Approve(r) \/ Reject(r) \/ ReviewFails(r) PROVE Marks'
  BY <1>5 DEF Approve, Reject, ReviewFails, Retry
<1>6. ASSUME NEW s \in Status, Put(s) PROVE Marks'
  BY <1>6 DEF Put
<1>7. ASSUME NEW v \in {"approved", "rejected"}, PostReview(v) PROVE Marks'
  BY <1>7 DEF PostReview
<1>8. CASE WorkerChanges \/ GetsOld \/ Restart \/ UNCHANGED boardVars
  BY <1>8 DEF WorkerChanges, GetsOld, Restart, boardVars
<1> QED
  BY <1>1, <1>2, <1>3, <1>4, <1>5, <1>6, <1>7, <1>8
  DEF BoardNext, AnswerStep, ReviewStep, RouteStep

LEMMA CountsKept == Counts /\ Reviewed /\ [BoardNext]_boardVars => Counts'
<1> SUFFICES ASSUME Counts, Reviewed, [BoardNext]_boardVars PROVE Counts'
  OBVIOUS
<1> USE LimitAssumption DEF Counts
<1>1. ASSUME UNCHANGED <<attempts, resolution, signed, acts, restarts>>, GoesOut,
             waiting' = waiting \/ waiting' = waiting \cup {sent'}
      PROVE Counts'
  <2>1. sent' \in Nat /\ sent' = sent + 1 BY <1>1 DEF GoesOut
  <2>2. waiting \subseteq 1..sent' /\ sent' \in 1..sent' BY <2>1
  <2>3. waiting' \subseteq 1..sent' BY <1>1, <2>2
  <2> QED BY <1>1, <2>1, <2>3
<1>2. CASE Poll BY <1>1, <1>2 DEF Poll
<1>3. CASE Dispatch
  <2>1. CASE column = "assigned" BY <1>1, <1>3, <2>1 DEF Dispatch
  <2>2. CASE column # "assigned" BY <1>3, <2>2 DEF Dispatch
  <2> QED BY <2>1, <2>2
<1>4. ASSUME NEW d \in waiting, Answer(d) PROVE Counts'
  BY <1>4 DEF Answer
<1>5. ASSUME NEW d \in waiting, DispatchFails(d) PROVE Counts'
  BY <1>5 DEF DispatchFails, Retry
<1>6. CASE Requeue BY <1>6 DEF Requeue, Retry
<1>7. ASSUME NEW r \in Run, ListReview(r) PROVE Counts'
  BY <1>7 DEF ListReview
<1>8. ASSUME NEW r \in Run, ClaimReview(r) \/ ReviewFails(r) PROVE Counts'
  BY <1>8 DEF ClaimReview, ReviewFails
<1>9. ASSUME NEW r \in Run, Approve(r) PROVE Counts'
  BY <1>9, OfTyped DEF Approve
<1>10. ASSUME NEW r \in Run, Reject(r) PROVE Counts'
  BY <1>10 DEF Reject, Retry
<1>11. ASSUME NEW s \in Status, Put(s) PROVE Counts'
  <2>1. acts' \in 0..ActCap /\ - acts' \in Int BY <1>11 DEF Put, Acts
  <2> QED BY <1>11, <2>1 DEF Put
<1>12. ASSUME NEW v \in {"approved", "rejected"}, PostReview(v) PROVE Counts'
  <2>1. acts' \in 0..ActCap BY <1>12 DEF PostReview, Acts
  <2>2. signed' \subseteq Int BY <1>12 DEF PostReview
  <2> QED BY <1>12, <2>1, <2>2 DEF PostReview
<1>13. CASE Restart BY <1>13 DEF Restart
<1>14. CASE Route \/ ListTask \/ WorkerChanges \/ GetsOld \/ UNCHANGED boardVars
  BY <1>14 DEF Route, ListTask, WorkerChanges, GetsOld, boardVars
<1> QED
  BY <1>2, <1>3, <1>4, <1>5, <1>6, <1>7, <1>8, <1>9, <1>10, <1>11, <1>12, <1>13, <1>14
  DEF BoardNext, AnswerStep, ReviewStep, RouteStep

LEMMA ReviewedKept == Counts /\ Reviewed /\ [BoardNext]_boardVars => Reviewed'
<1> SUFFICES ASSUME Counts, Reviewed, [BoardNext]_boardVars PROVE Reviewed'
  OBVIOUS
<1>1. ASSUME NEW r \in Run, ListReview(r) PROVE Reviewed'
  <2>1. [phase |-> "listed", of |-> resolution] \in Review
    BY DEF Counts, Review
  <2> QED BY <1>1, <2>1, ReviewTyped DEF ListReview, Judging
<1>2. ASSUME NEW r \in Run, ClaimReview(r) PROVE Reviewed'
  <2>1. [phase |-> "judging", of |-> reviews[r].of] \in Review
    BY OfTyped DEF Review
  <2> QED BY <1>2, <2>1, IdleTyped, ReviewTyped DEF ClaimReview, Judging
<1>3. ASSUME NEW r \in Run, Approve(r) \/ Reject(r) \/ ReviewFails(r) PROVE Reviewed'
  BY <1>3, IdleTyped, ReviewTyped DEF Approve, Reject, ReviewFails, Verdict
<1>4. CASE Restart BY <1>4, IdleTyped DEF Restart, Reviewed
<1>5. CASE UNCHANGED reviews BY <1>5 DEF Reviewed
<1> QED
  BY <1>1, <1>2, <1>3, <1>4, <1>5
  DEF BoardNext, AnswerStep, ReviewStep, RouteStep, Route, Poll, ListTask, Dispatch,
      Answer, DispatchFails, Requeue, Put, PostReview, WorkerChanges, GetsOld, boardVars

\* The board's type invariant holds for every value of the constants.
THEOREM BoardTypeCorrect == BoardSpec => []BoardTypeOK
<1>1. BoardInit => BoardTypeOK
  <2> SUFFICES ASSUME BoardInit PROVE BoardTypeOK
    OBVIOUS
  <2>1. Marks BY DEF BoardInit, Marks, Status, Writable
  <2>2. Counts BY LimitAssumption DEF BoardInit, Counts
  <2>3. Reviewed BY IdleTyped DEF BoardInit, Reviewed
  <2> QED BY <2>1, <2>2, <2>3, Parts
<1>2. BoardTypeOK /\ [BoardNext]_boardVars => BoardTypeOK'
  <2>1. BoardTypeOK' <=> Marks' /\ Counts' /\ Reviewed'
    BY DEF BoardTypeOK, Marks, Counts, Reviewed
  <2> QED BY <2>1, Parts, MarksKept, CountsKept, ReviewedKept
<1> QED BY <1>1, <1>2, PTL DEF BoardSpec

-----------------------------------------------------------------------------
(* The budget.  A task that may go out again counts as sent once more, so  *)
(* that routing and claiming keep the sum and each way back to the         *)
(* assigned tasks pays for what it adds: with an attempt, as long as the   *)
(* limit is not reached, or with a request of an operator.                 *)

Out == IF column \in {"inbox", "assigned"} THEN 1 ELSE 0

\* What went out was paid for, and never above the limit.
Paid ==
  /\ sent + Out <= 1 + attempts + acts
  /\ sent + Out <= MaxDispatchRetries + acts

\* Giving back a task under either limit keeps the account.
LEMMA RetryPays ==
  ASSUME BoardTypeOK, Paid, NEW limit \in 1..MaxDispatchRetries,
         Retry(attempts, limit), sent' = sent, acts' = acts
  PROVE Paid'
<1> USE LimitAssumption DEF BoardTypeOK, Paid, Out, Retry, Moves
<1>1. sent \in Nat /\ acts \in Nat /\ attempts \in Nat /\ limit \in Nat
  OBVIOUS
<1>2. sent <= 1 + attempts + acts /\ sent <= MaxDispatchRetries + acts
  OBVIOUS
<1>3. CASE attempts + 1 >= limit
  <2>1. column' = "failed" /\ attempts' = attempts + 1 BY <1>3
  <2>2. Out' = 0 BY <2>1
  <2> QED BY <1>1, <1>2, <2>1, <2>2
<1>4. CASE ~ (attempts + 1 >= limit)
  <2>1. Out' = 1 /\ attempts' = attempts + 1 BY <1>4
  <2>2. attempts + 2 <= MaxDispatchRetries BY <1>1, <1>4
  <2> QED BY <1>1, <1>2, <2>1, <2>2
<1> QED BY <1>3, <1>4

\* A step that sends nothing and leaves the task where it does not go out, or
\* leaves its column alone, keeps the account.
LEMMA QuietPays ==
  ASSUME BoardTypeOK, BoardTypeOK', Paid, sent' = sent, attempts' = attempts,
         acts <= acts', column' \in {column, "review", "quality_review", "done"}
  PROVE Paid'
<1>1. sent \in Nat /\ acts \in Nat /\ acts' \in Nat /\ attempts \in Nat
  BY LimitAssumption DEF BoardTypeOK
<1>2. MaxDispatchRetries \in Nat BY LimitAssumption
<1>3. \/ column' = column
      \/ column' \in {"review", "quality_review", "done"}
  OBVIOUS
<1>4. Out \in Nat /\ Out' \in Nat /\ Out' <= Out BY <1>3 DEF Out
<1>5. sent + Out <= 1 + attempts + acts /\ sent + Out <= MaxDispatchRetries + acts
  BY DEF Paid
<1>6. \A x, y, a, b, m, c, d \in Nat :
         x + y <= m + c /\ x + y <= 1 + a + c /\ b <= y /\ c <= d
         => x + b <= m + d /\ x + b <= 1 + a + d
  OBVIOUS
<1>7. /\ sent + Out' <= MaxDispatchRetries + acts'
      /\ sent + Out' <= 1 + attempts + acts'
  BY <1>1, <1>2, <1>4, <1>5, <1>6
<1> QED BY <1>7 DEF Paid

\* A request pays for one more sending.
LEMMA ActPays ==
  ASSUME BoardTypeOK, Paid, Acts, sent' = sent, attempts' = attempts
  PROVE Paid'
<1>1. sent \in Nat /\ acts \in Nat /\ attempts \in Nat /\ acts' = acts + 1
  BY LimitAssumption DEF BoardTypeOK, Acts
<1>2. MaxDispatchRetries \in Nat BY LimitAssumption
<1> QED BY <1>1, <1>2 DEF Paid, Out

\* However dispatches, polls, requeues and reviews interleave, a task goes out
\* at most MaxDispatchRetries times, and once more for each request.
THEOREM SendBudgetHolds == BoardSpec => []SendBudget
<1>1. BoardInit => Paid
  BY LimitAssumption DEF BoardInit, Paid, Out
<1>2. BoardTypeOK /\ BoardTypeOK' /\ Paid /\ [BoardNext]_boardVars => Paid'
  <2> SUFFICES ASSUME BoardTypeOK, BoardTypeOK', Paid, [BoardNext]_boardVars
               PROVE Paid'
    OBVIOUS
  <2>0. sent \in Nat /\ acts \in Nat /\ attempts \in Nat /\ MaxDispatchRetries \in Nat
        /\ MaxDispatchRetries \in 1..MaxDispatchRetries
        /\ MaxAegisRetries \in 1..MaxDispatchRetries /\ acts <= acts
    BY LimitAssumption DEF BoardTypeOK
  <2>1. CASE Route
    <3>1. Out' = Out /\ sent' = sent /\ acts' = acts /\ attempts' = attempts
      BY <2>1 DEF Route, Moves, Out
    <3> QED BY <3>1 DEF Paid
  <2>2. ASSUME column \in {"inbox", "assigned"}, GoesOut,
               acts' = acts, attempts' = attempts
        PROVE Paid'
    <3>1. Out = 1 /\ Out' = 0 /\ sent' = sent + 1
      BY <2>2 DEF GoesOut, Moves, Out
    <3> QED BY <2>0, <2>2, <3>1 DEF Paid
  <2>3. CASE Poll BY <2>2, <2>3 DEF Poll
  <2>4. CASE Dispatch
    <3>1. CASE column = "assigned" BY <2>2, <2>4, <3>1 DEF Dispatch
    <3>2. CASE column # "assigned" BY <2>0, <2>4, <3>2, QuietPays DEF Dispatch
    <3> QED BY <3>1, <3>2
  <2>5. ASSUME NEW d \in waiting, Answer(d) PROVE Paid'
    BY <2>0, <2>5, QuietPays DEF Answer, Moves
  <2>6. ASSUME NEW d \in waiting, DispatchFails(d) PROVE Paid'
    <3>1. CASE column = "in_progress"
      BY <2>0, <2>6, <3>1, RetryPays DEF DispatchFails
    <3>2. CASE column # "in_progress"
      BY <2>0, <2>6, <3>2, QuietPays DEF DispatchFails
    <3> QED BY <3>1, <3>2
  <2>7. CASE Requeue BY <2>0, <2>7, RetryPays DEF Requeue
  <2>8. ASSUME NEW r \in Run, ListReview(r) PROVE Paid'
    <3>1. acts <= acts' BY <2>0, <2>8 DEF ListReview
    <3> QED BY <2>8, <3>1, QuietPays DEF ListReview
  <2>9. ASSUME NEW r \in Run, ClaimReview(r) PROVE Paid'
    BY <2>0, <2>9, QuietPays DEF ClaimReview, Moves
  <2>10. ASSUME NEW r \in Run, Approve(r) PROVE Paid'
    BY <2>0, <2>10, QuietPays DEF Approve, Moves
  <2>11. ASSUME NEW r \in Run, Reject(r) PROVE Paid'
    BY <2>0, <2>11, RetryPays DEF Reject
  <2>12. ASSUME NEW r \in Run, ReviewFails(r) PROVE Paid'
    BY <2>0, <2>12, QuietPays DEF ReviewFails, Moves
  <2>13. ASSUME NEW s \in Status, Put(s) PROVE Paid'
    BY <2>13, ActPays DEF Put
  <2>14. ASSUME NEW v \in {"approved", "rejected"}, PostReview(v) PROVE Paid'
    BY <2>14, ActPays DEF PostReview
  <2>15. CASE ListTask \/ WorkerChanges \/ GetsOld \/ Restart
    BY <2>0, <2>15, QuietPays DEF ListTask, WorkerChanges, GetsOld, Restart
  <2>16. CASE UNCHANGED boardVars
    BY <2>0, <2>16, QuietPays DEF boardVars
  <2> QED
    BY <2>1, <2>3, <2>4, <2>5, <2>6, <2>7, <2>8, <2>9, <2>10, <2>11, <2>12, <2>13,
       <2>14, <2>15, <2>16
    DEF BoardNext, AnswerStep, ReviewStep, RouteStep
<1>3. BoardTypeOK /\ Paid => SendBudget
  BY LimitAssumption DEF BoardTypeOK, Paid, Out, SendBudget
<1> QED BY <1>1, <1>2, <1>3, BoardTypeCorrect, PTL DEF BoardSpec

-----------------------------------------------------------------------------
(* The sign-off.  While nobody interferes, the scheduler's run of Aegis is *)
(* the only one, and what it listed or claimed keeps its column and its    *)
(* resolution until the verdict.                                           *)

\* The run is about the resolution the row has, in the column it put it in.
Undisturbed(r) ==
  /\ reviews[r].phase = "listed" => column = "review" /\ reviews[r].of = resolution
  /\ reviews[r].phase = "judging" =>
       column = "quality_review" /\ reviews[r].of = resolution

SignInv ==
  acts = 0 => /\ \A r \in Run \ {Scheduled} : reviews[r] = Idle
              /\ Undisturbed(Scheduled)
              /\ column = "done" => resolution \in signed

\* A task nobody interfered with is done only with an approved resolution.
THEOREM SignedOffHolds == BoardSpec => []SignedOff
<1>1. BoardInit => SignInv
  BY LimitAssumption DEF BoardInit, SignInv, Undisturbed, Idle
<1>2. BoardTypeOK /\ SignInv /\ [BoardNext]_boardVars => SignInv'
  <2> SUFFICES ASSUME BoardTypeOK, SignInv, [BoardNext]_boardVars, acts' = 0
               PROVE SignInv'
    BY DEF SignInv
  <2> USE LimitAssumption DEF SignInv, Undisturbed, Moves, Idle
  <2>0. ASSUME Acts PROVE FALSE
    BY <2>0 DEF Acts, BoardTypeOK
  <2>1. CASE Route BY <2>1 DEF Route
  <2>2. CASE Poll BY <2>2 DEF Poll, GoesOut
  <2>3. CASE ListTask BY <2>3 DEF ListTask
  <2>4. CASE Dispatch BY <2>4 DEF Dispatch, GoesOut
  <2>5. ASSUME NEW d \in waiting, Answer(d) PROVE SignInv'
    BY <2>5 DEF Answer
  <2>6. ASSUME NEW d \in waiting, DispatchFails(d) PROVE SignInv'
    BY <2>6 DEF DispatchFails, Retry
  <2>7. CASE Requeue BY <2>7 DEF Requeue, Retry
  <2>8. ASSUME NEW r \in Run, ListReview(r) PROVE SignInv'
    <3>1. r = Scheduled /\ acts = 0
      BY <2>8 DEF ListReview, BoardTypeOK
    <3> QED BY <2>8, <3>1 DEF ListReview, Judging, BoardTypeOK
  <2>9. ASSUME NEW r \in Run, reviews[r] # Idle, acts = 0 PROVE r = Scheduled
    BY <2>9
  <2>10. ASSUME NEW r \in Run, ClaimReview(r) PROVE SignInv'
    <3>1. r = Scheduled BY <2>9, <2>10 DEF ClaimReview
    <3> QED BY <2>10, <3>1 DEF ClaimReview, Judging, BoardTypeOK
  <2>11. ASSUME NEW r \in Run, Approve(r) PROVE SignInv'
    <3>1. r = Scheduled BY <2>9, <2>11 DEF Approve, Verdict
    <3> QED BY <2>11, <3>1 DEF Approve, Verdict, BoardTypeOK
  <2>12. ASSUME NEW r \in Run, Reject(r) PROVE SignInv'
    <3>1. r = Scheduled BY <2>9, <2>12 DEF Reject, Verdict
    <3> QED BY <2>12, <3>1 DEF Reject, Verdict, Retry, BoardTypeOK
  <2>13. ASSUME NEW r \in Run, ReviewFails(r) PROVE SignInv'
    <3>1. r = Scheduled BY <2>9, <2>13 DEF ReviewFails, Verdict
    <3> QED BY <2>13, <3>1 DEF ReviewFails, Verdict, BoardTypeOK
  <2>14. ASSUME NEW s \in Status, Put(s) PROVE SignInv'
    BY <2>0, <2>14 DEF Put
  <2>15. ASSUME NEW v \in {"approved", "rejected"}, PostReview(v) PROVE SignInv'
    BY <2>0, <2>15 DEF PostReview
  <2>16. CASE WorkerChanges \/ GetsOld
    BY <2>16 DEF WorkerChanges, GetsOld
  <2>17. CASE Restart BY <2>17 DEF Restart
  <2>18. CASE UNCHANGED boardVars BY <2>18 DEF boardVars
  <2> QED
    BY <2>1, <2>2, <2>3, <2>4, <2>5, <2>6, <2>7, <2>8, <2>10, <2>11, <2>12, <2>13,
       <2>14, <2>15, <2>16, <2>17, <2>18
    DEF BoardNext, AnswerStep, ReviewStep, RouteStep
<1>3. SignInv => SignedOff
  BY DEF SignInv, SignedOff
<1> QED BY <1>1, <1>2, <1>3, BoardTypeCorrect, PTL DEF BoardSpec
=============================================================================
