---------------------------- MODULE TaskWriteBack ----------------------------
(***************************************************************************)
(* Changes of one local task ordered from the cloud's task board:          *)
(* handleWorkTaskMutationMessage of mission-control-client's               *)
(* local-mailbox.ts, with the local task routes it competes with and the   *)
(* board that reads a projection of the task.                              *)
(*                                                                         *)
(* The optimistic lock is the task's updated_at in whole seconds.  The     *)
(* handler checks it and applies the change without an await, so the two   *)
(* are one step; its outcome is recorded later (processInbox), and a crash *)
(* in between makes the handler run again.                                 *)
(***************************************************************************)
EXTENDS Naturals

CONSTANTS
  Mutation,   \* messages of type work.task.mutation.requested for the task
  Deletes,    \* those whose operation is "delete"
  Malformed,  \* those that name no change of the task the handler supports
  Spaced,     \* TRUE if no two changes of the task fall into one second
  LastSecond, \* the clock stops here
  CrashCap    \* how often the Runtime may die

ASSUME ParameterAssumption ==
  /\ Deletes \subseteq Mutation /\ Malformed \subseteq Mutation /\ Spaced \in BOOLEAN
  /\ LastSecond \in Nat \ {0} /\ CrashCap \in Nat

VARIABLES
  now,      \* the second
  version,  \* tasks.updated_at, Gone when the row was deleted
  edits,    \* how often the task was changed so far
  views,    \* snapshots <<version, edits>> the cloud was ever sent
  expected, \* expected_updated_at of each mutation, and
  basis,    \* the edits its operator had seen
  state,    \* the message at the edge
  applied,  \* how often each mutation changed the task
  crashes

vars == <<now, version, edits, views, expected, basis, state, applied, crashes>>

Gone == 0
State == {"none", "queued", "applied", "refused", "completed", "failed"}

TypeOK ==
  /\ now \in 1..LastSecond
  /\ version \in Nat
  /\ edits \in Nat
  /\ views \subseteq Nat \X Nat
  /\ expected \in [Mutation -> Nat] /\ basis \in [Mutation -> Nat]
  /\ state \in [Mutation -> State]
  /\ applied \in [Mutation -> Nat]
  /\ crashes \in 0..CrashCap

Init ==
  /\ now = 1
  /\ version = 1
  /\ edits = 0
  /\ views = {<<1, 0>>}
  /\ expected = [m \in Mutation |-> 1] /\ basis = [m \in Mutation |-> 0]
  /\ state = [m \in Mutation |-> "none"]
  /\ applied = [m \in Mutation |-> 0]
  /\ crashes = 0

-----------------------------------------------------------------------------
Tick ==
  /\ now < LastSecond
  /\ now' = now + 1
  /\ UNCHANGED <<version, edits, views, expected, basis, state, applied, crashes>>

\* A change of the row in this second, by whomever; v is its new updated_at.
ChangeTask(v) ==
  /\ version # Gone
  /\ Spaced => version < now
  /\ version' = v
  /\ edits' = edits + 1

\* PUT and DELETE /api/tasks/[id] on the edge check no version.
LocalEdit ==
  /\ edits < LastSecond + 1
  /\ \E v \in {now, Gone} : ChangeTask(v)
  /\ UNCHANGED <<now, views, expected, basis, state, applied, crashes>>

\* A snapshot of the task is sent to the cloud.  Snapshots are cached, stored
\* for clients that are offline, kept by open pages and may overtake one
\* another, so an operator may be looking at any of them.
Project ==
  /\ version # Gone
  /\ views' = views \cup {<<version, edits>>}
  /\ UNCHANGED <<now, version, edits, expected, basis, state, applied, crashes>>

\* queueLocalTaskMutation sends the version the operator looks at; the message
\* arrives in the inbox of the edge.
Queue(m) ==
  /\ state[m] = "none"
  /\ state' = [state EXCEPT ![m] = "queued"]
  /\ \E view \in views :
       /\ expected' = [expected EXCEPT ![m] = view[1]]
       /\ basis' = [basis EXCEPT ![m] = view[2]]
  /\ UNCHANGED <<now, version, edits, views, applied, crashes>>

-----------------------------------------------------------------------------
\* Mutant: an older snapshot than the task's version is accepted too.
NotNewer(m) == version # Gone /\ expected[m] <= version

\* A deleted task is not found, any other version is a conflict.
Fresh(m) == version # Gone /\ version = expected[m]

Apply(m) ==
  /\ state[m] = "queued"
  /\ Fresh(m) /\ m \notin Malformed
  /\ ChangeTask(IF m \in Deletes THEN Gone ELSE now)
  /\ state' = [state EXCEPT ![m] = "applied"]
  /\ applied' = [applied EXCEPT ![m] = @ + 1]
  /\ UNCHANGED <<now, views, expected, basis, crashes>>

\* TASK_NOT_FOUND, TASK_VERSION_CONFLICT and the INVALID_ codes, none of them
\* retryable.
Refuse(m) ==
  /\ state[m] = "queued"
  /\ ~ Fresh(m) \/ m \in Malformed
  /\ state' = [state EXCEPT ![m] = "refused"]
  /\ UNCHANGED <<now, version, edits, views, expected, basis, applied, crashes>>

\* processInbox writes the outcome and queues the receipt.
Record(m) ==
  /\ state[m] \in {"applied", "refused"}
  /\ state' = [state EXCEPT ![m] = IF @ = "applied" THEN "completed" ELSE "failed"]
  /\ UNCHANGED <<now, version, edits, views, expected, basis, applied, crashes>>

\* An inbox row that is still "processing" is handled again.
Crash ==
  /\ crashes < CrashCap
  /\ crashes' = crashes + 1
  /\ state' = [m \in Mutation |-> IF state[m] \in {"applied", "refused"} THEN "queued"
                                  ELSE state[m]]
  /\ UNCHANGED <<now, version, edits, views, expected, basis, applied>>

Next ==
  \/ Tick \/ LocalEdit \/ Project \/ Crash
  \/ \E m \in Mutation : Queue(m) \/ Apply(m) \/ Refuse(m) \/ Record(m)

Spec == Init /\ [][Next]_vars

-----------------------------------------------------------------------------
\* Release note 2.1.82: stale cloud snapshots are rejected, because applying
\* one could overwrite newer local work.  A mutation changes the task only if
\* nobody changed it since the snapshot the operator looked at, however long
\* the message waited and whatever order mutations arrive in.
NoLostUpdate ==
  [][\A m \in Mutation : applied'[m] # applied[m] => basis[m] = edits]_vars

\* Release note 2.1.82: execution is idempotent across restarts.
AppliedOnce == \A m \in Mutation : applied[m] <= 1

=============================================================================
