----------------------------- MODULE LocalMailbox -----------------------------
(***************************************************************************)
(* The edge Runtime's durable mailbox: mission-control-client/src/lib/     *)
(* local-mailbox.ts.  drainLocalMailbox is started by the bridge's welcome *)
(* frame, by every edge_message_wakeup frame and by the tray's HTTP call,  *)
(* with no lock between them, so several drains run at once in one Node    *)
(* process and interleave at every await.  A drain that scans the inbox    *)
(* holds the event loop until it awaits the handler of a session message.  *)
(*                                                                         *)
(* inbox, exec and outbox are SQLite tables and survive a crash; active,   *)
(* the drains and their snapshots are memory and do not.  What the center  *)
(* answers is the parameter of PullDone and PostDone: here anything, in    *)
(* EdgeDelivery what EdgeRelay does.  The rows enqueuePermissionDecision-   *)
(* Sync puts into the outbox go to another route and are left out.         *)
(***************************************************************************)
EXTENDS Naturals, FiniteSets, SequencesExt

CONSTANTS
  Message,    \* messages the center may hand out
  Drain,      \* the runs of drainLocalMailbox that may overlap
  NoKey,      \* a message without a session
  Envelope,   \* the columns of each message, as in EdgeRelay
  Trim,       \* String.prototype.trim on keys
  QueryLimit, \* LIMIT of the inbox and outbox queries
  RunCap,     \* effects saturate here
  CrashCap    \* how often the process may die

ASSUME MessageAssumption == IsFiniteSet(Message)
ASSUME BoundAssumption == QueryLimit \in Nat \ {0} /\ RunCap \in Nat \ {0} /\ CrashCap \in Nat

VARIABLES
  inbox,     \* local_message_inbox.status, "absent" before the insert
  received,  \* local_message_inbox.received_at, in order of seconds only
  stamp,     \* the second of the newest insert
  exec,      \* local_message_executions.status by idempotency key
  outbox,    \* local_message_outbox, in order of id
  active,    \* activeSerialKeys
  drain,     \* phase, remaining snapshot and claimedSerialKeys of each drain
  effects,   \* how often the handler of a message had its effect
  crashes    \* restarts of the process so far

vars == <<inbox, received, stamp, exec, outbox, active, drain, effects, crashes>>

SessionKind == {"assist", "continue", "watched"}   \* handlers that await a CLI run
SyncKind == {"mutation", "decision"}               \* handlers that only use SQLite

KeyOf(m) == Trim[Envelope[m].key]
IdemOf(m) == Envelope[m].idem
Idem == {IdemOf(m) : m \in Message}
Keys == {KeyOf(m) : m \in Message} \ {NoKey}

Phase == {"idle", "flush1", "pull", "scan", "handle", "wrote", "flush2"}
Receipt == [msg: Message, action: {"ack", "fail"}, retryable: BOOLEAN, state: {"pending", "sent"}, due: BOOLEAN]

TypeOK ==
  /\ inbox \in [Message -> {"absent", "pending", "processing", "completed", "failed"}]
  /\ received \in [Message -> Nat]
  /\ stamp \in Nat
  /\ exec \in [Idem -> {"none", "completed", "failed"}]
  /\ outbox \in Seq(Receipt)
  /\ active \subseteq Keys
  /\ drain \in [Drain -> [phase: Phase, rows: Seq(Message) \cup Seq(Nat), claimed: SUBSET Keys]]
  /\ effects \in [Message -> 0..RunCap]
  /\ crashes \in 0..CrashCap

Idle == [phase |-> "idle", rows |-> <<>>, claimed |-> {}]

Init ==
  /\ inbox = [m \in Message |-> "absent"]
  /\ received = [m \in Message |-> 0]
  /\ stamp = 0
  /\ exec = [i \in Idem |-> "none"]
  /\ outbox = <<>>
  /\ active = {}
  /\ drain = [d \in Drain |-> Idle]
  /\ effects = [m \in Message |-> 0]
  /\ crashes = 0

-----------------------------------------------------------------------------
\* No other drain holds the event loop: the scan awaits only the handlers of
\* session messages, the others return within the same turn.
HoldsLoop(e) ==
  \/ drain[e].phase = "scan"
  \/ drain[e].phase \in {"handle", "wrote"} /\ Envelope[Head(drain[e].rows)].kind \notin SessionKind

LoopFree(d) == \A e \in Drain \ {d} : ~ HoldsLoop(e)

Goto(d, p, rows) == [drain EXCEPT ![d].phase = p, ![d].rows = rows]

FirstRows(q) == SubSeq(q, 1, IF Len(q) < QueryLimit THEN Len(q) ELSE QueryLimit)

\* What a query for the rows S returns, ORDER BY at and LIMIT; rows of one
\* place come in any order.
Query(S, at) ==
  {FirstRows(q) : q \in {s \in SetToSeqs(S) : \A i, j \in DOMAIN s : i < j => at[s[i]] <= at[s[j]]}}

NewReceipt(m, action, retryable) ==
  [msg |-> m, action |-> action, retryable |-> retryable, state |-> "pending", due |-> TRUE]

\* The rows flushOutbox selects: pending and due, oldest id first.
OutboxRows(box) ==
  Query({i \in DOMAIN box : box[i].state = "pending" /\ box[i].due}, [i \in DOMAIN box |-> i])

\* Where a flush leads: to its first post, or past itself when nothing is due.
EnterFlush(d, box, p, next) ==
  {Goto(d, IF rows = <<>> THEN next ELSE p, rows) : rows \in OutboxRows(box)}

\* drainLocalMailbox starts with a flush.
StartDrain(d) ==
  /\ drain[d].phase = "idle"
  /\ LoopFree(d)
  /\ drain' \in EnterFlush(d, outbox, "flush1", "pull")
  /\ UNCHANGED <<inbox, received, stamp, exec, outbox, active, effects, crashes>>

\* Mutant: a refused row counts as sent.
PostGivesUp(d, ok) ==
  /\ drain[d].phase \in {"flush1", "flush2"}
  /\ LoopFree(d)
  /\ outbox' = [outbox EXCEPT ![Head(drain[d].rows)].state = "sent"]
  /\ LET rest == Tail(drain[d].rows)
         next == IF drain[d].phase = "flush1" THEN "pull" ELSE "idle"
     IN  drain' = Goto(d, IF rest = <<>> THEN next ELSE drain[d].phase, rest)
  /\ UNCHANGED <<inbox, received, stamp, exec, active, effects, crashes>>

\* The center answered the post of the first remaining outbox row, or the
\* request failed; a refused row waits and is never given up.
PostDone(d, ok) ==
  /\ drain[d].phase \in {"flush1", "flush2"}
  /\ LoopFree(d)
  /\ LET id == Head(drain[d].rows)
         rest == Tail(drain[d].rows)
         next == IF drain[d].phase = "flush1" THEN "pull" ELSE "idle"
     IN  /\ outbox' = IF ok THEN [outbox EXCEPT ![id].state = "sent"]
                            ELSE [outbox EXCEPT ![id].due = FALSE]
         /\ drain' = Goto(d, IF rest = <<>> THEN next ELSE drain[d].phase, rest)
  /\ UNCHANGED <<inbox, received, stamp, exec, active, effects, crashes>>

\* next_attempt_at of a refused row passes.
OutboxDue(id) ==
  /\ id \in DOMAIN outbox
  /\ outbox[id].state = "pending" /\ ~ outbox[id].due
  /\ outbox' = [outbox EXCEPT ![id].due = TRUE]
  /\ UNCHANGED <<inbox, received, stamp, exec, active, drain, effects, crashes>>

\* processInbox selects its rows: unfinished, ORDER BY received_at, LIMIT.
InboxRows(box, at) == Query({m \in Message : box[m] \in {"pending", "processing"}}, at)

\* pullMailboxMessages got the leased messages S ({} when the request failed):
\* a row that is already in the inbox is left alone (ON CONFLICT DO NOTHING),
\* whatever its status.  processInbox takes its snapshot right after.
PullDone(d, S) ==
  LET fresh == {m \in S : inbox[m] = "absent"}
  IN  /\ drain[d].phase = "pull"
      /\ LoopFree(d)
      /\ stamp' \in IF fresh = {} THEN {stamp} ELSE {stamp, stamp + 1}
      /\ inbox' = [m \in Message |-> IF m \in fresh THEN "pending" ELSE inbox[m]]
      /\ received' = [m \in Message |-> IF m \in fresh THEN stamp' ELSE received[m]]
      /\ \E rows \in InboxRows(inbox', received') :
           drain' = [drain EXCEPT ![d] = [phase |-> "scan", rows |-> rows, claimed |-> {}]]
      /\ UNCHANGED <<exec, outbox, active, effects, crashes>>

-----------------------------------------------------------------------------
\* The loop of processInbox over the snapshot; the rows are as they were when
\* the snapshot was taken, only exec and active are read anew.
Row(d) == Head(drain[d].rows)

Scanning(d) == drain[d].phase = "scan" /\ drain[d].rows # <<>>

\* Mutant: only the keys of this scan are looked at.
TakenInScan(d) == KeyOf(Row(d)) # NoKey /\ KeyOf(Row(d)) \in drain[d].claimed

KeyTaken(d) == KeyOf(Row(d)) # NoKey /\ KeyOf(Row(d)) \in active \cup drain[d].claimed

KeySet(m) == {KeyOf(m)} \ {NoKey}

SkipRow(d) ==
  /\ Scanning(d)
  /\ KeyTaken(d)
  /\ drain' = Goto(d, "scan", Tail(drain[d].rows))
  /\ UNCHANGED <<inbox, received, stamp, exec, outbox, active, effects, crashes>>

\* Mutant: a failed execution counts as an earlier one.
AckAnyRecord(d) ==
  LET m == Row(d)
  IN  /\ Scanning(d)
      /\ ~ KeyTaken(d)
      /\ exec[IdemOf(m)] # "none"
      /\ inbox' = [inbox EXCEPT ![m] = "completed"]
      /\ outbox' = Append(outbox, NewReceipt(m, "ack", FALSE))
      /\ drain' = [drain EXCEPT ![d].rows = Tail(@), ![d].claimed = @ \cup KeySet(m)]
      /\ UNCHANGED <<received, stamp, exec, active, effects, crashes>>

\* The idempotency key was executed before: acknowledge without running.
AckDuplicate(d) ==
  LET m == Row(d)
  IN  /\ Scanning(d)
      /\ ~ KeyTaken(d)
      /\ exec[IdemOf(m)] = "completed"
      /\ inbox' = [inbox EXCEPT ![m] = "completed"]
      /\ outbox' = Append(outbox, NewReceipt(m, "ack", FALSE))
      /\ drain' = [drain EXCEPT ![d].rows = Tail(@), ![d].claimed = @ \cup KeySet(m)]
      /\ UNCHANGED <<received, stamp, exec, active, effects, crashes>>

\* A handler's effect: a prompt written into the Worker session, a task
\* mutation or a permission decision applied.  The status check of a decision
\* refuses to apply it twice; a mutation compares versions of one second
\* (TaskWriteBack) and may be refused or applied each time.
MayTakeEffect(m) == Envelope[m].kind = "decision" => effects[m] = 0

OneMore(m) == [effects EXCEPT ![m] = IF @ < RunCap THEN @ + 1 ELSE @]

\* The row becomes "processing" and its handler is called; a synchronous
\* handler has its effect, or refuses, before the call returns.
BeginRow(d) ==
  LET m == Row(d)
  IN  /\ Scanning(d)
      /\ ~ KeyTaken(d)
      /\ exec[IdemOf(m)] # "completed"
      /\ inbox' = [inbox EXCEPT ![m] = "processing"]
      /\ active' = active \cup KeySet(m)
      /\ \/ /\ drain' = [drain EXCEPT ![d].phase = "handle", ![d].claimed = @ \cup KeySet(m)]
            /\ UNCHANGED effects
         \/ /\ Envelope[m].kind \in SyncKind /\ MayTakeEffect(m)
            /\ drain' = [drain EXCEPT ![d].phase = "wrote", ![d].claimed = @ \cup KeySet(m)]
            /\ effects' = OneMore(m)
      /\ UNCHANGED <<received, stamp, exec, outbox, crashes>>

\* executeLocalSessionPromptAndWait writes the prompt while the drain awaits.
HandlerWrites(d) ==
  /\ drain[d].phase = "handle"
  /\ LoopFree(d)
  /\ Envelope[Row(d)].kind \in SessionKind
  /\ drain' = [drain EXCEPT ![d].phase = "wrote"]
  /\ effects' = OneMore(Row(d))
  /\ UNCHANGED <<inbox, received, stamp, exec, outbox, active, crashes>>

\* Mutants: the serial key is not released; the receipt is not queued; the
\* status name of another table is written and nothing else.
FinishKeepsKey(d, s, receipt) ==
  LET m == Row(d)
  IN  /\ LoopFree(d)
      /\ inbox' = [inbox EXCEPT ![m] = s]
      /\ exec' = [exec EXCEPT ![IdemOf(m)] = s]
      /\ outbox' = Append(outbox, receipt)
      /\ drain' = Goto(d, "scan", Tail(drain[d].rows))
      /\ UNCHANGED <<received, stamp, active, effects, crashes>>

FinishWithoutReceipt(d, s, receipt) ==
  LET m == Row(d)
  IN  /\ LoopFree(d)
      /\ inbox' = [inbox EXCEPT ![m] = s]
      /\ exec' = [exec EXCEPT ![IdemOf(m)] = s]
      /\ active' = active \ KeySet(m)
      /\ drain' = Goto(d, "scan", Tail(drain[d].rows))
      /\ UNCHANGED <<received, stamp, outbox, effects, crashes>>

FinishInboxFirst(d, s, receipt) ==
  LET m == Row(d)
  IN  /\ LoopFree(d)
      /\ inbox' = [inbox EXCEPT ![m] = "done"]
      /\ active' = active \ KeySet(m)
      /\ drain' = Goto(d, "scan", Tail(drain[d].rows))
      /\ UNCHANGED <<received, stamp, exec, outbox, effects, crashes>>

\* One transaction records the outcome in the inbox, in the execution log and
\* in the outbox; the finally clause releases the serial key.
Finish(d, s, receipt) ==
  LET m == Row(d)
  IN  /\ LoopFree(d)
      /\ inbox' = [inbox EXCEPT ![m] = s]
      /\ exec' = [exec EXCEPT ![IdemOf(m)] = s]
      /\ outbox' = Append(outbox, receipt)
      /\ active' = active \ KeySet(m)
      /\ drain' = Goto(d, "scan", Tail(drain[d].rows))
      /\ UNCHANGED <<received, stamp, effects, crashes>>

Succeed(d) ==
  /\ drain[d].phase = "wrote"
  /\ Finish(d, "completed", NewReceipt(Row(d), "ack", FALSE))

\* A CLI run may fail after the prompt was written; that is retryable.  A
\* refusal before the effect is retryable unless the message is malformed, its
\* type unknown or its version stale.
FailRow(d, retryable) ==
  /\ \/ drain[d].phase = "handle"
     \/ drain[d].phase = "wrote" /\ Envelope[Row(d)].kind \in SessionKind /\ retryable
  /\ retryable => Envelope[Row(d)].kind \in SessionKind \cup SyncKind
  /\ Finish(d, "failed", NewReceipt(Row(d), "fail", retryable))

\* processInbox returns and the second flush begins.
EndScan(d) ==
  /\ drain[d].phase = "scan" /\ drain[d].rows = <<>>
  /\ \E next \in EnterFlush(d, outbox, "flush2", "idle") :
       drain' = [next EXCEPT ![d].claimed = {}]
  /\ UNCHANGED <<inbox, received, stamp, exec, outbox, active, effects, crashes>>

-----------------------------------------------------------------------------
\* The process dies and the tray starts it again: only the tables are left.
Crash ==
  /\ crashes < CrashCap
  /\ crashes' = crashes + 1
  /\ active' = {}
  /\ drain' = [d \in Drain |-> Idle]
  /\ UNCHANGED <<inbox, received, stamp, exec, outbox, effects>>

\* Everything a drain does between two answers of the center.
LocalStep(d) ==
  \/ StartDrain(d)
  \/ SkipRow(d) \/ AckDuplicate(d) \/ BeginRow(d) \/ EndScan(d)
  \/ HandlerWrites(d)
  \/ Succeed(d)
  \/ \E retryable \in BOOLEAN : FailRow(d, retryable)

Next ==
  \/ \E d \in Drain :
       \/ LocalStep(d)
       \/ \E ok \in BOOLEAN : PostDone(d, ok)
       \/ \E S \in SUBSET Message : PullDone(d, S)
  \/ \E id \in DOMAIN outbox : OutboxDue(id)
  \/ Crash

Spec == Init /\ [][Next]_vars

-----------------------------------------------------------------------------
Running(d) == drain[d].phase \in {"handle", "wrote"}

\* Two drains never write into one Worker session at the same time, however
\* wakeups, tray calls and stale snapshots overlap: activeSerialKeys.
SerialExecution ==
  \A d, e \in Drain :
    d # e /\ Running(d) /\ Running(e) /\ KeyOf(Row(d)) = KeyOf(Row(e)) => KeyOf(Row(d)) = NoKey

\* The keys held are those of the running rows: the finally clause leaks none,
\* which would silence a session until the process restarts.
KeysHeld == active = UNION {KeySet(Row(d)) : d \in {e \in Drain : Running(e)}}

\* Nothing is acknowledged that had no effect, duplicates included: an ack in
\* the outbox means some message of its idempotency key was executed.
AckBacked ==
  \A i \in DOMAIN outbox :
    outbox[i].action = "ack"
    => \E m \in Message : IdemOf(m) = IdemOf(outbox[i].msg) /\ effects[m] > 0

\* A finished row always left a receipt for the center, across crashes.
ReceiptForOutcome ==
  \A m \in Message :
    /\ inbox[m] = "completed" => \E i \in DOMAIN outbox : outbox[i].msg = m /\ outbox[i].action = "ack"
    /\ inbox[m] = "failed" => \E i \in DOMAIN outbox : outbox[i].msg = m /\ outbox[i].action = "fail"

\* A message that belongs to a session is never executed again once its
\* execution is on record, not even from a snapshot taken before.
NoRunAfterRecord ==
  [][\A m \in Message :
       KeyOf(m) # NoKey /\ effects'[m] # effects[m] => exec[IdemOf(m)] # "completed"]_vars

\* PRD section 8, scenario "restart after lease": the prompt of a continue is
\* not written twice.
WrittenOnce == \A m \in Message : Envelope[m].kind \in SessionKind => effects[m] <= 1
=============================================================================
