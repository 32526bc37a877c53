# agentAC: TLA+ models of the three-program control plane

The repository holds three programs: `mission-control` (the cloud control
center: Next.js, one Node process, better-sqlite3), `mission-control-client`
(the edge Runtime, a fork of the center that runs next to the CLI agents) and
`mission-control-tray` (a Rust program that installs and supervises the
Runtime). Operators work at the center; the agents that do the work live at the
edge. What makes the system hard is the path between the two: a durable message
relay in the cloud, a durable mailbox at the edge, and HTTP in between that
loses, repeats and delays requests, while either process may restart. On top of
that path the center runs long processes (supervised goals, the human watch)
that wait minutes for a language model and act on what they read before.

This directory models the path, the things that travel over it (task
mutations, permission decisions), the long processes of the center (goal
supervision, human watch, the task board) and its outbound webhooks.

- [Inventory](#inventory) · [Modules](#modules-and-the-code) · [Runs](#runs) ·
  [Fairness](#fairness) · [Disagreements](#disagreements-with-the-documents) ·
  [Proofs](#proofs) · [Not modelled](#what-is-not-modelled) · [Plan](#plan)

## One rule about atomicity

Both servers are single Node processes over synchronous SQLite. Everything
between two `await`s, with every transaction in it, runs to its end before
anything else does, so it is *one* action; every `await` is a point at which
every other actor may act. What the code read before an `await` and uses after
it is a variable of the model (the snapshot of a drain, what a verdict is
about). A crash falls between two actions, or between the effect of a handler
outside the database and the transaction that records it.

## Inventory

| component | code | state | operations |
| --- | --- | --- | --- |
| Edge message relay | `mission-control/src/lib/edge-messages.ts` | rows of `edge_messages` (status, lease owner and expiry, attempts, next attempt), `human_watch_events`, `human_watch_intervention_logs` | create, lease (sweeps lapsed leases first), ack, fail, cancel |
| Local mailbox | `mission-control-client/src/lib/local-mailbox.ts` | tables `local_message_inbox`, `local_message_outbox`, `local_message_executions`; `activeSerialKeys` in memory | drain = flush, pull, process, flush; handlers for assist, continue, decision, mutation |
| Mailbox transport | `edge-upstream-fetch.ts`, routes `edge/messages/*` | requests and answers under way | lease, ack, fail over HTTP |
| Task write-back | `local-mutations` route, `work-task-projection.ts`, `executeMutationMessage` | the local task and its `updated_at`, snapshots at the center, queued mutations | project, queue, apply or refuse |
| Goal supervision | `mission-control/src/lib/supervision-*.ts` | goals, plans, goal tasks joined with tasks, idempotency keys of messages, observations | operators' actions, planning, dispatch, completion, monitor, correction, verification, budgets |
| Human watch | `human-watch-orchestrator.ts`, `-events.ts`, `-assist.ts`, `human-watch/*` routes | bindings, events (pending, visible, claimed, resolved, dismissed), timers and evaluations in memory | evaluate a session, judge, reply, escalate, act on an event, ask for help |
| Permission requests | `permission-requests.ts` at both ends, `bridge-server.ts`, `remote-server-bridge.ts` | a request in each program, decision rows, the edge's outbox | create, snapshot, decide, forward, wait |
| Task board | `task-dispatch.ts`, routes `tasks/*`, `quality-review` | `tasks` (status, attempts, resolution), `quality_reviews` | route, dispatch, poll, review, requeue, and what operators and Workers write |
| Webhooks | `webhooks.ts`, routes `webhooks/*` | `webhooks` (enabled, failures), `webhook_deliveries` with the time of a retry | fire, deliver, retry, test, change, delete |
| Tray supervisor | `mission-control-tray/src-tauri/src/supervisor.rs` | process, port, time of the last recovery | health loop, recovery, update, drain every 60 s |
| Work projection | `work-task-projection.ts` and its pages | snapshots per client | store, page |
| Scheduler | `scheduler.ts` | last run of each job | runs the periodic jobs of supervision, human watch, the board and webhooks |
| Bridge | `bridge-server.ts`, `remote-server-bridge.ts` | WebSocket per client, pending requests | request with timeout, wake-up, welcome frame, permission messages |
| Local session executor | `mission-control-client/src/lib/local-session-executor.ts` | child processes | write a prompt, read a transcript |
| Steward memories, auth and tenants, synchronisers, web interface | see `PROJECT.json` | | |

**How they interact.** Human watch, supervision, permission decisions and
task mutations end in a call of the relay's `createEdgeMessage` with an
idempotency key. The edge pulls: a drain of the mailbox is started by the
Bridge's welcome frame, by a wake-up after a message was queued, and by the
tray's HTTP call every 60 seconds; drains overlap. The drain leases rows,
stores them in its inbox, runs the handler of each, writes a receipt into its
outbox and posts it. The relay settles the row and writes through to the
human-watch event and audit log the message belongs to.

**What is hard in each, and what makes it correct.**

- *Relay.* Leases lapse while the work goes on (120 s, never renewed, against
  handlers that take hours), receipts come late or twice, two rows of one
  Worker session must not be out together, retries have a budget, and three
  tables must tell one story. Correct: serial exclusion, one row per tenant and
  idempotency key, an honest audit, final states that stay.
- *Mailbox.* Overlapping drains work from snapshots of the inbox and share a
  set of serial keys; the process dies between an effect and its record.
  Correct: serial execution, no leaked key, no run after the record, receipts
  that match what happened.
- *Transport.* Lost requests, lost answers, and a client that repeats a POST
  after any "fetch failed". Correct: the composition still keeps what relay and
  mailbox promise together, and every message is tried and reported.
- *Task write-back.* A mutation is ordered against a snapshot and executed any
  time later. Correct: it never overwrites an edit its operator did not see,
  and it is applied once.
- *Supervision.* Operators, Workers and the scheduler write the goal row;
  only operators compare its version. The steward answers after minutes.
  Correct: the lock protects operators from every writer, finished goals stay
  finished, only approved plans and satisfied dependencies are worked on, each
  recovery is really sent, the goal is completed on what was judged.
- *Human watch.* The binding, the rate limit and the open events are read, then
  the transcript and the judgement are awaited, then an event is written or a
  reply queued; an operator may act on the same event while another one's send
  is awaited, and receipts of earlier replies come late. Correct: an event is
  closed by a human or by the delivered reply to it, one answerer at a time, what was handed to
  humans is closed by humans, limits stop a binding of workspace 1 also while
  nobody evaluates it, and nothing the Worker of such a binding waits for falls
  silent while its tenant may use the watch.
- *Permission requests.* Two copies, decided at either end, with snapshots that
  are pushed once and decisions that travel by Bridge, by the outbox and by
  replies in the session. Correct: the first decision at the center stands, an
  edge that missed nothing and decided nothing shows it, only humans approve
  what is dangerous, offline decisions are not lost.
- *Task board.* Dispatch and review wait for agents for minutes while tasks are
  requeued, edited and reviewed by others. Correct: no path sends a task out
  without an attempt, and nothing is done without a sign-off of what it says.
- *Webhooks.* Answers come ten seconds late, runs of the retry job overlap, the
  events of one webhook share the count of the circuit breaker. Correct: each
  event has exactly one attempt left until it is settled, and a dead receiver is
  cut off.
- *Tray.* Health checks, updates and a resume thread restart the same Runtime.
  Correct: never two Runtimes, no recovery within the gap of another.

`PROJECT.json` lists every hazard with its line, and the properties that would
catch it going wrong.

## Modules and the code

| module | stands for | state and actions |
| --- | --- | --- |
| `EdgeRelay` | `edge-messages.ts` | One message per element of `Message`, whose immutable columns are the record `Envelope[m]`. `status`, `owner`, `attempts`, `event`, `audit` are columns; a lease expiry or a `next_attempt_at` is reduced to whether it has passed (`lapsed`, `backoff`). `Create`, `Lease`, `Ack`, `Fail`, `Cancel` are the exported functions, each with its transaction and what it writes to the watch tables. `Lease` sweeps, sorts the due rows as the query does (`Scans` lets rows of one second come in any order), cuts the page of three times the limit and skips rows whose serial key is leased. The environment: time (`LeaseLapses`, `BackoffEnds`), a client that registers under another workspace (`Heartbeat`), and what becomes of the watch event a reply names: operators list, claim and dismiss it (`Show`, `Claim`, `Dismiss`), their answers arrive or fail and set it back to pending, whatever it is by now (`AnswerEnds`), another event of its key is raised once it is closed and keeps it from being opened again (`RivalRaised`, `MayOpen`), and a restart forgets who waits. |
| `LocalMailbox` | `local-mailbox.ts` | The three tables (`inbox`, `outbox`, `exec`), the key set (`active`), and for each drain its phase and the rows of the query it still has to look at. `StartDrain`, `PostDone`, `PullDone`, `SkipRow`, `AckDuplicate`, `BeginRow`, `HandlerWrites`, `Succeed`, `FailRow`, `EndScan` follow `processInbox` and its neighbours between awaits; `effects` counts writes into a session (or decisions and mutations applied), the ghost variable the properties speak of. `Crash` empties memory and keeps tables. |
| `EdgeDelivery` | relay + mailbox + HTTP | Both modules by `INSTANCE` over the same constants. `Serve` lets the relay handle the request of a drain, `Receive` lets the answer arrive, `Lose` breaks the connection (the request may still be served later, `stray`), `Resend` repeats it as `edgeUpstreamFetch` does, `Crash` kills the Runtime with its requests under way. |
| `DeliveryContract` | the promise of both | Four steps per message: offer, run, deliver, drop. `EdgeDelivery` is shown to implement it with the refinement mapping at its end (`Contract`). Messages of different tenants with one key are `Twins`: the edge knows the key alone. |
| `TaskWriteBack` | write-back of one local task | `version` is `tasks.updated_at` in whole seconds and 0 once deleted; the ghosts `edits` and `basis` count changes and remember which of them the snapshot showed. `Project`, `Queue`, `Apply`, `Refuse`, `Record`, `LocalEdit`, `Crash`. The constant `Spaced` says whether two changes may fall into one second. |
| `Supervision` | `supervision-*.ts` and their routes | `goal`, `plans`, `tasks` are rows, `orders` the idempotency keys of messages that were really queued, `events` the observations that ask for a correction, `judging` the calls of the steward that wait with what was read before them, `seen` what an operator's page shows of the goal. Each step of the scheduler's supervision run, each operators' route and the completion route is an action; the run's order is not assumed because each step can be started by its own route while the run waits. |
| `HumanWatch` | `human-watch-orchestrator.ts`, `-events.ts`, `-assist.ts`, `-audit.ts`, the action route | `binding`, `events` are rows; `timer` and `eval` are the debounced and the running evaluation with the binding row they were *started with*; `reply` is the queued message of each fingerprint and its event. `binding` also says whether it is in workspace 1 (`polled`) and whether its tenant may use the watch (`allowed`, `SetPolicy`); `Refused` is the unique index of open events, under which `WriteEvent` fails. An evaluation is four actions between its awaits (`Begin`, `Fetched`, `Escalates` or `Replies`, with `FetchFails`, `JudgeFails`, `QueueFails`). Around it: `Configure`, `Poll`, `Claim`, `AnswerArrives`, `AnswerFails`, `Dismiss`, the receipts (`Delivered`, `NotDelivered`, `GivenUp`), `AskForHelp` and its ends, time (`GraceEnds`, `WindowSlides`, `RuntimeEnds`), the connection and `Restart`. |
| `Permissions` | `permission-requests.ts` at both ends and the permission messages of the Bridge | `status`, `keys`, `rows` per copy; `down` and `up` are what the socket holds; `outbox`, `judging`, `forwarding` are the work under way, `told` what the waiting Worker got. `Decide` is `decidePermissionRequest` with its order of checks, `Reply` is `recordWorkerHumanReply`; `Create`, `CenterDecides`, `CenterReply`, `Receive`, `Deliver`, `JudgeAnswers`, `EdgeStewardOffline`, `EdgeDecides`, `Flush`, `Disconnect`, `Connect`, `WorkerIsTold`. |
| `TaskBoard` | `task-dispatch.ts` and the routes that write a task | One row: `column` (status), `attempts`, `resolution` (named by the sending it answers), `aegis`; `waiting` are dispatches whose agent has not answered, `reviews` what each run of Aegis read and is about. `Route`, `Poll`, `ListTask`/`Dispatch`, `Answer`, `DispatchFails`, `Requeue`, `ListReview`/`ClaimReview`, `Approve`, `Reject`, `ReviewFails`, `Put`, `PostReview`, `WorkerChanges`, `Restart`. |
| `Webhooks` | `webhooks.ts` and the routes under `api/webhooks` | `rows` is `webhook_deliveries` (`retry`: the time of a retry is set), `claimed` what a run of the retry job has read and cleared but not posted, `calls` the posts that wait. `Fire`, `ReadDue`, `Repost`, `Answer`, `Update`, `Delete`, `Test`, `RetryByHand`, `HookRestart`. |
| `…Proofs` | | The theorems about a component and their proofs (`TaskProofs`: about `TaskWriteBack` and `TaskBoard`; `DeliveryProofs`: about `EdgeDelivery`). |
| `MCCenter`, `MCDesk` | | Components that share no state, checked in one run each: `EdgeRelay`, `Supervision` and `Webhooks`; `TaskWriteBack`, `Permissions` and `TaskBoard`. `part` names the component that moves in a behaviour, the others stay as they began. No handler of one reads or writes a table of another, so a product of their steps would show nothing more about the properties, each of which speaks of one of them. |
| `MC…` | | Instances: small message tables and plans. |

Operators named `…AnyState`, `…Uncounted`, `Never…`, `LostAsDone` and the like
that stand directly before an action are *mutants*: the action with one plausible
bug. They are in no specification; `PROJECT.json` names the property that finds
each of them, and the property is then violated under its own configuration.

Some abstractions that hold for all modules: texts, payloads, errors and names
are model values or left out; times are reduced to the comparisons the code
makes with them; every field the guards read is kept. `MaxReplans`, `QueryLimit`,
`max` of an envelope and the like are the code's own limits; those named `…Cap`
and `LastSecond` are bounds of the model and stop the environment (runs counted,
crashes, stray requests, attempts, versions of a plan, observations, requests of
operators).

## Runs

| run | configuration | distinct states | shows |
| --- | --- | --- | --- |
| `center` | `MCCenter.cfg` | 883 thousand | relay: `SerialExclusion RetryBudget OneRowPerKey AuditTruth AckReleasesEvent FinalStays`; goals: `GoalTypeOK SeenIsCurrent WorkIsApproved EveryRecoveryOrdered DependenciesFirst ParallelLimits TerminalStays`; webhook: `ChainUnbroken DeadReceiverIsCut` |
| `mailbox` | `MCLocalMailbox.cfg` | 1.27 million | `TypeOK SerialExecution KeysHeld AckBacked ReceiptForOutcome NoRunAfterRecord` |
| `mailbox_twice` | `MCLocalMailbox_twice.cfg` | violated | `WrittenOnce` |
| `delivery` | `MCEdgeDelivery.cfg` | 189 thousand | `SentMeansCompleted KeepsContract` |
| `delivery_live` | `MCEdgeDelivery_live.cfg` | 10 thousand | `EveryMessageTried EveryRunReported` |
| `delivery_retry` | `MCEdgeDelivery_retry.cfg` | violated | `RetriesSettle` |
| `desk` | `MCDesk.cfg` | 1.29 million | write-back: `AppliedOnce NoLostUpdate`; request: `RequestTypeOK EdgeFollows DangerousByHuman CenterFinal OfflineDecisionKept`; board: `SendBudget SignedOff` |
| `writeback_overwrite` | `MCTaskWriteBack_overwrite.cfg` | violated | `NoLostUpdate` |
| `supervision_verdict` | `MCSupervision_verdict.cfg` | violated | `AcceptedAsJudged` |
| `watch` | `MCHumanWatch.cfg` | 252 thousand | `TypeOK ClosedForCause OneAnswerer ClosedByHuman LimitStops WaitingIsHandled` |
| `watch_closed` | `MCHumanWatch_closed.cfg` | violated | `ClosedStays` |
| `board_signoff` | `MCTaskBoard_signoff.cfg` | violated | `OnlySignedOff` |

The type invariants of `EdgeRelay`, `TaskWriteBack`, `TaskBoard` and `Webhooks`
are proved and not among the runs.

**Bounds, and why they are enough.**

- `center`, relay: three messages; two belong to one Worker session and have one
  idempotency key under two tenants (one of them the NULL tenant), the third
  repeats the key of the first from another workspace. A lease call names a tenant
  or none. One operator at a time (`Askers`) answers a
  watch event; that an answer may fail after anything else happened to the event
  needs no more. So a page can hold
  both rows of a session, one while the other is leased, or a foreign row
  between. Budgets of one and two attempts and `AttemptCap` 3 reach the last
  retry and a lease beyond the budget. Page sizes 1 and 2 give pages that are
  cut. One client: no operation relates rows of two clients.
- `mailbox`: two drains, one session message and one that belongs to no session,
  one crash. Every pair of steps of two drains over one row is covered;
  `QueryLimit` 2 leaves nothing out, `RunCap` 2 tells once from twice.
- `delivery`: one message is enough, since relay and mailbox have their own runs
  with several; two drains, one crash, one request that arrives after its caller
  gave up, unlimited losses and repeats.
- `delivery_live`: one drain, one crash, no stray request. A pull that is
  served after its caller gave up takes the lease with nobody to receive the
  rows. If that happens again and again, no message gets through, and no
  fairness of the programs rules it out; so the run assumes it stops.
- `desk`, write-back: three mutations (two updates, one deletion) and a malformed one,
  four seconds, one crash: enough for two changes before, between and after a
  snapshot and the execution.
- `center`, goal: two Workers, two tasks (independent, or one after the other),
  two versions of the plan, two retries, one replan, one call of the steward,
  one observation, two requests of operators at any moment. Two versions let a
  new plan meet what the old one left running; two requests let a goal be
  paused and resumed, or cancelled while an answer is on its way.
- `center`, webhook: two events and two runs of the retry job, so that attempts
  of two events mix in one count and two runs compete for one row; three
  attempts per event (the code: five) put one between the first and the last;
  a history of three rows (the code: 200) fills up, so that a row that waits is
  pruned; one request of an administrator, one restart.
- `desk`, request: one idempotency key of a reply next to the keys of the two
  actions, and two (`Cap`) decisions, replies or lost connections at the edge;
  those of the center are unlimited, because a decided request takes no other.
- `desk`, board: the code's own limits (5 and 3), two runs of Aegis, one of them
  started by hand, one request or report, one restart. Sendings and waiting
  dispatches are unlimited; the attempts bound them, which is what `SendBudget`
  says.
- `watch`: one fingerprint at a time (a second one only repeats the first: rows
  are related by equal fingerprints), two operators, limits of one, and two of
  the disturbing events (requests, lost connections, restarts, changes of the
  policy, the end of the runtime) in any order: enough for one operator's answer
  to fail after another dismissed the event, and for either to meet the event
  that was raised meanwhile. The tenant may use the watch from the start or not.
  The binding is in workspace 1 (`PolledInit`): one outside it does the same save
  that it is never polled, so its behaviours are among those checked, and the two
  liveness properties ask nothing of it. `watch_closed` and the theorems take
  either.

`CHECK_DEADLOCK FALSE` is said where the system may rest: all messages settled,
the task deleted, the goal finished or the bound of the environment reached. In
the mailbox a drain can always be started, and its runs check for deadlock.

## Fairness

`EdgeDelivery` and `HumanWatch` state fairness (`Fairness`), for their liveness
properties. `EdgeDelivery`:

- Steps of a drain, strongly fair: drains are started by the tray every 60
  seconds whatever happened before, so a drain that is possible again and again
  is run; within a drain, the event loop goes on.
- Requests being served and answered, strongly fair: a request may be lost any
  number of times, but if the drain tries for ever, one gets through and so does
  its answer. For a pull this is asked of the answers that bring rows
  (`MailArrives`) too: the network does not lose exactly those.
- Leases lapse, backoffs end (`Clock`) and outbox rows fall due (`RowDue`),
  weakly fair: these are comparisons with the clock.

`HumanWatch`:

- The poll (`Poll`) of a binding of workspace 1, weakly fair, and strongly fair
  while the client is online: the orchestrator asks for the bindings of
  workspace 1 only, so `Poll` is not possible for another one, and `LimitStops`
  and `WaitingIsHandled` speak of polled bindings. The interval of 60 seconds goes
  on whatever happens, and a client that keeps coming back (`[]<>online` is asked
  by `WaitingIsHandled` itself) is not offline at every poll. The same holds of the debounce timer (`TimerFires`).
- Neither the transcript nor the steward is out of reach for ever (`Fetched`,
  `Escalates \/ Replies`, strongly fair). Both awaits have timeouts, and whatever
  can fail to be fetched or judged can also succeed, so these two conditions also
  say that every evaluation ends.
- The grace period and the window of the rate limit end (`GraceEnds`,
  `WindowSlides`, weakly fair): comparisons with the clock.

No fairness is asked of crashes, losses, cancellations, new messages, operators
or receipts.

## Disagreements with the documents

Six runs check what a document of the repository says, and TLC finds it violated.

- **`RetriesSettle`** (`local-mailbox.ts:452`, `edge-messages.ts:424`). The PRD
  says that a retryable failure is retried and ends in `dead_letter` after
  `max_attempts`. The relay does lease the row again, but the edge has it in its
  inbox as `failed`; the insert is dropped and nothing selects it. No second run,
  no second receipt. The lease lapses, the sweep makes the row `pending` again
  without a look at `max_attempts`, and the message is handed out for ever.
- **`WrittenOnce`** (`local-mailbox.ts:646`). The PRD says that after a restart
  a message is processed again "and the continue is not written twice". The
  prompt is written before the record; after a crash between them it is written
  again. Nothing at the edge remembers that a handler had begun.
- **`NoLostUpdate`** with two changes in one second (`local-mailbox.ts:155`). A
  release note says that stale snapshots are rejected because applying one could
  overwrite newer local work. The version is a time in whole seconds; an edit in
  the second of the snapshot is invisible to the comparison. With `Spaced` the
  same property holds and is proved.
- **`AcceptedAsJudged`** (`supervision-verifier.ts:274`). The architecture
  document says every transition compares the version. The verdict compares the
  status alone; a task that an operator starts again while the steward judges is
  under way when the goal is completed on the result it had before.

- **`ClosedStays`** (`human-watch-events.ts:339`). The architecture document
  asks for decisions written under a condition on the state or a version, and
  that a closed event takes no second decision. `updateHumanWatchEvent` writes
  unconditionally; an operator whose message fails after three minutes puts an
  event back to `pending` that another operator dismissed meanwhile. The other
  properties of the module exempt fingerprints to which that happened
  (`reopened`), so that they speak of everything else.
- **`OnlySignedOff`** (`task-dispatch.ts:488`). The README of the center promises
  that Aegis "blocks task completion without sign-off". The verdict is about the
  resolution the run read before it asked; a resolution that is reported while
  Aegis judges is completed by the verdict on the old one. `SignedOff` shows
  that it takes an interference: undisturbed tasks keep the promise.

Seen while modelling, without a run of their own:

- The comment at `human-watch-orchestrator.ts:866` says that runtime limits must
  expire while the edge is offline. `enforceHumanWatchAutoStops` and
  `pollActiveBindings` ask for workspace 1 alone (854, 865): an offline binding
  of another workspace passes its limits and stays on, and nothing but a
  transcript event or a request evaluates it.
- A tenant whose policy is off ends every evaluation without a word (553), before
  the stop conditions; a wait that was not yet handled then stays silent though
  its binding is on. `WaitingIsHandled` exempts it (`allowed`).
- A receipt of a reply that was not delivered sets its event back to visible. If
  another event of the same thing was raised meanwhile, the unique index refuses
  that, the whole acknowledgement is undone and the edge posts it again; so does
  the failed answer of an operator, whose catch throws a second time.
- The relay keeps one row per tenant, client and key, but the edge's record of
  executions has the key alone: of two messages of different tenants with one
  key it runs one and acknowledges both. `DeliveryContract` promises no more
  (`Twins`). The center's own jobs build keys from identifiers that are unique
  across tenants; the routes that take the key from the request
  (`edge/messages/route.ts:81`, `tasks/local-mutations/route.ts:60`) do not.

Also: failed dispatches and
rejections share one counter, so a task that failed twice before its first
review is failed by its first rejection, where `docs/orchestration.md:171`
speaks of three review cycles; the rejection feedback a Worker should get is
looked up by a text (`Quality Review Rejected:%`) that no writer produces; an
outbox row that the relay refuses for good is posted again for ever; a missed
snapshot of a permission request is not sent again on reconnect, and a decision
of the edge that never reaches the center is overwritten by a later snapshot.
The models show these behaviours; `missed`, `edgeChose` and the wording of the
properties say where.

## Proofs

TLAPS checks eight modules, for every value of the constants that satisfies the
assumptions named in the modules: `EdgeRelayProofs` (8 theorems),
`LocalMailboxProofs` (6), `DeliveryProofs` (4), `TaskProofs` (7: write-back and
board), `SupervisionProofs` (7), `HumanWatchProofs` (4), `PermissionsProofs` (7)
and `WebhooksProofs` (4). Every safety property that a passing run checks is
stated by a theorem; the runs show that the instances are not empty, and their
mutants that the properties can fail.

The assumptions are those a deployment meets: tables and plans are finite,
limits are numbers, the special values (no key, nobody, no Worker) are none of
the ordinary ones. `EdgeDelivery` assumes those of its two parts. Of the caps of
the models only `AttemptCap` is more than a number: it exceeds every budget.

**`EdgeRelayProofs`**

- `TypeCorrect` (`TypeOK`), then `LeaseColumnsHold`: an owner exactly while
  leased, a lapse only of a lease, no result without an attempt. That invariant
  is what the others need of the lease columns.
- `SerialExclusionHolds`: at most one leased row per client and serial key. The
  inductive step for `Lease` has two halves, found by the lemmas about pages
  (`ScanRows`, `BatchRows`, `LeaseStep`): a new row has no peer that was leased
  when the scan began, and none that was put into the batch before it. It
  assumes `KeysTrimmed`: the code compares the candidate's trimmed key with the
  peer's key as stored, so a padded key escapes. Every caller in the source
  builds trimmed keys.
- `RetryBudgetHolds`, `OneRowPerKeyHolds`, `AuditTruthHolds` and the action
  property `FinalStaysHolds`: each from the type and lease invariants, one
  step of the proof per action.
- `AckReleasesEventHolds` is not inductive. `WatchedOnly`: only a watched message
  names an event. `TakenUp`: an event an operator waits for an answer to was
  claimed. So an acknowledged reply's event is pending only after an operator had
  taken it up, which is what the unconditional write of a failed answer leaves
  behind.

**`LocalMailboxProofs`**, for any number of drains:

- `TypedHolds` strengthens `TypeOK` with the kinds of rows each phase of a drain
  holds (receipts while it posts, messages while it scans).
- `NextIs` reduces every action to a kind of step (a row begins, is written, ends,
  stops, is repeated, or nothing that matters here moves), and the invariants
  are proved of the kinds.
- `Exclusion` is the two halves of the serial keys: the keys held are those of
  the running rows (`KeysHeldHolds`), and no two running rows share one
  (`SerialExecutionHolds`). Neither is inductive alone: a row that ends must not
  release the key of another, and a row that begins is compared with the keys.
- `AckBackedHolds` from `Backed`: record, acknowledgement and a handler past its
  write all have an effect behind them. `ReceiptForOutcomeHolds` from `Answered`.
- `NoRunAfterRecordHolds`, if one idempotency key names one session
  (`IdemNamesSession`). The mailbox alone cannot know that, since its table is
  unique by message; the relay keeps one row per tenant, client and key, and
  `DeliveryProofs` uses that instead of the hypothesis, for keys that one tenant
  uses.

**`DeliveryProofs`**, the composition:

- `ImplementsRelay` and `ImplementsBox`: whatever is lost, repeated or late, the
  two ends take only steps of `EdgeRelay` and `LocalMailbox`. Every theorem about
  a part is then one about the composition, and its invariants are cited, not
  proved again. This needs that answers and stray requests are well formed
  (`AnswerFit`, `StrayFit`: a request tells the truth about its outbox row).
- `WithinHolds`: nothing is at the edge, in a queue or in an answer, that the
  relay does not hold for this edge. `ReportedHolds`: a completed row has its
  acknowledgement in the outbox; `Confirmed`: a drain that is told so is told the
  truth. Together: `SentMeansCompletedHolds`.
- `KeepsContractHolds` is the refinement of `DeliveryContract`, step by step: a
  step of the relay offers, delivers or drops one message or stutters
  (`RelayKeeps`), a step of the edge runs one or stutters (`EdgeKeeps`). That a
  session message never runs after it is reported rests on `Recorded` (what is
  acknowledged is on record, and what runs is not) and on `OwnKeys`: rows with one key are one row or twins, and
  a session message of the contract has no twin (`Alone`). For twins the theorem
  says only that one of them ran.

**`TaskProofs`**

- Write-back, under `Spaced`. `LockHolds`: a snapshot that misses a change of the
  task is *older* than the task. `NoLostUpdate` is not inductive; `Lock` is what
  makes equality of versions mean that nothing was missed, and needs that the
  clock moves between changes. `NoLostUpdateHolds` is one step from `Lock`;
  `AppliedOnceHolds` needs, besides it, that the version of a mutation which was
  applied is spent: a second execution after a crash finds a later version or no
  task at all.
- Board. `BoardTypeCorrect` in three parts (`Marks`, `Counts`, `Reviewed`).
  `SendBudgetHolds` from `Paid`: what was sent, and the sending the column still
  allows, is covered by the attempts and the requests, and by the limit. Each
  writer that gives the task back pays an attempt (`RetryPays`), a request pays
  one sending (`ActPays`), everything else gives nothing back (`QuietPays`).
  `SignedOffHolds` from `SignInv`: without a request (a run of Aegis by hand is
  one) the scheduler's run is the only one, and what it judges is the resolution
  the row has, because an answer that could replace it finds the task no longer
  in progress.

**`SupervisionProofs`**, for any tasks, plans, Workers and budgets:

- `GoalTypeCorrect`; `NextIs` reduces the actions to what they may do to goal,
  plans, tasks, orders and observations, as in the mailbox.
- `SeenIsCurrentHolds` and `TerminalStaysHolds` are about every writer of the goal
  row. `DependenciesFirstHolds` rests on `WorkIsApprovedHolds`, on
  `OrdersHaveTasks` (a message is about a task that exists), and on a
  dependency that is met staying met (`MetStays`).
- `EveryRecoveryOrderedHolds` from `OnRecord`: each recovery that was ordered is
  known by what it answers, the counts of the task if it was by hand and
  otherwise an observation that is corrected once. So the key of the next one is
  new (`RecoveryIsNew`) and its message is not swallowed.
- `ParallelLimitsHolds` counts the first attempts under way (`FirstsAfter`): a
  dispatch adds one after it compared both limits, everything else removes.

**`HumanWatchProofs`**, for any fingerprints, operators and limits:

- `EventsEffect` says what a step may do to the events and who does it: only the
  evaluation that asked the steward and the request for help hand over; and an
  event that is closed was closed already, or has a `Cause`: a human, the request
  for help it belongs to, or the receipt of a delivered reply that names it.
- `WatchInv` is the type with `ClosedForCause` and three more. `Asked`: what the
  steward is asked about had no open event when the code looked, and still has
  none when the answer is used, because one process keeps one evaluation of a
  session and only it raises events of a fingerprint; this is the stale read the
  evaluation lives with, and it fails only for what was reopened. `ReplyFits`: the
  event of a reply that waits was not handed over. `HelpAlone`: a request for help
  has an event of its own, so its end is never the cause for another.
- `ClosedForCauseHolds` rests on `HelpAlone` and on replies keeping their event,
  `OneAnswererHolds` on `Asked`, `ClosedByHumanHolds` on `ReplyFits` and
  `HelpAlone`. That a thing has one open event is not a theorem: the database
  sees to it.

**`PermissionsProofs`**, without assumptions on the constants:

- `CopyStep` says what one side's decision or reply may do to its copy and to the
  bridge, and every action is shown to be such steps. The inductive invariant
  `IInv` is `RequestTypeOK` with `HumanBehind` (an approval of something
  dangerous in a copy, in a snapshot on its way, or told to the Worker, has a
  decision row of a human), `NewestShown` (the newest snapshot on its way, or
  else the edge's copy, shows the center) and `ForwardsDecided`.
  `DangerousByHuman` alone is not inductive, because a snapshot carries an
  approval to the edge later; `EdgeFollows` is not, because it speaks only of an
  empty socket.
- `CenterFinalHolds`; `KeysOfPendingHold` (while the center waits, only a refused
  approval can have left its idempotency key), from which
  `OfflineDecisionKeptHolds` follows: a flush that finds its key known finds the
  request decided, or keeps the row.

**`WebhooksProofs`**

- `HookTypeCorrect` from `HookInv`: what waits, is claimed or is under way is
  about an event that was fired.
- `DeadReceiverIsCutHolds` from `Cut`: while nobody answers, every attempt still
  to be made has a failure on the shared count for each one before it, so the
  last attempt of an event finds the count complete, for any `MAX_RETRIES`.
- `ChainUnbrokenHolds` from `Chain`, which names the one place of an attempt
  (`OnlyWaits`, `OnlyClaimed`, `OnlyCalled`) instead of counting places; each
  step moves the attempt from one to the next. Only the last lemma (`Places`)
  counts.

**What is only model-checked.** The liveness properties (`EveryMessageTried`,
`EveryRunReported`, `LimitStops`, `WaitingIsHandled`), because the proof system
reaches neither fairness nor ENABLED; and the six disagreements, which are
counterexamples.

## What is not modelled

`PROJECT.json` gives the status of every component. In short: the tray's
recovery and updates and the life of a steward memory are state machines that
belong here and are planned. Spawning and parsing of CLI agents, the
synchronisers of GitHub, gateways and runs, and the web interface are dominated
by formats or hold no state others depend on; the web panels of both programs
are more than half of the source's lines. The Bridge appears through its
permission messages, as an await with any outcome, and as a drain that may
start at any time. Left out inside the modelled components:

- `Supervision`: the lease of the monitor, the attempts of the automatic planner,
  the semantic check of single outputs and the scoring of Workers, as its header
  says; operators who edit a supervised task on the task board.
- `HumanWatch`: creation and deletion of bindings, the approve and deny actions
  that settle a permission request, and the rules that read a transcript. Only
  acknowledged replies count against the rate limit, as in the code.
- `Permissions`: notifications, the status of linked watch events.
- `TaskBoard`: recurring tasks, deletion, the capacity of agents, and two reviews
  of one second, whose order the query leaves open. Dispatches may overlap
  without a request, because the job can be started by hand. `SignedOff` covers
  undisturbed tasks only.
- `Webhooks`: addresses, secrets and signatures.

## Plan

Done: `EdgeRelay`, `LocalMailbox`, `EdgeDelivery` and `DeliveryContract`,
`TaskWriteBack`, `Supervision`, `HumanWatch`, `Permissions`, `TaskBoard` and
`Webhooks`, and the proofs of their safety properties.

Next:

1. The positive counterparts of the disagreements: what each document's claim
   needs to be true (no crash between a write and its record, no request while
   the steward judges, no message that fails), stated and proved.
2. `TraySupervisor`: one Runtime at a time and the recovery gap.
3. `HumanWatch` composed with `EdgeRelay` through the watch event they share.
