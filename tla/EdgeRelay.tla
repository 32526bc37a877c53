------------------------------ MODULE EdgeRelay ------------------------------
(***************************************************************************)
(* The cloud's durable message relay: mission-control/src/lib/             *)
(* edge-messages.ts.  One row of edge_messages is kept for every accepted  *)
(* create call; edge clients lease rows in batches, then acknowledge or    *)
(* fail each of them, and an operator may cancel one.  Every exported      *)
(* function runs in one SQLite transaction of a single process, so each is *)
(* one atomic action here.                                                 *)
(*                                                                         *)
(* Wall-clock columns are abstracted to what is compared with "now":       *)
(* lapsed holds the leased rows whose lease_expires_at has passed, backoff *)
(* the rows whose next_attempt_at is still in the future.  A call that the *)
(* code rejects (wrong client, wrong owner, row not leased, ...) changes   *)
(* nothing and is not a step.  Rows of direction edge_to_cloud are never   *)
(* candidates of a lease and are left out.                                 *)
(***************************************************************************)
EXTENDS Naturals, FiniteSets, SequencesExt

CONSTANTS
  Message,      \* the create calls that may be made, and the rows they insert
  Client,       \* edge clients
  Workspace,    \* workspaces of the tenants
  Owner,        \* lease_owner strings the clients send
  Key,          \* session_ref.serial_key, or the key derived from the session
  NoKey,        \* a message without a session reference
  Nobody,       \* a NULL column
  Envelope,     \* the immutable columns of each message
  Trim,         \* String.prototype.trim on keys
  Limits,       \* the page sizes clients ask for
  Filters,      \* what a lease call may be limited to: message types and tenants
  AttemptCap,   \* attempt_count saturates here: above every max_attempts
  Askers        \* bound: operators who answer one watch event at the same time

Kind == {"assist", "continue", "watched", "mutation", "decision", "unsupported"}

ASSUME MessageAssumption == IsFiniteSet(Message)
ASSUME EnvelopeAssumption ==
  Envelope \in [Message -> [client: Client, workspace: Workspace, tenant: Nat, idem: Nat,
                            key: Key \cup {NoKey}, kind: Kind, max: Nat \ {0}]]
ASSUME KeyAssumption ==
  /\ NoKey \notin Key
  /\ Trim \in [Key \cup {NoKey} -> Key \cup {NoKey}]
  /\ \A k \in Key \cup {NoKey} : Trim[Trim[k]] = Trim[k]
  /\ \A k \in Key \cup {NoKey} : Trim[k] = NoKey <=> k = NoKey
ASSUME OwnerAssumption == Nobody \notin Owner /\ Nobody \notin Workspace
ASSUME LimitAssumption ==
  /\ Limits \subseteq Nat \ {0}
  /\ Filters \subseteq [kinds: SUBSET Kind, tenants: SUBSET Nat]
ASSUME CapAssumption ==
  /\ AttemptCap \in Nat /\ \A m \in Message : Envelope[m].max < AttemptCap
  /\ Askers \in Nat

VARIABLES
  status,    \* edge_messages.status, "absent" before the row is inserted
  owner,     \* edge_messages.lease_owner
  attempts,  \* edge_messages.attempt_count
  born,      \* edge_messages.created_at, in order of seconds only
  second,    \* the created_at of the newest row
  lapsed,    \* leased rows with lease_expires_at <= now
  backoff,   \* rows with next_attempt_at > now
  home,      \* sync_clients.workspace_id, Nobody for an unknown client
  event,     \* the human_watch_events row that the payload of a reply names
  audit      \* what human_watch_interventions says of the message

vars == <<status, owner, attempts, born, second, lapsed, backoff, home, event, audit>>

Status == {"absent", "pending", "leased", "completed", "failed_retryable",
           "dead_letter", "cancelled"}
OpenStatus == {"pending", "visible", "claimed"}
ClosedStatus == {"resolved", "dismissed"}

\* A watch event: claimed once an operator has taken it up, which nothing
\* clears (claimed_by_type); asked counts the operators' requests that wait
\* for the Bridge; rival says that another event of its dedupe key is open.
WatchEvent == [status: {"none"} \cup OpenStatus \cup ClosedStatus, claimed: BOOLEAN,
               asked: 0..Askers, rival: BOOLEAN]
NoEvent == [status |-> "none", claimed |-> FALSE, asked |-> 0, rival |-> FALSE]
Raised == [status |-> "pending", claimed |-> FALSE, asked |-> 0, rival |-> FALSE]
Outcome == {"success", "failed", "skipped"}

TypeOK ==
  /\ status \in [Message -> Status]
  /\ owner \in [Message -> Owner \cup {Nobody}]
  /\ attempts \in [Message -> 0..AttemptCap]
  /\ born \in [Message -> Nat]
  /\ second \in Nat
  /\ lapsed \subseteq Message
  /\ backoff \subseteq Message
  /\ home \in [Client -> Workspace \cup {Nobody}]
  /\ event \in [Message -> WatchEvent]
  /\ audit \in [Message -> SUBSET Outcome]

Init ==
  /\ status = [m \in Message |-> "absent"]
  /\ owner = [m \in Message |-> Nobody]
  /\ attempts = [m \in Message |-> 0]
  /\ born = [m \in Message |-> 0]
  /\ second = 0
  /\ lapsed = {}
  /\ backoff = {}
  /\ home \in [Client -> Workspace \cup {Nobody}]
  /\ event = [m \in Message |-> NoEvent]
  /\ audit = [m \in Message |-> {}]

-----------------------------------------------------------------------------
ClientOf(m) == Envelope[m].client
TenantOf(m) == Envelope[m].tenant   \* 0 for NULL, which IS takes for equal to NULL
Row == {m \in Message : status[m] # "absent"}

\* serialKey() trims the stored key; hasLeasedSerialPeer() reads the peer's
\* key as it was stored.
SerialKey(m) == Trim[Envelope[m].key]
PeerKey(m) == Envelope[m].key

HasLeasedSerialPeer(m, leased) ==
  /\ SerialKey(m) # NoKey
  /\ \E p \in leased \ {m} : ClientOf(p) = ClientOf(m) /\ PeerKey(p) = SerialKey(m)

\* assertClientWorkspaceOwnership: an unknown client is not refused.
OwnsWorkspace(m) == home[ClientOf(m)] \in {Envelope[m].workspace, Nobody}

\* assertLease, with the optional owner of the receipt (Nobody when not sent).
HoldsLease(m, o) == status[m] = "leased" /\ o \in {Nobody, owner[m]}

-----------------------------------------------------------------------------
\* What createEdgeMessage looks a row up by, and idx_edge_messages_idempotency.
SameKey(r, m) ==
  /\ TenantOf(r) = TenantOf(m) /\ ClientOf(r) = ClientOf(m)
  /\ Envelope[r].idem = Envelope[m].idem

\* Mutant: only rows that are still open count as duplicates.
OpenDuplicate(m) == \E r \in Row : SameKey(r, m) /\ status[r] \in {"pending", "leased"}

\* createEdgeMessage.  A call that repeats the idempotency key of a row of the
\* same tenant and client returns that row and changes nothing.  The same key
\* under another tenant is another row.
IsDuplicate(m) == \E r \in Row : SameKey(r, m)

\* The event a new reply names is open: it was raised with the message, or
\* an operator's failed answer had opened it again.
NamedEvents(m) ==
  IF Envelope[m].kind # "watched" THEN {NoEvent}
  ELSE {Raised} \cup [status: OpenStatus, claimed: {TRUE}, asked: 0..Askers, rival: {FALSE}]

Create(m, delayed) ==
  /\ status[m] = "absent"
  /\ OwnsWorkspace(m)
  /\ ~ IsDuplicate(m)
  /\ status' = [status EXCEPT ![m] = "pending"]
  /\ second' \in {second, second + 1}
  /\ Row = {} => second' = second  \* seconds are counted from the first row
  /\ born' = [born EXCEPT ![m] = second']
  /\ backoff' = IF delayed THEN backoff \cup {m} ELSE backoff
  /\ \E e \in NamedEvents(m) : event' = [event EXCEPT ![m] = e]
  /\ UNCHANGED <<owner, attempts, lapsed, home, audit>>

-----------------------------------------------------------------------------
\* Mutant: a lapsed lease is never taken back.
NeverSwept(c) == status

\* leaseEdgeMessages.  First every lapsed lease of the client returns to
\* pending, whatever its attempt_count; then the oldest due rows are scanned
\* in creation order, at most three pages of them.
Swept(c) ==
  [m \in Message |-> IF status[m] = "leased" /\ m \in lapsed /\ ClientOf(m) = c
                       THEN "pending" ELSE status[m]]

Due(c, w, filter, st) ==
  {m \in Message : /\ ClientOf(m) = c
                   /\ st[m] \in {"pending", "failed_retryable"}
                   /\ m \notin backoff
                   /\ Envelope[m].workspace = w
                   /\ Envelope[m].kind \in filter.kinds
                   /\ TenantOf(m) \in filter.tenants}

\* ORDER BY created_at leaves rows of the same second in any order.
Scans(S) ==
  {q \in SetToSeqs(S) : \A i, j \in 1..Len(q) : i < j => born[q[i]] <= born[q[j]]}

Page(q, n) == {i \in 1..Len(q) : i <= 3 * n}

\* Mutant: peers leased earlier in the same scan are not counted.
BatchWithoutPeers(B, q, n, st) ==
  \A i \in Page(q, n) :
    i \in B <=> /\ Cardinality({j \in B : j < i}) < n
               /\ ~ HasLeasedSerialPeer(q[i], {m \in Message : st[m] = "leased"})

\* The positions the scan leases: those met before n were leased and without
\* a leased peer, counting the peers leased earlier in the same scan.
IsBatch(B, q, n, st) ==
  \A i \in Page(q, n) :
    LET earlier == {j \in B : j < i}
    IN  i \in B <=>
          /\ Cardinality(earlier) < n
          /\ ~ HasLeasedSerialPeer(q[i], {m \in Message : st[m] = "leased"}
                                           \cup {q[j] : j \in earlier})

LeaseBatch(c, o, batch) ==
  /\ status' = [m \in Message |-> IF m \in batch THEN "leased" ELSE Swept(c)[m]]
  /\ owner' = [m \in Message |-> IF m \in batch THEN o
                                 ELSE IF status'[m] = "leased" THEN owner[m] ELSE Nobody]
  /\ attempts' = [m \in Message |-> IF m \in batch /\ attempts[m] < AttemptCap
                                      THEN attempts[m] + 1 ELSE attempts[m]]
  /\ lapsed' = {m \in lapsed : ClientOf(m) # c}
  /\ UNCHANGED <<born, second, backoff, home, event, audit>>

Lease(c, o, n, w, filter) ==
  \E q \in Scans(Due(c, w, filter, Swept(c))) :
    \E B \in SUBSET Page(q, n) :
      /\ IsBatch(B, q, n, Swept(c))
      /\ LeaseBatch(c, o, {q[i] : i \in B})

-----------------------------------------------------------------------------
\* Mutants: a retryable failure leaves no final record, and a reply that was
\* not delivered leaves its watch event alone.
ForgottenFailure(m, canRetry) ==
  IF Envelope[m].kind = "assist" THEN {"skipped"}
  ELSE IF Envelope[m].kind = "watched" /\ canRetry THEN {"failed"} ELSE {}

EventKeptWaiting(m, delivered) ==
  IF Envelope[m].kind = "watched" /\ delivered THEN [event[m] EXCEPT !.status = "resolved"]
  ELSE event[m]

\* What a settled message writes into human_watch_interventions and
\* human_watch_events: logHumanWatchAssistAck, logHumanWatchContinueAck,
\* logHumanWatchAssistFail and logHumanWatchContinueFail.
AckOutcome(m, delivered) ==
  IF Envelope[m].kind \notin {"assist", "watched"} THEN {}
  ELSE IF delivered THEN {"success"} ELSE {"failed"}

FailOutcome(m, canRetry) ==
  CASE Envelope[m].kind = "assist" -> {"skipped"}
    [] Envelope[m].kind = "watched" /\ ~ canRetry -> {"failed"}
    [] OTHER -> {}

EventAfterAck(m, delivered) ==
  IF Envelope[m].kind # "watched" THEN event[m]
  ELSE [event[m] EXCEPT !.status = IF delivered THEN "resolved" ELSE "visible"]

\* idx_hw_events_dedupe_pending: one open event of a dedupe key.  Writing an
\* open status into a closed event throws while another of its key is open.
MayOpen(m) == event[m].status \in OpenStatus \/ ~ event[m].rival

Settle(m, s) ==
  /\ status' = [status EXCEPT ![m] = s]
  /\ owner' = [owner EXCEPT ![m] = Nobody]
  /\ lapsed' = lapsed \ {m}

\* ackEdgeMessage; the expiry of the lease is not looked at.  When its event
\* cannot be written the whole transaction is undone.
Ack(m, o, delivered) ==
  /\ HoldsLease(m, o)
  /\ OwnsWorkspace(m)
  /\ Envelope[m].kind = "watched" /\ ~ delivered => MayOpen(m)
  /\ Settle(m, "completed")
  /\ audit' = [audit EXCEPT ![m] = @ \cup AckOutcome(m, delivered)]
  /\ event' = [event EXCEPT ![m] = EventAfterAck(m, delivered)]
  /\ UNCHANGED <<attempts, born, second, backoff, home>>

\* Mutant: one attempt too many.
OneMoreRetry(m, retryable) == retryable /\ attempts[m] <= Envelope[m].max

\* failEdgeMessage; the next attempt is due at once only when the receipt
\* names a next_attempt_at that has passed.
CanRetry(m, retryable) == retryable /\ attempts[m] < Envelope[m].max

Fail(m, o, retryable, dueNow) ==
  LET again == CanRetry(m, retryable)
  IN  /\ HoldsLease(m, o)
      /\ OwnsWorkspace(m)
      /\ Settle(m, IF again THEN "failed_retryable" ELSE "dead_letter")
      /\ backoff' = IF again /\ ~ dueNow THEN backoff \cup {m} ELSE backoff \ {m}
      /\ audit' = [audit EXCEPT ![m] = @ \cup FailOutcome(m, again)]
      /\ UNCHANGED <<attempts, born, second, home, event>>

\* Mutant: a completed row may be cancelled too.
CancelAny(m) ==
  /\ status[m] # "absent"
  /\ Settle(m, "cancelled")
  /\ UNCHANGED <<attempts, born, second, backoff, home, event, audit>>

\* cancelEdgeMessage: refused for a completed row only.
Cancel(m) ==
  /\ status[m] \notin {"absent", "completed"}
  /\ Settle(m, "cancelled")
  /\ UNCHANGED <<attempts, born, second, backoff, home, event, audit>>

-----------------------------------------------------------------------------
\* The clock, and the writers of the other tables.
LeaseLapses(m) ==
  /\ status[m] = "leased"
  /\ m \notin lapsed
  /\ lapsed' = lapsed \cup {m}
  /\ UNCHANGED <<status, owner, attempts, born, second, backoff, home, event, audit>>

BackoffEnds(m) ==
  /\ m \in backoff
  /\ backoff' = backoff \ {m}
  /\ UNCHANGED <<status, owner, attempts, born, second, lapsed, home, event, audit>>

\* upsertSyncClientHeartbeat moves a client to the workspace of the token it
\* reports with; the cleanup route, or a client of the same name, deletes it.
Heartbeat(c, w) ==
  /\ home[c] # w
  /\ home' = [home EXCEPT ![c] = w]
  /\ UNCHANGED <<status, owner, attempts, born, second, lapsed, backoff, event, audit>>

-----------------------------------------------------------------------------
\* What operators, and evaluations of the same session, do to the event a
\* reply names, whatever has become of the reply (HumanWatch has their view).
Write(m, e) ==
  /\ event' = [event EXCEPT ![m] = e]
  /\ UNCHANGED <<status, owner, attempts, born, second, lapsed, backoff, home, audit>>

\* GET /human-watch/events, and an escalation to an event that is open.
Show(m) ==
  /\ event[m].status \in {"pending", "claimed"}
  /\ Write(m, [event[m] EXCEPT !.status = "visible"])

\* send_message_to_worker: refused for a closed event only.
Claim(m) ==
  /\ event[m].status \in OpenStatus /\ event[m].asked < Askers
  /\ Write(m, [event[m] EXCEPT !.status = "claimed", !.claimed = TRUE, !.asked = @ + 1])

Dismiss(m) ==
  /\ event[m].status \in OpenStatus
  /\ Write(m, [event[m] EXCEPT !.status = "dismissed", !.claimed = TRUE])

\* The Bridge has taken the operator's message, or the request failed, which
\* sets the event back to pending whatever it is by now; the database refuses
\* that when a rival is open.
AnswerEnds(m) ==
  /\ event[m].asked > 0
  /\ \E s \in {"resolved", IF MayOpen(m) THEN "pending" ELSE event[m].status} :
       Write(m, [event[m] EXCEPT !.status = s, !.asked = @ - 1])

\* createHumanWatchEvent finds no open event of the key and raises another;
\* that one is closed.
RivalRaised(m) ==
  /\ event[m].status \in ClosedStatus /\ ~ event[m].rival
  /\ Write(m, [event[m] EXCEPT !.rival = TRUE])

RivalClosed(m) ==
  /\ event[m].rival
  /\ Write(m, [event[m] EXCEPT !.rival = FALSE])

EventMoves(m) ==
  Show(m) \/ Claim(m) \/ Dismiss(m) \/ AnswerEnds(m) \/ RivalRaised(m) \/ RivalClosed(m)

\* The center restarts: what waited for the Bridge is gone, the tables stay.
Restart ==
  /\ \E m \in Message : event[m].asked > 0
  /\ event' = [m \in Message |-> [event[m] EXCEPT !.asked = 0]]
  /\ UNCHANGED <<status, owner, attempts, born, second, lapsed, backoff, home, audit>>

Next ==
  \/ \E m \in Message :
       \/ \E delayed \in BOOLEAN : Create(m, delayed)
       \/ \E o \in Owner \cup {Nobody}, delivered \in BOOLEAN : Ack(m, o, delivered)
       \/ \E o \in Owner \cup {Nobody}, retryable, dueNow \in BOOLEAN :
            Fail(m, o, retryable, dueNow)
       \/ Cancel(m)
       \/ LeaseLapses(m)
       \/ BackoffEnds(m)
       \/ EventMoves(m)
  \/ \E c \in Client, o \in Owner, n \in Limits, w \in Workspace, filter \in Filters :
       Lease(c, o, n, w, filter)
  \/ \E c \in Client, w \in Workspace \cup {Nobody} : Heartbeat(c, w)
  \/ Restart

Spec == Init /\ [][Next]_vars

-----------------------------------------------------------------------------
\* At most one message of a serial key is handed out at a time, so an edge
\* client never writes twice into one Worker session: hasLeasedSerialPeer
\* within a scan, across scans, and after the sweep of lapsed leases.  It
\* needs stored keys without surrounding blanks.
SerialExclusion ==
  \A a, b \in Row :
    /\ status[a] = "leased" /\ status[b] = "leased"
    /\ ClientOf(a) = ClientOf(b)
    /\ SerialKey(a) = SerialKey(b) /\ SerialKey(a) # NoKey
    => a = b

\* The lease columns agree with the status in every transaction's outcome: an
\* owner exactly while leased, a lapse only of a lease, and no result for a
\* row that was never handed out.
LeaseColumns ==
  \A m \in Message :
    /\ owner[m] # Nobody <=> status[m] = "leased"
    /\ m \in lapsed => status[m] = "leased"
    /\ status[m] \in {"leased", "completed", "failed_retryable", "dead_letter"}
         => attempts[m] > 0

\* A row waits for a retry only while it has attempts left; failEdgeMessage
\* must compare the count after the lease incremented it.
RetryBudget ==
  \A m \in Message : status[m] = "failed_retryable" => attempts[m] < Envelope[m].max

\* createEdgeMessage is idempotent: one row per tenant, client and idempotency
\* key, however the first row ended and in whatever workspace it is asked for
\* again.
OneRowPerKey ==
  \A a, b \in Row : TenantOf(a) = TenantOf(b) /\ ClientOf(a) = ClientOf(b)
                    /\ Envelope[a].idem = Envelope[b].idem => a = b

\* The audit tells the truth about delivery: a success is recorded for a
\* completed message only, and no settled human-watch message is without a
\* record of how it ended, however often it was failed before.
AuditTruth ==
  \A m \in Message :
    /\ "success" \in audit[m] => status[m] = "completed"
    /\ Envelope[m].kind = "watched" /\ status[m] \in {"completed", "dead_letter"}
         => audit[m] \cap {"success", "failed"} # {}
    /\ Envelope[m].kind = "assist" /\ status[m] \in {"failed_retryable", "dead_letter"}
         => "skipped" \in audit[m]

\* An acknowledged reply leaves its watch event waiting, which keeps the
\* event's dedupe key taken and silences the steward, only if an operator had
\* taken that event up: the catch of a failed answer sets it back to pending.
AckReleasesEvent ==
  \A m \in Message : status[m] = "completed" /\ event[m].status = "pending" => event[m].claimed

\* A late receipt or a new lease never disturbs a message that was completed
\* or that the operator cancelled.
FinalStays ==
  [][\A m \in Message :
       status[m] \in {"completed", "cancelled"}
       => status'[m] = status[m] /\ audit'[m] = audit[m] /\ owner'[m] = owner[m]]_vars

=============================================================================
