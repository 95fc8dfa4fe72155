# A verification of sjmb-slack

`sjmb-slack` reads the messages of Slack workspaces and inserts the URLs it
finds in them into a PostgreSQL table.  It has two backends: a *Socket Mode* bot
(an application token, Slack pushes events and resends what is not
acknowledged) and a *user session* (a browser token and cookie, a private
websocket, nothing is ever resent).  The user session has to notice on its own
what it missed while it was away; the Socket Mode backend has to take each event
once although Slack sends it several times.

This directory holds TLA+ modules, TLC configurations, proofs for TLAPS, and
`PROJECT.json`, which maps every definition to the lines of code it stands for
and lists components, runs, mutants, findings, hazards and theorems.  Paths
below are relative to `src/` (the repository); `state.rs`, `recovery.rs` and
`api.rs` are those of `src/src/slackbot/user_session/`, `socket_mode.rs` and
`user_session.rs` those of `src/src/slackbot/`, the others those of `src/src/`.

## 1. The system

### Components

| component | code | state | operations | modules |
|---|---|---|---|---|
| Recovery store | `state.rs` | `Store.data`: tracked channels with `covered_until`, `threads`, `recovering`, `failed`; `seen` entries; a locked JSON file | `open`, `begin_connection`, `add_channel`, `remember_thread`, `processed`, `seen`, `failed`, `retry`, `checkpoint`, `finish_recovery`, `forget_thread`, `prune`, `save` | RecoveryStore, StoreSave |
| User session: connection and reader | `user_session.rs` | `began`, reconnect ticket, pending heartbeat, bounded event queue | `run`, `connection`, `read_socket`, `enqueue_event`, `discover_channels` | UserSession, SessionRequests |
| User session: consumer | `user_session.rs` | `members`, the `processing` lock, the message in hand | `consume`, `process` | UserSession |
| User session: history recovery | `recovery.rs` | the channels of a pass (clones), the interval of the channel, page and thread in hand | `recover`, `recover_channel`, `recover_pages` | UserSession, SessionRequests |
| Message worker | `slackbot.rs` | bounded worker queue, one message in hand | `handle_messages`, `handle_msg` | UserSession, SocketMode, UrlAdmission |
| Session API client | `api.rs` | `pause`, shared by all requests of a session | `call`, `retry_after` | SessionRequests |
| Socket Mode backend | `socket_mode.rs` | `Ingress` (accepting, seen events), `Health` (ready, failure, notification), listeners, backoff | `enqueue`, `wait_ready`, `wait_failure`, `run_socket_sessions`, `connect_and_watch` | SocketMode, Supervisor |
| Name caches | `limits.rs`, `slackbot.rs` | `ExpiringCache` of users and channels, `retry_at` | `get`, `insert`, `sender_nick`, `channel_name`, `lookup_allowed` | ExpiringCache, SessionRequests |
| URL filter | `url_filter.rs` | none at run time | `compile`, `include`, `check`, `blocks_domain`, `is_public_address` | UrlAdmission |
| URL extraction | `harvest.rs` | none | `extract_urls`, `message_timestamp` | UrlAdmission |
| Database access | `db_util.rs` | a connection pool | `start_db`, `db_add_url` | UrlAdmission |
| Configuration, start | `config.rs`, `lib.rs`, `bin/`, `build.rs` | none | command line, logging | - |

### How they interact

**A user session** is one future.  `run` repeats `connection`: it reads the
boundary `began = now()`, dials, waits for `hello`, and then polls side by side
the **reader**, which moves frames into an event queue, and the **processing**
future, which discovers the joined channels, calls `begin_connection`, saves,
and then runs the **consumer** and **recovery** together.  Consumer and recovery
share `Session.processing`, a lock held over `process`: note the thread, look
for a `seen` entry, wait for room in the worker queue, wait for the receipt,
record the message as processed.  The **worker** belongs to the process, not to
the connection: it goes on with what was queued when the connection is gone.
Whatever ends the reader, the consumer or recovery ends `connection`, and the
other futures are dropped at whatever await they stand.

Two things move a channel's checkpoint `covered_until`: a *barrier* (the
heartbeat's answer, queued behind the events read before it, carrying the time
of the heartbeat) moves the channels that neither recover nor failed, and
`finish_recovery` moves one channel to `began`.  Recovery reaches back from a
checkpoint by `OVERLAP`.

**Requests** of a user session come from three places at once: the connection
loop (authentication, the pages of joined channels, and the consumer's
`conversations.info` about a channel it does not know), recovery (the pages of
history) and the worker (names it does not know).  They share one `pause`, set
from Slack's `Retry-After`.  Discovery, consumer and the look-ups fill the same
cache; discovery replaces `members`, the consumer adds to it.

**The store's file** is written by whoever has something to save: consumer,
recovery, `run` after a connection, `run_user_sessions` at the end.  Each save
is four jobs for tokio's blocking pool.  A dropped save leaves its job there.

**The Socket Mode backend** runs sessions one after another.  In each, the
workspaces are connected in turn, every one until its listener has heard Slack's
hello; then all are watched until one fails.  Callbacks of the Slack SDK run on
threads of their own: they talk to the session through `Health` (two flags and
a `Notify`) and to the worker through `Ingress` (a flag, the cache of seen
events, the sender of a bounded queue).  When a session ends, admission stops,
the listeners are shut down, and the worker has `DRAIN_TIMEOUT` to empty its
queue.  The cache outlives sessions, not the process.

**The worker** takes one message at a time: names are looked up, URLs are
extracted, each is checked against blacklists, resolver and address ranges, and
inserted.  A receipt tells a user session how it went; it decides what is
recorded as processed.

### What is hard

* order: barriers, live messages and recovered messages move the same
  checkpoints from two tasks;
* futures dropped with a message, a request or a save in hand, and a worker and
  a blocking pool that outlive them;
* a store in memory, a file on disk, and a crash between them;
* entries that expire or are evicted while they are still needed;
* copies taken before an await and used after it (`recovery_channels`, `members`);
* the same event over two connections, or again in the next session;
* flags and a notification shared by callbacks and two kinds of waiters;
* full queues, lost receipts, failing inserts and requests, rate limits, silence.

`PROJECT.json` lists these under `hazards`, each at its line, with the
properties that would notice it going wrong.

### What makes each component correct

* **Store and session together**: a checkpoint, in memory or on disk, never
  passes an unharvested message by more than the overlap (`Coverage`); only a
  harvested message is suppressed (`SuppressedIsHandled`); a repeated insert
  has one of a few causes (`RepeatsExplained`); the file never takes back a
  checkpoint (`CheckpointsAdvance`) and can always be opened again (`Reopens`);
  every message is settled in the end (`EventuallySettled`).
* **Recovery**: works from current checkpoints although it holds clones
  (`RecoveryNotStale`), and reaches the replies it can reach (`RepliesReached`).
* **The file**: unless a save overlaps with what a dropped one left behind, or is
  not told that a write failed, it replaces the file in one step by a whole
  snapshot, and a power loss brings back an earlier whole one (`AtomicSaves`,
  `DamageExplained`).
* **Socket Mode intake**: an event is admitted once (`AdmittedOnce`),
  acknowledged only if it is kept, handled or discarded for a documented reason
  (`AckedIsKept`), remembered only if it was taken (`RememberedWasTaken`): the
  backend implements `Intake` (`KeepsPromise`).
* **Supervisor**: no notification is lost (`NoLostWakeup`), every workspace is
  watched (`WatchesAll`), a failure ends the session (`FailureEnds`) and a signal
  the process (`SignalStops`), delays are long enough (`PatientRetry`), and a
  session comes up once requests succeed (`Recovers`).
* **Requests and caches**: who was told to wait waits (`AskedWhenAllowed`);
  only complete walks over pages count (`WholeHistory`), and but for them only the
  consumer changes the members, by a channel it asked about (`WholeListing`);
  walks end (`WalksEnd`); a failed look-up is neither
  repeated at once (`NotRepeated`) nor remembered for long (`FallbackIsShort`).
* **Harvesting a message**: text is decoded once (`ExtractsOnce`); the policy
  excludes exactly what it promises (`PolicyExact`); rows are those of admitted
  URLs, none twice (`OnlyAdmitted`), a receipt is true (`ReceiptHonest`), no message fails
  for ever (`NeverPoisonous`), and each is finished (`Ends`).

## 2. The modules

    RecoveryStore              operations on the recovery state   (no variables)
      UserSession              the session, its tasks, worker, Slack, faults
        UserSessionInvariant   the inductive invariants Inv and Records
          MCUserSession        instances for TLC
          UserSessionTypes     lemmas about the store's operations; types
            UserSessionProofs    theorems: Inv, Coverage, SuppressedIsHandled
              UserSessionRecords theorems: Records and what it carries
    AtomicFile                 abstract: a file that is replaced in one step
      StoreSave                save() and open(), file operation by file operation
        MCStoreSave, StoreSaveProofs
    ExpiringCache              the bounded cache of limits.rs     (no variables)
    Intake                     abstract: what Slack is promised
      SocketMode               callbacks, Ingress, worker, drain (ExpiringCache)
        MCSocketMode, SocketModeProofs
    Supervisor                 Health, connecting, watching, delays
      SupervisorProofs
    SessionRequests            the requests of a user session (ExpiringCache)
      MCSessionRequests, SessionRequestsProofs
    UrlAdmission               one message: extraction, policy, inserts, receipt
      MCUrlAdmission, UrlAdmissionProofs

The models meet where one takes for granted what another one shows.  UserSession
saves in one step: StoreSave refines that, as long as no saves overlap and no
write fails unnoticed (findings 3 and 4); UserSession has no power loss that brings
an older file back.  UserSession fetches the pages of a history in one step that
succeeds or fails: SessionRequests shows that a walk succeeds only with every
page.  UserSession and SocketMode have a worker that succeeds, fails or is
dropped: UrlAdmission shows which rows and which receipt that means.
SocketMode lets a session end at any time and the next one begin: Supervisor
shows when they do.

### RecoveryStore

A snapshot is a record of the serialised fields: `tracked` (the channels),
`covered`, `threads` and `seen`, the last three as functions to seconds where 0
means "no entry".  Each method of `Store` is an operator from snapshot to
snapshot, or to a *set* of snapshots where pruning may choose between entries
of one second.  Every method that prunes in the code does so here
(`Processed`, `RememberThread`, `Checkpoint`, `BeginConnection`).
`recovering` and `failed` carry `#[serde(skip)]`: they are variables of
UserSession, not part of a snapshot, and a restart forgets them.

### UserSession

| variables | code |
|---|---|
| `store`, `disk`, `recovering`, `failed` | `Store.data` in memory, the state file, the flags of `Channel` |
| `phase`, `began`, `members` | where `run`/`connection` stands, its boundary, `Session.members` |
| `events`, `ping`, `pending` | the event queue, the heartbeat in `read_socket`; the head of `events` is the event `consume` has in hand, so `EventCap` counts it |
| `consumer`, `job` | whether `consume` is saving; the message of the holder of `processing`, and how far `process` is with it |
| `pass`, `rec` | the rest of `recovery_channels()`; the interval, fetched messages and threads of `recover_channel` |
| `queue` | the worker queue; its head is the message in hand, so `QueueCap` counts it |
| `clock`, `joined`, `ts`, `wire`, `moved`, `faults` | the environment: time, membership, posted messages, what Slack has sent and nobody has read, faults so far |
| `rows`, `handled` | the table, and the messages whose inserts all succeeded once |
| `excuse`, `unsure` | history: why a message may stay unharvested; attempts that ended without a record |

An action stands for the code from one await to the next.  `Next` groups them
by task:

* **Main**: `Start`, `Dial`, `Hello`, `Begin` (discovery and
  `begin_connection`), `BeginSave`, `CloseSave` (the save in `run`), `Exit`
  (the drain and the last save).
* **Abort**: `Disconnect` (anything that ends `connection` from outside),
  `Shutdown`, `Crash` (memory is lost, the file stays).
* **Read** and **Beat**: `Deliver`, `DeliverMembership`, `Overrun` (a frame and
  no room: the connection ends), `Ping`, `Pong`.
* **Consumer**: barrier and save, membership events, adoption of an unknown
  channel, duplicate, submit, done, fail.
* **Recovery**: pass, skip, start, history, duplicate, submit, done, fail,
  threads, replies, finish, save.
* **Admit**, **Worker**, and **Mishap** (`Timeout`, `WorkerFail`, `ThreadGone`,
  `RecoverError`).

`process` holds the lock over admission and receipt; `job` is that lock, and
its `state` (`admit`, `wait`, `ok`, `fail`) the await it stands at.  When a
connection ends, `DropConnection` clears everything that lives in its futures
and leaves `queue`, `store`, `members` and the flags as they are.

`excuse` records why a message may stay unharvested.  Four reasons are those
the program's README names: `fresh` (no checkpoint yet), `window` (an outage
beyond the window), `thread` (a reply to an untracked or deleted thread),
`left` (a channel the account is not a member of).  Two are not: `gap` (posted
after `began` and before `hello`) and `late` (older than the overlap when its
channel got its first checkpoint).  They are the subject of two findings.  The
actions that set an excuse do it for exactly the messages the code gives up at
that point, so that `Coverage` speaks about all others.

What is abstracted:

* One session with its own worker queue.  Sessions share only the worker and
  its queue; another session's messages are delays to this one.
* A save is one step; so are discovery and the pages of one history or thread
  request sequence (StoreSave and SessionRequests have them in detail).  A
  message posted meanwhile is on the live stream anyway.
* A message is its pair (channel, timestamp), a thread its root.  Messages that
  `normalise` or `prepare_message` rejects never enter `process` and are left
  out, as are `thread_broadcast` messages.
* A URL the filter rejects counts as handled, as in `handle_msg`.  A message has
  any number of URLs: all of them succeed (`WorkerInsert`), or some or none
  (`WorkerFail`, which may leave rows behind).
* Limits on channels, pages and response sizes end in an error of a request:
  `Disconnect` or `RecoverError`.
* Time is whole seconds of one clock that never goes back; the 300 s of skew
  `open` tolerates are not needed.
* Heartbeat period, backoff and the minute between recovery passes are left
  open: each may take any time.

Two assumptions concern Slack, which is not part of the code.  The live stream
begins at `hello`.  It delivers a message within `Lag` seconds of its timestamp,
and `Lag <= Overlap` (`LagAssumption`): the two minutes of `OVERLAP` are there
to absorb just that.  `Tick` waits for a message that has been on the wire for
`Lag` seconds.

### StoreSave and AtomicFile

`Store::save` locks `save_lock`, clones the data and then awaits four jobs of
tokio's blocking pool: open and truncate the temporary file, write, sync,
rename.  `save[s]` is the save of a task and the stage it has reached, `pool` the
jobs that have not run, `temp`/`path` the two names and `data`/`synced` what the
files contain and whether the disk has it.  `Drop` is what happens to the
futures of a connection: the lock is released, the job's owner becomes
`Nobody`, and it still runs.  The process may die in the middle of a write
(`Crash`).  A write over other contents leaves a whole snapshot only
if it happens to cover them.  `Start` is `Store::open` for the file as a whole.

The code does less for the disk than the four stages suggest, and so does the model:

* *Names.*  `save` syncs the file, never the directory.  `entry` is what the disk
  has of the two names; the file system brings it up to date when it likes
  (`WriteBack`), and a power loss finds the names of that time, and of files that were
  not synced anything (`PowerLoss`).  What a save reported as stored may be gone then:
  `stored` starts afresh when that happens.
* *Writes.*  tokio's `write_all` hands its last buffer to a job and returns; an
  error of that job is returned by a later write or flush only, and `sync_all` is
  neither.  So a write that fails either ends its save (an earlier buffer) or
  leaves it to go on, `unnoticed` (`WriteFails`).  Any other job that fails ends its
  save (`RunFails`).

AtomicFile is what UserSession assumes, and the disk below it: `mem` makes
progress, `file` is replaced in one step by something at least as recent, a new
process continues from it; `disk` follows `file`, and a power loss puts it in its
place.  `AtomicSaves` maps `file` and `disk` to the versions in the two files named
like the state file, and says that every step is one of AtomicFile's until a save
began while a job of a dropped one was pending (`overlap`) or went on after a
failed write (`unnoticed`).  Without these two exceptions it is false: findings 3
and 4.

### SocketMode, Intake and ExpiringCache

| variables | code |
|---|---|
| `accepting`, `open`, `queue` | `Ingress::accepting`, the receiver of the session's queue, the queue |
| `seen` | `Ingress::seen`, an `ExpiringCache` kept over sessions |
| `calls` | callbacks of `handler_push_events`: their session and how far they are |
| `session`, `phase`, `signal` | `run_socket_sessions` and its shutdown future |
| `job` | the message `handle_messages` is at |
| `now`, `sent`, `acked` | time, and what Slack knows |
| `done`, `taken`, `lost`, `forgotten` | history |

`enqueue` is two steps, since `accepting` is read before the lock of `seen` is
taken: look-up, `try_send` and entry are one step under that lock.  A callback
may therefore meet a queue that has been closed in between (`Closed`), or belong
to a session that is over.  The worker's future is polled while the session is
watched and while it is drained, not while the listeners are shut down.
`DrainTimeout` drops it with its message, whose rows may be there or not, and
with the queue.  Slack resends an event for `RetrySpan` after it sent it first,
over any connection; answers may be lost.  `RetryAssumption` is the design
decision of `DEDUP_TTL`: entries outlive the resending.

`Intake` is the promise: an event is taken once unless it was forgotten,
what is told to Slack was taken or refused for want of room, and what is held is
handled or lost.  `KeepsPromise` maps an event's fate from queue, worker and
history.

ExpiringCache has the four operations of `limits.rs`, pruning on `get` and
eviction on `insert` included; the victim may be any entry that expires first.

### Supervisor

Two flags and a permit per workspace (`ready`, `failure`, `permit`), the callbacks
between setting a flag and notifying (`setters`), and what a waiter is at
(`wait`): it reads `failure`, then `ready`, then parks.  Each is a step, so a
callback may come between any two of them.  `notify_one` wakes a parked waiter
or leaves a permit, as tokio's `Notify` does.  The loop has its backoff,
`Retry-After`, the minute after which the backoff is reset (`registered`, `steady`:
it is counted from the moment all workspaces are connected until after the cleanup,
where the code looks at it), and the
two places where it listens to the signal.  Of `Workspace::connect` only success
and failure are modelled; the jitter of the delay is left out, as it only adds.

### SessionRequests

Every time is stored as what is left of it, so that there is no clock to bound.
`call[t]` says what the request of a task is at: `ready` (before the look at the
pause), `sent`, or idle.  An answer is a page, an error, a 429 with its
`Retry-After` (at least a second), or "credentials invalid"; a time-out is one of
the errors.  What each does to its caller is in `Error`: the connection loop
sleeps for `retry_delay` and doubles its backoff, recovery gives up the walk, the
look-up enters a fallback for `NEGATIVE_TTL`.  A rate limit of the web socket
handshake delays the loop but does not touch the shared pause, as in the code.

Slack's pages are a record of successors: lists that end, go in circles, or are
longer than the limits.  Which channels the account belongs to changes meanwhile
(`account`, `Join`, `Leave`): a page lists what is left of it when it is asked for.
Discovery caches the names of a page before it looks at its cursor, but its channels
become the `members` only at the end of the list.  `kept` and `held` are the
channels the account has belonged to all the time, and at some time, since the walk
began.

The consumer asks about a channel that is not among the `members` and has a message
(`Stranger`, the state `info` of the connection loop, which an error ends like any
other).  If the account belongs to it, it is added and then its name is cached,
in between the store may refuse it (`StrangerKnown`).

In a user session `retry_at` of a workspace is never set: the look-up's errors are not
of the type `lookup_error` examines, and the shared pause answers in its place.

`shorter` records that a later and shorter `Retry-After` has replaced a longer
one: the code overwrites `pause`.  `AskedWhenAllowed` makes an exception for
that, but none for the connection loop, whose sleep is its own.

### UrlAdmission

One message from its arrival to its receipt.  Text is a sequence of tokens (an
ampersand, entity remainders, brackets, a bar, a tab), each with its length; the
three replacements run one after another over the result of the one before.
Names are sequences of labels, each with its length (`NameBytes` is the length of
the name, dots included), addresses sequences of bytes or words; `Masked`
is the shift and mask of the code.  The policy is compared with references written in
other terms: one pass of decoding, first and last addresses of ranges as the
program's README names them, rules compared label by label from the right.
`verdict` keeps the last judgement: the URL, whether its host let it get as far as
its addresses (`asked`), these, and the outcome.

An insert that fails or times out, or is dropped with the worker, may leave a
statement that the database commits although nobody waits for it: its position is
`pending` until it does (`LateRow`), if ever.  Its row then stands behind those of
later URLs, or comes after the receipt.  `FitsColumn` is the first `ensure!` of
`db_add_url`.  The second one, on nick and channel, cannot fail: `log_text` and
`prepare_message` keep both shorter than the limits it checks.

Hosts and rules are given as
the `url` crate parses them; only the path counts towards `MAX_URL_BYTES`, which
the property does not depend on.

What goes through a text is a recursive function of the position, not a RECURSIVE
operator, so that the provers can unfold it.

## 3. What is checked

| run | question | instance |
|---|---|---|
| `session_faults` | connection losses, crashes, shutdowns, joining and leaving, failing or late inserts and requests: `Coverage`, `SuppressedIsHandled`, `RecoveryNotStale`, `RepeatsExplained`, `CheckpointsAdvance` | 1 message, 4 s, 2 faults of seven kinds |
| `threads` | a message and its reply against a full event queue and a full table of `seen` entries: `Inv`, `Records`, `Coverage`, `Reopens`, `RepliesReached` | root and reply, 3 s, 1 deletion; connections end by overflow |
| `liveness` | `EventuallySettled` under `FairSpec` | 1 message, 3 s, 1 fault of six kinds |
| `handshake` | finding: `HandshakeCovered` is violated | 1 message |
| `registration` | finding: `RegistrationCovered` is violated | 1 message, 1 move |
| `save` | dropped saves, I/O errors reported and not, crashes, power losses, an unsynced directory: `SaveInv`, `DamageExplained`, `AtomicSaves` | 2 tasks and `run`, 4 files (symmetric), 2 changes, 1 drop, 1 fault |
| `dropped_save` | finding: `FileWhole` is violated | the same without faults |
| `lost_write` | finding: `FileWhole` is violated | the same without drops |
| `intake` | resent events over simultaneous callbacks, sessions, a crash: `Inv`, `AdmittedOnce`, `AckedIsKept`, `RememberedWasTaken`, `KeepsPromise` | 2 messages, 2 callbacks, 2 sessions, queue and cache of 1, 3 ticks, 1 crash, 1 other fault |
| `supervisor` | callbacks against waiters, failures, signals, delays: `Inv`, `NoLostWakeup`, `WatchesAll`, `PatientRetry`, `FailureEnds`, `SignalStops`, `Recovers` | 2 workspaces, 2 faults |
| `requests` | three tasks that send requests over pages that end, circle or go on, and a consumer that asks about single channels: `Inv`, `WholeListing`, `FallbackIsShort`, `WholeHistory`, `AskedWhenAllowed`, `NotRepeated`, `WalksEnd` | 2 channels, one of which the account joins and leaves, 4 page lists, limits of 1 channel and 2 pages, a cache of 1, `Retry-After` 0 or 2 |
| `urls` | texts, names, addresses, a resolver and a database that answer, fail, stay silent or commit late: `ExtractsOnce`, `PolicyExact`, `OnlyAdmitted`, `ReceiptHonest`, `NeverPoisonous`, `Inv`, `Ends` | texts of up to 4 tokens, names of up to 4 labels and of 13 bytes or more where 13 are allowed, the edges of every range, up to 3 matches and 3 addresses |

**Deadlock** is checked in the runs of UserSession, in `dropped_save` and in `lost_write`.  The
session always has a step, a heartbeat on an idle connection at the latest, and
the path to the damaged file is found before any end.  The other runs say
`CHECK_DEADLOCK FALSE`: a refused state file (`save`), a process that has
stopped (`intake`, `supervisor`) and a message that is finished (`urls`) are
ends the program has; in `requests` `Tick` is always enabled, so that the
question would have no meaning.

**Bounds.**

* *UserSession*: `MaxClock`, `MaxFaults` and the set `Faults` bound a run;
  nothing else does (queue capacities are parameters of the code).  With an
  overlap of 1 s and a window of 1 or 2 s, four seconds suffice for a message to
  be older than the overlap, and as old as window and overlap together, so that
  clipping, expiry and the far end of an interval occur; two faults allow
  a crash during the recovery from a disconnect, or a failing insert on each side of
  one.  `threads` makes `MaxSeen` and both queues 1, so that the second message
  meets a full queue or an eviction, and sets overlap and lag to 0, which
  leaves nothing to chance at the edge of the interval.
  Its connections end only when the event queue overflows; the other
  ends of a connection are those of `session_faults`.
* *StoreSave*: `MaxVersion`, `MaxDrops`, `MaxFaults` and the number of files.
  A drop and a fault let a save meet what another one left, and both then meet a power
  loss or an error; two changes make a newest, an older and a first version.  Four
  files are the state file and the temporary file, as the system has them and as the
  disk has them: 3.8 million states.
* *SocketMode*: `MaxTime`, `MaxSessions`, `MaxFaults`, `MaxCrashes`.  Queue and
  cache of 1 make the second message meet a full queue and evict the first; two
  callbacks are two connections with the same event; the second session meets
  callbacks of the first, or is the first of a new process.  Entries cannot
  expire while their event is resent (`RetryAssumption`), so nothing depends on
  longer runs than the three ticks.
* *Supervisor*: `MaxFaults`.  The second workspace is the one that is connected
  while the first fails; a second fault meets the backoff of the first.
  Callbacks are not bounded, but for two of them per workspace between flag and
  notification.
* *SessionRequests* needs no bound beyond its constants.  The page lists have
  two pages, three (as many as a walk over channels accepts, too many for one
  over history) and four, and one leads back to a page of itself; a cache for one
  name makes discovery evict what the look-ups enter, and the other way round.  One
  channel is joined and left (`Busy`), the other is always or never the account's; a
  limit of one channel is met by the second.
* *UrlAdmission*: `MCMessages` and `MCAnswers` are the inputs.  Four tokens hold
  an entity whose decoding yields another one (`& amp; lt;`), growth past the
  limit by normalization, and a label; the edges of a range are its first and last
  address and their outer neighbours.  `MAX_NAME_BYTES` is 13, so that
  `a.example.com.` is just short enough and `internal.other` just too long.

The proofs of section 4 lift the properties they state to every value of the
constants; the bounds matter for the others only.

**Fairness.**  The futures are polled by tokio whenever what they await is ready;
what has a deadline ends at the deadline.  What is assumed beyond that differs from
run to run, and is said with each.  Nothing is assumed of signals and faults, but
that the models bound their number.

* *UserSession*: weak fairness of `Main`, `Read`, `Consumer`, `Recovery`,
  `Admit` and `Worker`, each a future under `select!` or `try_join!` in a loop
  without an exit.  An action of these stands for the future *and* for what it waits
  for: once the faults of the run are used up, a process that is down is started again,
  Slack accepts the connection, says hello and answers discovery and history, saves
  succeed and the database takes the inserts.  This is more than the code can promise; without
  it no message need ever be settled.  `EventuallySettled` does not depend on a
  heartbeat being answered.
* *Supervisor*: weak fairness of connecting, of the hello time-out, cleaning up,
  the drain, the delay, of each waiter and of a notification whose flag is set.
  Strong fairness of `Interrupt` and `Stop`: both `select!`s are left and entered
  again, and each looks at the signal when it is polled first.  With `Recovers` this
  assumes that requests succeed once the faults of the run are used up; that hellos
  come in time is the premise of the property.
* *SessionRequests*: weak fairness, for discovery and recovery, of "the request is
  answered, fails or times out", with `API_TIMEOUT` behind it.  Nothing is assumed of
  what Slack answers.
* *UrlAdmission*: weak fairness of the worker and of its two deadlines.  Nothing is
  assumed of resolver and database, nor that an abandoned statement ever commits.

**Properties and mutants.**  Every property of a passing run comes with a
mutant, an operator placed before the definition it replaces and introduced by
"Mutant of": the barrier that uses the time it is handled, a temporary file that
is not synced, an event remembered although the queue was full, a notification for
those who wait now, a `Retry-After` only the caller learns, `&amp;` decoded
first, and so on.  With the mutant in place the run finds the property violated.

### Findings

1. `handshake`: `began` is read before dialling (`user_session.rs:207`), the live
   stream starts at `hello`.  A message posted between the two is neither in
   the interval of recovery nor on the stream, and the next barrier passes it;
   README.md:306-308, which lists the gaps that can remain, does not have it.
   The overlap of a reconnection within the next two minutes still finds it;
   once a checkpoint is further ahead it is lost.
2. `registration`: a channel joined during a connection gets as its first
   checkpoint the time its event is *consumed* (`user_session.rs:426`, `:451`),
   README.md:291 says "the bot starts from its connection time".  If the queue
   is slow by more than the overlap and the connection is lost, messages of the
   channel behind that event are out of reach.
3. `dropped_save`: the saves of consumer and recovery are dropped with their
   connection (`user_session.rs:269-287`), and `run` saves again at once
   (`user_session.rs:185`).  The job of the dropped save is still in the blocking
   pool and uses the same temporary file: a late truncation or write can be
   renamed into place, a late rename can take the file away.  README.md:301-302
   promises "atomic file replacement".  The result is a state file `Store::open`
   refuses, or an error that ends the session.
4. `lost_write`: `save` calls `write_all` and `sync_all` (`state.rs:320-321`) and
   never `flush`.  For a `tokio::fs::File` the error of the last buffer written is
   returned by a later write or flush; `sync_all` waits for the buffer, keeps its error,
   and syncs what is there.  A full disk can thus put part of a snapshot, or
   nothing, in the place of the state file, against `state.rs:1-2` ("Atomic snapshots
   provide restart recovery") and README.md:301-302.  `Store::open` refuses the file.

Three things the models show are not listed as findings, two of them because they
follow from documented decisions, the third because nothing the repository says
denies it: a message whose receipt is dropped by a disconnect can be
inserted twice without any crash (`RepeatsExplained` names the case), and a
later, shorter `Retry-After` shortens the pause of everybody (`shorter`), and a power
loss soon after a save may bring back the file of the save before (`entry`).

## 4. What is proved

All of it holds without fairness and for every value of the constants that
satisfies the named assumptions of the modules.  The bounds of the models
(`MaxClock`, `Faults`, `MaxSessions`, ...) are arbitrary in the proofs, so the
theorems cover any length of run and any mix of faults.

| theorem | statement |
|---|---|
| `UserSessionTypes!TypeCorrect` | `Spec => []TypeOK` |
| `UserSessionProofs!InvInvariant` | `Spec => []Inv` |
| `UserSessionProofs!CoverageInvariant` | `Spec => []Coverage` |
| `UserSessionProofs!SuppressedInvariant` | `Spec => []SuppressedIsHandled` |
| `UserSessionRecords!RecordsInvariant` | `Spec => []Records` |
| `UserSessionRecords!RecoveryNotStaleInvariant` | `Spec => []RecoveryNotStale` |
| `UserSessionRecords!ReopensInvariant` | `Spec => []Reopens` |
| `UserSessionRecords!CheckpointsAdvanceHolds` | `Spec => CheckpointsAdvance` |
| `UserSessionRecords!RepeatsExplainedHolds` | `Spec => RepeatsExplained` |
| `UserSessionRecords!RepliesReachedHolds` | `Spec => RepliesReached` |
| `StoreSaveProofs!SaveInvInvariant` | `Spec => []SaveInv` |
| `StoreSaveProofs!DamageExplainedInvariant` | `Spec => []DamageExplained` |
| `StoreSaveProofs!SavesAreAtomic` | `Spec => AtomicSaves` (refinement of AtomicFile) |
| `SocketModeProofs!InvInvariant` | `Spec => []Inv` |
| `SocketModeProofs!AdmittedOnceInvariant` | `Spec => []AdmittedOnce` |
| `SocketModeProofs!AckedIsKeptInvariant` | `Spec => []AckedIsKept` |
| `SocketModeProofs!RememberedWasTakenInvariant` | `Spec => []RememberedWasTaken` |
| `SocketModeProofs!PromiseKept` | `Spec => KeepsPromise` (refinement of Intake) |
| `SupervisorProofs!InvInvariant` | `Spec => []Inv` |
| `SupervisorProofs!NoLostWakeupInvariant` | `Spec => []NoLostWakeup` |
| `SupervisorProofs!WatchesAllInvariant` | `Spec => []WatchesAll` |
| `SupervisorProofs!PatientRetryInvariant` | `Spec => []PatientRetry` |
| `SessionRequestsProofs!InvInvariant` | `Spec => []Inv` |
| `SessionRequestsProofs!FallbackIsShortInvariant` | `Spec => []FallbackIsShort` |
| `SessionRequestsProofs!AskedWhenAllowedHolds` | `Spec => AskedWhenAllowed` |
| `SessionRequestsProofs!NotRepeatedHolds` | `Spec => NotRepeated` |
| `SessionRequestsProofs!WholeListingHolds` | `Spec => WholeListing` |
| `SessionRequestsProofs!WholeHistoryHolds` | `Spec => WholeHistory` |
| `UrlAdmissionProofs!InvInvariant` | `Spec => []Inv` |
| `UrlAdmissionProofs!ExtractsOnceInvariant` | `Spec => []ExtractsOnce` |
| `UrlAdmissionProofs!PolicyExactInvariant` | `Spec => []PolicyExact` |
| `UrlAdmissionProofs!OnlyAdmittedInvariant` | `Spec => []OnlyAdmitted` |
| `UrlAdmissionProofs!ReceiptHonestInvariant` | `Spec => []ReceiptHonest` |
| `UrlAdmissionProofs!NeverPoisonousInvariant` | `Spec => []NeverPoisonous` |
| `UrlAdmissionProofs!DecodedExact` | three replacements in a row decode as one pass |
| `UrlAdmissionProofs!NamesExact` | names that are short and well-formed pass, unless the suffix walk finds a rule, exactly |
| `UrlAdmissionProofs!AddressesExact` | the masks exclude the special ranges, exactly |

**UserSession.**  `Coverage` is not inductive: a barrier may move a checkpoint
only because of where the open messages are at that moment.  `Inv` says where.

* `Stream`: a live message is not older than the connection, and on the wire not
  older than `Lag`.
* `Barriers`: whatever stands behind a barrier in the event queue, or is still on
  the wire, was posted at most `Lag` before the barrier's time.  So when the
  barrier reaches the head of the queue, every live message is within `Lag`, hence
  within `Overlap`, of the new checkpoint.
* `LeftToRecovery`: an open message that is *not* live was posted before
  `began`, within the window, and its channel is recovering.  A barrier does
  not touch recovering channels.
* `Passes`: recovery computes its interval from the present checkpoint of the
  channel although it uses a clone, since nobody else moves the checkpoint of a
  recovering channel.
* `Ahead`: within a pass, a missed message of the channel is among the fetched
  messages or in a listed thread.  When both are exhausted there is none, and
  `finish_recovery` may move the checkpoint to `began`.
* `Receipt`: a receipt that is awaited belongs to the last message of the worker
  queue; this makes an `ok` prove that the inserts succeeded, even when older
  attempts on the same message are still in the queue.
* `Idle`, `Past`, `Lock` supply what these need of the other variables.

The proof goes conjunct by conjunct.  `UserSessionTypes` states what each
operation returns; the `...Moves` lemmas of `UserSessionProofs` say once how a step
may change the clock, the open messages, the event queue, the store and the
recovering set; the `...Step` lemmas then show each conjunct preserved,
`CoverageStep` last.  `InvStep` collects them.

`Records` is a second layer on top of `Inv`, about what is written down.

* `DiskBehind`: the file's checkpoints never exceed those in memory, and while no
  connection has begun, file and memory agree.  A save replaces the file by the store,
  a restart the store by the file, so neither takes a checkpoint back
  (`CheckpointsAdvance`).
* `Sizes`: both tables keep their limits in memory and on disk, since every
  operation that enters something prunes; with the types this is what
  `Store::open` checks (`Reopens`).
* `Sources`: a root is posted before its replies, and an entry is not older than
  its message, so it cannot expire while the message is still in reach.
* `Repeats`: an inserted message has an entry, or has been forgotten (`Forgotten`:
  it is older than an entry is kept, or its entry lost its place to others that are
  not older), or its attempt is in hand or ended without a record.  The same
  `Forgotten` is what `RepeatsExplained` excuses: a recovery that goes on for longer
  than the overlap is none by itself.
* `Threaded`: while the pages of a channel are worked through, a missed reply whose
  root lies in the interval has its root still ahead, or its thread tracked, or the
  thread's entry expired or lost its place.
* `RecoveryNotStale` needs nothing but itself and `Inv`.

Eviction enters through `FullSince`: `prune` drops the oldest entries first, so a
lost entry means that the table is full of younger ones, and the lemmas on
pruning (`FullPruned`, `FullRenewed`) show that it stays so.

**StoreSave.**  `SaveInv` splits on `Spoilt`, that is `overlap` or `unnoticed`.  In
either case whoever saves is in turn, jobs belong to the stage of their save, and a
file that is written has been opened (`Turns`, `Owners`, `Opened`).  As long as
nothing is spoilt there is one job at most, and it belongs to the one save there is
(`OneJob`); the versions of file, disk, job and memory are in order, and the state
file, the present one and the one the disk has, are whole and synced and neither is a
temporary file (`Current`); and each job finds the temporary file in the state the
job before it left (`Ready`).  A rename then replaces a whole file by a whole, synced,
newer one, which is AtomicFile's `Replace`; a power loss brings back a file of which
nothing can be missing, which is its `PowerLoss`; every other step leaves both files
alone.

**SocketMode.**  A callback runs for an event that Slack still resends
(`CallsInTime`), and the entry of a taken event lives as long as that
(`Remembered`, by `RetryAssumption`).  So a second callback meets the entry,
unless it was evicted or lost with the process (`forgotten`).  `Accounted` and
`OnePlace` keep track of where a taken message is, `SessionOwns` of what belongs
to the present session.  The refinement follows action by action: `Admit` is a
`Take`, `Overflow` a `GiveUp` or a `Repeat`, the worker, the drain and the crash
`Settle`, the rest leaves `fate` and `told` alone.

**Supervisor.**  What a waiter looked at before it parks may have changed, but then
the change is still announced, by a permit or by a callback that has yet to
notify (`WaiterInv`); this is what makes the single permit enough for two
flags and two waiters one after the other.  `BackoffInv` keeps the backoff one
doubling ahead of the delays slept so far.

**SessionRequests.**  Whoever was told to wait is kept from asking by the
loop's sleep or by the shared pause (`WaitsInv`); a failed look-up
leaves an entry that lives at least as long as its ban, or was evicted
(`NamesInv`).  Both hold over every interleaving of answers that overwrite the
pause and of names that overwrite the entry.  `WalksInv` says what a walk has: the
lists of all pages behind it, each of which can be reached, and whose cursors it
has followed.  At a page without a cursor, that page and those behind are closed
under cursors, hence all that can be reached.  `Reached` is the least set with
that property, so the argument needs no induction.  While the account changes, a
walk over channels has at least what the pages behind it list of `kept`, and
nothing outside `held` (`MembersInv`), which gives `WholeListing` its two bounds.

**UrlAdmission.**  `Inv` follows a message through the worker: it has nothing before
extraction (`Untouched`), the URL in hand has passed the checks made so far
(`Current`), admitted URLs are URLs already handled, in their order, and each row is
that of an admitted URL of its own (`InOrder`), and without a failure nothing admitted
lacks its row (`Complete`).  Late statements make the order of rows arbitrary: `Stand`
says that rows can be assigned to different positions among the admitted URLs, and
`Settled` that only positions are taken whose statement is neither running nor
abandoned, so that a late one always finds its own position free (`StandAppend`).
The steps are short once code and reference are known to agree;
that is where the work is.

* `DecodedExact`: appending a token to a path changes what a pass makes of it at the
  end only, and the three passes together change it as the single one does.  Texts
  have any length: the induction over it is made once, as a statement about sets of
  numbers (`Induction`, from the well-foundedness of `<`), and applied to the set
  of lengths for which the claim holds.  That recursive functions have values is
  shown the same way (`Recursion`).
* `NamesExact`: a suffix of an absolute name is an absolute rule iff the rule, read from
  the right without its final dot, is a prefix of the name so read.  The length of a name
  does not depend on its final dot.
* `AddressesExact`: an address is masked to the base of a block iff it lies between
  that base and the base with all other bits set.  Of the parts of an address those
  before the end of the prefix are kept, the one where it ends is cut to a multiple of
  a power of two (`KeptCut`), the others become 0; two addresses are compared by the
  first part in which they differ (`OrderDecided`).
* `ExtractedExact`: the first matches, filtered, are the reference's URLs, and each
  fits the table.

**Assumptions.**  The theorems rest on the assumptions the modules name, and on
nothing else: limits and sizes are positive, sentinels are none of the values they
stand beside, `Lag <= Overlap` and `RetryAssumption` as described above, roots are roots
of their own threads, lists have finitely many pages, and channels are finitely many.  In UrlAdmission: a message is
a sequence of tokens with hosts as `Url` returns them, never an empty name
(`MessagesAssumption`); the resolver answers with addresses (`AnswersAssumption`); a
list with a malformed rule does not compile, so no filter holds one
(`RulesAssumption`); labels have a length, and the empty one is malformed
(`LabelsAssumption`).  TLC
evaluates them for the instances of the runs.

**Model-checked only.**  `EventuallySettled`, `FailureEnds`, `SignalStops`,
`Recovers`, `WalksEnd` and `Ends` are liveness properties under fairness; such
properties and `ENABLED` are beyond the prover and stay with TLC, on the instances
of section 3.  Every other property of a passing run is a theorem.

## 5. What is not modelled, and what is left

* **Configuration and program start**: checked once before anything runs, no
  state of their own.  What the other parts use of it are CONSTANTS.
* **The Slack SDK**, the `url` crate, sqlx and the resolver are not part of this
  code; the models have what the code sees of them.
* **Parsing** of hosts, rules, timestamps and frames, `normalise`, reconnect
  tickets, headers and size limits of answers: functions of their input that end
  in an error or a value.
* **The look-up of senders** is that of channels with another cache; `retry_at`
  belongs to the bot token's client.
* **A clock that is set back** (`state.rs:107`) has no property: the properties
  compare times at which messages were posted with times of the machine, which
  lose their meaning.

Next steps, most valuable first: an abstract specification of harvesting (a
message is posted, harvested, suppressed or excused) implemented by
UserSession, from the two invariants that are there; a run of UserSession with
two channels; the worker of UserSession as an abstraction of UrlAdmission.
