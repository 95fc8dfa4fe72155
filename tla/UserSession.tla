---------------------------- MODULE UserSession ----------------------------
(***************************************************************************)
(* One user session of sjmb-slack: the websocket connection, the consumer  *)
(* of its events, history recovery, the message worker and the recovery    *)
(* state (src/src/slackbot/user_session.rs, user_session/recovery.rs, the  *)
(* worker of slackbot.rs and, through RecoveryStore, user_session/state.rs *)
(* ), with the part of Slack the session talks to.                         *)
(*                                                                         *)
(* The tasks, which interleave at their await points:                      *)
(*   main       run, connection: dial, hello, begin, tear down, reconnect  *)
(*   reader     read_socket: moves frames to the bounded event queue       *)
(*   consumer   consume: takes one event at a time                         *)
(*   recovery   recover: passes over the channels that have a gap          *)
(*   worker     handle_messages: inserts URLs and answers receipts         *)
(* The consumer and recovery share the `processing` lock: `job` is the     *)
(* message its holder has in hand.                                         *)
(***************************************************************************)
EXTENDS RecoveryStore, Sequences

CONSTANTS
  RootOf,       \* the root of a message's thread, the message itself if none
  NoChannel,    \* "no channel is being recovered"
  NoMsg,        \* "the lock holder has no message"
  Lag,          \* Slack delivers a live message within this many seconds
  EventCap,     \* MESSAGE_QUEUE_BOUND, of the event queue
  QueueCap,     \* MESSAGE_QUEUE_BOUND, of the worker queue
  MaxClock,     \* bound of the model: the last second
  Faults,       \* bound of the model: the kinds of faults that may happen
  MaxFaults     \* bound of the model: how many of them

FaultKinds == {"disconnect", "crash", "shutdown", "timeout", "insert",
               "history", "gone", "move"}

ASSUME RootAssumption ==
  /\ RootOf \in [Msgs -> Msgs]
  /\ \A m \in Msgs : /\ RootOf[RootOf[m]] = RootOf[m]
                     /\ ChanOf[RootOf[m]] = ChanOf[m]
ASSUME NoneAssumption  == NoChannel \notin Channels /\ NoMsg \notin Msgs
ASSUME LagAssumption   == Lag \in Nat /\ Lag <= Overlap
ASSUME QueueAssumption == EventCap \in Nat \ {0} /\ QueueCap \in Nat \ {0}
ASSUME BoundAssumption ==
  /\ MaxClock \in Nat \ {0}
  /\ Faults \subseteq FaultKinds
  /\ MaxFaults \in Nat

VARIABLES
  (* Slack and the environment *)
  clock,       \* now()
  joined,      \* the channels the account is a member of
  ts,          \* when a message was posted, 0 if it was not
  wire,        \* messages sent on the live connection and not yet read
  moved,       \* membership events on the live connection: none or one
  faults,      \* faults so far
  (* main and reader *)
  phase,       \* where the process stands, see Phases
  began,       \* `began` of connection(), 0 without a connection
  members,     \* Session.members
  events,      \* the event queue; its head is the event in hand
  ping,        \* when this connection last sent a heartbeat, 0 if never
  pending,     \* when the heartbeat without an answer was sent, 0 if none
  (* consumer, recovery and the lock they share *)
  consumer,    \* "recv", or "save" after a checkpoint
  pass,        \* rest of the recovery pass: clones of recovery_channels
  rec,         \* the channel being recovered
  job,         \* the message of the holder of Session.processing
  (* worker *)
  queue,       \* the worker queue; its head is the message in hand
  (* recovery state *)
  store,       \* Store.data
  disk,        \* the state file
  recovering,  \* channels with Channel.recovering
  failed,      \* channels with Channel.failed
  (* the database and what the properties remember *)
  rows,        \* rows inserted for a message, 2 standing for more than one
  handled,     \* messages whose inserts all succeeded once
  excuse,      \* why a message may stay unharvested, see Excuses
  unsure       \* messages tried by an attempt whose result was not recorded

slack    == <<clock, joined, ts, wire, moved, faults>>
conn     == <<phase, began, members, events, ping, pending>>
tasks    == <<consumer, pass, rec, job>>
state    == <<store, disk, recovering, failed>>
history  == <<rows, handled, excuse, unsure>>
vars     == <<slack, conn, tasks, queue, state, history>>

Phases == {"down", "idle", "dialing", "starting", "saving", "running",
           "closing", "draining"}

(***************************************************************************)
(* Why a message that was posted may never be harvested.  The README of    *)
(* the program names the first four: no checkpoint yet, an outage beyond   *)
(* the window, a reply to an untracked thread, an inaccessible channel.    *)
(* The last two are gaps it does not name: "gap" is a message posted after *)
(* `began` but before the live stream, "late" one of a channel that was    *)
(* registered more than Overlap after the message was posted.              *)
(***************************************************************************)
Excuses == {"none", "fresh", "window", "thread", "left", "gap", "late"}

Events ==
       [kind : {"message"},    m : Msgs,    at : {0}]
  \cup [kind : {"checkpoint"}, m : {NoMsg}, at : Nat]
  \cup [kind : {"membership"}, m : {NoMsg}, at : {0}]

MessageEvent(m) == [kind |-> "message",    m |-> m,     at |-> 0]
Barrier(at)     == [kind |-> "checkpoint", m |-> NoMsg, at |-> at]
Membership      == [kind |-> "membership", m |-> NoMsg, at |-> 0]

NoJob == [by |-> "none", m |-> NoMsg, roots |-> {}, state |-> "none"]
Jobs ==
  {NoJob} \cup [ by : {"live", "recovery"}, m : Msgs, roots : SUBSET Msgs,
                 state : {"admit", "wait", "ok", "fail"} ]

Recs == [ stage : {"idle", "history", "pages", "replies", "save"},
          ch : Channels \union {NoChannel}, oldest : Nat,
          todo : SUBSET Msgs, parents : SUBSET Msgs, threads : SUBSET Msgs ]
NoRec == [ stage |-> "idle", ch |-> NoChannel, oldest |-> 0,
           todo |-> {}, parents |-> {}, threads |-> {} ]

SlackType ==
  /\ clock \in Nat \ {0} /\ joined \in SUBSET Channels
  /\ ts \in [Msgs -> Nat] /\ wire \in SUBSET Msgs
  /\ moved \in 0..1 /\ faults \in Nat
ConnType ==
  /\ phase \in Phases /\ began \in Nat
  /\ members \in SUBSET Channels /\ events \in Seq(Events)
  /\ ping \in Nat /\ pending \in Nat
TaskType ==
  /\ consumer \in {"recv", "save"}
  /\ pass \in SUBSET (Channels \X Nat) /\ rec \in Recs /\ job \in Jobs
StateType ==
  /\ store \in Snapshots /\ disk \in Snapshots
  /\ recovering \in SUBSET Channels /\ failed \in SUBSET Channels
HistoryType ==
  /\ rows \in [Msgs -> 0..2] /\ handled \in SUBSET Msgs
  /\ excuse \in [Msgs -> Excuses] /\ unsure \in SUBSET Msgs

TypeOK ==
  SlackType /\ ConnType /\ TaskType /\ queue \in Seq(Msgs) /\ StateType
    /\ HistoryType

Init ==
  /\ clock = 1 /\ joined \in SUBSET Channels
  /\ ts = [m \in Msgs |-> 0] /\ wire = {} /\ moved = 0 /\ faults = 0
  /\ phase = "idle" /\ began = 0 /\ members = {} /\ events = <<>>
  /\ ping = 0 /\ pending = 0
  /\ consumer = "recv" /\ pass = {} /\ rec = NoRec /\ job = NoJob
  /\ queue = <<>>
  /\ store = EmptySnapshot /\ disk = EmptySnapshot
  /\ recovering = {} /\ failed = {}
  /\ rows = [m \in Msgs |-> 0] /\ handled = {}
  /\ excuse = [m \in Msgs |-> "none"] /\ unsure = {}

-----------------------------------------------------------------------------
(***************************************************************************)
(* Vocabulary.                                                             *)
(***************************************************************************)
Subscribed == phase \in {"starting", "saving", "running"}
Posted(m)  == ts[m] > 0
Settled(m) == m \in handled \/ excuse[m] # "none"
Open(m)    == Posted(m) /\ ~Settled(m)
Queued(m)  == \E i \in 1..Len(events) : events[i] = MessageEvent(m)
Live(m)    == m \in wire \/ Queued(m)

\* Give up on the open messages of a set
Excuse(M, why) ==
  excuse' = [m \in Msgs |-> IF m \in M /\ Open(m) THEN why ELSE excuse[m]]

Fault(kind) == kind \in Faults /\ faults < MaxFaults /\ faults' = faults + 1

-----------------------------------------------------------------------------
(***************************************************************************)
(* Slack.                                                                  *)
(***************************************************************************)

\* A second passes.  Slack does not hold a live message for longer than Lag.
Tick ==
  /\ clock < MaxClock
  /\ \A m \in wire : clock < ts[m] + Lag
  /\ clock' = clock + 1
  /\ UNCHANGED <<joined, ts, wire, moved, faults, conn, tasks, queue, state,
                 history>>

\* A message is posted; a reply after its root.
Post(m) ==
  /\ ~Posted(m)
  /\ RootOf[m] = m \/ Posted(RootOf[m])
  /\ ts' = [ts EXCEPT ![m] = clock]
  /\ wire' = IF Subscribed /\ ChanOf[m] \in joined THEN wire \union {m} ELSE wire
  /\ excuse' = [excuse EXCEPT ![m] = IF ChanOf[m] \in joined THEN @ ELSE "left"]
  /\ UNCHANGED <<clock, joined, moved, faults, conn, tasks, queue, state,
                 rows, handled, unsure>>

\* The account joins or leaves a channel.
Move(c) ==
  /\ Fault("move")
  /\ moved = 0
  /\ joined' = IF c \in joined THEN joined \ {c} ELSE joined \union {c}
  /\ moved' = IF Subscribed THEN 1 ELSE 0
  /\ UNCHANGED <<clock, ts, wire, conn, tasks, queue, state, history>>

-----------------------------------------------------------------------------
(***************************************************************************)
(* main: the life of the process and of a connection.                      *)
(***************************************************************************)

\* The program starts again and reads its state file.
Start ==
  /\ phase = "down"
  /\ phase' = "idle"
  /\ UNCHANGED <<slack, began, members, events, ping, pending, tasks, queue,
                 state, history>>

\* connection(): the boundary of recovery is read before the socket is opened
Dial ==
  /\ phase = "idle"
  /\ phase' = "dialing"
  /\ began' = clock
  /\ UNCHANGED <<slack, members, events, ping, pending, tasks, queue, state,
                 history>>

\* The hello frame: from here on Slack sends what is posted.
Hello ==
  /\ phase = "dialing"
  /\ phase' = "starting"
  /\ Excuse({m \in Msgs : ts[m] > began}, "gap")
  /\ UNCHANGED <<slack, began, members, events, ping, pending, tasks, queue,
                 state, rows, handled, unsure>>

\* discover_channels and begin_connection
Begin ==
  /\ phase = "starting"
  /\ phase' = "saving"
  /\ members' = joined
  /\ store' \in BeginConnection(store, joined, began)
  /\ recovering' = joined \intersect store.tracked
  /\ failed' = {}
  /\ excuse' = [m \in Msgs |->
       CASE ~Open(m) \/ Live(m)         -> excuse[m]
         [] ChanOf[m] \notin joined        -> "left"
         [] ChanOf[m] \notin store.tracked -> "fresh"
         [] ts[m] < began - Window         -> "window"
         [] OTHER                          -> excuse[m]]
  /\ UNCHANGED <<slack, began, events, ping, pending, tasks, queue, disk,
                 rows, handled, unsure>>

\* The save that follows; then the consumer and recovery start.
BeginSave ==
  /\ phase = "saving"
  /\ phase' = "running"
  /\ disk' = store
  /\ UNCHANGED <<slack, began, members, events, ping, pending, tasks, queue,
                 store, recovering, failed, history>>

\* The tasks of a connection are dropped, with the message in hand and
\* whatever was read or was on its way.
DropConnection ==
  /\ wire' = {} /\ moved' = 0
  /\ began' = 0 /\ events' = <<>> /\ ping' = 0 /\ pending' = 0
  /\ consumer' = "recv" /\ pass' = {} /\ rec' = NoRec /\ job' = NoJob
  /\ unsure' = unsure \union ({job.m} \ {NoMsg})

\* A task of the connection returns an error, which ends connection()
Reconnect == phase' = "closing" /\ DropConnection

\* The socket closes, a request fails, a heartbeat stays unanswered, ...
Disconnect ==
  /\ Fault("disconnect")
  /\ phase \in {"dialing", "starting", "saving", "running"}
  /\ Reconnect
  /\ UNCHANGED <<clock, joined, ts, members, queue, state, rows, handled, excuse>>

\* run(): the save after every connection, then the backoff
CloseSave ==
  /\ phase = "closing"
  /\ phase' = "idle"
  /\ disk' = store
  /\ UNCHANGED <<slack, began, members, events, ping, pending, tasks, queue,
                 store, recovering, failed, history>>

\* run_user_sessions: a signal or an authentication error ends the sessions
Shutdown ==
  /\ Fault("shutdown")
  /\ phase \notin {"down", "draining"}
  /\ phase' = "draining"
  /\ DropConnection
  /\ UNCHANGED <<clock, joined, ts, members, queue, state, rows, handled, excuse>>

\* The memory of the process is gone
ForgetProcess ==
  /\ phase' = "down"
  /\ members' = {} /\ queue' = <<>> /\ recovering' = {} /\ failed' = {}

\* The queue is drained, or DRAIN_TIMEOUT discards the rest; a last save.
Exit ==
  /\ phase = "draining"
  /\ disk' = store
  /\ ForgetProcess
  /\ UNCHANGED <<slack, began, events, ping, pending, tasks, store, history>>

\* The process dies at any point.
Crash ==
  /\ Fault("crash")
  /\ phase # "down"
  /\ ForgetProcess
  /\ store' = disk
  /\ wire' = {} /\ moved' = 0
  /\ began' = 0 /\ events' = <<>> /\ ping' = 0 /\ pending' = 0
  /\ consumer' = "recv" /\ pass' = {} /\ rec' = NoRec /\ job' = NoJob
  /\ unsure' = unsure \union ({job.m} \ {NoMsg})
                      \union {m \in Msgs : rows[m] > 0 /\ ~Seen(disk, m)}
  /\ UNCHANGED <<clock, joined, ts, disk, rows, handled, excuse>>

-----------------------------------------------------------------------------
(***************************************************************************)
(* reader: read_socket.  try_send fails when the queue is full, and a full *)
(* queue ends the connection.  Once the consumer runs it has one event in  *)
(* hand besides those in the queue.                                        *)
(***************************************************************************)
Room == EventCap + (IF phase = "running" THEN 1 ELSE 0)

Enqueue(event) == Len(events) < Room /\ events' = Append(events, event)
Overflow       == Len(events) >= EventCap /\ Reconnect

Deliver(m) ==
  /\ Subscribed
  /\ m \in wire
  /\ wire' = wire \ {m}
  /\ Enqueue(MessageEvent(m))
  /\ UNCHANGED <<clock, joined, ts, moved, faults, phase, began, members, ping,
                 pending, tasks, queue, state, history>>

DeliverMembership ==
  /\ Subscribed
  /\ moved = 1
  /\ moved' = 0
  /\ Enqueue(Membership)
  /\ UNCHANGED <<clock, joined, ts, wire, faults, phase, began, members, ping,
                 pending, tasks, queue, state, history>>

\* The next heartbeat is sent when the last one was answered.  (At MaxClock,
\* where the model's time stands still, only on an idle connection.)
Ping ==
  /\ Subscribed
  /\ pending = 0
  /\ clock > ping \/ (clock = MaxClock /\ events = <<>>)
  /\ ping' = clock
  /\ pending' = clock
  /\ UNCHANGED <<slack, phase, began, members, events, tasks, queue, state,
                 history>>

\* Its answer is a barrier in the event queue, at the time of the heartbeat.
Pong ==
  /\ Subscribed
  /\ pending > 0
  /\ pending' = 0
  /\ Enqueue(Barrier(pending))
  /\ UNCHANGED <<slack, phase, began, members, ping, tasks, queue, state,
                 history>>

\* Mutant of Overrun: a message that finds no room is discarded
OverrunDrops ==
  /\ Subscribed
  /\ Len(events) >= EventCap
  /\ \E m \in wire : wire' = wire \ {m}
  /\ UNCHANGED <<clock, joined, ts, moved, faults, conn, tasks, queue, state,
                 history>>

\* There is a frame to read and no room for it.
Overrun ==
  /\ Subscribed
  /\ wire # {} \/ moved = 1 \/ pending > 0
  /\ Overflow
  /\ UNCHANGED <<clock, joined, ts, faults, members, queue, state, rows,
                 handled, excuse>>

-----------------------------------------------------------------------------
(***************************************************************************)
(* The processing lock and process().                                      *)
(***************************************************************************)
Unlocked == job = NoJob

\* remember_thread, when the message names a thread
Remembered(m, roots) ==
  IF roots = {} THEN {store} ELSE RememberThread(store, RootOf[m], clock)

Submit(by, m, roots) ==
  job' = [by |-> by, m |-> m, roots |-> roots, state |-> "admit"]

\* The worker queue has room for the message.
Admit ==
  /\ job.state = "admit"
  /\ Len(queue) < QueueCap
  /\ queue' = Append(queue, job.m)
  /\ job' = [job EXCEPT !.state = "wait"]
  /\ UNCHANGED <<slack, conn, consumer, pass, rec, state, history>>

\* Admission or the receipt takes too long.
Timeout ==
  /\ Fault("timeout")
  /\ job.state \in {"admit", "wait"}
  /\ job' = [job EXCEPT !.state = "fail"]
  /\ UNCHANGED <<clock, joined, ts, wire, moved, conn, consumer, pass, rec,
                 queue, state, history>>

\* Mutant of Answer: a receipt always says ok
AnswerOk(outcome) ==
  job' = IF job.state = "wait" /\ Len(queue) = 1
         THEN [job EXCEPT !.state = "ok"] ELSE job

\* A receipt reaches the attempt that still waits for it: the one whose
\* message entered the queue last.
Answer(outcome) ==
  job' = IF job.state = "wait" /\ Len(queue) = 1
         THEN [job EXCEPT !.state = outcome] ELSE job

MoreRows(m) == [rows EXCEPT ![m] = IF @ = 2 THEN 2 ELSE @ + 1]

\* worker: every URL of the message is inserted or rejected by the filter
WorkerInsert ==
  /\ queue # <<>>
  /\ queue' = Tail(queue)
  /\ rows' = MoreRows(Head(queue))
  /\ handled' = handled \union {Head(queue)}
  /\ Answer("ok")
  /\ UNCHANGED <<slack, conn, consumer, pass, rec, state, excuse, unsure>>

\* worker: the message expired, or some or all of its inserts fail
WorkerFail ==
  /\ Fault("insert")
  /\ queue # <<>>
  /\ queue' = Tail(queue)
  /\ rows' \in {rows, MoreRows(Head(queue))}
  /\ Answer("fail")
  /\ UNCHANGED <<clock, joined, ts, wire, moved, conn, consumer, pass, rec,
                 state, handled, excuse, unsure>>

-----------------------------------------------------------------------------
(***************************************************************************)
(* consumer: consume() on the event at the head of the queue.              *)
(***************************************************************************)
Consuming(kind) ==
  /\ phase = "running"
  /\ consumer = "recv"
  /\ job.by # "live"
  /\ events # <<>>
  /\ Head(events).kind = kind

ConsumeCheckpoint ==
  /\ Consuming("checkpoint")
  /\ store' \in Checkpoint(store, recovering, failed, Head(events).at, clock)
  /\ consumer' = "save"
  /\ UNCHANGED <<slack, conn, pass, rec, job, queue, disk, recovering, failed,
                 history>>

ConsumerSave ==
  /\ consumer = "save"
  /\ disk' = store
  /\ consumer' = "recv"
  /\ events' = Tail(events)
  /\ UNCHANGED <<slack, phase, began, members, ping, pending, pass, rec, job,
                 queue, store, recovering, failed, history>>

\* add_channel for each of the channels; messages already older than what the
\* new checkpoint reaches back to are recorded as "late".
Register(channels) ==
  /\ store' = AddChannels(store, channels, clock)
  /\ Excuse({m \in Msgs : /\ ChanOf[m] \in channels \ store.tracked
                          /\ ts[m] < clock - Overlap}, "late")

\* The account joined or left a channel: discover_channels
ConsumeMembership ==
  /\ Consuming("membership")
  /\ members' = joined
  /\ Register(joined)
  /\ events' = Tail(events)
  /\ UNCHANGED <<slack, phase, began, ping, pending, tasks, queue, disk,
                 recovering, failed, rows, handled, unsure>>

\* A message of a channel that is not a known member: conversations.info
AdoptChannel ==
  /\ Consuming("message")
  /\ LET c == ChanOf[Head(events).m]
     IN  /\ c \in joined \ members
         /\ members' = members \union {c}
         /\ Register({c})
  /\ UNCHANGED <<slack, phase, began, events, ping, pending, tasks, queue,
                 disk, recovering, failed, rows, handled, unsure>>

SkipStranger ==
  /\ Consuming("message")
  /\ ChanOf[Head(events).m] \notin joined \union members
  /\ events' = Tail(events)
  /\ Excuse({Head(events).m}, "left")
  /\ UNCHANGED <<slack, phase, began, members, ping, pending, tasks, queue,
                 state, rows, handled, unsure>>

\* A live event names its thread only if it is a reply.
LiveRoots(m) == {RootOf[m]} \ {m}

\* process() on a live message that was handled before
LiveDuplicate ==
  /\ Consuming("message")
  /\ Unlocked
  /\ LET m == Head(events).m
     IN  /\ ChanOf[m] \in members
         /\ store' \in Remembered(m, LiveRoots(m))
         /\ Seen(store', m)
  /\ events' = Tail(events)
  /\ UNCHANGED <<slack, phase, began, members, ping, pending, tasks, queue,
                 disk, recovering, failed, history>>

\* process() on a new live message, up to the queue
LiveSubmit ==
  /\ Consuming("message")
  /\ Unlocked
  /\ LET m == Head(events).m
     IN  /\ ChanOf[m] \in members
         /\ store' \in Remembered(m, LiveRoots(m))
         /\ ~Seen(store', m)
         /\ Submit("live", m, LiveRoots(m))
  /\ UNCHANGED <<slack, conn, consumer, pass, rec, queue, disk, recovering,
                 failed, history>>

\* The receipt says ok: processed()
LiveDone ==
  /\ job.by = "live"
  /\ job.state = "ok"
  /\ store' \in Processed(store, job.m, job.roots, clock)
  /\ job' = NoJob
  /\ events' = Tail(events)
  /\ UNCHANGED <<slack, phase, began, members, ping, pending, consumer, pass,
                 rec, queue, disk, recovering, failed, history>>

\* Anything else: failed(), and the error ends the connection
LiveFail ==
  /\ job.by = "live"
  /\ job.state = "fail"
  /\ failed' = failed \union ({ChanOf[job.m]} \intersect store.tracked)
  /\ Reconnect
  /\ UNCHANGED <<clock, joined, ts, faults, members, queue, store, disk,
                 recovering, rows, handled, excuse>>

-----------------------------------------------------------------------------
(***************************************************************************)
(* recovery: recover(began).                                               *)
(***************************************************************************)
Recovering(stage) == phase = "running" /\ rec.stage = stage

\* Mutant of RecoverPass: a channel whose recovery failed is not tried again
RecoverPassOnce ==
  /\ Recovering("idle")
  /\ pass = {}
  /\ recovering \ failed # {}
  /\ pass' = {<<c, store.covered[c]>> : c \in recovering \ failed}
  /\ UNCHANGED <<slack, conn, consumer, rec, job, queue, state, history>>

\* A new pass: the channels that are recovering, with their checkpoints
RecoverPass ==
  /\ Recovering("idle")
  /\ pass = {}
  /\ recovering # {}
  /\ pass' = {<<c, store.covered[c]>> : c \in recovering}
  /\ UNCHANGED <<slack, conn, consumer, rec, job, queue, state, history>>

RecoverSkip ==
  /\ Recovering("idle")
  /\ \E p \in pass : p[1] \notin members /\ pass' = pass \ {p}
  /\ UNCHANGED <<slack, conn, consumer, rec, job, queue, state, history>>

\* The lower end of the interval to recover
Oldest(covered) == Later(Later(covered - Overlap, began - Window), 0)

RecoverStart ==
  /\ Recovering("idle")
  /\ \E p \in pass :
       /\ p[1] \in members
       /\ pass' = pass \ {p}
       /\ rec' = [NoRec EXCEPT !.stage = "history", !.ch = p[1],
                               !.oldest = Oldest(p[2])]
       /\ failed' = failed \ {p[1]}
  /\ UNCHANGED <<slack, conn, consumer, job, queue, store, disk, recovering,
                 history>>

\* What Slack returns for [oldest, began] of the channel being recovered
InRange(m) == ChanOf[m] = rec.ch /\ Posted(m) /\ rec.oldest <= ts[m] /\ ts[m] <= began
HasReplies(m) == \E r \in Msgs \ {m} : RootOf[r] = m /\ Posted(r)

\* conversations.history: the roots of the range, with their reply counts
FetchHistory ==
  /\ Recovering("history")
  /\ LET roots == {m \in Msgs : RootOf[m] = m /\ InRange(m)}
     IN  rec' = [rec EXCEPT !.stage = "pages", !.todo = roots,
                            !.parents = {m \in roots : HasReplies(m)}]
  /\ UNCHANGED <<slack, conn, consumer, pass, job, queue, state, history>>

\* Mutant of FetchedRoots: only a reply names its thread
FetchedRootsOfReply(m) == IF RootOf[m] # m THEN {RootOf[m]} ELSE {}

\* A fetched message names its thread if it is a reply or has replies.
FetchedRoots(m) == IF RootOf[m] # m \/ m \in rec.parents THEN {RootOf[m]} ELSE {}

RecoverDuplicate ==
  /\ Unlocked
  /\ phase = "running"
  /\ \E m \in rec.todo :
       /\ store' \in Remembered(m, FetchedRoots(m))
       /\ Seen(store', m)
       /\ rec' = [rec EXCEPT !.todo = @ \ {m}]
  /\ UNCHANGED <<slack, conn, consumer, pass, job, queue, disk, recovering,
                 failed, history>>

RecoverSubmit ==
  /\ Unlocked
  /\ phase = "running"
  /\ \E m \in rec.todo :
       /\ store' \in Remembered(m, FetchedRoots(m))
       /\ ~Seen(store', m)
       /\ Submit("recovery", m, FetchedRoots(m))
  /\ UNCHANGED <<slack, conn, consumer, pass, rec, queue, disk, recovering,
                 failed, history>>

RecoverDone ==
  /\ job.by = "recovery"
  /\ job.state = "ok"
  /\ store' \in Processed(store, job.m, job.roots, clock)
  /\ rec' = [rec EXCEPT !.todo = @ \ {job.m}]
  /\ job' = NoJob
  /\ UNCHANGED <<slack, conn, consumer, pass, queue, disk, recovering, failed,
                 history>>

\* A message fails: the channel is given up for this pass.
RecoverFail ==
  /\ job.by = "recovery"
  /\ job.state = "fail"
  /\ failed' = failed \union ({ChanOf[job.m]} \intersect store.tracked)
  /\ rec' = NoRec
  /\ job' = NoJob
  /\ unsure' = unsure \union {job.m}
  /\ UNCHANGED <<slack, conn, consumer, pass, queue, store, disk, recovering,
                 rows, handled, excuse>>

\* Mutant of RecoverThreads: no replies are fetched
RecoverThreadsSkips ==
  /\ Recovering("pages")
  /\ rec.todo = {}
  /\ rec' = [rec EXCEPT !.stage = "replies", !.threads = {}]
  /\ UNCHANGED <<slack, conn, consumer, pass, job, queue, state, history>>

\* History is complete: the tracked threads come next.  Replies of the range
\* to other threads are out of reach.
RecoverThreads ==
  /\ Recovering("pages")
  /\ rec.todo = {}
  /\ LET tracked == Threads(store, rec.ch)
     IN  /\ rec' = [rec EXCEPT !.stage = "replies", !.threads = tracked]
         /\ Excuse({m \in Msgs : /\ InRange(m)
                                 /\ ~Live(m)
                                 /\ RootOf[m] \notin tracked \union {m}}, "thread")
  /\ UNCHANGED <<slack, conn, consumer, pass, job, queue, state, rows, handled,
                 unsure>>

\* conversations.replies: the replies of the range, and the root in the range
FetchReplies ==
  /\ Recovering("replies")
  /\ rec.todo = {}
  /\ \E r \in rec.threads :
       rec' = [rec EXCEPT !.threads = @ \ {r},
                          !.todo = {m \in Msgs : RootOf[m] = r /\ InRange(m)},
                          !.parents = @ \union {r}]
  /\ UNCHANGED <<slack, conn, consumer, pass, job, queue, state, history>>

\* thread_not_found: the thread was deleted
ThreadGone ==
  /\ Recovering("replies")
  /\ Fault("gone")
  /\ rec.todo = {}
  /\ \E r \in rec.threads :
       /\ rec' = [rec EXCEPT !.threads = @ \ {r}]
       /\ store' = ForgetThread(store, r)
       /\ Excuse({m \in Msgs : RootOf[m] = r}, "thread")
  /\ UNCHANGED <<clock, joined, ts, wire, moved, conn, consumer, pass, job,
                 queue, disk, recovering, failed, rows, handled, unsure>>

\* finish_recovery
RecoverFinish ==
  /\ Recovering("replies")
  /\ rec.todo = {}
  /\ rec.threads = {}
  /\ store' = FinishRecovery(store, rec.ch, failed, began)
  /\ recovering' = IF rec.ch \in failed THEN recovering ELSE recovering \ {rec.ch}
  /\ rec' = [rec EXCEPT !.stage = "save"]
  /\ UNCHANGED <<slack, conn, consumer, pass, job, queue, disk, failed, history>>

RecoverSave ==
  /\ Recovering("save")
  /\ disk' = store
  /\ rec' = NoRec
  /\ UNCHANGED <<slack, conn, consumer, pass, job, queue, store, recovering,
                 failed, history>>

\* A request of recovery fails; a rate limit ends the whole pass.
RecoverError ==
  /\ Fault("history")
  /\ phase = "running"
  /\ rec.stage \in {"history", "pages", "replies"}
  /\ job.by # "recovery"
  /\ rec' = NoRec
  /\ pass' \in {pass, {}}
  /\ UNCHANGED <<clock, joined, ts, wire, moved, conn, consumer, job, queue,
                 state, history>>

-----------------------------------------------------------------------------
Slack    == Tick \/ (\E m \in Msgs : Post(m)) \/ (\E c \in Channels : Move(c))
Main     == Start \/ Dial \/ Hello \/ Begin \/ BeginSave \/ CloseSave \/ Exit
Abort    == Disconnect \/ Shutdown \/ Crash
Read     == (\E m \in Msgs : Deliver(m)) \/ DeliverMembership \/ Overrun
Beat     == Ping \/ Pong
Consumer == \/ ConsumeCheckpoint \/ ConsumerSave \/ ConsumeMembership
            \/ AdoptChannel \/ SkipStranger \/ LiveDuplicate \/ LiveSubmit
            \/ LiveDone \/ LiveFail
Recovery == \/ RecoverPass \/ RecoverSkip \/ RecoverStart \/ FetchHistory
            \/ RecoverDuplicate \/ RecoverSubmit \/ RecoverDone \/ RecoverFail
            \/ RecoverThreads \/ FetchReplies \/ RecoverFinish \/ RecoverSave
Mishap   == ThreadGone \/ RecoverError \/ Timeout \/ WorkerFail
Worker   == WorkerInsert

Next == Slack \/ Main \/ Abort \/ Read \/ Beat \/ Consumer \/ Recovery \/ Mishap
             \/ Admit \/ Worker

Spec == Init /\ [][Next]_vars

(***************************************************************************)
(* Every task that can take a step is polled again: tokio schedules the    *)
(* futures of a select! or try_join! whenever what they await is ready.    *)
(* Main and Worker stand for what they wait for as well: without further   *)
(* faults, a process is started again, Slack says hello and answers, saves *)
(* and inserts succeed.  Nothing is assumed of heartbeats or of faults.    *)
(***************************************************************************)
FairSpec ==
  Spec /\ WF_vars(Main) /\ WF_vars(Read) /\ WF_vars(Consumer)
       /\ WF_vars(Recovery) /\ WF_vars(Admit) /\ WF_vars(Worker)

-----------------------------------------------------------------------------
(***************************************************************************)
(* Properties.                                                             *)
(***************************************************************************)

\* Reaching back from the checkpoints of a snapshot, a later recovery still
\* finds every message that was not harvested, but for those given up for one
\* of the reasons `pardoned`.
Reaches(s, pardoned) ==
  \A m \in Msgs :
    Posted(m) /\ m \notin handled /\ excuse[m] \notin pardoned
      /\ ChanOf[m] \in s.tracked
    => ts[m] >= s.covered[ChanOf[m]] - Overlap

\* A checkpoint, in memory or in the state file, never passes an unharvested
\* message by more than the overlap: not while a message waits in the event
\* queue, is with the worker or has failed, nor while history is incomplete,
\* nor after a crash.
Coverage == Reaches(store, Excuses \ {"none"}) /\ Reaches(disk, Excuses \ {"none"})

\* README: history is recovered through the fixed connection boundary while the
\* live socket receives the rest.  The gaps it lists do not include a message
\* posted while the connection is set up, after the boundary and before hello.
HandshakeCovered == Reaches(disk, Excuses \ {"none", "gap"})

\* README: "With no checkpoint, the bot starts from its connection time."  So
\* the first checkpoint of a channel that is joined during a connection does not
\* pass a message that was posted there since, and still waits to be handled.
RegistrationCovered == Reaches(disk, Excuses \ {"none", "late"})

\* A message is suppressed as a duplicate, now or after a restart, only if all
\* of its inserts succeeded.
SuppressedIsHandled ==
  \A m \in Msgs : Seen(store, m) \/ Seen(disk, m) => m \in handled

\* The interval under recovery was computed from a clone of the channel; it
\* still starts where the checkpoint of the channel demands.
RecoveryNotStale ==
  /\ \A p \in pass : p[1] \in recovering => p[2] = store.covered[p[1]]
  /\ rec.ch \in recovering => rec.oldest = Oldest(store.covered[rec.ch])

\* What is saved can be opened again.
Reopens == OpenAccepts(disk, clock)

\* The state file never takes back a checkpoint.
CheckpointsAdvance ==
  [][\A c \in disk.tracked \intersect disk'.tracked :
        disk'.covered[c] >= disk.covered[c]]_vars

Listed(f) == {m \in Msgs : f[m] > 0}

\* A table is full of entries made at t or later: there is no room for others.
FullSince(f, limit, t) ==
  Cardinality(Listed(f)) >= limit /\ \A m \in Listed(f) : f[m] >= t

\* The entry of a processed message has expired, or was evicted by later ones.
Forgotten(m) ==
  ts[m] + Window + Overlap < clock \/ FullSince(store.seen, MaxSeen, ts[m])

\* A message is inserted again only if an attempt on it ended without a record
\* (a lost receipt, a failed insert, a crash before a save), or if its own entry
\* had to go: it is older than what the table keeps, or the table is full of
\* entries that are not older.
RepeatsExplained ==
  [][\A m \in Msgs :
       rows[m] > 0 /\ rows'[m] # rows[m] => m \in unsure \/ Forgotten(m)]_vars

\* A reply is given up in recovery only if the root of its thread was posted
\* before the interval, or was deleted, or its thread entry expired or was
\* evicted.
RepliesReached ==
  [][\A m \in Msgs :
       excuse[m] = "none" /\ excuse'[m] = "thread"
       => \/ ts[RootOf[m]] < rec.oldest
          \/ clock > began + Window
          \/ Cardinality({r \in Msgs : store.threads[r] > 0}) >= MaxThreads
          \/ faults' # faults]_vars

\* Every message is eventually harvested or given up for a reason, unless its
\* channel is left: no failure, reconnection or crash makes the session forget
\* it or wait forever.
EventuallySettled ==
  \A m \in Msgs : Posted(m) ~> (Settled(m) \/ ChanOf[m] \notin joined)
=============================================================================
