----------------------------- MODULE SocketMode -----------------------------
(***************************************************************************)
(* The Socket Mode backend of src/src/slackbot/socket_mode.rs with the     *)
(* worker of src/src/slackbot.rs: Slack delivers events over several       *)
(* connections, callbacks admit them to a bounded queue, one worker        *)
(* handles them, and run_socket_sessions supervises both: it drains the    *)
(* queue when a session or the process ends, and starts over.              *)
(***************************************************************************)
EXTENDS Integers, Sequences, FiniteSets, TLC

CONSTANTS
  Messages,    \* events that carry a message to be harvested; others leave no trace
  Calls,       \* callbacks that can run at the same time
  NoEntry,     \* no entry in the cache of seen events
  NoEvent,     \* the worker is free
  QueueBound,  \* MESSAGE_QUEUE_BOUND
  Capacity,    \* of the cache of seen events
  QueueAge,    \* QUEUE_AGE, in ticks
  DedupTTL,    \* DEDUP_TTL, in ticks
  RetrySpan,   \* Slack stops resending an event this long after it sent it first
  MaxTime,     \* bound of the model: ticks
  MaxSessions, \* bound of the model: sessions of all processes
  MaxFaults,   \* bound of the model: acks lost, contended state, failed inserts
  MaxCrashes   \* bound of the model: how often the process dies

ASSUME EventsAssumption == NoEvent \notin Messages
ASSUME CacheAssumption == NoEntry \notin [value : {TRUE}, expires : Nat]
ASSUME BoundsAssumption ==
  /\ QueueBound \in Nat \ {0} /\ Capacity \in Nat \ {0}
  /\ QueueAge \in Nat \ {0} /\ DedupTTL \in Nat \ {0} /\ RetrySpan \in Nat
\* Slack gives up long before an entry expires; a callback takes up to a tick.
ASSUME RetryAssumption == RetrySpan + 1 < DedupTTL

VARIABLES
  now,        \* the clock
  sent,       \* when Slack sent an event first, 0 for never
  acked,      \* events Slack was acknowledged
  calls,      \* the callbacks: their event, their session and how far they are
  session,    \* the number of the session
  phase,      \* of run_socket_sessions, see Phases
  accepting,  \* Ingress::accepting of this session
  open,       \* the receiver of this session's queue is open
  queue,      \* messages of this session's queue, each with its expiry
  job,        \* the message the worker is at
  seen,       \* the cache of seen events, shared by all sessions
  signal,     \* SIGINT or SIGTERM: none, arrived or noticed
  done,       \* history: messages that were handled, as a bag
  taken,      \* history: how often an event was admitted to a queue
  lost,       \* history: why a message was discarded
  forgotten,  \* history: events evicted from the cache or lost with it
  faults,     \* faults so far
  crashes     \* crashes so far

slackVars == <<sent, acked>>
loopVars  == <<session, phase, accepting, open, signal>>
workVars  == <<queue, job>>
history   == <<done, taken, lost, forgotten>>
outside   == <<now, slackVars, crashes>>
vars == <<outside, calls, loopVars, workVars, seen, history, faults>>

C == INSTANCE ExpiringCache

Phases == {"watching", "closing", "draining", "backoff", "stopped", "down"}
Idle == [step |-> "idle", event |-> NoEvent, session |-> 0, at |-> 0]
CallType == [step : {"idle", "called", "entered"}, event : Messages \union {NoEvent},
             session : Nat, at : Nat]
Reasons == {"full", "expired", "failed", "discarded", "crash"}

TypeOK ==
  /\ now \in Nat \ {0} /\ faults \in Nat /\ crashes \in Nat /\ session \in Nat
  /\ sent \in [Messages -> Nat] /\ acked \in SUBSET Messages
  /\ calls \in [Calls -> CallType]
  /\ phase \in Phases /\ accepting \in BOOLEAN /\ open \in BOOLEAN
  /\ queue \in Seq([event : Messages, expires : Nat]) /\ Len(queue) <= QueueBound
  /\ job \in Messages \union {NoEvent}
  /\ seen \in [Messages -> [value : {TRUE}, expires : Nat] \union {NoEntry}]
  /\ signal \in {"none", "arrived", "noticed"}
  /\ done \in [Messages -> Nat] /\ taken \in [Messages -> Nat]
  /\ lost \in [Messages -> SUBSET Reasons] /\ forgotten \in SUBSET Messages

Init ==
  /\ now = 1 /\ faults = 0 /\ crashes = 0 /\ session = 1
  /\ sent = [e \in Messages |-> 0] /\ acked = {}
  /\ calls = [c \in Calls |-> Idle]
  /\ phase = "watching" /\ accepting = TRUE /\ open = TRUE
  /\ queue = <<>> /\ job = NoEvent
  /\ seen = C!EmptyCache(Messages) /\ signal = "none"
  /\ done = [m \in Messages |-> 0] /\ taken = [m \in Messages |-> 0]
  /\ lost = [m \in Messages |-> {}] /\ forgotten = {}

-----------------------------------------------------------------------------
Fault == faults < MaxFaults /\ faults' = faults + 1

InQueue == {queue[i].event : i \in 1..Len(queue)}
Held    == InQueue \union ({job} \ {NoEvent})

Lost(S, reason) ==
  [m \in Messages |-> IF m \in S THEN lost[m] \union {reason} ELSE lost[m]]

(***************************************************************************)
(* Slack.  It sends an event again, over any connection, until it is       *)
(* acknowledged or too old.                                                *)
(***************************************************************************)
Connected == phase \in {"watching", "closing", "draining"}

Deliver(c, e) ==
  /\ Connected
  /\ calls[c] = Idle
  /\ e \notin acked
  /\ sent[e] # 0 => now <= sent[e] + RetrySpan
  /\ sent' = [sent EXCEPT ![e] = IF @ = 0 THEN now ELSE @]
  /\ calls' = [calls EXCEPT ![c] =
                 [step |-> "called", event |-> e, session |-> session, at |-> now]]
  /\ UNCHANGED <<now, acked, crashes, loopVars, workVars, seen, history, faults>>

\* The callback returned Ok: its event is acknowledged, unless the connection
\* is lost first.
Ok(c) ==
  /\ calls' = [calls EXCEPT ![c] = Idle]
  /\ \/ acked' = acked \union {calls[c].event} /\ UNCHANGED faults
     \/ UNCHANGED acked /\ Fault

\* It returned RetryEventError: handler_error answers 503, Slack sends again.
Retry(c) == calls' = [calls EXCEPT ![c] = Idle] /\ UNCHANGED acked

-----------------------------------------------------------------------------
(***************************************************************************)
(* handler_push_events and Ingress::enqueue.  Two steps: accepting is      *)
(* read before the lock of seen is taken.                                  *)
(***************************************************************************)
Entered(c) == calls[c].step = "entered" /\ UNCHANGED <<now, sent, crashes, loopVars, job, done>>

\* accepting is false, or the state could not be read without waiting.
Refuse(c) ==
  /\ calls[c].step = "called"
  /\ \/ ~(accepting /\ calls[c].session = session) /\ UNCHANGED faults
     \/ Fault
  /\ Retry(c)
  /\ UNCHANGED <<now, sent, crashes, loopVars, workVars, seen, history>>

Enter(c) ==
  /\ calls[c].step = "called"
  /\ accepting /\ calls[c].session = session
  /\ calls' = [calls EXCEPT ![c].step = "entered"]
  /\ UNCHANGED <<outside, loopVars, workVars, seen, history, faults>>

\* Under the lock: the event is a duplicate,
Duplicate(c) ==
  /\ Entered(c)
  /\ C!Live(seen, calls[c].event, now)
  /\ Ok(c)
  /\ UNCHANGED <<queue, seen, taken, lost, forgotten>>

\* Can this callback's sender still send?
ChannelOpen(c) == open /\ calls[c].session = session

\* or it is new and there is room for it,
Admit(c) ==
  LET e == calls[c].event
      visited == C!AfterGet(seen, e, now)
      entry == C!Entry(TRUE, now + DedupTTL) IN
  /\ Entered(c)
  /\ ~C!Live(seen, e, now)
  /\ ChannelOpen(c)
  /\ Len(queue) < QueueBound
  /\ queue' = Append(queue, [event |-> e, expires |-> calls[c].at + QueueAge])
  /\ \E v \in C!Victims(visited, e, Capacity) :
       /\ seen' = C!AfterInsert(visited, e, entry, v)
       /\ forgotten' = forgotten \union ({v} \ {e})
  /\ taken' = [taken EXCEPT ![e] = @ + 1]
  /\ Ok(c)
  /\ UNCHANGED lost

\* Mutant of Overflow: the event is remembered although it was not admitted
OverflowSeen(c) ==
  LET e == calls[c].event IN
  /\ Entered(c)
  /\ ~C!Live(seen, e, now)
  /\ ChannelOpen(c)
  /\ Len(queue) = QueueBound
  /\ seen' = C!AfterInsert(C!AfterGet(seen, e, now), e, C!Entry(TRUE, now + DedupTTL), e)
  /\ lost' = Lost({e}, "full")
  /\ Ok(c)
  /\ UNCHANGED <<queue, taken, forgotten>>

\* or there is none: it is discarded, acknowledged and not remembered,
Overflow(c) ==
  /\ Entered(c)
  /\ ~C!Live(seen, calls[c].event, now)
  /\ ChannelOpen(c)
  /\ Len(queue) = QueueBound
  /\ seen' = C!AfterGet(seen, calls[c].event, now)
  /\ lost' = Lost({calls[c].event}, "full")
  /\ Ok(c)
  /\ UNCHANGED <<queue, taken, forgotten>>

\* Mutant of Closed: an event for a closed queue is acknowledged
ClosedOk(c) ==
  /\ Entered(c)
  /\ ~C!Live(seen, calls[c].event, now)
  /\ ~ChannelOpen(c)
  /\ seen' = C!AfterGet(seen, calls[c].event, now)
  /\ Ok(c)
  /\ UNCHANGED <<queue, taken, lost, forgotten>>

\* or the worker is gone.
Closed(c) ==
  /\ Entered(c)
  /\ ~C!Live(seen, calls[c].event, now)
  /\ ~ChannelOpen(c)
  /\ seen' = C!AfterGet(seen, calls[c].event, now)
  /\ Retry(c)
  /\ UNCHANGED <<queue, taken, lost, forgotten, faults>>

Call(c) == Refuse(c) \/ Enter(c) \/ Duplicate(c) \/ Admit(c)
           \/ Overflow(c) \/ Closed(c)

-----------------------------------------------------------------------------
(***************************************************************************)
(* handle_messages.  Its future is polled while the session is watched and *)
(* while it is drained, not while the listeners are shut down.  Draining,  *)
(* it first closes the queue, which ends once it is empty.                 *)
(***************************************************************************)
Receiving == job = NoEvent /\ (phase = "watching" \/ (phase = "draining" /\ ~open))

Close ==
  /\ phase = "draining" /\ open /\ job = NoEvent
  /\ open' = FALSE
  /\ UNCHANGED <<outside, calls, session, phase, accepting, signal, workVars,
                 seen, history, faults>>

\* A message that waited too long is discarded.
Expire ==
  /\ Receiving /\ queue # <<>>
  /\ Head(queue).expires <= now
  /\ lost' = Lost({Head(queue).event}, "expired")
  /\ queue' = Tail(queue)
  /\ UNCHANGED <<outside, calls, loopVars, job, seen, done, taken, forgotten, faults>>

Receive ==
  /\ Receiving /\ queue # <<>>
  /\ Head(queue).expires > now
  /\ job' = Head(queue).event
  /\ queue' = Tail(queue)
  /\ UNCHANGED <<outside, calls, loopVars, seen, history, faults>>

\* handle_msg returns: its rows are inserted, or an insert failed.
Handled ==
  /\ job # NoEvent /\ phase \in {"watching", "draining"}
  /\ \/ /\ done' = [done EXCEPT ![job] = @ + 1]
        /\ UNCHANGED <<lost, faults>>
     \/ /\ Fault
        /\ lost' = Lost({job}, "failed")
        /\ UNCHANGED done
  /\ job' = NoEvent
  /\ UNCHANGED <<outside, calls, loopVars, queue, seen, taken, forgotten>>

Worker == Close \/ Expire \/ Receive \/ Handled

-----------------------------------------------------------------------------
(***************************************************************************)
(* run_socket_sessions.                                                    *)
(***************************************************************************)
NewSession ==
  /\ session < MaxSessions
  /\ session' = session + 1
  /\ phase' = "watching" /\ accepting' = TRUE /\ open' = TRUE

\* Mutant of Restart: every session starts with an empty cache
RestartAfresh ==
  /\ phase = "backoff"
  /\ NewSession
  /\ seen' = C!EmptyCache(Messages)
  /\ UNCHANGED <<outside, calls, signal, workVars, history, faults>>

\* The delay is over: a new queue, a new Ingress, the old cache.
Restart ==
  /\ phase = "backoff"
  /\ NewSession
  /\ UNCHANGED <<outside, calls, signal, workVars, seen, history, faults>>

\* The signal is noticed, or else the session has failed: admission stops, and
\* what the worker is at is suspended until the listeners are shut down.
EndSession ==
  /\ phase = "watching"
  /\ phase' = "closing" /\ accepting' = FALSE
  /\ signal' = IF signal = "arrived" THEN "noticed" ELSE signal
  /\ UNCHANGED <<outside, calls, session, open, workVars, seen, history, faults>>

\* The listeners are shut down, or SHUTDOWN_TIMEOUT passed for each.
ListenersClosed ==
  /\ phase = "closing"
  /\ phase' = "draining"
  /\ UNCHANGED <<outside, calls, session, accepting, open, signal, workVars, seen,
                 history, faults>>

AfterDrain ==
  /\ phase = "draining"
  /\ phase' = IF signal = "noticed" THEN "stopped" ELSE "backoff"
  /\ open' = FALSE
  /\ queue' = <<>> /\ job' = NoEvent
  /\ UNCHANGED <<outside, calls, session, accepting, signal, seen, taken, forgotten, faults>>

\* The worker has received everything.
Drained == AfterDrain /\ ~open /\ job = NoEvent /\ queue = <<>> /\ UNCHANGED <<done, lost>>

\* DRAIN_TIMEOUT: the worker is dropped, with its message, whose rows may or
\* may not have been inserted, and with the queue.
DrainTimeout ==
  /\ AfterDrain
  /\ \/ /\ job # NoEvent
        /\ done' = [done EXCEPT ![job] = @ + 1]
        /\ lost' = Lost(InQueue, "discarded")
     \/ /\ lost' = Lost(Held, "discarded")
        /\ UNCHANGED done

\* The signal is noticed between two sessions.
Stop ==
  /\ phase = "backoff" /\ signal = "arrived"
  /\ phase' = "stopped" /\ signal' = "noticed"
  /\ UNCHANGED <<outside, calls, session, accepting, open, workVars, seen, history, faults>>

Loop == Restart \/ EndSession \/ ListenersClosed \/ Drained \/ DrainTimeout \/ Stop

-----------------------------------------------------------------------------
(***************************************************************************)
(* The process and the clock.                                              *)
(***************************************************************************)
Signal ==
  /\ phase \notin {"stopped", "down"}
  /\ signal = "none"
  /\ signal' = "arrived"
  /\ UNCHANGED <<outside, calls, session, phase, accepting, open, workVars, seen, history,
                 faults>>

\* The process dies.  Everything but the rows is lost with it.
Crash ==
  /\ crashes < MaxCrashes
  /\ crashes' = crashes + 1
  /\ phase \notin {"stopped", "down"}
  /\ phase' = "down" /\ accepting' = FALSE /\ open' = FALSE /\ signal' = "none"
  /\ queue' = <<>> /\ job' = NoEvent
  /\ lost' = Lost(Held, "crash")
  /\ calls' = [c \in Calls |-> Idle]
  /\ seen' = C!EmptyCache(Messages)
  /\ forgotten' = forgotten \union C!Cached(seen)
  /\ UNCHANGED <<now, slackVars, session, done, taken, faults>>

Boot ==
  /\ phase = "down"
  /\ NewSession
  /\ UNCHANGED <<outside, calls, signal, workVars, seen, history, faults>>

\* A callback does no network work: it is over within a tick.
Tick ==
  /\ now < MaxTime
  /\ \A c \in Calls : calls[c] # Idle => calls[c].at = now
  /\ now' = now + 1
  /\ UNCHANGED <<slackVars, crashes, calls, loopVars, workVars, seen, history, faults>>

Next ==
  \/ Worker \/ Loop \/ Signal \/ Crash \/ Boot \/ Tick
  \/ \E c \in Calls : Call(c) \/ \E e \in Messages : Deliver(c, e)

Spec == Init /\ [][Next]_vars

-----------------------------------------------------------------------------
(***************************************************************************)
(* Properties.                                                             *)
(***************************************************************************)

\* An event is admitted once, whatever Slack sends again and however its
\* callbacks and the sessions overlap, unless its entry was evicted from the
\* cache or the process died.
AdmittedOnce == \A m \in Messages : taken[m] <= 1 \/ m \in forgotten

\* An event is acknowledged only if its message is in the worker's hands, was
\* handled, or was discarded for a documented reason.
AckedIsKept ==
  \A m \in acked \intersect Messages : m \in Held \/ done[m] > 0 \/ lost[m] # {}

\* README: "Event IDs are remembered only after successful admission".  What
\* was discarded for want of room is taken when it is sent again.
RememberedWasTaken == \A m \in Messages : seen[m] # NoEntry => taken[m] > 0

\* The backend keeps the promises of Intake.
Fate(m) == IF m \in Held THEN "held"
           ELSE IF done[m] > 0 THEN "handled"
           ELSE IF taken[m] > 0 THEN "lost"
           ELSE IF lost[m] # {} THEN "refused" ELSE "unknown"
Promise == INSTANCE Intake WITH
  Events <- Messages,
  fate <- [m \in Messages |-> Fate(m)],
  told <- acked \intersect Messages
KeepsPromise == Promise!ISpec

-----------------------------------------------------------------------------
(***************************************************************************)
(* The inductive invariant behind AdmittedOnce, AckedIsKept and            *)
(* KeepsPromise.                                                           *)
(***************************************************************************)

\* A callback that runs was called for an event Slack still resends.
CallsInTime ==
  /\ \A e \in Messages : sent[e] <= now
  /\ \A c \in Calls : calls[c].step # "idle" =>
       /\ calls[c].event \in Messages
       /\ sent[calls[c].event] # 0
       /\ calls[c].at <= sent[calls[c].event] + RetrySpan
       /\ now <= calls[c].at + 1 /\ calls[c].at <= now

\* What was taken is remembered for as long as Slack may send it again.
Remembered ==
  \A m \in Messages :
    /\ (seen[m] # NoEntry => taken[m] > 0)
    /\ (taken[m] > 0 => sent[m] # 0)
    /\ (taken[m] > 0 /\ m \notin forgotten =>
          seen[m] # NoEntry /\ seen[m].expires >= sent[m] + DedupTTL)

\* What is held or done was taken, and what was taken has a fate.
Accounted ==
  \A m \in Messages :
    /\ (m \in Held \/ done[m] > 0 => taken[m] > 0)
    /\ (taken[m] > 0 => m \in Held \/ done[m] > 0 \/ lost[m] # {})

\* Nothing is in two places, unless it was forgotten in between.
OnePlace ==
  /\ \A i, j \in 1..Len(queue) :
       queue[i].event = queue[j].event => i = j \/ queue[i].event \in forgotten
  /\ job \in InQueue => job \in forgotten
  /\ \A m \in Held : done[m] = 0 \/ m \in forgotten

\* Only a session that is not over yet has work, and an open queue.
SessionOwns ==
  /\ (accepting => phase = "watching" /\ open)
  /\ (open \/ queue # <<>> \/ job # NoEvent => Connected)
  /\ \A c \in Calls : calls[c].session <= session

Inv == /\ TypeOK /\ CallsInTime /\ Remembered /\ Accounted /\ OnePlace /\ SessionOwns
       /\ AdmittedOnce /\ AckedIsKept
=============================================================================
