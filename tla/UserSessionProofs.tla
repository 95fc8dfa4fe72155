------------------------- MODULE UserSessionProofs -------------------------
(***************************************************************************)
(* Proof that UserSession!Coverage and SuppressedIsHandled are invariants, *)
(* for every value of the constants: a checkpoint, in memory or on disk,   *)
(* never passes a message that is neither harvested nor given up, and only *)
(* harvested messages are suppressed.                                      *)
(*                                                                         *)
(* The first part says how a step can move the pieces of the state the     *)
(* invariant relates.  The second has one lemma per conjunct of the        *)
(* invariant, each with one step per action or group of actions that can   *)
(* disturb it.                                                             *)
(***************************************************************************)
EXTENDS UserSessionTypes

USE ChanOfAssumption, OverlapAssumption, WindowAssumption, RootAssumption,
    NoneAssumption, LagAssumption, QueueAssumption, BoundAssumption
USE DEF SlackType, ConnType, TaskType, StateType, HistoryType

-----------------------------------------------------------------------------
(***************************************************************************)
(* How a step moves what the invariant is about.                           *)
(***************************************************************************)

\* Time passes only in Tick.
LEMMA ClockMoves ==
  ASSUME TypeOK, Next
  PROVE  /\ clock' \in Nat /\ clock <= clock'
         /\ clock' # clock => Tick
<1>1. Tick \/ UNCHANGED clock
  <2>1. Slack => Tick \/ UNCHANGED clock
    BY DEF Slack, Tick, Post, Move
  <2>2. Main \/ Abort \/ Read \/ Beat \/ Admit \/ Worker => UNCHANGED clock
    BY DEF Main, Start, Dial, Hello, Begin, BeginSave, CloseSave, Exit, Abort,
           Disconnect, Shutdown, Crash, Read, Deliver, DeliverMembership,
           Overrun, Beat, Ping, Pong, Admit, Worker, WorkerInsert, slack
  <2>3. Consumer \/ Recovery \/ Mishap => UNCHANGED clock
    BY DEF Consumer, ConsumeCheckpoint, ConsumerSave, ConsumeMembership,
           AdoptChannel, SkipStranger, LiveDuplicate, LiveSubmit, LiveDone,
           LiveFail, Recovery, RecoverPass, RecoverSkip, RecoverStart,
           FetchHistory, RecoverDuplicate, RecoverSubmit, RecoverDone,
           RecoverFail, RecoverThreads, FetchReplies, RecoverFinish,
           RecoverSave, Mishap, ThreadGone, RecoverError, Timeout, WorkerFail,
           slack
  <2> QED
    BY <2>1, <2>2, <2>3 DEF Next
<1> QED
  BY <1>1 DEF Tick, TypeOK

\* The steps that post, harvest or give up messages
LEMMA OpenMoves ==
  ASSUME Next
  PROVE  \/ UNCHANGED <<ts, excuse, handled>>
         \/ \E m \in Msgs : Post(m)
         \/ Hello \/ Begin \/ WorkerInsert \/ ConsumeMembership \/ AdoptChannel
         \/ SkipStranger \/ RecoverThreads \/ ThreadGone
<1> USE DEF slack, history
<1>1. Slack => UNCHANGED <<ts, excuse, handled>> \/ \E m \in Msgs : Post(m)
  BY DEF Slack, Tick, Move
<1>2. Main => UNCHANGED <<ts, excuse, handled>> \/ Hello \/ Begin
  BY DEF Main, Start, Dial, BeginSave, CloseSave, Exit
<1>3. Abort \/ Read \/ Beat \/ Admit => UNCHANGED <<ts, excuse, handled>>
  BY DEF Abort, Disconnect, Shutdown, Crash, Read, Deliver, DeliverMembership,
         Overrun, Beat, Ping, Pong, Admit
<1>4. Consumer => \/ UNCHANGED <<ts, excuse, handled>>
                  \/ ConsumeMembership \/ AdoptChannel \/ SkipStranger
  BY DEF Consumer, ConsumeCheckpoint, ConsumerSave, LiveDuplicate, LiveSubmit,
         LiveDone, LiveFail
<1>5. Recovery => UNCHANGED <<ts, excuse, handled>> \/ RecoverThreads
  BY DEF Recovery, RecoverPass, RecoverSkip, RecoverStart, FetchHistory,
         RecoverDuplicate, RecoverSubmit, RecoverDone, RecoverFail,
         FetchReplies, RecoverFinish, RecoverSave
<1>6. Mishap => UNCHANGED <<ts, excuse, handled>> \/ ThreadGone
  BY DEF Mishap, RecoverError, Timeout, WorkerFail
<1> QED
  BY <1>1, <1>2, <1>3, <1>4, <1>5, <1>6 DEF Next, Worker

\* A message that is open after a step was open before, or was just posted.
LEMMA OpenKept ==
  ASSUME TypeOK, Next, NEW m \in Msgs, Open(m)'
  PROVE  \/ Open(m) /\ ts'[m] = ts[m]
         \/ Post(m) /\ ~Posted(m) /\ ts'[m] = clock /\ ChanOf[m] \in joined
<1> USE DEF Open, Posted, Settled
<1>1. CASE UNCHANGED <<ts, excuse, handled>>
  BY <1>1
<1>2. ASSUME NEW n \in Msgs, Post(n)
      PROVE  \/ Open(m) /\ ts'[m] = ts[m]
             \/ Post(m) /\ ~Posted(m) /\ ts'[m] = clock /\ ChanOf[m] \in joined
  <2>1. CASE n = m
    BY <1>2, <2>1 DEF Post, TypeOK
  <2>2. CASE n # m
    BY <1>2, <2>2 DEF Post, TypeOK
  <2> QED
    BY <2>1, <2>2
<1>3. CASE WorkerInsert
  BY <1>3 DEF WorkerInsert, slack
<1>4. ASSUME NEW M, NEW why \in Excuses \ {"none"}, Excuse(M, why),
             UNCHANGED <<ts, handled>>
      PROVE  Open(m) /\ ts'[m] = ts[m]
  BY <1>4 DEF Excuse, TypeOK
<1>5. CASE Hello \/ SkipStranger \/ RecoverThreads
  BY <1>4, <1>5 DEF Hello, SkipStranger, RecoverThreads, slack, Excuses
<1>6. CASE ConsumeMembership \/ AdoptChannel
  BY <1>4, <1>6 DEF ConsumeMembership, AdoptChannel, Register, slack, Excuses
<1>7. CASE ThreadGone
  BY <1>4, <1>7 DEF ThreadGone, Excuses
<1>8. CASE Begin
  BY <1>8 DEF Begin, slack, TypeOK
<1> QED
  BY <1>1, <1>2, <1>3, <1>5, <1>6, <1>7, <1>8, OpenMoves

\* What a step puts into the event queue and takes out of it
LEMMA EventMoves ==
  ASSUME TypeOK, Lock, Next
  PROVE  \/ events' = <<>> /\ wire' = {} /\ ~Subscribed'
         \/ /\ events # <<>> /\ events' = Tail(events) /\ wire' = wire
            /\ \/ ConsumerSave \/ ConsumeMembership \/ SkipStranger
               \/ LiveDuplicate \/ LiveDone
         \/ DeliverMembership \/ Pong \/ \E m \in Msgs : Deliver(m)
         \/ \E m \in Msgs : Post(m)
         \/ UNCHANGED <<events, wire>>
<1>1. TearDown => events' = <<>> /\ wire' = {} /\ ~Subscribed'
  BY TearDownFacts DEF Subscribed
<1>2. Slack => UNCHANGED <<events, wire>> \/ \E m \in Msgs : Post(m)
  BY DEF Slack, Tick, Move, conn
<1>3. Main \/ Ping \/ Admit \/ Worker => UNCHANGED <<events, wire>>
  BY DEF Main, Start, Dial, Hello, Begin, BeginSave, CloseSave, Exit, Ping,
         Admit, Worker, WorkerInsert, slack, conn
<1>4. ConsumerSave \/ ConsumeMembership \/ SkipStranger \/ LiveDuplicate
      \/ LiveDone
        => events # <<>> /\ events' = Tail(events) /\ wire' = wire
  BY DEF ConsumerSave, ConsumeMembership, SkipStranger, LiveDuplicate,
         LiveDone, Consuming, Lock, slack
<1>5. ConsumeCheckpoint \/ AdoptChannel \/ LiveSubmit \/ Recovery
        => UNCHANGED <<events, wire>>
  BY DEF ConsumeCheckpoint, AdoptChannel, LiveSubmit, Recovery, RecoverPass,
         RecoverSkip, RecoverStart, FetchHistory, RecoverDuplicate,
         RecoverSubmit, RecoverDone, RecoverFail, RecoverThreads,
         FetchReplies, RecoverFinish, RecoverSave, slack, conn
<1>6. Mishap => UNCHANGED <<events, wire>>
  BY DEF Mishap, ThreadGone, RecoverError, Timeout, WorkerFail, conn
<1> QED
  BY <1>1, <1>2, <1>3, <1>4, <1>5, <1>6
  DEF Next, Abort, Read, Beat, Consumer, TearDown

\* How the checkpoints move: the five operations of Store that touch them, a
\* save, a crash.
LEMMA StoreMoves ==
  ASSUME TypeOK, Next
  PROVE  \/ /\ store'.tracked = store.tracked /\ store'.covered = store.covered
            /\ disk' = disk \/ disk' = store'
         \/ Crash /\ store' = disk /\ disk' = disk
         \/ /\ Begin \/ ConsumeCheckpoint \/ ConsumeMembership \/ AdoptChannel
               \/ RecoverFinish
            /\ disk' = disk
<1> DEFINE Same == /\ store'.tracked = store.tracked
                   /\ store'.covered = store.covered
                   /\ disk' = disk \/ disk' = store'
             Lost == Crash /\ store' = disk /\ disk' = disk
             Op   == Begin \/ ConsumeCheckpoint \/ ConsumeMembership
                       \/ AdoptChannel \/ RecoverFinish
<1>1. TearDown => Same \/ Lost
  BY TearDownFacts, TearDownStore
<1>2. Slack \/ Beat \/ Admit \/ Worker => Same
  BY DEF Slack, Tick, Post, Move, Beat, Ping, Pong, Admit, Worker,
         WorkerInsert, state
<1>3. Main => (Begin /\ disk' = disk) \/ Same
  BY DEF Main, Start, Dial, Hello, Begin, BeginSave, CloseSave, Exit, state
<1>4. (\E m \in Msgs : Deliver(m)) \/ DeliverMembership => Same
  BY DEF Deliver, DeliverMembership, state
<1>5. ConsumerSave \/ SkipStranger => Same
  BY DEF ConsumerSave, SkipStranger, state
<1>6. ConsumeCheckpoint \/ ConsumeMembership \/ AdoptChannel \/ RecoverFinish
        => disk' = disk
  BY DEF ConsumeCheckpoint, ConsumeMembership, AdoptChannel, RecoverFinish
<1>7. LiveSubmit \/ LiveDuplicate \/ RecoverSubmit \/ RecoverDuplicate => Same
  <2>1. ASSUME LiveSubmit \/ LiveDuplicate \/ RecoverSubmit \/ RecoverDuplicate
        PROVE  \E m \in Msgs, roots \in SUBSET Msgs : store' \in Remembered(m, roots)
    BY <2>1, ProcessFacts
  <2> QED
    BY <2>1, RememberedFacts
    DEF SameProgress, LiveSubmit, LiveDuplicate, RecoverSubmit,
        RecoverDuplicate
<1>8. ASSUME LiveDone \/ RecoverDone
      PROVE  Same
  <2>1. job.m \in Msgs /\ job.roots \in SUBSET Msgs
    BY <1>8 DEF TypeOK, LiveDone, RecoverDone, Jobs, NoJob
  <2>2. store' \in Processed(store, job.m, job.roots, clock) /\ disk' = disk
    BY <1>8 DEF LiveDone, RecoverDone
  <2>3. store'.tracked = store.tracked /\ store'.covered = store.covered
    <3>1. store \in Snapshots /\ clock \in Nat
      BY DEF TypeOK
    <3> QED
      BY <2>1, <2>2, <3>1, ProcessedCheckpoints
  <2> QED
    BY <2>2, <2>3
<1>9. RecoverPass \/ RecoverSkip \/ RecoverStart \/ FetchHistory
      \/ RecoverFail \/ RecoverThreads \/ FetchReplies \/ RecoverSave => Same
  BY DEF RecoverPass, RecoverSkip, RecoverStart, FetchHistory, RecoverFail,
         RecoverThreads, FetchReplies, RecoverSave, state
<1>10. Mishap => Same
  <2>1. ThreadGone => Same
    BY DEF ThreadGone, ForgetThread, TypeOK, Snapshots
  <2> QED
    BY <2>1 DEF Mishap, RecoverError, Timeout, WorkerFail, state
<1> HIDE DEF Same, Lost
<1>11. Same \/ Lost \/ (Op /\ disk' = disk)
  BY <1>1, <1>2, <1>3, <1>4, <1>5, <1>6, <1>7, <1>8, <1>9, <1>10
  DEF Next, Abort, Read, Consumer, Recovery, TearDown
<1> QED
  BY <1>11 DEF Same, Lost

\* A frame joins the end of the event queue.
LEMMA AppendFacts ==
  ASSUME TypeOK, NEW e \in Events, events' = Append(events, e)
  PROVE  /\ Len(events') = Len(events) + 1
         /\ events'[Len(events) + 1] = e
         /\ \A i \in 1..Len(events) : events'[i] = events[i]
  BY DEF TypeOK

\* Appending an event to the queue
LEMMA QueuedAppend ==
  ASSUME TypeOK, NEW e \in Events, events' = Append(events, e), NEW m \in Msgs
  PROVE  Queued(m)' <=> Queued(m) \/ e = MessageEvent(m)
<1> USE DEF Queued
<1>0. Len(events) \in Nat
  BY DEF TypeOK
<1>1. ASSUME NEW i \in 1..Len(events), events[i] = MessageEvent(m)
      PROVE  Queued(m)'
  <2>1. i \in 1..Len(events') /\ events'[i] = MessageEvent(m)
    BY <1>0, <1>1, AppendFacts
  <2> QED
    BY <2>1
<1>2. e = MessageEvent(m) => Queued(m)'
  <2>1. Len(events) + 1 \in 1..Len(events')
    BY <1>0, AppendFacts
  <2> QED
    BY <2>1, AppendFacts
<1>3. ASSUME NEW i \in 1..Len(events'), events'[i] = MessageEvent(m)
      PROVE  Queued(m) \/ e = MessageEvent(m)
  <2>1. i \in 1..Len(events) \/ i = Len(events) + 1
    BY <1>0, AppendFacts
  <2> QED
    BY <1>3, <2>1, AppendFacts
<1> QED
  BY <1>1, <1>2, <1>3

\* Taking the head event off the queue
LEMMA QueuedTail ==
  ASSUME TypeOK, events # <<>>, events' = Tail(events), NEW m \in Msgs
  PROVE  /\ Queued(m)' => Queued(m)
         /\ Queued(m) => Queued(m)' \/ Head(events) = MessageEvent(m)
<1> USE DEF Queued
<1>0. Len(events) \in Nat /\ Len(events') = Len(events) - 1 /\ Head(events) = events[1]
  BY TailOfEvents DEF TypeOK
<1>1. \A i \in 1..Len(events') : i + 1 \in 1..Len(events) /\ events'[i] = events[i + 1]
  BY <1>0, TailOfEvents DEF TypeOK
<1>2. ASSUME NEW i \in 1..Len(events), events[i] = MessageEvent(m), i # 1
      PROVE  Queued(m)'
  <2>1. i - 1 \in 1..Len(events')
    BY <1>0, <1>2
  <2>2. events'[i - 1] = events[(i - 1) + 1]
    BY <1>1, <2>1
  <2>3. (i - 1) + 1 = i
    OBVIOUS
  <2>4. events'[i - 1] = MessageEvent(m)
    BY <1>2, <2>2, <2>3
  <2> QED
    BY <2>1, <2>4
<1> QED
  BY <1>0, <1>1, <1>2

\* A message leaves the event queue only when it is settled: it was harvested
\* before, or its channel was left.
LEMMA ConsumedIsSettled ==
  ASSUME TypeOK, Lock, Receipt, SuppressedIsHandled, NEW m \in Msgs,
         events # <<>>, Head(events) = MessageEvent(m),
         ConsumerSave \/ ConsumeMembership \/ SkipStranger \/ LiveDuplicate
           \/ LiveDone
  PROVE  ~Open(m)'
<1> USE DEF Open, Settled, Posted, MessageEvent
<1>1. ~(ConsumerSave \/ ConsumeMembership)
  BY DEF ConsumerSave, ConsumeMembership, Consuming, Lock
<1>2. CASE SkipStranger
  BY <1>2 DEF SkipStranger, Excuse, slack, TypeOK
<1>3. CASE LiveDuplicate
  <2>1. \E roots \in SUBSET Msgs : store' \in Remembered(m, roots)
    BY <1>3 DEF LiveDuplicate, LiveRoots
  <2>2. Seen(store', m) => Seen(store, m)
    BY <2>1, RememberedFacts DEF SameProgress
  <2>3. m \in handled /\ handled' = handled
    BY <1>3, <2>2 DEF LiveDuplicate, SuppressedIsHandled, history
  <2> QED
    BY <2>3
<1>4. CASE LiveDone
  BY <1>4 DEF LiveDone, Lock, Receipt, history
<1> QED
  BY <1>1, <1>2, <1>3, <1>4

\* The live path of a message: nothing but a post puts a message on it, and
\* while the connection lasts an open message does not leave it.
LEMMA LiveMoves ==
  ASSUME TypeOK, Idle, Lock, Receipt, SuppressedIsHandled, Next, NEW m \in Msgs
  PROVE  /\ Live(m)' => Live(m) \/ (Post(m) /\ Subscribed)
         /\ Subscribed' /\ Open(m)' /\ (Live(m) \/ Post(m)) => Live(m)'
<1> USE DEF Live, Queued
<1>1. CASE events' = <<>> /\ wire' = {} /\ ~Subscribed'
  BY <1>1
<1>2. CASE UNCHANGED <<events, wire>> /\ ~Post(m)
  BY <1>2
<1>3. ASSUME NEW n \in Msgs, Post(n)
      PROVE  /\ Live(m)' => Live(m) \/ (Post(m) /\ Subscribed)
             /\ Subscribed' /\ Open(m)' /\ (Live(m) \/ Post(m)) => Live(m)'
  <2>1. /\ UNCHANGED events
        /\ wire' = IF Subscribed /\ ChanOf[n] \in joined THEN wire \union {n} ELSE wire
    BY <1>3 DEF Post, conn
  <2>2. Subscribed' <=> Subscribed
    BY <1>3 DEF Post, conn, Subscribed
  <2>3. Open(m)' /\ Post(m) => ChanOf[m] \in joined
    BY DEF Post, Open, Settled, TypeOK
  <2>4. Post(m) => m = n
    BY <1>3 DEF Post, Posted, TypeOK
  <2>5. m = n => Post(m)
    BY <1>3
  <2> QED
    BY <2>1, <2>2, <2>3, <2>4, <2>5
<1>4. ASSUME NEW n \in Msgs, Deliver(n)
      PROVE  (Live(m)' <=> Live(m)) /\ ~Post(m)
  <2>1. n \in wire /\ wire' = wire \ {n} /\ events' = Append(events, MessageEvent(n))
    BY <1>4 DEF Deliver, Enqueue
  <2>2. MessageEvent(n) \in Events
    BY DEF MessageEvent, Events
  <2>3. Queued(m)' <=> Queued(m) \/ m = n
    <3>1. MessageEvent(m) = MessageEvent(n) <=> m = n
      BY DEF MessageEvent
    <3> QED
      BY <2>1, <2>2, <3>1, QueuedAppend
  <2>4. ~Post(m)
    BY <1>4 DEF Deliver, Post, Posted, TypeOK
  <2> QED
    BY <2>1, <2>3, <2>4
<1>5. CASE DeliverMembership \/ Pong
  <2>1. PICK e \in Events : events' = Append(events, e) /\ e.kind # "message"
    BY <1>5
    DEF DeliverMembership, Pong, Enqueue, Membership, Barrier, Events, TypeOK
  <2>2. Queued(m)' <=> Queued(m)
    <3>1. MessageEvent(m) # e
      BY <2>1 DEF MessageEvent
    <3> QED
      BY <2>1, <3>1, QueuedAppend
  <2>3. wire' = wire /\ ~Post(m)
    BY <1>5 DEF DeliverMembership, Pong, Post, Posted, slack, TypeOK
  <2> QED
    BY <2>2, <2>3
<1>6. CASE /\ events # <<>> /\ events' = Tail(events) /\ wire' = wire
           /\ \/ ConsumerSave \/ ConsumeMembership \/ SkipStranger
              \/ LiveDuplicate \/ LiveDone
  <2>1. Queued(m)' => Queued(m)
    BY <1>6, QueuedTail
  <2>2. Queued(m) => Queued(m)' \/ Head(events) = MessageEvent(m)
    BY <1>6, QueuedTail
  <2>3. Head(events) = MessageEvent(m) => ~Open(m)'
    BY <1>6, ConsumedIsSettled
  <2>4. ~Post(m)
    BY <1>6
    DEF ConsumerSave, ConsumeMembership, SkipStranger, LiveDuplicate,
        LiveDone, Post, conn
  <2> QED
    BY <1>6, <2>1, <2>2, <2>3, <2>4
<1> QED
  BY <1>1, <1>2, <1>3, <1>4, <1>5, <1>6, EventMoves

\* While a connection lasts, no further message is missed.
LEMMA MissedShrinks ==
  ASSUME TypeOK, Idle, Lock, Receipt, SuppressedIsHandled, Next, NEW m \in Msgs,
         Subscribed', Missed(m)'
  PROVE  Missed(m) /\ ts'[m] = ts[m]
  BY OpenKept, LiveMoves DEF Missed

\* The barrier at the head of the event queue
LEMMA BarrierAtHead ==
  ASSUME TypeOK, Barriers, events # <<>>, Head(events).kind = "checkpoint"
  PROVE  /\ Head(events).at \in Nat /\ Head(events).at <= clock
         /\ \A m \in Msgs : Live(m) => Head(events).at <= ts[m] + Lag
<1>1. Len(events) \in Nat /\ 1 \in 1..Len(events) /\ Head(events) = events[1]
  BY DEF TypeOK
<1>2. Head(events).at \in Nat
  <2>1. Head(events) \in Events
    BY DEF TypeOK
  <2> QED
    BY <2>1 DEF Events
<1>3. ASSUME NEW m \in Msgs, Queued(m)
      PROVE  Head(events).at <= ts[m] + Lag
  <2>1. PICK j \in 1..Len(events) : events[j] = MessageEvent(m)
    BY <1>3 DEF Queued
  <2>2. 1 < j
    BY <1>1, <2>1 DEF MessageEvent
  <2> QED
    BY <1>1, <2>1, <2>2 DEF Barriers
<1> QED
  BY <1>1, <1>2, <1>3 DEF Barriers, Live

\* begin_connection: the checkpoints of known channels are clipped, those of new
\* ones start at the connection.
LEMMA BeginMoves ==
  ASSUME TypeOK, Begin, NEW c \in Channels
  PROVE  /\ store'.tracked = joined
         /\ c \notin joined => store'.covered[c] = 0
         /\ c \in joined \ store.tracked => store'.covered[c] = began
         /\ c \in joined /\ c \in store.tracked =>
              store'.covered[c] = Later(store.covered[c], began - Window)
<1>1. store' \in BeginConnection(store, joined, began)
  BY DEF Begin
<1>2. store \in Snapshots /\ joined \in SUBSET Channels /\ began \in Nat
  BY DEF TypeOK
<1> QED
  BY <1>1, <1>2, BeginConnectionFacts, BeginConnectionCovered

\* checkpoint moves a checkpoint to the barrier, and not if its channel is
\* recovering.
LEMMA CheckpointMoves ==
  ASSUME TypeOK, ConsumeCheckpoint, NEW c \in Channels
  PROVE  /\ store'.tracked = store.tracked
         /\ \/ store'.covered[c] = store.covered[c]
            \/ /\ c \notin recovering
               /\ store'.covered[c] = Later(store.covered[c], Head(events).at)
<1>1. Head(events).at \in Nat
  <2>1. Head(events) \in Events
    BY DEF ConsumeCheckpoint, Consuming, TypeOK
  <2> QED
    BY <2>1 DEF Events
<1>2. ASSUME NEW at \in Nat, NEW t \in Checkpoint(store, recovering, failed, at, clock)
      PROVE  /\ t.tracked = store.tracked
             /\ \/ t.covered[c] = store.covered[c]
                \/ c \notin recovering /\ t.covered[c] = Later(store.covered[c], at)
  <2>1. /\ store \in Snapshots /\ recovering \in SUBSET Channels
        /\ failed \in SUBSET Channels /\ clock \in Nat
    BY DEF TypeOK
  <2> QED
    BY <1>2, <2>1, CheckpointFacts, CheckpointCovered
<1>3. store' \in Checkpoint(store, recovering, failed, Head(events).at, clock)
  BY DEF ConsumeCheckpoint
<1> QED
  BY <1>1, <1>2, <1>3

\* add_channel gives a checkpoint to new channels and touches no other.
LEMMA RegisterMoves ==
  ASSUME TypeOK, ConsumeMembership \/ AdoptChannel, NEW c \in Channels
  PROVE  \E cs \in SUBSET Channels :
           /\ Register(cs)
           /\ store'.tracked = store.tracked \union cs
           /\ c \in cs \ store.tracked => store'.covered[c] = clock
           /\ c \notin cs \ store.tracked => store'.covered[c] = store.covered[c]
<1>1. PICK cs \in SUBSET Channels : Register(cs)
  BY DEF ConsumeMembership, AdoptChannel, TypeOK
<1>2. store \in Snapshots /\ clock \in Nat
  BY DEF TypeOK
<1>3. store' = AddChannels(store, cs, clock)
  BY <1>1 DEF Register
<1>4. /\ AddChannels(store, cs, clock).tracked = store.tracked \union cs
      /\ c \in cs \ store.tracked => AddChannels(store, cs, clock).covered[c] = clock
      /\ c \notin cs \ store.tracked =>
           AddChannels(store, cs, clock).covered[c] = store.covered[c]
  BY <1>2, AddChannelsFacts, AddChannelsCovered
<1> QED
  BY <1>1, <1>3, <1>4

\* finish_recovery moves at most the checkpoint of the channel recovered.
LEMMA FinishMoves ==
  ASSUME TypeOK, RecoverFinish, NEW c \in Channels
  PROVE  /\ store'.tracked = store.tracked
         /\ \/ store'.covered[c] = store.covered[c]
            \/ /\ c = rec.ch /\ c \notin failed
               /\ store'.covered[c] = Later(store.covered[c], began)
<1>1. store' = FinishRecovery(store, rec.ch, failed, began)
  BY DEF RecoverFinish
<1>2. CASE rec.ch \in Channels
  <2>1. store \in Snapshots /\ failed \in SUBSET Channels /\ began \in Nat
    BY DEF TypeOK
  <2>2. FinishRecovery(store, rec.ch, failed, began).tracked = store.tracked
    BY <1>2, <2>1, FinishRecoveryType
  <2>3. LET t == FinishRecovery(store, rec.ch, failed, began)
        IN  \/ t.covered[c] = store.covered[c]
            \/ /\ c = rec.ch /\ c \notin failed
               /\ t.covered[c] = Later(store.covered[c], began)
    BY <1>2, <2>1, FinishRecoveryCheckpoints
  <2> QED
    BY <1>1, <2>2, <2>3
<1>3. CASE rec.ch \notin Channels
  BY <1>1, <1>3 DEF FinishRecovery, TypeOK, Snapshots
<1> QED
  BY <1>2, <1>3

\* The boundary of a connection is set when it is dialled and lasts as long as it.
LEMMA BeganMoves ==
  ASSUME Next
  PROVE  /\ Dial \/ began' \in {0, began}
         /\ began' \in {0, began, clock} /\ ping' \in {0, ping, clock}
         /\ pending' \in {0, pending, clock}
<1>1. TearDown => began' = 0 /\ ping' = 0 /\ pending' = 0
  BY TearDownFacts
<1>2. Slack \/ Consumer \/ Recovery \/ Mishap \/ Admit \/ Worker
        => TearDown \/ UNCHANGED <<began, ping, pending>>
  BY DEF Slack, Tick, Post, Move, Consumer, ConsumeCheckpoint,
         ConsumerSave, ConsumeMembership, AdoptChannel, SkipStranger,
         LiveDuplicate, LiveSubmit, LiveDone, Recovery, RecoverPass,
         RecoverSkip, RecoverStart, FetchHistory, RecoverDuplicate,
         RecoverSubmit, RecoverDone, RecoverFail, RecoverThreads,
         FetchReplies, RecoverFinish, RecoverSave, Mishap, ThreadGone,
         RecoverError, Timeout, WorkerFail, Admit, Worker, WorkerInsert,
         TearDown, conn
<1>3. Main => /\ (Dial /\ began' = clock) \/ began' = began
              /\ UNCHANGED <<ping, pending>>
  BY DEF Main, Start, Dial, Hello, Begin, BeginSave, CloseSave, Exit
<1>4. (\E m \in Msgs : Deliver(m)) \/ DeliverMembership \/ Beat
        => /\ began' = began /\ ping' \in {ping, clock}
           /\ pending' \in {0, pending, clock}
  BY DEF Deliver, DeliverMembership, Beat, Ping, Pong
<1> QED
  BY <1>1, <1>2, <1>3, <1>4 DEF Next, Abort, Read, TearDown

-----------------------------------------------------------------------------
(***************************************************************************)
(* The steps keep the parts of the invariant.                              *)
(***************************************************************************)

\* Nothing lies in the future.
LEMMA PastStep ==
  ASSUME TypeOK, Lock, Past, Barriers, Next
  PROVE  Past'
<1>0. clock' \in Nat /\ clock <= clock'
  BY ClockMoves
<1>1. \A m \in Msgs : ts'[m] <= clock'
  <2>1. (\E m \in Msgs : Post(m)) => \A m \in Msgs : ts'[m] <= clock
    BY DEF Post, Past, TypeOK
  <2>2. UNCHANGED ts => \A m \in Msgs : ts'[m] <= clock
    BY DEF Past
  <2>3. (\E m \in Msgs : Post(m)) \/ UNCHANGED ts
    BY OpenMoves
    DEF Hello, Begin, WorkerInsert, ConsumeMembership, AdoptChannel,
        SkipStranger, RecoverThreads, ThreadGone, slack
  <2>4. \A m \in Msgs : ts'[m] <= clock
    BY <2>1, <2>2, <2>3
  <2>5. \A m \in Msgs : ts'[m] \in Nat
    BY TypeStep DEF TypeOK
  <2> QED
    BY <1>0, <2>4, <2>5 DEF TypeOK
<1>2. began' <= clock' /\ ping' <= clock' /\ pending' <= clock'
  <2>1. /\ began' \in {0, began, clock} /\ ping' \in {0, ping, clock}
        /\ pending' \in {0, pending, clock}
    BY BeganMoves DEF Dial
  <2> QED
    BY <1>0, <2>1 DEF Past, TypeOK
<1>3. \A c \in Channels : store'.covered[c] <= clock /\ disk'.covered[c] <= clock
  <2>1. CASE \/ /\ store'.tracked = store.tracked /\ store'.covered = store.covered
                /\ disk' = disk \/ disk' = store'
             \/ Crash /\ store' = disk /\ disk' = disk
    BY <2>1 DEF Past
  <2>2. CASE Begin
    <3>1. \A c \in Channels :
            store'.covered[c] \in {0, began, store.covered[c], began - Window}
      BY <2>2, BeginMoves DEF Later
    <3>2. began - Window <= clock /\ 0 <= clock
      BY DEF Past, TypeOK
    <3>3. disk' = disk
      BY <2>2 DEF Begin
    <3> QED
      BY <3>1, <3>2, <3>3 DEF Past
  <2>3. CASE ConsumeCheckpoint
    <3>1. Head(events).at <= clock
      BY <2>3, BarrierAtHead DEF ConsumeCheckpoint, Consuming
    <3>2. \A c \in Channels : store'.covered[c] \in {store.covered[c], Head(events).at}
      BY <2>3, CheckpointMoves DEF Later
    <3> QED
      BY <2>3, <3>1, <3>2 DEF Past, ConsumeCheckpoint
  <2>4. CASE ConsumeMembership \/ AdoptChannel
    <3>1. \A c \in Channels : store'.covered[c] \in {store.covered[c], clock}
      BY <2>4, RegisterMoves
    <3>2. disk' = disk /\ clock <= clock
      BY <2>4 DEF ConsumeMembership, AdoptChannel, TypeOK
    <3> QED
      BY <3>1, <3>2 DEF Past
  <2>5. CASE RecoverFinish
    <3>1. \A c \in Channels : store'.covered[c] \in {store.covered[c], began}
      BY <2>5, FinishMoves DEF Later
    <3> QED
      BY <2>5, <3>1 DEF Past, RecoverFinish
  <2> QED
    BY <2>1, <2>2, <2>3, <2>4, <2>5, StoreMoves
<1>4. \A c \in Channels : store'.covered[c] \in Nat /\ disk'.covered[c] \in Nat
  BY TypeStep DEF TypeOK, Snapshots
<1> QED
  BY <1>0, <1>1, <1>2, <1>3, <1>4 DEF Past, TypeOK

\* An answer reaches the attempt it belongs to.
LEMMA ReceiptStep ==
  ASSUME TypeOK, Idle, Receipt, Next
  PROVE  Receipt'
<1> USE DEF Receipt
<1>1. CASE job' = NoJob
  BY <1>1 DEF NoJob
<1>2. CASE \E by, m, roots : Submit(by, m, roots)
  BY <1>2 DEF Submit
<1>3. CASE UNCHANGED <<job, queue>> /\ handled \subseteq handled'
  BY <1>3
<1>4. CASE Admit
  BY <1>4, SMTT(40) DEF Admit, TypeOK, Jobs, NoJob
<1>5. CASE Timeout
  BY <1>5 DEF Timeout, TypeOK, Jobs, NoJob
<1>6. CASE WorkerInsert \/ WorkerFail
  <2> DEFINE m == Head(queue)
  <2>1. queue # <<>> /\ queue' = Tail(queue) /\ handled \subseteq handled'
    BY <1>6 DEF WorkerInsert, WorkerFail, history
  <2>2. CASE job.state = "wait" /\ Len(queue) = 1
    <3>1. Head(queue) = job.m
      BY <2>1, <2>2 DEF TypeOK
    <3>2. job'.m = job.m /\ (job'.state = "ok" => job.m \in handled') /\ job'.state # "wait"
      BY <1>6, <2>2, <3>1
      DEF WorkerInsert, WorkerFail, Answer, TypeOK, Jobs, NoJob
    <3> QED
      BY <3>2
  <2>3. CASE ~(job.state = "wait" /\ Len(queue) = 1)
    <3>1. job' = job
      BY <1>6, <2>3 DEF WorkerInsert, WorkerFail, Answer
    <3>2. Len(queue) \in Nat /\ Len(queue) >= 1 /\ Len(Tail(queue)) = Len(queue) - 1
      BY <2>1 DEF TypeOK
    <3>3. \A i \in 1..Len(Tail(queue)) : Tail(queue)[i] = queue[i + 1]
      BY <2>1 DEF TypeOK
    <3>4. ASSUME job.state = "wait"
          PROVE  Tail(queue) # <<>> /\ Tail(queue)[Len(Tail(queue))] = job.m
      <4>1. Len(queue) > 1
        BY <2>3, <3>2, <3>4
      <4>2. Len(Tail(queue)) \in 1..Len(Tail(queue)) /\ Len(Tail(queue)) + 1 = Len(queue)
        BY <3>2, <4>1
      <4>3. Tail(queue)[Len(Tail(queue))] = queue[Len(Tail(queue)) + 1]
        BY <3>3, <4>2
      <4>4. Tail(queue) # <<>>
        BY <4>1, LongTail DEF TypeOK
      <4>5. queue[Len(queue)] = job.m
        BY <3>4
      <4> QED
        BY <4>2, <4>3, <4>4, <4>5
    <3>5. job.state = "ok" => job.m \in handled'
      BY <2>1
    <3> QED
      BY <2>1, <3>1, <3>4, <3>5
  <2> QED
    BY <2>2, <2>3
<1>7. Next => \/ job' = NoJob \/ (\E by, m, roots : Submit(by, m, roots))
      \/ (UNCHANGED <<job, queue>> /\ handled \subseteq handled') \/ Admit
      \/ Timeout \/ WorkerInsert \/ WorkerFail
  <2> DEFINE Same == UNCHANGED <<job, queue>> /\ handled \subseteq handled'
             Sub  == \E by, m, roots : Submit(by, m, roots)
  <2>1. Slack => Same
    BY DEF Slack, Tick, Post, Move, tasks, history
  <2>2. Main => Same \/ job' = NoJob
    BY DEF Main, Start, Dial, Hello, Begin, BeginSave, CloseSave, Exit,
           ForgetProcess, Idle, tasks, history
  <2>3. TearDown => job' = NoJob
    BY TearDownFacts
  <2>4. (\E m \in Msgs : Deliver(m)) \/ DeliverMembership \/ Beat => Same
    BY DEF Deliver, DeliverMembership, Beat, Ping, Pong, tasks, history
  <2>5. Consumer => TearDown \/ Same \/ Sub \/ job' = NoJob
    BY DEF Consumer, ConsumeCheckpoint, ConsumerSave, ConsumeMembership,
           AdoptChannel, SkipStranger, LiveDuplicate, LiveSubmit, LiveDone,
           TearDown, tasks, history
  <2>6. Recovery => Same \/ Sub \/ job' = NoJob
    BY DEF Recovery, RecoverPass, RecoverSkip, RecoverStart, FetchHistory,
           RecoverDuplicate, RecoverSubmit, RecoverDone, RecoverFail,
           RecoverThreads, FetchReplies, RecoverFinish, RecoverSave, history
  <2>7. ThreadGone \/ RecoverError => Same
    BY DEF ThreadGone, RecoverError, history
  <2> HIDE DEF Same, Sub
  <2>8. Next => \/ job' = NoJob \/ Sub \/ Same \/ Admit \/ Timeout
        \/ WorkerInsert \/ WorkerFail
    BY <2>1, <2>2, <2>3, <2>4, <2>5, <2>6, <2>7
    DEF Next, Abort, Read, Mishap, Worker, TearDown
  <2> QED
    BY <2>8 DEF Same, Sub
<1> QED
  BY <1>1, <1>2, <1>3, <1>4, <1>5, <1>6, <1>7

\* Harvested messages stay harvested.
LEMMA HandledGrows ==
  ASSUME Next
  PROVE  handled \subseteq handled'
  BY OpenMoves
  DEF Post, Hello, Begin, WorkerInsert, ConsumeMembership, AdoptChannel,
      SkipStranger, RecoverThreads, ThreadGone

\* An entry that suppresses a message is made only after its inserts succeeded.
LEMMA SeenMoves ==
  ASSUME TypeOK, Next, NEW m \in Msgs, Seen(store', m)
  PROVE  \/ Seen(store, m) \/ Seen(disk, m)
         \/ (LiveDone \/ RecoverDone) /\ m = job.m
<1>1. CASE store' = store \/ store' = disk \/ store'.seen = store.seen
  BY <1>1 DEF Seen
<1>2. CASE Begin
  <2>1. store' \in BeginConnection(store, joined, began)
    BY <1>2 DEF Begin
  <2>2. store \in Snapshots /\ joined \in SUBSET Channels /\ began \in Nat
    BY DEF TypeOK
  <2> QED
    BY <2>1, <2>2, BeginConnectionSeen
<1>3. CASE ConsumeCheckpoint
  <2>1. ASSUME NEW at \in Nat,
               NEW t \in Checkpoint(store, recovering, failed, at, clock),
               Seen(t, m)
        PROVE  Seen(store, m)
    <3>1. /\ store \in Snapshots /\ recovering \in SUBSET Channels
          /\ failed \in SUBSET Channels /\ clock \in Nat
      BY DEF TypeOK
    <3> QED
      BY <2>1, <3>1, CheckpointSeen
  <2>2. Head(events).at \in Nat
    <3>1. Head(events) \in Events
      BY <1>3 DEF ConsumeCheckpoint, Consuming, TypeOK
    <3> QED
      BY <3>1 DEF Events
  <2>3. store' \in Checkpoint(store, recovering, failed, Head(events).at, clock)
    BY <1>3 DEF ConsumeCheckpoint
  <2> QED
    BY <2>1, <2>2, <2>3
<1>4. CASE LiveSubmit \/ LiveDuplicate \/ RecoverSubmit \/ RecoverDuplicate
  <2>1. PICK n \in Msgs, roots \in SUBSET Msgs : store' \in Remembered(n, roots)
    BY <1>4, ProcessFacts
  <2> QED
    BY <2>1, RememberedFacts DEF SameProgress
<1>5. CASE LiveDone \/ RecoverDone
  <2>1. job.m \in Msgs /\ job.roots \in SUBSET Msgs
    BY <1>5, SMTT(40) DEF TypeOK, LiveDone, RecoverDone, Jobs, NoJob
  <2>2. store' \in Processed(store, job.m, job.roots, clock)
    BY <1>5 DEF LiveDone, RecoverDone
  <2>3. store \in Snapshots /\ clock \in Nat
    BY DEF TypeOK
  <2>4. m # job.m => Seen(store, m)
    BY <2>1, <2>2, <2>3, ProcessedSeen
  <2> QED
    BY <1>5, <2>4
<1>6. CASE ConsumeMembership \/ AdoptChannel
  <2>1. PICK cs \in SUBSET Channels : store' = AddChannels(store, cs, clock)
    BY <1>6 DEF ConsumeMembership, AdoptChannel, Register, TypeOK
  <2>2. store'.seen = store.seen
    BY <2>1 DEF AddChannels, TypeOK, Snapshots
  <2> QED
    BY <2>2 DEF Seen
<1>7. CASE RecoverFinish
  <2>1. store'.seen = store.seen
    BY <1>7 DEF RecoverFinish, FinishRecovery, Advance, TypeOK, Snapshots
  <2> QED
    BY <2>1 DEF Seen
<1>8. CASE ThreadGone
  <2>1. store'.seen = store.seen
    BY <1>8 DEF ThreadGone, ForgetThread, TypeOK, Snapshots
  <2> QED
    BY <2>1 DEF Seen
<1>9. TearDown => store' = store \/ store' = disk
  BY TearDownFacts
<1>10. Slack \/ Beat \/ Admit \/ Worker => store' = store
  BY DEF Slack, Tick, Post, Move, Beat, Ping, Pong, Admit, Worker,
         WorkerInsert, state
<1>11. Main => Begin \/ store' = store
  BY DEF Main, Start, Dial, Hello, BeginSave, CloseSave, Exit, state
<1>12. (\E n \in Msgs : Deliver(n)) \/ DeliverMembership \/ ConsumerSave
      \/ SkipStranger => store' = store
  BY DEF Deliver, DeliverMembership, ConsumerSave, SkipStranger, state
<1>13. RecoverPass \/ RecoverSkip \/ RecoverStart \/ FetchHistory
      \/ RecoverFail \/ RecoverThreads \/ FetchReplies \/ RecoverSave
      \/ RecoverError \/ Timeout \/ WorkerFail => store' = store
  BY DEF RecoverPass, RecoverSkip, RecoverStart, FetchHistory, RecoverFail,
         RecoverThreads, FetchReplies, RecoverSave, RecoverError, Timeout,
         WorkerFail, state
<1> QED
  BY <1>1, <1>2, <1>3, <1>4, <1>5, <1>6, <1>7, <1>8, <1>9, <1>10, <1>11,
     <1>12, <1>13
  DEF Next, Abort, Read, Consumer, Recovery, Mishap, TearDown

\* Only harvested messages are suppressed.
LEMMA SuppressedStep ==
  ASSUME TypeOK, Receipt, SuppressedIsHandled, Next
  PROVE  SuppressedIsHandled'
<1> SUFFICES ASSUME NEW m \in Msgs, Seen(store', m) \/ Seen(disk', m)
             PROVE  m \in handled'
  BY DEF SuppressedIsHandled
<1>1. Seen(store', m) => m \in handled
  BY SeenMoves DEF SuppressedIsHandled, Receipt, LiveDone, RecoverDone
<1>2. Seen(disk', m) => Seen(disk, m) \/ Seen(store', m)
  BY StoreMoves
<1> QED
  BY <1>1, <1>2, HandledGrows DEF SuppressedIsHandled

\* Messages on the live path are young and belong to the connection.
LEMMA StreamStep ==
  ASSUME TypeOK, Idle, Lock, Receipt, SuppressedIsHandled, Past, Stream, Next
  PROVE  Stream'
<1>1. \A m \in Msgs : Posted(m) => ts'[m] = ts[m]
  BY OpenMoves
  DEF Post, Posted, Hello, Begin, WorkerInsert, ConsumeMembership,
      AdoptChannel, SkipStranger, RecoverThreads, ThreadGone, slack, TypeOK
<1>2. \A m \in Msgs : Post(m) => ts'[m] = clock /\ clock > 0
  BY DEF Post, TypeOK
<1>3. \A m \in Msgs : m \in wire' => m \in wire \/ Post(m)
  <2>1. events # <<>> /\ events' = Tail(events) /\ wire' = wire => wire' = wire
    OBVIOUS
  <2>2. DeliverMembership \/ Pong => wire' = wire
    BY DEF DeliverMembership, Pong, slack
  <2>3. (\E n \in Msgs : Deliver(n)) => wire' \subseteq wire
    BY DEF Deliver
  <2>4. ASSUME NEW n \in Msgs, Post(n)
        PROVE  \A m \in Msgs : m \in wire' => m \in wire \/ Post(m)
    <3>1. wire' \subseteq wire \union {n}
      BY <2>4 DEF Post
    <3> QED
      BY <2>4, <3>1
  <2> QED
    BY <2>2, <2>3, <2>4, EventMoves
<1>4. \A m \in wire' : Posted(m)' /\ clock' <= ts'[m] + Lag
  <2> SUFFICES ASSUME NEW m \in Msgs, m \in wire'
               PROVE  Posted(m)' /\ clock' <= ts'[m] + Lag
    BY TypeStep DEF TypeOK
  <2>1. CASE Post(m)
    <3>1. clock' = clock
      BY <2>1 DEF Post
    <3> QED
      BY <1>2, <2>1, <3>1 DEF Posted, TypeOK
  <2>2. CASE m \in wire
    <3>1. Posted(m) /\ ts'[m] = ts[m] /\ clock <= ts[m] + Lag
      BY <1>1, <2>2 DEF Stream
    <3>2. clock' <= ts[m] + Lag
      BY <2>2, <3>1, ClockMoves DEF Tick, TypeOK
    <3> QED
      BY <3>1, <3>2 DEF Posted
  <2> QED
    BY <1>3, <2>1, <2>2
<1>5. \A m \in Msgs : Live(m)' => Posted(m)' /\ began' <= ts'[m]
  <2> SUFFICES ASSUME NEW m \in Msgs, Live(m)'
               PROVE  Posted(m)' /\ began' <= ts'[m]
    OBVIOUS
  <2>1. began' = began \/ began' = 0
    <3>1. Dial => ~Live(m)'
      BY DEF Dial, Idle, Subscribed, Live, Queued, slack
    <3> QED
      BY <3>1, BeganMoves
  <2>2. CASE Post(m) /\ Subscribed
    <3>1. began <= clock
      BY DEF Past
    <3> QED
      BY <1>2, <2>1, <2>2, <3>1 DEF Posted, TypeOK
  <2>3. CASE Live(m)
    <3>1. Posted(m) /\ ts'[m] = ts[m] /\ began <= ts[m]
      BY <1>1, <2>3 DEF Stream
    <3> QED
      BY <2>1, <3>1 DEF Posted, TypeOK
  <2> QED
    BY <2>2, <2>3, LiveMoves
<1> QED
  BY <1>4, <1>5 DEF Stream

\* A barrier in the event queue is older than what follows it, but for Lag.
LEMMA BarriersStep ==
  ASSUME TypeOK, Idle, Lock, Past, Stream, Barriers, Next
  PROVE  Barriers'
<1> DEFINE Follows(at, m) == at <= ts'[m] + Lag
           Ordered(k, es) == \A j \in 1..Len(es), m \in Msgs :
                               k < j /\ es[j] = MessageEvent(m) => Follows(es[k].at, m)
<1>1. \A m \in Msgs : Posted(m) => ts'[m] = ts[m]
  BY OpenMoves
  DEF Post, Posted, Hello, Begin, WorkerInsert, ConsumeMembership,
      AdoptChannel, SkipStranger, RecoverThreads, ThreadGone, slack, TypeOK
<1>2. \A j \in 1..Len(events), m \in Msgs : events[j] = MessageEvent(m) => ts'[m] = ts[m]
  BY <1>1 DEF Stream, Live, Queued
<1>3. \A m \in wire : ts'[m] = ts[m]
  BY <1>1 DEF Stream, TypeOK
<1>4. clock' \in Nat /\ clock \in Nat /\ clock <= clock'
  BY ClockMoves DEF TypeOK
<1>5. ASSUME NEW k \in 1..Len(events), events[k].kind = "checkpoint"
      PROVE  /\ events[k].at <= clock'
             /\ \A m \in wire : Follows(events[k].at, m)
             /\ \A m \in Msgs : Post(m) => Follows(events[k].at, m)
             /\ Ordered(k, events)
  <2>1. events[k].at \in Nat /\ events[k].at <= clock
    <3>1. events[k] \in Events
      BY DEF TypeOK
    <3> QED
      BY <1>5, <3>1 DEF Barriers, Events
  <2>2. \A m \in wire : Follows(events[k].at, m)
    BY <1>3, <1>5 DEF Barriers
  <2>3. Ordered(k, events)
    BY <1>2, <1>5 DEF Barriers
  <2>4. \A m \in Msgs : Post(m) => Follows(events[k].at, m)
    BY <1>4, <2>1 DEF Post, TypeOK
  <2> QED
    BY <1>4, <2>1, <2>2, <2>3, <2>4
<1> HIDE DEF Follows
<1> SUFFICES ASSUME NEW i \in 1..Len(events'), events'[i].kind = "checkpoint"
             PROVE  /\ events'[i].at <= clock'
                    /\ \A m \in wire' : Follows(events'[i].at, m)
                    /\ Ordered(i, events')
  BY DEF Barriers, Follows
<1>6. Len(events) \in Nat
  BY DEF TypeOK
<1>7. CASE UNCHANGED events /\ \A m \in wire' : m \in wire \/ Post(m)
  BY <1>5, <1>7, TypeStep DEF TypeOK
<1>8. CASE events # <<>> /\ events' = Tail(events) /\ wire' = wire
  <2>1. /\ Len(events') = Len(events) - 1
        /\ \A j \in 1..Len(events') : j + 1 \in 1..Len(events) /\ events'[j] = events[j + 1]
    BY <1>6, <1>8, TailOfEvents DEF TypeOK
  <2>2. i + 1 \in 1..Len(events) /\ events'[i] = events[i + 1]
    BY <2>1
  <2>3. Ordered(i, events')
    <3> SUFFICES ASSUME NEW j \in 1..Len(events'), NEW m \in Msgs, i < j,
                        events'[j] = MessageEvent(m)
                 PROVE  Follows(events'[i].at, m)
      OBVIOUS
    <3>1. j + 1 \in 1..Len(events) /\ events'[j] = events[j + 1] /\ i + 1 < j + 1
      BY <2>1
    <3> QED
      BY <1>5, <2>2, <3>1, ZenonT(40)
  <2> QED
    BY <1>5, <1>8, <2>2, <2>3
<1>9. ASSUME NEW e \in Events, events' = Append(events, e), wire' \subseteq wire,
             e.kind = "checkpoint" => /\ e.at <= clock
                                      /\ \A m \in wire : Follows(e.at, m),
             \A m \in Msgs : e = MessageEvent(m) => m \in wire
      PROVE  /\ events'[i].at <= clock'
             /\ \A m \in wire' : Follows(events'[i].at, m)
             /\ Ordered(i, events')
  <2>1. /\ Len(events') = Len(events) + 1 /\ events'[Len(events) + 1] = e
        /\ \A j \in 1..Len(events) : events'[j] = events[j]
    BY <1>9, AppendFacts
  <2>2. i \in 1..Len(events) \/ i = Len(events) + 1
    BY <1>6, <2>1
  <2>3. CASE i = Len(events) + 1
    <3>1. events'[i] = e
      BY <2>1, <2>3
    <3>2. Ordered(i, events')
      BY <1>6, <2>1, <2>3
    <3>3. e.at \in Nat
      BY DEF Events
    <3> QED
      BY <1>4, <1>9, <3>1, <3>2, <3>3
  <2>4. CASE i \in 1..Len(events)
    <3>1. events'[i] = events[i]
      BY <2>1, <2>4
    <3>2. Ordered(i, events')
      <4> SUFFICES ASSUME NEW j \in 1..Len(events'), NEW m \in Msgs, i < j,
                          events'[j] = MessageEvent(m)
                   PROVE  Follows(events'[i].at, m)
        OBVIOUS
      <4>1. CASE j \in 1..Len(events)
        BY <1>5, <2>1, <2>4, <3>1, <4>1
      <4>2. CASE j = Len(events) + 1
        BY <1>5, <1>9, <2>1, <2>4, <3>1, <4>2
      <4> QED
        BY <1>6, <2>1, <4>1, <4>2
    <3> QED
      BY <1>5, <1>9, <2>4, <3>1, <3>2
  <2> QED
    BY <2>2, <2>3, <2>4
<1>10. ASSUME NEW n \in Msgs, Deliver(n)
       PROVE  /\ events'[i].at <= clock'
              /\ \A m \in wire' : Follows(events'[i].at, m)
              /\ Ordered(i, events')
  <2>1. /\ events' = Append(events, MessageEvent(n)) /\ wire' \subseteq wire
        /\ n \in wire /\ MessageEvent(n).kind # "checkpoint"
        /\ \A m \in Msgs : MessageEvent(n) = MessageEvent(m) => m \in wire
        /\ MessageEvent(n) \in Events
    BY <1>10 DEF Deliver, Enqueue, MessageEvent, Events
  <2> QED
    BY <1>9, <2>1
<1>11. CASE DeliverMembership
  <2>1. /\ events' = Append(events, Membership) /\ wire' \subseteq wire
        /\ Membership.kind # "checkpoint"
        /\ \A m \in Msgs : Membership # MessageEvent(m)
        /\ Membership \in Events
    BY <1>11 DEF DeliverMembership, Enqueue, Membership, MessageEvent, Events
  <2> QED
    BY <1>9, <2>1
<1>12. CASE Pong
  <2>1. /\ events' = Append(events, Barrier(pending)) /\ wire' \subseteq wire
        /\ \A m \in Msgs : Barrier(pending) # MessageEvent(m)
        /\ Barrier(pending) \in Events /\ Barrier(pending).at = pending
    BY <1>12 DEF Pong, Enqueue, Barrier, MessageEvent, Events, slack, TypeOK
  <2>2. pending <= clock
    BY DEF Past
  <2>3. \A m \in wire : Follows(pending, m)
    BY <1>3, <1>4, <2>2 DEF Follows, Stream, TypeOK
  <2> QED
    BY <1>9, <2>1, <2>2, <2>3
<1>13. ASSUME NEW n \in Msgs, Post(n)
       PROVE  UNCHANGED events /\ \A m \in wire' : m \in wire \/ Post(m)
  BY <1>13 DEF Post, conn
<1> QED
  BY <1>7, <1>8, <1>10, <1>11, <1>12, <1>13, EventMoves

\* Which steps connect; the others keep a connection as it is.
LEMMA PhaseMoves ==
  ASSUME TypeOK, Idle, Next
  PROVE  /\ Subscribed' => (Hello \/ Subscribed) /\ began' = began
         /\ Connected' => (Begin \/ Connected) /\ began' = began
         /\ Subscribed /\ ~Subscribed' => TearDown
<1> USE DEF Subscribed, Connected
<1>1. CASE TearDown
  BY <1>1, TearDownFacts
<1>2. Slack \/ (\E m \in Msgs : Deliver(m)) \/ DeliverMembership \/ Beat
      \/ Admit \/ Worker \/ Recovery \/ Mishap
        => UNCHANGED <<phase, began>>
  BY DEF Slack, Tick, Post, Move, Deliver, DeliverMembership, Beat, Ping,
         Pong, Admit, Worker, WorkerInsert, Recovery, RecoverPass,
         RecoverSkip, RecoverStart, FetchHistory, RecoverDuplicate,
         RecoverSubmit, RecoverDone, RecoverFail, RecoverThreads,
         FetchReplies, RecoverFinish, RecoverSave, Mishap, ThreadGone,
         RecoverError, Timeout, WorkerFail, conn
<1>3. Consumer => TearDown \/ UNCHANGED <<phase, began>>
  BY DEF Consumer, ConsumeCheckpoint, ConsumerSave, ConsumeMembership,
         AdoptChannel, SkipStranger, LiveDuplicate, LiveSubmit, LiveDone,
         TearDown, conn
<1>4. CASE UNCHANGED <<phase, began>>
  BY <1>4
<1>5. CASE Main
  BY <1>5
  DEF Main, Start, Dial, Hello, Begin, BeginSave, CloseSave, Exit,
      ForgetProcess
<1> QED
  BY <1>1, <1>2, <1>3, <1>4, <1>5 DEF Next, Abort, Read, TearDown

\* What recovery has still to do changes only where the channel being recovered
\* is finished.
LEMMA RecoveringMoves ==
  ASSUME TypeOK, Idle, Connected, Next
  PROVE  \/ TearDown
         \/ recovering' = recovering
         \/ RecoverFinish /\ recovering' = recovering \ {rec.ch}
<1>1. Slack \/ (\E m \in Msgs : Deliver(m)) \/ DeliverMembership \/ Beat
      \/ Admit \/ Worker \/ Mishap
        => UNCHANGED recovering
  BY DEF Slack, Tick, Post, Move, Deliver, DeliverMembership, Beat, Ping,
         Pong, Admit, Worker, WorkerInsert, Mishap, ThreadGone, RecoverError,
         Timeout, WorkerFail, state
<1>2. Recovery => \/ UNCHANGED recovering
                  \/ RecoverFinish /\ recovering' = recovering \ {rec.ch}
  BY DEF Recovery, RecoverPass, RecoverSkip, RecoverStart, FetchHistory,
         RecoverDuplicate, RecoverSubmit, RecoverDone, RecoverFail,
         RecoverThreads, FetchReplies, RecoverFinish, RecoverSave, state
<1>3. Consumer => TearDown \/ UNCHANGED recovering
  BY DEF Consumer, ConsumeCheckpoint, ConsumerSave, ConsumeMembership,
         AdoptChannel, SkipStranger, LiveDuplicate, LiveSubmit, LiveDone,
         TearDown, state
<1>4. Main => UNCHANGED recovering
  BY DEF Main, Start, Dial, Hello, Begin, BeginSave, CloseSave, Exit,
         Connected, state
<1> QED
  BY <1>1, <1>2, <1>3, <1>4 DEF Next, Abort, Read, TearDown

\* The tracked channels only grow during a connection.
LEMMA TrackedGrows ==
  ASSUME TypeOK, Connected, Next
  PROVE  TearDown \/ store.tracked \subseteq store'.tracked
<1> SUFFICES ASSUME NEW c \in store.tracked
             PROVE  TearDown \/ c \in store'.tracked
  OBVIOUS
<1>1. c \in Channels
  BY DEF TypeOK, Snapshots
<1>2. ConsumeMembership \/ AdoptChannel => c \in store'.tracked
  BY <1>1, RegisterMoves
<1>3. ConsumeCheckpoint => c \in store'.tracked
  BY <1>1, CheckpointMoves
<1>4. RecoverFinish => c \in store'.tracked
  BY <1>1, FinishMoves
<1>5. ~Begin
  BY DEF Begin, Connected
<1> QED
  BY <1>2, <1>3, <1>4, <1>5, StoreMoves DEF TearDown

\* A missed message stays left to recovery.
LEMMA LeftStep ==
  ASSUME TypeOK, Idle, Lock, Receipt, SuppressedIsHandled, LeftToRecovery,
         Ahead, Next
  PROVE  LeftToRecovery'
<1> DEFINE Within == /\ recovering' \subseteq store'.tracked
                     /\ \A m \in Msgs : Missed(m)' =>
                          ChanOf[m] \in recovering' /\ began' <= ts'[m] + Window
<1>1. ASSUME Subscribed', NEW m \in Msgs, Missed(m)'
      PROVE  ts'[m] <= began'
  <2>1. Missed(m) /\ ts'[m] = ts[m]
    BY <1>1, MissedShrinks
  <2>2. CASE Hello
    <3>1. Open(m)' /\ Open(m) /\ ts' = ts /\ began' = began
      BY <1>1, <2>1, <2>2 DEF Missed, Hello, slack
    <3>2. excuse'[m] = "none"
      BY <3>1 DEF Open, Settled
    <3>3. ~(ts[m] > began)
      BY <2>2, <3>1, <3>2 DEF Hello, Excuse
    <3> QED
      BY <3>1, <3>3 DEF TypeOK
  <2>3. CASE Subscribed /\ began' = began
    BY <2>1, <2>3 DEF LeftToRecovery
  <2> QED
    BY <1>1, <2>2, <2>3, PhaseMoves
<1>2. ASSUME Connected', Begin
      PROVE  Within
  <2>1. /\ recovering' = joined \intersect store.tracked /\ ts' = ts
        /\ began' = began
    BY <1>2 DEF Begin, slack
  <2>2. \A c \in Channels : store'.tracked = joined
    BY <1>2, BeginMoves
  <2>3. recovering' \subseteq store'.tracked
    BY <2>1, <2>2 DEF TypeOK
  <2>4. ASSUME NEW m \in Msgs, Missed(m)'
        PROVE  ChanOf[m] \in recovering' /\ began' <= ts'[m] + Window
    <3>1. Missed(m)
      BY <1>2, <2>4, MissedShrinks DEF Connected, Subscribed
    <3>2. excuse'[m] = "none"
      BY <2>4 DEF Missed, Open, Settled
    <3>3. ChanOf[m] \in joined /\ ChanOf[m] \in store.tracked /\ ~(ts[m] < began - Window)
      BY <1>2, <3>1, <3>2 DEF Begin, Missed
    <3> QED
      BY <2>1, <3>3 DEF TypeOK
  <2> QED
    BY <2>3, <2>4
<1>3. ASSUME Connected', Connected, began' = began
      PROVE  Within
  <2>1. ~TearDown /\ Subscribed'
    BY <1>3, TearDownFacts DEF Connected, Subscribed
  <2>2. store.tracked \subseteq store'.tracked
    BY <1>3, <2>1, TrackedGrows
  <2>3. \A m \in Msgs : Missed(m)' => Missed(m) /\ ts'[m] = ts[m]
    BY <2>1, MissedShrinks
  <2>6. /\ recovering \subseteq store.tracked
        /\ \A m \in Msgs : Missed(m) =>
             ChanOf[m] \in recovering /\ began <= ts[m] + Window
    BY <1>3 DEF LeftToRecovery
  <2>4. CASE recovering' = recovering
    BY <1>3, <2>2, <2>3, <2>4, <2>6
  <2>5. CASE RecoverFinish /\ recovering' = recovering \ {rec.ch}
    <3>1. \A m \in Msgs : Missed(m) => ChanOf[m] # rec.ch
      BY <2>5 DEF Ahead, RecoverFinish, Recovering
    <3> QED
      BY <1>3, <2>2, <2>3, <2>5, <2>6, <3>1
  <2> QED
    BY <1>3, <2>1, <2>4, <2>5, RecoveringMoves
<1>4. Connected' => Within
  BY <1>2, <1>3, PhaseMoves
<1> QED
  BY <1>1, <1>4 DEF LeftToRecovery

\* The stages in which a channel is recovered up to its last request
Fetching == {"history", "pages", "replies"}

\* How a step moves the recovery pass and the channel it works on
LEMMA RecMoves ==
  ASSUME TypeOK, Next
  PROVE  \/ pass' \subseteq pass /\ rec' = NoRec
         \/ /\ pass' = pass \/ (RecoverSkip /\ pass' \subseteq pass)
            /\ rec'.ch = rec.ch /\ rec'.oldest = rec.oldest
            /\ rec'.stage \in Fetching => rec.stage \in Fetching
         \/ RecoverPass
         \/ RecoverStart
<1> USE DEF Fetching
<1> DEFINE Drop == pass' \subseteq pass /\ rec' = NoRec
           Keep == /\ pass' = pass \/ (RecoverSkip /\ pass' \subseteq pass)
                   /\ rec'.ch = rec.ch /\ rec'.oldest = rec.oldest
                   /\ rec'.stage \in Fetching => rec.stage \in Fetching
<1>1. TearDown => Drop
  BY TearDownFacts
<1>2. Slack \/ (\E m \in Msgs : Deliver(m)) \/ DeliverMembership
      \/ Beat => Keep
  BY DEF Slack, Tick, Post, Move, Deliver, DeliverMembership, Beat, Ping,
         Pong, tasks
<1>3. Admit \/ Worker \/ Timeout \/ WorkerFail => Keep
  BY DEF Admit, Worker, WorkerInsert, Timeout, WorkerFail
<1>4. Main => Keep
  BY DEF Main, Start, Dial, Hello, Begin, BeginSave, CloseSave, Exit, tasks
<1>5. Consumer => TearDown \/ Keep
  BY DEF Consumer, ConsumeCheckpoint, ConsumerSave, ConsumeMembership,
         AdoptChannel, SkipStranger, LiveDuplicate, LiveSubmit, LiveDone,
         TearDown, tasks
<1>6. RecoverSkip => Keep
  BY DEF RecoverSkip
<1>7. RecoverFail \/ RecoverSave \/ RecoverError => Drop
  BY DEF RecoverFail, RecoverSave, RecoverError
<1>8. rec \in Recs
  BY DEF TypeOK
<1>9. FetchHistory \/ RecoverDuplicate \/ RecoverSubmit \/ RecoverDone => Keep
  BY <1>8
  DEF FetchHistory, RecoverDuplicate, RecoverSubmit, RecoverDone, Recovering,
      Recs
<1>10. RecoverThreads \/ FetchReplies \/ RecoverFinish \/ ThreadGone => Keep
  BY <1>8
  DEF RecoverThreads, FetchReplies, RecoverFinish, ThreadGone, Recovering, Recs
<1> HIDE DEF Drop, Keep
<1>11. Drop \/ Keep \/ RecoverPass \/ RecoverStart
  BY <1>1, <1>2, <1>3, <1>4, <1>5, <1>6, <1>7, <1>9, <1>10
  DEF Next, Abort, Read, Recovery, Mishap, TearDown
<1> QED
  BY <1>11 DEF Drop, Keep

\* While a channel is recovering, its checkpoint stands still.
LEMMA RecoveringStands ==
  ASSUME TypeOK, LeftToRecovery, Connected, Next, NEW c \in recovering
  PROVE  \/ TearDown
         \/ store'.covered[c] = store.covered[c]
         \/ RecoverFinish /\ c = rec.ch
<1>1. c \in Channels /\ c \in store.tracked
  BY DEF TypeOK, LeftToRecovery
<1>2. CASE ConsumeMembership \/ AdoptChannel
  BY <1>1, <1>2, RegisterMoves
<1>3. CASE ConsumeCheckpoint
  BY <1>1, <1>3, CheckpointMoves
<1>4. CASE RecoverFinish
  BY <1>1, <1>4, FinishMoves
<1>5. ~Begin
  BY DEF Begin, Connected
<1> QED
  BY <1>2, <1>3, <1>4, <1>5, StoreMoves DEF TearDown

\* Recovery works from the checkpoints it cloned.
LEMMA PassesStep ==
  ASSUME TypeOK, Idle, Lock, LeftToRecovery, Passes, Next
  PROVE  Passes'
<1>1. CASE pass' = {} /\ rec' = NoRec
  BY <1>1 DEF Passes, NoRec
<1>2. CASE phase' # "running"
  <2>1. Idle'
    BY IdleStep
  <2> QED
    BY <1>1, <1>2, <2>1 DEF Idle
<1>3. CASE phase # "running" /\ phase' = "running"
  <2>1. pass = {} /\ rec = NoRec
    BY <1>3 DEF Idle
  <2>2. ~RecoverPass /\ ~RecoverStart /\ ~RecoverSkip
    BY <1>3 DEF RecoverPass, RecoverStart, RecoverSkip, Recovering
  <2>3. pass' = {}
    BY <2>1, <2>2, RecMoves
  <2>4. rec'.stage \notin Fetching
    BY <2>1, <2>2, RecMoves DEF Fetching, NoRec
  <2> QED
    BY <2>3, <2>4 DEF Passes, Fetching
<1>4. CASE phase = "running" /\ phase' = "running"
  <2>1. Connected /\ Connected' /\ ~TearDown /\ began' = began
    BY <1>4, TearDownFacts, PhaseMoves DEF Connected, Begin
  <2>2. recovering' = recovering
        \/ (RecoverFinish /\ recovering' = recovering \ {rec.ch})
    BY <2>1, RecoveringMoves
  <2>3. \A c \in recovering : \/ store'.covered[c] = store.covered[c]
                              \/ RecoverFinish /\ c = rec.ch
    BY <2>1, RecoveringStands
  <2>4. recovering \subseteq Channels /\ NoChannel \notin recovering
    BY DEF TypeOK
  <2>5. \A p \in pass : /\ p[1] \in recovering' /\ p[1] # rec.ch
                        /\ p[2] = store'.covered[p[1]]
                        /\ \A q \in pass : p[1] = q[1] => p = q
    BY <2>2, <2>3 DEF Passes
  <2>6. rec.stage \in Fetching /\ ~RecoverFinish =>
          /\ rec.ch \in recovering'
          /\ rec.oldest = Later(Later(store'.covered[rec.ch] - Overlap, began' - Window), 0)
    BY <2>1, <2>2, <2>3 DEF Passes, Fetching, Oldest
  <2>7. CASE pass' \subseteq pass /\ rec' = NoRec
    <3>1. \A p \in pass : p[1] # NoChannel
      BY <2>4 DEF Passes
    <3> QED
      BY <2>5, <2>7, <3>1 DEF Passes, NoRec
  <2>8. CASE /\ pass' \subseteq pass
             /\ rec'.ch = rec.ch /\ rec'.oldest = rec.oldest
             /\ rec'.stage \in Fetching => rec.stage \in Fetching
    <3>1. RecoverFinish => rec'.stage \notin Fetching
      BY DEF RecoverFinish, Fetching, TypeOK, Recs
    <3> QED
      BY <2>5, <2>6, <2>8, <3>1 DEF Passes, Fetching, Oldest
  <2>9. CASE RecoverPass
    <3>1. /\ rec' = rec /\ rec = NoRec
          /\ pass' = {<<c, store'.covered[c]>> : c \in recovering'}
          /\ recovering' = recovering
      BY <2>9 DEF RecoverPass, Recovering, Lock, state
    <3> QED
      BY <2>4, <3>1 DEF Passes, NoRec
  <2>10. CASE RecoverStart
    <3>1. PICK p \in pass : /\ pass' = pass \ {p}
                            /\ rec'.stage = "history" /\ rec'.ch = p[1]
                            /\ rec'.oldest = Oldest(p[2])
      BY <2>10 DEF RecoverStart, NoRec
    <3>2. rec'.oldest = Later(Later(store'.covered[rec'.ch] - Overlap, began' - Window), 0)
      BY <2>1, <2>5, <3>1 DEF Oldest
    <3> QED
      BY <2>5, <3>1, <3>2 DEF Passes, Oldest
  <2> QED
    BY <2>7, <2>8, <2>9, <2>10, RecMoves
<1> QED
  BY <1>2, <1>3, <1>4

\* What recovery has to find lies in the interval it fetches.
LEMMA MissedInRange ==
  ASSUME TypeOK, Coverage, LeftToRecovery, Passes, phase = "running",
         rec.stage \in Fetching, NEW m \in Msgs, Missed(m), ChanOf[m] = rec.ch
  PROVE  InRange(m)
<1>1. /\ Connected /\ Subscribed
      /\ Posted(m) /\ m \notin handled /\ excuse[m] = "none"
  BY DEF Connected, Subscribed, Missed, Open, Settled
<1>2. ts[m] <= began /\ began <= ts[m] + Window /\ ChanOf[m] \in store.tracked
  BY <1>1 DEF LeftToRecovery
<1>3. ts[m] >= store.covered[rec.ch] - Overlap
  BY <1>1, <1>2 DEF Coverage, Reaches, Excuses
<1>4. rec.oldest = Oldest(store.covered[rec.ch])
  BY DEF Passes, Fetching
<1>5. ts[m] \in Nat /\ began \in Nat /\ store.covered[rec.ch] \in Nat
  BY DEF TypeOK, Snapshots
<1>6. rec.oldest <= ts[m]
  BY <1>2, <1>3, <1>4, <1>5 DEF Oldest, Later
<1> QED
  BY <1>1, <1>2, <1>6 DEF InRange

\* The missed messages of the channel being recovered stay ahead.
LEMMA AheadStep ==
  ASSUME TypeOK, Idle, Lock, Receipt, Coverage, SuppressedIsHandled,
         LeftToRecovery, Passes, Ahead, Next
  PROVE  Ahead'
<1> DEFINE StillAhead(m) ==
             /\ rec'.stage = "pages" /\ RootOf[m] = m => m \in rec'.todo
             /\ rec'.stage = "replies" =>
                  /\ RootOf[m] # m
                  /\ m \in rec'.todo \/ RootOf[m] \in rec'.threads
<1> SUFFICES ASSUME NEW m \in Msgs, Missed(m)', ChanOf[m] = rec'.ch
             PROVE  StillAhead(m)
  BY DEF Ahead
<1>1. rec' # NoRec
  BY DEF NoRec
<1>2. Subscribed'
  <2>1. Idle'
    BY IdleStep
  <2> QED
    BY <1>1, <2>1 DEF Idle, Subscribed
<1>3. Missed(m) /\ ts'[m] = ts[m]
  BY <1>2, MissedShrinks
<1>4. m \notin handled /\ excuse'[m] = "none" /\ Open(m)
  BY <1>3 DEF Missed, Open, Settled
<1>5. ChanOf[m] = rec.ch =>
        /\ rec.stage = "pages" /\ RootOf[m] = m => m \in rec.todo
        /\ rec.stage = "replies" =>
             /\ RootOf[m] # m
             /\ m \in rec.todo \/ RootOf[m] \in rec.threads
  BY <1>3 DEF Ahead
<1>6. phase = "running" /\ rec.stage \in Fetching /\ ChanOf[m] = rec.ch => InRange(m)
  BY <1>3, MissedInRange
<1>7. rec \in Recs
  BY DEF TypeOK
<1>8. CASE rec' = rec
  BY <1>5, <1>8
<1>9. CASE RecoverStart \/ RecoverFinish
  BY <1>7, <1>9 DEF RecoverStart, RecoverFinish, NoRec, Recs
<1>10. CASE FetchHistory
  BY <1>6, <1>7, <1>10 DEF FetchHistory, Recovering, Fetching, Recs
<1>11. CASE RecoverDuplicate
  <2>1. PICK n \in rec.todo : /\ store' \in Remembered(n, FetchedRoots(n))
                              /\ Seen(store', n)
                              /\ rec' = [rec EXCEPT !.todo = @ \ {n}]
    BY <1>11 DEF RecoverDuplicate
  <2>2. n \in Msgs /\ FetchedRoots(n) \in SUBSET Msgs
    BY <1>7 DEF Recs, FetchedRoots
  <2>3. Seen(store, n)
    BY <2>1, <2>2, RememberedFacts DEF SameProgress
  <2>4. n # m
    BY <1>4, <2>2, <2>3 DEF SuppressedIsHandled
  <2> QED
    BY <1>5, <1>7, <2>1, <2>4 DEF Recs
<1>12. CASE RecoverDone
  <2>1. job.m # m
    BY <1>4, <1>12 DEF RecoverDone, Receipt
  <2> QED
    BY <1>5, <1>7, <1>12, <2>1 DEF RecoverDone, Recs
<1>13. CASE RecoverThreads
  <2>1. /\ phase = "running" /\ rec.stage = "pages" /\ rec.todo = {}
        /\ rec' = [rec EXCEPT !.stage = "replies",
                              !.threads = Threads(store, rec.ch)]
        /\ Excuse({n \in Msgs : /\ InRange(n) /\ ~Live(n)
                                /\ RootOf[n] \notin Threads(store, rec.ch) \union {n}},
                  "thread")
    BY <1>13 DEF RecoverThreads, Recovering
  <2>2. ChanOf[m] = rec.ch /\ RootOf[m] # m
    BY <1>5, <1>7, <2>1 DEF Recs
  <2>3. InRange(m) /\ ~Live(m)
    BY <1>3, <1>6, <2>1, <2>2 DEF Fetching, Missed
  <2>4. RootOf[m] \in Threads(store, rec.ch)
    BY <1>4, <2>1, <2>2, <2>3 DEF Excuse
  <2> QED
    BY <1>7, <2>1, <2>2, <2>4 DEF Recs
<1>14. CASE FetchReplies
  BY <1>5, <1>6, <1>7, <1>14 DEF FetchReplies, Recovering, Fetching, Recs
<1>15. CASE ThreadGone
  <2>1. PICK r \in rec.threads :
          /\ rec.stage = "replies" /\ rec.todo = {}
          /\ rec' = [rec EXCEPT !.threads = @ \ {r}]
          /\ Excuse({n \in Msgs : RootOf[n] = r}, "thread")
    BY <1>15 DEF ThreadGone, Recovering
  <2>2. RootOf[m] # r
    BY <1>4, <2>1 DEF Excuse
  <2> QED
    BY <1>5, <1>7, <2>1, <2>2 DEF Recs
<1>16. \/ rec' = rec \/ RecoverStart \/ RecoverFinish \/ FetchHistory
       \/ RecoverDuplicate \/ RecoverDone \/ RecoverThreads \/ FetchReplies
       \/ ThreadGone
  <2>1. ~TearDown
    BY <1>1, TearDownFacts
  <2>2. Slack \/ (\E n \in Msgs : Deliver(n)) \/ DeliverMembership \/ Beat
        \/ Main \/ Admit \/ Worker \/ Timeout \/ WorkerFail => rec' = rec
    BY DEF Slack, Tick, Post, Move, Deliver, DeliverMembership, Beat, Ping,
           Pong, Main, Start, Dial, Hello, Begin, BeginSave, CloseSave, Exit,
           Admit, Worker, WorkerInsert, Timeout, WorkerFail, tasks
  <2>3. Consumer => TearDown \/ rec' = rec
    BY DEF Consumer, ConsumeCheckpoint, ConsumerSave, ConsumeMembership,
           AdoptChannel, SkipStranger, LiveDuplicate, LiveSubmit, LiveDone,
           TearDown, tasks
  <2>4. RecoverPass \/ RecoverSkip \/ RecoverSubmit => rec' = rec
    BY DEF RecoverPass, RecoverSkip, RecoverSubmit
  <2>5. RecoverFail \/ RecoverSave \/ RecoverError => rec' = NoRec
    BY DEF RecoverFail, RecoverSave, RecoverError
  <2> QED
    BY <1>1, <2>1, <2>2, <2>3, <2>4, <2>5
    DEF Next, Abort, Read, Recovery, Mishap, TearDown
<1> QED
  BY <1>8, <1>9, <1>10, <1>11, <1>12, <1>13, <1>14, <1>15, <1>16

\* A checkpoint does not pass an open message.
LEMMA CoverageStep ==
  ASSUME Inv, Next
  PROVE  Coverage'
<1> USE DEF Inv
<1>0. TypeOK'
  BY TypeStep
<1> SUFFICES ASSUME NEW m \in Msgs, Open(m)'
             PROVE  /\ ChanOf[m] \in store'.tracked =>
                         ts'[m] >= store'.covered[ChanOf[m]] - Overlap
                    /\ ChanOf[m] \in disk'.tracked =>
                         ts'[m] >= disk'.covered[ChanOf[m]] - Overlap
  BY <1>0 DEF Coverage, Reaches, Open, Settled, Posted, Excuses, TypeOK
<1> DEFINE c == ChanOf[m]
<1>1. /\ c \in Channels /\ ts[m] \in Nat /\ clock \in Nat /\ began \in Nat
      /\ store.covered[c] \in Nat /\ disk.covered[c] \in Nat
  BY DEF TypeOK, Snapshots
<1>2. CASE Post(m) /\ ts'[m] = clock
  <2>1. Past' /\ clock' = clock
    BY <1>2, PastStep DEF Post
  <2>2. store'.covered[c] \in Nat /\ disk'.covered[c] \in Nat
    BY <1>0, <1>1 DEF TypeOK, Snapshots
  <2> QED
    BY <1>1, <1>2, <2>1, <2>2 DEF Past
<1>3. ASSUME Open(m), ts'[m] = ts[m]
      PROVE  /\ c \in store'.tracked => ts[m] >= store'.covered[c] - Overlap
             /\ c \in disk'.tracked => ts[m] >= disk'.covered[c] - Overlap
  <2>1. /\ c \in store.tracked => ts[m] >= store.covered[c] - Overlap
        /\ c \in disk.tracked => ts[m] >= disk.covered[c] - Overlap
    BY <1>3 DEF Coverage, Reaches, Open, Settled, Posted, Excuses
  <2>2. CASE \/ /\ store'.tracked = store.tracked /\ store'.covered = store.covered
                /\ disk' = disk \/ disk' = store'
             \/ Crash /\ store' = disk /\ disk' = disk
    BY <2>1, <2>2
  <2>3. excuse'[m] = "none"
    BY DEF Open, Settled
  <2>4. CASE Begin
    <3>1. /\ store'.tracked = joined
          /\ c \in joined \ store.tracked => store'.covered[c] = began
          /\ c \in joined /\ c \in store.tracked =>
               store'.covered[c] = Later(store.covered[c], began - Window)
      BY <1>1, <2>4, BeginMoves
    <3>2. CASE Live(m)
      <4>1. began <= ts[m]
        BY <3>2 DEF Stream
      <4> QED
        BY <1>1, <2>1, <3>1, <4>1, <2>4 DEF Later, Begin
    <3>3. CASE ~Live(m)
      <4>1. c \in joined /\ c \in store.tracked /\ ~(ts[m] < began - Window)
        BY <1>3, <2>3, <2>4, <3>3 DEF Begin
      <4> QED
        BY <1>1, <2>1, <2>4, <3>1, <4>1 DEF Later, Begin
    <3> QED
      BY <3>2, <3>3
  <2>5. CASE ConsumeCheckpoint
    <3>1. /\ store'.tracked = store.tracked
          /\ \/ store'.covered[c] = store.covered[c]
             \/ /\ c \notin recovering
                /\ store'.covered[c] = Later(store.covered[c], Head(events).at)
      BY <1>1, <2>5, CheckpointMoves
    <3>2. CASE /\ c \notin recovering
               /\ store'.covered[c] = Later(store.covered[c], Head(events).at)
      <4>1. Live(m)
        BY <1>3, <2>5, <3>2
        DEF LeftToRecovery, Missed, Connected, ConsumeCheckpoint, Consuming
      <4>2. Head(events).at \in Nat /\ Head(events).at <= ts[m] + Lag
        BY <2>5, <4>1, BarrierAtHead DEF ConsumeCheckpoint, Consuming
      <4> QED
        BY <1>1, <2>1, <2>5, <3>1, <3>2, <4>2 DEF Later, ConsumeCheckpoint
    <3> QED
      BY <2>1, <2>5, <3>1, <3>2 DEF ConsumeCheckpoint
  <2>6. CASE ConsumeMembership \/ AdoptChannel
    <3>1. PICK cs \in SUBSET Channels :
            /\ Register(cs)
            /\ store'.tracked = store.tracked \union cs
            /\ c \in cs \ store.tracked => store'.covered[c] = clock
            /\ c \notin cs \ store.tracked => store'.covered[c] = store.covered[c]
      BY <1>1, <2>6, RegisterMoves
    <3>2. disk' = disk
      BY <2>6 DEF ConsumeMembership, AdoptChannel
    <3>3. CASE c \in cs \ store.tracked
      <4>1. ~(ts[m] < clock - Overlap)
        BY <1>3, <2>3, <3>1, <3>3 DEF Register, Excuse
      <4> QED
        BY <1>1, <2>1, <3>1, <3>2, <3>3, <4>1
    <3> QED
      BY <2>1, <3>1, <3>2, <3>3
  <2>7. CASE RecoverFinish
    <3>1. /\ store'.tracked = store.tracked
          /\ \/ store'.covered[c] = store.covered[c]
             \/ /\ c = rec.ch
                /\ store'.covered[c] = Later(store.covered[c], began)
      BY <1>1, <2>7, FinishMoves
    <3>2. CASE c = rec.ch /\ store'.covered[c] = Later(store.covered[c], began)
      <4>1. Live(m)
        BY <1>3, <2>7, <3>2 DEF Ahead, Missed, RecoverFinish, Recovering
      <4>2. began <= ts[m]
        BY <4>1 DEF Stream
      <4> QED
        BY <1>1, <2>1, <2>7, <3>1, <3>2, <4>2 DEF Later, RecoverFinish
    <3> QED
      BY <2>1, <2>7, <3>1, <3>2 DEF RecoverFinish
  <2> QED
    BY <2>2, <2>4, <2>5, <2>6, <2>7, StoreMoves
<1> QED
  BY <1>2, <1>3, OpenKept

-----------------------------------------------------------------------------
(***************************************************************************)
(* The theorems.                                                           *)
(***************************************************************************)

\* The invariant holds when the program starts for the first time.
LEMMA InvInit == Init => Inv
<1> SUFFICES ASSUME Init
             PROVE  Inv
  OBVIOUS
<1>1. TypeOK /\ Idle /\ Lock
  BY TypeInit
<1>2. Coverage /\ SuppressedIsHandled
  BY DEF Init, Coverage, Reaches, Posted, SuppressedIsHandled, Seen,
         EmptySnapshot
<1>3. Past
  BY DEF Init, Past, EmptySnapshot
<1>4. Receipt /\ Stream /\ Barriers
  BY DEF Init, Receipt, NoJob, Stream, Live, Queued, Barriers
<1>5. LeftToRecovery /\ Passes /\ Ahead
  BY DEF Init, LeftToRecovery, Subscribed, Connected, Passes, Ahead, Missed,
         Open, Posted, NoRec
<1> QED
  BY <1>1, <1>2, <1>3, <1>4, <1>5 DEF Inv

\* Every step keeps the invariant.
LEMMA InvStep ==
  ASSUME Inv, [Next]_vars
  PROVE  Inv'
<1>1. CASE Next
  BY <1>1, TypeStep, IdleStep, LockStep, PastStep, ReceiptStep, SuppressedStep,
     StreamStep, BarriersStep, LeftStep, PassesStep, AheadStep, CoverageStep
  DEF Inv
<1>2. CASE UNCHANGED vars
  BY <1>2
  DEF vars, slack, conn, tasks, state, history, Inv, TypeOK, Coverage,
      Reaches, Posted, SuppressedIsHandled, Idle, Subscribed, Past, Lock,
      Receipt, Stream, Live, Queued, Barriers, LeftToRecovery, Connected,
      Missed, Open, Settled, Passes, Oldest, Ahead
<1> QED
  BY <1>1, <1>2

\* The invariant holds throughout.
THEOREM InvInvariant == Spec => []Inv
  BY InvInit, InvStep, PTL DEF Spec

\* For any number of channels and messages, queue lengths and faults: a
\* checkpoint, in memory or in the state file, never passes an unharvested
\* message by more than the overlap.
THEOREM CoverageInvariant == Spec => []Coverage
<1>1. Inv => Coverage
  BY DEF Inv
<1> QED
  BY <1>1, InvInvariant, PTL

\* Under the same conditions: only a message whose inserts all succeeded is
\* suppressed as a duplicate, in this process or after a restart.
THEOREM SuppressedInvariant == Spec => []SuppressedIsHandled
<1>1. Inv => SuppressedIsHandled
  BY DEF Inv
<1> QED
  BY <1>1, InvInvariant, PTL
=============================================================================
