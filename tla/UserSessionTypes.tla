-------------------------- MODULE UserSessionTypes --------------------------
(***************************************************************************)
(* Type correctness of UserSession for every value of the constants, with  *)
(* the two invariants it needs: what a task leaves behind when it stops    *)
(* (Idle) and who holds the processing lock (Lock).                        *)
(***************************************************************************)
EXTENDS UserSessionInvariant, TLAPS

-----------------------------------------------------------------------------
(***************************************************************************)
(* What the operations of Store do to a snapshot, for every value of the   *)
(* constants: the lemmas the proofs about UserSession rest on.             *)
(***************************************************************************)

\* Two snapshots with the same channels and checkpoints, of which the first
\* suppresses no more messages than the second.
SameProgress(t, s) ==
  /\ t \in Snapshots
  /\ t.tracked = s.tracked
  /\ t.covered = s.covered
  /\ \A m \in Msgs : Seen(t, m) => Seen(s, m)

\* Store::prune leaves channels and checkpoints alone and only removes
\* entries: it can cost a duplicate, never a message.
LEMMA PrunedFacts ==
  ASSUME NEW s \in Snapshots, NEW at \in Int, NEW t \in Pruned(s, at)
  PROVE  SameProgress(t, s)
<1>1. PICK kept : t = [s EXCEPT !.seen    = Only(s.seen, kept[1]),
                                !.threads = Only(s.threads, kept[2])]
  BY DEF Pruned
<1>2. /\ Only(s.seen, kept[1]) \in [Msgs -> Nat]
      /\ Only(s.threads, kept[2]) \in [Msgs -> Nat]
  BY DEF Only, Snapshots
<1>3. \A m \in Msgs : Only(s.seen, kept[1])[m] > 0 => s.seen[m] > 0
  BY DEF Only, Snapshots
<1> QED
  BY <1>1, <1>2, <1>3 DEF Snapshots, Seen, SameProgress

\* Store::remember_thread touches only the threads.
LEMMA RememberThreadFacts ==
  ASSUME NEW s \in Snapshots, NEW root \in Msgs, NEW at \in Nat,
         NEW t \in RememberThread(s, root, at)
  PROVE  SameProgress(t, s)
<1> DEFINE u == [s EXCEPT !.threads[root] = at]
<1>1. u \in Snapshots /\ u.tracked = s.tracked /\ u.covered = s.covered
      /\ u.seen = s.seen
  BY DEF Snapshots
<1>2. t \in Pruned(u, at) \/ t \in Pruned(s, at)
  BY DEF RememberThread
<1> HIDE DEF u
<1> QED
  BY <1>1, <1>2, PrunedFacts DEF SameProgress, Seen

\* Store::processed leaves channels and checkpoints alone.
LEMMA ProcessedCheckpoints ==
  ASSUME NEW s \in Snapshots, NEW m \in Msgs, NEW roots \in SUBSET Msgs,
         NEW at \in Nat, NEW t \in Processed(s, m, roots, at)
  PROVE  t \in Snapshots /\ t.tracked = s.tracked /\ t.covered = s.covered
<1> DEFINE u == [s EXCEPT
                  !.seen[m] = at,
                  !.threads = [r \in Msgs |->
                     IF r \in roots /\ Tracks(s, r) THEN at ELSE @[r]]]
<1>1. u \in Snapshots /\ u.tracked = s.tracked /\ u.covered = s.covered
  BY DEF Snapshots
<1>2. t \in Pruned(u, at)
  BY DEF Processed
<1> HIDE DEF u
<1> QED
  BY <1>1, <1>2, PrunedFacts DEF SameProgress

\* Store::processed suppresses at most its message in addition.
LEMMA ProcessedSeen ==
  ASSUME NEW s \in Snapshots, NEW m \in Msgs, NEW roots \in SUBSET Msgs,
         NEW at \in Nat, NEW t \in Processed(s, m, roots, at),
         NEW n \in Msgs, n # m, Seen(t, n)
  PROVE  Seen(s, n)
<1> DEFINE u == [s EXCEPT
                  !.seen[m] = at,
                  !.threads = [r \in Msgs |->
                     IF r \in roots /\ Tracks(s, r) THEN at ELSE @[r]]]
<1>1. u \in Snapshots /\ u.seen[n] = s.seen[n]
  BY DEF Snapshots
<1>2. t \in Pruned(u, at)
  BY DEF Processed
<1> HIDE DEF u
<1> QED
  BY <1>1, <1>2, PrunedFacts DEF SameProgress, Seen

\* Advance moves the checkpoints of the given channels to the later of the two
\* times and nothing else.
LEMMA AdvanceFacts ==
  ASSUME NEW s \in Snapshots, NEW cs \in SUBSET Channels, NEW through \in Nat
  PROVE  /\ Advance(s, cs, through) \in Snapshots
         /\ Advance(s, cs, through).tracked = s.tracked
         /\ Advance(s, cs, through).seen = s.seen
  BY DEF Advance, Snapshots, Later

\* Advance moves the checkpoints of the channels it is given, never back.
LEMMA AdvanceCovered ==
  ASSUME NEW s \in Snapshots, NEW cs \in SUBSET Channels, NEW through \in Nat,
         NEW c \in Channels
  PROVE  Advance(s, cs, through).covered[c] =
           IF c \in cs THEN Later(s.covered[c], through) ELSE s.covered[c]
  BY DEF Advance, Snapshots

\* Store::checkpoint touches neither the set of channels nor, but for pruning,
\* the entries.
LEMMA CheckpointFacts ==
  ASSUME NEW s \in Snapshots, NEW R \in SUBSET Channels, NEW F \in SUBSET Channels,
         NEW through \in Nat, NEW at \in Nat,
         NEW t \in Checkpoint(s, R, F, through, at)
  PROVE  t \in Snapshots /\ t.tracked = s.tracked
<1> DEFINE cs == s.tracked \ (R \union F)
           u  == Advance(s, cs, through)
<1>1. cs \in SUBSET Channels
  BY DEF Snapshots
<1>2. /\ u \in Snapshots /\ u.tracked = s.tracked /\ u.seen = s.seen
      /\ \A d \in Channels :
           u.covered[d] = IF d \in cs THEN Later(s.covered[d], through)
                          ELSE s.covered[d]
  BY <1>1, AdvanceFacts, AdvanceCovered
<1>3. t \in Pruned(u, at)
  BY DEF Checkpoint
<1> HIDE DEF u
<1>4. SameProgress(t, u)
  BY <1>2, <1>3, PrunedFacts
<1> QED
  BY <1>2, <1>4 DEF SameProgress

\* checkpoint makes no entry for a message: it can only drop some.
LEMMA CheckpointSeen ==
  ASSUME NEW s \in Snapshots, NEW R \in SUBSET Channels, NEW F \in SUBSET Channels,
         NEW through \in Nat, NEW at \in Nat,
         NEW t \in Checkpoint(s, R, F, through, at),
         NEW m \in Msgs, Seen(t, m)
  PROVE  Seen(s, m)
<1> DEFINE cs == s.tracked \ (R \union F)
           u  == Advance(s, cs, through)
<1>1. cs \in SUBSET Channels
  BY DEF Snapshots
<1>2. /\ u \in Snapshots /\ u.tracked = s.tracked /\ u.seen = s.seen
      /\ \A d \in Channels :
           u.covered[d] = IF d \in cs THEN Later(s.covered[d], through)
                          ELSE s.covered[d]
  BY <1>1, AdvanceFacts, AdvanceCovered
<1>3. t \in Pruned(u, at)
  BY DEF Checkpoint
<1> HIDE DEF u
<1>4. SameProgress(t, u)
  BY <1>2, <1>3, PrunedFacts
<1> QED
  BY <1>2, <1>4 DEF SameProgress, Seen

\* Store::checkpoint moves a checkpoint to the barrier, and not if its channel is
\* recovering or has failed.
LEMMA CheckpointCovered ==
  ASSUME NEW s \in Snapshots, NEW R \in SUBSET Channels, NEW F \in SUBSET Channels,
         NEW through \in Nat, NEW at \in Nat,
         NEW t \in Checkpoint(s, R, F, through, at),
         NEW c \in Channels
  PROVE  \/ t.covered[c] = s.covered[c]
         \/ c \notin R /\ t.covered[c] = Later(s.covered[c], through)
<1> DEFINE cs == s.tracked \ (R \union F)
           u  == Advance(s, cs, through)
<1>1. cs \in SUBSET Channels
  BY DEF Snapshots
<1>2. /\ u \in Snapshots /\ u.tracked = s.tracked /\ u.seen = s.seen
      /\ \A d \in Channels :
           u.covered[d] = IF d \in cs THEN Later(s.covered[d], through)
                          ELSE s.covered[d]
  BY <1>1, AdvanceFacts, AdvanceCovered
<1>3. t \in Pruned(u, at)
  BY DEF Checkpoint
<1> HIDE DEF u
<1>4. SameProgress(t, u)
  BY <1>2, <1>3, PrunedFacts
<1> QED
  BY <1>2, <1>4 DEF SameProgress

\* Store::finish_recovery moves at most the checkpoint of its channel, and not
\* if the channel failed.
LEMMA FinishRecoveryShape ==
  ASSUME NEW s \in Snapshots, NEW c \in Channels, NEW F \in SUBSET Channels,
         NEW through \in Nat
  PROVE  \/ FinishRecovery(s, c, F, through) = s
         \/ /\ c \notin F
            /\ FinishRecovery(s, c, F, through) = Advance(s, {c}, through)
  BY DEF FinishRecovery

\* finish_recovery returns a snapshot and touches nothing but checkpoints.
LEMMA FinishRecoveryType ==
  ASSUME NEW s \in Snapshots, NEW c \in Channels, NEW F \in SUBSET Channels,
         NEW through \in Nat
  PROVE  /\ FinishRecovery(s, c, F, through) \in Snapshots
         /\ FinishRecovery(s, c, F, through).tracked = s.tracked
         /\ FinishRecovery(s, c, F, through).seen = s.seen
<1>1. CASE FinishRecovery(s, c, F, through) = s
  BY <1>1
<1>2. CASE /\ c \notin F
           /\ FinishRecovery(s, c, F, through) = Advance(s, {c}, through)
  <2> DEFINE u == Advance(s, {c}, through)
  <2>1. {c} \in SUBSET Channels
    OBVIOUS
  <2>2. /\ u \in Snapshots /\ u.tracked = s.tracked /\ u.seen = s.seen
        /\ \A e \in Channels :
             u.covered[e] = IF e \in {c} THEN Later(s.covered[e], through)
                            ELSE s.covered[e]
    BY <2>1, AdvanceFacts, AdvanceCovered
  <2> HIDE DEF u
  <2> QED
    BY <1>2, <2>2 DEF u
<1> QED
  BY <1>1, <1>2, FinishRecoveryShape

\* finish_recovery moves at most the checkpoint of its channel, and not if a
\* message of it failed meanwhile.
LEMMA FinishRecoveryCheckpoints ==
  ASSUME NEW s \in Snapshots, NEW c \in Channels, NEW F \in SUBSET Channels,
         NEW through \in Nat, NEW d \in Channels
  PROVE  LET t == FinishRecovery(s, c, F, through)
         IN  \/ t.covered[d] = s.covered[d]
             \/ /\ d = c /\ c \notin F
                /\ t.covered[d] = Later(s.covered[d], through)
<1>1. CASE FinishRecovery(s, c, F, through) = s
  BY <1>1
<1>2. CASE /\ c \notin F
           /\ FinishRecovery(s, c, F, through) = Advance(s, {c}, through)
  <2> DEFINE u == Advance(s, {c}, through)
  <2>1. {c} \in SUBSET Channels
    OBVIOUS
  <2>2. /\ u \in Snapshots /\ u.tracked = s.tracked /\ u.seen = s.seen
        /\ \A e \in Channels :
             u.covered[e] = IF e \in {c} THEN Later(s.covered[e], through)
                            ELSE s.covered[e]
    BY <2>1, AdvanceFacts, AdvanceCovered
  <2> HIDE DEF u
  <2> QED
    BY <1>2, <2>2 DEF u
<1> QED
  BY <1>1, <1>2, FinishRecoveryShape

\* Store::add_channel adds channels.
LEMMA AddChannelsFacts ==
  ASSUME NEW s \in Snapshots, NEW cs \in SUBSET Channels, NEW at \in Nat
  PROVE  /\ AddChannels(s, cs, at) \in Snapshots
         /\ AddChannels(s, cs, at).tracked = s.tracked \union cs
         /\ AddChannels(s, cs, at).seen = s.seen
  BY DEF AddChannels, Snapshots

\* It gives a checkpoint to new channels and leaves those of known ones.
LEMMA AddChannelsCovered ==
  ASSUME NEW s \in Snapshots, NEW cs \in SUBSET Channels, NEW at \in Nat,
         NEW c \in Channels
  PROVE  AddChannels(s, cs, at).covered[c] =
           IF c \in cs \ s.tracked THEN at ELSE s.covered[c]
  BY DEF AddChannels, Snapshots

\* Store::begin_connection tracks the joined channels and no others.
LEMMA BeginConnectionFacts ==
  ASSUME NEW s \in Snapshots, NEW cs \in SUBSET Channels, NEW at \in Nat,
         NEW t \in BeginConnection(s, cs, at)
  PROVE  t \in Snapshots /\ t.tracked = cs
<1> DEFINE cov == [c \in Channels |->
                     IF c \notin cs THEN 0
                     ELSE IF c \in s.tracked THEN Later(s.covered[c], at - Window)
                     ELSE at]
           thr == [m \in Msgs |-> IF ChanOf[m] \in cs THEN s.threads[m] ELSE 0]
           u   == [s EXCEPT !.tracked = cs, !.covered = cov, !.threads = thr]
<1>1. cov \in [Channels -> Nat]
  BY WindowAssumption DEF Snapshots, Later
<1>2. thr \in [Msgs -> Nat]
  BY DEF Snapshots
<1>3. u \in Snapshots /\ u.tracked = cs /\ u.covered = cov /\ u.seen = s.seen
  BY <1>1, <1>2 DEF Snapshots
<1>4. t \in Pruned(u, at)
  BY DEF BeginConnection
<1> HIDE DEF u
<1>5. SameProgress(t, u)
  BY <1>3, <1>4, PrunedFacts
<1> QED
  BY <1>3, <1>5 DEF SameProgress

\* begin_connection makes no entry for a message: it can only drop some.
LEMMA BeginConnectionSeen ==
  ASSUME NEW s \in Snapshots, NEW cs \in SUBSET Channels, NEW at \in Nat,
         NEW t \in BeginConnection(s, cs, at),
         NEW m \in Msgs, Seen(t, m)
  PROVE  Seen(s, m)
<1> DEFINE cov == [c \in Channels |->
                     IF c \notin cs THEN 0
                     ELSE IF c \in s.tracked THEN Later(s.covered[c], at - Window)
                     ELSE at]
           thr == [r \in Msgs |-> IF ChanOf[r] \in cs THEN s.threads[r] ELSE 0]
           u   == [s EXCEPT !.tracked = cs, !.covered = cov, !.threads = thr]
<1>1. cov \in [Channels -> Nat]
  BY WindowAssumption DEF Snapshots, Later
<1>2. thr \in [Msgs -> Nat]
  BY DEF Snapshots
<1>3. u \in Snapshots /\ u.tracked = cs /\ u.covered = cov /\ u.seen = s.seen
  BY <1>1, <1>2 DEF Snapshots
<1>4. t \in Pruned(u, at)
  BY DEF BeginConnection
<1> HIDE DEF u
<1>5. SameProgress(t, u)
  BY <1>3, <1>4, PrunedFacts
<1> QED
  BY <1>3, <1>5 DEF SameProgress, Seen

\* A known channel keeps its checkpoint or is clipped to the window, a new one
\* starts at the connection.
LEMMA BeginConnectionCovered ==
  ASSUME NEW s \in Snapshots, NEW cs \in SUBSET Channels, NEW at \in Nat,
         NEW t \in BeginConnection(s, cs, at),
         NEW c \in Channels
  PROVE  t.covered[c] = IF c \notin cs THEN 0
                        ELSE IF c \in s.tracked
                             THEN Later(s.covered[c], at - Window)
                             ELSE at
<1> DEFINE cov == [d \in Channels |->
                     IF d \notin cs THEN 0
                     ELSE IF d \in s.tracked THEN Later(s.covered[d], at - Window)
                     ELSE at]
           thr == [m \in Msgs |-> IF ChanOf[m] \in cs THEN s.threads[m] ELSE 0]
           u   == [s EXCEPT !.tracked = cs, !.covered = cov, !.threads = thr]
<1>1. cov \in [Channels -> Nat]
  BY WindowAssumption DEF Snapshots, Later
<1>2. thr \in [Msgs -> Nat]
  BY DEF Snapshots
<1>3. u \in Snapshots /\ u.tracked = cs /\ u.covered = cov /\ u.seen = s.seen
  BY <1>1, <1>2 DEF Snapshots
<1>4. t \in Pruned(u, at)
  BY DEF BeginConnection
<1> HIDE DEF u
<1>5. SameProgress(t, u)
  BY <1>3, <1>4, PrunedFacts
<1> QED
  BY <1>3, <1>5 DEF SameProgress

-----------------------------------------------------------------------------

\* Of a queue with more than one entry something is left behind the head.
LEMMA LongTail ==
  ASSUME NEW S, NEW q \in Seq(S), Len(q) > 1
  PROVE  Tail(q) # <<>>
<1>1. Tail(q) \in Seq(S) /\ 1 <= Len(Tail(q))
  OBVIOUS
<1> QED
  BY <1>1

USE ChanOfAssumption, OverlapAssumption, WindowAssumption, RootAssumption,
    NoneAssumption, LagAssumption, QueueAssumption, BoundAssumption
USE DEF SlackType, ConnType, TaskType, StateType, HistoryType

-----------------------------------------------------------------------------
(***************************************************************************)
(* Facts about the building blocks of the actions.                         *)
(***************************************************************************)

\* A job in the worker queue changes its state without becoming another job.
LEMMA JobMoves ==
  ASSUME job \in Jobs, job # NoJob, NEW s \in {"admit", "wait", "ok", "fail"}
  PROVE  [job EXCEPT !.state = s] \in Jobs \ {NoJob}
  BY DEF Jobs, NoJob

\* remember_thread, when process() calls it, touches only the threads.
LEMMA RememberedFacts ==
  ASSUME TypeOK, NEW m \in Msgs, NEW roots \in SUBSET Msgs,
         NEW t \in Remembered(m, roots)
  PROVE  SameProgress(t, store)
<1>1. CASE roots = {}
  BY <1>1 DEF Remembered, TypeOK, SameProgress
<1>2. CASE roots # {}
  BY <1>2, RememberThreadFacts DEF Remembered, TypeOK
<1> QED
  BY <1>1, <1>2

\* Stepping over the head of the event queue keeps the order of the rest.
LEMMA TailOfEvents ==
  ASSUME events \in Seq(Events), events # <<>>
  PROVE  /\ Tail(events) \in Seq(Events)
         /\ Len(Tail(events)) = Len(events) - 1
         /\ \A i \in 1..Len(Tail(events)) : Tail(events)[i] = events[i + 1]
  OBVIOUS

\* Giving up on messages keeps the type of the excuses.
LEMMA ExcuseType ==
  ASSUME TypeOK, NEW M, NEW why \in Excuses, Excuse(M, why)
  PROVE  excuse' \in [Msgs -> Excuses]
  BY DEF TypeOK, Excuse

\* The actions that end a connection from outside its tasks or inside them
TearDown == Disconnect \/ Shutdown \/ Overrun \/ LiveFail \/ Crash

\* Whatever ends a connection drops everything that belongs to it.
LEMMA TearDownFacts ==
  ASSUME TearDown
  PROVE  /\ wire' = {} /\ moved' = 0
         /\ events' = <<>> /\ began' = 0 /\ ping' = 0 /\ pending' = 0
         /\ consumer' = "recv" /\ pass' = {} /\ rec' = NoRec /\ job' = NoJob
         /\ phase' \in {"closing", "draining", "down"}
         /\ UNCHANGED <<clock, joined, ts, disk, rows, handled, excuse>>
         /\ store' \in {store, disk}
  BY DEF TearDown, Disconnect, Shutdown, Overrun, Overflow, LiveFail, Crash,
         Reconnect, DropConnection, ForgetProcess, state

\* Only a crash among them loses what was not saved.
LEMMA TearDownStore ==
  ASSUME TearDown
  PROVE  store' = store \/ (Crash /\ store' = disk)
<1>1. Crash => store' = disk
  BY DEF Crash
<1>2. Disconnect \/ Shutdown \/ Overrun \/ LiveFail => store' = store
  BY DEF Disconnect, Shutdown, Overrun, LiveFail, state
<1> QED
  BY <1>1, <1>2 DEF TearDown

-----------------------------------------------------------------------------
(***************************************************************************)
(* Type correctness, one lemma per action that needs more than its         *)
(* definition.                                                             *)
(***************************************************************************)

\* A tuple of variables that does not change keeps its type.
LEMMA SameType ==
  /\ SlackType /\ UNCHANGED slack => SlackType'
  /\ ConnType /\ UNCHANGED conn => ConnType'
  /\ TaskType /\ UNCHANGED tasks => TaskType'
  /\ StateType /\ UNCHANGED state => StateType'
  /\ HistoryType /\ UNCHANGED history => HistoryType'
  BY DEF slack, conn, tasks, state, history

\* Ending a connection
LEMMA TypeTearDown ==
  ASSUME TypeOK, TearDown
  PROVE  TypeOK'
<1> USE DEF TypeOK
<1>1. unsure' \in SUBSET Msgs
  <2>1. job.m \in Msgs \union {NoMsg}
    BY DEF Jobs, NoJob
  <2> QED
    BY <2>1 DEF TearDown, Disconnect, Shutdown, Overrun, Overflow, LiveFail,
                Crash, Reconnect, DropConnection
<1>2. /\ members' \in {members, {}}
      /\ queue' \in {queue, <<>>}
      /\ faults' \in {faults, faults + 1}
  BY DEF TearDown, Disconnect, Shutdown, Overrun, LiveFail, Crash,
         ForgetProcess, Fault
<1>3. recovering' \in SUBSET Channels /\ failed' \in SUBSET Channels
  BY DEF TearDown, Disconnect, Shutdown, Overrun, LiveFail, Crash,
         ForgetProcess, state, Snapshots
<1>4. NoRec \in Recs /\ NoJob \in Jobs
  BY DEF NoRec, Recs, Jobs
<1>5. SlackType'
  BY <1>2, TearDownFacts
<1>6. ConnType'
  BY <1>2, TearDownFacts DEF Phases
<1>7. TaskType' /\ StateType' /\ HistoryType'
  BY <1>1, <1>3, <1>4, TearDownFacts
<1>8. queue' \in Seq(Msgs)
  <2>1. <<>> \in Seq(Msgs)
    OBVIOUS
  <2> QED
    BY <1>2, <2>1
<1> QED
  BY <1>5, <1>6, <1>7, <1>8

\* The steps of main
LEMMA TypeMain ==
  ASSUME TypeOK, Main
  PROVE  TypeOK'
<1> USE DEF TypeOK
<1>1. CASE Begin
  <2>1. store' \in Snapshots
    BY <1>1, BeginConnectionFacts DEF Begin
  <2>2. excuse' \in [Msgs -> Excuses]
    BY <1>1 DEF Begin, Excuses
  <2>3. recovering' \in SUBSET Channels /\ failed' \in SUBSET Channels
    BY <1>1 DEF Begin
  <2> QED
    BY <1>1, <2>1, <2>2, <2>3 DEF Begin, slack, tasks, Phases
<1>2. CASE Hello
  <2>1. excuse' \in [Msgs -> Excuses]
    BY <1>2, ExcuseType DEF Hello, Excuses
  <2> QED
    BY <1>2, <2>1, SameType DEF Hello, Phases
<1>3. CASE Start \/ Dial
  BY <1>3, SameType DEF Start, Dial, Phases
<1>4. CASE BeginSave \/ CloseSave
  BY <1>4, SameType DEF BeginSave, CloseSave, Phases
<1>5. CASE Exit
  BY <1>5, SameType DEF Exit, ForgetProcess, Phases
<1> QED
  BY <1>1, <1>2, <1>3, <1>4, <1>5 DEF Main

\* Slack, the reader and the heartbeat
LEMMA TypeFrames ==
  ASSUME TypeOK,
         Slack \/ (\E m \in Msgs : Deliver(m)) \/ DeliverMembership \/ Beat
  PROVE  TypeOK'
<1> USE DEF TypeOK
<1>1. ASSUME NEW m \in Msgs, Post(m) PROVE TypeOK'
  BY <1>1, SameType DEF Post, conn, tasks, state, Excuses
<1>2. CASE Tick
  BY <1>2, SameType DEF Tick
<1>8. ASSUME NEW c \in Channels, Move(c) PROVE TypeOK'
  BY <1>8, SameType DEF Move, Fault
<1>3. ASSUME NEW event \in Events, Enqueue(event) PROVE events' \in Seq(Events)
  BY <1>3 DEF Enqueue
<1>4. ASSUME NEW m \in Msgs, Deliver(m) PROVE TypeOK'
  <2>1. events' \in Seq(Events)
    BY <1>3, <1>4 DEF Deliver, MessageEvent, Events
  <2> QED
    BY <1>4, <2>1, SameType DEF Deliver
<1>5. CASE DeliverMembership
  <2>1. events' \in Seq(Events)
    BY <1>3, <1>5 DEF DeliverMembership, Membership, Events
  <2> QED
    BY <1>5, <2>1, SameType DEF DeliverMembership
<1>6. CASE Ping
  BY <1>6, SameType DEF Ping
<1>7. CASE Pong
  <2>1. events' \in Seq(Events)
    BY <1>3, <1>7 DEF Pong, Barrier, Events
  <2> QED
    BY <1>7, <2>1, SameType DEF Pong
<1> QED
  BY <1>1, <1>2, <1>4, <1>5, <1>6, <1>7, <1>8 DEF Slack, Beat

\* The worker and the receipts
LEMMA TypeWorker ==
  ASSUME TypeOK, Admit \/ Timeout \/ WorkerInsert \/ WorkerFail
  PROVE  TypeOK'
<1> USE DEF TypeOK
<1>1. job' \in Jobs
  <2>1. \/ job' = job
        \/ job.state \in {"admit", "wait"}
           /\ \E s \in {"wait", "ok", "fail"} : job' = [job EXCEPT !.state = s]
    BY DEF Admit, Timeout, WorkerInsert, WorkerFail, Answer
  <2>2. job.state \in {"admit", "wait"} => job # NoJob
    BY DEF NoJob
  <2> QED
    BY <2>1, <2>2, JobMoves
<1>2. CASE Admit
  <2>1. job.m \in Msgs
    BY <1>2, SMTT(40) DEF Admit, Jobs, NoJob
  <2>2. queue' \in Seq(Msgs)
    BY <1>2, <2>1 DEF Admit
  <2> QED
    BY <1>1, <1>2, <2>2, SameType DEF Admit
<1>3. CASE Timeout
  <2>1. SlackType'
    BY <1>3, SMTT(40) DEF Timeout, Fault
  <2>2. TaskType'
    BY <1>1, <1>3 DEF Timeout
  <2> QED
    BY <1>3, <2>1, <2>2, SameType DEF Timeout
<1>4. CASE WorkerInsert \/ WorkerFail
  <2>1. queue # <<>>
    BY <1>4 DEF WorkerInsert, WorkerFail
  <2>2. Head(queue) \in Msgs /\ Tail(queue) \in Seq(Msgs)
    BY <2>1
  <2>3. MoreRows(Head(queue)) \in [Msgs -> 0..2]
    <3>1. \A n \in 0..2 : (IF n = 2 THEN 2 ELSE n + 1) \in 0..2
      OBVIOUS
    <3> QED
      BY <2>2, <3>1 DEF MoreRows
  <2>4. HistoryType' /\ queue' \in Seq(Msgs)
    BY <1>4, <2>2, <2>3 DEF WorkerInsert, WorkerFail
  <2>5. SlackType'
    BY <1>4 DEF WorkerInsert, WorkerFail, Fault, slack
  <2> QED
    BY <1>1, <1>4, <2>4, <2>5, SameType DEF WorkerInsert, WorkerFail
<1> QED
  BY <1>2, <1>3, <1>4

\* What process() does to the recovery state before it submits a message or
\* skips it: it may remember the thread.
LEMMA ProcessFacts ==
  ASSUME TypeOK,
         LiveSubmit \/ LiveDuplicate \/ RecoverSubmit \/ RecoverDuplicate
  PROVE  \E m \in Msgs, roots \in SUBSET Msgs :
           /\ store' \in Remembered(m, roots)
           /\ job' = job \/ \E by \in {"live", "recovery"} : Submit(by, m, roots)
<1> USE DEF TypeOK
<1>1. CASE LiveSubmit \/ LiveDuplicate
  BY <1>1 DEF LiveSubmit, LiveDuplicate, Consuming, LiveRoots, Events, tasks
<1>2. \A m \in rec.todo : m \in Msgs /\ FetchedRoots(m) \in SUBSET Msgs
  BY DEF FetchedRoots, Recs
<1>3. CASE RecoverSubmit
  <2>1. PICK m \in rec.todo : /\ store' \in Remembered(m, FetchedRoots(m))
                             /\ Submit("recovery", m, FetchedRoots(m))
    BY <1>3 DEF RecoverSubmit
  <2> QED
    BY <1>2, <2>1
<1>4. CASE RecoverDuplicate
  <2>1. PICK m \in rec.todo : store' \in Remembered(m, FetchedRoots(m))
    BY <1>4 DEF RecoverDuplicate
  <2> QED
    BY <1>2, <1>4, <2>1 DEF RecoverDuplicate
<1> QED
  BY <1>1, <1>3, <1>4

\* process(), up to the worker queue
LEMMA TypeProcess ==
  ASSUME TypeOK,
         LiveSubmit \/ LiveDuplicate \/ RecoverSubmit \/ RecoverDuplicate
  PROVE  TypeOK'
<1> USE DEF TypeOK
<1>1. \E m \in Msgs, roots \in SUBSET Msgs :
        /\ store' \in Remembered(m, roots)
        /\ job' = job \/ \E by \in {"live", "recovery"} : Submit(by, m, roots)
  BY ProcessFacts
<1>2. store' \in Snapshots
  BY <1>1, RememberedFacts DEF SameProgress
<1>3. job' \in Jobs
  BY <1>1 DEF Submit, Jobs
<1>4. events' \in Seq(Events)
  <2>1. events' = events \/ (events # <<>> /\ events' = Tail(events))
    BY DEF LiveSubmit, LiveDuplicate, Consuming, RecoverSubmit,
           RecoverDuplicate, conn
  <2> QED
    BY <2>1, TailOfEvents
<1>5. rec' \in Recs
  <2>1. CASE RecoverDuplicate
    <3>1. PICK m \in rec.todo : rec' = [rec EXCEPT !.todo = @ \ {m}]
      BY <2>1 DEF RecoverDuplicate
    <3> QED
      BY <3>1 DEF Recs
  <2> QED
    BY <2>1 DEF LiveSubmit, LiveDuplicate, RecoverSubmit, tasks
<1> QED
  BY <1>2, <1>3, <1>4, <1>5
  DEF LiveSubmit, LiveDuplicate, RecoverSubmit, RecoverDuplicate, slack, conn,
      tasks, state, history

\* processed(), after a receipt that says ok
LEMMA TypeDone ==
  ASSUME TypeOK, Lock, LiveDone \/ RecoverDone
  PROVE  TypeOK'
<1> USE DEF TypeOK
<1>1. job.m \in Msgs /\ job.roots \in SUBSET Msgs
  BY DEF LiveDone, RecoverDone, Jobs, NoJob
<1>2. store' \in Snapshots
  BY <1>1, ProcessedCheckpoints DEF LiveDone, RecoverDone
<1>3. job' \in Jobs
  BY DEF LiveDone, RecoverDone, Jobs
<1>4. CASE LiveDone
  <2>1. events # <<>> /\ events' = Tail(events)
    BY <1>4 DEF LiveDone, Lock
  <2>2. events' \in Seq(Events)
    BY <2>1, TailOfEvents
  <2> QED
    BY <1>2, <1>3, <1>4, <2>2, SameType DEF LiveDone
<1>5. CASE RecoverDone
  <2>1. rec' = [rec EXCEPT !.todo = @ \ {job.m}]
    BY <1>5 DEF RecoverDone
  <2>2. rec' \in Recs
    BY <2>1 DEF Recs
  <2> QED
    BY <1>2, <1>3, <1>5, <2>2, SameType DEF RecoverDone
<1> QED
  BY <1>4, <1>5

\* The other steps of the consumer
LEMMA TypeConsumer ==
  ASSUME TypeOK, Lock,
         ConsumeCheckpoint \/ ConsumerSave \/ ConsumeMembership \/ AdoptChannel
           \/ SkipStranger
  PROVE  TypeOK'
<1> USE DEF TypeOK
<1>1. events # <<>>
  BY DEF ConsumeCheckpoint, ConsumerSave, ConsumeMembership, AdoptChannel,
         SkipStranger, Consuming, Lock
<1>2. CASE ConsumeCheckpoint
  <2>1. Head(events).at \in Nat
    <3>1. Head(events) \in Events
      BY <1>1
    <3> QED
      BY <3>1 DEF Events
  <2>2. \A through \in Nat :
          \A t \in Checkpoint(store, recovering, failed, through, clock) :
            t \in Snapshots
    BY CheckpointFacts
  <2>3. store' \in Snapshots
    BY <1>2, <2>1, <2>2 DEF ConsumeCheckpoint
  <2> QED
    BY <1>2, <2>3, SameType DEF ConsumeCheckpoint
<1>3. CASE ConsumerSave
  BY <1>1, <1>3, TailOfEvents, SameType DEF ConsumerSave
<1>4. ASSUME NEW cs \in SUBSET Channels, Register(cs)
      PROVE  store' \in Snapshots /\ excuse' \in [Msgs -> Excuses]
  <2>1. store' \in Snapshots
    BY <1>4, AddChannelsFacts DEF Register
  <2>2. excuse' \in [Msgs -> Excuses]
    BY <1>4, ExcuseType DEF Register, Excuses
  <2> QED
    BY <2>1, <2>2
<1>5. CASE ConsumeMembership
  BY <1>1, <1>4, <1>5, TailOfEvents, SameType DEF ConsumeMembership
<1>6. CASE AdoptChannel
  <2>1. ChanOf[Head(events).m] \in joined
    BY <1>6 DEF AdoptChannel
  <2> QED
    BY <1>4, <1>6, <2>1, SameType DEF AdoptChannel
<1>7. CASE SkipStranger
  <2>1. excuse' \in [Msgs -> Excuses]
    BY <1>7, ExcuseType DEF SkipStranger, Excuses
  <2> QED
    BY <1>1, <1>7, <2>1, TailOfEvents, SameType DEF SkipStranger
<1> QED
  BY <1>2, <1>3, <1>5, <1>6, <1>7

\* The other steps of recovery
LEMMA TypeRecovery ==
  ASSUME TypeOK,
         RecoverPass \/ RecoverSkip \/ RecoverStart \/ FetchHistory
           \/ RecoverFail \/ RecoverThreads \/ FetchReplies \/ ThreadGone
           \/ RecoverFinish \/ RecoverSave \/ RecoverError
  PROVE  TypeOK'
<1> USE DEF TypeOK
<1>1. NoRec \in Recs /\ NoJob \in Jobs
  BY DEF NoRec, Recs, Jobs
<1>2. CASE RecoverPass
  <2>1. \A c \in recovering : store.covered[c] \in Nat
    BY DEF Snapshots
  <2>2. pass' \in SUBSET (Channels \X Nat)
    BY <1>2, <2>1 DEF RecoverPass
  <2> QED
    BY <1>2, <2>2, SameType DEF RecoverPass
<1>3. CASE RecoverSkip
  BY <1>3, SameType DEF RecoverSkip
<1>4. CASE RecoverStart
  <2>1. PICK p \in pass :
          /\ pass' = pass \ {p}
          /\ rec' = [NoRec EXCEPT !.stage = "history", !.ch = p[1],
                                  !.oldest = Oldest(p[2])]
          /\ failed' = failed \ {p[1]}
    BY <1>4 DEF RecoverStart
  <2>2. p[1] \in Channels /\ Oldest(p[2]) \in Nat
    BY DEF Oldest, Later
  <2>3. rec' \in Recs
    BY <2>1, <2>2 DEF NoRec, Recs
  <2>4. pass' \in SUBSET (Channels \X Nat) /\ failed' \in SUBSET Channels
    BY <2>1
  <2> QED
    BY <1>4, <2>3, <2>4, SameType DEF RecoverStart
<1>5. CASE FetchHistory
  <2>1. rec' \in Recs
    BY <1>5 DEF FetchHistory, Recs
  <2> QED
    BY <1>5, <2>1, SameType DEF FetchHistory
<1>6. CASE RecoverFail
  <2>1. job.m \in Msgs
    BY <1>6 DEF RecoverFail, Jobs, NoJob
  <2>2. failed' \in SUBSET Channels
    BY <1>6 DEF RecoverFail, Snapshots
  <2>3. unsure' \in SUBSET Msgs
    BY <1>6, <2>1 DEF RecoverFail
  <2>4. SlackType' /\ ConnType' /\ queue' \in Seq(Msgs)
    BY <1>6 DEF RecoverFail, slack, conn
  <2>5. TaskType' /\ StateType' /\ HistoryType'
    BY <1>1, <1>6, <2>2, <2>3 DEF RecoverFail
  <2> QED
    BY <2>4, <2>5
<1>7. CASE RecoverThreads
  <2>1. rec' \in Recs
    BY <1>7 DEF RecoverThreads, Threads, Recs
  <2>2. excuse' \in [Msgs -> Excuses]
    BY <1>7, ExcuseType DEF RecoverThreads, Excuses
  <2> QED
    BY <1>7, <2>1, <2>2, SameType DEF RecoverThreads
<1>8. CASE FetchReplies
  <2>1. PICK r \in rec.threads :
          rec' = [rec EXCEPT !.threads = @ \ {r},
                             !.todo = {m \in Msgs : RootOf[m] = r /\ InRange(m)},
                             !.parents = @ \union {r}]
    BY <1>8 DEF FetchReplies
  <2>2. rec' \in Recs
    BY <2>1 DEF Recs
  <2> QED
    BY <1>8, <2>2, SameType DEF FetchReplies
<1>9. CASE ThreadGone
  <2>1. PICK r \in rec.threads :
          /\ rec' = [rec EXCEPT !.threads = @ \ {r}]
          /\ store' = ForgetThread(store, r)
          /\ Excuse({m \in Msgs : RootOf[m] = r}, "thread")
    BY <1>9 DEF ThreadGone
  <2>2. rec' \in Recs
    BY <2>1 DEF Recs
  <2>3. store' \in Snapshots
    BY <2>1 DEF Recs, ForgetThread, Snapshots
  <2>4. excuse' \in [Msgs -> Excuses]
    <3>1. "thread" \in Excuses
      BY DEF Excuses
    <3> QED
      BY <2>1, <3>1, ExcuseType
  <2>5. SlackType'
    BY <1>9 DEF ThreadGone, Fault
  <2>6. TaskType' /\ StateType' /\ HistoryType'
    BY <1>9, <2>2, <2>3, <2>4 DEF ThreadGone
  <2> QED
    BY <1>9, <2>5, <2>6, SameType DEF ThreadGone
<1>10. CASE RecoverFinish
  <2>1. rec' \in Recs
    BY <1>10 DEF RecoverFinish, Recs
  <2>2. store' \in Snapshots
    <3>1. CASE rec.ch \in Channels
      <4>1. \A c \in Channels :
              FinishRecovery(store, c, failed, began) \in Snapshots
        BY FinishRecoveryType
      <4> QED
        BY <1>10, <3>1, <4>1 DEF RecoverFinish
    <3>2. CASE rec.ch \notin Channels
      BY <1>10, <3>2 DEF RecoverFinish, FinishRecovery, Snapshots
    <3> QED
      BY <3>1, <3>2
  <2>3. recovering' \in SUBSET Channels
    BY <1>10 DEF RecoverFinish
  <2> QED
    BY <1>10, <2>1, <2>2, <2>3, SameType DEF RecoverFinish
<1>11. CASE RecoverSave
  BY <1>1, <1>11, SameType DEF RecoverSave
<1>12. CASE RecoverError
  <2>1. pass' \in {pass, {}} /\ rec' = NoRec /\ faults' = faults + 1
    BY <1>12 DEF RecoverError, Fault
  <2>2. TaskType' /\ SlackType'
    BY <1>1, <1>12, <2>1 DEF RecoverError
  <2> QED
    BY <1>12, <2>2, SameType DEF RecoverError
<1> QED
  BY <1>2, <1>3, <1>4, <1>5, <1>6, <1>7, <1>8, <1>9, <1>10, <1>11, <1>12

\* Every step keeps the types.
LEMMA TypeStep ==
  ASSUME TypeOK, Lock, Next
  PROVE  TypeOK'
  BY TypeTearDown, TypeMain, TypeFrames, TypeWorker, TypeProcess, TypeDone,
     TypeConsumer, TypeRecovery
  DEF Next, Abort, Read, Consumer, Recovery, Mishap, Worker, TearDown

-----------------------------------------------------------------------------
(***************************************************************************)
(* Idle and Lock.                                                          *)
(***************************************************************************)

\* Nothing of a connection or of its tasks outlives it.
LEMMA IdleStep ==
  ASSUME TypeOK, Idle, Next
  PROVE  Idle'
<1> USE DEF Idle, Subscribed
<1>1. CASE TearDown
  BY <1>1, TearDownFacts
<1>2. CASE Slack
  <2>1. UNCHANGED <<conn, tasks>>
    BY <1>2 DEF Slack, Tick, Post, Move
  <2>2. ~Subscribed => wire' = wire
    BY <1>2 DEF Slack, Tick, Post, Move
  <2> QED
    BY <2>1, <2>2 DEF conn, tasks
<1>3. CASE Main
  BY <1>3
  DEF Main, Start, Dial, Hello, Begin, BeginSave, CloseSave, Exit,
      ForgetProcess, slack, tasks
<1>4. CASE (\E m \in Msgs : Deliver(m)) \/ DeliverMembership \/ Beat
  BY <1>4 DEF Deliver, DeliverMembership, Beat, Ping, Pong, tasks, slack
<1>5. CASE Admit \/ Timeout \/ WorkerInsert \/ WorkerFail
  <2>1. job' # job => job # NoJob
    BY <1>5 DEF Admit, Timeout, WorkerInsert, WorkerFail, Answer, NoJob
  <2> QED
    BY <1>5, <2>1 DEF Admit, Timeout, WorkerInsert, WorkerFail, conn, slack
<1>6. CASE ConsumeCheckpoint \/ ConsumerSave \/ ConsumeMembership
      \/ AdoptChannel \/ SkipStranger \/ LiveDuplicate \/ LiveSubmit
      \/ LiveDone
  <2>1. phase = "running"
    BY <1>6
    DEF ConsumeCheckpoint, ConsumerSave, ConsumeMembership, AdoptChannel,
        SkipStranger, LiveDuplicate, LiveSubmit, LiveDone, Consuming, NoJob
  <2>2. phase' = phase
    BY <1>6
    DEF ConsumeCheckpoint, ConsumerSave, ConsumeMembership, AdoptChannel,
        SkipStranger, LiveDuplicate, LiveSubmit, LiveDone, conn
  <2> QED
    BY <2>1, <2>2
<1>7. CASE Recovery \/ ThreadGone \/ RecoverError
  <2>1. phase = "running"
    <3>1. CASE RecoverDone \/ RecoverFail
      BY <3>1 DEF RecoverDone, RecoverFail, NoJob
    <3>2. CASE ~(RecoverDone \/ RecoverFail)
      BY <1>7, <3>2
      DEF Recovery, RecoverPass, RecoverSkip, RecoverStart, FetchHistory,
          RecoverDuplicate, RecoverSubmit, RecoverThreads, FetchReplies,
          RecoverFinish, RecoverSave, ThreadGone, RecoverError, Recovering
    <3> QED
      BY <3>1, <3>2
  <2>2. phase' = phase
    BY <1>7
    DEF Recovery, RecoverPass, RecoverSkip, RecoverStart, FetchHistory,
        RecoverDuplicate, RecoverSubmit, RecoverDone, RecoverFail,
        RecoverThreads, FetchReplies, RecoverFinish, RecoverSave, ThreadGone,
        RecoverError, conn
  <2> QED
    BY <2>1, <2>2
<1> QED
  BY <1>1, <1>2, <1>3, <1>4, <1>5, <1>6, <1>7
  DEF Next, Abort, Read, Consumer, Mishap, Worker, TearDown

\* The message in hand is the one at the head of the event queue or one of
\* those that recovery has fetched.
LEMMA LockStep ==
  ASSUME TypeOK, Lock, Next
  PROVE  Lock'
<1> USE DEF Lock
<1>1. CASE TearDown
  BY <1>1, TearDownFacts DEF NoRec, NoJob
<1>2. CASE UNCHANGED <<consumer, rec, job, events>>
  BY <1>2
<1>3. CASE (\E m \in Msgs : Deliver(m)) \/ DeliverMembership \/ Pong
  <2>1. PICK e \in Events : events' = Append(events, e)
    BY <1>3
    DEF Deliver, DeliverMembership, Pong, Enqueue, MessageEvent, Membership,
        Barrier, Events, TypeOK
  <2>2. events # <<>> => events' # <<>> /\ Head(events') = Head(events)
    BY <2>1 DEF TypeOK
  <2>3. UNCHANGED <<consumer, rec, job>>
    BY <1>3 DEF Deliver, DeliverMembership, Pong, tasks
  <2> QED
    BY <2>2, <2>3
<1>4. CASE Admit \/ Timeout \/ WorkerInsert \/ WorkerFail
  <2>1. job'.by = job.by /\ job'.m = job.m
    BY <1>4
    DEF Admit, Timeout, WorkerInsert, WorkerFail, Answer, TypeOK, Jobs, NoJob
  <2> QED
    BY <1>4, <2>1 DEF Admit, Timeout, WorkerInsert, WorkerFail, conn
<1>5. CASE ConsumeCheckpoint \/ ConsumerSave \/ ConsumeMembership
      \/ SkipStranger \/ LiveDuplicate \/ LiveDone
  <2>1. consumer' = "save" =>
          events' = events /\ events # <<>> /\ Head(events).kind = "checkpoint"
    BY <1>5
    DEF ConsumeCheckpoint, ConsumerSave, ConsumeMembership, SkipStranger,
        LiveDuplicate, LiveDone, Consuming, conn, tasks
  <2>2. job'.by # "live"
    BY <1>5
    DEF ConsumeCheckpoint, ConsumerSave, ConsumeMembership, SkipStranger,
        LiveDuplicate, LiveDone, Consuming, NoJob, tasks
  <2>3. rec' = rec /\ (job'.by = "recovery" => job' = job)
    BY <1>5
    DEF ConsumeCheckpoint, ConsumerSave, ConsumeMembership, SkipStranger,
        LiveDuplicate, LiveDone, NoJob, tasks
  <2> QED
    BY <2>1, <2>2, <2>3
<1>6. CASE LiveSubmit
  BY <1>6 DEF LiveSubmit, Consuming, Submit, conn, TypeOK, Events, MessageEvent
<1>7. CASE RecoverStart \/ FetchHistory \/ RecoverThreads \/ FetchReplies
      \/ RecoverFinish \/ RecoverSave \/ ThreadGone \/ RecoverError
  <2>1. UNCHANGED <<consumer, events, job>>
    BY <1>7
    DEF RecoverStart, FetchHistory, RecoverThreads, FetchReplies,
        RecoverFinish, RecoverSave, ThreadGone, RecoverError, conn
  <2>2. job.by # "recovery"
    BY <1>7
    DEF RecoverStart, FetchHistory, RecoverThreads, FetchReplies,
        RecoverFinish, RecoverSave, ThreadGone, RecoverError, Recovering,
        NoRec
  <2>3. \/ rec' = NoRec
        \/ rec'.stage \in {"pages", "replies"}
        \/ rec'.stage # "idle" /\ rec'.todo = {}
    <3>1. CASE RecoverStart
      BY <3>1 DEF RecoverStart, NoRec
    <3>2. CASE FetchHistory
      BY <3>2 DEF FetchHistory, TypeOK, Recs
    <3>3. CASE RecoverThreads \/ RecoverFinish \/ ThreadGone
      BY <3>3
      DEF RecoverThreads, RecoverFinish, ThreadGone, Recovering, TypeOK, Recs
    <3>4. CASE FetchReplies
      BY <3>4 DEF FetchReplies, Recovering, TypeOK, Recs
    <3>5. CASE RecoverSave \/ RecoverError
      BY <3>5 DEF RecoverSave, RecoverError, NoRec
    <3> QED
      BY <1>7, <3>1, <3>2, <3>3, <3>4, <3>5
  <2> QED
    BY <2>1, <2>2, <2>3 DEF NoRec
<1>8. CASE RecoverDuplicate \/ RecoverSubmit \/ RecoverDone \/ RecoverFail
  <2>1. UNCHANGED <<consumer, events>>
    BY <1>8 DEF RecoverDuplicate, RecoverSubmit, RecoverDone, RecoverFail, conn
  <2>2. job'.by # "live"
    BY <1>8
    DEF RecoverDuplicate, RecoverSubmit, RecoverDone, RecoverFail, Unlocked,
        Submit, NoJob
  <2>3. job'.by = "recovery" => job'.m \in rec'.todo
    BY <1>8
    DEF RecoverDuplicate, RecoverSubmit, RecoverDone, RecoverFail, Unlocked,
        Submit, NoJob
  <2>4. \/ rec' = rec \/ rec' = NoRec
        \/ /\ rec'.stage = rec.stage /\ rec.stage # "idle"
           /\ rec'.todo \subseteq rec.todo
    <3>1. CASE RecoverDuplicate
      BY <3>1 DEF RecoverDuplicate, TypeOK, Recs, NoRec
    <3>2. CASE RecoverDone
      BY <3>2 DEF RecoverDone, TypeOK, Recs, NoRec
    <3> QED
      BY <1>8, <3>1, <3>2 DEF RecoverSubmit, RecoverFail
  <2> QED
    BY <2>1, <2>2, <2>3, <2>4 DEF NoRec
<1>9. Next => \/ TearDown \/ UNCHANGED <<consumer, rec, job, events>>
              \/ (\E m \in Msgs : Deliver(m)) \/ DeliverMembership \/ Pong
              \/ Admit \/ Timeout \/ WorkerInsert \/ WorkerFail
              \/ ConsumeCheckpoint \/ ConsumerSave \/ ConsumeMembership
              \/ SkipStranger \/ LiveDuplicate \/ LiveDone \/ LiveSubmit
              \/ RecoverStart \/ FetchHistory \/ RecoverThreads \/ FetchReplies
              \/ RecoverFinish \/ RecoverSave \/ ThreadGone \/ RecoverError
              \/ RecoverDuplicate \/ RecoverSubmit \/ RecoverDone \/ RecoverFail
  BY DEF Next, Slack, Tick, Post, Move, Main, Start, Dial, Hello, Begin,
         BeginSave, CloseSave, Exit, Abort, Read, Beat, Ping, Consumer,
         AdoptChannel, Recovery, RecoverPass, RecoverSkip, Mishap, Worker,
         TearDown, conn, tasks
<1> QED
  BY <1>1, <1>2, <1>3, <1>4, <1>5, <1>6, <1>7, <1>8, <1>9

-----------------------------------------------------------------------------
\* The program starts with the right types and nothing in hand.
LEMMA TypeInit == Init => TypeOK /\ Idle /\ Lock
<1> SUFFICES ASSUME Init
             PROVE  TypeOK /\ Idle /\ Lock
  OBVIOUS
<1> USE DEF Init
<1>1. NoRec \in Recs /\ NoJob \in Jobs /\ EmptySnapshot \in Snapshots
  BY DEF NoRec, Recs, Jobs, EmptySnapshot, Snapshots
<1>2. TypeOK
  BY <1>1 DEF TypeOK, Phases, Excuses
<1>3. Idle /\ Lock
  BY DEF Idle, Lock, NoRec, NoJob
<1> QED
  BY <1>2, <1>3

\* Whatever connections, crashes, failures and tasks do, the variables keep
\* their types, nothing outlives a connection, and the holder of the lock has
\* its message where it took it from.
LEMMA TypeInvariant == Spec => [](TypeOK /\ Idle /\ Lock)
<1>1. Init => TypeOK /\ Idle /\ Lock
  BY TypeInit
<1>2. TypeOK /\ Idle /\ Lock /\ [Next]_vars => (TypeOK /\ Idle /\ Lock)'
  <2>1. CASE UNCHANGED vars
    BY <2>1 DEF vars, slack, conn, tasks, state, history, TypeOK, Idle, Lock,
                Subscribed
  <2>2. CASE Next
    BY <2>2, TypeStep, IdleStep, LockStep
  <2> QED
    BY <2>1, <2>2
<1> QED
  BY <1>1, <1>2, PTL DEF Spec

\* Type correctness of the session.
THEOREM TypeCorrect == Spec => []TypeOK
  BY TypeInvariant, PTL
====
