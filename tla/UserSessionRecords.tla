------------------------- MODULE UserSessionRecords -------------------------
(***************************************************************************)
(* What the records of a user session are worth, for every value of the    *)
(* constants: the state file can be opened again and takes no checkpoint   *)
(* back, recovery works from fresh checkpoints, a message is inserted      *)
(* again only for a reason, and a reply is given up only for one.          *)
(*                                                                         *)
(* UserSessionInvariant!Records is inductive together with the invariant   *)
(* of UserSessionProofs.  The first part is about the two tables of a      *)
(* snapshot and how pruning treats them, the second has one lemma per      *)
(* conjunct of Records.                                                    *)
(***************************************************************************)
EXTENDS UserSessionProofs, FiniteSetTheorems, SequenceTheorems

USE ChanOfAssumption, OverlapAssumption, WindowAssumption, RootAssumption,
    NoneAssumption, LagAssumption, QueueAssumption, BoundAssumption
USE DEF SlackType, ConnType, TaskType, StateType, HistoryType

-----------------------------------------------------------------------------
(***************************************************************************)
(* Tables and their pruning.                                               *)
(***************************************************************************)
Tables == [Msgs -> Nat]

\* g is what pruning may leave of f.
PrunedTo(f, g, cut, limit) == \E K \in Kept(f, cut, limit) : g = Only(f, K)

LEMMA ListedFacts ==
  ASSUME NEW f \in Tables, NEW M, M \subseteq Listed(f)
  PROVE  IsFiniteSet(M) /\ Cardinality(M) \in Nat /\ Cardinality(M) <= Cardinality(Listed(f))
         /\ Cardinality(Listed(f)) \in Nat
<1>1. IsFiniteSet(Listed(f))
  BY ChannelsAssumption, FS_Subset DEF Listed
<1> QED
  BY <1>1, FS_Subset, FS_CardinalityType

\* Which entries pruning keeps
LEMMA KeptFacts ==
  ASSUME NEW f \in Tables, NEW cut \in Int, NEW limit \in Nat, NEW K \in Kept(f, cut, limit)
  PROVE  /\ K \subseteq Listed(f) /\ \A m \in K : f[m] >= cut
         /\ Cardinality(K) <= limit
         /\ \A n \in Listed(f) \ K :
              f[n] < cut \/ (Cardinality(K) = limit /\ \A m \in K : f[n] <= f[m])
<1> DEFINE recent == {m \in Msgs : f[m] > 0 /\ f[m] >= cut}
<1>1. recent \subseteq Listed(f)
  BY DEF Listed
<1>2. \A n \in Listed(f) \ recent : f[n] < cut
  BY DEF Listed, Tables
<1>3. CASE Cardinality(recent) <= limit
  <2>1. K = recent
    BY <1>3 DEF Kept
  <2> QED
    BY <1>1, <1>2, <1>3, <2>1
<1>4. CASE ~(Cardinality(recent) <= limit)
  <2>1. /\ K \in SUBSET recent /\ Cardinality(K) = limit
        /\ \A m \in K, n \in recent \ K : f[n] <= f[m]
    BY <1>4 DEF Kept
  <2> QED
    BY <1>1, <1>2, <2>1
<1> QED
  BY <1>3, <1>4

LEMMA PrunedTable ==
  ASSUME NEW f \in Tables, NEW g, NEW cut \in Int, NEW limit \in Nat, PrunedTo(f, g, cut, limit)
  PROVE  /\ g \in Tables /\ Listed(g) \subseteq Listed(f) /\ Cardinality(Listed(g)) <= limit
         /\ \A m \in Listed(g) : g[m] = f[m]
         /\ \A n \in Listed(f) \ Listed(g) : f[n] < cut \/ FullSince(g, limit, f[n])
<1>1. PICK K \in Kept(f, cut, limit) : g = Only(f, K)
  BY DEF PrunedTo
<1>2. /\ K \subseteq Listed(f) /\ Cardinality(K) <= limit
      /\ \A n \in Listed(f) \ K :
           f[n] < cut \/ (Cardinality(K) = limit /\ \A m \in K : f[n] <= f[m])
  BY KeptFacts
<1>3. g \in Tables /\ \A m \in Msgs : g[m] = IF m \in K THEN f[m] ELSE 0
  BY <1>1 DEF Only, Tables
<1>4. Listed(g) = K
  BY <1>2, <1>3 DEF Listed
<1>5. ASSUME NEW n \in Listed(f) \ Listed(g), ~(f[n] < cut)
      PROVE  FullSince(g, limit, f[n])
  <2>1. Cardinality(K) = limit /\ \A m \in K : f[n] <= f[m]
    BY <1>2, <1>4, <1>5
  <2>2. \A m \in K : g[m] >= f[n]
    BY <1>2, <1>3, <2>1 DEF Listed, Tables
  <2> QED
    BY <1>4, <2>1, <2>2 DEF FullSince
<1> QED
  BY <1>2, <1>3, <1>4, <1>5 DEF Listed

\* A table that is full of entries from t on stays that way until t itself is
\* older than the cut.
LEMMA FullPruned ==
  ASSUME NEW f \in Tables, NEW g, NEW cut \in Int, NEW limit \in Nat, PrunedTo(f, g, cut, limit),
         NEW t \in Nat, FullSince(f, limit, t)
  PROVE  t < cut \/ FullSince(g, limit, t)
<1>1. /\ g \in Tables /\ Listed(g) \subseteq Listed(f)
      /\ \A m \in Listed(g) : g[m] = f[m]
      /\ \A n \in Listed(f) \ Listed(g) : f[n] < cut \/ FullSince(g, limit, f[n])
  BY PrunedTable
<1>2. \A m \in Listed(f) : f[m] >= t /\ f[m] \in Nat
  BY DEF FullSince, Listed, Tables
<1>3. \A m \in Listed(g) : g[m] >= t
  BY <1>1, <1>2
<1>4. CASE Listed(g) = Listed(f)
  BY <1>3, <1>4 DEF FullSince
<1>5. CASE Listed(g) # Listed(f)
  <2>1. PICK n \in Listed(f) \ Listed(g) : TRUE
    BY <1>1, <1>5
  <2> QED
    BY <1>1, <1>2, <1>3, <2>1 DEF FullSince
<1> QED
  BY <1>4, <1>5

\* It also does when entries are made or renewed at t or later.
LEMMA FullRenewed ==
  ASSUME NEW f \in Tables, NEW g \in Tables, NEW limit \in Nat, NEW t \in Nat, NEW at \in Nat \ {0},
         t <= at, \A m \in Msgs : g[m] \in {f[m], at}, FullSince(f, limit, t)
  PROVE  FullSince(g, limit, t)
<1>1. Listed(f) \subseteq Listed(g)
  BY DEF Listed, Tables
<1>2. \A m \in Listed(g) : g[m] >= t
  BY DEF FullSince, Listed, Tables
<1>3. Cardinality(Listed(f)) <= Cardinality(Listed(g)) /\ Cardinality(Listed(f)) \in Nat
      /\ Cardinality(Listed(g)) \in Nat
  BY <1>1, ListedFacts
<1> QED
  BY <1>2, <1>3 DEF FullSince

\* An entry made or renewed at t or later, or that was there, survives, unless t
\* is older than the cut or the table is full of later ones.
LEMMA EntryPruned ==
  ASSUME NEW f \in Tables, NEW g, NEW cut \in Int, NEW limit \in Nat, PrunedTo(f, g, cut, limit),
         NEW t \in Nat, NEW m \in Listed(f), f[m] >= t
  PROVE  \/ m \in Listed(g) /\ g[m] = f[m]
         \/ t < cut \/ FullSince(g, limit, t)
<1>1. /\ g \in Tables
      /\ \A n \in Listed(g) : g[n] = f[n]
      /\ \A n \in Listed(f) \ Listed(g) : f[n] < cut \/ FullSince(g, limit, f[n])
  BY PrunedTable
<1>2. f[m] \in Nat
  BY DEF Listed, Tables
<1>3. CASE FullSince(g, limit, f[m])
  <2>1. \A n \in Listed(g) : g[n] \in Nat /\ g[n] >= f[m]
    BY <1>1, <1>3 DEF FullSince, Listed, Tables
  <2> QED
    BY <1>2, <1>3, <2>1 DEF FullSince
<1> QED
  BY <1>1, <1>2, <1>3

-----------------------------------------------------------------------------
(***************************************************************************)
(* The operations of Store and the two tables.                             *)
(***************************************************************************)
Snapshot(s) == s.seen \in Tables /\ s.threads \in Tables

LEMMA SnapshotTables ==
  ASSUME NEW s \in Snapshots
  PROVE  Snapshot(s)
  BY DEF Snapshots, Snapshot, Tables

\* t has the tables that pruning at `at` leaves of h and k.
PrunedFrom(t, h, k, at) ==
  /\ PrunedTo(h, t.seen, at - Window - Overlap, MaxSeen)
  /\ PrunedTo(k, t.threads, at - Window, MaxThreads)

LEMMA PrunedTables ==
  ASSUME NEW s \in Snapshots, NEW at \in Int, NEW t \in Pruned(s, at)
  PROVE  PrunedFrom(t, s.seen, s.threads, at)
<1>1. PICK kept \in Kept(s.seen, at - Window - Overlap, MaxSeen)
                      \X Kept(s.threads, at - Window, MaxThreads) :
        t = [s EXCEPT !.seen = Only(s.seen, kept[1]), !.threads = Only(s.threads, kept[2])]
  BY DEF Pruned
<1>2. t.seen = Only(s.seen, kept[1]) /\ t.threads = Only(s.threads, kept[2])
  BY <1>1 DEF Snapshots
<1>3. kept[1] \in Kept(s.seen, at - Window - Overlap, MaxSeen)
      /\ kept[2] \in Kept(s.threads, at - Window, MaxThreads)
  BY <1>1
<1> QED
  BY <1>2, <1>3 DEF PrunedFrom, PrunedTo

\* The entries of roots renewed at `at`
Renewed(f, roots, at) == [r \in Msgs |-> IF r \in roots THEN at ELSE f[r]]

\* The threads of `roots` that `remember_thread` and `processed` find
Found(roots) == {r \in roots : Tracks(store, r)}

LEMMA RenewedTable ==
  ASSUME NEW f \in Tables, NEW roots, NEW at \in Nat
  PROVE  Renewed(f, roots, at) \in Tables /\ \A m \in Msgs : Renewed(f, roots, at)[m] \in {f[m], at}
  BY DEF Renewed, Tables

\* remember_thread, if process() calls it, renews the thread's entry and prunes.
LEMMA RememberedTables ==
  ASSUME TypeOK, NEW m \in Msgs, NEW roots \in SUBSET {RootOf[m]}, NEW t \in Remembered(m, roots)
  PROVE  \/ roots = {} /\ t = store
         \/ PrunedFrom(t, store.seen, Renewed(store.threads, Found(roots), clock), clock)
<1>1. CASE roots = {}
  BY <1>1 DEF Remembered
<1>2. CASE roots # {}
  <2>1. roots = {RootOf[m]} /\ RootOf[m] \in Msgs /\ store \in Snapshots /\ clock \in Int
    BY <1>2 DEF TypeOK
  <2>2. t \in RememberThread(store, RootOf[m], clock)
    BY <1>2 DEF Remembered
  <2>3. CASE Tracks(store, RootOf[m])
    <3>1. PICK u : u = [store EXCEPT !.threads[RootOf[m]] = clock]
      OBVIOUS
    <3>2. u \in Snapshots /\ u.seen = store.seen
          /\ u.threads = [store.threads EXCEPT ![RootOf[m]] = clock]
      BY <2>1, <3>1 DEF Snapshots, TypeOK
    <3>3. u.threads = Renewed(store.threads, Found(roots), clock)
      BY <2>1, <2>3, <3>2 DEF Renewed, Found, Snapshots
    <3>4. t \in Pruned(u, clock)
      BY <2>2, <2>3, <3>1 DEF RememberThread
    <3> QED
      BY <2>1, <3>2, <3>3, <3>4, PrunedTables
  <2>4. CASE ~Tracks(store, RootOf[m])
    <3>1. store.threads = Renewed(store.threads, Found(roots), clock)
      BY <2>1, <2>4 DEF Renewed, Found, Snapshots
    <3>2. t \in Pruned(store, clock)
      BY <2>2, <2>4 DEF RememberThread
    <3> QED
      BY <2>1, <3>1, <3>2, PrunedTables
  <2> QED
    BY <2>3, <2>4
<1> QED
  BY <1>1, <1>2

\* processed() makes an entry for the message and renews those of its threads.
LEMMA ProcessedTables ==
  ASSUME TypeOK, LiveDone \/ RecoverDone
  PROVE  /\ job.m \in Msgs /\ job.roots \in SUBSET Msgs
         /\ PrunedFrom(store', [store.seen EXCEPT ![job.m] = clock],
                       Renewed(store.threads, Found(job.roots), clock), clock)
<1>1. /\ job.m \in Msgs /\ job.roots \in SUBSET Msgs /\ store \in Snapshots
      /\ clock \in Nat /\ clock \in Int
  BY SMTT(40) DEF TypeOK, LiveDone, RecoverDone, Jobs, NoJob
<1>2. store' \in Processed(store, job.m, job.roots, clock)
  BY DEF LiveDone, RecoverDone
<1>3. PICK u : u = [store EXCEPT !.seen[job.m] = clock,
                                 !.threads = [r \in Msgs |-> IF r \in job.roots /\ Tracks(store, r)
                                                              THEN clock ELSE @[r]]]
  OBVIOUS
<1>4. /\ u.seen = [store.seen EXCEPT ![job.m] = clock]
      /\ u.threads = [r \in Msgs |-> IF r \in job.roots /\ Tracks(store, r)
                                      THEN clock ELSE store.threads[r]]
      /\ u \in Snapshots
  BY <1>1, <1>3 DEF Snapshots
<1>5. u.threads = Renewed(store.threads, Found(job.roots), clock)
  BY <1>4 DEF Renewed, Found
<1>6. store' \in Pruned(u, clock)
  BY <1>2, <1>3 DEF Processed
<1> QED
  BY <1>1, <1>4, <1>5, <1>6, PrunedTables

\* checkpoint and begin_connection only prune, and drop the threads of channels
\* that were left.
LEMMA CheckpointTables ==
  ASSUME TypeOK, ConsumeCheckpoint
  PROVE  PrunedFrom(store', store.seen, store.threads, clock)
<1>1. Head(events).at \in Nat
  <2>1. Head(events) \in Events
    BY DEF ConsumeCheckpoint, Consuming, TypeOK
  <2> QED
    BY <2>1 DEF Events
<1>2. PICK u : u = Advance(store, store.tracked \ (recovering \union failed), Head(events).at)
  OBVIOUS
<1>3. u \in Snapshots /\ u.seen = store.seen /\ u.threads = store.threads /\ clock \in Int
  <2>1. store \in Snapshots /\ store.tracked \ (recovering \union failed) \in SUBSET Channels
    BY DEF TypeOK, Snapshots
  <2>2. u \in Snapshots /\ u.seen = store.seen
    BY <1>1, <1>2, <2>1, AdvanceFacts
  <2>3. u.threads = store.threads
    BY <1>2, <2>1 DEF Advance, Snapshots
  <2> QED
    BY <2>2, <2>3 DEF TypeOK
<1>4. store' \in Pruned(u, clock)
  BY <1>2 DEF ConsumeCheckpoint, Checkpoint
<1> QED
  BY <1>3, <1>4, PrunedTables

LEMMA BeginTables ==
  ASSUME TypeOK, Begin
  PROVE  \E k \in Tables : /\ PrunedFrom(store', store.seen, k, began)
                           /\ \A r \in Msgs : k[r] \in {store.threads[r], 0}
<1>1. store' \in BeginConnection(store, joined, began) /\ store \in Snapshots /\ began \in Nat
      /\ joined \in SUBSET Channels
  BY DEF Begin, TypeOK
<1> DEFINE cov == [c \in Channels |->
                     IF c \notin joined THEN 0
                     ELSE IF c \in store.tracked THEN Later(store.covered[c], began - Window)
                     ELSE began]
           thr == [m \in Msgs |-> IF ChanOf[m] \in joined THEN store.threads[m] ELSE 0]
           u   == [store EXCEPT !.tracked = joined, !.covered = cov, !.threads = thr]
<1>2. cov \in [Channels -> Nat]
  BY <1>1 DEF Snapshots, Later
<1>3. thr \in Tables /\ \A r \in Msgs : thr[r] \in {store.threads[r], 0}
  BY <1>1 DEF Snapshots, Tables
<1>4. u \in Snapshots /\ u.seen = store.seen /\ u.threads = thr
  BY <1>1, <1>2, <1>3 DEF Snapshots, Tables
<1>5. store' \in Pruned(u, began)
  BY <1>1 DEF BeginConnection
<1> HIDE DEF u, thr
<1> QED
  BY <1>1, <1>3, <1>4, <1>5, PrunedTables

\* The roots process() takes from a message: its own thread at most
LEMMA ProcessRoots ==
  ASSUME TypeOK,
         LiveSubmit \/ LiveDuplicate \/ RecoverSubmit \/ RecoverDuplicate
  PROVE  \E m \in Msgs : \E roots \in SUBSET {RootOf[m]} : store' \in Remembered(m, roots)
<1>1. CASE LiveSubmit \/ LiveDuplicate
  <2>1. Head(events).m \in Msgs /\ store' \in Remembered(Head(events).m, LiveRoots(Head(events).m))
    BY <1>1 DEF LiveSubmit, LiveDuplicate, Consuming, Events, TypeOK
  <2> QED
    BY <2>1 DEF LiveRoots
<1>2. CASE RecoverSubmit \/ RecoverDuplicate
  <2>1. PICK m \in rec.todo : store' \in Remembered(m, FetchedRoots(m))
    BY <1>2 DEF RecoverSubmit, RecoverDuplicate
  <2>2. m \in Msgs
    BY DEF TypeOK, Recs
  <2> QED
    BY <2>1, <2>2 DEF FetchedRoots
<1> QED
  BY <1>1, <1>2

\* A step that prunes: h and k are the tables before pruning.
PruningStep(h, k, at) ==
  /\ PrunedFrom(store', h, k, at)
  /\ \/ h = store.seen
     \/ (LiveDone \/ RecoverDone) /\ h = [store.seen EXCEPT ![job.m] = clock]
  /\ \/ Begin /\ at = began
     \/ at = clock /\ \A r \in Msgs : k[r] \in {store.threads[r], clock}

\* How a step moves the tables of the recovery state: not at all, by a crash, by
\* forgetting a thread, or by an operation that ends in pruning.
LEMMA TableMoves ==
  ASSUME TypeOK, Past, Next
  PROVE  \/ store'.seen = store.seen /\ store'.threads = store.threads
         \/ Crash /\ store' = disk
         \/ /\ ThreadGone /\ store'.seen = store.seen
            /\ \E r \in Msgs : store'.threads = [store.threads EXCEPT ![r] = 0]
         \/ \E h, k \in Tables, at \in Nat : at <= clock /\ PruningStep(h, k, at)
<1> DEFINE Same == store'.seen = store.seen /\ store'.threads = store.threads
           Lost == Crash /\ store' = disk
           Gone == /\ ThreadGone /\ store'.seen = store.seen
                   /\ \E r \in Msgs : store'.threads = [store.threads EXCEPT ![r] = 0]
           Op   == \E h, k \in Tables, at \in Nat : at <= clock /\ PruningStep(h, k, at)
<1>0. /\ store.seen \in Tables /\ store.threads \in Tables /\ clock \in Nat /\ clock <= clock
      /\ began \in Nat /\ began <= clock
  BY DEF TypeOK, Past, Snapshots, Tables
<1>1. TearDown => Same \/ Lost
  BY TearDownStore
<1>2. Slack \/ Beat \/ Admit \/ Worker => Same
  BY DEF Slack, Tick, Post, Move, Beat, Ping, Pong, Admit, Worker,
         WorkerInsert, state
<1>3. ASSUME Begin
      PROVE  Op
  <2>1. PICK k \in Tables : PrunedFrom(store', store.seen, k, began)
    BY <1>3, BeginTables
  <2>2. PruningStep(store.seen, k, began)
    BY <1>3, <2>1 DEF PruningStep
  <2> QED
    BY <1>0, <2>2
<1>4. Main => Begin \/ Same
  BY DEF Main, Start, Dial, Hello, BeginSave, CloseSave, Exit, state
<1>5. (\E n \in Msgs : Deliver(n)) \/ DeliverMembership \/ ConsumerSave \/ SkipStranger => Same
  BY DEF Deliver, DeliverMembership, ConsumerSave, SkipStranger, state
<1>6. ASSUME ConsumeCheckpoint
      PROVE  Op
  <2>1. PruningStep(store.seen, store.threads, clock)
    BY <1>6, CheckpointTables DEF PruningStep
  <2> QED
    BY <1>0, <2>1
<1>7. ASSUME LiveSubmit \/ LiveDuplicate \/ RecoverSubmit \/ RecoverDuplicate
      PROVE  Same \/ Op
  <2>0. PICK m \in Msgs : \E roots \in SUBSET {RootOf[m]} : store' \in Remembered(m, roots)
    BY <1>7, ProcessRoots
  <2>1. PICK roots \in SUBSET {RootOf[m]} : store' \in Remembered(m, roots)
    BY <2>0
  <2>2. CASE store' = store
    BY <2>2
  <2>3. CASE PrunedFrom(store', store.seen, Renewed(store.threads, Found(roots), clock), clock)
    <3>1. PICK k : k = Renewed(store.threads, Found(roots), clock)
      OBVIOUS
    <3>2. k \in Tables /\ PruningStep(store.seen, k, clock)
      BY <1>0, <2>3, <3>1, RenewedTable DEF PruningStep
    <3> QED
      BY <1>0, <3>2
  <2> QED
    BY <2>1, <2>2, <2>3, RememberedTables
<1>8. ASSUME LiveDone \/ RecoverDone
      PROVE  Op
  <2>1. PICK h, k : /\ h = [store.seen EXCEPT ![job.m] = clock]
                    /\ k = Renewed(store.threads, Found(job.roots), clock)
    OBVIOUS
  <2>2. h \in Tables /\ k \in Tables /\ \A r \in Msgs : k[r] \in {store.threads[r], clock}
    BY <1>0, <2>1, RenewedTable DEF Tables
  <2>3. PruningStep(h, k, clock)
    BY <1>8, <2>1, <2>2, ProcessedTables DEF PruningStep
  <2> QED
    BY <1>0, <2>2, <2>3
<1>9. ConsumeMembership \/ AdoptChannel => Same
  <2>1. ASSUME ConsumeMembership \/ AdoptChannel
        PROVE  \E cs \in SUBSET Channels : store' = AddChannels(store, cs, clock)
    BY <2>1 DEF ConsumeMembership, AdoptChannel, Register, TypeOK
  <2> QED
    BY <2>1 DEF AddChannels, TypeOK, Snapshots
<1>10. RecoverFinish => Same
  BY DEF RecoverFinish, FinishRecovery, Advance, TypeOK, Snapshots
<1>11. ASSUME ThreadGone
       PROVE  Gone
  <2>1. PICK r \in rec.threads : store' = ForgetThread(store, r)
    BY <1>11 DEF ThreadGone
  <2>2. r \in Msgs
    BY DEF TypeOK, Recs
  <2> QED
    BY <1>11, <2>1, <2>2 DEF ForgetThread, TypeOK, Snapshots
<1>12. RecoverPass \/ RecoverSkip \/ RecoverStart \/ FetchHistory \/ RecoverFail \/ RecoverThreads
       \/ FetchReplies \/ RecoverSave \/ RecoverError \/ Timeout \/ WorkerFail => Same
  BY DEF RecoverPass, RecoverSkip, RecoverStart, FetchHistory, RecoverFail,
         RecoverThreads, FetchReplies, RecoverSave, RecoverError, Timeout,
         WorkerFail, state
<1> HIDE DEF Same, Lost, Gone, Op
<1>13. Same \/ Lost \/ Gone \/ Op
  BY <1>1, <1>2, <1>3, <1>4, <1>5, <1>6, <1>7, <1>8, <1>9, <1>10, <1>11, <1>12
  DEF Next, Abort, Read, Consumer, Recovery, Mishap, TearDown
<1> QED
  BY <1>13 DEF Same, Lost, Gone, Op

-----------------------------------------------------------------------------
(***************************************************************************)
(* The steps keep the parts of Records.                                    *)
(***************************************************************************)

\* The tables keep their limits.
LEMMA SizesStep ==
  ASSUME TypeOK, Past, Sizes, Next
  PROVE  Sizes'
<1> DEFINE Small(s) == /\ Cardinality(Listed(s.seen)) <= MaxSeen
                       /\ Cardinality(Listed(s.threads)) <= MaxThreads
<1>0. Small(store) /\ Small(disk) /\ store.threads \in Tables
      /\ MaxSeen \in Nat /\ MaxThreads \in Nat
  BY LimitsAssumption DEF Sizes, TypeOK, Snapshots, Tables
<1>1. Small(store')
  <2>1. CASE store'.seen = store.seen /\ store'.threads = store.threads
    BY <1>0, <2>1
  <2>2. CASE Crash /\ store' = disk
    BY <1>0, <2>2
  <2>3. CASE store'.seen = store.seen
             /\ \E r \in Msgs : store'.threads = [store.threads EXCEPT ![r] = 0]
    <3>1. PICK r \in Msgs : store'.threads = [store.threads EXCEPT ![r] = 0]
      BY <2>3
    <3>2. Listed(store'.threads) \subseteq Listed(store.threads)
      BY <1>0, <3>1 DEF Listed, Tables
    <3>3. Cardinality(Listed(store'.threads)) \in Nat /\ Cardinality(Listed(store.threads)) \in Nat
          /\ Cardinality(Listed(store'.threads)) <= Cardinality(Listed(store.threads))
      BY <1>0, <3>2, ListedFacts
    <3> QED
      BY <1>0, <2>3, <3>3
  <2>4. ASSUME NEW h \in Tables, NEW k \in Tables, NEW at \in Nat, PruningStep(h, k, at)
        PROVE  Small(store')
    <3>1. PrunedTo(h, store'.seen, at - Window - Overlap, MaxSeen)
          /\ PrunedTo(k, store'.threads, at - Window, MaxThreads)
      BY <2>4 DEF PruningStep, PrunedFrom
    <3>2. at - Window - Overlap \in Int /\ at - Window \in Int
      OBVIOUS
    <3>3. Cardinality(Listed(store'.seen)) <= MaxSeen
      BY <1>0, <3>1, <3>2, PrunedTable
    <3>4. Cardinality(Listed(store'.threads)) <= MaxThreads
      BY <1>0, <3>1, <3>2, PrunedTable
    <3> QED
      BY <3>3, <3>4
  <2> QED
    BY <2>1, <2>2, <2>3, <2>4, TableMoves
<1>2. disk' = disk \/ disk' = store'
  BY StoreMoves
<1> HIDE DEF Small
<1>3. Small(store') /\ Small(disk')
  BY <1>0, <1>1, <1>2
<1> QED
  BY <1>3 DEF Sizes, Small, Listed

\* Between connections the state file is up to date.
Resting == phase \in {"down", "idle", "dialing", "starting"}

LEMMA RestingMoves ==
  ASSUME TypeOK, Idle, Next, Resting'
  PROVE  disk' = store' \/ (Resting /\ UNCHANGED <<store, disk>>)
<1> USE DEF Resting
<1>1. Slack \/ Beat \/ Admit \/ Worker
      \/ (\E m \in Msgs : Deliver(m)) \/ DeliverMembership
        => UNCHANGED <<phase, store, disk>>
  BY DEF Slack, Tick, Post, Move, Beat, Ping, Pong, Admit, Worker,
         WorkerInsert, Deliver, DeliverMembership, conn, state
<1>2. CASE Main
  BY <1>2
  DEF Main, Start, Dial, Hello, Begin, BeginSave, CloseSave, Exit, ForgetProcess, state
<1>3. CASE TearDown
  <2>1. Crash
    BY <1>3 DEF TearDown, Disconnect, Shutdown, Overrun, Overflow, LiveFail, Reconnect
  <2> QED
    BY <2>1 DEF Crash
<1>4. CASE phase = "running" /\ phase' = "running"
  BY <1>4
<1>5. Consumer => TearDown \/ (phase = "running" /\ phase' = "running")
  BY DEF Consumer, ConsumeCheckpoint, ConsumerSave, ConsumeMembership,
         AdoptChannel, SkipStranger, LiveDuplicate, LiveSubmit, LiveDone,
         Consuming, Idle, NoJob, TearDown, conn
<1>6. Recovery => phase = "running" /\ phase' = "running"
  <2>1. RecoverPass \/ RecoverSkip \/ RecoverStart \/ FetchHistory \/ RecoverDuplicate
        \/ RecoverSubmit \/ RecoverThreads \/ FetchReplies \/ RecoverFinish \/ RecoverSave
          => phase = "running" /\ phase' = "running"
    BY DEF RecoverPass, RecoverSkip, RecoverStart, FetchHistory, RecoverDuplicate,
           RecoverSubmit, RecoverThreads, FetchReplies, RecoverFinish, RecoverSave,
           Recovering, conn
  <2>2. RecoverDone \/ RecoverFail => phase = "running" /\ phase' = "running"
    BY DEF RecoverDone, RecoverFail, Idle, NoJob, conn
  <2> QED
    BY <2>1, <2>2 DEF Recovery
<1>7. ThreadGone => phase = "running" /\ phase' = "running"
  BY DEF ThreadGone, Recovering, conn
<1>8. RecoverError \/ Timeout \/ WorkerFail => UNCHANGED <<phase, store, disk>>
  BY DEF RecoverError, Timeout, WorkerFail, conn, state
<1> QED
  BY <1>1, <1>2, <1>3, <1>4, <1>5, <1>6, <1>7, <1>8
  DEF Next, Abort, Read, Mishap, TearDown

\* The state file is up to date until a connection begins, and never ahead.
LEMMA DiskBehindStep ==
  ASSUME TypeOK, Idle, Lock, Past, DiskBehind, Next
  PROVE  DiskBehind'
<1>0. store \in Snapshots /\ disk \in Snapshots /\ store' \in Snapshots /\ disk' \in Snapshots
  BY TypeStep DEF TypeOK
<1>1. Resting' => disk' = store'
  BY RestingMoves DEF DiskBehind, Resting
<1>2. ASSUME NEW c \in Channels, c \in disk'.tracked, c \in store'.tracked
      PROVE  disk'.covered[c] <= store'.covered[c]
  <2>0. /\ store.covered[c] \in Nat /\ disk.covered[c] \in Nat
        /\ store'.covered[c] \in Nat /\ disk'.covered[c] \in Nat
    BY <1>0 DEF Snapshots
  <2>1. c \in disk.tracked /\ c \in store.tracked => disk.covered[c] <= store.covered[c]
    BY DEF DiskBehind
  <2>2. CASE disk' = store'
    BY <2>0, <2>2
  <2>3. CASE store'.tracked = store.tracked /\ store'.covered = store.covered /\ disk' = disk
    BY <1>2, <2>1, <2>3
  <2>4. CASE disk' = disk /\ Begin
    <3>1. store = disk
      BY <2>4 DEF Begin, DiskBehind
    <3>2. c \in joined /\ store'.covered[c] = Later(store.covered[c], began - Window)
      BY <1>2, <2>4, <3>1, BeginMoves
    <3>3. began \in Nat
      BY DEF TypeOK
    <3> QED
      BY <2>0, <2>4, <3>1, <3>2, <3>3 DEF Later
  <2>5. CASE disk' = disk /\ ConsumeCheckpoint
    <3>1. Head(events).at \in Nat
      <4>1. Head(events) \in Events
        BY <2>5 DEF ConsumeCheckpoint, Consuming, TypeOK
      <4> QED
        BY <4>1 DEF Events
    <3>2. store'.tracked = store.tracked
          /\ store'.covered[c] \in {store.covered[c], Later(store.covered[c], Head(events).at)}
      BY <2>5, CheckpointMoves
    <3> QED
      BY <1>2, <2>0, <2>1, <2>5, <3>1, <3>2 DEF Later
  <2>6. CASE disk' = disk /\ (ConsumeMembership \/ AdoptChannel)
    <3>1. \/ c \notin store.tracked /\ store'.covered[c] = clock
          \/ c \in store.tracked /\ store'.covered[c] = store.covered[c]
      BY <1>2, <2>6, RegisterMoves
    <3>2. disk.covered[c] <= clock
      BY DEF Past
    <3> QED
      BY <1>2, <2>1, <2>6, <3>1, <3>2
  <2>7. CASE disk' = disk /\ RecoverFinish
    <3>1. store'.tracked = store.tracked
          /\ store'.covered[c] \in {store.covered[c], Later(store.covered[c], began)}
      BY <2>7, FinishMoves
    <3>2. began \in Nat
      BY DEF TypeOK
    <3> QED
      BY <1>2, <2>0, <2>1, <2>7, <3>1, <3>2 DEF Later
  <2> QED
    BY <2>2, <2>3, <2>4, <2>5, <2>6, <2>7, StoreMoves
<1>3. \A c \in disk'.tracked \intersect store'.tracked : disk'.covered[c] <= store'.covered[c]
  BY <1>0, <1>2 DEF Snapshots
<1> QED
  BY <1>1, <1>3 DEF DiskBehind, Resting

\* A channel is to be saved when its recovery is finished.
LEMMA SaveMoves ==
  ASSUME TypeOK, Lock, Next, rec'.stage = "save"
  PROVE  RecoverFinish \/ rec' = rec
<1>0. rec \in Recs
  BY DEF TypeOK
<1>1. ~TearDown
  BY TearDownFacts DEF NoRec
<1>2. Slack \/ Main \/ (\E m \in Msgs : Deliver(m)) \/ DeliverMembership \/ Beat \/ Admit
      \/ Worker => rec' = rec
  BY DEF Slack, Tick, Post, Move, Main, Start, Dial, Hello, Begin, BeginSave, CloseSave, Exit,
         Deliver, DeliverMembership, Beat, Ping, Pong, Admit, Worker, WorkerInsert, tasks
<1>3. Consumer => TearDown \/ rec' = rec
  BY DEF Consumer, ConsumeCheckpoint, ConsumerSave, ConsumeMembership,
         AdoptChannel, SkipStranger, LiveDuplicate, LiveSubmit, LiveDone,
         TearDown, tasks
<1>4. RecoverPass \/ RecoverSkip \/ RecoverSubmit => rec' = rec
  BY DEF RecoverPass, RecoverSkip, RecoverSubmit
<1>5. ~(RecoverStart \/ FetchHistory \/ RecoverFail \/ RecoverThreads \/ RecoverSave)
  <2>1. ~FetchHistory /\ ~RecoverThreads
    BY <1>0 DEF FetchHistory, RecoverThreads, Recs
  <2>2. ~RecoverStart
    BY DEF RecoverStart, NoRec
  <2>3. ~RecoverFail /\ ~RecoverSave
    BY DEF RecoverFail, RecoverSave, NoRec
  <2> QED
    BY <2>1, <2>2, <2>3
<1>6. ASSUME RecoverDuplicate \/ RecoverDone
      PROVE  FALSE
  <2>1. rec'.stage = rec.stage /\ rec.todo # {}
    BY <1>0, <1>6 DEF RecoverDuplicate, RecoverDone, Lock, Recs
  <2> QED
    BY <1>6, <2>1 DEF Lock
<1>7. ~FetchReplies /\ ~ThreadGone
  BY <1>0 DEF FetchReplies, ThreadGone, Recovering, Recs
<1>8. RecoverError => FALSE
  BY DEF RecoverError, NoRec
<1>9. Timeout \/ WorkerFail => rec' = rec
  BY DEF Timeout, WorkerFail
<1> QED
  BY <1>1, <1>2, <1>3, <1>4, <1>5, <1>6, <1>7, <1>8, <1>9
  DEF Next, Abort, Read, Recovery, Mishap, TearDown

\* The interval under recovery stays that of the channel's checkpoint, also
\* when a failed channel is waiting for the save.
LEMMA NotStaleStep ==
  ASSUME Inv, Inv', RecoveryNotStale, Next
  PROVE  RecoveryNotStale'
<1> USE DEF Inv
<1>1. \A p \in pass' : p[1] \in recovering' => p[2] = store'.covered[p[1]]
  BY DEF Passes
<1>2. ASSUME rec'.ch \in recovering'
      PROVE  rec'.oldest = Later(Later(store'.covered[rec'.ch] - Overlap, began' - Window), 0)
  <2>1. CASE rec'.stage \in {"history", "pages", "replies"}
    BY <2>1 DEF Passes, Oldest
  <2>2. CASE rec'.stage = "idle"
    <3>1. rec' = NoRec /\ recovering' \subseteq Channels
      BY <2>2 DEF Lock, TypeOK
    <3> QED
      BY <1>2, <3>1 DEF NoRec
  <2>3. CASE rec'.stage = "save" /\ RecoverFinish
    <3>1. rec.ch \in recovering /\ rec.ch \in failed /\ rec'.ch = rec.ch
          /\ rec'.oldest = rec.oldest /\ began' = began /\ rec.stage = "replies"
      BY <1>2, <2>3 DEF RecoverFinish, Recovering, conn, TypeOK, Recs
    <3>2. rec.ch \in Channels
      BY <3>1 DEF TypeOK
    <3>3. store'.covered[rec.ch] = store.covered[rec.ch]
      BY <2>3, <3>1, <3>2, FinishMoves
    <3>4. rec.oldest = Oldest(store.covered[rec.ch])
      BY <3>1 DEF Passes
    <3> QED
      BY <3>1, <3>3, <3>4 DEF Oldest
  <2>4. CASE rec'.stage = "save" /\ rec' = rec /\ ~RecoverFinish
    <3>1. phase = "running" /\ phase' = "running"
      BY <2>4 DEF Idle, NoRec
    <3>2. Connected /\ began' = began /\ ~TearDown
      BY <3>1, TearDownFacts, PhaseMoves DEF Connected, Begin
    <3>3. recovering' = recovering
      BY <2>4, <3>2, RecoveringMoves
    <3>4. rec.ch \in recovering
      BY <1>2, <2>4, <3>3
    <3>5. store'.covered[rec.ch] = store.covered[rec.ch]
      BY <2>4, <3>2, <3>4, RecoveringStands
    <3>6. rec.oldest = Oldest(store.covered[rec.ch])
      BY <3>4 DEF RecoveryNotStale
    <3> QED
      BY <2>4, <3>2, <3>5, <3>6 DEF Oldest
  <2>5. rec'.stage \in {"idle", "history", "pages", "replies", "save"}
    BY DEF TypeOK, Recs
  <2> QED
    BY <2>1, <2>2, <2>3, <2>4, <2>5, SaveMoves
<1> QED
  BY <1>1, <1>2 DEF RecoveryNotStale, Oldest

\* A message is posted once, at the time of the post.
LEMMA PostMoves ==
  ASSUME TypeOK, Next, NEW m \in Msgs
  PROVE  \/ ts'[m] = ts[m]
         \/ Post(m) /\ ~Posted(m) /\ ts'[m] = clock
<1>1. CASE \E n \in Msgs : Post(n)
  <2>1. PICK n \in Msgs : Post(n)
    BY <1>1
  <2>2. n # m => ts'[m] = ts[m]
    BY <2>1 DEF Post, TypeOK
  <2>3. n = m => Post(m) /\ ~Posted(m) /\ ts'[m] = clock
    BY <2>1 DEF Post, TypeOK
  <2> QED
    BY <2>2, <2>3
<1>2. CASE ~\E n \in Msgs : Post(n)
  <2>1. ts' = ts
    BY <1>2, OpenMoves
    DEF Hello, Begin, WorkerInsert, ConsumeMembership, AdoptChannel,
        SkipStranger, RecoverThreads, ThreadGone, slack
  <2> QED
    BY <2>1
<1> QED
  BY <1>1, <1>2

\* What a step does to the attempt in hand, the worker queue and the rows
LEMMA AttemptMoves ==
  ASSUME TypeOK, Next
  PROVE  \/ UNCHANGED <<job, queue, rows, unsure>>
         \/ TearDown \/ Exit
         \/ LiveSubmit \/ RecoverSubmit \/ LiveDone \/ RecoverDone \/ RecoverFail
         \/ Admit \/ Timeout \/ WorkerInsert \/ WorkerFail
<1> DEFINE Quiet == UNCHANGED <<job, queue, rows, unsure>>
<1>1. Slack \/ (\E m \in Msgs : Deliver(m)) \/ DeliverMembership \/ Beat => Quiet
  BY DEF Slack, Tick, Post, Move, Deliver, DeliverMembership, Beat, Ping, Pong, tasks, history
<1>2. Main => Quiet \/ Exit
  BY DEF Main, Start, Dial, Hello, Begin, BeginSave, CloseSave, tasks, history
<1>3. ConsumeCheckpoint \/ ConsumerSave \/ ConsumeMembership \/ AdoptChannel \/ SkipStranger
      \/ LiveDuplicate => Quiet
  BY DEF ConsumeCheckpoint, ConsumerSave, ConsumeMembership, AdoptChannel, SkipStranger,
         LiveDuplicate, tasks, history
<1>4. RecoverPass \/ RecoverSkip \/ RecoverStart \/ FetchHistory \/ RecoverDuplicate
      \/ RecoverThreads \/ FetchReplies \/ RecoverFinish \/ RecoverSave => Quiet
  BY DEF RecoverPass, RecoverSkip, RecoverStart, FetchHistory, RecoverDuplicate,
         RecoverThreads, FetchReplies, RecoverFinish, RecoverSave, history
<1>5. ThreadGone \/ RecoverError => Quiet
  BY DEF ThreadGone, RecoverError, history
<1> HIDE DEF Quiet
<1>6. \/ Quiet \/ TearDown \/ Exit
      \/ LiveSubmit \/ RecoverSubmit \/ LiveDone \/ RecoverDone \/ RecoverFail
      \/ Admit \/ Timeout \/ WorkerInsert \/ WorkerFail
  BY <1>1, <1>2, <1>3, <1>4, <1>5
  DEF Next, Abort, Read, Consumer, Recovery, Mishap, Worker, TearDown
<1> QED
  BY <1>6 DEF Quiet

\* What recovery has fetched comes from the interval of its channel.
LEMMA TodoMoves ==
  ASSUME TypeOK, Next, NEW m \in rec'.todo
  PROVE  /\ m \in Msgs
         /\ rec'.oldest = rec.oldest
         /\ m \in rec.todo \/ InRange(m)
<1>0. rec \in Recs
  BY DEF TypeOK
<1>1. CASE rec'.todo = {}
  BY <1>1
<1>2. CASE rec' = rec
  BY <1>0, <1>2 DEF Recs
<1>3. TearDown => rec'.todo = {}
  BY TearDownFacts DEF NoRec
<1>4. Slack \/ Main \/ (\E n \in Msgs : Deliver(n)) \/ DeliverMembership \/ Beat \/ Admit
      \/ Worker => rec' = rec
  BY DEF Slack, Tick, Post, Move, Main, Start, Dial, Hello, Begin, BeginSave, CloseSave, Exit,
         Deliver, DeliverMembership, Beat, Ping, Pong, Admit, Worker, WorkerInsert, tasks
<1>5. Consumer => TearDown \/ rec' = rec
  BY DEF Consumer, ConsumeCheckpoint, ConsumerSave, ConsumeMembership,
         AdoptChannel, SkipStranger, LiveDuplicate, LiveSubmit, LiveDone,
         TearDown, tasks
<1>6. RecoverPass \/ RecoverSkip \/ RecoverSubmit \/ Timeout \/ WorkerFail => rec' = rec
  BY DEF RecoverPass, RecoverSkip, RecoverSubmit, Timeout, WorkerFail
<1>7. RecoverStart \/ RecoverFail \/ RecoverSave \/ RecoverError => rec'.todo = {}
  <2>1. RecoverStart => rec'.todo = {}
    BY DEF RecoverStart, NoRec
  <2>2. RecoverFail \/ RecoverSave \/ RecoverError => rec'.todo = {}
    BY DEF RecoverFail, RecoverSave, RecoverError, NoRec
  <2> QED
    BY <2>1, <2>2
<1>8. RecoverThreads => rec'.todo = {}
  BY <1>0 DEF RecoverThreads, Recs
<1>9. CASE RecoverDuplicate \/ RecoverDone
  <2>1. rec'.oldest = rec.oldest /\ rec'.todo \subseteq rec.todo
    BY <1>0, <1>9 DEF RecoverDuplicate, RecoverDone, Recs
  <2> QED
    BY <1>0, <2>1 DEF Recs
<1>10. CASE FetchHistory
  BY <1>0, <1>10 DEF FetchHistory, Recs
<1>11. CASE FetchReplies
  BY <1>0, <1>11 DEF FetchReplies, Recs
<1>12. CASE RecoverFinish \/ ThreadGone
  <2>1. rec'.oldest = rec.oldest /\ rec'.todo \subseteq rec.todo
    BY <1>0, <1>12 DEF RecoverFinish, ThreadGone, Recs
  <2> QED
    BY <1>0, <2>1 DEF Recs
<1> QED
  BY <1>1, <1>2, <1>3, <1>4, <1>5, <1>6, <1>7, <1>8, <1>9, <1>10, <1>11, <1>12
  DEF Next, Abort, Read, Recovery, Mishap, TearDown

\* A message in hand was posted, and belongs to the connection.
LEMMA JobPosted ==
  ASSUME TypeOK, Lock, Stream, Sources, job # NoJob
  PROVE  /\ job.m \in Msgs /\ Posted(job.m)
         /\ job.by = "live" => began <= ts[job.m]
         /\ job.by = "recovery" => rec.oldest <= ts[job.m]
<1>1. job.m \in Msgs /\ job.by \in {"live", "recovery"}
  BY DEF TypeOK, Jobs
<1>2. ASSUME job.by = "live"
      PROVE  Posted(job.m) /\ began <= ts[job.m]
  <2>1. events # <<>> /\ Head(events) = MessageEvent(job.m)
    BY <1>2 DEF Lock
  <2>2. 1 \in 1..Len(events) /\ events[1] = MessageEvent(job.m)
    BY <2>1 DEF TypeOK
  <2>3. Live(job.m)
    BY <2>2 DEF Live, Queued
  <2> QED
    BY <1>1, <2>3 DEF Stream
<1>3. ASSUME job.by = "recovery"
      PROVE  Posted(job.m) /\ rec.oldest <= ts[job.m]
  BY <1>3 DEF Lock, Sources
<1> QED
  BY <1>1, <1>2, <1>3

\* What is fetched, queued, inserted or recorded was posted before.
LEMMA SourcesStep ==
  ASSUME Inv, Inv', Sources, Next
  PROVE  Sources'
<1> USE DEF Inv, Posted
<1>0. \A m \in Msgs : ts[m] \in Nat /\ ts[m] <= clock /\ ts'[m] \in Nat /\ RootOf[m] \in Msgs
  BY DEF TypeOK, Past
<1>1. \A m \in Msgs : Posted(m) => ts'[m] = ts[m]
  BY PostMoves
<1>2. ASSUME NEW m \in Msgs, ts'[m] > 0
      PROVE  ts'[RootOf[m]] > 0 /\ ts'[RootOf[m]] <= ts'[m]
  <2>1. CASE Posted(m)
    BY <1>0, <1>1, <2>1 DEF Sources
  <2>2. CASE ~Posted(m)
    <3>1. Post(m) /\ ts'[m] = clock
      BY <1>2, <2>2, PostMoves, <1>0
    <3>2. CASE RootOf[m] = m
      BY <1>0, <1>2, <3>2
    <3>3. CASE RootOf[m] # m
      <4>1. Posted(RootOf[m])
        BY <3>1, <3>3 DEF Post
      <4> QED
        BY <1>0, <1>1, <3>1, <4>1
    <3> QED
      BY <3>2, <3>3
  <2> QED
    BY <2>1, <2>2
<1>3. ASSUME NEW m \in Msgs, m \in rec'.todo
      PROVE  ts'[m] > 0 /\ rec'.oldest <= ts'[m]
  <2>1. rec'.oldest = rec.oldest /\ (m \in rec.todo \/ InRange(m))
    BY <1>3, TodoMoves
  <2>2. Posted(m) /\ rec.oldest <= ts[m]
    BY <2>1 DEF Sources, InRange
  <2> QED
    BY <1>1, <2>1, <2>2
<1>4. queue # <<>> => Head(queue) \in Msgs /\ Posted(Head(queue))
  <2>1. ASSUME queue # <<>>
        PROVE  Head(queue) \in Msgs /\ Head(queue) = queue[1] /\ 1 \in 1..Len(queue)
    BY <2>1 DEF TypeOK
  <2> QED
    BY <2>1 DEF Sources
<1>5. ASSUME NEW m \in Msgs, rows'[m] > 0
      PROVE  ts'[m] > 0
  <2>1. CASE rows'[m] = rows[m]
    BY <1>1, <1>5, <2>1 DEF Sources
  <2>2. CASE rows'[m] # rows[m]
    <3>1. WorkerInsert \/ WorkerFail
      BY <2>2, AttemptMoves, TearDownFacts
      DEF Exit, LiveSubmit, RecoverSubmit, LiveDone, RecoverDone, RecoverFail, Admit, Timeout,
          history
    <3>2. queue # <<>> /\ rows' \in {rows, MoreRows(Head(queue))}
      BY <3>1 DEF WorkerInsert, WorkerFail
    <3>3. m = Head(queue)
      BY <2>2, <3>2 DEF MoreRows, TypeOK
    <3> QED
      BY <1>1, <1>4, <3>2, <3>3
  <2> QED
    BY <2>1, <2>2
<1>6. ASSUME NEW i \in 1..Len(queue')
      PROVE  ts'[queue'[i]] > 0
  <2>0. queue \in Seq(Msgs) /\ \A j \in 1..Len(queue) : queue[j] \in Msgs /\ ts'[queue[j]] > 0
    <3>1. queue \in Seq(Msgs)
      BY DEF TypeOK
    <3>2. \A j \in 1..Len(queue) : queue[j] \in Msgs
      BY <3>1
    <3> QED
      BY <1>1, <3>1, <3>2 DEF Sources
  <2>1. CASE queue' = queue
    BY <1>6, <2>0, <2>1
  <2>2. CASE queue' = <<>>
    BY <1>6, <2>2
  <2>3. CASE queue # <<>> /\ queue' = Tail(queue)
    <3>1. i + 1 \in 1..Len(queue) /\ queue'[i] = queue[i + 1]
      BY <1>6, <2>0, <2>3
    <3> QED
      BY <2>0, <3>1
  <2>4. CASE Admit
    <3>1. job # NoJob /\ queue' = Append(queue, job.m)
      BY <2>4 DEF Admit, NoJob
    <3>2. job.m \in Msgs /\ ts'[job.m] > 0
      BY <1>1, <3>1, JobPosted
    <3>3. queue'[i] = job.m \/ (i \in 1..Len(queue) /\ queue'[i] = queue[i])
      BY <1>6, <2>0, <3>1, <3>2
    <3> QED
      BY <2>0, <3>2, <3>3
  <2>5. \/ queue' = queue \/ queue' = <<>> \/ Admit
        \/ queue # <<>> /\ queue' = Tail(queue)
    BY AttemptMoves
    DEF TearDown, Disconnect, Shutdown, Overrun, LiveFail, Crash, ForgetProcess,
        Exit, LiveSubmit, RecoverSubmit, LiveDone, RecoverDone, RecoverFail, Timeout,
        WorkerInsert, WorkerFail
  <2> QED
    BY <2>1, <2>2, <2>3, <2>4, <2>5
<1>7. ASSUME NEW m \in Msgs, store'.seen[m] > 0
      PROVE  ts'[m] > 0 /\ ts'[m] <= store'.seen[m]
  <2>1. CASE store'.seen = store.seen
    BY <1>1, <1>7, <2>1 DEF Sources, Seen
  <2>2. CASE Crash /\ store' = disk
    BY <1>1, <1>7, <2>2 DEF Sources, Seen
  <2>3. ASSUME NEW h \in Tables, NEW k \in Tables, NEW at \in Nat, PruningStep(h, k, at)
        PROVE  ts'[m] > 0 /\ ts'[m] <= store'.seen[m]
    <3>1. PrunedTo(h, store'.seen, at - Window - Overlap, MaxSeen)
      BY <2>3 DEF PruningStep, PrunedFrom
    <3>2. at - Window - Overlap \in Int /\ MaxSeen \in Nat
      BY LimitsAssumption
    <3>3. store'.seen[m] = h[m] /\ h[m] > 0
      <4>1. m \in Listed(store'.seen)
        BY <1>7 DEF Listed
      <4>2. Listed(store'.seen) \subseteq Listed(h) /\ \A n \in Listed(store'.seen) : store'.seen[n] = h[n]
        BY <3>1, <3>2, PrunedTable
      <4> QED
        BY <1>7, <4>1, <4>2
    <3>4. CASE h[m] = store.seen[m]
      BY <1>1, <3>3, <3>4 DEF Sources, Seen
    <3>5. CASE (LiveDone \/ RecoverDone) /\ h = [store.seen EXCEPT ![job.m] = clock] /\ h[m] # store.seen[m]
      <4>1. job # NoJob
        BY <3>5 DEF LiveDone, RecoverDone, NoJob
      <4>2. m = job.m /\ h[m] = clock /\ Posted(m)
        BY <3>5, <4>1, JobPosted DEF TypeOK, Snapshots
      <4> QED
        BY <1>0, <1>1, <3>3, <4>2
    <3> QED
      BY <2>3, <3>4, <3>5 DEF PruningStep
  <2> QED
    BY <2>1, <2>2, <2>3, TableMoves
<1>8. ASSUME NEW m \in Msgs, disk'.seen[m] > 0
      PROVE  ts'[m] > 0 /\ ts'[m] <= disk'.seen[m]
  <2>1. disk' = disk \/ disk' = store'
    BY StoreMoves
  <2> QED
    BY <1>1, <1>7, <1>8, <2>1 DEF Sources, Seen
<1>9. rec'.todo \subseteq Msgs
  BY DEF TypeOK, Recs
<1> QED
  BY <1>2, <1>3, <1>5, <1>6, <1>7, <1>8, <1>9 DEF Sources, Seen

\* While a page is handled, messages only leave it.
LEMMA PageMoves ==
  ASSUME TypeOK, Lock, Next, rec'.stage = "pages"
  PROVE  \/ FetchHistory
         \/ rec' = rec
         \/ /\ RecoverDuplicate \/ RecoverDone
            /\ \E n \in rec.todo : /\ rec' = [rec EXCEPT !.todo = @ \ {n}]
                                   /\ RecoverDuplicate => store' \in Remembered(n, FetchedRoots(n))
                                   /\ RecoverDone => n = job.m
<1>0. rec \in Recs
  BY DEF TypeOK
<1>1. ~TearDown
  BY TearDownFacts DEF NoRec
<1>2. Slack \/ Main \/ (\E m \in Msgs : Deliver(m)) \/ DeliverMembership \/ Beat \/ Admit
      \/ Worker => rec' = rec
  BY DEF Slack, Tick, Post, Move, Main, Start, Dial, Hello, Begin, BeginSave, CloseSave, Exit,
         Deliver, DeliverMembership, Beat, Ping, Pong, Admit, Worker, WorkerInsert, tasks
<1>3. Consumer => TearDown \/ rec' = rec
  BY DEF Consumer, ConsumeCheckpoint, ConsumerSave, ConsumeMembership,
         AdoptChannel, SkipStranger, LiveDuplicate, LiveSubmit, LiveDone,
         TearDown, tasks
<1>4. RecoverPass \/ RecoverSkip \/ RecoverSubmit \/ Timeout \/ WorkerFail => rec' = rec
  BY DEF RecoverPass, RecoverSkip, RecoverSubmit, Timeout, WorkerFail
<1>5. ~RecoverStart
  BY DEF RecoverStart, NoRec
<1>6. ~RecoverFail /\ ~RecoverSave /\ ~RecoverError
  BY DEF RecoverFail, RecoverSave, RecoverError, NoRec
<1>7. ~RecoverThreads /\ ~FetchReplies /\ ~RecoverFinish /\ ~ThreadGone
  BY <1>0 DEF RecoverThreads, FetchReplies, RecoverFinish, ThreadGone, Recovering, Recs
<1>8. CASE RecoverDuplicate /\ ~RecoverDone
  <2>1. PICK n \in rec.todo : /\ store' \in Remembered(n, FetchedRoots(n))
                              /\ rec' = [rec EXCEPT !.todo = @ \ {n}]
    BY <1>8 DEF RecoverDuplicate
  <2> QED
    BY <1>8, <2>1
<1>9. CASE RecoverDone
  <2>1. job.m \in rec.todo /\ rec' = [rec EXCEPT !.todo = @ \ {job.m}] /\ ~RecoverDuplicate
    BY <1>9 DEF RecoverDone, RecoverDuplicate, Unlocked, NoJob, Lock
  <2> QED
    BY <1>9, <2>1
<1> QED
  BY <1>1, <1>2, <1>3, <1>4, <1>5, <1>6, <1>7, <1>8, <1>9
  DEF Next, Abort, Read, Recovery, Mishap, TearDown

\* While recovery has a message in hand, its page stays as it is.
LEMMA HeldPage ==
  ASSUME TypeOK, Lock, Next, job.by = "recovery", job'.by = "recovery"
  PROVE  rec' = rec /\ job'.m = job.m /\ job'.roots = job.roots
<1>0. job \in Jobs /\ job # NoJob /\ rec.todo # {}
  BY DEF TypeOK, Lock, NoJob
<1>1. ~TearDown /\ ~RecoverFail /\ ~LiveDone /\ ~RecoverDone
  BY TearDownFacts DEF RecoverFail, LiveDone, RecoverDone, NoJob
<1>2. ~LiveSubmit /\ ~RecoverSubmit /\ ~LiveDuplicate /\ ~RecoverDuplicate
  BY <1>0 DEF LiveSubmit, RecoverSubmit, LiveDuplicate, RecoverDuplicate, Unlocked
<1>3. Admit \/ Timeout \/ WorkerInsert \/ WorkerFail
        => rec' = rec /\ job'.m = job.m /\ job'.roots = job.roots
  BY <1>0 DEF Admit, Timeout, WorkerInsert, WorkerFail, Answer, Jobs
<1>4. Slack \/ Main \/ (\E m \in Msgs : Deliver(m)) \/ DeliverMembership \/ Beat
        => rec' = rec /\ job' = job
  BY DEF Slack, Tick, Post, Move, Main, Start, Dial, Hello, Begin, BeginSave, CloseSave, Exit,
         Deliver, DeliverMembership, Beat, Ping, Pong, tasks
<1>5. ConsumeCheckpoint \/ ConsumerSave \/ ConsumeMembership \/ AdoptChannel \/ SkipStranger
        => rec' = rec /\ job' = job
  BY DEF ConsumeCheckpoint, ConsumerSave, ConsumeMembership, AdoptChannel, SkipStranger, tasks
<1>6. RecoverPass \/ RecoverSkip => rec' = rec /\ job' = job
  BY DEF RecoverPass, RecoverSkip
<1>7. ~RecoverStart /\ ~FetchHistory /\ ~RecoverSave
  BY <1>0 DEF RecoverStart, FetchHistory, RecoverSave, Recovering, Lock, NoRec
<1>8. ~RecoverThreads /\ ~FetchReplies /\ ~RecoverFinish /\ ~ThreadGone /\ ~RecoverError
  BY <1>0 DEF RecoverThreads, FetchReplies, RecoverFinish, ThreadGone, RecoverError
<1> QED
  BY <1>1, <1>2, <1>3, <1>4, <1>5, <1>6, <1>7, <1>8
  DEF Next, Abort, Read, Consumer, Recovery, Mishap, Worker, TearDown

\* An entry of a thread that pruning meets at t or later stays, unless t has
\* expired or the table is full of later ones.
LEMMA ThreadEntry ==
  ASSUME TypeOK, NEW k \in Tables, NEW r \in Msgs,
         PrunedTo(k, store'.threads, clock - Window, MaxThreads),
         k[r] > 0, k[r] >= began
  PROVE  \/ store'.threads[r] > 0 /\ store'.threads[r] >= began
         \/ began + Window < clock
         \/ FullSince(store'.threads, MaxThreads, began)
<1>1. /\ clock - Window \in Int /\ MaxThreads \in Nat /\ began \in Nat /\ r \in Listed(k)
      /\ Window \in Nat /\ clock \in Nat
  BY LimitsAssumption DEF TypeOK, Listed
<1>2. \/ r \in Listed(store'.threads) /\ store'.threads[r] = k[r]
      \/ began < clock - Window \/ FullSince(store'.threads, MaxThreads, began)
  BY <1>1, EntryPruned
<1>3. began < clock - Window => began + Window < clock
  BY <1>1
<1> QED
  BY <1>2, <1>3 DEF Listed

\* Once the thread of a missed reply is tracked, or there is no room for it, it
\* stays that way while the channel's pages are handled.
LEMMA ThreadKept ==
  ASSUME Inv, Next, ~TearDown, ~Begin, ~ThreadGone, NEW r \in Msgs,
         \/ store.threads[r] > 0 /\ store.threads[r] >= began
         \/ began + Window < clock
         \/ FullSince(store.threads, MaxThreads, began)
  PROVE  \/ store'.threads[r] > 0 /\ store'.threads[r] >= began
         \/ began + Window < clock
         \/ FullSince(store'.threads, MaxThreads, began)
<1>0. /\ TypeOK /\ Past /\ store.threads \in Tables /\ clock \in Nat \ {0}
      /\ began \in Nat /\ began <= clock /\ MaxThreads \in Nat /\ clock - Window \in Int
  BY LimitsAssumption, SMTT(40) DEF Inv, TypeOK, Past, Snapshots, Tables
<1>1. CASE store'.threads = store.threads
  BY <1>1
<1>2. ASSUME NEW h \in Tables, NEW k \in Tables, NEW at \in Nat, PruningStep(h, k, at)
      PROVE  \/ store'.threads[r] > 0 /\ store'.threads[r] >= began
             \/ began + Window < clock
             \/ FullSince(store'.threads, MaxThreads, began)
  <2>1. PrunedTo(k, store'.threads, clock - Window, MaxThreads)
        /\ \A n \in Msgs : k[n] \in {store.threads[n], clock}
    BY <1>2 DEF PruningStep, PrunedFrom
  <2>2. CASE store.threads[r] > 0 /\ store.threads[r] >= began
    <3>1. k[r] > 0 /\ k[r] >= began
      BY <1>0, <2>1, <2>2
    <3> QED
      BY <1>0, <2>1, <3>1, ThreadEntry
  <2>3. CASE FullSince(store.threads, MaxThreads, began)
    <3>1. FullSince(k, MaxThreads, began)
      BY <1>0, <2>1, <2>3, FullRenewed
    <3>2. began < clock - Window \/ FullSince(store'.threads, MaxThreads, began)
      BY <1>0, <2>1, <3>1, FullPruned
    <3>3. began < clock - Window => began + Window < clock
      BY <1>0
    <3> QED
      BY <3>2, <3>3
  <2> QED
    BY <2>2, <2>3
<1> QED
  BY <1>0, <1>1, <1>2, TableMoves DEF TearDown

\* A root that leaves the page with its thread known is tracked, unless there is
\* no room for its thread.
LEMMA RootHandled ==
  ASSUME Inv, Threaded, Next, NEW r \in rec.todo \intersect rec.parents,
         RootOf[r] = r, ChanOf[r] \in store.tracked,
         \/ RecoverDuplicate /\ store' \in Remembered(r, FetchedRoots(r))
         \/ RecoverDone /\ r = job.m
  PROVE  \/ store'.threads[r] > 0 /\ store'.threads[r] >= began
         \/ began + Window < clock
         \/ FullSince(store'.threads, MaxThreads, began)
<1>0. /\ TypeOK /\ r \in Msgs /\ clock \in Nat \ {0} /\ began <= clock
      /\ store.threads \in Tables /\ FetchedRoots(r) = {r} /\ Tracks(store, r)
  BY DEF Inv, TypeOK, Recs, Past, Snapshots, Tables, FetchedRoots, Tracks
<1>1. PICK k : k = Renewed(store.threads, Found({r}), clock)
  OBVIOUS
<1>2. k \in Tables /\ k[r] = clock
  BY <1>0, <1>1, RenewedTable DEF Renewed, Found
<1>3. PrunedTo(k, store'.threads, clock - Window, MaxThreads)
  <2>1. CASE RecoverDuplicate /\ store' \in Remembered(r, FetchedRoots(r))
    <3>1. PrunedFrom(store', store.seen, Renewed(store.threads, Found({r}), clock), clock)
      BY <1>0, <2>1, RememberedTables
    <3> QED
      BY <1>1, <3>1 DEF PrunedFrom
  <2>2. CASE RecoverDone /\ r = job.m
    <3>1. job.roots = {r}
      BY <1>0, <2>2 DEF Threaded, RecoverDone
    <3> QED
      BY <1>0, <1>1, <2>2, <3>1, ProcessedTables DEF PrunedFrom
  <2> QED
    BY <2>1, <2>2
<1>4. k[r] > 0 /\ k[r] >= began
  <2>1. began \in Nat
    BY <1>0 DEF TypeOK
  <2> QED
    BY <1>0, <1>2, <2>1
<1> QED
  BY <1>0, <1>2, <1>3, <1>4, ThreadEntry

\* The threads of missed replies are tracked once their roots are handled.
LEMMA ThreadedStep ==
  ASSUME Inv, Inv', Sources, Threaded, Next
  PROVE  Threaded'
<1> DEFINE TrackedOrFull(m) ==
             \/ RootOf[m] \in rec'.todo \intersect rec'.parents
             \/ store'.threads[RootOf[m]] > 0 /\ store'.threads[RootOf[m]] >= began'
             \/ began' + Window < clock'
             \/ FullSince(store'.threads, MaxThreads, began')
<1>0. TypeOK /\ Idle /\ Lock /\ Receipt /\ Coverage /\ SuppressedIsHandled /\ LeftToRecovery
      /\ Passes /\ Past /\ rec \in Recs
  BY DEF Inv, TypeOK
<1>1. ASSUME job'.by = "recovery"
      PROVE  job'.roots = IF RootOf[job'.m] # job'.m \/ job'.m \in rec'.parents
                          THEN {RootOf[job'.m]} ELSE {}
  <2>1. CASE job.by = "recovery"
    BY <1>0, <1>1, <2>1, HeldPage DEF Threaded, FetchedRoots
  <2>2. CASE job.by # "recovery"
    <3>1. RecoverSubmit
      <4>1. ~(job' = job \/ job' = NoJob \/ LiveSubmit)
        BY <1>1, <2>2 DEF NoJob, LiveSubmit, Submit
      <4>2. ~(Admit \/ Timeout \/ WorkerInsert \/ WorkerFail)
        BY <1>0, <1>1, <2>2 DEF Admit, Timeout, WorkerInsert, WorkerFail, Answer, TypeOK, Jobs, NoJob
      <4>3. ~Exit
        BY <4>1 DEF Exit, tasks
      <4> QED
        BY <1>0, <4>1, <4>2, <4>3, AttemptMoves, TearDownFacts
        DEF LiveDone, RecoverDone, RecoverFail
    <3>2. PICK n \in rec.todo : Submit("recovery", n, FetchedRoots(n)) /\ rec' = rec
      BY <3>1 DEF RecoverSubmit
    <3> QED
      BY <3>2 DEF Submit, FetchedRoots
  <2> QED
    BY <2>1, <2>2
<1>2. ASSUME rec'.stage = "pages", NEW m \in Msgs, Missed(m)', ChanOf[m] = rec'.ch,
             RootOf[m] # m, rec'.oldest <= ts'[RootOf[m]]
      PROVE  TrackedOrFull(m)
  <2> DEFINE r == RootOf[m]
  <2>0. r \in Msgs /\ RootOf[r] = r /\ ChanOf[r] = ChanOf[m]
    OBVIOUS
  <2>1. phase' = "running" /\ ~TearDown
    BY <1>2, TearDownFacts DEF Inv, Idle, NoRec
  <2>2. rec.stage \in {"history", "pages"} /\ rec'.ch = rec.ch /\ rec'.oldest = rec.oldest
    BY <1>0, <1>2, PageMoves DEF FetchHistory, Recovering, Recs
  <2>3. phase = "running" /\ Connected /\ began' = began /\ Subscribed'
    BY <1>0, <2>1, <2>2, PhaseMoves DEF Idle, NoRec, Connected, Begin, Subscribed
  <2>4. Missed(m) /\ ts'[m] = ts[m] /\ Posted(m)
    BY <1>0, <1>2, <2>3, MissedShrinks DEF Missed, Open
  <2>5. Posted(r) /\ ts[r] <= ts[m] /\ ts'[r] = ts[r]
    <3>1. Posted(r) /\ ts[r] <= ts[m]
      BY <2>4 DEF Sources
    <3> QED
      BY <1>0, <2>0, <3>1, PostMoves
  <2>6. ts[m] <= began /\ ChanOf[m] \in recovering /\ ChanOf[m] \in store.tracked
    BY <1>0, <2>3, <2>4 DEF LeftToRecovery, Connected, Subscribed
  <2>7. CASE FetchHistory
    <3>1. InRange(r)
      BY <1>0, <1>2, <2>0, <2>2, <2>5, <2>6 DEF InRange, TypeOK
    <3>2. HasReplies(r)
      BY <1>2, <2>0, <2>4 DEF HasReplies
    <3>3. r \in rec'.todo /\ r \in rec'.parents
      BY <1>0, <2>0, <2>7, <3>1, <3>2 DEF FetchHistory, Recs
    <3> QED
      BY <3>3
  <2>8. CASE ~FetchHistory
    <3>1. rec.stage = "pages"
      BY <1>0, <1>2, <2>8, PageMoves DEF Recs
    <3>2. \/ r \in rec.todo \intersect rec.parents
          \/ \/ store.threads[r] > 0 /\ store.threads[r] >= began
             \/ began + Window < clock
             \/ FullSince(store.threads, MaxThreads, began)
      BY <1>2, <2>2, <2>4, <2>5, <3>1 DEF Threaded
    <3>3. began + Window < clock => began' + Window < clock'
      BY <1>0, <2>3, ClockMoves DEF TypeOK
    <3>4. CASE \/ store.threads[r] > 0 /\ store.threads[r] >= began
               \/ began + Window < clock
               \/ FullSince(store.threads, MaxThreads, began)
      <4>1. ~Begin /\ ~ThreadGone
        BY <2>3, <3>1 DEF Begin, ThreadGone, Recovering
      <4>2. \/ store'.threads[r] > 0 /\ store'.threads[r] >= began
            \/ began + Window < clock
            \/ FullSince(store'.threads, MaxThreads, began)
        BY <2>0, <2>1, <3>4, <4>1, ThreadKept
      <4> QED
        BY <2>3, <3>3, <4>2
    <3>5. CASE r \in rec.todo \intersect rec.parents /\ r \notin rec'.todo \intersect rec'.parents
      <4>1. \E n \in rec.todo :
              /\ rec' = [rec EXCEPT !.todo = @ \ {n}]
              /\ \/ RecoverDuplicate /\ store' \in Remembered(n, FetchedRoots(n))
                 \/ RecoverDone /\ n = job.m
        BY <1>0, <1>2, <2>8, <3>5, PageMoves
      <4>2. \/ RecoverDuplicate /\ store' \in Remembered(r, FetchedRoots(r))
            \/ RecoverDone /\ r = job.m
        BY <1>0, <3>5, <4>1 DEF Recs
      <4>3. \/ store'.threads[r] > 0 /\ store'.threads[r] >= began
            \/ began + Window < clock
            \/ FullSince(store'.threads, MaxThreads, began)
        BY <2>0, <2>6, <3>5, <4>2, RootHandled
      <4> QED
        BY <2>3, <3>3, <4>3
    <3> QED
      BY <3>2, <3>4, <3>5
  <2> QED
    BY <2>7, <2>8
<1> HIDE DEF TrackedOrFull
<1>3. \A m \in Msgs : rec'.stage = "pages" /\ Missed(m)' /\ ChanOf[m] = rec'.ch
                        /\ RootOf[m] # m /\ rec'.oldest <= ts'[RootOf[m]] => TrackedOrFull(m)
  BY <1>2
<1> QED
  BY <1>1, <1>3 DEF Threaded, FetchedRoots, TrackedOrFull

\* What was ever tried without a record stays known.
LEMMA UnsureGrows ==
  ASSUME TypeOK, Next
  PROVE  unsure \subseteq unsure'
  BY AttemptMoves
  DEF TearDown, Disconnect, Shutdown, Overrun, Overflow, LiveFail, Crash, Reconnect,
      DropConnection, Exit, LiveSubmit, RecoverSubmit, LiveDone, RecoverDone, RecoverFail,
      Admit, Timeout, WorkerInsert, WorkerFail, history

\* Pruning the seen entries: what was forgotten stays so, and what was recorded
\* is recorded or forgotten.
LEMMA SeenPruned ==
  ASSUME TypeOK, Past, NEW m \in Msgs, ts[m] <= clock, clock <= clock', clock' \in Nat,
         ts'[m] = ts[m],
         NEW h \in Tables, NEW k \in Tables, NEW at \in Nat, at <= clock,
         PruningStep(h, k, at)
  PROVE  /\ h[m] > 0 /\ ts[m] <= h[m] => Seen(store', m) \/ Forgotten(m)'
         /\ FullSince(store.seen, MaxSeen, ts[m]) => Forgotten(m)'
<1>0. /\ ts[m] \in Nat /\ clock \in Nat \ {0} /\ MaxSeen \in Nat /\ Window \in Nat /\ Overlap \in Nat
      /\ at - Window - Overlap \in Int /\ store.seen \in Tables
  BY LimitsAssumption DEF TypeOK, Snapshots, Tables
<1>1. PrunedTo(h, store'.seen, at - Window - Overlap, MaxSeen)
  BY DEF PruningStep, PrunedFrom
<1>2. ts[m] < at - Window - Overlap => ts'[m] + Window + Overlap < clock'
  BY <1>0
<1>3. ASSUME h[m] > 0, ts[m] <= h[m]
      PROVE  Seen(store', m) \/ Forgotten(m)'
  <2>1. m \in Listed(h) /\ h[m] >= ts[m]
    BY <1>0, <1>3 DEF Listed, Tables
  <2>2. m \in Listed(store'.seen) \/ ts[m] < at - Window - Overlap
        \/ FullSince(store'.seen, MaxSeen, ts[m])
    BY <1>0, <1>1, <2>1, EntryPruned
  <2> QED
    BY <1>2, <2>2 DEF Listed, Seen, Forgotten
<1>4. ASSUME FullSince(store.seen, MaxSeen, ts[m])
      PROVE  Forgotten(m)'
  <2>1. \A n \in Msgs : h[n] \in {store.seen[n], clock}
    BY <1>0 DEF PruningStep, Tables
  <2>2. FullSince(h, MaxSeen, ts[m])
    BY <1>0, <1>4, <2>1, FullRenewed
  <2>3. ts[m] < at - Window - Overlap \/ FullSince(store'.seen, MaxSeen, ts[m])
    BY <1>0, <1>1, <2>2, FullPruned
  <2> QED
    BY <1>2, <2>3 DEF Forgotten
<1> QED
  BY <1>3, <1>4

\* But for a crash, a record is only lost when it is forgotten, for good.
LEMMA ForgottenKept ==
  ASSUME Inv, Sources, Next, ~Crash, NEW m \in Msgs, Posted(m)
  PROVE  /\ Forgotten(m) => Forgotten(m)'
         /\ Seen(store, m) => Seen(store', m) \/ Forgotten(m)'
<1>0. /\ TypeOK /\ Past /\ ts[m] \in Nat /\ ts[m] <= clock /\ clock \in Nat
      /\ clock <= clock' /\ clock' \in Nat /\ store.seen \in Tables
  BY ClockMoves DEF Inv, TypeOK, Past, Snapshots, Tables
<1>1. ts'[m] = ts[m]
  BY <1>0, PostMoves
<1>2. ts[m] + Window + Overlap < clock => Forgotten(m)'
  BY <1>0, <1>1 DEF Forgotten
<1>3. CASE store'.seen = store.seen
  BY <1>1, <1>2, <1>3 DEF Forgotten, Seen
<1>4. ASSUME NEW h \in Tables, NEW k \in Tables, NEW at \in Nat, at <= clock, PruningStep(h, k, at)
      PROVE  /\ FullSince(store.seen, MaxSeen, ts[m]) => Forgotten(m)'
             /\ Seen(store, m) => Seen(store', m) \/ Forgotten(m)'
  <2>1. FullSince(store.seen, MaxSeen, ts[m]) => Forgotten(m)'
    BY <1>0, <1>1, <1>4, SeenPruned
  <2>2. ASSUME Seen(store, m)
        PROVE  Seen(store', m) \/ Forgotten(m)'
    <3>1. store.seen[m] > 0 /\ ts[m] <= store.seen[m]
      BY <2>2 DEF Sources, Seen
    <3>2. h[m] \in {store.seen[m], clock}
      BY <1>0, <1>4 DEF PruningStep, Tables
    <3>3. h[m] > 0 /\ ts[m] <= h[m]
      BY <1>0, <3>1, <3>2 DEF Posted
    <3> QED
      BY <1>0, <1>1, <1>4, <3>3, SeenPruned
  <2> QED
    BY <2>1, <2>2
<1>5. \/ store'.seen = store.seen
      \/ \E h, k \in Tables, at \in Nat : at <= clock /\ PruningStep(h, k, at)
  BY <1>0, TableMoves
<1> QED
  BY <1>2, <1>3, <1>4, <1>5 DEF Forgotten

\* processed() makes an entry, unless the table is full of later ones.
LEMMA DoneRecorded ==
  ASSUME Inv, Sources, Next, LiveDone \/ RecoverDone, NEW m, m = job.m
  PROVE  m \in Msgs /\ (Seen(store', m) \/ Forgotten(m)')
<1>0. TypeOK /\ Past /\ Lock /\ Stream
  BY DEF Inv
<1>1. job # NoJob /\ m \in Msgs
  BY <1>0 DEF TypeOK, LiveDone, RecoverDone, NoJob, Jobs
<1>2. /\ store.seen \in Tables /\ store.threads \in Tables /\ clock \in Nat \ {0}
      /\ clock <= clock' /\ clock' \in Nat
  BY <1>0, ClockMoves DEF TypeOK, Snapshots, Tables
<1>3. ts[m] > 0 /\ ts[m] <= clock /\ ts'[m] = ts[m]
  <2>1. Posted(m)
    BY <1>0, <1>1, JobPosted
  <2> QED
    BY <1>0, <1>1, <2>1, PostMoves DEF Past, Posted
<1>4. PICK h, k : /\ h = [store.seen EXCEPT ![m] = clock]
                  /\ k = Renewed(store.threads, Found(job.roots), clock)
  OBVIOUS
<1>5. /\ h \in Tables /\ k \in Tables /\ h[m] = clock
      /\ \A r \in Msgs : k[r] \in {store.threads[r], clock}
  BY <1>1, <1>2, <1>4, RenewedTable DEF Tables
<1>6. PruningStep(h, k, clock)
  BY <1>0, <1>4, <1>5, ProcessedTables DEF PruningStep
<1>7. h[m] > 0 /\ ts[m] <= h[m] /\ clock <= clock /\ clock \in Nat
  BY <1>2, <1>3, <1>5
<1>8. Seen(store', m) \/ Forgotten(m)'
  BY <1>0, <1>1, <1>2, <1>3, <1>5, <1>6, <1>7, SeenPruned
<1> QED
  BY <1>1, <1>8

\* The parts of Repeats
Explained == \A m \in Msgs : rows[m] > 0 => Seen(store, m) \/ Forgotten(m) \/ m \in unsure \/ m = job.m
OneAttempt ==
  \A i \in 1..Len(queue) :
    queue[i] \in unsure \/ (i = Len(queue) /\ queue[i] = job.m /\ job.state \in {"wait", "fail"})
FirstInsert ==
  \A m \in Msgs \ unsure :
    m = job.m /\ (job.state = "admit" \/ \E i \in 1..Len(queue) : queue[i] = m) =>
      rows[m] = 0 \/ Forgotten(m)

\* What ends the attempt in hand without a record puts it among the unsure ones.
LEMMA AttemptEnds ==
  ASSUME TypeOK, Idle, TearDown \/ Exit \/ RecoverFail
  PROVE  /\ job' = NoJob
         /\ job.m \in Msgs => job.m \in unsure'
         /\ rows' = rows
         /\ queue' = queue \/ queue' = <<>>
<1>1. CASE TearDown
  BY <1>1, TearDownFacts
  DEF TearDown, Disconnect, Shutdown, Overrun, Overflow, LiveFail, Crash, Reconnect,
      DropConnection, ForgetProcess
<1>2. CASE Exit
  BY <1>2 DEF Exit, ForgetProcess, Idle, NoJob, tasks, history
<1>3. CASE RecoverFail
  BY <1>3 DEF RecoverFail
<1> QED
  BY <1>1, <1>2, <1>3

\* Behind the only entry of a queue there is nothing.
LEMMA ShortTail ==
  ASSUME NEW S, NEW q \in Seq(S), Len(q) = 1
  PROVE  Tail(q) = <<>>
<1>0. Len(<<>>) = 0
  BY EmptySeq
<1>1. q # <<>>
  <2> SUFFICES ASSUME q = <<>>
               PROVE  Len(q) = 0
    OBVIOUS
  <2> QED
    BY <1>0, Zenon
<1>2. Tail(q) \in Seq(S) /\ Len(Tail(q)) = Len(q) - 1
  BY <1>1, HeadTailProperties
<1>3. Len(Tail(q)) = 0
  BY <1>2
<1> QED
  BY <1>2, <1>3, EmptySeq

\* The message at the head of the worker queue is a stray one or in hand.
LEMMA WorkerHead ==
  ASSUME TypeOK, OneAttempt, WorkerInsert \/ WorkerFail
  PROVE  /\ queue # <<>> /\ Head(queue) \in Msgs /\ queue' = Tail(queue)
         /\ rows' \in {rows, MoreRows(Head(queue))} /\ unsure' = unsure
         /\ job'.m = job.m /\ job'.by = job.by
         /\ \/ Head(queue) \in unsure
            \/ /\ Head(queue) = job.m /\ Len(queue) = 1 /\ queue' = <<>>
               /\ job'.state \in {"ok", "fail"}
         /\ job' = job \/ (Len(queue) = 1 /\ queue' = <<>> /\ job.state = "wait"
                           /\ job'.state \in {"ok", "fail"})
<1>1. /\ queue # <<>> /\ queue' = Tail(queue) /\ unsure' = unsure
      /\ rows' \in {rows, MoreRows(Head(queue))}
      /\ job' = job \/ (Len(queue) = 1 /\ job.state = "wait"
                        /\ \E s \in {"ok", "fail"} : job' = [job EXCEPT !.state = s])
      /\ Len(queue) = 1 /\ job.state = "wait" => job' # job
  <2>1. \A outcome \in {"ok", "fail"} : Answer(outcome) =>
          /\ job' = job \/ (Len(queue) = 1 /\ job.state = "wait"
                            /\ job' = [job EXCEPT !.state = outcome])
          /\ Len(queue) = 1 /\ job.state = "wait" => job' # job
    BY DEF Answer, TypeOK, Jobs, NoJob
  <2> QED
    BY <2>1 DEF WorkerInsert, WorkerFail, history
<1>2. /\ Head(queue) \in Msgs /\ Head(queue) = queue[1] /\ 1 \in 1..Len(queue)
      /\ Len(queue) = 1 => queue' = <<>>
  <2>1. queue \in Seq(Msgs)
    BY DEF TypeOK
  <2>2. Head(queue) \in Msgs /\ Head(queue) = queue[1] /\ 1 \in 1..Len(queue)
    BY <1>1, <2>1
  <2>3. Len(queue) = 1 => queue' = <<>>
    BY <1>1, <2>1, ShortTail
  <2> QED
    BY <2>2, <2>3
<1>3. job'.m = job.m /\ job'.by = job.by
      /\ (job' = job \/ (Len(queue) = 1 /\ job.state = "wait" /\ job'.state \in {"ok", "fail"}))
  BY <1>1 DEF TypeOK, Jobs, NoJob
<1>4. \/ Head(queue) \in unsure
      \/ 1 = Len(queue) /\ Head(queue) = job.m /\ job.state \in {"wait", "fail"}
  BY <1>2 DEF OneAttempt
<1> QED
  BY <1>1, <1>2, <1>3, <1>4

\* What is inserted is recorded, forgotten, in hand or known to be unsure.
LEMMA ExplainedStep ==
  ASSUME Inv, Sources, Explained, OneAttempt, Next
  PROVE  Explained'
<1> SUFFICES ASSUME NEW m \in Msgs, rows'[m] > 0
             PROVE  Seen(store', m) \/ Forgotten(m)' \/ m \in unsure' \/ m = job'.m
  BY DEF Explained, Seen
<1>0. TypeOK /\ Idle
  BY DEF Inv
<1>1. unsure \subseteq unsure' /\ m # NoMsg
  BY <1>0, UnsureGrows
<1>2. CASE Crash
  BY <1>2 DEF Crash, Seen
<1>3. CASE ~Crash /\ rows[m] > 0 /\ m # job.m
  <2>1. Posted(m)
    BY <1>3 DEF Sources
  <2>2. Seen(store, m) \/ Forgotten(m) \/ m \in unsure
    BY <1>3 DEF Explained
  <2> QED
    BY <1>1, <1>3, <2>1, <2>2, ForgottenKept
<1>4. CASE ~Crash /\ m = job.m
  <2>1. CASE TearDown \/ Exit \/ RecoverFail
    BY <1>0, <1>4, <2>1, AttemptEnds
  <2>2. CASE LiveDone \/ RecoverDone
    BY <1>4, <2>2, DoneRecorded
  <2>3. CASE LiveSubmit \/ RecoverSubmit
    BY <1>1, <1>4, <2>3 DEF LiveSubmit, RecoverSubmit, Unlocked, NoJob
  <2>4. CASE Admit \/ Timeout
    BY <1>0, <1>1, <1>4, <2>4 DEF Admit, Timeout, TypeOK, Jobs, NoJob
  <2>5. CASE WorkerInsert \/ WorkerFail
    BY <1>0, <1>4, <2>5, WorkerHead
  <2>6. CASE UNCHANGED <<job, queue, rows, unsure>>
    BY <1>4, <2>6
  <2> QED
    BY <1>0, <2>1, <2>2, <2>3, <2>4, <2>5, <2>6, AttemptMoves
<1>5. CASE ~Crash /\ ~(rows[m] > 0) /\ m # job.m
  <2>1. rows[m] = 0 /\ rows'[m] # rows[m]
    <3>1. rows \in [Msgs -> 0..2]
      BY <1>0 DEF TypeOK
    <3> QED
      BY <1>5, <3>1
  <2>2. WorkerInsert \/ WorkerFail
    BY <1>0, <2>1, AttemptMoves, AttemptEnds
    DEF LiveSubmit, RecoverSubmit, LiveDone, RecoverDone, Admit, Timeout, history
  <2>3. m = Head(queue)
    BY <1>0, <2>1, <2>2, WorkerHead DEF MoreRows, TypeOK
  <2> QED
    BY <1>0, <1>1, <1>5, <2>2, <2>3, WorkerHead
<1> QED
  BY <1>2, <1>3, <1>4, <1>5

\* Only the last message of the worker queue is an attempt still in hand.
LEMMA OneAttemptStep ==
  ASSUME Inv, OneAttempt, Next
  PROVE  OneAttempt'
<1> SUFFICES ASSUME NEW i \in 1..Len(queue')
             PROVE  \/ queue'[i] \in unsure'
                    \/ i = Len(queue') /\ queue'[i] = job'.m /\ job'.state \in {"wait", "fail"}
  BY DEF OneAttempt
<1>0. /\ TypeOK /\ Idle /\ queue \in Seq(Msgs) /\ Len(queue) \in Nat
      /\ \A j \in 1..Len(queue) : queue[j] \in Msgs
  BY DEF Inv, TypeOK
<1>1. unsure \subseteq unsure' /\ NoMsg \notin Msgs
  BY <1>0, UnsureGrows
<1>2. CASE TearDown \/ Exit \/ RecoverFail
  <2>1. queue' = queue \/ queue' = <<>>
    BY <1>0, <1>2, AttemptEnds
  <2>2. CASE queue' = <<>>
    BY <2>2
  <2>3. CASE queue' = queue
    <3>1. queue[i] \in Msgs /\ (queue[i] \in unsure \/ queue[i] = job.m)
      BY <1>0, <2>3 DEF OneAttempt
    <3> QED
      BY <1>0, <1>1, <1>2, <2>3, <3>1, AttemptEnds
  <2> QED
    BY <2>1, <2>2, <2>3
<1>3. CASE UNCHANGED <<job, queue, rows, unsure>>
  BY <1>3 DEF OneAttempt
<1>4. CASE LiveSubmit \/ RecoverSubmit \/ LiveDone \/ RecoverDone
  <2>1. queue' = queue /\ (job.state = "ok" \/ job.state = "none")
    BY <1>4 DEF LiveSubmit, RecoverSubmit, LiveDone, RecoverDone, Unlocked, NoJob
  <2> QED
    BY <1>1, <2>1 DEF OneAttempt
<1>5. CASE Admit
  <2>1. queue' = Append(queue, job.m) /\ job.state = "admit" /\ job.m \in Msgs
        /\ job'.m = job.m /\ job'.state = "wait"
    BY <1>0, <1>5, SMTT(40) DEF Admit, TypeOK, Jobs, NoJob
  <2>2. \/ i = Len(queue') /\ queue'[i] = job.m
        \/ i \in 1..Len(queue) /\ queue'[i] = queue[i]
    <3>1. /\ Len(queue') = Len(queue) + 1 /\ queue'[Len(queue) + 1] = job.m
          /\ \A j \in 1..Len(queue) : queue'[j] = queue[j]
      BY <1>0, <2>1
    <3>2. i = Len(queue) + 1 \/ i \in 1..Len(queue)
      BY <1>0, <3>1
    <3> QED
      BY <3>1, <3>2
  <2> QED
    BY <1>1, <2>1, <2>2 DEF OneAttempt
<1>6. CASE Timeout
  <2>1. queue' = queue /\ job'.m = job.m /\ job'.state = "fail" /\ job.state \in {"admit", "wait"}
    BY <1>0, <1>6 DEF Timeout, TypeOK, Jobs, NoJob
  <2> QED
    BY <1>1, <2>1 DEF OneAttempt
<1>7. CASE WorkerInsert \/ WorkerFail
  <2>1. queue # <<>> /\ queue' = Tail(queue) /\ unsure' = unsure /\ queue' # <<>>
    BY <1>0, <1>7, WorkerHead
  <2>2. i + 1 \in 1..Len(queue) /\ queue'[i] = queue[i + 1]
        /\ (i = Len(queue') <=> i + 1 = Len(queue))
    BY <1>0, <2>1
  <2>3. job' = job
    BY <1>0, <1>7, <2>1, WorkerHead
  <2> QED
    BY <2>1, <2>2, <2>3 DEF OneAttempt
<1> QED
  BY <1>0, <1>2, <1>3, <1>4, <1>5, <1>6, <1>7, AttemptMoves

\* The attempt in hand inserts for the first time, or what was forgotten.
LEMMA FirstInsertStep ==
  ASSUME Inv, Sources, Explained, OneAttempt, FirstInsert, Next
  PROVE  FirstInsert'
<1> SUFFICES ASSUME NEW m \in Msgs, m \notin unsure', m = job'.m,
                    job'.state = "admit" \/ \E i \in 1..Len(queue') : queue'[i] = m
             PROVE  rows'[m] = 0 \/ Forgotten(m)'
  BY DEF FirstInsert
<1>0. /\ TypeOK /\ Idle /\ Lock /\ Stream /\ queue \in Seq(Msgs) /\ Len(queue) \in Nat
      /\ rows \in [Msgs -> 0..2]
  BY DEF Inv, TypeOK
<1>1. m \notin unsure /\ m # NoMsg /\ job' # NoJob
  BY <1>0, UnsureGrows DEF NoJob
<1>2. ~(TearDown \/ Exit \/ RecoverFail \/ LiveDone \/ RecoverDone)
  BY <1>0, <1>1, AttemptEnds DEF LiveDone, RecoverDone
<1>3. ~Crash
  BY <1>2 DEF TearDown
<1>4. CASE LiveSubmit \/ RecoverSubmit
  <2>1. job = NoJob /\ ~Seen(store', m) /\ rows' = rows
    BY <1>4 DEF LiveSubmit, RecoverSubmit, Submit, Unlocked, history
  <2>2. rows[m] > 0 => Seen(store, m) \/ Forgotten(m)
    BY <1>1, <2>1 DEF Explained, NoJob
  <2>3. rows[m] > 0 => Posted(m)
    BY DEF Sources
  <2> QED
    BY <1>0, <1>3, <2>1, <2>2, <2>3, ForgottenKept
<1>5. ASSUME job.m = m, rows[m] = 0 \/ Forgotten(m), rows'[m] = rows[m]
      PROVE  rows'[m] = 0 \/ Forgotten(m)'
  <2>1. Posted(m)
    BY <1>0, <1>1, <1>5, JobPosted DEF NoJob
  <2> QED
    BY <1>3, <1>5, <2>1, ForgottenKept
<1>6. CASE UNCHANGED <<job, queue, rows, unsure>>
  BY <1>1, <1>5, <1>6 DEF FirstInsert
<1>7. CASE Admit
  <2>1. job.m = m /\ job.state = "admit" /\ rows' = rows
    BY <1>0, <1>7 DEF Admit, history, TypeOK, Jobs, NoJob
  <2> QED
    BY <1>1, <1>5, <2>1 DEF FirstInsert
<1>8. CASE Timeout
  <2>1. job.m = m /\ job'.state # "admit" /\ queue' = queue /\ rows' = rows
    BY <1>0, <1>8 DEF Timeout, history, TypeOK, Jobs, NoJob
  <2> QED
    BY <1>1, <1>5, <2>1 DEF FirstInsert
<1>9. CASE WorkerInsert \/ WorkerFail
  <2>1. job.m = m /\ queue # <<>> /\ queue' = Tail(queue)
    BY <1>0, <1>9, WorkerHead
  <2>2. Head(queue) # m
    <3>1. ~(queue' = <<>> /\ job'.state \in {"ok", "fail"})
      OBVIOUS
    <3> QED
      BY <1>0, <1>1, <1>9, <3>1, WorkerHead
  <2>3. rows'[m] = rows[m]
    BY <1>0, <1>9, <2>2, WorkerHead DEF MoreRows
  <2>4. job.state = "admit" \/ \E i \in 1..Len(queue) : queue[i] = m
    <3>1. CASE job'.state = "admit"
      BY <1>0, <1>9, <3>1, WorkerHead
    <3>2. ASSUME NEW i \in 1..Len(queue'), queue'[i] = m
          PROVE  \E j \in 1..Len(queue) : queue[j] = m
      <4>1. i + 1 \in 1..Len(queue) /\ queue'[i] = queue[i + 1]
        BY <1>0, <2>1
      <4> QED
        BY <3>2, <4>1
    <3> QED
      BY <3>1, <3>2
  <2> QED
    BY <1>1, <1>5, <2>1, <2>3, <2>4 DEF FirstInsert
<1> QED
  BY <1>0, <1>2, <1>4, <1>6, <1>7, <1>8, <1>9, AttemptMoves

LEMMA RepeatsParts == Repeats <=> Explained /\ OneAttempt /\ FirstInsert
  BY DEF Repeats, Explained, OneAttempt, FirstInsert

LEMMA RepeatsStep ==
  ASSUME Inv, Sources, Repeats, Next
  PROVE  Repeats'
<1>1. Explained /\ OneAttempt /\ FirstInsert
  BY RepeatsParts
<1>2. Explained' /\ OneAttempt' /\ FirstInsert'
  BY <1>1, ExplainedStep, OneAttemptStep, FirstInsertStep
<1> QED
  BY <1>2 DEF Repeats, Explained, OneAttempt, FirstInsert

-----------------------------------------------------------------------------
(***************************************************************************)
(* The theorems.                                                           *)
(***************************************************************************)
LEMMA RecordsInit == Init => Records
<1> SUFFICES ASSUME Init
             PROVE  Records
  OBVIOUS
<1>1. DiskBehind /\ RecoveryNotStale
  BY DEF Init, DiskBehind, EmptySnapshot, RecoveryNotStale, NoRec
<1>2. Sizes
  <2>1. Listed([m \in Msgs |-> 0]) = {}
    BY DEF Listed
  <2>2. Cardinality({}) = 0
    BY FS_EmptySet
  <2>3. \A s \in {store, disk} : /\ s.seen = [m \in Msgs |-> 0]
                                /\ s.threads = [m \in Msgs |-> 0]
    BY DEF Init, EmptySnapshot
  <2>4. 0 <= MaxSeen /\ 0 <= MaxThreads
    BY LimitsAssumption
  <2>5. \A s \in {store, disk} : Listed(s.seen) = {} /\ Listed(s.threads) = {}
    BY <2>1, <2>3
  <2> QED
    BY <2>2, <2>4, <2>5 DEF Sizes
<1>3. Sources
  BY DEF Init, Sources, Posted, Seen, EmptySnapshot, NoRec
<1>4. Repeats /\ Threaded
  BY DEF Init, Repeats, Threaded, NoRec, NoJob
<1> QED
  BY <1>1, <1>2, <1>3, <1>4 DEF Records

LEMMA RecordsStep ==
  ASSUME Inv, Inv', Records, [Next]_vars
  PROVE  Records'
<1>1. CASE Next
  <2>1. TypeOK /\ Idle /\ Lock /\ Past
    BY DEF Inv
  <2> QED
    BY <1>1, <2>1, DiskBehindStep, SizesStep, SourcesStep, RepeatsStep, ThreadedStep, NotStaleStep
    DEF Records
<1>2. CASE UNCHANGED vars
  <2>1. UNCHANGED <<clock, ts, wire, phase, began, events, pass, rec, job, queue, store, disk,
                    recovering, rows, handled, excuse, unsure>>
    BY <1>2 DEF vars, slack, conn, tasks, state, history
  <2>2. DiskBehind' /\ Sizes' /\ RecoveryNotStale'
    BY <2>1 DEF Records, DiskBehind, Sizes, Listed, RecoveryNotStale, Oldest
  <2>3. Sources'
    BY <2>1 DEF Records, Sources, Posted, Seen
  <2>4. Repeats'
    BY <2>1 DEF Records, Repeats, Forgotten, FullSince, Listed, Seen
  <2>5. Threaded'
    BY <2>1 DEF Records, Threaded, FetchedRoots, Missed, Open, Posted, Settled, Live, Queued,
                FullSince, Listed
  <2> QED
    BY <2>2, <2>3, <2>4, <2>5 DEF Records
<1> QED
  BY <1>1, <1>2

\* The records hold their worth throughout.
THEOREM RecordsInvariant == Spec => []Records
<1>1. Inv /\ Inv' /\ Records /\ [Next]_vars => Records'
  BY RecordsStep
<1> QED
  BY <1>1, RecordsInit, InvInvariant, PTL DEF Spec

\* For any number of channels and passes: the interval that recovery works on
\* still starts where the checkpoint of its channel demands, although it was
\* computed from a clone of the channel.
THEOREM RecoveryNotStaleInvariant == Spec => []RecoveryNotStale
<1>1. Records => RecoveryNotStale
  BY DEF Records
<1> QED
  BY <1>1, RecordsInvariant, PTL

\* Whatever the limits of the tables: the state file can be opened again at any
\* time, its checkpoints are not in the future and its tables within bounds.
THEOREM ReopensInvariant == Spec => []Reopens
<1>1. Inv /\ Records => Reopens
  <2> SUFFICES ASSUME Inv, Records
               PROVE  Reopens
    OBVIOUS
  <2>1. \A c \in disk.tracked : disk.covered[c] <= clock
    BY DEF Inv, Past, TypeOK, Snapshots
  <2>2. Cardinality(Listed(disk.seen)) <= MaxSeen /\ Cardinality(Listed(disk.threads)) <= MaxThreads
    BY DEF Records, Sizes
  <2> QED
    BY <2>1, <2>2 DEF Reopens, OpenAccepts, Listed
<1> QED
  BY <1>1, InvInvariant, RecordsInvariant, PTL

\* The state file never takes back a checkpoint, whenever it is saved: after a
\* heartbeat, a recovery, a connection, or when the process ends or crashes.
THEOREM CheckpointsAdvanceHolds == Spec => CheckpointsAdvance
<1>1. Inv /\ Records /\ [Next]_vars =>
        [\A c \in disk.tracked \intersect disk'.tracked : disk'.covered[c] >= disk.covered[c]]_vars
  <2> SUFFICES ASSUME Inv, Records, Next,
                      NEW c \in disk.tracked, c \in disk'.tracked
               PROVE  disk'.covered[c] >= disk.covered[c]
    BY DEF vars
  <2>1. c \in Channels /\ store.covered[c] \in Nat /\ disk.covered[c] \in Nat /\ TypeOK
    BY DEF Inv, TypeOK, Snapshots
  <2>2. c \in store.tracked => disk.covered[c] <= store.covered[c]
    BY DEF Records, DiskBehind
  <2>3. disk' = disk \/ (disk' = store' /\ store'.tracked = store.tracked
                                        /\ store'.covered = store.covered)
    BY <2>1, StoreMoves
  <2> QED
    BY <2>1, <2>2, <2>3
<1> QED
  BY <1>1, InvInvariant, RecordsInvariant, PTL DEF Spec, CheckpointsAdvance

\* A message is inserted a second time only if an attempt on it ended without a
\* record, or its own entry expired or found no room: however events, recovery,
\* receipts, timeouts and crashes interleave.
THEOREM RepeatsExplainedHolds == Spec => RepeatsExplained
<1> DEFINE Reason(m) == m \in unsure \/ Forgotten(m)
           Step == \A m \in Msgs : rows[m] > 0 /\ rows'[m] # rows[m] => Reason(m)
<1>1. ASSUME Inv, Records, Next, NEW m \in Msgs, rows[m] > 0, rows'[m] # rows[m]
      PROVE  Reason(m)
  <2>0. /\ TypeOK /\ Idle /\ Lock /\ Stream /\ Sources /\ Explained /\ OneAttempt /\ FirstInsert
        /\ Passes
    BY <1>1, RepeatsParts DEF Inv, Records
  <2>1. WorkerInsert \/ WorkerFail
    BY <1>1, <2>0, AttemptMoves, AttemptEnds
    DEF LiveSubmit, RecoverSubmit, LiveDone, RecoverDone, Admit, Timeout, history
  <2>2. m = Head(queue) /\ queue # <<>>
    BY <1>1, <2>0, <2>1, WorkerHead DEF MoreRows, TypeOK
  <2>3. CASE m \in unsure
    BY <2>3
  <2>4. CASE m \notin unsure
    <3>1. m = job.m /\ job # NoJob
      BY <1>1, <2>0, <2>1, <2>2, <2>4, WorkerHead DEF NoJob
    <3>2. \E i \in 1..Len(queue) : queue[i] = m
      <4>1. 1 \in 1..Len(queue) /\ queue[1] = m
        BY <2>0, <2>2 DEF TypeOK
      <4> QED
        BY <4>1
    <3>3. Forgotten(m)
      BY <1>1, <2>4, <3>1, <3>2, <2>0 DEF FirstInsert
    <3> QED
      BY <3>3
  <2> QED
    BY <2>3, <2>4
<1>2. Inv /\ Records /\ [Next]_vars => [Step]_vars
  <2>1. Inv /\ Records /\ Next => Step
    BY <1>1
  <2> QED
    BY <2>1
<1> QED
  BY <1>2, InvInvariant, RecordsInvariant, PTL DEF Spec, RepeatsExplained

\* A reply to a root of the recovered interval is never given up while its
\* thread exists: the root makes the thread known before replies are fetched,
\* and only time or a full table takes it away.
THEOREM RepliesReachedHolds == Spec => RepliesReached
<1> DEFINE Reason(m) == \/ ts[RootOf[m]] < rec.oldest
                        \/ clock > began + Window
                        \/ Cardinality({r \in Msgs : store.threads[r] > 0}) >= MaxThreads
                        \/ faults' # faults
           Step == \A m \in Msgs : excuse[m] = "none" /\ excuse'[m] = "thread" => Reason(m)
<1>1. ASSUME Inv, Records, Next, NEW m \in Msgs, excuse[m] = "none", excuse'[m] = "thread"
      PROVE  Reason(m)
  <2>0. /\ TypeOK /\ LeftToRecovery /\ Threaded /\ Sources /\ RootOf[m] \in Msgs
        /\ ChanOf[RootOf[m]] = ChanOf[m]
    BY <1>1 DEF Inv, Records
  <2>1. RecoverThreads \/ ThreadGone
    <3>1. ~UNCHANGED <<ts, excuse, handled>>
      BY <1>1
    <3>2. ~\E n \in Msgs : Post(n)
      BY <1>1, <2>0, ZenonT(40) DEF Post, TypeOK
    <3>3. ~Hello /\ ~SkipStranger
      BY <1>1, <2>0 DEF Hello, SkipStranger, Excuse
    <3>4. ~ConsumeMembership /\ ~AdoptChannel
      BY <1>1, <2>0 DEF ConsumeMembership, AdoptChannel, Register, Excuse
    <3>5. ~Begin
      BY <1>1, <2>0 DEF Begin, TypeOK
    <3>6. ~WorkerInsert
      BY <1>1 DEF WorkerInsert
    <3> QED
      BY <1>1, <3>1, <3>2, <3>3, <3>4, <3>5, <3>6, OpenMoves
  <2>2. CASE ThreadGone
    BY <2>0, <2>2 DEF ThreadGone, Fault, TypeOK
  <2>3. CASE RecoverThreads
    <3>1. /\ rec.stage = "pages" /\ rec.todo = {}
          /\ Open(m) /\ InRange(m) /\ ~Live(m)
          /\ RootOf[m] \notin Threads(store, rec.ch) /\ RootOf[m] # m
      BY <1>1, <2>3 DEF RecoverThreads, Recovering, Excuse
    <3>2. Missed(m) /\ ChanOf[m] = rec.ch
      BY <3>1 DEF Missed, InRange
    <3>3. CASE ~(rec.oldest <= ts[RootOf[m]])
      <4>1. rec.oldest \in Nat /\ ts[RootOf[m]] \in Nat
        BY <2>0 DEF TypeOK, Recs
      <4> QED
        BY <3>3, <4>1
    <3>4. CASE rec.oldest <= ts[RootOf[m]]
      <4>1. \/ store.threads[RootOf[m]] > 0
            \/ began + Window < clock
            \/ FullSince(store.threads, MaxThreads, began)
        BY <2>0, <3>1, <3>2, <3>4 DEF Threaded
      <4>2. ~(store.threads[RootOf[m]] > 0)
        BY <2>0, <3>1, <3>2 DEF Threads
      <4>3. CASE began + Window < clock
        <5>1. began \in Nat /\ clock \in Nat
          BY <2>0 DEF TypeOK
        <5> QED
          BY <4>3, <5>1
      <4>4. CASE FullSince(store.threads, MaxThreads, began)
        BY <4>4 DEF FullSince, Listed
      <4> QED
        BY <4>1, <4>2, <4>3, <4>4
    <3> QED
      BY <3>3, <3>4
  <2> QED
    BY <2>1, <2>2, <2>3
<1>2. Inv /\ Records /\ [Next]_vars => [Step]_vars
  <2>1. Inv /\ Records /\ Next => Step
    BY <1>1
  <2> QED
    BY <2>1
<1> QED
  BY <1>2, InvInvariant, RecordsInvariant, PTL DEF Spec, RepliesReached
=============================================================================
