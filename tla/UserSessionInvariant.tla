------------------------ MODULE UserSessionInvariant ------------------------
(***************************************************************************)
(* The inductive invariant behind UserSession!Coverage.                    *)
(*                                                                         *)
(* Coverage is not inductive: whether a checkpoint may move depends on     *)
(* where the open messages are.  The invariant says where: an open message *)
(* of a connection is on the live path (Slack's stream or the event        *)
(* queue), or its channel is recovering and recovery has it still ahead.   *)
(* UserSessionProofs proves it, MCUserSession checks it.                   *)
(***************************************************************************)
EXTENDS UserSession

Connected == phase \in {"saving", "running"}

\* Open messages that are no longer, or never were, on the live path
Missed(m) == Open(m) /\ ~Live(m)

\* What belongs to a connection is empty without one, what belongs to its
\* tasks before they run.
Idle ==
  /\ ~Subscribed => wire = {} /\ events = <<>> /\ ping = 0 /\ pending = 0
  /\ phase # "running" =>
       consumer = "recv" /\ pass = {} /\ rec = NoRec /\ job = NoJob

\* Nothing lies in the future, and no checkpoint does.
Past ==
  /\ \A m \in Msgs : ts[m] <= clock
  /\ began <= clock /\ ping <= clock /\ pending <= clock
  /\ \A c \in Channels : store.covered[c] <= clock /\ disk.covered[c] <= clock

\* Who holds the lock, and with which message.
Lock ==
  /\ job.by = "live" =>
       consumer = "recv" /\ events # <<>> /\ Head(events) = MessageEvent(job.m)
  /\ job.by = "recovery" => job.m \in rec.todo
  /\ consumer = "save" => events # <<>> /\ Head(events).kind = "checkpoint"
  /\ rec.stage \in {"history", "save"} => rec.todo = {}
  /\ rec.stage = "idle" => rec = NoRec

\* A receipt that is still awaited belongs to the last message queued; one
\* that said ok belongs to a harvested message.
Receipt ==
  /\ job.state = "wait" => queue # <<>> /\ queue[Len(queue)] = job.m
  /\ job.state = "ok" => job.m \in handled

\* A message on its way is younger than Lag, and none is older than the
\* connection.
Stream ==
  /\ \A m \in wire : Posted(m) /\ clock <= ts[m] + Lag
  /\ \A m \in Msgs : Live(m) => Posted(m) /\ began <= ts[m]

\* What follows a barrier was posted at most Lag before it.
Barriers ==
  \A i \in 1..Len(events) :
    events[i].kind = "checkpoint" =>
      /\ events[i].at <= clock
      /\ \A m \in wire : events[i].at <= ts[m] + Lag
      /\ \A j \in 1..Len(events), m \in Msgs :
           i < j /\ events[j] = MessageEvent(m) => events[i].at <= ts[m] + Lag

\* A missed message is left to recovery, within its bounds.
LeftToRecovery ==
  /\ Subscribed => \A m \in Msgs : Missed(m) => ts[m] <= began
  /\ Connected =>
       /\ recovering \subseteq store.tracked
       /\ \A m \in Msgs : Missed(m) =>
            ChanOf[m] \in recovering /\ began <= ts[m] + Window

\* Recovery works on recovering channels, one at a time, from their
\* checkpoints.
Passes ==
  /\ \A p \in pass : /\ p[1] \in recovering /\ p[1] # rec.ch
                     /\ p[2] = store.covered[p[1]]
                     /\ \A q \in pass : p[1] = q[1] => p = q
  /\ rec.stage \in {"history", "pages", "replies"} =>
       rec.ch \in recovering /\ rec.oldest = Oldest(store.covered[rec.ch])

\* The missed messages of the channel being recovered are still ahead: among
\* the fetched messages or in a thread that is listed.
Ahead ==
  \A m \in Msgs :
    Missed(m) /\ ChanOf[m] = rec.ch =>
      /\ rec.stage = "pages" /\ RootOf[m] = m => m \in rec.todo
      /\ rec.stage = "replies" =>
           /\ RootOf[m] # m
           /\ m \in rec.todo \/ RootOf[m] \in rec.threads

Inv ==
  /\ TypeOK
  /\ Coverage
  /\ SuppressedIsHandled
  /\ Idle
  /\ Past
  /\ Lock
  /\ Receipt
  /\ Stream
  /\ Barriers
  /\ LeftToRecovery
  /\ Passes
  /\ Ahead

-----------------------------------------------------------------------------
(***************************************************************************)
(* What the records of a session are worth: the state file, the table of   *)
(* processed messages and the tracked threads.  This invariant is proved   *)
(* on top of the one above, and carries Reopens, RecoveryNotStale,         *)
(* CheckpointsAdvance, RepeatsExplained and RepliesReached.                *)
(***************************************************************************)

\* The state file is up to date until a connection begins, and never ahead.
DiskBehind ==
  /\ phase \in {"down", "idle", "dialing", "starting"} => disk = store
  /\ \A c \in disk.tracked \intersect store.tracked : disk.covered[c] <= store.covered[c]

\* The tables keep their limits.
Sizes ==
  \A s \in {store, disk} : /\ Cardinality(Listed(s.seen)) <= MaxSeen
                           /\ Cardinality(Listed(s.threads)) <= MaxThreads

\* Roots come before replies, and what is fetched, queued, inserted or recorded
\* was posted before.
Sources ==
  /\ \A m \in Msgs : Posted(m) => Posted(RootOf[m]) /\ ts[RootOf[m]] <= ts[m]
  /\ \A m \in rec.todo : Posted(m) /\ rec.oldest <= ts[m]
  /\ \A m \in Msgs : rows[m] > 0 => Posted(m)
  /\ \A i \in 1..Len(queue) : Posted(queue[i])
  /\ \A s \in {store, disk}, m \in Msgs : Seen(s, m) => Posted(m) /\ ts[m] <= s.seen[m]

\* A message that was inserted is recorded, or its attempt is still in hand or
\* ended without a record; in the worker queue only the attempt in hand is one
\* of which that is not known; and it inserts for the first time, or again what
\* was forgotten.
Repeats ==
  /\ \A m \in Msgs :
       rows[m] > 0 => Seen(store, m) \/ Forgotten(m) \/ m \in unsure \/ m = job.m
  /\ \A i \in 1..Len(queue) :
       queue[i] \in unsure \/ (i = Len(queue) /\ queue[i] = job.m /\ job.state \in {"wait", "fail"})
  /\ \A m \in Msgs \ unsure :
       m = job.m /\ (job.state = "admit" \/ \E i \in 1..Len(queue) : queue[i] = m) =>
         rows[m] = 0 \/ Forgotten(m)

\* The thread of a missed reply whose root lies in the interval is tracked once
\* the root was processed, unless its entry expired or was evicted since.
Threaded ==
  /\ job.by = "recovery" => job.roots = FetchedRoots(job.m)
  /\ rec.stage = "pages" =>
       \A m \in Msgs :
         Missed(m) /\ ChanOf[m] = rec.ch /\ RootOf[m] # m /\ rec.oldest <= ts[RootOf[m]] =>
           \/ RootOf[m] \in rec.todo \intersect rec.parents
           \/ store.threads[RootOf[m]] > 0 /\ store.threads[RootOf[m]] >= began
           \/ began + Window < clock
           \/ FullSince(store.threads, MaxThreads, began)

Records == DiskBehind /\ Sizes /\ Sources /\ Repeats /\ Threaded /\ RecoveryNotStale
=============================================================================
