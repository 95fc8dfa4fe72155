--------------------------- MODULE RecoveryStore ---------------------------
(***************************************************************************)
(* The recovery state of one Slack account and the operations of `Store`,  *)
(* src/src/slackbot/user_session/state.rs.                                 *)
(*                                                                         *)
(* The module has no variables: a snapshot is a value, an operation maps   *)
(* snapshots to snapshots.  UserSession holds one snapshot in memory       *)
(* (`Store.data`) and one on disk (the state file).                        *)
(*                                                                         *)
(* A message stands for the pair (channel, ts) that identifies it, a       *)
(* thread for its root message.  Time is counted in whole seconds, as      *)
(* `now()` and `message_timestamp` do; 0 stands for "no entry".            *)
(***************************************************************************)
EXTENDS Integers, FiniteSets

CONSTANTS
  Channels,     \* channel identifiers
  Msgs,         \* messages, identified by channel and timestamp
  ChanOf,       \* the channel of a message
  Overlap,      \* OVERLAP: how far recovery reaches behind a checkpoint
  Window,       \* recovery.window_seconds
  MaxSeen,      \* MAX_SEEN: duplicate-detection entries
  MaxThreads    \* MAX_THREADS: tracked threads of all channels

ASSUME ChannelsAssumption == IsFiniteSet(Channels) /\ IsFiniteSet(Msgs)
ASSUME ChanOfAssumption   == ChanOf \in [Msgs -> Channels]
ASSUME OverlapAssumption  == Overlap \in Nat
ASSUME WindowAssumption   == Window \in Nat \ {0}
ASSUME LimitsAssumption   == MaxSeen \in Nat /\ MaxThreads \in Nat

(***************************************************************************)
(* The serialised fields of Snapshot and Channel.  `recovering` and        *)
(* `failed` carry #[serde(skip)] and are therefore not part of it.         *)
(*   tracked    the keys of Snapshot.channels                              *)
(*   covered    Channel.covered_until, 0 for a channel without an entry    *)
(*   threads    when a thread was last active, 0 if it is not tracked      *)
(*   seen       Seen.processed_at, 0 for a message without an entry        *)
(***************************************************************************)
Snapshots ==
  [ tracked : SUBSET Channels,
    covered : [Channels -> Nat],
    threads : [Msgs -> Nat],
    seen    : [Msgs -> Nat] ]

EmptySnapshot ==
  [ tracked |-> {},
    covered |-> [c \in Channels |-> 0],
    threads |-> [m \in Msgs |-> 0],
    seen    |-> [m \in Msgs |-> 0] ]

Later(a, b) == IF a < b THEN b ELSE a

(***************************************************************************)
(* A definition whose comment begins with "Mutant" is what a plausible bug *)
(* would make of the definition after it.  No specification uses one: they *)
(* serve to show that the properties would notice the bug.                 *)
(***************************************************************************)

\* Mutant of Kept: no limit
KeptUnlimited(f, cut, limit) == {{m \in Msgs : f[m] > 0 /\ f[m] >= cut}}

(***************************************************************************)
(* Pruning drops what is older than a cut and then the oldest entries      *)
(* beyond a limit.  Which of several entries of the same second goes       *)
(* depends on insertion order (seen) or on identifiers (threads): any.     *)
(***************************************************************************)
Kept(f, cut, limit) ==
  LET recent == {m \in Msgs : f[m] > 0 /\ f[m] >= cut}
  IN  IF Cardinality(recent) <= limit
      THEN {recent}
      ELSE {K \in SUBSET recent :
              /\ Cardinality(K) = limit
              /\ \A m \in K, n \in recent \ K : f[n] <= f[m]}

Only(f, K) == [m \in Msgs |-> IF m \in K THEN f[m] ELSE 0]

\* Mutant of Pruned: a seen entry lives as long as the window, not longer
PrunedEarly(s, at) ==
  { [s EXCEPT !.seen = Only(@, kept[1]), !.threads = Only(@, kept[2])] :
      kept \in Kept(s.seen, at - Window, MaxSeen)
               \X Kept(s.threads, at - Window, MaxThreads) }

\* Store::prune
Pruned(s, at) ==
  { [s EXCEPT !.seen = Only(@, kept[1]), !.threads = Only(@, kept[2])] :
      kept \in Kept(s.seen, at - Window - Overlap, MaxSeen)
               \X Kept(s.threads, at - Window, MaxThreads) }

(***************************************************************************)
(* The operations of Store.  `recovering` and `failed` are updated by the  *)
(* actions of UserSession that call them.                                  *)
(***************************************************************************)

\* Mutant of BeginConnection: every old checkpoint moves to the window's edge
BeginConnectionAtEdge(s, channels, at) ==
  Pruned(
    [s EXCEPT
      !.tracked = channels,
      !.covered = [c \in Channels |->
                     IF c \notin channels THEN 0
                     ELSE IF c \in s.tracked THEN Later(at - Window, 0)
                     ELSE at],
      !.threads = [m \in Msgs |->
                     IF ChanOf[m] \in channels THEN @[m] ELSE 0]],
    at)

\* Store::begin_connection: the joined channels replace the tracked ones; a
\* new channel starts at the connection, an old checkpoint is clipped.
BeginConnection(s, channels, at) ==
  Pruned(
    [s EXCEPT
      !.tracked = channels,
      !.covered = [c \in Channels |->
                     IF c \notin channels THEN 0
                     ELSE IF c \in s.tracked THEN Later(@[c], at - Window)
                     ELSE at],
      !.threads = [m \in Msgs |->
                     IF ChanOf[m] \in channels THEN @[m] ELSE 0]],
    at)

\* Store::add_channel, called for each of the channels
AddChannels(s, channels, at) ==
  [s EXCEPT
    !.tracked = @ \union channels,
    !.covered = [c \in Channels |->
                   IF c \in channels \ s.tracked THEN at ELSE @[c]]]

\* Whether `threads.insert` finds the channel of the thread
Tracks(s, root) == ChanOf[root] \in s.tracked

\* Store::remember_thread
RememberThread(s, root, at) ==
  Pruned(IF Tracks(s, root) THEN [s EXCEPT !.threads[root] = at] ELSE s, at)

\* Store::processed, for a message of the threads `roots` (none or one)
Processed(s, m, roots, at) ==
  Pruned(
    [s EXCEPT
      !.seen[m] = at,
      !.threads = [r \in Msgs |->
                     IF r \in roots /\ Tracks(s, r) THEN at ELSE @[r]]],
    at)

\* Store::seen
Seen(s, m) == s.seen[m] > 0

\* Store::threads
Threads(s, c) == {r \in Msgs : ChanOf[r] = c /\ s.threads[r] > 0}

\* Store::forget_thread
ForgetThread(s, root) == [s EXCEPT !.threads[root] = 0]

\* Moving the checkpoint of some channels forward, never back
Advance(s, channels, through) ==
  [s EXCEPT !.covered = [c \in Channels |->
                           IF c \in channels THEN Later(@[c], through) ELSE @[c]]]

\* Mutant of Checkpoint: the time it is handled, not that of the heartbeat
CheckpointNow(s, recovering, failed, through, at) ==
  Pruned(Advance(s, s.tracked \ (recovering \union failed), at), at)

\* Mutant of Checkpoint: channels that still recover advance, too
CheckpointAll(s, recovering, failed, through, at) ==
  Pruned(Advance(s, s.tracked \ failed, through), at)

\* Store::checkpoint, for a barrier taken at `through` and handled at `at`
Checkpoint(s, recovering, failed, through, at) ==
  Pruned(Advance(s, s.tracked \ (recovering \union failed), through), at)

\* Store::finish_recovery
FinishRecovery(s, c, failed, through) ==
  IF c \in s.tracked \ failed THEN Advance(s, {c}, through) ELSE s

(***************************************************************************)
(* What Store::open demands of a state file before it accepts it, besides  *)
(* its identity and the syntax of identifiers.  300 seconds of clock skew  *)
(* are tolerated there; the model's clock has none.                        *)
(***************************************************************************)
OpenAccepts(s, at) ==
  /\ \A c \in s.tracked : s.covered[c] <= at
  /\ Cardinality({m \in Msgs : s.seen[m] > 0}) <= MaxSeen
  /\ Cardinality({m \in Msgs : s.threads[m] > 0}) <= MaxThreads
=============================================================================
