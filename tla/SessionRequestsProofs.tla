----------------------- MODULE SessionRequestsProofs -----------------------
(***************************************************************************)
(* For any number of channels, any lists of pages, limits and answers of   *)
(* Slack: whoever is told to wait does, failed look-ups are neither        *)
(* repeated nor shown for longer than NEGATIVE_TTL, and only a complete    *)
(* walk over the pages counts.                                             *)
(***************************************************************************)
EXTENDS SessionRequests, FiniteSetTheorems, TLAPS

USE LimitsAssumption, NamesAssumption

SlackTypes == slack \in Listings /\ pause \in Nat /\ told \in [Tasks -> Nat] /\ shorter \in BOOLEAN
LoopTypes ==
  /\ session \in Sessions /\ authed \in BOOLEAN /\ wait \in Nat /\ backoff \in MinBackoff..MaxBackoff
  /\ call \in [Tasks -> Calls]
WalkTypes == walk \in [Walkers -> Walks]
ListTypes ==
  members \subseteq Channels /\ account \subseteq Channels /\ kept \subseteq account /\ held \subseteq Channels
NameTypes ==
  /\ cache \in [Channels -> {NoEntry} \union Entries]
  /\ looked \in Channels \union {NoChannel}
  /\ failed \in [Channels -> 0..NegativeTtl] /\ evicted \subseteq Channels
NamesOK == NameTypes /\ NamesInv /\ FallbackIsShort

\* The part of the inductive invariant that does not depend on the walks
Base == SlackTypes /\ LoopTypes /\ WalkTypes /\ NamesOK /\ WaitsInv

LEMMA InvParts == Inv <=> Base /\ ListTypes /\ WalksInv /\ MembersInv
  BY DEF Inv, Base, TypeOK, SlackTypes, LoopTypes, WalkTypes, ListTypes, NamesOK, NameTypes

LEMMA ListedChannels ==
  ASSUME slack \in Listings
  PROVE  /\ 1 \in DOMAIN slack.next
         /\ \A p \in DOMAIN slack.next : /\ slack.lists[p] \in Channels
                                         /\ slack.next[p] # 0 => slack.next[p] \in DOMAIN slack.next \ {1}
<1>1. PICK n \in 1..Cardinality(DOMAIN slack.next) : slack \in Listing(n)
  BY ListingsAssumption
<1>2. /\ slack.next \in [1..n -> {0} \union 2..n] /\ slack.lists \in [1..n -> Channels]
      /\ n \in Nat \ {0}
  <2>1. slack.next \in [1..n -> {0} \union 2..n] /\ slack.lists \in [1..n -> Channels]
    BY <1>1 DEF Listing
  <2>2. n \in Int /\ n >= 1
    OBVIOUS
  <2> QED
    BY <2>1, <2>2
<1> QED
  BY <1>2

-----------------------------------------------------------------------------
(***************************************************************************)
(* The names.                                                              *)
(***************************************************************************)
LEMMA EntriesKnown == Known \in Entries /\ Fallback \in Entries /\ NoEntry \notin Entries
  BY DEF Known, Fallback, Entries

LEMMA Remembered ==
  ASSUME NameTypes, NEW c \in Channels, NEW entry \in Entries, Remember(c, entry)
  PROVE  /\ cache' \in [Channels -> {NoEntry} \union Entries] /\ evicted' \subseteq Channels
         /\ cache'[c] = entry /\ cache'[c] # NoEntry /\ c \notin evicted'
         /\ \A d \in Channels \ {c} :
              \/ cache'[d] = cache[d] /\ (d \in evicted => d \in evicted')
              \/ cache'[d] = NoEntry /\ d \in evicted'
<1>1. PICK v \in C!Victims(cache, c, Capacity) :
        /\ cache' = C!AfterInsert(cache, c, entry, v)
        /\ evicted' = IF v = c THEN evicted \ {c} ELSE (evicted \ {c}) \union {v}
  BY DEF Remember
<1>2. v \in Channels
  BY DEF C!Victims, C!Cached, NameTypes
<1>3. cache' = [[cache EXCEPT ![v] = NoEntry] EXCEPT ![c] = entry]
  BY <1>1 DEF C!AfterInsert
<1>4. cache' \in [Channels -> {NoEntry} \union Entries] /\ evicted' \subseteq Channels
  BY <1>1, <1>2, <1>3 DEF NameTypes
<1>5. cache'[c] = entry /\ cache'[c] # NoEntry /\ c \notin evicted'
  BY <1>1, <1>3, EntriesKnown DEF NameTypes
<1>6. ASSUME NEW d \in Channels \ {c}
      PROVE  \/ cache'[d] = cache[d] /\ (d \in evicted => d \in evicted')
             \/ cache'[d] = NoEntry /\ d \in evicted'
  BY <1>1, <1>2, <1>3 DEF NameTypes
<1> QED
  BY <1>4, <1>5, <1>6

LEMMA NamesUnchanged ==
  ASSUME NamesOK, UNCHANGED names, call'["lookup"] = call["lookup"]
  PROVE  NamesOK'
  BY DEF NamesOK, NameTypes, NamesInv, FallbackIsShort, names

\* A name is put into the cache.
LEMMA NamesKnown ==
  ASSUME NamesOK, NEW c \in Channels, Remember(c, Known), failed' = failed,
         looked' \in Channels \union {NoChannel},
         call'["lookup"] \in {"ready", "sent"} => looked' \in Channels
  PROVE  NamesOK'
<1>1. NameTypes /\ Known \in Entries
  BY EntriesKnown DEF NamesOK
<1>2. NameTypes'
  BY <1>1, Remembered DEF NameTypes
<1>3. cache'[c].expires = ChannelTtl /\ cache'[c].value = "name"
  BY <1>1, Remembered DEF Known
<1>4. ASSUME NEW d \in Channels
      PROVE  /\ failed'[d] > 0 => d \in evicted' \/ (cache'[d] # NoEntry /\ cache'[d].expires >= failed'[d])
             /\ cache'[d] # NoEntry /\ cache'[d].value = "id" => cache'[d].expires <= failed'[d]
  <2>1. CASE d = c
    <3>1. failed[c] \in 0..NegativeTtl
      BY <1>1 DEF NameTypes
    <3>2. cache'[c] # NoEntry
      BY <1>1, Remembered
    <3> QED
      BY <1>3, <2>1, <3>1, <3>2
  <2>2. CASE d # c
    <3>1. \/ cache'[d] = cache[d] /\ (d \in evicted => d \in evicted')
          \/ cache'[d] = NoEntry /\ d \in evicted'
      BY <1>1, <2>2, Remembered
    <3> QED
      BY <3>1 DEF NamesOK, NamesInv, FallbackIsShort
  <2> QED
    BY <2>1, <2>2
<1> QED
  BY <1>2, <1>4 DEF NamesOK, NamesInv, FallbackIsShort

\* A look-up fails.
LEMMA NamesFailed ==
  ASSUME NamesOK, looked \in Channels, LookupFails, call \in [Tasks -> Calls]
  PROVE  NamesOK'
<1>1. NameTypes /\ Fallback \in Entries
  BY EntriesKnown DEF NamesOK
<1>2. Remember(looked, Fallback) /\ failed' = [failed EXCEPT ![looked] = NegativeTtl]
      /\ looked' = NoChannel /\ call'["lookup"] = "idle"
  BY DEF LookupFails, Tasks
<1>3. /\ cache' \in [Channels -> {NoEntry} \union Entries] /\ evicted' \subseteq Channels
      /\ failed' \in [Channels -> 0..NegativeTtl]
  BY <1>1, <1>2, Remembered DEF NameTypes
<1>4. cache'[looked].expires = NegativeTtl /\ failed'[looked] = NegativeTtl /\ cache'[looked] # NoEntry
  BY <1>1, <1>2, Remembered DEF Fallback, NameTypes
<1>5. ASSUME NEW d \in Channels
      PROVE  /\ failed'[d] > 0 => d \in evicted' \/ (cache'[d] # NoEntry /\ cache'[d].expires >= failed'[d])
             /\ cache'[d] # NoEntry /\ cache'[d].value = "id" => cache'[d].expires <= failed'[d]
  <2>1. CASE d = looked
    BY <1>4, <2>1
  <2>2. CASE d # looked
    <3>1. \/ cache'[d] = cache[d] /\ (d \in evicted => d \in evicted')
          \/ cache'[d] = NoEntry /\ d \in evicted'
      BY <1>1, <1>2, <2>2, Remembered
    <3>2. failed'[d] = failed[d]
      BY <1>1, <1>2, <2>2 DEF NameTypes
    <3> QED
      BY <3>1, <3>2 DEF NamesOK, NamesInv, FallbackIsShort
  <2> QED
    BY <2>1, <2>2
<1> QED
  BY <1>2, <1>3, <1>5 DEF NamesOK, NameTypes, NamesInv, FallbackIsShort

-----------------------------------------------------------------------------
(***************************************************************************)
(* What an error does.                                                     *)
(***************************************************************************)
LEMMA FreshWalk ==
  ASSUME slack \in Listings
  PROVE  NewWalk \in Walks
  BY ListedChannels DEF NewWalk, Walks

LEMMA DroppedStep ==
  ASSUME SlackTypes, WalkTypes, NEW w, Dropped(w), slack' = slack
  PROVE  WalkTypes'
  BY FreshWalk DEF SlackTypes, WalkTypes, Walks, Dropped

LEMMA DownStep ==
  ASSUME SlackTypes, LoopTypes, WalkTypes, NEW retry \in Nat, Down(retry), slack' = slack
  PROVE  /\ LoopTypes' /\ WalkTypes' /\ Asking'
         /\ session' = "sleep" /\ wait' >= retry /\ call'["lookup"] = call["lookup"]
<1>1. PICK base \in {backoff} \union (IF session = "auth" THEN {} ELSE {MinBackoff}) :
        /\ session' = "sleep"
        /\ wait' = RetryDelay(base, retry)
        /\ backoff' = Doubled(base)
        /\ call' = [call EXCEPT !["session"] = "idle", !["recovery"] = "off"]
        /\ Dropped(Walkers) /\ UNCHANGED authed
  BY DEF Down
<1>2. base \in MinBackoff..MaxBackoff
  BY DEF LoopTypes
<1>3. wait' \in Nat /\ wait' >= retry
  BY <1>1, <1>2 DEF RetryDelay, Larger
<1>4. backoff' \in MinBackoff..MaxBackoff
  BY <1>1, <1>2 DEF Doubled, Smaller
<1>5. call' \in [Tasks -> Calls] /\ call'["session"] = "idle" /\ call'["recovery"] = "off"
      /\ call'["lookup"] = call["lookup"]
  BY <1>1 DEF LoopTypes, Tasks, Calls
<1>6. LoopTypes'
  BY <1>1, <1>3, <1>4, <1>5 DEF LoopTypes, Sessions
<1> QED
  BY <1>1, <1>3, <1>5, <1>6, DroppedStep DEF Asking

LEMMA EndedStep ==
  ASSUME SlackTypes, LoopTypes, WalkTypes, NamesOK, Ended, slack' = slack
  PROVE  LoopTypes' /\ WalkTypes' /\ NamesOK' /\ Asking' /\ session' = "ended" /\ wait' = wait
<1>1. call' \in [Tasks -> Calls] /\ call'["session"] = "idle" /\ call'["recovery"] = "off"
      /\ call'["lookup"] = call["lookup"]
  BY DEF Ended, LoopTypes, Tasks, Calls
<1>2. NamesOK'
  BY <1>1, NamesUnchanged DEF Ended
<1>3. WalkTypes'
  BY DroppedStep DEF Ended
<1> QED
  BY <1>1, <1>2, <1>3 DEF Ended, LoopTypes, Sessions, Asking

\* The loop and the walks of the others go on.
LEMMA PassEndsStep ==
  ASSUME SlackTypes, LoopTypes, WalkTypes, NamesOK, Asking, PassEnds, call["recovery"] # "off",
         slack' = slack
  PROVE  LoopTypes' /\ WalkTypes' /\ NamesOK' /\ Asking' /\ session' = session /\ wait' = wait
<1>1. call' \in [Tasks -> Calls] /\ call'["session"] = call["session"] /\ call'["lookup"] = call["lookup"]
  BY DEF PassEnds, LoopTypes, Tasks, Calls
<1>2. NamesOK'
  BY <1>1, NamesUnchanged DEF PassEnds
<1>3. WalkTypes'
  BY DroppedStep DEF PassEnds
<1> QED
  BY <1>1, <1>2, <1>3 DEF PassEnds, LoopTypes, loop, Asking

LEMMA LookupFailsStep ==
  ASSUME LoopTypes, WalkTypes, NamesOK, Asking, LookupFails, looked \in Channels, slack' = slack
  PROVE  LoopTypes' /\ WalkTypes' /\ NamesOK' /\ Asking' /\ session' = session /\ wait' = wait
<1>1. call' \in [Tasks -> Calls] /\ call'["session"] = call["session"] /\ call'["recovery"] = call["recovery"]
  BY DEF LookupFails, LoopTypes, Tasks, Calls
<1>2. NamesOK'
  BY NamesFailed DEF LoopTypes
<1> QED
  BY <1>1, <1>2 DEF LookupFails, LoopTypes, loop, listing, WalkTypes, Walks, Asking

LEMMA ErrorStep ==
  ASSUME SlackTypes, LoopTypes, WalkTypes, NamesOK, Asking, NEW t \in Tasks, NEW retry \in Nat,
         Error(t, retry), call[t] \in {"ready", "sent"}, slack' = slack
  PROVE  /\ LoopTypes' /\ WalkTypes' /\ NamesOK' /\ Asking'
         /\ IF t = "session" THEN session' = "sleep" /\ wait' >= retry
                             ELSE session' = session /\ wait' = wait
<1>1. CASE t = "session" /\ Down(retry) /\ UNCHANGED names
  BY <1>1, DownStep, NamesUnchanged
<1>2. CASE t = "recovery" /\ PassEnds
  BY <1>2, PassEndsStep
<1>3. CASE t = "lookup" /\ LookupFails
  BY <1>3, LookupFailsStep DEF NamesOK, NamesInv
<1> QED
  BY <1>1, <1>2, <1>3 DEF Error

-----------------------------------------------------------------------------
(***************************************************************************)
(* The steps.                                                              *)
(***************************************************************************)
LEMMA WaitsKept ==
  ASSUME WaitsInv, Asking', session' = session, wait' = wait, pause' = pause, told' = told,
         shorter' = shorter
  PROVE  WaitsInv'
  BY DEF WaitsInv, Asking

LEMMA WaitsSlept ==
  ASSUME WaitsInv, SlackTypes, Asking', session # "sleep", pause' = pause, told' = told, shorter' = shorter
  PROVE  WaitsInv'
  BY DEF WaitsInv, Asking, SlackTypes, Tasks

LEMMA PausedStep ==
  ASSUME Base, NEW t \in Tasks, Paused(t)
  PROVE  Base'
<1>1. /\ SlackTypes /\ LoopTypes /\ WalkTypes /\ NamesOK /\ WaitsInv /\ Asking
  BY DEF Base, WaitsInv
<1>2. /\ LoopTypes' /\ WalkTypes' /\ NamesOK' /\ Asking'
      /\ IF t = "session" THEN session' = "sleep" /\ wait' >= pause
                          ELSE session' = session /\ wait' = wait
  BY <1>1, ErrorStep DEF Paused, SlackTypes
<1>3. SlackTypes'
  BY <1>1 DEF Paused, SlackTypes
<1>4. WaitsInv'
  <2>1. CASE t = "session"
    <3>1. session # "sleep"
      BY <1>1, <2>1 DEF Paused, Asking
    <3> QED
      BY <1>1, <1>2, <3>1, WaitsSlept DEF Paused
  <2>2. CASE t # "session"
    BY <1>1, <1>2, <2>2, WaitsKept DEF Paused
  <2> QED
    BY <2>1, <2>2
<1> QED
  BY <1>2, <1>3, <1>4 DEF Base

LEMMA LimitedStep ==
  ASSUME Base, NEW t \in Tasks, Limited(t)
  PROVE  Base'
<1>1. /\ SlackTypes /\ LoopTypes /\ WalkTypes /\ NamesOK /\ WaitsInv /\ Asking
  BY DEF Base, WaitsInv
<1>2. PICK delay \in {Larger(d, 1) : d \in RetryAfters} :
        /\ pause' = delay
        /\ told' = [told EXCEPT ![t] = delay]
        /\ shorter' = (shorter \/ delay < pause)
        /\ Error(t, delay)
  BY DEF Limited
<1>3. delay \in Nat
  BY DEF Larger
<1>4. /\ LoopTypes' /\ WalkTypes' /\ NamesOK' /\ Asking'
      /\ IF t = "session" THEN session' = "sleep" /\ wait' >= delay
                          ELSE session' = session /\ wait' = wait
  BY <1>1, <1>2, <1>3, ErrorStep DEF Limited, Answered
<1>5. SlackTypes'
  <2>1. told' \in [Tasks -> Nat] /\ slack' = slack
    BY <1>1, <1>2, <1>3 DEF SlackTypes, Limited, Answered
  <2>2. shorter' \in BOOLEAN
    BY <1>2
  <2> QED
    BY <1>1, <1>2, <1>3, <2>1, <2>2 DEF SlackTypes
<1>6. told'["session"] > 0 => session' = "sleep" /\ wait' >= told'["session"]
  <2>1. CASE t = "session"
    BY <1>1, <1>2, <1>4, <2>1 DEF SlackTypes, Tasks
  <2>2. CASE t # "session"
    BY <1>1, <1>2, <1>4, <2>2 DEF SlackTypes, Tasks, WaitsInv
  <2> QED
    BY <2>1, <2>2
<1>7. ASSUME NEW u \in {"recovery", "lookup"}, told'[u] > 0, ~shorter'
      PROVE  pause' >= told'[u]
  <2>1. CASE t = u
    BY <1>1, <1>2, <1>3, <2>1 DEF SlackTypes, Tasks
  <2>2. CASE t # u
    <3>1. told'[u] = told[u] /\ told[u] \in Nat
      BY <1>1, <1>2, <2>2 DEF SlackTypes, Tasks
    <3>2. pause >= told[u] /\ ~(delay < pause)
      BY <1>1, <1>2, <1>7, <3>1 DEF WaitsInv
    <3> QED
      BY <1>1, <1>2, <1>3, <3>1, <3>2 DEF SlackTypes
  <2> QED
    BY <2>1, <2>2
<1>8. WaitsInv'
  BY <1>4, <1>6, <1>7 DEF WaitsInv, Asking
<1> QED
  BY <1>4, <1>5, <1>8 DEF Base

LEMMA SendStep ==
  ASSUME Base, NEW t \in Tasks, Send(t)
  PROVE  Base'
<1>1. /\ SlackTypes /\ LoopTypes /\ WalkTypes /\ NamesOK /\ WaitsInv /\ Asking
  BY DEF Base, WaitsInv
<1>2. call' \in [Tasks -> Calls] /\ (call'["session"] # call["session"] => call["session"] = "ready")
      /\ (call'["lookup"] # call["lookup"] => call["lookup"] = "ready")
      /\ (call'["recovery"] # call["recovery"] => call["recovery"] = "ready")
  BY <1>1 DEF Send, LoopTypes, Tasks, Calls
<1>3. SlackTypes' /\ LoopTypes' /\ WalkTypes' /\ NameTypes'
  BY <1>1, <1>2 DEF Send, SlackTypes, LoopTypes, WalkTypes, Walks, NameTypes, NamesOK, loop, listing, names
<1>4. NamesOK'
  BY <1>1, <1>2, <1>3 DEF Send, NamesOK, NamesInv, FallbackIsShort, names
<1>5. Asking'
  BY <1>1, <1>2 DEF Send, Asking, loop
<1>6. WaitsInv'
  BY <1>1, <1>5, WaitsKept DEF Send, loop
<1> QED
  BY <1>3, <1>4, <1>6 DEF Base

LEMMA FailsStep ==
  ASSUME Base, NEW t \in Tasks, Fails(t)
  PROVE  Base'
<1>1. /\ SlackTypes /\ LoopTypes /\ WalkTypes /\ NamesOK /\ WaitsInv /\ Asking
  BY DEF Base, WaitsInv
<1>2. /\ LoopTypes' /\ WalkTypes' /\ NamesOK' /\ Asking'
      /\ IF t = "session" THEN session' = "sleep" ELSE session' = session /\ wait' = wait
  BY <1>1, ErrorStep DEF Fails, Answered
<1>3. SlackTypes'
  BY <1>1 DEF Fails, Answered, SlackTypes
<1>4. WaitsInv'
  <2>1. CASE t = "session"
    <3>1. session # "sleep"
      BY <1>1, <2>1 DEF Fails, Answered, Asking
    <3> QED
      BY <1>1, <1>2, <3>1, WaitsSlept DEF Fails
  <2>2. CASE t # "session"
    BY <1>1, <1>2, <2>2, WaitsKept DEF Fails
  <2> QED
    BY <2>1, <2>2
<1> QED
  BY <1>2, <1>3, <1>4 DEF Base

LEMMA DeniedStep ==
  ASSUME Base, NEW t \in Tasks, Denied(t)
  PROVE  Base'
<1>1. /\ SlackTypes /\ LoopTypes /\ WalkTypes /\ NamesOK /\ WaitsInv /\ Asking
  BY DEF Base, WaitsInv
<1>2. SlackTypes'
  BY <1>1 DEF Denied, Answered, SlackTypes
<1>3. CASE t = "lookup"
  <2>1. looked \in Channels
    BY <1>1, <1>3 DEF Denied, Answered, NamesOK, NamesInv
  <2>2. LoopTypes' /\ WalkTypes' /\ NamesOK' /\ Asking' /\ session' = session /\ wait' = wait
    BY <1>1, <1>3, <2>1, LookupFailsStep DEF Denied, Answered
  <2> QED
    BY <1>1, <1>2, <2>2, WaitsKept DEF Denied, Base
<1>4. CASE t # "lookup"
  <2>1. LoopTypes' /\ WalkTypes' /\ NamesOK' /\ Asking'
    BY <1>1, <1>4, EndedStep DEF Denied, Answered
  <2>2. session # "sleep"
    BY <1>1, <1>4 DEF Denied, Answered, Asking, Tasks
  <2> QED
    BY <1>1, <1>2, <2>1, <2>2, WaitsSlept DEF Denied, Base
<1> QED
  BY <1>3, <1>4

LEMMA RequestStep ==
  ASSUME Base, NEW t \in Tasks, Request(t)
  PROVE  Base'
  BY PausedStep, LimitedStep, SendStep, FailsStep, DeniedStep DEF Request

-----------------------------------------------------------------------------
LEMMA Walk ==
  ASSUME SlackTypes, WalkTypes, slack' = slack, NEW w \in Walkers, Cursor(w) # 0, Walked(w)
  PROVE  WalkTypes'
<1>1. walk[w] \in Walks /\ Page(w) \in DOMAIN slack.next
  BY DEF WalkTypes, Walks, Page
<1>2. Cursor(w) \in DOMAIN slack.next /\ slack.lists[Page(w)] \in Channels
  BY <1>1, ListedChannels DEF SlackTypes, Cursor
<1>3. Lists(w) \subseteq Channels
  BY <1>2 DEF Lists
<1>4. [page |-> Cursor(w), cursors |-> walk[w].cursors \union {Cursor(w)},
       got |-> walk[w].got \union Lists(w)] \in Walks
  BY <1>1, <1>2, <1>3 DEF Walks
<1> QED
  BY <1>4 DEF Walked, WalkTypes, Walks



LEMMA CachePageStep ==
  ASSUME SlackTypes, WalkTypes, NamesOK, CachePage, call'["lookup"] = call["lookup"],
         UNCHANGED <<looked, failed>>
  PROVE  NamesOK'
<1>1. slack.lists[Page("session")] \in Channels
  BY ListedChannels DEF SlackTypes, WalkTypes, Walks, Walkers, Page
<1>2. CASE UNCHANGED <<cache, evicted>>
  BY <1>2, NamesUnchanged DEF names
<1>3. ASSUME NEW c \in Lists("session"), Remember(c, Known)
      PROVE  NamesOK'
  <2>1. looked \in Channels \union {NoChannel}
        /\ (call["lookup"] \in {"ready", "sent"} => looked \in Channels)
    BY DEF NamesOK, NameTypes, NamesInv
  <2>2. c \in Channels
    BY <1>1, <1>3 DEF Lists
  <2> QED
    BY <1>3, <2>1, <2>2, NamesKnown
<1> QED
  BY <1>2, <1>3 DEF CachePage

LEMMA ChannelPageStep ==
  ASSUME Base, ChannelPage
  PROVE  Base'
<1>1. /\ SlackTypes /\ LoopTypes /\ WalkTypes /\ NamesOK /\ WaitsInv /\ Asking
  BY DEF Base, WaitsInv
<1>2. SlackTypes' /\ slack' = slack
  BY <1>1 DEF ChannelPage, Answered, SlackTypes
<1>3. /\ call' \in [Tasks -> Calls] /\ call'["lookup"] = call["lookup"]
      /\ session' \in {"discover", "up"}
      /\ call'["session"] \in {"ready", "sent"} => session' = "discover"
  BY <1>1 DEF ChannelPage, LoopTypes, Tasks, Calls
<1>4. LoopTypes' /\ Asking'
  BY <1>1, <1>3 DEF ChannelPage, LoopTypes, Sessions, Asking
<1>5. WalkTypes'
  <2>1. CASE Dropped({"session"})
    BY <1>1, <1>2, <2>1, DroppedStep
  <2>2. CASE Cursor("session") # 0 /\ Walked("session")
    BY <1>1, <1>2, <2>2, Walk DEF Walkers
  <2> QED
    BY <2>1, <2>2 DEF ChannelPage
<1>6. NamesOK'
  BY <1>1, <1>3, CachePageStep DEF ChannelPage
<1>7. WaitsInv'
  BY <1>1, <1>4, WaitsSlept DEF ChannelPage
<1> QED
  BY <1>2, <1>4, <1>5, <1>6, <1>7 DEF Base

\* The connection goes down without news about rate limits.
LEMMA DropStep ==
  ASSUME Base, Down(0), session # "sleep", UNCHANGED <<slack, pause, told, shorter>>,
         call'["lookup"] = call["lookup"] => NamesOK'
  PROVE  Base'
<1>1. /\ SlackTypes /\ LoopTypes /\ WalkTypes /\ NamesOK /\ WaitsInv /\ Asking
  BY DEF Base, WaitsInv
<1>2. LoopTypes' /\ WalkTypes' /\ NamesOK' /\ Asking'
  BY <1>1, DownStep
<1>3. SlackTypes'
  BY <1>1 DEF SlackTypes
<1> QED
  BY <1>1, <1>2, <1>3, WaitsSlept DEF Base

LEMMA DisconnectStep ==
  ASSUME Base, Disconnect
  PROVE  Base'
<1>1. call'["lookup"] = call["lookup"] => NamesOK'
  BY NamesUnchanged DEF Base, Disconnect
<1> QED
  BY <1>1, DropStep DEF Disconnect

LEMMA ChannelsRefusedStep ==
  ASSUME Base, ChannelsRefused
  PROVE  Base'
<1>1. SlackTypes /\ WalkTypes /\ NamesOK
  BY DEF Base
<1>2. call'["lookup"] = call["lookup"] => NamesOK'
  <2>1. CASE UNCHANGED <<cache, evicted>>
    BY <1>1, <2>1, NamesUnchanged DEF ChannelsRefused, names
  <2>2. CASE CachePage
    BY <1>1, <2>2, CachePageStep DEF ChannelsRefused
  <2> QED
    BY <2>1, <2>2 DEF ChannelsRefused
<1> QED
  BY <1>2, DropStep DEF ChannelsRefused, Answered

LEMMA HistoryEndsStep ==
  ASSUME Base, HistoryComplete \/ HistoryRefused
  PROVE  Base'
<1>1. /\ SlackTypes /\ LoopTypes /\ WalkTypes /\ NamesOK /\ WaitsInv /\ Asking
  BY DEF Base, WaitsInv
<1>2. /\ call["recovery"] = "sent" /\ PassEnds
      /\ UNCHANGED <<slack, pause, told, shorter>>
  BY DEF HistoryComplete, HistoryRefused, Answered
<1>3. LoopTypes' /\ WalkTypes' /\ NamesOK' /\ Asking' /\ session' = session /\ wait' = wait
  BY <1>1, <1>2, PassEndsStep
<1>4. SlackTypes'
  BY <1>1, <1>2 DEF SlackTypes
<1> QED
  BY <1>1, <1>2, <1>3, <1>4, WaitsKept DEF Base

LEMMA HistoryGoesOnStep ==
  ASSUME Base, HistoryPage \/ HistoryBegins
  PROVE  Base'
<1>1. /\ SlackTypes /\ LoopTypes /\ WalkTypes /\ NamesOK /\ WaitsInv /\ Asking
  BY DEF Base, WaitsInv
<1>2. /\ call["recovery"] # "off" /\ call' = [call EXCEPT !["recovery"] = "ready"]
      /\ UNCHANGED <<slack, pause, told, shorter, loop, names>>
  BY <1>1 DEF HistoryPage, HistoryBegins, Answered
<1>3. WalkTypes'
  <2>1. CASE HistoryPage
    BY <1>1, <1>2, <2>1, Walk DEF HistoryPage, HistoryDone, Walkers
  <2>2. CASE HistoryBegins
    BY <1>1, <1>2, <2>2, FreshWalk DEF HistoryBegins, SlackTypes, WalkTypes, Walks
  <2> QED
    BY <2>1, <2>2
<1>4. call' \in [Tasks -> Calls] /\ call'["session"] = call["session"] /\ call'["lookup"] = call["lookup"]
  BY <1>1, <1>2 DEF LoopTypes, Tasks, Calls
<1>5. SlackTypes' /\ LoopTypes' /\ Asking'
  BY <1>1, <1>2, <1>4 DEF SlackTypes, LoopTypes, loop, Asking
<1>6. NamesOK'
  BY <1>1, <1>2, <1>4, NamesUnchanged
<1> QED
  BY <1>1, <1>2, <1>3, <1>5, <1>6, WaitsKept DEF loop, Base

\* The steps of the loop that need no more than their types
LEMMA LoopStep ==
  ASSUME Base, Authenticated \/ Opened \/ Rediscover \/ Awake \/ Stranger \/ StrangerSkipped
  PROVE  Base'
<1> USE DEF Authenticated, Opened, Rediscover, Discover, Awake, Stranger, StrangerSkipped
<1>1. /\ SlackTypes /\ LoopTypes /\ WalkTypes /\ NamesOK /\ WaitsInv /\ Asking
  BY DEF Base, WaitsInv
<1>2. UNCHANGED <<slack, pause, told, shorter, names, wait>>
  BY DEF Answered
<1>3. /\ call' \in [Tasks -> Calls] /\ call'["lookup"] = call["lookup"]
      /\ call'["recovery"] = call["recovery"]
  BY <1>1 DEF LoopTypes, Tasks, Calls
<1>4. LoopTypes'
  <2>1. session' \in Sessions /\ backoff' \in MinBackoff..MaxBackoff
    BY <1>1 DEF LoopTypes, Sessions
  <2>2. authed' \in BOOLEAN
    BY <1>1, Zenon DEF LoopTypes
  <2> QED
    BY <1>1, <1>2, <1>3, <2>1, <2>2 DEF LoopTypes
<1>5. Asking'
  <2>1. CASE Authenticated
    BY <1>1, <1>3, <2>1 DEF Asking, LoopTypes, Tasks
  <2>2. CASE Opened \/ Rediscover
    BY <1>1, <1>3, <2>2 DEF Asking, LoopTypes, Tasks
  <2>3. CASE Awake
    BY <1>1, <1>3, <2>3 DEF Asking, LoopTypes, Tasks
  <2>4. CASE Stranger
    BY <1>1, <1>3, <2>4 DEF Asking, LoopTypes, Tasks
  <2>5. CASE StrangerSkipped
    BY <1>1, <1>3, <2>5 DEF Asking, LoopTypes, Tasks
  <2> QED
    BY <2>1, <2>2, <2>3, <2>4, <2>5
<1>6. NamesOK'
  BY <1>1, <1>2, <1>3, NamesUnchanged
<1>7. SlackTypes' /\ WalkTypes'
  BY <1>1, <1>2, FreshWalk DEF SlackTypes, listing, WalkTypes, Walks
<1>8. told["session"] = 0
  BY <1>1 DEF WaitsInv, SlackTypes, Tasks
<1>9. WaitsInv'
  BY <1>1, <1>2, <1>5, <1>8 DEF WaitsInv
<1> QED
  BY <1>4, <1>6, <1>7, <1>9 DEF Base

LEMMA StrangerKnownStep ==
  ASSUME Base, account \subseteq Channels, StrangerKnown
  PROVE  Base'
<1>1. /\ SlackTypes /\ LoopTypes /\ WalkTypes /\ NamesOK /\ WaitsInv /\ Asking
  BY DEF Base, WaitsInv
<1>2. session = "info" /\ UNCHANGED <<slack, pause, told, shorter, looked, failed>>
  BY DEF StrangerKnown, Answered
<1>3. CASE Down(0) /\ UNCHANGED <<cache, evicted>>
  <2>1. call'["lookup"] = call["lookup"] => NamesOK'
    BY <1>1, <1>2, <1>3, NamesUnchanged DEF names
  <2> QED
    BY <1>2, <1>3, <2>1, DropStep
<1>4. ASSUME NEW c \in account, Remember(c, Known), session' = "up",
             call' = [call EXCEPT !["session"] = "idle"],
             UNCHANGED <<authed, wait, backoff, listing>>
      PROVE  Base'
  <2>1. /\ call' \in [Tasks -> Calls] /\ call'["lookup"] = call["lookup"]
        /\ call'["session"] = "idle" /\ call'["recovery"] = call["recovery"]
    BY <1>1, <1>4 DEF LoopTypes, Tasks, Calls
  <2>2. SlackTypes' /\ LoopTypes' /\ WalkTypes' /\ Asking'
    BY <1>1, <1>2, <1>4, <2>1 DEF SlackTypes, LoopTypes, Sessions, listing, WalkTypes, Walks, Asking
  <2>3. looked \in Channels \union {NoChannel}
        /\ (call["lookup"] \in {"ready", "sent"} => looked \in Channels)
    BY <1>1 DEF NamesOK, NameTypes, NamesInv
  <2>4. NamesOK'
    BY <1>1, <1>2, <1>4, <2>1, <2>3, NamesKnown
  <2> QED
    BY <1>1, <1>2, <2>2, <2>4, WaitsSlept DEF Base
<1> QED
  BY <1>3, <1>4 DEF StrangerKnown

LEMMA OpenFailsStep ==
  ASSUME Base, OpenFails
  PROVE  Base'
<1>1. /\ SlackTypes /\ LoopTypes /\ WalkTypes /\ NamesOK /\ WaitsInv /\ Asking
  BY DEF Base, WaitsInv
<1>2. session = "open" /\ UNCHANGED <<slack, pause, shorter>>
  BY DEF OpenFails
<1>3. CASE Down(0) /\ UNCHANGED told
  <2>1. call'["lookup"] = call["lookup"] => NamesOK'
    BY <1>1, NamesUnchanged DEF OpenFails
  <2> QED
    BY <1>2, <1>3, <2>1, DropStep
<1>4. CASE Ended /\ UNCHANGED told
  <2>1. LoopTypes' /\ WalkTypes' /\ NamesOK' /\ Asking'
    BY <1>1, <1>2, <1>4, EndedStep
  <2>2. SlackTypes'
    BY <1>1, <1>2, <1>4 DEF SlackTypes
  <2> QED
    BY <1>1, <1>2, <1>4, <2>1, <2>2, WaitsSlept DEF Base
<1>5. ASSUME NEW d \in RetryAfters, Down(Larger(d, 1)), told' = [told EXCEPT !["session"] = Larger(d, 1)]
      PROVE  Base'
  <2>1. Larger(d, 1) \in Nat
    BY DEF Larger
  <2>2. /\ LoopTypes' /\ WalkTypes' /\ Asking' /\ session' = "sleep" /\ wait' >= Larger(d, 1)
        /\ call'["lookup"] = call["lookup"]
    BY <1>1, <1>2, <1>5, <2>1, DownStep
  <2>6. NamesOK'
    BY <1>1, <2>2, NamesUnchanged DEF OpenFails
  <2>3. /\ told' \in [Tasks -> Nat] /\ told'["session"] = Larger(d, 1)
        /\ told'["recovery"] = told["recovery"] /\ told'["lookup"] = told["lookup"]
    BY <1>1, <1>5, <2>1 DEF SlackTypes, Tasks
  <2>4. SlackTypes'
    BY <1>1, <1>2, <2>3 DEF SlackTypes
  <2>5. WaitsInv'
    BY <1>1, <1>2, <2>2, <2>3 DEF WaitsInv
  <2> QED
    BY <2>2, <2>4, <2>5, <2>6 DEF Base
<1> QED
  BY <1>3, <1>4, <1>5 DEF OpenFails

LEMMA LookUpStep ==
  ASSUME Base, NEW c \in Channels, LookUp(c)
  PROVE  Base'
<1>1. /\ SlackTypes /\ LoopTypes /\ WalkTypes /\ NamesOK /\ WaitsInv /\ Asking
  BY DEF Base, WaitsInv
<1>2. /\ call' \in [Tasks -> Calls] /\ call'["session"] = call["session"]
      /\ call'["recovery"] = call["recovery"]
  BY <1>1 DEF LookUp, LoopTypes, Tasks, Calls
<1>3. SlackTypes' /\ LoopTypes' /\ WalkTypes' /\ Asking' /\ session' = session /\ wait' = wait
  BY <1>1, <1>2 DEF LookUp, SlackTypes, LoopTypes, listing, WalkTypes, Walks, Asking, loop
<1>4. cache' = [cache EXCEPT ![c] = NoEntry] /\ ~C!Live(cache, c, 0)
  BY DEF LookUp, C!AfterGet
<1>5. cache' \in [Channels -> {NoEntry} \union Entries]
  BY <1>1, <1>4 DEF NamesOK, NameTypes
<1>6. failed[c] > 0 => c \in evicted
  <2>1. cache[c] \in {NoEntry} \union Entries /\ failed[c] \in 0..NegativeTtl
    BY <1>1 DEF NamesOK, NameTypes
  <2>2. cache[c] # NoEntry => ~(cache[c].expires > 0) /\ cache[c].expires \in Nat
    BY <1>4, <2>1 DEF C!Live, Entries
  <2> QED
    BY <1>1, <2>1, <2>2 DEF NamesOK, NamesInv
<1>7. \A d \in Channels : cache'[d] = IF d = c THEN NoEntry ELSE cache[d]
  BY <1>1, <1>4 DEF NamesOK, NameTypes
<1>8. failed' = failed /\ evicted' = evicted /\ looked' = c
  BY DEF LookUp
<1>9. NamesOK'
  BY <1>1, <1>5, <1>6, <1>7, <1>8 DEF NamesOK, NameTypes, NamesInv, FallbackIsShort
<1> QED
  BY <1>1, <1>3, <1>9, WaitsKept DEF LookUp, Base

LEMMA NamedStep ==
  ASSUME Base, Named
  PROVE  Base'
<1>1. /\ SlackTypes /\ LoopTypes /\ WalkTypes /\ NamesOK /\ WaitsInv /\ Asking
  BY DEF Base, WaitsInv
<1>2. /\ call' \in [Tasks -> Calls] /\ call'["session"] = call["session"]
      /\ call'["recovery"] = call["recovery"] /\ call'["lookup"] = "idle"
  BY <1>1 DEF Named, LoopTypes, Tasks, Calls
<1>3. SlackTypes' /\ LoopTypes' /\ WalkTypes' /\ Asking' /\ session' = session /\ wait' = wait
  BY <1>1, <1>2 DEF Named, Answered, SlackTypes, LoopTypes, listing, WalkTypes, Walks, Asking, loop
<1>4. looked \in Channels
  BY <1>1 DEF Named, Answered, NamesOK, NamesInv
<1>5. NamesOK'
  BY <1>1, <1>2, <1>4, NamesKnown DEF Named
<1> QED
  BY <1>1, <1>3, <1>5, WaitsKept DEF Named, Base

LEMMA LessTypes ==
  ASSUME NEW n \in Nat
  PROVE  /\ Less(n) \in Nat /\ Less(n) <= n /\ (Less(n) > 0 => n > 0)
         /\ \A m \in Nat : n <= m => Less(n) <= Less(m)
  BY DEF Less

LEMMA TickStep ==
  ASSUME Base, Tick
  PROVE  Base'
<1>1. /\ SlackTypes /\ LoopTypes /\ WalkTypes /\ NamesOK /\ WaitsInv /\ Asking
  BY DEF Base, WaitsInv
<1>2. LoopTypes' /\ WalkTypes' /\ Asking'
  BY <1>1, LessTypes DEF Tick, LoopTypes, listing, WalkTypes, Walks, Asking
<1>3. SlackTypes'
  <2>1. told' \in [Tasks -> Nat] /\ pause' \in Nat /\ slack' \in Listings
    BY <1>1, LessTypes DEF Tick, SlackTypes
  <2>2. shorter' \in BOOLEAN
    BY DEF Tick
  <2> QED
    BY <2>1, <2>2 DEF SlackTypes
<1>4. WaitsInv'
  <2>1. \A t \in Tasks : told[t] \in Nat /\ told'[t] = Less(told[t])
    BY <1>1 DEF Tick, SlackTypes
  <2>2. told'["session"] > 0 => session' = "sleep" /\ wait' >= told'["session"]
    BY <1>1, <2>1, LessTypes DEF Tick, WaitsInv, LoopTypes, Tasks
  <2>3. ASSUME NEW t \in {"recovery", "lookup"}, told'[t] > 0
        PROVE  shorter' \/ pause' >= told'[t]
    <3>1. t \in Tasks /\ told[t] > 0
      BY <2>1, <2>3, LessTypes DEF Tasks
    <3>2. CASE shorter
      BY <2>3, <3>1, <3>2 DEF Tick
    <3>3. CASE pause >= told[t]
      BY <1>1, <2>1, <3>1, <3>3, LessTypes DEF Tick, SlackTypes
    <3> QED
      BY <1>1, <3>1, <3>2, <3>3 DEF WaitsInv
  <2> QED
    BY <1>2, <2>2, <2>3 DEF WaitsInv
<1>5. ASSUME NEW c \in Channels
      PROVE  /\ cache'[c] \in {NoEntry} \union Entries /\ failed'[c] \in 0..NegativeTtl
             /\ failed'[c] > 0 => c \in evicted' \/ (cache'[c] # NoEntry /\ cache'[c].expires >= failed'[c])
             /\ cache'[c] # NoEntry /\ cache'[c].value = "id" => cache'[c].expires <= failed'[c]
  <2>1. failed'[c] = Less(failed[c]) /\ failed[c] \in 0..NegativeTtl
    BY <1>1 DEF Tick, NamesOK, NameTypes
  <2>2. CASE cache[c] = NoEntry
    <3>1. cache'[c] = NoEntry
      BY <2>2 DEF Tick
    <3> QED
      BY <1>1, <2>1, <2>2, <3>1, LessTypes DEF Tick, NamesOK, NamesInv
  <2>3. CASE cache[c] # NoEntry
    <3>1. cache[c] \in Entries
      BY <1>1, <2>3 DEF NamesOK, NameTypes
    <3>2. cache'[c] = [cache[c] EXCEPT !.expires = Less(@)]
      BY <2>3 DEF Tick
    <3>3. cache'[c].expires = Less(cache[c].expires) /\ cache'[c].value = cache[c].value
          /\ cache[c].expires \in 0..ChannelTtl
      BY <3>1, <3>2 DEF Entries
    <3>4. cache'[c] \in Entries
      BY <3>1, <3>2, <3>3, LessTypes DEF Entries
    <3>5. failed[c] > 0 => c \in evicted \/ cache[c].expires >= failed[c]
      BY <1>1 DEF NamesOK, NamesInv
    <3>6. cache[c].value = "id" => cache[c].expires <= failed[c]
      BY <1>1, <2>3 DEF NamesOK, FallbackIsShort
    <3>7. cache'[c] # NoEntry
      BY <3>4, EntriesKnown
    <3>8. c \in evicted /\ failed'[c] > 0 => c \in evicted'
      BY DEF Tick
    <3> QED
      BY <2>1, <3>3, <3>4, <3>5, <3>6, <3>7, <3>8, LessTypes
  <2> QED
    BY <2>2, <2>3
<1>6. NamesOK'
  <2>1. looked' = looked /\ call' = call /\ evicted' \subseteq evicted
        /\ cache' = [c \in Channels |-> cache'[c]] /\ failed' = [c \in Channels |-> failed'[c]]
    BY DEF Tick
  <2>2. NameTypes'
    BY <1>1, <1>5, <2>1 DEF NamesOK, NameTypes
  <2> QED
    BY <1>1, <1>5, <2>1, <2>2 DEF NamesOK, NamesInv, FallbackIsShort
<1> QED
  BY <1>2, <1>3, <1>4, <1>6 DEF Base

-----------------------------------------------------------------------------
LEMMA InitBase == Init => Base
<1> SUFFICES ASSUME Init PROVE Base
  OBVIOUS
<1>1. SlackTypes /\ LoopTypes
  <2>1. told \in [Tasks -> Nat] /\ call \in [Tasks -> Calls]
    BY DEF Init, Tasks, Calls
  <2>2. shorter \in BOOLEAN /\ authed \in BOOLEAN
    BY Zenon DEF Init
  <2>3. session \in Sessions /\ wait \in Nat /\ backoff \in MinBackoff..MaxBackoff /\ pause \in Nat /\ slack \in Listings
    BY DEF Init, Sessions
  <2> QED
    BY <2>1, <2>2, <2>3 DEF SlackTypes, LoopTypes
<1>2. WalkTypes
  BY FreshWalk DEF Init, WalkTypes
<1>3. NamesOK
  BY DEF Init, NamesOK, NameTypes, NamesInv, FallbackIsShort, C!EmptyCache, Tasks
<1>4. WaitsInv
  BY DEF Init, WaitsInv, Asking, Tasks
<1> QED
  BY <1>1, <1>2, <1>3, <1>4 DEF Base

LEMMA MovedStep ==
  ASSUME Base, NEW c, Join(c) \/ Leave(c)
  PROVE  Base'
<1>1. /\ SlackTypes /\ LoopTypes /\ WalkTypes /\ NamesOK /\ WaitsInv /\ Asking
  BY DEF Base, WaitsInv
<1>2. SlackTypes' /\ LoopTypes' /\ WalkTypes' /\ Asking' /\ NamesOK'
  BY <1>1, NamesUnchanged DEF Join, Leave, loop, SlackTypes, LoopTypes, WalkTypes, Walks, Asking
<1> QED
  BY <1>1, <1>2, WaitsKept DEF Join, Leave, loop, Base

LEMMA NextBase ==
  ASSUME Base, account \subseteq Channels, [Next]_vars
  PROVE  Base'
<1>1. CASE UNCHANGED vars
  BY <1>1 DEF vars, loop, listing, names, Base, SlackTypes, LoopTypes, WalkTypes, Walks, NamesOK,
              NameTypes, WaitsInv, Asking, NamesInv, FallbackIsShort
<1>2. CASE Session
  BY <1>2, LoopStep, OpenFailsStep, DisconnectStep, StrangerKnownStep DEF Session
<1>3. CASE Walking
  BY <1>3, ChannelPageStep, HistoryEndsStep, HistoryGoesOnStep, ChannelsRefusedStep DEF Walking
<1>4. CASE Tick \/ Named
  BY <1>4, TickStep, NamedStep
<1> QED
  BY <1>1, <1>2, <1>3, <1>4, RequestStep, LookUpStep, MovedStep DEF Next

-----------------------------------------------------------------------------
(***************************************************************************)
(* The walks over pages.                                                   *)
(***************************************************************************)
LEMMA ReachedFacts ==
  ASSUME slack \in Listings
  PROVE  /\ 1 \in Reached /\ Reached \subseteq DOMAIN slack.next
         /\ \A p \in Reached : slack.next[p] # 0 => slack.next[p] \in Reached
         /\ \A P \in WholeLists : Reached \subseteq P
  BY ListedChannels DEF Reached, WholeLists

\* What the walks have found, and what the session takes for its channels
ListInv == ListTypes /\ WalksInv /\ MembersInv

LEMMA WalkFacts ==
  ASSUME Base, NEW w \in Walkers, WalkInv(w)
  PROVE  /\ slack \in Listings /\ walk[w] \in Walks /\ Page(w) \in DOMAIN slack.next
         /\ Page(w) \in Asked(w) /\ Asked(w) \subseteq Reached
         /\ Asked(w) = Behind(w) \union {Page(w)}
         /\ \A p \in Behind(w) : slack.next[p] \in walk[w].cursors
         /\ slack.lists[Page(w)] \in Channels
  BY ListedChannels DEF Base, SlackTypes, WalkTypes, Walks, Page, WalkInv, Behind

LEMMA ReachedUnchanged == slack' = slack => Reached' = Reached
  BY DEF Reached, WholeLists

\* At a page without a cursor the walk has seen all pages there are.
LEMMA WalkComplete ==
  ASSUME Base, NEW w \in Walkers, WalkInv(w), Cursor(w) = 0
  PROVE  Asked(w) = Reached
<1>1. Asked(w) \in WholeLists
  <2>1. Asked(w) \subseteq DOMAIN slack.next /\ 1 \in Asked(w)
    BY WalkFacts, ReachedFacts DEF Asked
  <2>2. ASSUME NEW p \in Asked(w), slack.next[p] # 0
        PROVE  slack.next[p] \in Asked(w)
    <3>1. p \in Behind(w)
      BY <2>2 DEF Behind, Cursor
    <3> QED
      BY <3>1, WalkFacts DEF Asked
  <2> QED
    BY <2>1, <2>2 DEF WholeLists
<1>2. Reached \subseteq Asked(w)
  BY <1>1, WalkFacts, ReachedFacts
<1> QED
  BY <1>2, WalkFacts

\* What a page adds to a walk is at most one channel, which is on it.
LEMMA ListsFacts ==
  ASSUME Base, NEW w \in Walkers, WalkInv(w)
  PROVE  /\ Lists(w) \subseteq Channels /\ Lists(w) \subseteq {slack.lists[Page(w)]}
         /\ w = "session" => Lists(w) = {slack.lists[Page(w)]} \intersect account
         /\ w = "recovery" => Lists(w) = {slack.lists[Page(w)]}
  BY WalkFacts DEF Lists

\* It goes on to a page it did not ask for yet.
LEMMA WalkGoesOn ==
  ASSUME Base, ListTypes, NEW w \in Walkers, WalkInv(w), Walked(w), slack' = slack,
         Cursor(w) # 0, Cursor(w) \notin walk[w].cursors
  PROVE  WalkInv(w)'
<1>1. PICK W : W = [page |-> Cursor(w), cursors |-> walk[w].cursors \union {Cursor(w)},
                    got |-> walk[w].got \union Lists(w)]
  OBVIOUS
<1>2. walk' = [walk EXCEPT ![w] = W] /\ walk \in [Walkers -> Walks] /\ kept' = kept
  BY <1>1 DEF Walked, Base, WalkTypes
<1>3. walk'[w] = W
  BY <1>2
<1>4. Reached' = Reached
  BY ReachedUnchanged
<1>5. Cursor(w) \in Reached /\ Cursor(w) # 1 /\ Cursor(w) \notin Asked(w)
  BY WalkFacts, ReachedFacts, ListedChannels DEF Cursor, Asked
<1>6. Asked(w)' = Asked(w) \union {Cursor(w)} /\ Page(w)' = Cursor(w)
  BY <1>1, <1>3 DEF Asked, Page
<1>7. Behind(w)' = Asked(w) /\ Asked(w) = Behind(w) \union {Page(w)}
  BY <1>5, <1>6, WalkFacts DEF Behind
<1>8. /\ Page(w)' \in Asked(w)' /\ Asked(w)' \subseteq Reached'
      /\ \A p \in Behind(w)' : slack'.next[p] \in walk'[w].cursors
  <2>1. \A p \in Behind(w)' : slack.next[p] \in walk[w].cursors \union {Cursor(w)}
    BY <1>7, WalkFacts DEF Cursor
  <2> QED
    BY <1>1, <1>3, <1>4, <1>5, <1>6, <2>1, WalkFacts
<1>9. {slack'.lists[p] : p \in Behind(w)'}
        = {slack.lists[p] : p \in Behind(w)} \union {slack.lists[Page(w)]}
  BY <1>7
<1>10. walk'[w].got = walk[w].got \union Lists(w)
  BY <1>1, <1>3
<1>11. walk'[w].got \subseteq {slack'.lists[p] : p \in Behind(w)'}
  BY <1>9, <1>10, ListsFacts DEF WalkInv
<1>12. (IF w = "session" THEN kept' ELSE Channels) \intersect {slack'.lists[p] : p \in Behind(w)'}
         \subseteq walk'[w].got
  <2>1. CASE w = "session"
    BY <1>2, <1>9, <1>10, <2>1, ListsFacts, SMTT(40) DEF WalkInv, ListTypes
  <2>2. CASE w = "recovery"
    BY <1>9, <1>10, <2>2, ListsFacts, SMTT(40) DEF WalkInv
  <2> QED
    BY <2>1, <2>2 DEF Walkers
<1> QED
  BY <1>8, <1>11, <1>12 DEF WalkInv

LEMMA WalkBegins ==
  ASSUME slack \in Listings, slack' = slack, NEW w \in Walkers, walk'[w] = NewWalk
  PROVE  WalkInv(w)' /\ walk'[w].got = {}
<1>1. Reached' = Reached /\ 1 \in Reached
  BY ReachedFacts, ReachedUnchanged
<1>2. Asked(w)' = {1} /\ Page(w)' = 1 /\ Behind(w)' = {} /\ walk'[w].got = {}
  BY DEF Asked, Page, Behind, NewWalk
<1> QED
  BY <1>1, <1>2 DEF WalkInv

LEMMA WalkUnchanged ==
  ASSUME NEW w \in Walkers, WalkInv(w), slack' = slack, walk'[w] = walk[w], kept' \subseteq kept
  PROVE  WalkInv(w)'
<1>1. Reached' = Reached
  BY ReachedUnchanged
<1>2. Page(w)' = Page(w) /\ Asked(w)' = Asked(w) /\ Behind(w)' = Behind(w)
  BY DEF Asked, Behind, Page
<1> QED
  BY <1>1, <1>2 DEF WalkInv

\* A walk goes no further, or is given up.
LEMMA WalksRest ==
  ASSUME Base, ListInv, UNCHANGED <<slack, account, members>>,
         \/ UNCHANGED listing /\ (session' = "discover" => session = "discover")
         \/ Dropped({"recovery"}) /\ session' = session
         \/ Dropped({"session"}) /\ session' # "discover"
         \/ Dropped(Walkers) /\ session' # "discover"
  PROVE  ListInv'
<1>1. /\ slack \in Listings /\ walk \in [Walkers -> Walks] /\ kept' \subseteq kept
      /\ \A w \in Walkers : walk'[w] = walk[w] \/ walk'[w] = NewWalk
  BY DEF Base, SlackTypes, WalkTypes, ListInv, listing, Dropped
<1>2. WalksInv'
  BY <1>1, WalkBegins, WalkUnchanged DEF ListInv, WalksInv
<1>3. \/ walk'["session"] = walk["session"] /\ held' = held
      \/ walk'["session"].got = {}
  BY <1>1, WalkBegins DEF listing, Dropped, Walkers
<1>4. session' = "discover" => session = "discover" /\ held' = held
  BY DEF listing, Dropped, Walkers
<1>5. Cardinality({}) = 0 /\ MaxChannels \in Nat
  BY FS_EmptySet
<1>6. MembersInv'
  <2>1. CASE walk'["session"] = walk["session"] /\ held' = held
    BY <1>4, <2>1 DEF ListInv, MembersInv
  <2>2. CASE walk'["session"].got = {}
    <3>1. Cardinality(walk'["session"].got) <= MaxChannels
      BY <1>5, <2>2
    <3> QED
      BY <1>4, <2>2, <3>1 DEF ListInv, MembersInv
  <2> QED
    BY <1>3, <2>1, <2>2
<1>7. ListTypes'
  BY <1>1 DEF ListInv, ListTypes, listing, Dropped
<1> QED
  BY <1>2, <1>6, <1>7 DEF ListInv

\* A channel more, where there is room for it
LEMMA OneMore ==
  ASSUME NEW S, S \subseteq Channels, NEW T, NEW c \in Channels, T \subseteq {c},
         Cardinality(S) <= MaxChannels, T \subseteq S \/ Cardinality(S) < MaxChannels
  PROVE  Cardinality(S \union T) <= MaxChannels
<1>1. IsFiniteSet(S)
  BY FS_Subset
<1>2. Cardinality(S) \in Nat /\ MaxChannels \in Nat
  BY <1>1, FS_CardinalityType
<1>3. CASE T \subseteq S
  <2>1. S \union T = S
    BY <1>3
  <2> QED
    BY <2>1
<1>4. CASE ~(T \subseteq S)
  <2>1. S \union T = S \union {c} /\ c \notin S
    BY <1>4
  <2>2. Cardinality(S \union {c}) = Cardinality(S) + 1
    BY <1>1, <2>1, FS_AddElement
  <2> QED
    BY <1>2, <1>4, <2>1, <2>2
<1> QED
  BY <1>3, <1>4

LEMMA ChannelPageList ==
  ASSUME Base, ListInv, ChannelPage
  PROVE  ListInv'
<1>1. /\ session = "discover" /\ Fits /\ UNCHANGED <<slack, account>> /\ "session" \in Walkers
      /\ slack \in Listings /\ walk \in [Walkers -> Walks] /\ WalkInv("session")
      /\ account \subseteq held /\ account \subseteq Channels
  BY DEF ChannelPage, Answered, Base, SlackTypes, WalkTypes, ListInv, ListTypes, MembersInv,
         WalksInv, Walkers
<1>2. PICK G : G = walk["session"].got \union Lists("session")
  OBVIOUS
<1>3. /\ walk["session"].got \subseteq Channels /\ slack.lists[Page("session")] \in Channels
      /\ Lists("session") \subseteq account /\ Lists("session") \subseteq {slack.lists[Page("session")]}
  BY <1>1, WalkFacts, ListsFacts DEF Walks
<1>4. Cardinality(G) <= MaxChannels
  BY <1>1, <1>2, <1>3, OneMore DEF Fits, ListInv, MembersInv
<1>5. G \subseteq Channels /\ G \subseteq held
  BY <1>1, <1>2, <1>3 DEF ListInv, MembersInv
<1>6. CASE Cursor("session") = 0
  <2>1. members' = G /\ session' = "up" /\ Dropped({"session"})
    BY <1>2, <1>6 DEF ChannelPage
  <2>2. walk'["session"] = NewWalk /\ walk'["recovery"] = walk["recovery"] /\ kept' = {} /\ held' = {}
    BY <2>1 DEF Dropped, Walkers
  <2>3. WalkInv("session")' /\ walk'["session"].got = {}
    BY <1>1, <2>2, WalkBegins
  <2>4. WalkInv("recovery")'
    BY <1>1, <2>2, WalkUnchanged DEF ListInv, WalksInv, Walkers
  <2>5. MembersInv'
    BY <1>4, <2>1, <2>3, FS_EmptySet DEF MembersInv
  <2>6. ListTypes'
    BY <1>1, <1>5, <2>1, <2>2 DEF ListTypes
  <2> QED
    BY <2>3, <2>4, <2>5, <2>6 DEF ListInv, WalksInv, Walkers
<1>7. CASE Cursor("session") # 0
  <2>1. members' = members /\ session' = session /\ Walked("session") /\ MoreChannels
    BY <1>7 DEF ChannelPage
  <2>2. UNCHANGED <<kept, held>> /\ walk'["recovery"] = walk["recovery"] /\ walk'["session"].got = G
    BY <1>1, <1>2, <2>1 DEF Walked, Walkers
  <2>3. WalkInv("session")'
    BY <1>1, <1>7, <2>1, WalkGoesOn DEF MoreChannels, ListInv
  <2>4. WalkInv("recovery")'
    BY <1>1, <2>2, WalkUnchanged DEF ListInv, WalksInv, Walkers
  <2>5. MembersInv'
    BY <1>1, <1>4, <1>5, <2>1, <2>2 DEF ListInv, MembersInv
  <2>6. ListTypes'
    BY <1>1, <2>1, <2>2 DEF ListInv, ListTypes
  <2> QED
    BY <2>3, <2>4, <2>5, <2>6 DEF ListInv, WalksInv, Walkers
<1> QED
  BY <1>6, <1>7

\* A walk over channels begins.
LEMMA DiscoverList ==
  ASSUME Base, ListInv, Discover
  PROVE  ListInv'
<1>1. /\ slack \in Listings /\ walk \in [Walkers -> Walks] /\ UNCHANGED <<slack, account, members>>
      /\ walk' = [walk EXCEPT !["session"] = NewWalk] /\ kept' = account /\ held' = account
  BY DEF Base, SlackTypes, WalkTypes, Discover
<1>2. walk'["session"] = NewWalk /\ walk'["recovery"] = walk["recovery"]
  BY <1>1 DEF Walkers
<1>3. WalkInv("session")' /\ walk'["session"].got = {}
  BY <1>1, <1>2, WalkBegins DEF Walkers
<1>4. WalkInv("recovery")'
  <2>1. Reached' = Reached
    BY <1>1, ReachedUnchanged
  <2>2. Page("recovery")' = Page("recovery") /\ Asked("recovery")' = Asked("recovery")
        /\ Behind("recovery")' = Behind("recovery")
    BY <1>2 DEF Asked, Behind, Page
  <2>3. WalkInv("recovery")
    BY DEF ListInv, WalksInv, Walkers
  <2> QED
    BY <1>1, <1>2, <2>1, <2>2, <2>3 DEF WalkInv
<1>5. MembersInv'
  BY <1>1, <1>3, FS_EmptySet, SMTT(40) DEF ListInv, MembersInv
<1>6. ListTypes'
  BY <1>1 DEF ListInv, ListTypes
<1> QED
  BY <1>3, <1>4, <1>5, <1>6 DEF ListInv, WalksInv, Walkers

\* A walk over history begins or goes on.
LEMMA HistoryList ==
  ASSUME Base, ListInv, HistoryBegins \/ HistoryPage
  PROVE  ListInv'
<1>1. /\ slack \in Listings /\ walk \in [Walkers -> Walks] /\ WalkInv("recovery") /\ WalkInv("session")
      /\ UNCHANGED <<slack, account, members, kept, held, session>>
  BY DEF Base, SlackTypes, WalkTypes, ListInv, WalksInv, Walkers, HistoryBegins, HistoryPage, Answered,
         Walked, joined, loop
<1>2. walk'["session"] = walk["session"]
  BY <1>1 DEF HistoryBegins, HistoryPage, Walked, Walkers
<1>3. WalkInv("session")'
  BY <1>1, <1>2, WalkUnchanged DEF Walkers
<1>4. WalkInv("recovery")'
  <2>1. CASE HistoryBegins
    <3>1. walk'["recovery"] = NewWalk
      BY <1>1, <2>1 DEF HistoryBegins, Walkers
    <3> QED
      BY <1>1, <3>1, WalkBegins DEF Walkers
  <2>2. CASE HistoryPage
    BY <1>1, <2>2, WalkGoesOn DEF HistoryPage, HistoryDone, MoreHistory, ListInv, Walkers
  <2> QED
    BY <2>1, <2>2
<1>5. MembersInv' /\ ListTypes'
  BY <1>1, <1>2 DEF ListInv, MembersInv, ListTypes
<1> QED
  BY <1>3, <1>4, <1>5 DEF ListInv, WalksInv, Walkers

\* The consumer adds a channel of the account.
LEMMA StrangerList ==
  ASSUME Base, ListInv, StrangerKnown
  PROVE  ListInv'
<1>1. UNCHANGED <<slack, account>> /\ session = "info"
  BY DEF StrangerKnown, Answered
<1>2. PICK c \in account \ members :
        /\ \/ members' = members
           \/ members' = members \union {c} /\ Cardinality(members) < MaxChannels
        /\ \/ UNCHANGED listing /\ session' = "up"
           \/ Dropped(Walkers) /\ session' = "sleep"
  BY DEF StrangerKnown, Down
<1>3. Cardinality(members') <= MaxChannels /\ members' \subseteq Channels
  <2>1. members \subseteq Channels /\ c \in Channels /\ Cardinality(members) <= MaxChannels
    BY <1>2 DEF ListInv, ListTypes, MembersInv
  <2> QED
    BY <1>2, <2>1, OneMore
<1>4. /\ slack \in Listings /\ walk \in [Walkers -> Walks] /\ kept' \subseteq kept
      /\ \A w \in Walkers : walk'[w] = walk[w] \/ walk'[w] = NewWalk
  BY <1>2 DEF Base, SlackTypes, WalkTypes, listing, Dropped
<1>5. WalksInv'
  BY <1>1, <1>4, WalkBegins, WalkUnchanged DEF ListInv, WalksInv
<1>6. \/ walk'["session"] = walk["session"] /\ held' = held
      \/ walk'["session"].got = {}
  BY <1>1, <1>2, <1>4, WalkBegins DEF listing, Dropped, Walkers
<1>7. MembersInv'
  <2>1. CASE walk'["session"] = walk["session"] /\ held' = held
    BY <1>2, <1>3, <2>1 DEF ListInv, MembersInv
  <2>2. CASE walk'["session"].got = {}
    <3>1. Cardinality(walk'["session"].got) <= MaxChannels
      BY <2>2, FS_EmptySet
    <3> QED
      BY <1>2, <1>3, <2>2, <3>1 DEF ListInv, MembersInv
  <2> QED
    BY <1>6, <2>1, <2>2
<1>8. ListTypes'
  BY <1>1, <1>2, <1>3 DEF ListInv, ListTypes, listing, Dropped
<1> QED
  BY <1>5, <1>7, <1>8 DEF ListInv

\* The account joins or leaves a channel.
LEMMA MovedList ==
  ASSUME Base, ListInv, NEW c \in Channels, Join(c) \/ Leave(c)
  PROVE  ListInv'
<1>1. /\ UNCHANGED <<slack, members, walk, session>> /\ kept' \subseteq kept
      /\ walk["session"].got \subseteq held
  BY DEF Join, Leave, loop, ListInv, MembersInv
<1>2. WalksInv'
  BY <1>1, WalkUnchanged DEF ListInv, WalksInv
<1>3. CASE session = "discover"
  <2>1. MembersInv'
    BY <1>1, <1>3 DEF Join, Leave, ListInv, MembersInv
  <2>2. ListTypes'
    BY <1>1, <1>3 DEF Join, Leave, ListInv, ListTypes
  <2> QED
    BY <1>2, <2>1, <2>2 DEF ListInv
<1>4. CASE session # "discover"
  <2>1. held' = held
    BY <1>4 DEF Join, Leave, ListInv, MembersInv
  <2>2. MembersInv'
    BY <1>1, <1>4, <2>1 DEF ListInv, MembersInv
  <2>3. ListTypes'
    BY <1>1, <2>1 DEF Join, Leave, ListInv, ListTypes
  <2> QED
    BY <1>2, <2>2, <2>3 DEF ListInv
<1> QED
  BY <1>3, <1>4

LEMMA RequestList ==
  ASSUME Base, ListInv, NEW t \in Tasks, Request(t)
  PROVE  ListInv'
<1>1. UNCHANGED <<slack, account>>
  BY DEF Request, Paused, Send, Limited, Fails, Denied, Answered
<1>2. ASSUME NEW retry, Error(t, retry)
      PROVE  ListInv'
  BY <1>1, <1>2, WalksRest DEF Error, Down, PassEnds, LookupFails, loop
<1>3. CASE Send(t)
  BY <1>1, <1>3, WalksRest DEF Send, loop
<1>4. CASE Denied(t)
  BY <1>1, <1>4, WalksRest DEF Denied, LookupFails, Ended, loop
<1> QED
  BY <1>2, <1>3, <1>4 DEF Request, Paused, Limited, Fails

LEMMA InitInv == Init => Inv
<1> SUFFICES ASSUME Init PROVE Inv
  OBVIOUS
<1>1. slack \in Listings /\ walk = [w \in Walkers |-> NewWalk] /\ members = {}
  BY DEF Init
<1>2. \A w \in Walkers : Asked(w) = {1} /\ Page(w) = 1 /\ Behind(w) = {} /\ walk[w].got = {}
  BY <1>1 DEF Asked, Page, Behind, NewWalk
<1>3. WalksInv
  BY <1>1, <1>2, ReachedFacts DEF WalksInv, WalkInv
<1>4. ListTypes
  BY DEF Init, ListTypes
<1>5. MembersInv
  <2>1. session # "discover" /\ walk["session"].got = {}
    BY <1>2 DEF Init, Walkers
  <2>2. Cardinality({}) = 0 /\ 0 <= MaxChannels
    BY FS_EmptySet, LimitsAssumption
  <2> QED
    BY <1>1, <2>1, <2>2 DEF MembersInv
<1> QED
  BY <1>3, <1>4, <1>5, InitBase, InvParts

LEMMA NextList ==
  ASSUME Base, ListInv, [Next]_vars
  PROVE  ListInv'
<1>1. CASE Walking
  <2>1. CASE ChannelsRefused \/ HistoryComplete \/ HistoryRefused
    BY <2>1, WalksRest DEF ChannelsRefused, HistoryComplete, HistoryRefused, Answered, Down, PassEnds, loop
  <2> QED
    BY <1>1, <2>1, ChannelPageList, HistoryList DEF Walking
<1>2. CASE Session
  <2>1. CASE Authenticated \/ Awake \/ Stranger \/ StrangerSkipped
    BY <2>1, WalksRest DEF Authenticated, Awake, Stranger, StrangerSkipped, Answered
  <2>2. CASE OpenFails \/ Disconnect
    BY <2>2, WalksRest DEF OpenFails, Disconnect, Down, Ended
  <2> QED
    BY <1>2, <2>1, <2>2, DiscoverList, StrangerList DEF Session, Opened, Rediscover
<1>3. CASE Tick \/ Named \/ \E c \in Channels : LookUp(c)
  BY <1>3, WalksRest DEF Tick, Named, LookUp, Answered, loop
<1>4. CASE \E c \in Channels : Join(c) \/ Leave(c)
  BY <1>4, MovedList
<1>5. CASE UNCHANGED vars
  BY <1>5, WalksRest DEF vars, loop
<1> QED
  BY <1>1, <1>2, <1>3, <1>4, <1>5, RequestList DEF Next

LEMMA NextInv ==
  ASSUME Inv, [Next]_vars
  PROVE  Inv'
<1>1. Base /\ ListInv /\ account \subseteq Channels
  BY InvParts DEF ListInv, ListTypes
<1>2. Base' /\ ListInv'
  BY <1>1, NextBase, NextList
<1>3. Inv' <=> Base' /\ ListInv'
  BY DEF Inv, Base, TypeOK, SlackTypes, LoopTypes, WalkTypes, ListTypes, NamesOK, NameTypes, ListInv
<1> QED
  BY <1>2, <1>3

\* The inductive invariant.
THEOREM InvInvariant == Spec => []Inv
  BY InitInv, NextInv, PTL DEF Spec

\* A channel is shown under its ID no longer than NEGATIVE_TTL after a failure.
THEOREM FallbackIsShortInvariant == Spec => []FallbackIsShort
<1>1. Inv => FallbackIsShort
  BY DEF Inv
<1> QED
  BY <1>1, InvInvariant, PTL

\* Whoever was told to come back later does not send before, unless a shorter
\* Retry-After has replaced the one it was told, and the connection loop never.
THEOREM AskedWhenAllowedHolds == Spec => AskedWhenAllowed
<1>1. ASSUME Inv, NEW t \in Tasks, Send(t)
      PROVE  told[t] = 0 \/ (shorter /\ t # "session")
  <2>1. told[t] \in Nat /\ pause = 0 /\ WaitsInv /\ call[t] = "ready"
    BY <1>1 DEF Send, Inv, TypeOK
  <2> QED
    BY <2>1 DEF WaitsInv, Asking, Tasks
<1>2. Inv /\ [Next]_vars => [\A t \in Tasks : Send(t) => told[t] = 0 \/ (shorter /\ t # "session")]_vars
  BY <1>1
<1> QED
  BY <1>2, InvInvariant, PTL DEF Spec, AskedWhenAllowed

\* A failed look-up is not repeated within NEGATIVE_TTL unless it was evicted.
THEOREM NotRepeatedHolds == Spec => NotRepeated
<1>1. ASSUME Inv, NEW c \in Channels, LookUp(c)
      PROVE  failed[c] = 0 \/ c \in evicted
  <2>1. cache[c] \in {NoEntry} \union Entries /\ failed[c] \in 0..NegativeTtl
    BY <1>1 DEF Inv, TypeOK
  <2>2. cache[c] # NoEntry => ~(cache[c].expires > 0) /\ cache[c].expires \in Nat
    BY <1>1, <2>1 DEF LookUp, C!Live, Entries
  <2> QED
    BY <1>1, <2>1, <2>2 DEF Inv, NamesInv
<1>2. Inv /\ [Next]_vars => [\A c \in Channels : LookUp(c) => failed[c] = 0 \/ c \in evicted]_vars
  BY <1>1
<1> QED
  BY <1>2, InvInvariant, PTL DEF Spec, NotRepeated
\* A walk over channels that counts asked for every page there is; what it finds
\* are the listed channels the account belonged to all the time, and none it
\* never belonged to meanwhile.  Only the consumer adds another one, which the
\* account belongs to.
THEOREM WholeListingHolds == Spec => WholeListing
<1> DEFINE counts == session = "discover" /\ session' = "up"
           Whole  == /\ Asked("session") = Reached
                     /\ kept \intersect {slack.lists[p] : p \in Reached} \subseteq members'
                     /\ members' \subseteq held
           Adds   == session = "info" /\ \E c \in account : members' = members \union {c}
<1>1. ASSUME Inv, [Next]_vars, session = "discover", session' = "up"
      PROVE  Whole
  <2>1. ChannelPage
    BY <1>1 DEF Next, Session, Authenticated, Opened, OpenFails, Disconnect, Rediscover, Discover,
                Awake, Stranger, StrangerSkipped, StrangerKnown, Walking, ChannelsRefused,
                HistoryBegins, HistoryPage, HistoryComplete, HistoryRefused, PassEnds, Tick, Named,
                LookUp, Join, Leave, Request, Paused, Send, Limited, Fails, Denied, Error, Down,
                Ended, LookupFails, loop, vars
  <2>2. /\ Base /\ ListTypes /\ MembersInv /\ WalkInv("session") /\ "session" \in Walkers
    BY <1>1, InvParts DEF WalksInv, Walkers
  <2>3. Cursor("session") = 0 /\ members' = walk["session"].got \union Lists("session")
    BY <1>1, <2>1 DEF ChannelPage
  <2>4. Asked("session") = Reached /\ Asked("session") = Behind("session") \union {Page("session")}
    BY <2>2, <2>3, WalkComplete, WalkFacts
  <2>5. /\ kept \intersect {slack.lists[p] : p \in Behind("session")} \subseteq walk["session"].got
        /\ Lists("session") = {slack.lists[Page("session")]} \intersect account
        /\ kept \subseteq account /\ account \subseteq held /\ walk["session"].got \subseteq held
    BY <1>1, <2>2, ListsFacts DEF WalkInv, ListTypes, MembersInv
  <2>6. kept \intersect {slack.lists[p] : p \in Reached} \subseteq members'
    BY <2>3, <2>4, <2>5
  <2> QED
    BY <2>3, <2>4, <2>5, <2>6
<1>2. ASSUME Inv, [Next]_vars, members' # members
      PROVE  counts \/ Adds
  <2>1. ChannelPage \/ StrangerKnown
    BY <1>2 DEF Next, Session, Authenticated, Opened, OpenFails, Disconnect, Rediscover, Discover,
                Awake, Stranger, StrangerSkipped, Walking, ChannelsRefused,
                HistoryBegins, HistoryPage, HistoryComplete, HistoryRefused, PassEnds, Tick, Named,
                LookUp, Join, Leave, Request, Paused, Send, Limited, Fails, Denied, Error, Ended,
                LookupFails, vars
  <2>2. CASE ChannelPage
    BY <1>2, <2>2 DEF ChannelPage
  <2>3. CASE StrangerKnown
    BY <1>2, <2>3 DEF StrangerKnown
  <2> QED
    BY <2>1, <2>2, <2>3
<1>3. Inv /\ [Next]_vars =>
        [(counts => Whole) /\ (members' # members => counts \/ Adds)]_vars
  BY <1>1, <1>2
<1> QED
  BY <1>3, InvInvariant, PTL DEF Spec, WholeListing

\* History counts as recovered only if every page of it was seen.
THEOREM WholeHistoryHolds == Spec => WholeHistory
<1>1. ASSUME Inv, HistoryComplete
      PROVE  walk["recovery"].got \union Lists("recovery") = {slack.lists[p] : p \in Reached}
  <2>1. Base /\ WalkInv("recovery") /\ "recovery" \in Walkers /\ Cursor("recovery") = 0
    BY <1>1, InvParts DEF WalksInv, Walkers, HistoryComplete, HistoryDone
  <2>2. Asked("recovery") = Reached /\ Asked("recovery") = Behind("recovery") \union {Page("recovery")}
    BY <2>1, WalkComplete, WalkFacts
  <2>3. /\ Lists("recovery") = {slack.lists[Page("recovery")]}
        /\ walk["recovery"].got \subseteq {slack.lists[p] : p \in Behind("recovery")}
        /\ Channels \intersect {slack.lists[p] : p \in Behind("recovery")} \subseteq walk["recovery"].got
    BY <2>1, ListsFacts DEF WalkInv
  <2>4. \A p \in Reached : slack.lists[p] \in Channels
    BY <2>1, WalkFacts, ReachedFacts, ListedChannels
  <2> QED
    BY <2>2, <2>3, <2>4
<1>2. Inv /\ [Next]_vars =>
        [HistoryComplete => walk["recovery"].got \union Lists("recovery")
                              = {slack.lists[p] : p \in Reached}]_vars
  BY <1>1
<1> QED
  BY <1>2, InvInvariant, PTL DEF Spec, WholeHistory
=============================================================================
