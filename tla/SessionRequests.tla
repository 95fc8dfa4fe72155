-------------------------- MODULE SessionRequests --------------------------
(***************************************************************************)
(* The requests of one user session (src/src/slackbot/user_session/api.rs, *)
(* user_session.rs, recovery.rs) and the names its worker looks up         *)
(* (src/src/slackbot.rs).  Three tasks send requests at the same time: the *)
(* connection loop (authentication, then the walk over the pages of joined *)
(* channels, then the consumer's question about the channel of a message   *)
(* it does not know), recovery (the walk over pages of history) and the    *)
(* worker's look-ups.  They share one pause, which Slack's Retry-After     *)
(* sets.  All but recovery fill the same cache of names.  Meanwhile the    *)
(* account joins and leaves channels.                                      *)
(*                                                                         *)
(* Times are what is left of them, in ticks.                               *)
(***************************************************************************)
EXTENDS Integers, FiniteSets

CONSTANTS
  Channels,     \* channels
  Busy,         \* those the account joins and leaves, and whose names are looked up
  NoChannel,    \* none of them
  NoEntry,      \* a key the cache does not hold
  Listings,     \* the page lists Slack may have, see Listing
  MaxChannels,  \* MAX_CHANNELS
  MaxCursors,   \* cursors of one walk over the channels, 100 in the code
  MaxPages,     \* recovery.max_pages_per_channel
  Capacity,     \* CACHE_CAPACITY
  ChannelTtl,   \* CHANNEL_TTL
  NegativeTtl,  \* NEGATIVE_TTL
  RetryAfters,  \* values of the header Retry-After
  MinBackoff,   \* the first delay of the connection loop, 2 in the code
  MaxBackoff    \* its longest, 30 in the code

C == INSTANCE ExpiringCache

\* A list of pages, each with one channel and a cursor that names the next
\* page; the empty cursor, here 0, ends it, and asks for page 1.
Listing(n) == [next : [1..n -> {0} \union 2..n], lists : [1..n -> Channels]]

ASSUME ListingsAssumption == \A l \in Listings : \E n \in 1..Cardinality(DOMAIN l.next) : l \in Listing(n)
ASSUME LimitsAssumption ==
  /\ MaxChannels \in Nat /\ MaxCursors \in Nat /\ MaxPages \in Nat \ {0} /\ Capacity \in Nat \ {0}
  /\ NegativeTtl \in Nat \ {0} /\ ChannelTtl \in Nat /\ ChannelTtl >= NegativeTtl
  /\ RetryAfters \subseteq Nat /\ MinBackoff \in Nat /\ MaxBackoff \in Nat /\ MinBackoff <= MaxBackoff
ASSUME NamesAssumption ==
  /\ IsFiniteSet(Channels) /\ Busy \subseteq Channels
  /\ NoChannel \notin Channels /\ NoEntry \notin [value : {"name", "id"}, expires : Nat]

VARIABLES
  slack,   \* the list of pages
  account, \* the channels the account belongs to
  kept,    \* history: those it has belonged to since discover_channels began
  held,    \* history: those it has belonged to at some time since then
           \* (both empty when it is not running)
  pause,   \* SessionApi::pause
  session, \* the connection loop, see Sessions
  authed,  \* Session::new is done
  call,    \* the request of each task, see Calls
  walk,    \* the walks over pages, see Walks
  members, \* Session::members, the channels the session knows it belongs to
  wait,    \* what is left of the connection loop's sleep
  backoff, \* its next delay
  cache,   \* Workspace::channels
  looked,  \* the channel that is looked up, or NoChannel
  told,    \* history: what is left of the Retry-After each task was told last
  shorter, \* history: a shorter Retry-After has replaced a longer one
  failed,  \* history: what is left of NEGATIVE_TTL since a look-up failed
  evicted  \* history: channels evicted since their look-up failed

history == <<told, shorter, failed, evicted>>
joined  == <<account, kept, held>>
listing == <<walk, kept, held>>
loop    == <<session, authed, wait, backoff>>
names   == <<cache, looked, failed, evicted>>
vars    == <<slack, account, listing, pause, loop, call, members, names, told, shorter>>

Tasks    == {"session", "recovery", "lookup"}
Walkers  == {"session", "recovery"}
Sessions == {"auth", "open", "discover", "up", "info", "sleep", "ended"}
Calls    == {"off", "idle", "ready", "sent"}

Larger(a, b)  == IF a > b THEN a ELSE b
Smaller(a, b) == IF a < b THEN a ELSE b
Less(t)       == IF t = 0 THEN 0 ELSE t - 1

NewWalk == [page |-> 1, cursors |-> {}, got |-> {}]
\* A walk over pages: the page asked for, the cursors seen, what the pages listed
Walks == [page : DOMAIN slack.next, cursors : SUBSET DOMAIN slack.next, got : SUBSET Channels]

Entries == [value : {"name", "id"}, expires : 0..ChannelTtl]
Known == [value |-> "name", expires |-> ChannelTtl]
\* Mutant of Fallback: it is kept as long as a name
FallbackLong == [value |-> "id", expires |-> ChannelTtl]

Fallback == [value |-> "id", expires |-> NegativeTtl]

TypeOK ==
  /\ slack \in Listings
  /\ account \subseteq Channels /\ kept \subseteq account /\ held \subseteq Channels
  /\ pause \in Nat /\ wait \in Nat /\ backoff \in MinBackoff..MaxBackoff
  /\ session \in Sessions /\ authed \in BOOLEAN
  /\ call \in [Tasks -> Calls]
  /\ walk \in [Walkers -> Walks]
  /\ members \subseteq Channels
  /\ cache \in [Channels -> {NoEntry} \union Entries]
  /\ looked \in Channels \union {NoChannel}
  /\ told \in [Tasks -> Nat] /\ shorter \in BOOLEAN
  /\ failed \in [Channels -> 0..NegativeTtl] /\ evicted \subseteq Channels

Init ==
  /\ slack \in Listings
  /\ account \in SUBSET Channels /\ kept = {} /\ held = {}
  /\ pause = 0 /\ session = "auth" /\ authed = FALSE /\ wait = 0 /\ backoff = MinBackoff
  /\ call = [t \in Tasks |-> IF t = "session" THEN "ready"
                             ELSE IF t = "recovery" THEN "off" ELSE "idle"]
  /\ walk = [w \in Walkers |-> NewWalk] /\ members = {}
  /\ cache = C!EmptyCache(Channels) /\ looked = NoChannel
  /\ told = [t \in Tasks |-> 0] /\ shorter = FALSE
  /\ failed = [c \in Channels |-> 0] /\ evicted = {}

-----------------------------------------------------------------------------
(***************************************************************************)
(* What an error does to the task that made the request.                   *)
(***************************************************************************)

\* Mutant of RetryDelay: the backoff alone
RetryDelayPlain(base, retry) == base

\* retry_delay without its jitter
RetryDelay(base, retry) == Larger(base, retry)

Doubled(base) == Smaller(2 * base, MaxBackoff)

\* What discover_channels and recover_pages keep is gone when they are over.
Dropped(w) ==
  /\ walk' = [v \in Walkers |-> IF v \in w THEN NewWalk ELSE walk[v]]
  /\ IF "session" \in w THEN kept' = {} /\ held' = {} ELSE UNCHANGED <<kept, held>>

\* The connection loop sleeps.  A connection that lasted a minute, attempts to
\* open it included, has reset the backoff.
Down(retry) ==
  \E base \in {backoff} \union (IF session = "auth" THEN {} ELSE {MinBackoff}) :
    /\ session' = "sleep"
    /\ wait' = RetryDelay(base, retry)
    /\ backoff' = Doubled(base)
    /\ call' = [call EXCEPT !["session"] = "idle", !["recovery"] = "off"]
    /\ Dropped(Walkers)
    /\ UNCHANGED authed

\* The credentials are invalid: run returns.
Ended ==
  /\ session' = "ended"
  /\ call' = [call EXCEPT !["session"] = "idle", !["recovery"] = "off"]
  /\ Dropped(Walkers)
  /\ UNCHANGED <<authed, wait, backoff, members, names>>

\* Recovery is done with the walk, or gives it up until a later pass.
PassEnds ==
  /\ call' = [call EXCEPT !["recovery"] = "idle"]
  /\ Dropped({"recovery"})
  /\ UNCHANGED <<loop, members, names>>

\* A name is put into the cache, which may evict another one.
Remember(c, entry) ==
  \E v \in C!Victims(cache, c, Capacity) :
    /\ cache' = C!AfterInsert(cache, c, entry, v)
    /\ evicted' = IF v = c THEN evicted \ {c} ELSE (evicted \ {c}) \union {v}

\* Mutant of LookupFails: without an answer there is nothing to remember
LookupFailsForgets ==
  /\ failed' = [failed EXCEPT ![looked] = NegativeTtl]
  /\ looked' = NoChannel
  /\ call' = [call EXCEPT !["lookup"] = "idle"]
  /\ UNCHANGED <<cache, evicted, loop, listing, members>>

\* The name is not known: the channel's ID will do for NEGATIVE_TTL, also if the
\* name came from elsewhere meanwhile.
LookupFails ==
  /\ Remember(looked, Fallback)
  /\ failed' = [failed EXCEPT ![looked] = NegativeTtl]
  /\ looked' = NoChannel
  /\ call' = [call EXCEPT !["lookup"] = "idle"]
  /\ UNCHANGED <<loop, listing, members>>

Error(t, retry) ==
  \/ t = "session" /\ Down(retry) /\ UNCHANGED <<members, names>>
  \/ t = "recovery" /\ PassEnds
  \/ t = "lookup" /\ LookupFails

-----------------------------------------------------------------------------
(***************************************************************************)
(* SessionApi::call                                                        *)
(***************************************************************************)

\* The pause is not over: an error, without a request.
Paused(t) ==
  /\ call[t] = "ready" /\ pause > 0
  /\ Error(t, pause)
  /\ UNCHANGED <<slack, account, pause, told, shorter>>

Send(t) ==
  /\ call[t] = "ready" /\ pause = 0
  /\ call' = [call EXCEPT ![t] = "sent"]
  /\ UNCHANGED <<slack, account, listing, pause, loop, members, names, told, shorter>>

Answered(t) == call[t] = "sent" /\ UNCHANGED <<slack, account>>

\* Mutant of Limited: nobody else is told
LimitedAlone(t) ==
  /\ Answered(t)
  /\ \E delay \in {Larger(d, 1) : d \in RetryAfters} :
       /\ told' = [told EXCEPT ![t] = delay]
       /\ shorter' = (shorter \/ delay < pause)
       /\ Error(t, delay)
  /\ UNCHANGED pause

\* 429 with its Retry-After, at least a second: the last answer counts.
Limited(t) ==
  /\ Answered(t)
  /\ \E delay \in {Larger(d, 1) : d \in RetryAfters} :
       /\ pause' = delay
       /\ told' = [told EXCEPT ![t] = delay]
       /\ shorter' = (shorter \/ delay < pause)
       /\ Error(t, delay)

\* An error, an answer that is not understood, or none in time; LOOKUP_TIMEOUT,
\* shorter than API_TIMEOUT, drops the request of a look-up.
Fails(t) ==
  /\ Answered(t)
  /\ Error(t, 0)
  /\ UNCHANGED <<pause, told, shorter>>

\* The credentials are invalid: the connection loop ends.  A look-up only fails.
Denied(t) ==
  /\ Answered(t)
  /\ IF t = "lookup"
       THEN LookupFails
       ELSE Ended
  /\ UNCHANGED <<pause, told, shorter>>

Request(t) == Paused(t) \/ Send(t) \/ Limited(t) \/ Fails(t) \/ Denied(t)

-----------------------------------------------------------------------------
(***************************************************************************)
(* The walks over pages                                                    *)
(***************************************************************************)
Page(w)   == walk[w].page
Cursor(w) == slack.next[Page(w)]

\* What the page asked for lists: what is left of it at the time of the answer
Lists(w) == {slack.lists[Page(w)]} \intersect (IF w = "session" THEN account ELSE Channels)

\* What both walks do with a page and its cursor (next_cursor)
Walked(w) ==
  /\ walk' = [walk EXCEPT ![w] = [page |-> Cursor(w),
                                  cursors |-> @.cursors \union {Cursor(w)},
                                  got |-> @.got \union Lists(w)]]
  /\ UNCHANGED <<kept, held>>

\* Mutant of MoreChannels: a cursor has to be new, or the walk short
MoreChannelsOr ==
  Cardinality(walk["session"].cursors) < MaxCursors \/ Cursor("session") \notin walk["session"].cursors

\* discover_channels goes on: the cursor is new, and one of at most 100.
MoreChannels ==
  Cardinality(walk["session"].cursors) < MaxCursors /\ Cursor("session") \notin walk["session"].cursors

\* recover_pages goes on: the cursor is new, and the limit of pages not reached.
MoreHistory ==
  /\ Cursor("recovery") \notin walk["recovery"].cursors
  /\ Cardinality(walk["recovery"].cursors) + 1 < MaxPages

\* The page does not list more channels than a session may have.
Fits ==
  Lists("session") \subseteq walk["session"].got \/ Cardinality(walk["session"].got) < MaxChannels

\* cache_channel, for what the page lists
CachePage ==
  \/ Lists("session") = {} /\ UNCHANGED <<cache, evicted>>
  \/ \E c \in Lists("session") : Remember(c, Known)

\* Mutant of ChannelPage: the channels count as they come
ChannelPageAtOnce ==
  /\ session = "discover" /\ Answered("session") /\ Fits
  /\ CachePage
  /\ members' = walk["session"].got \union Lists("session")
  /\ \/ /\ Cursor("session") = 0
        /\ session' = "up"
        /\ call' = [call EXCEPT !["session"] = "idle",
                                !["recovery"] = IF @ = "off" THEN "idle" ELSE @]
        /\ Dropped({"session"})
        /\ UNCHANGED <<wait, backoff>>
     \/ /\ Cursor("session") # 0 /\ MoreChannels
        /\ Walked("session")
        /\ call' = [call EXCEPT !["session"] = "ready"]
        /\ UNCHANGED <<session, wait, backoff>>
  /\ UNCHANGED <<pause, authed, looked, failed, told, shorter>>

\* A page of discover_channels: its channels are cached at once, but become the
\* members only when the list is complete.
ChannelPage ==
  /\ session = "discover" /\ Answered("session") /\ Fits
  /\ CachePage
  /\ \/ /\ Cursor("session") = 0
        /\ members' = walk["session"].got \union Lists("session")
        /\ session' = "up"
        /\ call' = [call EXCEPT !["session"] = "idle",
                                !["recovery"] = IF @ = "off" THEN "idle" ELSE @]
        /\ Dropped({"session"})
        /\ UNCHANGED <<wait, backoff>>
     \/ /\ Cursor("session") # 0 /\ MoreChannels
        /\ Walked("session")
        /\ call' = [call EXCEPT !["session"] = "ready"]
        /\ UNCHANGED <<session, wait, backoff, members>>
  /\ UNCHANGED <<pause, authed, looked, failed, told, shorter>>

\* The page lists a channel too many, or its names are cached and then its
\* cursor is malformed, was seen before, or is one too many.
ChannelsRefused ==
  /\ session = "discover" /\ Answered("session")
  /\ \/ ~Fits /\ UNCHANGED <<cache, evicted>>
     \/ Fits /\ CachePage
  /\ Down(0)
  /\ UNCHANGED <<pause, members, looked, failed, told, shorter>>

\* Mutant of HistoryDone: so is a walk that got to the limit
HistoryDoneAtLimit == Cursor("recovery") = 0 \/ ~MoreHistory

\* The walk is complete: recover_pages returns Ok.
HistoryDone == Cursor("recovery") = 0

\* A page of recover_pages, whose messages are processed: the last one,
HistoryComplete ==
  /\ Answered("recovery") /\ HistoryDone
  /\ PassEnds
  /\ UNCHANGED <<pause, told, shorter>>

\* one that is followed by another,
HistoryPage ==
  /\ Answered("recovery") /\ ~HistoryDone /\ MoreHistory
  /\ Walked("recovery")
  /\ call' = [call EXCEPT !["recovery"] = "ready"]
  /\ UNCHANGED <<pause, loop, members, names, told, shorter>>

\* or one with a cursor that was seen before or that is one too many.
HistoryRefused ==
  /\ Answered("recovery") /\ ~HistoryDone /\ ~MoreHistory
  /\ PassEnds
  /\ UNCHANGED <<pause, told, shorter>>

\* recover() begins with a channel or thread.
HistoryBegins ==
  /\ call["recovery"] = "idle"
  /\ walk' = [walk EXCEPT !["recovery"] = NewWalk]
  /\ call' = [call EXCEPT !["recovery"] = "ready"]
  /\ UNCHANGED <<slack, joined, pause, loop, members, names, told, shorter>>

-----------------------------------------------------------------------------
(***************************************************************************)
(* The connection loop: Session::new, run and connection                   *)
(***************************************************************************)
Authenticated ==
  /\ session = "auth" /\ Answered("session")
  /\ session' = "open" /\ authed' = TRUE /\ backoff' = MinBackoff
  /\ call' = [call EXCEPT !["session"] = "idle"]
  /\ UNCHANGED <<pause, wait, listing, members, names, told, shorter>>

\* discover_channels begins.
Discover ==
  /\ session' = "discover"
  /\ walk' = [walk EXCEPT !["session"] = NewWalk]
  /\ kept' = account /\ held' = account
  /\ call' = [call EXCEPT !["session"] = "ready"]
  /\ UNCHANGED <<slack, account, pause, authed, wait, backoff, members, names, told, shorter>>

\* The web socket is open and Slack has said hello.
Opened == session = "open" /\ Discover

\* The handshake fails, is rate-limited, which does not touch the shared pause,
\* or finds the credentials invalid.
OpenFails ==
  /\ session = "open"
  /\ \/ Down(0) /\ UNCHANGED told
     \/ \E delay \in {Larger(d, 1) : d \in RetryAfters} :
          Down(delay) /\ told' = [told EXCEPT !["session"] = delay]
     \/ Ended /\ UNCHANGED told
  /\ UNCHANGED <<slack, account, pause, members, names, shorter>>

\* The reader or the consumer ends the connection.
Disconnect ==
  /\ session \in {"discover", "up", "info"}
  /\ Down(0)
  /\ UNCHANGED <<slack, account, pause, members, names, told, shorter>>

\* A membership event: the consumer discovers the channels again.
Rediscover == session = "up" /\ Discover

\* A message of a channel that is no member: the consumer asks about it.
Stranger ==
  /\ session = "up" /\ members # Channels
  /\ session' = "info"
  /\ call' = [call EXCEPT !["session"] = "ready"]
  /\ UNCHANGED <<slack, account, listing, pause, authed, wait, backoff, members, names, told,
                 shorter>>

\* It is not one of the account's: the message is skipped.
StrangerSkipped ==
  /\ session = "info" /\ Answered("session")
  /\ \E c \in Channels \ members : c \notin account
  /\ session' = "up"
  /\ call' = [call EXCEPT !["session"] = "idle"]
  /\ UNCHANGED <<pause, authed, wait, backoff, listing, members, names, told, shorter>>

\* Mutant of StrangerKnown: whatever is posted in is joined
StrangerKnownAlways ==
  /\ session = "info" /\ Answered("session")
  /\ \E c \in Channels \ members :
       /\ members' = members \union {c}
       /\ Remember(c, Known)
  /\ session' = "up"
  /\ call' = [call EXCEPT !["session"] = "idle"]
  /\ UNCHANGED <<wait, backoff, pause, authed, listing, looked, failed, told, shorter>>

\* It is: it becomes a member, unless there are too many; the store may refuse
\* it after that, before its name is cached.
StrangerKnown ==
  /\ session = "info" /\ Answered("session")
  /\ \E c \in account \ members :
       \/ /\ Cardinality(members) < MaxChannels
          /\ members' = members \union {c}
          /\ Remember(c, Known)
          /\ session' = "up"
          /\ call' = [call EXCEPT !["session"] = "idle"]
          /\ UNCHANGED <<authed, wait, backoff, listing>>
       \/ /\ Cardinality(members) < MaxChannels
          /\ members' = members \union {c}
          /\ UNCHANGED <<cache, evicted>>
          /\ Down(0)
       \/ /\ Cardinality(members) >= MaxChannels
          /\ UNCHANGED <<members, cache, evicted>>
          /\ Down(0)
  /\ UNCHANGED <<pause, looked, failed, told, shorter>>

\* The sleep is over: another request or connection.
Awake ==
  /\ session = "sleep" /\ wait = 0
  /\ session' = IF authed THEN "open" ELSE "auth"
  /\ call' = [call EXCEPT !["session"] = IF authed THEN "idle" ELSE "ready"]
  /\ UNCHANGED <<slack, account, listing, pause, authed, wait, backoff, members, names, told, shorter>>

Session ==
  \/ Authenticated \/ Opened \/ OpenFails \/ Disconnect \/ Rediscover \/ Awake
  \/ Stranger \/ StrangerSkipped \/ StrangerKnown

\* Somebody adds the account to a channel, or takes it out of one.
Join(c) ==
  /\ c \notin account
  /\ account' = account \union {c}
  /\ held' = IF session = "discover" THEN held \union {c} ELSE held
  /\ UNCHANGED <<slack, kept, pause, loop, call, walk, members, names, told, shorter>>

Leave(c) ==
  /\ c \in account
  /\ account' = account \ {c} /\ kept' = kept \ {c}
  /\ UNCHANGED <<slack, held, pause, loop, call, walk, members, names, told, shorter>>

-----------------------------------------------------------------------------
(***************************************************************************)
(* Workspace::channel_name                                                 *)
(***************************************************************************)

\* The worker needs the name of c, which the cache does not have.  In a user
\* session retry_at is never set, so a look-up is always allowed.
LookUp(c) ==
  /\ call["lookup"] = "idle"
  /\ ~C!Live(cache, c, 0)
  /\ cache' = C!AfterGet(cache, c, 0)
  /\ looked' = c
  /\ call' = [call EXCEPT !["lookup"] = "ready"]
  /\ UNCHANGED <<slack, account, listing, pause, loop, members, failed, evicted, told, shorter>>

Named ==
  /\ Answered("lookup")
  /\ Remember(looked, Known)
  /\ looked' = NoChannel
  /\ call' = [call EXCEPT !["lookup"] = "idle"]
  /\ UNCHANGED <<pause, loop, listing, members, failed, told, shorter>>

Tick ==
  /\ pause' = Less(pause) /\ wait' = Less(wait)
  /\ cache' = [c \in Channels |-> IF cache[c] = NoEntry THEN NoEntry
                                  ELSE [cache[c] EXCEPT !.expires = Less(@)]]
  /\ told' = [t \in Tasks |-> Less(told[t])]
  /\ failed' = [c \in Channels |-> Less(failed[c])]
  /\ shorter' = (shorter /\ \E t \in Tasks : told'[t] > 0)
  /\ evicted' = {c \in evicted : failed'[c] > 0}
  /\ UNCHANGED <<slack, account, listing, session, authed, backoff, call, members, looked>>

Walking ==
  \/ ChannelPage \/ ChannelsRefused
  \/ HistoryBegins \/ HistoryPage \/ HistoryComplete \/ HistoryRefused

Next ==
  \/ Tick \/ Session \/ Walking \/ Named
  \/ \E t \in Tasks : Request(t)
  \/ \E c \in Busy : LookUp(c) \/ Join(c) \/ Leave(c)

Spec == Init /\ [][Next]_vars

\* Every request of a walk is answered or times out, and tasks that are ready are
\* polled.
Answer(w) ==
  \/ Request(w)
  \/ w = "session" /\ (ChannelPage \/ ChannelsRefused)
  \/ w = "recovery" /\ (HistoryPage \/ HistoryComplete \/ HistoryRefused)
FairSpec == Spec /\ \A w \in Walkers : WF_vars(Answer(w))

-----------------------------------------------------------------------------
(***************************************************************************)
(* Properties                                                              *)
(***************************************************************************)

\* The pages a walk gets to, if it goes on: those in every set of pages that
\* holds the first one and every page that a cursor of it leads to.
WholeLists == {P \in SUBSET DOMAIN slack.next :
                 1 \in P /\ \A p \in P : slack.next[p] # 0 => slack.next[p] \in P}
Reached == {p \in DOMAIN slack.next : \A P \in WholeLists : p \in P}

\* The pages a walk has asked for
Asked(w) == {1} \union walk[w].cursors

\* A walk over the channels that counts has asked for every page there is; what
\* it found are the listed channels that the account belonged to all the time,
\* and none that it never belonged to meanwhile.  Nothing else changes the
\* members, except that the consumer adds a channel the account belongs to: a
\* walk that fails, is interrupted, goes in circles or never ends does not.
WholeListing ==
  [][LET counts == session = "discover" /\ session' = "up"
     IN  /\ counts => /\ Asked("session") = Reached
                      /\ kept \intersect {slack.lists[p] : p \in Reached} \subseteq members'
                      /\ members' \subseteq held
         /\ members' # members =>
              counts \/ (session = "info" /\ \E c \in account : members' = members \union {c})]_vars

\* History counts as recovered only if every page of it was seen.
WholeHistory ==
  [][HistoryComplete =>
       walk["recovery"].got \union Lists("recovery") = {slack.lists[p] : p \in Reached}]_vars

\* Whoever was told to come back later does, although others ask and are told
\* something else meanwhile; only a later and shorter answer shortens the pause,
\* and none the sleep of the connection loop.
AskedWhenAllowed ==
  [][\A t \in Tasks : Send(t) => told[t] = 0 \/ (shorter /\ t # "session")]_vars

\* A channel is shown under its ID no longer than NEGATIVE_TTL after a look-up
\* failed, also when that look-up raced with a walk that knew the name.
FallbackIsShort ==
  \A c \in Channels :
    cache[c] # NoEntry /\ cache[c].value = "id" => cache[c].expires <= failed[c]

\* A look-up that failed is not repeated within NEGATIVE_TTL, paused or not,
\* unless the entry was evicted.
NotRepeated ==
  [][\A c \in Channels : LookUp(c) => failed[c] = 0 \/ c \in evicted]_vars

\* What keeps these: who was told to wait is kept waiting by the connection loop's
\* sleep or by the shared pause; a look-up that failed has left an entry.
Asking ==
  /\ call["session"] \in {"ready", "sent"} => session \in {"auth", "discover", "info"}
  /\ call["recovery"] # "off" => session \in {"discover", "up", "info"}
WaitsInv ==
  /\ told["session"] > 0 => session = "sleep" /\ wait >= told["session"]
  /\ \A t \in {"recovery", "lookup"} : told[t] > 0 => shorter \/ pause >= told[t]
  /\ Asking
NamesInv ==
  /\ call["lookup"] \in {"ready", "sent"} => looked \in Channels
  /\ \A c \in Channels :
       failed[c] > 0 => c \in evicted \/ (cache[c] # NoEntry /\ cache[c].expires >= failed[c])
\* A walk has followed the cursors of all pages it asked for but the last, and
\* has what they listed; a walk over channels, what the account still belongs to.
Behind(w) == Asked(w) \ {Page(w)}
WalkInv(w) ==
  /\ Page(w) \in Asked(w) /\ Asked(w) \subseteq Reached
  /\ \A p \in Behind(w) : slack.next[p] \in walk[w].cursors
  /\ walk[w].got \subseteq {slack.lists[p] : p \in Behind(w)}
  /\ (IF w = "session" THEN kept ELSE Channels) \intersect {slack.lists[p] : p \in Behind(w)}
       \subseteq walk[w].got
WalksInv == \A w \in Walkers : WalkInv(w)
\* The session's channels are within their limit, and a walk over channels finds
\* none that the account never belonged to meanwhile.
MembersInv ==
  /\ session = "discover" => account \subseteq held
  /\ walk["session"].got \subseteq held
  /\ Cardinality(walk["session"].got) <= MaxChannels
  /\ Cardinality(members) <= MaxChannels
Inv == TypeOK /\ WaitsInv /\ NamesInv /\ FallbackIsShort /\ WalksInv /\ MembersInv

\* A walk ends, whatever cursors Slack returns.
WalksEnd ==
  /\ session = "discover" ~> session # "discover"
  /\ call["recovery"] \in {"ready", "sent"} ~> call["recovery"] \in {"off", "idle"}
=============================================================================
