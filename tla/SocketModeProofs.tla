-------------------------- MODULE SocketModeProofs --------------------------
(***************************************************************************)
(* SocketMode: Inv is inductive, and the backend implements Intake until   *)
(* an event is forgotten.                                                  *)
(***************************************************************************)
EXTENDS SocketMode, TLAPS

Queued == [event : Messages, expires : Nat]

-----------------------------------------------------------------------------
(***************************************************************************)
(* The queue and the cache.                                                *)
(***************************************************************************)
LEMMA AppendQueue ==
  ASSUME queue \in Seq(Queued), NEW r \in Queued, queue' = Append(queue, r)
  PROVE  /\ InQueue' = InQueue \union {r.event}
         /\ Len(queue') = Len(queue) + 1
         /\ \A i \in 1..Len(queue) : queue'[i] = queue[i]
         /\ queue'[Len(queue')] = r
<1> USE DEF InQueue
<1>1. Len(queue) \in Nat /\ Len(queue') = Len(queue) + 1
  OBVIOUS
<1>2. (\A i \in 1..Len(queue) : queue'[i] = queue[i]) /\ queue'[Len(queue')] = r
  BY <1>1
<1>3. InQueue' \subseteq InQueue \union {r.event}
  <2>1. \A i \in 1..Len(queue') : i \in 1..Len(queue) \/ i = Len(queue')
    BY <1>1
  <2> QED BY <1>2, <2>1
<1>4. InQueue \union {r.event} \subseteq InQueue'
  <2>1. 1..Len(queue) \subseteq 1..Len(queue') /\ Len(queue') \in 1..Len(queue')
    BY <1>1
  <2> QED BY <1>2, <2>1
<1> QED BY <1>1, <1>2, <1>3, <1>4

LEMMA TailQueue ==
  ASSUME queue \in Seq(Queued), queue # <<>>, queue' = Tail(queue)
  PROVE  /\ Head(queue) \in Queued /\ Head(queue) = queue[1]
         /\ 1 \in 1..Len(queue) /\ Len(queue') < Len(queue)
         /\ InQueue = InQueue' \union {Head(queue).event}
         /\ \A i \in 1..Len(queue') : i + 1 \in 1..Len(queue) /\ queue'[i] = queue[i + 1]
<1> USE DEF InQueue
<1>1. /\ Len(queue) \in Nat /\ Len(queue) > 0 /\ Len(queue') = Len(queue) - 1
      /\ Head(queue) \in Queued /\ Head(queue) = queue[1]
  OBVIOUS
<1>2. \A i \in 1..Len(queue') : i + 1 \in 1..Len(queue) /\ queue'[i] = queue[i + 1]
  BY <1>1
<1>3. \A i \in 1..Len(queue) : i = 1 \/ (i - 1 \in 1..Len(queue') /\ queue'[i - 1] = queue[i])
  BY <1>1
<1>4. 1 \in 1..Len(queue)
  BY <1>1
<1> QED BY <1>1, <1>2, <1>3, <1>4, SMTT(40)

LEMMA EmptyQueue ==
  ASSUME queue' = <<>>
  PROVE  InQueue' = {}
BY DEF InQueue

LEMMA GetFacts ==
  ASSUME TypeOK, NEW m \in Messages
  PROVE  /\ C!AfterGet(seen, m, now) \in
              [Messages -> [value : {TRUE}, expires : Nat] \union {NoEntry}]
         /\ \A k \in Messages : k # m => C!AfterGet(seen, m, now)[k] = seen[k]
         /\ C!AfterGet(seen, m, now)[m] \in {seen[m], NoEntry}
BY DEF TypeOK, C!AfterGet, C!Live

-----------------------------------------------------------------------------
LEMMA InvInit == Init => Inv
<1> SUFFICES ASSUME Init PROVE Inv
  OBVIOUS
<1> USE DEF Init
<1>1. TypeOK
  BY BoundsAssumption DEF TypeOK, CallType, Idle, Phases, C!EmptyCache
<1>2. InQueue = {} /\ Held = {}
  BY DEF InQueue, Held
<1>3. CallsInTime /\ SessionOwns
  BY DEF CallsInTime, SessionOwns, Idle, Connected
<1>4. Remembered /\ Accounted /\ OnePlace /\ AdmittedOnce /\ AckedIsKept
  BY <1>2 DEF Remembered, Accounted, OnePlace, AdmittedOnce, AckedIsKept, C!EmptyCache
<1> QED BY <1>1, <1>3, <1>4 DEF Inv

-----------------------------------------------------------------------------
(***************************************************************************)
(* The end of a callback.                                                  *)
(***************************************************************************)
LEMMA OkFacts ==
  ASSUME TypeOK, CallsInTime, NEW c \in Calls, calls[c].step # "idle", Ok(c)
  PROVE  /\ calls' = [calls EXCEPT ![c] = Idle] /\ calls' \in [Calls -> CallType]
         /\ acked \subseteq acked' /\ acked' \subseteq acked \union {calls[c].event}
         /\ acked' \in SUBSET Messages /\ faults' \in Nat
<1>1. calls[c].event \in Messages
  BY DEF CallsInTime
<1>2. Idle \in CallType
  BY DEF Idle, CallType
<1> QED BY <1>1, <1>2 DEF TypeOK, Ok, Fault

LEMMA TypeStep == TypeOK /\ CallsInTime /\ [Next]_vars => TypeOK'
<1> SUFFICES ASSUME TypeOK, CallsInTime, [Next]_vars PROVE TypeOK'
  OBVIOUS
<1> USE BoundsAssumption DEF outside, slackVars, loopVars, workVars, history, vars
<1>1. ASSUME NEW c \in Calls, NEW e \in Messages, Deliver(c, e)
      PROVE  TypeOK'
  BY <1>1 DEF Deliver, TypeOK, CallType
<1>2. ASSUME NEW c \in Calls, Call(c)
      PROVE  TypeOK'
  <2>0. Idle \in CallType
    BY DEF Idle, CallType
  <2>2. CASE Refuse(c)
    <3>1. /\ calls' = [calls EXCEPT ![c] = Idle] /\ faults' \in Nat
          /\ UNCHANGED <<acked, now, sent, crashes, loopVars, workVars, seen, history>>
      BY <2>2 DEF Refuse, Retry, Fault, TypeOK
    <3> QED BY <2>0, <3>1 DEF TypeOK
  <2>3. CASE Enter(c)
    BY <2>3, ZenonT(40) DEF Enter, TypeOK, CallType
  <2>4. ASSUME Entered(c)
        PROVE  /\ calls[c].step # "idle" /\ calls[c].event \in Messages /\ calls[c].at \in Nat
               /\ UNCHANGED <<now, sent, crashes, session, phase, accepting, open, signal, job, done>>
    BY <2>4 DEF Entered, CallsInTime, TypeOK, CallType
  <2>5. CASE Duplicate(c)
    BY <2>4, <2>5, OkFacts DEF Duplicate, TypeOK
  <2>6. CASE Closed(c)
    BY <2>0, <2>4, <2>6, GetFacts DEF Closed, Retry, TypeOK
  <2>7. CASE Overflow(c)
    <3>1. lost' \in [Messages -> SUBSET Reasons]
      BY <2>7 DEF Overflow, Lost, Reasons, TypeOK
    <3> QED BY <2>4, <2>7, <3>1, OkFacts, GetFacts DEF Overflow, TypeOK
  <2>8. CASE Admit(c)
    <3> DEFINE e == calls[c].event
               r == [event |-> e, expires |-> calls[c].at + QueueAge]
    <3>1. /\ e \in Messages /\ r \in Queued /\ queue' = Append(queue, r)
          /\ Len(queue) < QueueBound
      BY <2>4, <2>8 DEF Admit, Queued
    <3>2. queue' \in Seq(Queued) /\ Len(queue') <= QueueBound
      BY <3>1 DEF TypeOK, Queued
    <3>3. PICK v : /\ v \in C!Victims(C!AfterGet(seen, e, now), e, Capacity)
                   /\ seen' = C!AfterInsert(C!AfterGet(seen, e, now), e,
                                            C!Entry(TRUE, now + DedupTTL), v)
                   /\ forgotten' = forgotten \union ({v} \ {e})
      BY <2>8 DEF Admit
    <3>4. v \in Messages
      BY <3>1, <3>3, GetFacts DEF C!Victims, C!Cached
    <3>5. seen' \in [Messages -> [value : {TRUE}, expires : Nat] \union {NoEntry}]
      <4>1. C!Entry(TRUE, now + DedupTTL) \in [value : {TRUE}, expires : Nat]
        BY DEF C!Entry, TypeOK
      <4> QED BY <3>1, <3>3, <3>4, <4>1, GetFacts DEF C!AfterInsert
    <3>6. taken' \in [Messages -> Nat]
      BY <2>8, <3>1 DEF Admit, TypeOK
    <3>7. lost' = lost /\ Ok(c)
      BY <2>8 DEF Admit
    <3>8. Entered(c)
      BY <2>8 DEF Admit
    <3> QED BY <2>4, <3>2, <3>3, <3>4, <3>5, <3>6, <3>7, <3>8, OkFacts DEF TypeOK, Queued
  <2> QED BY <1>2, <2>2, <2>3, <2>5, <2>6, <2>7, <2>8 DEF Call
<1>3. ASSUME NEW S \in SUBSET Messages, NEW r \in Reasons
      PROVE  Lost(S, r) \in [Messages -> SUBSET Reasons]
  BY <1>3 DEF Lost, TypeOK
<1>4. Held \subseteq Messages /\ InQueue \subseteq Messages
  <2>1. queue \in Seq(Queued) /\ job \in Messages \union {NoEvent}
    BY DEF TypeOK, Queued
  <2>2. \A i \in 1..Len(queue) : queue[i] \in Queued
    BY <2>1
  <2>3. \A i \in 1..Len(queue) : queue[i].event \in Messages
    BY <2>2 DEF Queued
  <2> QED BY <2>1, <2>3 DEF Held, InQueue
<1>5. CASE Worker
  <2>1. CASE Close
    BY <2>1 DEF Close, TypeOK
  <2>2. ASSUME queue # <<>>, queue' = Tail(queue)
        PROVE  /\ queue' \in Seq(Queued) /\ Len(queue') <= QueueBound
               /\ Head(queue) \in Queued
    <3>1. queue \in Seq(Queued) /\ Len(queue) <= QueueBound
      BY DEF TypeOK, Queued
    <3>2. queue' \in Seq(Queued) /\ Head(queue) \in Queued /\ Len(queue') < Len(queue)
      BY <2>2, <3>1, TailQueue
    <3>3. Len(queue) \in Nat /\ Len(queue') \in Nat
      BY <3>1, <3>2
    <3> QED BY <3>1, <3>2, <3>3, BoundsAssumption
  <2>3. CASE Expire
    <3>1. lost' \in [Messages -> SUBSET Reasons]
      BY <1>3, <2>2, <2>3 DEF Expire, Queued, Reasons
    <3> QED BY <2>2, <2>3, <3>1 DEF Expire, TypeOK, Queued
  <2>4. CASE Receive
    BY <2>2, <2>4 DEF Receive, TypeOK, Queued
  <2>5. CASE Handled
    <3>1. job \in Messages /\ lost' \in [Messages -> SUBSET Reasons]
      BY <1>3, <2>5 DEF Handled, Reasons, TypeOK
    <3>2. done' \in [Messages -> Nat] /\ faults' \in Nat
      BY <2>5, <3>1 DEF Handled, Fault, TypeOK
    <3> QED BY <2>5, <3>1, <3>2 DEF Handled, TypeOK
  <2> QED BY <1>5, <2>1, <2>3, <2>4, <2>5 DEF Worker
<1>6. CASE Restart \/ EndSession \/ ListenersClosed \/ Stop
  <2>1. CASE Restart
    <3>1. session' \in Nat /\ phase' \in Phases /\ accepting' = TRUE /\ open' = TRUE
      BY <2>1 DEF Restart, NewSession, TypeOK, Phases
    <3>2. UNCHANGED <<outside, calls, signal, workVars, seen, history, faults>>
      BY <2>1 DEF Restart
    <3> QED BY <3>1, <3>2 DEF TypeOK
  <2>2. CASE EndSession
    BY <2>2 DEF EndSession, TypeOK, Phases
  <2>3. CASE ListenersClosed
    BY <2>3 DEF ListenersClosed, TypeOK, Phases
  <2>4. CASE Stop
    BY <2>4 DEF Stop, TypeOK, Phases
  <2> QED BY <1>6, <2>1, <2>2, <2>3, <2>4
<1>7. CASE Drained \/ DrainTimeout
  <2>1. lost' \in [Messages -> SUBSET Reasons]
    BY <1>3, <1>4, <1>7 DEF Drained, DrainTimeout, Reasons, TypeOK
  <2>2. done' \in [Messages -> Nat]
    <3>1. \/ done' = done
          \/ job \in Messages /\ done' = [done EXCEPT ![job] = @ + 1]
      BY <1>7 DEF Drained, DrainTimeout, TypeOK
    <3>2. done \in [Messages -> Nat]
      BY DEF TypeOK
    <3> QED BY <3>1, <3>2
  <2>3. /\ queue' \in Seq(Queued) /\ Len(queue') <= QueueBound
        /\ job' = NoEvent /\ open' = FALSE /\ phase' \in Phases
        /\ UNCHANGED <<outside, calls, session, accepting, signal, seen, taken, forgotten, faults>>
    <3>1. AfterDrain
      BY <1>7 DEF Drained, DrainTimeout
    <3> QED BY <3>1 DEF AfterDrain, TypeOK, Phases
  <2> QED BY <2>1, <2>2, <2>3 DEF TypeOK, Queued
<1>8. CASE Crash
  <2>1. lost' \in [Messages -> SUBSET Reasons]
    BY <1>3, <1>4, <1>8 DEF Crash, Reasons
  <2>2. C!Cached(seen) \subseteq Messages
    BY DEF TypeOK, C!Cached
  <2>3. queue' \in Seq(Queued) /\ Len(queue') <= QueueBound
    BY <1>8 DEF Crash
  <2>4. calls' \in [Calls -> CallType]
    BY <1>8 DEF Crash, Idle, CallType
  <2>5. seen' \in [Messages -> [value : {TRUE}, expires : Nat] \union {NoEntry}]
    BY <1>8 DEF Crash, C!EmptyCache
  <2>6. /\ phase' \in Phases /\ accepting' = FALSE /\ open' = FALSE /\ signal' = "none"
        /\ job' = NoEvent /\ crashes' = crashes + 1
        /\ forgotten' = forgotten \union C!Cached(seen)
        /\ UNCHANGED <<now, slackVars, session, done, taken, faults>>
    BY <1>8 DEF Crash, Phases
  <2>7. crashes' \in Nat /\ forgotten' \in SUBSET Messages
    BY <2>2, <2>6 DEF TypeOK
  <2> QED BY <2>1, <2>3, <2>4, <2>5, <2>6, <2>7 DEF TypeOK, Queued
<1>9. CASE Signal \/ Boot \/ Tick \/ UNCHANGED vars
  <2>1. CASE Signal
    BY <2>1 DEF Signal, TypeOK
  <2>2. CASE Boot
    <3>1. session' \in Nat /\ phase' \in Phases /\ accepting' = TRUE /\ open' = TRUE
      BY <2>2 DEF Boot, NewSession, TypeOK, Phases
    <3>2. UNCHANGED <<outside, calls, signal, workVars, seen, history, faults>>
      BY <2>2 DEF Boot
    <3> QED BY <3>1, <3>2 DEF TypeOK
  <2>3. CASE Tick
    <3>1. now' \in Nat \ {0}
      BY <2>3 DEF Tick, TypeOK
    <3>2. UNCHANGED <<slackVars, crashes, calls, loopVars, workVars, seen, history, faults>>
      BY <2>3 DEF Tick
    <3> QED BY <3>1, <3>2 DEF TypeOK
  <2>4. CASE UNCHANGED vars
    BY <2>4 DEF TypeOK
  <2> QED BY <1>9, <2>1, <2>2, <2>3, <2>4
<1> QED BY <1>1, <1>2, <1>5, <1>6, <1>7, <1>8, <1>9 DEF Next, Loop

-----------------------------------------------------------------------------
(***************************************************************************)
(* The callbacks stay in time.                                             *)
(***************************************************************************)
LEMMA CallsStep == Inv /\ TypeOK' /\ [Next]_vars => CallsInTime'
<1> SUFFICES ASSUME Inv, TypeOK', [Next]_vars PROVE CallsInTime'
  OBVIOUS
<1>0. /\ CallsInTime /\ now \in Nat \ {0} /\ sent \in [Messages -> Nat]
      /\ calls \in [Calls -> CallType] /\ RetrySpan \in Nat
  BY BoundsAssumption DEF Inv, TypeOK
<1> USE DEF CallType, Idle, outside, slackVars, loopVars, workVars, history, vars
<1>1. ASSUME NEW d \in Calls, NEW e \in Messages, Deliver(d, e)
      PROVE  CallsInTime'
  <2>1. /\ calls' = [calls EXCEPT ![d] =
                       [step |-> "called", event |-> e, session |-> session, at |-> now]]
        /\ sent' = [sent EXCEPT ![e] = IF @ = 0 THEN now ELSE @]
        /\ now' = now /\ (sent[e] # 0 => now <= sent[e] + RetrySpan)
    BY <1>1 DEF Deliver
  <2>2. /\ \A x \in Messages : sent[x] # 0 => sent'[x] = sent[x]
        /\ sent'[e] # 0 /\ sent'[e] \in Nat /\ now <= sent'[e] + RetrySpan
    BY <1>0, <2>1
  <2>3. \A x \in Messages : sent'[x] <= now'
    BY <1>0, <2>1 DEF CallsInTime
  <2>4. ASSUME NEW c \in Calls, calls'[c].step # "idle"
        PROVE  /\ calls'[c].event \in Messages
               /\ (calls'[c].step = "entered" => calls'[c].event \in Messages)
               /\ sent'[calls'[c].event] # 0
               /\ calls'[c].at <= sent'[calls'[c].event] + RetrySpan
               /\ now' <= calls'[c].at + 1 /\ calls'[c].at <= now'
    <3>1. CASE c = d
      BY <1>0, <2>1, <2>2, <2>3, <3>1
    <3>2. CASE c # d
      <4>1. calls'[c] = calls[c] /\ calls[c].step # "idle"
        BY <1>0, <2>1, <2>4, <3>2
      <4>2. /\ calls[c].event \in Messages
            /\ (calls[c].step = "entered" => calls[c].event \in Messages)
            /\ sent[calls[c].event] # 0
            /\ calls[c].at <= sent[calls[c].event] + RetrySpan
            /\ now <= calls[c].at + 1 /\ calls[c].at <= now
        BY <1>0, <4>1 DEF CallsInTime
      <4> QED BY <2>1, <2>2, <4>1, <4>2
    <3> QED BY <3>1, <3>2
  <2> QED BY <2>3, <2>4 DEF CallsInTime
<1>2. ASSUME NEW d \in Calls, Call(d)
      PROVE  CallsInTime'
  <2>1. CASE Enter(d)
    BY <1>0, <2>1 DEF Enter, CallsInTime
  <2>2. CASE ~Enter(d)
    <3>1. calls' = [calls EXCEPT ![d] = Idle] /\ UNCHANGED <<now, sent>>
      BY <1>2, <2>2 DEF Call, Refuse, Duplicate, Admit, Overflow, Closed, Entered,
                        Ok, Retry
    <3> QED BY <1>0, <3>1 DEF CallsInTime
  <2> QED BY <2>1, <2>2
<1>3. CASE Tick
  BY <1>0, <1>3 DEF Tick, CallsInTime
<1>4. CASE Crash
  BY <1>0, <1>4 DEF Crash, CallsInTime
<1>5. CASE Worker \/ Loop \/ Signal \/ Boot \/ UNCHANGED vars
  <2>1. UNCHANGED <<now, sent, calls>>
    BY <1>5 DEF Worker, Close, Expire, Receive, Handled, Loop, Restart, EndSession,
                ListenersClosed, Drained, DrainTimeout, AfterDrain, Stop, Signal, Boot
  <2> QED BY <1>0, <2>1 DEF CallsInTime
<1> QED BY <1>1, <1>2, <1>3, <1>4, <1>5 DEF Next

LEMMA OwnsStep == Inv /\ TypeOK' /\ [Next]_vars => SessionOwns'
<1> SUFFICES ASSUME Inv, TypeOK', [Next]_vars PROVE SessionOwns'
  OBVIOUS
<1>0. SessionOwns /\ session \in Nat /\ calls \in [Calls -> CallType]
  BY DEF Inv, TypeOK
<1> USE DEF SessionOwns, Connected, outside, slackVars, loopVars, workVars, history, vars
<1>1. ASSUME NEW d \in Calls, (\E e \in Messages : Deliver(d, e)) \/ Call(d)
      PROVE  SessionOwns'
  <2>1. \A c \in Calls : calls'[c].session <= session'
    <3>1. CASE \E e \in Messages : Deliver(d, e)
      BY <1>0, <3>1 DEF Deliver, CallType
    <3>2. CASE Call(d)
      <4>0. /\ session' = session
            /\ \/ calls' = [calls EXCEPT ![d].step = "entered"]
               \/ calls' = [calls EXCEPT ![d] = Idle]
        BY <3>2 DEF Call, Refuse, Enter, Duplicate, Admit, Overflow, Closed,
                    Entered, Ok, Retry
      <4>1. session' = session /\ \A c \in Calls : calls'[c].session \in {calls[c].session, 0}
        <5>1. ASSUME NEW c \in Calls, c # d PROVE calls'[c] = calls[c]
          BY <1>0, <4>0, <5>1
        <5>2. calls[d] \in CallType /\ calls'[d] \in {Idle, [calls[d] EXCEPT !.step = "entered"]}
          BY <1>0, <4>0
        <5>3. calls'[d].session \in {calls[d].session, 0}
          BY <5>2 DEF CallType, Idle
        <5> QED BY <4>0, <5>1, <5>3
      <4> QED BY <1>0, <4>1 DEF CallType
    <3> QED BY <1>1, <3>1, <3>2
  <2>2. UNCHANGED <<accepting, phase, open, job>> /\ (queue' = queue \/ open)
    BY <1>1 DEF Deliver, Call, Refuse, Enter, Duplicate, Admit, Overflow, Closed,
                Entered, ChannelOpen
  <2> QED BY <1>0, <2>1, <2>2
<1>2. CASE Worker
  <2>1. CASE Close
    BY <1>0, <2>1 DEF Close
  <2>2. CASE Expire
    BY <1>0, <2>2 DEF Expire
  <2>3. CASE Receive
    BY <1>0, <2>3 DEF Receive
  <2>4. CASE Handled
    BY <1>0, <2>4 DEF Handled
  <2> QED BY <1>2, <2>1, <2>2, <2>3, <2>4 DEF Worker
<1>3. CASE Restart \/ Boot
  BY <1>0, <1>3 DEF Restart, Boot, NewSession, CallType
<1>4. CASE EndSession \/ ListenersClosed \/ Stop \/ Signal \/ Tick \/ UNCHANGED vars
  BY <1>0, <1>4 DEF EndSession, ListenersClosed, Stop, Signal, Tick
<1>5. CASE Drained \/ DrainTimeout
  <2>1. AfterDrain
    BY <1>5 DEF Drained, DrainTimeout
  <2> QED BY <1>0, <2>1 DEF AfterDrain
<1>6. CASE Crash
  BY <1>0, <1>6 DEF Crash, Idle
<1> QED BY <1>1, <1>2, <1>3, <1>4, <1>5, <1>6 DEF Next, Loop

-----------------------------------------------------------------------------
(***************************************************************************)
(* The messages: actions that touch none of them.                          *)
(***************************************************************************)
Messaging == Remembered /\ Accounted /\ OnePlace /\ AdmittedOnce /\ AckedIsKept

Quiet == /\ UNCHANGED <<workVars, seen, history>>
         /\ acked' \intersect Messages = acked \intersect Messages
         /\ \A e \in Messages : sent[e] # 0 => sent'[e] = sent[e]

LEMMA QuietStep ==
  ASSUME Inv, Quiet
  PROVE  Messaging'
<1> USE DEF Inv, Quiet, workVars, history
<1>1. InQueue' = InQueue /\ Held' = Held
  BY DEF InQueue, Held
<1>2. Remembered'
  BY DEF Remembered
<1>3. Accounted' /\ AdmittedOnce' /\ AckedIsKept'
  BY <1>1 DEF Accounted, AdmittedOnce, AckedIsKept
<1>4. OnePlace'
  BY <1>1 DEF OnePlace
<1> QED BY <1>2, <1>3, <1>4 DEF Messaging

LEMMA QuietActions ==
  ASSUME Inv, [Next]_vars
  PROVE  \/ Quiet
         \/ \E c \in Calls : Duplicate(c) \/ Admit(c) \/ Overflow(c) \/ Closed(c)
         \/ Expire \/ Receive \/ Handled \/ Drained \/ DrainTimeout \/ Crash
<1> USE DEF outside, slackVars, loopVars, workVars, history, vars
<1>0. sent \in [Messages -> Nat]
  BY EventsAssumption DEF Inv, TypeOK
<1>1. ASSUME NEW c \in Calls, NEW e \in Messages, Deliver(c, e)
      PROVE  Quiet
  BY <1>0, <1>1 DEF Deliver, Quiet
<1>3. ASSUME NEW c \in Calls, Refuse(c) \/ Enter(c) PROVE Quiet
  BY <1>3 DEF Refuse, Retry, Enter, Quiet
<1>4. CASE Close \/ Restart \/ EndSession \/ ListenersClosed \/ Stop
  BY <1>4 DEF Close, Restart, EndSession, ListenersClosed, Stop, Quiet
<1>5. CASE Signal \/ Boot \/ Tick \/ UNCHANGED vars
  BY <1>5 DEF Signal, Boot, Tick, Quiet
<1> QED BY <1>1, <1>3, <1>4, <1>5 DEF Next, Worker, Loop, Call

-----------------------------------------------------------------------------
(***************************************************************************)
(* Under the lock: what is not in the cache was never taken, or forgotten. *)
(***************************************************************************)
LEMMA EnteredFacts ==
  ASSUME Inv, NEW c \in Calls, Entered(c)
  PROVE  LET e == calls[c].event IN
         /\ e \in Messages /\ calls[c].step # "idle" /\ calls[c].at \in Nat
         /\ (~C!Live(seen, e, now) => taken[e] = 0 \/ e \in forgotten)
         /\ (C!Live(seen, e, now) => taken[e] > 0)
         /\ UNCHANGED <<now, sent, job, done>>
<1> DEFINE e == calls[c].event
<1>1. /\ e \in Messages /\ calls[c].step # "idle" /\ calls[c].at \in Nat /\ e \in Messages
      /\ UNCHANGED <<now, sent, job, done>>
  BY DEF Entered, Inv, TypeOK, CallType, CallsInTime
<1>2. now <= sent[e] + RetrySpan + 1 /\ sent[e] \in Nat /\ now \in Nat
  BY <1>1, BoundsAssumption DEF Inv, TypeOK, CallsInTime
<1>3. ASSUME taken[e] # 0, e \notin forgotten PROVE C!Live(seen, e, now)
  <2>1. seen[e] # NoEntry /\ seen[e].expires >= sent[e] + DedupTTL /\ seen[e].expires \in Nat
    <3>1. taken[e] \in Nat /\ seen[e] \in [value : {TRUE}, expires : Nat] \union {NoEntry}
      BY <1>1 DEF Inv, TypeOK
    <3>2. taken[e] > 0
      BY <1>3, <3>1
    <3>3. seen[e] # NoEntry /\ seen[e].expires >= sent[e] + DedupTTL
      BY <1>1, <1>3, <3>2 DEF Inv, Remembered
    <3> QED BY <3>1, <3>3
  <2> QED BY <1>2, <2>1, BoundsAssumption, RetryAssumption DEF C!Live
<1>4. C!Live(seen, e, now) => taken[e] > 0
  BY <1>1 DEF C!Live, Inv, Remembered
<1> QED BY <1>1, <1>3, <1>4

LEMMA DuplicateStep ==
  ASSUME Inv, NEW c \in Calls, Duplicate(c)
  PROVE  Messaging'
<1> DEFINE e == calls[c].event
<1>1. /\ e \in Messages /\ taken[e] > 0
      /\ UNCHANGED <<sent, queue, job, seen, done, taken, lost, forgotten>>
      /\ acked' \subseteq acked \union {e}
  BY EnteredFacts, OkFacts DEF Duplicate, Inv
<1>2. InQueue' = InQueue /\ Held' = Held
  BY <1>1 DEF InQueue, Held
<1>3. Remembered' /\ OnePlace' /\ Accounted' /\ AdmittedOnce'
  BY <1>1, <1>2 DEF Inv, Remembered, OnePlace, Accounted, AdmittedOnce
<1>4. AckedIsKept'
  BY <1>1, <1>2 DEF Inv, Accounted, AckedIsKept
<1> QED BY <1>3, <1>4 DEF Messaging

\* Overflow and Closed: the cache loses at most an entry that was forgotten.
LEMMA RefusedStep ==
  ASSUME Inv, NEW c \in Calls, Overflow(c) \/ Closed(c)
  PROVE  Messaging'
<1> DEFINE e == calls[c].event
<1>1. /\ e \in Messages /\ (taken[e] = 0 \/ e \in forgotten) /\ Entered(c)
      /\ seen' = C!AfterGet(seen, e, now)
      /\ UNCHANGED <<sent, queue, job, done, taken, forgotten>>
  BY EnteredFacts DEF Overflow, Closed
<1>2. InQueue' = InQueue /\ Held' = Held
  BY <1>1 DEF InQueue, Held
<1>3. /\ \A k \in Messages : k # e => seen'[k] = seen[k]
      /\ seen'[e] \in {seen[e], NoEntry}
  BY <1>1, GetFacts DEF Inv
<1>4. Remembered'
  BY <1>1, <1>3 DEF Inv, Remembered
<1>5. OnePlace' /\ AdmittedOnce'
  BY <1>1, <1>2 DEF Inv, OnePlace, AdmittedOnce
<1>6. \A m \in Messages : lost[m] \subseteq lost'[m]
  BY <1>1 DEF Overflow, Closed, Lost, Inv, TypeOK
<1>7. Accounted'
  BY <1>1, <1>2, <1>6 DEF Inv, Accounted
<1>8. AckedIsKept'
  <2>1. CASE Closed(c)
    BY <1>1, <1>2, <1>6, <2>1 DEF Closed, Retry, Inv, AckedIsKept
  <2>2. CASE Overflow(c)
    <3>1. acked' \subseteq acked \union {e}
      BY <1>1, <2>2, OkFacts, EnteredFacts DEF Overflow, Inv
    <3>2. lost'[e] # {}
      BY <1>1, <2>2 DEF Overflow, Lost
    <3> QED BY <1>1, <1>2, <1>6, <3>1, <3>2 DEF Inv, AckedIsKept
  <2> QED BY <2>1, <2>2
<1> QED BY <1>4, <1>5, <1>7, <1>8 DEF Messaging

LEMMA AdmitStep ==
  ASSUME Inv, TypeOK', NEW c \in Calls, Admit(c)
  PROVE  Messaging' /\ InQueue' = InQueue \union {calls[c].event}
<1> DEFINE e == calls[c].event
           r == [event |-> e, expires |-> calls[c].at + QueueAge]
           visited == C!AfterGet(seen, e, now)
<1>1. /\ e \in Messages /\ (taken[e] = 0 \/ e \in forgotten) /\ Entered(c) /\ Ok(c)
      /\ queue' = Append(queue, r) /\ taken' = [taken EXCEPT ![e] = @ + 1]
      /\ UNCHANGED <<now, sent, job, done, lost>> /\ calls[c].step # "idle"
      /\ calls[c].at \in Nat
  BY EnteredFacts DEF Admit
<1>2. PICK v : /\ v \in C!Victims(visited, e, Capacity)
               /\ seen' = C!AfterInsert(visited, e, C!Entry(TRUE, now + DedupTTL), v)
               /\ forgotten' = forgotten \union ({v} \ {e})
  BY DEF Admit
<1>3. queue \in Seq(Queued) /\ r \in Queued
  BY <1>1, BoundsAssumption DEF Inv, TypeOK, Queued
<1>4. /\ InQueue' = InQueue \union {e}
      /\ Len(queue') = Len(queue) + 1 /\ Len(queue) \in Nat
      /\ \A i \in 1..Len(queue) : queue'[i] = queue[i]
      /\ queue'[Len(queue')].event = e
  BY <1>1, <1>3, AppendQueue
<1>5. Held' = Held \union {e}
  BY <1>1, <1>4, EventsAssumption DEF Held
<1>6. taken[e] = 0 => e \notin Held /\ done[e] = 0
  <2>1. done[e] \in Nat /\ taken[e] \in Nat
    BY <1>1 DEF Inv, TypeOK
  <2> QED BY <1>1, <2>1 DEF Inv, Accounted
<1>7. Remembered'
  <2>1. v \in Messages
    BY <1>1, <1>2, GetFacts DEF C!Victims, C!Cached, Inv
  <2>2. /\ seen'[e] = C!Entry(TRUE, now + DedupTTL)
        /\ \A k \in Messages : k # e => seen'[k] = IF k = v THEN NoEntry ELSE seen[k]
    BY <1>1, <1>2, <2>1, GetFacts DEF C!AfterInsert, Inv
  <2>3. seen'[e] # NoEntry /\ seen'[e].expires >= sent'[e] + DedupTTL /\ sent'[e] # 0
    <3>1. sent[e] <= now /\ sent[e] # 0 /\ sent[e] \in Nat /\ now \in Nat /\ e \in Messages
      BY <1>1 DEF Inv, CallsInTime, TypeOK
    <3>2. seen'[e].expires = now + DedupTTL
      BY <2>2 DEF C!Entry
    <3>3. seen'[e] # NoEntry
      <4>1. C!Entry(TRUE, now + DedupTTL) \in [value : {TRUE}, expires : Nat]
        BY <3>1, BoundsAssumption DEF C!Entry
      <4> QED BY <2>2, <4>1, CacheAssumption
    <3> QED BY <1>1, <3>1, <3>2, <3>3, BoundsAssumption
  <2>4. taken'[e] > 0 /\ \A k \in Messages : k # e => taken'[k] = taken[k]
    BY <1>1 DEF Inv, TypeOK
  <2> QED BY <1>1, <1>2, <2>2, <2>3, <2>4 DEF Inv, Remembered
<1>8. Accounted'
  <2>1. \A m \in Messages : m # e => taken'[m] = taken[m]
    BY <1>1 DEF Inv, TypeOK
  <2>2. taken'[e] > 0 /\ e \in Held'
    BY <1>1, <1>5 DEF Inv, TypeOK
  <2> QED BY <1>1, <1>5, <2>1, <2>2 DEF Inv, Accounted
<1>9. OnePlace'
  <2>1. \A i, j \in 1..Len(queue') :
          queue'[i].event = queue'[j].event => i = j \/ queue'[i].event \in forgotten'
    <3>1. \A i \in 1..Len(queue') : i \in 1..Len(queue) \/ i = Len(queue')
      BY <1>4
    <3>2. \A i \in 1..Len(queue) : queue[i].event = e => e \in forgotten
      BY <1>1, <1>6 DEF InQueue, Held
    <3> QED BY <1>2, <1>4, <3>1, <3>2 DEF Inv, OnePlace
  <2>2. job' \in InQueue' => job' \in forgotten'
    BY <1>1, <1>2, <1>4, <1>6, EventsAssumption DEF Inv, OnePlace, Held
  <2>3. \A m \in Held' : done'[m] = 0 \/ m \in forgotten'
    BY <1>1, <1>2, <1>5, <1>6 DEF Inv, OnePlace
  <2> QED BY <2>1, <2>2, <2>3 DEF OnePlace
<1>10. AdmittedOnce'
  BY <1>1, <1>2 DEF Inv, AdmittedOnce, TypeOK
<1>11. AckedIsKept'
  <2>1. acked' \subseteq acked \union {e}
    BY <1>1, OkFacts DEF Inv
  <2> QED BY <1>1, <1>5, <2>1 DEF Inv, AckedIsKept
<1> QED BY <1>4, <1>7, <1>8, <1>9, <1>10, <1>11 DEF Messaging

-----------------------------------------------------------------------------
(***************************************************************************)
(* The worker and the end of a session.                                    *)
(***************************************************************************)
LEMMA ExpireStep ==
  ASSUME Inv, Expire
  PROVE  Messaging' /\ lost'[Head(queue).event] # {} /\ Head(queue).event \in Messages
         /\ Held = Held' \union {Head(queue).event}
<1> DEFINE e == Head(queue).event
<1>0. queue \in Seq(Queued)
  BY DEF Inv, TypeOK, Queued
<1>1. /\ queue # <<>> /\ queue' = Tail(queue) /\ lost' = Lost({e}, "expired")
      /\ acked' = acked /\ UNCHANGED <<sent, job, seen, done, taken, forgotten>>
  BY DEF Expire, outside, slackVars
<1>2. /\ e \in Messages /\ e = queue[1].event
      /\ 1 \in 1..Len(queue) /\ Len(queue') < Len(queue)
      /\ InQueue = InQueue' \union {e}
      /\ \A i \in 1..Len(queue') : i + 1 \in 1..Len(queue) /\ queue'[i] = queue[i + 1]
  BY <1>0, <1>1, TailQueue DEF Queued
<1>3. Held = Held' \union {e}
  BY <1>1, <1>2, EventsAssumption DEF Held
<1>4. lost'[e] # {} /\ \A m \in Messages : lost[m] \subseteq lost'[m]
  BY <1>1, <1>2 DEF Lost
<1>5. Remembered' /\ AdmittedOnce'
  BY <1>1 DEF Inv, Remembered, AdmittedOnce
<1>6. Accounted' /\ AckedIsKept'
  BY <1>1, <1>2, <1>3, <1>4 DEF Inv, Accounted, AckedIsKept
<1>7. OnePlace'
  <2>1. \A i, j \in 1..Len(queue') :
          queue'[i].event = queue'[j].event => i = j \/ queue'[i].event \in forgotten'
    BY <1>1, <1>2 DEF Inv, OnePlace
  <2> QED BY <1>1, <1>2, <1>3, <2>1 DEF Inv, OnePlace
<1> QED BY <1>2, <1>3, <1>4, <1>5, <1>6, <1>7 DEF Messaging

LEMMA ReceiveStep ==
  ASSUME Inv, Receive
  PROVE  Messaging' /\ Held' = Held
<1> DEFINE e == Head(queue).event
<1>0. queue \in Seq(Queued)
  BY DEF Inv, TypeOK, Queued
<1>1. /\ queue # <<>> /\ queue' = Tail(queue) /\ job' = e /\ job = NoEvent
      /\ acked' = acked /\ UNCHANGED <<sent, seen, history>>
  BY DEF Receive, Receiving, outside, slackVars
<1>2. /\ e \in Messages /\ e = queue[1].event
      /\ 1 \in 1..Len(queue) /\ Len(queue') < Len(queue)
      /\ InQueue = InQueue' \union {e}
      /\ \A i \in 1..Len(queue') : i + 1 \in 1..Len(queue) /\ queue'[i] = queue[i + 1]
  BY <1>0, <1>1, TailQueue DEF Queued
<1>3. Held' = Held
  BY <1>1, <1>2, EventsAssumption DEF Held
<1>4. Remembered' /\ AdmittedOnce' /\ Accounted' /\ AckedIsKept'
  BY <1>1, <1>3 DEF Inv, Remembered, AdmittedOnce, Accounted, AckedIsKept, history
<1>5. OnePlace'
  <2>1. \A i, j \in 1..Len(queue') :
          queue'[i].event = queue'[j].event => i = j \/ queue'[i].event \in forgotten'
    BY <1>1, <1>2 DEF Inv, OnePlace, history
  <2>2. job' \in InQueue' => job' \in forgotten'
    <3>1. SUFFICES ASSUME NEW i \in 1..Len(queue'), queue'[i].event = e
                   PROVE  e \in forgotten
      BY <1>1 DEF InQueue, history
    <3>2. i + 1 \in 1..Len(queue) /\ queue[i + 1].event = queue[1].event /\ i + 1 # 1
      BY <1>2, <3>1
    <3> QED BY <1>2, <3>2 DEF Inv, OnePlace
  <2>3. \A m \in Held' : done'[m] = 0 \/ m \in forgotten'
    BY <1>1, <1>3 DEF Inv, OnePlace, history
  <2> QED BY <2>1, <2>2, <2>3 DEF OnePlace
<1> QED BY <1>3, <1>4, <1>5 DEF Messaging

LEMMA HandledStep ==
  ASSUME Inv, Handled
  PROVE  Messaging' /\ InQueue' = InQueue /\ Held' = InQueue
<1>0. job \in Messages /\ done \in [Messages -> Nat] /\ job # NoEvent
  BY DEF Handled, Inv, TypeOK
<1>1. /\ job' = NoEvent /\ acked' = acked
      /\ UNCHANGED <<sent, queue, seen, taken, forgotten>>
  BY DEF Handled, outside, slackVars
<1>2. InQueue' = InQueue /\ Held' = InQueue /\ Held = InQueue \union {job}
  BY <1>0, <1>1 DEF Held, InQueue
<1>3. /\ \A m \in Messages : lost[m] \subseteq lost'[m]
      /\ \A m \in Messages : done'[m] >= done[m] /\ (m # job => done'[m] = done[m])
      /\ done'[job] > 0 \/ lost'[job] # {}
  BY <1>0 DEF Handled, Lost
<1>4. Remembered' /\ AdmittedOnce'
  BY <1>1 DEF Inv, Remembered, AdmittedOnce
<1>5. Accounted' /\ AckedIsKept'
  BY <1>0, <1>1, <1>2, <1>3 DEF Inv, Accounted, AckedIsKept
<1>6. OnePlace'
  <2>1. \A m \in Held' : done'[m] = 0 \/ m \in forgotten'
    <3>1. Held' \subseteq Messages
      <4>1. queue \in Seq(Queued)
        BY DEF Inv, TypeOK, Queued
      <4>2. \A i \in 1..Len(queue) : queue[i] \in Queued
        BY <4>1
      <4>3. \A i \in 1..Len(queue) : queue[i].event \in Messages
        BY <4>2 DEF Queued
      <4> QED BY <1>2, <4>3 DEF InQueue
    <3> QED BY <1>0, <1>1, <1>2, <1>3, <3>1 DEF Inv, OnePlace
  <2>2. \A i, j \in 1..Len(queue') :
          queue'[i].event = queue'[j].event => i = j \/ queue'[i].event \in forgotten'
    BY <1>1 DEF Inv, OnePlace
  <2>3. NoEvent \notin InQueue'
    <3>1. queue \in Seq(Queued)
      BY DEF Inv, TypeOK, Queued
    <3>2. \A i \in 1..Len(queue) : queue[i] \in Queued
      BY <3>1
    <3> QED BY <1>1, <3>2, EventsAssumption DEF InQueue, Queued
  <2> QED BY <1>1, <2>1, <2>2, <2>3 DEF OnePlace
<1> QED BY <1>2, <1>4, <1>5, <1>6 DEF Messaging

LEMMA DrainStep ==
  ASSUME Inv, Drained \/ DrainTimeout
  PROVE  Messaging' /\ InQueue' = {} /\ Held' = {}
<1>1. /\ queue' = <<>> /\ job' = NoEvent /\ acked' = acked
      /\ UNCHANGED <<sent, seen, taken, forgotten>>
  BY DEF Drained, DrainTimeout, AfterDrain, outside, slackVars
<1>2. InQueue' = {} /\ Held' = {} /\ Len(queue') = 0
  BY <1>1, EmptyQueue DEF Held
<1>3. \A m \in Messages : /\ lost[m] \subseteq lost'[m] /\ done'[m] >= done[m]
                          /\ (m \in Held => done'[m] > 0 \/ lost'[m] # {})
  <2>0. done \in [Messages -> Nat] /\ job \in Messages \union {NoEvent}
    BY DEF Inv, TypeOK
  <2>1. CASE Drained
    BY <2>0, <2>1 DEF Drained, Held, InQueue
  <2>2. CASE DrainTimeout
    BY <2>0, <2>2 DEF DrainTimeout, Lost, Held
  <2> QED BY <2>1, <2>2
<1>4. Remembered' /\ AdmittedOnce'
  BY <1>1 DEF Inv, Remembered, AdmittedOnce
<1>5. Accounted' /\ AckedIsKept'
  <2>1. \A m \in Messages : done'[m] > 0 => taken[m] > 0
    <3>0. done \in [Messages -> Nat] /\ taken \in [Messages -> Nat] /\ job \in Messages \union {NoEvent}
      BY DEF Inv, TypeOK
    <3>1. \A m \in Messages : done'[m] = done[m] \/ m \in Held
      BY <3>0 DEF Drained, DrainTimeout, Held
    <3> QED BY <3>0, <3>1 DEF Inv, Accounted
  <2>2. \A m \in Messages : done[m] > 0 => done'[m] > 0
    <3>1. ASSUME NEW m \in Messages, done[m] > 0 PROVE done'[m] > 0
      <4>1. done[m] \in Nat /\ (done'[m] = done[m] \/ done'[m] = done[m] + 1)
        <5>1. done \in [Messages -> Nat]
          BY DEF Inv, TypeOK
        <5> QED BY <5>1 DEF Drained, DrainTimeout
      <4> QED BY <3>1, <4>1
    <3> QED BY <3>1
  <2> QED BY <1>1, <1>2, <1>3, <2>1, <2>2 DEF Inv, Accounted, AckedIsKept
<1>6. OnePlace'
  BY <1>1, <1>2 DEF OnePlace
<1> QED BY <1>2, <1>4, <1>5, <1>6 DEF Messaging

LEMMA CrashStep ==
  ASSUME Inv, Crash
  PROVE  Messaging'
<1>1. /\ queue' = <<>> /\ job' = NoEvent /\ acked' = acked
      /\ seen' = C!EmptyCache(Messages) /\ forgotten' = forgotten \union C!Cached(seen)
      /\ lost' = Lost(Held, "crash") /\ UNCHANGED <<sent, done, taken>>
  BY DEF Crash, slackVars
<1>2. InQueue' = {} /\ Held' = {} /\ Len(queue') = 0
  BY <1>1, EmptyQueue DEF Held
<1>3. \A m \in Messages : lost[m] \subseteq lost'[m] /\ (m \in Held => lost'[m] # {})
  BY <1>1 DEF Lost
<1>4. Remembered'
  BY <1>1 DEF Inv, Remembered, TypeOK, C!EmptyCache, C!Cached
<1>5. AdmittedOnce' /\ OnePlace'
  BY <1>1, <1>2 DEF Inv, AdmittedOnce, OnePlace
<1>6. Accounted' /\ AckedIsKept'
  BY <1>1, <1>2, <1>3 DEF Inv, Accounted, AckedIsKept
<1> QED BY <1>4, <1>5, <1>6 DEF Messaging

LEMMA InvStep == Inv /\ [Next]_vars => Inv'
<1> SUFFICES ASSUME Inv, [Next]_vars PROVE Inv'
  OBVIOUS
<1>1. TypeOK'
  BY TypeStep DEF Inv
<1>2. CallsInTime' /\ SessionOwns'
  BY <1>1, CallsStep, OwnsStep
<1>3. Messaging'
  BY <1>1, QuietActions, QuietStep, DuplicateStep, RefusedStep, AdmitStep, ExpireStep,
     ReceiveStep, HandledStep, DrainStep, CrashStep
<1> QED BY <1>1, <1>2, <1>3 DEF Inv, Messaging

\* Type correctness, what the callbacks, the cache, the queue and the history
\* agree on, in every state.
THEOREM InvInvariant == Spec => []Inv
<1> QED BY InvInit, InvStep, PTL DEF Spec

\* No event is admitted twice unless it was forgotten.
THEOREM AdmittedOnceInvariant == Spec => []AdmittedOnce
<1>1. Inv => AdmittedOnce
  BY DEF Inv
<1> QED BY <1>1, InvInvariant, PTL

\* No event is acknowledged whose message is not held, handled or discarded.
THEOREM AckedIsKeptInvariant == Spec => []AckedIsKept
<1>1. Inv => AckedIsKept
  BY DEF Inv
<1> QED BY <1>1, InvInvariant, PTL

\* Only what was taken is remembered.
THEOREM RememberedWasTakenInvariant == Spec => []RememberedWasTaken
<1>1. Inv => RememberedWasTaken
  BY DEF Inv, Remembered, RememberedWasTaken
<1> QED BY <1>1, InvInvariant, PTL

-----------------------------------------------------------------------------
(***************************************************************************)
(* The refinement: every step is one of Intake or changes neither the fate *)
(* of a message nor what Slack was told.                                   *)
(***************************************************************************)
fate == [m \in Messages |-> Fate(m)]
told == acked \intersect Messages

LEMMA HeldMessages ==
  ASSUME TypeOK
  PROVE  Held \subseteq Messages
<1>1. queue \in Seq(Queued) /\ job \in Messages \union {NoEvent}
  BY DEF TypeOK, Queued
<1>2. \A k \in 1..Len(queue) : queue[k] \in Queued
  BY <1>1
<1> QED BY <1>1, <1>2 DEF Held, InQueue, Queued

LEMMA SameFate ==
  ASSUME Held' = Held, UNCHANGED <<done, lost, taken>>
  PROVE  fate' = fate
BY DEF fate, Fate

LEMMA OkAnswers ==
  ASSUME NEW c \in Calls, Ok(c), calls[c].event \in Messages
  PROVE  told' \in {told, told \union {calls[c].event}}
BY DEF Ok, told

\* A message is of a fate in Taken if and only if it was taken.
LEMMA TakenFate ==
  ASSUME Inv, NEW m \in Messages
  PROVE  /\ fate[m] \in Promise!Taken <=> taken[m] > 0
         /\ taken[m] = 0 => m \notin Held /\ done[m] = 0
<1>1. taken[m] \in Nat /\ done[m] \in Nat
  BY DEF Inv, TypeOK
<1> QED BY <1>1 DEF Inv, Accounted, fate, Fate, Promise!Taken

\* Messages leave the places where they may be: those with rows are handled,
\* the others are lost.
LEMMA SettleStep ==
  ASSUME Inv, Inv', UNCHANGED <<acked, taken>>, forgotten \subseteq forgotten',
         Held' \subseteq Held,
         \A m \in Messages : m \notin Held => done'[m] = done[m] /\ lost'[m] = lost[m]
  PROVE  Promise!INext
<1> DEFINE H == {m \in Held \ Held' : done'[m] > 0}
           L == {m \in Held \ Held' : ~(done'[m] > 0)}
<1>1. Held \subseteq Messages
  BY HeldMessages DEF Inv
<1>2. \A m \in Held : taken[m] > 0
  BY <1>1 DEF Inv, Accounted
<1>3. fate' = [m \in Messages |-> IF m \in H THEN "handled"
                                  ELSE IF m \in L THEN "lost" ELSE fate[m]]
  <2>1. ASSUME NEW m \in Messages
        PROVE  Fate(m)' = IF m \in H THEN "handled"
                          ELSE IF m \in L THEN "lost" ELSE Fate(m)
    <3>1. CASE m \notin Held
      BY <3>1 DEF Fate
    <3>2. CASE m \in Held'
      BY <3>2 DEF Fate
    <3>3. CASE m \in Held \ Held'
      BY <1>2, <3>3 DEF Fate
    <3> QED BY <3>1, <3>2, <3>3
  <2> HIDE DEF H, L
  <2> QED BY <2>1 DEF fate
<1>4. \A m \in H \union L : fate[m] = "held"
  BY <1>1 DEF fate, Fate
<1>5. H \intersect L = {} /\ H \in SUBSET Messages /\ L \in SUBSET Messages
  BY <1>1
<1> HIDE DEF H, L
<1>6. Promise!Settle(H, L)
  BY <1>3, <1>4, <1>5 DEF Promise!Settle, fate, told
<1> QED BY <1>5, <1>6 DEF Promise!INext

LEMMA DuplicateAnswers ==
  ASSUME Inv, NEW c \in Calls, Duplicate(c)
  PROVE  Promise!INext
<1> DEFINE e == calls[c].event
<1>1. /\ e \in Messages /\ taken[e] > 0 /\ Ok(c)
      /\ UNCHANGED <<queue, job, done, lost, taken, forgotten>>
  BY EnteredFacts DEF Duplicate
<1>2. Held' = Held
  BY <1>1 DEF Held, InQueue
<1>3. fate' = fate /\ told' \in {told, told \union {e}} /\ fate[e] \in Promise!Taken
  BY <1>1, <1>2, SameFate, OkAnswers, TakenFate
<1>4. Promise!Repeat(e)
  BY <1>3 DEF Promise!Repeat, Promise!Answer, fate, told
<1> QED BY <1>1, <1>4 DEF Promise!INext

LEMMA AdmitTakes ==
  ASSUME Inv, Inv', NEW c \in Calls, Admit(c)
  PROVE  Promise!INext
<1> DEFINE e == calls[c].event
<1>1. /\ e \in Messages /\ (taken[e] = 0 \/ e \in forgotten) /\ Ok(c)
      /\ UNCHANGED <<job, done, lost>> /\ taken' = [taken EXCEPT ![e] = @ + 1]
      /\ forgotten \subseteq forgotten'
  BY EnteredFacts DEF Admit
<1>2. Held' = Held \union {e}
  BY <1>1, AdmitStep, EventsAssumption DEF Held, Inv
<1>3. \A m \in Messages : m # e => taken'[m] = taken[m]
  BY <1>1 DEF Inv, TypeOK
<1>4. fate' = [fate EXCEPT ![e] = "held"]
  BY <1>1, <1>2, <1>3 DEF fate, Fate
<1>5. fate[e] \notin Promise!Taken \/ e \in forgotten
  <2>1. taken[e] = 0 => ~(taken[e] > 0)
    OBVIOUS
  <2> QED BY <1>1, <2>1, TakenFate
<1>6. told' \in {told, told \union {e}}
  BY <1>1, OkAnswers
<1>7. Promise!Take(e)
  BY <1>4, <1>5, <1>6 DEF Promise!Take, Promise!Answer, fate, told
<1> QED BY <1>1, <1>7 DEF Promise!INext

LEMMA OverflowGivesUp ==
  ASSUME Inv, NEW c \in Calls, Overflow(c)
  PROVE  Promise!INext
<1> DEFINE e == calls[c].event
<1>1. /\ e \in Messages /\ Ok(c)
      /\ UNCHANGED <<queue, job, done, taken, forgotten>> /\ lost' = Lost({e}, "full")
  BY EnteredFacts DEF Overflow
<1>2. Held' = Held /\ told' \in {told, told \union {e}}
  BY <1>1, OkAnswers DEF Held, InQueue
<1>3. lost'[e] # {} /\ \A m \in Messages : m # e => lost'[m] = lost[m]
  BY <1>1 DEF Lost
<1>4. CASE taken[e] > 0
  <2>1. fate' = fate
    BY <1>1, <1>2, <1>3, <1>4 DEF fate, Fate
  <2>2. Promise!Repeat(e)
    BY <1>1, <1>2, <1>4, <2>1, TakenFate DEF Promise!Repeat, Promise!Answer, fate, told
  <2> QED BY <1>1, <2>2 DEF Promise!INext
<1>5. CASE ~(taken[e] > 0)
  <2>1. e \notin Held /\ done[e] = 0
    <3>1. taken[e] \in Nat
      BY <1>1 DEF Inv, TypeOK
    <3>2. taken[e] = 0
      BY <1>5, <3>1
    <3> QED BY <1>1, <3>2, TakenFate
  <2>2. fate' = [fate EXCEPT ![e] = "refused"]
    <3>1. \A m \in Messages : m = e => Fate(m)' = "refused"
      BY <1>1, <1>2, <1>3, <1>5, <2>1 DEF Fate
    <3>2. \A m \in Messages : m # e => Fate(m)' = Fate(m)
      BY <1>1, <1>2, <1>3 DEF Fate
    <3> QED BY <1>1, <3>1, <3>2 DEF fate
  <2>3. fate[e] \notin Promise!Taken
    BY <1>1, <1>5, TakenFate
  <2>4. Promise!GiveUp(e)
    BY <1>2, <2>2, <2>3 DEF Promise!GiveUp, Promise!Answer, fate, told
  <2> QED BY <1>1, <2>4 DEF Promise!INext
<1> QED BY <1>4, <1>5

LEMMA PromiseStep ==
  ASSUME Inv, Inv', [Next]_vars
  PROVE  [Promise!INext]_<<fate, told, forgotten>>
<1> USE DEF Inv
<1>1. CASE Quiet
  <2>1. Held' = Held
    BY <1>1 DEF Quiet, Held, InQueue, workVars
  <2> QED BY <1>1, <2>1, SameFate DEF Quiet, told, history
<1>2. ASSUME NEW c \in Calls, Duplicate(c) \/ Admit(c) \/ Overflow(c)
      PROVE  Promise!INext
  BY <1>2, DuplicateAnswers, AdmitTakes, OverflowGivesUp
<1>3. ASSUME NEW c \in Calls, Closed(c)
      PROVE  UNCHANGED <<fate, told, forgotten>>
  <2>1. UNCHANGED <<queue, job, done, lost, taken, forgotten, acked>>
    BY <1>3 DEF Closed, Entered, Retry
  <2>2. Held' = Held
    BY <2>1 DEF Held, InQueue
  <2> QED BY <2>1, <2>2, SameFate DEF told
<1>4. CASE Expire
  <2>1. /\ Held' \subseteq Held /\ Head(queue).event \in Held
        /\ UNCHANGED <<acked, taken, forgotten, done>>
        /\ lost' = Lost({Head(queue).event}, "expired")
    BY <1>4, ExpireStep DEF Expire, outside, slackVars
  <2>2. \A m \in Messages : m \notin Held => done'[m] = done[m] /\ lost'[m] = lost[m]
    BY <2>1 DEF Lost
  <2> QED BY <2>1, <2>2, SettleStep
<1>5. CASE Receive
  <2>1. Held' = Held /\ UNCHANGED <<history, acked>>
    BY <1>5, ReceiveStep DEF Receive, outside, slackVars
  <2> QED BY <2>1, SameFate DEF told, history
<1>6. CASE Handled
  <2>1. /\ Held' \subseteq Held /\ job \in Held /\ UNCHANGED <<acked, taken, forgotten>>
    BY <1>6, HandledStep DEF Handled, Held, outside, slackVars
  <2>2. \A m \in Messages : m # job => done'[m] = done[m] /\ lost'[m] = lost[m]
    BY <1>6 DEF Handled, Lost, TypeOK
  <2> QED BY <2>1, <2>2, SettleStep
<1>7. CASE Drained \/ DrainTimeout
  <2>1. Held' = {} /\ UNCHANGED <<acked, taken, forgotten>>
    BY <1>7, DrainStep DEF Drained, DrainTimeout, AfterDrain, outside, slackVars
  <2>2. \A m \in Messages : m \notin Held => done'[m] = done[m] /\ lost'[m] = lost[m]
    BY <1>7 DEF Drained, DrainTimeout, AfterDrain, Lost, Held, TypeOK
  <2> QED BY <2>1, <2>2, SettleStep
<1>8. CASE Crash
  <2>1. /\ UNCHANGED <<acked, done, taken>> /\ lost' = Lost(Held, "crash")
        /\ queue' = <<>> /\ job' = NoEvent /\ forgotten \subseteq forgotten'
    BY <1>8 DEF Crash, slackVars
  <2>2. Held' = {}
    BY <2>1, EmptyQueue DEF Held
  <2>3. \A m \in Messages : m \notin Held => done'[m] = done[m] /\ lost'[m] = lost[m]
    BY <2>1 DEF Lost
  <2> QED BY <2>1, <2>2, <2>3, SettleStep
<1> QED BY <1>1, <1>2, <1>3, <1>4, <1>5, <1>6, <1>7, <1>8, QuietActions

\* The Socket Mode backend implements Intake: whatever Slack resends, however
\* sessions end and whenever the process dies, an event is taken once unless
\* it was forgotten, and acknowledged only with a fate.
THEOREM PromiseKept == Spec => KeepsPromise
<1>1. Init => Promise!IInit
  <2>1. ASSUME Init PROVE Held = {}
    BY <2>1 DEF Init, Held, InQueue
  <2> QED BY <2>1 DEF Init, Promise!IInit, Fate
<1>2. Inv /\ Inv' /\ [Next]_vars
      => [Promise!INext]_<<[m \in Messages |-> Fate(m)], acked \intersect Messages,
                           forgotten>>
  BY PromiseStep DEF fate, told
<1> QED BY <1>1, <1>2, InvInvariant, PTL DEF Spec, KeepsPromise, Promise!ISpec
=============================================================================
