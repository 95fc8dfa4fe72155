-------------------------- MODULE SupervisorProofs --------------------------
(***************************************************************************)
(* For any number of workspaces: no waiter of Supervisor sleeps over a     *)
(* notification, a session is watched only when every workspace is, and    *)
(* each session that does not last is followed by a longer delay.          *)
(***************************************************************************)
EXTENDS Supervisor, TLAPS

USE CountAssumption, DelaysAssumption DEF Workspaces

LEMMA InitInv == Init => Inv
<1> SUFFICES ASSUME Init PROVE Inv
  OBVIOUS
<1>1. TypeOK
  <2>1. No \in [Workspaces -> BOOLEAN]
    BY Zenon DEF No
  <2> QED
    <3>1. setters \in [Workspaces -> 0..2] /\ wait \in [Workspaces -> Waits]
      BY DEF Init, Waits
    <3>2. phase \in Phases /\ at \in Workspaces /\ signal \in {"none", "arrived", "noticed"}
      BY DEF Init, Phases, Running
    <3>3. retry \in Nat /\ delay \in Nat /\ backoff \in 2..MaxBackoff
          /\ short \in 0..5 /\ faults \in Nat
      BY DEF Init, MaxBackoff
    <3>4. registered \in BOOLEAN /\ steady \in BOOLEAN /\ ready \in [Workspaces -> BOOLEAN] /\ failure \in [Workspaces -> BOOLEAN]
          /\ permit \in [Workspaces -> BOOLEAN]
      BY <2>1, Zenon DEF Init
    <3> QED
      BY <3>1, <3>2, <3>3, <3>4, Zenon DEF TypeOK
<1>2. ASSUME NEW w \in Workspaces PROVE WaiterInv(w)
  BY DEF Init, WaiterInv, Running
<1>3. BackoffInv
  BY DEF Init, BackoffInv, PatientRetry, LeastDelay, Smaller
<1> QED
  BY <1>1, <1>2, <1>3 DEF Inv

-----------------------------------------------------------------------------
(***************************************************************************)
(* Types, one lemma for each kind of step.                                 *)
(***************************************************************************)
LEMMA CallbackTypes ==
  ASSUME TypeOK, NEW w \in Workspaces, Callback(w)
  PROVE  TypeOK'
<1>1. CASE Hello(w) \/ Fail(w)
  <2>1. setters' \in [Workspaces -> 0..2]
    BY <1>1 DEF Hello, Fail, Setting, TypeOK
  <2>2. ready' \in [Workspaces -> BOOLEAN] /\ failure' \in [Workspaces -> BOOLEAN] /\ faults' \in Nat
    <3>1. ready' \in [Workspaces -> BOOLEAN] /\ failure' \in [Workspaces -> BOOLEAN]
      BY <1>1, Zenon DEF Hello, Fail, TypeOK
    <3>2. faults' \in Nat
      BY <1>1 DEF Hello, Fail, Fault, TypeOK
    <3> QED
      BY <3>1, <3>2
  <2> QED
    BY <1>1, <2>1, <2>2 DEF Hello, Fail, Setting, TypeOK, timing
<1>2. CASE Notify(w)
  <2>1. setters' \in [Workspaces -> 0..2]
    BY <1>2 DEF Notify, Notified, TypeOK
  <2> QED
    BY <1>2, <2>1 DEF Notify, Notified, TypeOK, timing, Waits, Phases, Running, MaxBackoff
<1> QED
  BY <1>1, <1>2 DEF Callback

LEMMA OverTypes ==
  ASSUME TypeOK, NEW r \in Nat, Over(r), signal' \in {"none", "arrived", "noticed"},
         faults' \in Nat
  PROVE  TypeOK'
  BY DEF TypeOK, Over, No, Waits, Phases, Running, MaxBackoff

LEMMA WaitTypes ==
  ASSUME TypeOK, NEW w \in Workspaces, Wait(w), wait[w] = "load" => w = at
  PROVE  TypeOK'
<1>1. CASE CheckFails(w)
  BY <1>1, OverTypes DEF CheckFails, TypeOK
<1>2. CASE CheckPasses(w) \/ NotReady(w) \/ Park(w)
  BY <1>2 DEF CheckPasses, NotReady, Park, Step, TypeOK, health, timing, Waits, Phases, Running, MaxBackoff
<1>3. CASE Ready(w)
  <2>1. CASE w < Count
    BY <1>3, <2>1, SMTT(40) DEF Ready, TypeOK, health, Waits, Phases, Running, MaxBackoff
  <2>2. CASE ~(w < Count)
    BY <1>3, <2>2 DEF Ready, TypeOK, health, Waits, Phases, Running, MaxBackoff
  <2> QED BY <2>1, <2>2
<1> QED
  BY <1>1, <1>2, <1>3 DEF Wait

LEMMA SessionTypes ==
  ASSUME TypeOK, Connect \/ ConnectFails \/ HelloTimeout \/ Minute \/ Signal
  PROVE  TypeOK'
<1>1. CASE ConnectFails
  <2>1. PICK r \in RetryAfters \union {0} : Over(r)
    BY <1>1 DEF ConnectFails
  <2> QED
    BY <1>1, <2>1, OverTypes DEF ConnectFails, Fault, TypeOK
<1>2. CASE HelloTimeout
  BY <1>2, OverTypes DEF HelloTimeout, TypeOK
<1>3. CASE Connect \/ Minute \/ Signal
  BY <1>3 DEF Connect, Minute, Signal, Step, TypeOK, health, timing, Waits, Phases, Running, MaxBackoff
<1> QED
  BY <1>1, <1>2, <1>3

LEMMA LoopTypes ==
  ASSUME TypeOK, Loop
  PROVE  TypeOK'
<1>1. CASE Interrupt
  BY <1>1, OverTypes DEF Interrupt, TypeOK
<1>2. CASE Close
  BY <1>2 DEF Close, TypeOK, health, timing, Phases
<1>3. CASE Stop
  BY <1>3 DEF Stop, TypeOK, health, timing, Phases
<1>4. CASE Restart
  BY <1>4 DEF Restart, TypeOK, health, Phases, Running
<1>5. CASE Drain
  <2>1. Base \in 2..30
    BY DEF Base, TypeOK, MaxBackoff
  <2>2. delay' \in Nat
    BY <1>5, <2>1 DEF Drain, ReconnectDelay, Larger, TypeOK
  <2>3. backoff' \in 2..30
    <3>1. Doubled(Base) \in 2..30
      BY <2>1 DEF Doubled, Smaller, MaxBackoff
    <3> QED
      BY <1>5, <3>1 DEF Drain, TypeOK, MaxBackoff
  <2>4. short' \in 0..5
    BY <1>5 DEF Drain, Smaller, TypeOK
  <2> QED
    BY <1>5, <2>2, <2>3, <2>4 DEF Drain, TypeOK, health, Phases, MaxBackoff
<1> QED
  BY <1>1, <1>2, <1>3, <1>4, <1>5 DEF Loop

-----------------------------------------------------------------------------
(***************************************************************************)
(* What a waiter has looked at.                                            *)
(***************************************************************************)
LEMMA CallbackWaiters ==
  ASSUME Inv, NEW w \in Workspaces, Callback(w)
  PROVE  \A v \in Workspaces : WaiterInv(v)'
<1> USE DEF Inv, TypeOK, WaiterInv, Announced, Due, Running, timing
<1>1. CASE Hello(w)
  <2> SUFFICES ASSUME NEW v \in Workspaces PROVE WaiterInv(v)'
    OBVIOUS
  <2>1. phase' = phase /\ at' = at /\ wait' = wait /\ permit' = permit
    BY <1>1 DEF Hello, Setting
  <2>2. CASE v = w
    <3>1. setters'[v] > 0
      <4>1. setters \in [Workspaces -> 0..2] /\ setters' = [setters EXCEPT ![w] = @ + 1]
        BY <1>1 DEF Hello, Setting
      <4> QED
        BY <2>2, <4>1
    <3>2. ready[v] => ready'[v]
      BY <1>1, <2>2 DEF Hello
    <3> QED
      BY <2>1, <3>1, <3>2
  <2>3. CASE v # w
    <3>1. setters'[v] = setters[v] /\ ready'[v] = ready[v] /\ failure'[v] = failure[v]
      BY <1>1, <2>3 DEF Hello, Setting
    <3> QED
      BY <2>1, <3>1
  <2> QED
    BY <2>2, <2>3
<1>2. CASE Fail(w)
  <2> SUFFICES ASSUME NEW v \in Workspaces PROVE WaiterInv(v)'
    OBVIOUS
  <2>1. phase' = phase /\ at' = at /\ wait' = wait /\ permit' = permit
    BY <1>2 DEF Fail, Setting
  <2>2. CASE v = w
    <3>1. setters'[v] > 0
      <4>1. setters \in [Workspaces -> 0..2] /\ setters' = [setters EXCEPT ![w] = @ + 1]
        BY <1>2 DEF Fail, Setting
      <4> QED
        BY <2>2, <4>1
    <3>2. ready[v] => ready'[v]
      BY <1>2, <2>2 DEF Fail
    <3> QED
      BY <2>1, <3>1, <3>2
  <2>3. CASE v # w
    <3>1. setters'[v] = setters[v] /\ ready'[v] = ready[v] /\ failure'[v] = failure[v]
      BY <1>2, <2>3 DEF Fail, Setting
    <3> QED
      BY <2>1, <3>1
  <2> QED
    BY <2>2, <2>3
<1>3. CASE Notify(w)
  BY <1>3 DEF Notify, Notified
<1> QED
  BY <1>1, <1>2, <1>3 DEF Callback

LEMMA OverWaiters ==
  ASSUME NEW r, Over(r)
  PROVE  \A v \in Workspaces : WaiterInv(v)'
  BY DEF Over, WaiterInv, Announced, Due, Running, No

LEMMA WaitWaiters ==
  ASSUME Inv, NEW w \in Workspaces, Wait(w)
  PROVE  \A v \in Workspaces : WaiterInv(v)'
<1> USE DEF Inv, TypeOK, WaiterInv, Announced, Due, Running, health, timing
<1>1. CASE CheckPasses(w)
  BY <1>1 DEF CheckPasses, Step
<1>2. CASE CheckFails(w)
  BY <1>2, OverWaiters DEF CheckFails
<1>3. CASE NotReady(w)
  BY <1>3 DEF NotReady, Step
<1>4. CASE Ready(w)
  BY <1>4 DEF Ready
<1>5. CASE Park(w)
  BY <1>5 DEF Park, Step
<1> QED
  BY <1>1, <1>2, <1>3, <1>4, <1>5 DEF Wait

LEMMA OtherWaiters ==
  ASSUME Inv, Connect \/ ConnectFails \/ HelloTimeout \/ Minute \/ Signal \/ Loop
  PROVE  \A v \in Workspaces : WaiterInv(v)'
<1> USE DEF Inv, TypeOK, WaiterInv, Announced, Due, Running, health, timing
<1>1. CASE ConnectFails \/ HelloTimeout \/ Interrupt
  BY <1>1, OverWaiters DEF ConnectFails, HelloTimeout, Interrupt
<1>2. CASE Connect
  BY <1>2 DEF Connect, Step
<1>3. CASE Minute \/ Signal
  BY <1>3 DEF Minute, Signal
<1>4. CASE Close \/ Drain \/ Stop
  BY <1>4 DEF Close, Drain, Stop
<1>5. CASE Restart
  BY <1>5 DEF Restart
<1> QED
  BY <1>1, <1>2, <1>3, <1>4, <1>5 DEF Loop

-----------------------------------------------------------------------------
(***************************************************************************)
(* The backoff.                                                            *)
(***************************************************************************)
LEMMA DrainBackoff ==
  ASSUME Inv, Drain
  PROVE  BackoffInv'
<1> USE DEF LeastDelay, Smaller, Larger
<1>1. /\ phase = "draining" /\ steady' = steady /\ retry' = retry
      /\ backoff \in 2..30 /\ short \in 0..5 /\ retry \in Nat
      /\ backoff >= LeastDelay[Smaller(short + 1, 5)]
  BY DEF Inv, TypeOK, BackoffInv, Drain, MaxBackoff
<1>2. CASE signal = "noticed"
  <2>1. UNCHANGED <<backoff, delay, short>> /\ phase' = "stopped"
    BY <1>2 DEF Drain
  <2> QED
    BY <1>1, <2>1 DEF BackoffInv, PatientRetry
<1>3. CASE signal # "noticed"
  <2>1. PICK base : base = Base
    OBVIOUS
  <2>2. /\ delay' = Larger(base, retry) /\ backoff' = Smaller(2 * base, 30)
        /\ short' = IF steady THEN 1 ELSE Smaller(short + 1, 5)
        /\ base = IF steady THEN 2 ELSE backoff
    BY <1>3, <2>1 DEF Drain, ReconnectDelay, Doubled, Base, MaxBackoff
  <2>3. base \in 2..30 /\ short' \in 1..5 /\ base >= LeastDelay[short']
    BY <1>1, <2>2
  <2>4. backoff' >= LeastDelay[Smaller(short' + 1, 5)]
    BY <2>2, <2>3
  <2>5. delay' >= base /\ delay' >= retry
    BY <1>1, <2>2, <2>3
  <2>6. LeastDelay[short'] \in Nat
    BY <2>3
  <2>7. delay' >= LeastDelay[short']
    <3>1. delay' \in Nat
      BY <1>1, <2>2, <2>3
    <3> HIDE DEF LeastDelay
    <3> QED
      BY <2>3, <2>5, <2>6, <3>1
  <2>8. PatientRetry'
    <3> HIDE DEF LeastDelay
    <3> QED
      BY <1>1, <2>3, <2>5, <2>7 DEF PatientRetry
  <2> QED
    BY <2>4, <2>8 DEF BackoffInv
<1> QED
  BY <1>2, <1>3

\* Only the end of a session changes the backoff and begins a delay.
LEMMA BackoffKept ==
  ASSUME Inv, backoff' = backoff, short' = short, phase' # "delay"
  PROVE  BackoffInv'
  BY DEF Inv, BackoffInv, PatientRetry

LEMMA OtherBackoff ==
  ASSUME Inv,
         \/ Connect \/ ConnectFails \/ HelloTimeout \/ Minute \/ Signal \/ Loop
         \/ \E w \in Workspaces : Callback(w) \/ Wait(w)
  PROVE  BackoffInv'
<1> USE DEF timing
<1>1. CASE Drain
  BY <1>1, DrainBackoff
<1>2. CASE Connect \/ ConnectFails \/ HelloTimeout \/ Minute
  BY <1>2, BackoffKept DEF Connect, ConnectFails, HelloTimeout, Minute, Step, Over
<1>3. CASE Interrupt \/ Close \/ Stop \/ Restart
  BY <1>3, BackoffKept DEF Interrupt, Close, Stop, Restart, Over
<1>4. ASSUME NEW w \in Workspaces, Wait(w)
      PROVE  BackoffInv'
  <2>1. phase # "delay"
    <3>1. wait[w] # "none"
      BY <1>4 DEF Wait, CheckPasses, CheckFails, NotReady, Ready, Park, Step
    <3> QED
      BY <3>1 DEF Inv, WaiterInv
  <2> QED
    BY <1>4, <2>1, BackoffKept DEF Wait, CheckPasses, CheckFails, NotReady, Ready, Park, Step, Over
<1>5. CASE UNCHANGED <<phase, timing>>
  BY <1>5 DEF Inv, BackoffInv, PatientRetry
<1>6. CASE Signal \/ \E w \in Workspaces : Callback(w)
  BY <1>5, <1>6 DEF Signal, Callback, Hello, Fail, Notify, Setting, Notified
<1> QED
  BY <1>1, <1>2, <1>3, <1>4, <1>6 DEF Loop

-----------------------------------------------------------------------------
LEMMA NextInv ==
  ASSUME Inv, [Next]_vars
  PROVE  Inv'
<1>1. CASE UNCHANGED vars
  BY <1>1 DEF vars, health, timing, Inv, TypeOK, BackoffInv, PatientRetry, WaiterInv, Announced, Due, Running
<1>2. CASE Connect \/ ConnectFails \/ HelloTimeout \/ Minute \/ Signal
  BY <1>2, SessionTypes, OtherWaiters, OtherBackoff DEF Inv
<1>3. CASE Loop
  BY <1>3, LoopTypes, OtherWaiters, OtherBackoff DEF Inv
<1>4. ASSUME NEW w \in Workspaces, Callback(w)
      PROVE  Inv'
  BY <1>4, CallbackTypes, CallbackWaiters, OtherBackoff DEF Inv
<1>5. ASSUME NEW w \in Workspaces, Wait(w)
      PROVE  Inv'
  <2>1. wait[w] = "load" => w = at
    BY DEF Inv, WaiterInv
  <2> QED
    BY <1>5, <2>1, WaitTypes, WaitWaiters, OtherBackoff DEF Inv
<1> QED
  BY <1>1, <1>2, <1>3, <1>4, <1>5 DEF Next

\* The inductive invariant, for any number of workspaces.
THEOREM InvInvariant == Spec => []Inv
  BY InitInv, NextInv, PTL DEF Spec

\* Health and its Notify lose no wakeup: a waiter that sleeps although there is
\* something for it is about to be woken by the callback that set the flag.
THEOREM NoLostWakeupInvariant == Spec => []NoLostWakeup
<1>1. Inv => NoLostWakeup
  BY DEF Inv, WaiterInv, NoLostWakeup, Due
<1> QED
  BY <1>1, InvInvariant, PTL

\* A session is watched only when every workspace was greeted, and by a waiter
\* for each of them.
THEOREM WatchesAllInvariant == Spec => []WatchesAll
<1>1. Inv => WatchesAll
  BY DEF Inv, WaiterInv, WatchesAll
<1> QED
  BY <1>1, InvInvariant, PTL
\* Slack's Retry-After is respected, and the delay doubles from one session that
\* does not last to the next.
THEOREM PatientRetryInvariant == Spec => []PatientRetry
<1>1. Inv => PatientRetry
  BY DEF Inv, BackoffInv
<1> QED
  BY <1>1, InvInvariant, PTL
=============================================================================
