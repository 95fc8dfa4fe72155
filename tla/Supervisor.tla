----------------------------- MODULE Supervisor -----------------------------
(***************************************************************************)
(* Health, connect_and_watch and run_socket_sessions of                    *)
(* src/src/slackbot/socket_mode.rs: the workspaces are connected one after *)
(* another, each until Slack says hello to its listener; then all of them  *)
(* are watched until one fails.  A session that ended is cleaned up and,   *)
(* after a delay, followed by another one, unless a signal came.           *)
(*                                                                         *)
(* A workspace's callbacks and the future that waits for it share Health:  *)
(* two flags, and a tokio Notify that keeps one permit for whoever is not  *)
(* waiting yet.  The waiter reads the flags one by one and then parks; a   *)
(* callback sets a flag and then notifies.  All of these are steps.        *)
(***************************************************************************)
EXTENDS Integers

CONSTANTS
  Count,       \* number of workspaces
  RetryAfters, \* what a rate-limited request is told to wait, in seconds
  MaxFaults    \* bound of the model: requests and workspaces that fail

ASSUME CountAssumption == Count \in Nat \ {0}
ASSUME DelaysAssumption == RetryAfters \subseteq Nat /\ MaxFaults \in Nat

Workspaces == 1..Count

VARIABLES
  phase,     \* of the session, see Phases
  at,        \* the workspace that is being connected
  ready,     \* Health::ready
  failure,   \* Health::failure holds a message
  permit,    \* Health::changed holds a permit
  setters,   \* callbacks that have set a flag and are about to notify
  wait,      \* what the waiter of a workspace is at, see Waits
  signal,    \* SIGINT or SIGTERM: none, arrived or noticed
  registered,\* registered_since is set: all workspaces were connected
  steady,    \* a minute has passed since then
  retry,     \* Retry-After of the error that ended the session, or 0
  backoff,   \* seconds to wait after the next failure
  delay,     \* seconds the loop waits
  short,     \* history: sessions since the last steady one, up to 5
  faults     \* faults so far

health == <<ready, failure, permit, setters>>
timing == <<registered, steady, retry, backoff, delay, short>>
vars   == <<phase, at, health, wait, signal, timing, faults>>

Running == {"connecting", "waiting", "watching"}
Phases  == Running \union {"closing", "draining", "delay", "stopped"}
Waits   == {"none", "check", "load", "park", "parked"}
MaxBackoff == 30

TypeOK ==
  /\ phase \in Phases /\ at \in Workspaces
  /\ ready \in [Workspaces -> BOOLEAN] /\ failure \in [Workspaces -> BOOLEAN]
  /\ permit \in [Workspaces -> BOOLEAN] /\ setters \in [Workspaces -> 0..2]
  /\ wait \in [Workspaces -> Waits]
  /\ signal \in {"none", "arrived", "noticed"}
  /\ registered \in BOOLEAN /\ steady \in BOOLEAN /\ retry \in Nat /\ delay \in Nat
  /\ backoff \in 2..MaxBackoff /\ short \in 0..5 /\ faults \in Nat

No == [w \in Workspaces |-> FALSE]

Init ==
  /\ phase = "connecting" /\ at = 1
  /\ ready = No /\ failure = No /\ permit = No
  /\ setters = [w \in Workspaces |-> 0] /\ wait = [w \in Workspaces |-> "none"]
  /\ signal = "none" /\ registered = FALSE /\ steady = FALSE
  /\ retry = 0 /\ backoff = 2 /\ delay = 0 /\ short = 0 /\ faults = 0

Fault == faults < MaxFaults /\ faults' = faults + 1

-----------------------------------------------------------------------------
(***************************************************************************)
(* The callbacks of a workspace's listener.                                *)
(***************************************************************************)

\* The listener of w runs, and acts on the Health of this session.
Listening(w) == \/ phase = "watching"
                \/ phase = "waiting" /\ w <= at
                \/ phase = "connecting" /\ w < at

Setting(w) ==
  /\ Listening(w)
  /\ setters[w] < 2
  /\ setters' = [setters EXCEPT ![w] = @ + 1]
  /\ UNCHANGED <<phase, at, permit, wait, signal, timing>>

\* handle_hello
Hello(w) ==
  /\ Setting(w)
  /\ ready' = [ready EXCEPT ![w] = TRUE]
  /\ UNCHANGED <<failure, faults>>

\* Health::fail: a hello of another app, an event of another installation, an
\* error that says that the credentials are invalid
Fail(w) ==
  /\ Setting(w)
  /\ Fault
  /\ failure' = [failure EXCEPT ![w] = TRUE]
  /\ UNCHANGED ready

Notified(w) ==
  /\ setters[w] > 0
  /\ setters' = [setters EXCEPT ![w] = @ - 1]
  /\ UNCHANGED <<phase, at, ready, failure, signal, timing, faults>>

\* Mutant of Notify: the notification is for those who wait now
NotifyWaiters(w) ==
  /\ Notified(w)
  /\ UNCHANGED permit
  /\ wait' = [wait EXCEPT ![w] = IF @ = "parked" THEN "check" ELSE @]

\* notify_one: it wakes the waiter, or leaves a permit.
Notify(w) ==
  /\ Notified(w)
  /\ IF wait[w] = "parked"
       THEN wait' = [wait EXCEPT ![w] = "check"] /\ UNCHANGED permit
       ELSE permit' = [permit EXCEPT ![w] = TRUE] /\ UNCHANGED wait

Callback(w) == Hello(w) \/ Fail(w) \/ Notify(w)

-----------------------------------------------------------------------------
(***************************************************************************)
(* The session.                                                            *)
(***************************************************************************)
Step(w, from, to) ==
  /\ wait[w] = from
  /\ wait' = [wait EXCEPT ![w] = to]
  /\ UNCHANGED <<signal, timing, faults>>

\* Mutant of Over: the next session uses the same Health
OverKeepsHealth(retryAfter) ==
  /\ phase' = "closing" /\ at' = 1
  /\ retry' = retryAfter
  /\ wait' = [w \in Workspaces |-> "none"]
  /\ UNCHANGED <<health, registered, steady, backoff, delay, short>>

\* The session is over: on to cleaning up.  Callbacks may go on for a while, but
\* nobody reads this session's Health any more.
Over(retryAfter) ==
  /\ phase' = "closing" /\ at' = 1
  /\ retry' = retryAfter
  /\ ready' = No /\ failure' = No /\ permit' = No
  /\ setters' = [w \in Workspaces |-> 0] /\ wait' = [w \in Workspaces |-> "none"]
  /\ UNCHANGED <<registered, steady, backoff, delay, short>>

\* Workspace::connect and the start of the listener; now its hello is awaited.
Connect ==
  /\ phase = "connecting"
  /\ phase' = "waiting"
  /\ Step(at, "none", "check")
  /\ UNCHANGED <<at, health>>

\* A request fails, or times out, or is told to come back later.
ConnectFails ==
  /\ phase = "connecting"
  /\ Fault
  /\ \E r \in RetryAfters \union {0} : Over(r)
  /\ UNCHANGED signal

\* Health::check finds no failure
CheckPasses(w) ==
  /\ ~failure[w]
  /\ Step(w, "check", IF phase = "waiting" THEN "load" ELSE "park")
  /\ UNCHANGED <<phase, at, health>>

\* or one.
CheckFails(w) ==
  /\ failure[w]
  /\ wait[w] = "check"
  /\ Over(0)
  /\ UNCHANGED <<signal, faults>>

NotReady(w) ==
  /\ ~ready[w]
  /\ Step(w, "load", "park")
  /\ UNCHANGED <<phase, at, health>>

\* Mutant of Ready: only the workspace that was connected last is watched
ReadyWatchesLast(w) ==
  /\ ready[w] /\ wait[w] = "load"
  /\ IF w < Count
       THEN /\ phase' = "connecting" /\ at' = at + 1 /\ UNCHANGED registered
            /\ wait' = [wait EXCEPT ![w] = "none"]
       ELSE /\ phase' = "watching" /\ at' = at /\ registered' = TRUE
            /\ wait' = [wait EXCEPT ![w] = "check"]
  /\ UNCHANGED <<health, signal, steady, retry, backoff, delay, short, faults>>

\* The hello is there: the next workspace, or all are watched.
Ready(w) ==
  /\ ready[w] /\ wait[w] = "load"
  /\ IF w < Count
       THEN /\ phase' = "connecting" /\ at' = at + 1 /\ UNCHANGED registered
            /\ wait' = [wait EXCEPT ![w] = "none"]
       ELSE /\ phase' = "watching" /\ at' = at /\ registered' = TRUE
            /\ wait' = [v \in Workspaces |-> "check"]
  /\ UNCHANGED <<health, signal, steady, retry, backoff, delay, short, faults>>

\* notified().await: a permit is taken, or else the waiter sleeps.
Park(w) ==
  /\ permit' = [permit EXCEPT ![w] = FALSE]
  /\ Step(w, "park", IF permit[w] THEN "check" ELSE "parked")
  /\ UNCHANGED <<phase, at, ready, failure, setters>>

\* HELLO_TIMEOUT
HelloTimeout ==
  /\ phase = "waiting"
  /\ wait[at] = "parked"
  /\ Over(0)
  /\ UNCHANGED <<signal, faults>>

\* 60 seconds have passed since all workspaces were connected.  The code looks
\* at that time after the cleanup, which counts.
Minute ==
  /\ registered
  /\ phase \in {"watching", "closing", "draining"}
  /\ steady' = TRUE
  /\ UNCHANGED <<phase, at, health, wait, signal, registered, retry, backoff, delay, short, faults>>

Wait(w) == CheckPasses(w) \/ CheckFails(w) \/ NotReady(w) \/ Ready(w) \/ Park(w)

-----------------------------------------------------------------------------
(***************************************************************************)
(* The loop of run_socket_sessions.                                        *)
(***************************************************************************)
Signal ==
  /\ phase # "stopped"
  /\ signal = "none"
  /\ signal' = "arrived"
  /\ UNCHANGED <<phase, at, health, wait, timing, faults>>

\* The signal is noticed while the session runs,
Interrupt ==
  /\ phase \in Running
  /\ signal = "arrived" /\ signal' = "noticed"
  /\ Over(0)
  /\ UNCHANGED faults

\* The listeners are shut down, each within SHUTDOWN_TIMEOUT.
Close ==
  /\ phase = "closing"
  /\ phase' = "draining"
  /\ UNCHANGED <<at, health, wait, signal, timing, faults>>

Larger(a, b)  == IF a > b THEN a ELSE b
Smaller(a, b) == IF a < b THEN a ELSE b

\* Mutant of Base: the backoff is reset as soon as a request succeeds again
BaseEager == IF retry = 0 THEN 2 ELSE backoff

\* A minute since all workspaces were connected resets the backoff.
Base == IF steady THEN 2 ELSE backoff

\* reconnect_delay, without the jitter of up to a second
ReconnectDelay(b) == Larger(b, retry)

\* Mutant of Doubled: no limit
DoubledForever(b) == 2 * b

\* The backoff of the next failure
Doubled(b) == Smaller(2 * b, MaxBackoff)

\* Mutant of Drain: a session that a signal ended is followed by another one
DrainRestarts ==
  /\ phase = "draining"
  /\ phase' = "delay"
  /\ delay' = ReconnectDelay(Base)
  /\ backoff' = Doubled(Base)
  /\ short' = IF steady THEN 1 ELSE Smaller(short + 1, 5)
  /\ UNCHANGED <<at, health, wait, signal, registered, steady, retry, faults>>

\* The worker is done, or DRAIN_TIMEOUT passed: the end, or another session.
Drain ==
  /\ phase = "draining"
  /\ IF signal = "noticed"
       THEN phase' = "stopped" /\ UNCHANGED <<backoff, delay, short>>
       ELSE /\ phase' = "delay"
            /\ delay' = ReconnectDelay(Base)
            /\ backoff' = Doubled(Base)
            /\ short' = IF steady THEN 1 ELSE Smaller(short + 1, 5)
  /\ UNCHANGED <<at, health, wait, signal, registered, steady, retry, faults>>

\* or during the delay.
Stop ==
  /\ phase = "delay"
  /\ signal = "arrived" /\ signal' = "noticed"
  /\ phase' = "stopped"
  /\ UNCHANGED <<at, health, wait, timing, faults>>

\* A new session, with workspaces and a Health of their own.
Restart ==
  /\ phase = "delay"
  /\ phase' = "connecting"
  /\ registered' = FALSE /\ steady' = FALSE /\ retry' = 0 /\ delay' = 0
  /\ UNCHANGED <<at, health, wait, signal, backoff, short, faults>>

Loop == Interrupt \/ Close \/ Drain \/ Stop \/ Restart

Next ==
  \/ Connect \/ ConnectFails \/ HelloTimeout \/ Minute \/ Signal \/ Loop
  \/ \E w \in Workspaces : Callback(w) \/ Wait(w)

Spec == Init /\ [][Next]_vars

\* The runtime polls what is ready; every request, the wait for a hello and
\* every cleanup have a deadline.  Slack promises nothing.  The select! of a
\* session polls the signal first whenever it is polled, and that of the delay
\* as soon as it begins, so a signal is not passed by for ever.
Fairness ==
  /\ WF_vars(Connect) /\ WF_vars(HelloTimeout)
  /\ WF_vars(Close) /\ WF_vars(Drain) /\ WF_vars(Restart)
  /\ SF_vars(Interrupt) /\ SF_vars(Stop)
  /\ \A w \in Workspaces : WF_vars(Wait(w)) /\ WF_vars(Notify(w))
FairSpec == Spec /\ Fairness

-----------------------------------------------------------------------------
(***************************************************************************)
(* Properties                                                              *)
(***************************************************************************)

\* What the waiter of w waits for is there.
Due(w) == failure[w] \/ (phase = "waiting" /\ ready[w])

\* A waiter sleeps only as long as there is nothing for it, or a callback is
\* about to wake it: a notification that comes between its look at the flags
\* and its await, or when it is not waiting at all, is not lost.
NoLostWakeup ==
  \A w \in Workspaces :
    wait[w] = "parked" => /\ ~permit[w]
                          /\ Due(w) => setters[w] > 0

\* What keeps NoLostWakeup and WatchesAll: who is waited for in which phase, and
\* that what a waiter has looked at before is still announced.
Announced(w) == permit[w] \/ setters[w] > 0
WaiterInv(w) ==
  /\ wait[w] = "load" => phase = "waiting" /\ (failure[w] => Announced(w))
  /\ wait[w] = "park" => (Due(w) => Announced(w))
  /\ wait[w] = "parked" => ~permit[w] /\ (Due(w) => setters[w] > 0)
  /\ wait[w] # "none" => phase = "watching" \/ (phase = "waiting" /\ w = at)
  /\ phase = "watching" => wait[w] # "none" /\ ready[w]
  /\ phase \in {"connecting", "waiting"} /\ w < at => ready[w]
  /\ phase = "waiting" /\ w = at => wait[w] # "none"
  /\ phase \notin Running => at = 1

\* Seconds after n sessions in a row that did not last: 2^n, up to MaxBackoff
LeastDelay == <<2, 4, 8, 16, 30>>

\* Slack is not asked again before its Retry-After has passed, and n sessions in
\* a row each of which was over within a minute of connecting all workspaces are
\* followed by a delay of 2^n seconds, up to 30.
PatientRetry ==
  phase = "delay" => /\ delay >= retry
                     /\ short > 0 /\ delay >= LeastDelay[short]

\* What keeps it: the backoff is ahead of the delays by one session.
BackoffInv == backoff >= LeastDelay[Smaller(short + 1, 5)] /\ PatientRetry
Inv == TypeOK /\ BackoffInv /\ \A w \in Workspaces : WaiterInv(w)

\* All workspaces are watched only when every one of them has been greeted, the
\* ones connected early included, and each has a waiter.
WatchesAll ==
  phase = "watching" => \A w \in Workspaces : ready[w] /\ wait[w] # "none"

\* A failure of any workspace ends the session, also one that is reported before
\* all workspaces are connected and watched.
FailureEnds == \A w \in Workspaces : failure[w] ~> phase \notin Running

\* A signal ends the process, whatever the supervisor is doing.
SignalStops == signal = "arrived" ~> phase = "stopped"

\* Once requests succeed and hellos come in time, the workspaces are watched for
\* good: no interleaving of callbacks and waiter keeps a session from starting.
Recovers ==
  (<>[][~HelloTimeout]_vars) => <>[](phase \in {"watching", "stopped"})
=============================================================================
