------------------------------- MODULE Intake -------------------------------
(***************************************************************************)
(* What the Socket Mode backend promises Slack: an event is taken once,    *)
(* unless it was forgotten in between, and it is acknowledged only once it *)
(* is taken or there is no room for it.                                    *)
(***************************************************************************)
CONSTANT Events

VARIABLES
  fate,      \* of each event, see Fates
  told,      \* the events Slack was told not to send again
  forgotten  \* the events that may be taken a second time

Taken == {"held", "handled", "lost"}
Fates == {"unknown", "refused"} \union Taken

IInit == fate = [e \in Events |-> "unknown"] /\ told = {} /\ forgotten = {}

\* Slack is told, or the answer is lost on the way.
Answer(e) == told' \in {told, told \union {e}}

\* An event is taken that was not taken before, as far as anybody remembers.
Take(e) ==
  /\ fate[e] \notin Taken \/ e \in forgotten
  /\ fate' = [fate EXCEPT ![e] = "held"]
  /\ Answer(e)

\* There is no room for an event.
GiveUp(e) ==
  /\ fate[e] \notin Taken
  /\ fate' = [fate EXCEPT ![e] = "refused"]
  /\ Answer(e)

\* An event comes again that was taken.
Repeat(e) ==
  /\ fate[e] \in Taken
  /\ Answer(e)
  /\ UNCHANGED fate

\* Some of what is held is handled, and some is lost.
Settle(H, L) ==
  /\ H \intersect L = {}
  /\ \A e \in H \union L : fate[e] = "held"
  /\ fate' = [e \in Events |-> IF e \in H THEN "handled"
                              ELSE IF e \in L THEN "lost" ELSE fate[e]]
  /\ UNCHANGED told

INext ==
  /\ forgotten \subseteq forgotten'
  /\ \/ \E e \in Events : Take(e) \/ GiveUp(e) \/ Repeat(e)
     \/ \E H, L \in SUBSET Events : Settle(H, L)

ISpec == IInit /\ [][INext]_<<fate, told, forgotten>>
=============================================================================
