--------------------------- MODULE MCUserSession ---------------------------
(***************************************************************************)
(* Small instances of UserSession for TLC.  The .cfg files choose among    *)
(* the maps below and give the bounds.                                     *)
(***************************************************************************)
EXTENDS UserSessionInvariant, TLC

CONSTANTS c1, m1, m2

\* Two messages of one channel
OneChannel == [m \in Msgs |-> c1]
NoThreads  == [m \in Msgs |-> m]

\* m2 replies to m1
Reply == [m \in Msgs |-> IF m = m2 THEN m1 ELSE m]
=============================================================================
