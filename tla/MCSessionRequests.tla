------------------------- MODULE MCSessionRequests -------------------------
(***************************************************************************)
(* Small instances of SessionRequests for TLC.                             *)
(***************************************************************************)
EXTENDS SessionRequests

CONSTANTS c1, c2

\* Two pages; three, as many as a walk over channels accepts, and too many for
\* one over history; four; and two, of which the second is its own successor.
PageLists == {
  [next |-> <<2, 0>>,       lists |-> <<c1, c2>>],
  [next |-> <<2, 3, 0>>,    lists |-> <<c1, c1, c2>>],
  [next |-> <<2, 3, 4, 0>>, lists |-> <<c1, c1, c1, c2>>],
  [next |-> <<2, 2>>,       lists |-> <<c1, c2>>]}
=============================================================================
