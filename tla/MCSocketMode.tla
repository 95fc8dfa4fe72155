---------------------------- MODULE MCSocketMode ----------------------------
(***************************************************************************)
(* Model values and symmetry for the runs of SocketMode.                   *)
(***************************************************************************)
EXTENDS SocketMode

CONSTANTS m1, m2, c1, c2

SwapMessages == Permutations(Messages)
SwapCalls    == Permutations(Calls)
Swaps        == SwapMessages \union SwapCalls
=============================================================================
