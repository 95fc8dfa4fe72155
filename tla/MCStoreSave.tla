---------------------------- MODULE MCStoreSave ----------------------------
(***************************************************************************)
(* Small instances of StoreSave for TLC.                                   *)
(***************************************************************************)
EXTENDS StoreSave, TLC

CONSTANTS consumer, recovery, i1, i2, i3, i4

SwapTasks  == Permutations({consumer, recovery})
SwapInodes == Permutations({i1, i2, i3, i4})
=============================================================================
