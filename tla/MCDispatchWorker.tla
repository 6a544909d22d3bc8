-------------------------- MODULE MCDispatchWorker --------------------------
(***************************************************************************)
(* Small instances of DispatchWorker for TLC.                               *)
(***************************************************************************)
EXTENDS DispatchWorker, TLC

CONSTANTS d1, d2, t1, t2

NothingRefused == {{}}
OneRefused == {{}} \cup {{d} : d \in Destinations}
Symmetry == Permutations(Threads) \cup Permutations(Destinations)
=============================================================================
