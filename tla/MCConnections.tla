---------------------------- MODULE MCConnections ----------------------------
(***************************************************************************)
(* Small instances of Connections for TLC.                                  *)
(***************************************************************************)
EXTENDS Connections, TLC

CONSTANTS c1, c2, w1, w2, k1

ClientOrProxy == c1 :> k1 @@ c2 :> NoKey
WorkerSymmetry == Permutations(Workers)
=============================================================================
