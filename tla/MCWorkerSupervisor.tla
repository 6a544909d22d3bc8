------------------------- MODULE MCWorkerSupervisor -------------------------
(***************************************************************************)
(* A small instance of WorkerSupervisor for TLC.                            *)
(***************************************************************************)
EXTENDS WorkerSupervisor

CONSTANTS t1, t2
=============================================================================
