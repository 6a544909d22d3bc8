---------------------------- MODULE MCIpcChannel ----------------------------
(***************************************************************************)
(* A small instance of IpcChannel for TLC.                                  *)
(***************************************************************************)
EXTENDS IpcChannel

CONSTANTS a, o1, d1
=============================================================================
