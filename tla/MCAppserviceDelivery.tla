------------------------ MODULE MCAppserviceDelivery ------------------------
(***************************************************************************)
(* A small instance of AppserviceDelivery for TLC.                          *)
(***************************************************************************)
EXTENDS AppserviceDelivery

CONSTANT k1
=============================================================================
