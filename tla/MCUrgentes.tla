---------------------------- MODULE MCUrgentes ----------------------------
(* Urgentes on a small instance.                                           *)
EXTENDS Urgentes
=============================================================================
