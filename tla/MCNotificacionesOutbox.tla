------------------------ MODULE MCNotificacionesOutbox ------------------------
(* NotificacionesOutbox on a small instance.  No symmetry: one of its       *)
(* properties is a liveness property.                                      *)
EXTENDS NotificacionesOutbox, TLC
=============================================================================
