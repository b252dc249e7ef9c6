-------------------------- MODULE AsignacionUrgente --------------------------
(***************************************************************************)
(* What an urgent request promises, seen from outside: at any moment at    *)
(* most one provider has it; whoever gave it back never has it again; and  *)
(* it is closed only while nobody has it, for ever.  Urgentes, with its    *)
(* offers, broadcasts and sweeps, is shown to implement this.              *)
(***************************************************************************)
CONSTANT Prestadores

VARIABLES
  asignados,    \* who has the request now
  renunciaron,  \* who had it and gave it back
  cerrada       \* it will not be taken any more

Init == asignados = {} /\ renunciaron = {} /\ cerrada = FALSE

\* The first provider that takes it.
Asignar(p) ==
  /\ ~cerrada /\ asignados = {} /\ p \notin renunciaron
  /\ asignados' = {p}
  /\ UNCHANGED <<renunciaron, cerrada>>

\* The provider that has it gives it back: free to be taken again.
Devolver ==
  /\ ~cerrada /\ asignados # {}
  /\ asignados' = {}
  /\ renunciaron' = renunciaron \cup asignados
  /\ UNCHANGED cerrada

Cerrar ==
  /\ ~cerrada /\ asignados = {}
  /\ cerrada' = TRUE
  /\ UNCHANGED <<asignados, renunciaron>>

Next == (\E p \in Prestadores : Asignar(p)) \/ Devolver \/ Cerrar

Spec == Init /\ [][Next]_<<asignados, renunciaron, cerrada>>
=============================================================================
