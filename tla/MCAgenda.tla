------------------------------ MODULE MCAgenda ------------------------------
(***************************************************************************)
(* Small instances of Agenda: two turnos that compete for neighbouring     *)
(* starts, one block, and a clock that passes validities and the window.   *)
(***************************************************************************)
EXTENDS Agenda, TLC

RangosManualesMC == {<<1, 3>>}
RangosBloqueoMC == {<<2, 3>>}

\* A row that gave its time back is never written again and its time, its
\* deadline and how it was made decide nothing; nor does the deadline of a row
\* that does not wait.
FilaVista(r) ==
  IF r.estado \in LIBERAN THEN <<r.estado, r.cliente, r.conSena, r.version>>
  ELSE <<r.estado, r.inicio, r.fin, IF r.estado \in ESPERAN THEN r.expira ELSE 0,
         r.cliente, r.origen, r.admite, r.conSena, r.version>>
Vista == <<[t \in Turnos |-> FilaVista(reserva[t])], bloqueo, permite, orden, pagado,
           cierre, avisos, escritura, ahora>>

Simetria == Permutations(Turnos)
=============================================================================
