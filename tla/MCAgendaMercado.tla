--------------------------- MODULE MCAgendaMercado ---------------------------
(***************************************************************************)
(* Two turnos reached through both doors of the agenda.                    *)
(***************************************************************************)
EXTENDS AgendaMercado, TLC

RangosManualesMC == {}
RangosBloqueoMC == {<<1, 3>>}

\* With MaxVersion = 1 nothing is moved: whether it could be, the version of a
\* row and the notices that name it decide nothing, and no property of these
\* runs is about them.
FilaVista(r) == <<r.estado, r.inicio, r.fin, r.expira, r.cliente, r.origen, r.conSena>>
Vista == <<[t \in Turnos |-> FilaVista(reserva[t])], bloqueo, orden, pagado, cierre,
           ahora, escritura, trabajo, tx>>

Simetria == Permutations(Turnos)
=============================================================================
