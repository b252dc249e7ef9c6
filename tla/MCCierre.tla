------------------------------ MODULE MCCierre ------------------------------
(***************************************************************************)
(* Small instances of Cierre: one work that several requests and sweeps    *)
(* close at once, and two works that share a sweep.                        *)
(***************************************************************************)
EXTENDS Cierre, TLC

Simetria == Permutations(Pedidos) \cup Permutations(Barridos)

\* For the runs about the sweep alone: every work was just finished.
InitFinalizados ==
  /\ cierre = [w \in Trabajos |-> [SinCierre EXCEPT !.fin = TRUE, !.vence = Ventana]]
  /\ turno = [w \in Trabajos |-> "confirmed"]
  /\ pagado = {} /\ completo = {} /\ liberado = {} /\ freno = {}
  /\ baja = {} /\ pisado = {}
  /\ avisos = [w \in Trabajos |-> 0]
  /\ hilo = [h \in Hilos |-> Libre]
  /\ fallas = 0 /\ ahora = 0

SpecBarridos == InitFinalizados /\ [][Next]_vars /\ Equidad
=============================================================================
