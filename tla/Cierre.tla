------------------------------- MODULE Cierre -------------------------------
(***************************************************************************)
(* How the order of a turno is closed (tus/work/cierre.ts): its provider   *)
(* finishes it, its client confirms or observes it, and the window         *)
(* confirms it by itself.  Confirming is a chain of separate awaits over   *)
(* the closing row, the turno and the money, run at once by requests and   *)
(* by the periodic sweep of several processes, and cut at any point by a   *)
(* failure.  Every await is one action here; `hilo' is where each running  *)
(* request or sweep is.                                                    *)
(***************************************************************************)
EXTENDS Integers, FiniteSets, Sequences

CONSTANTS
  Trabajos,   \* orders of turnos, numbered: the sweep breaks ties by identifier
  Pedidos,    \* requests in flight (provider, client, platform)
  Barridos,   \* sweeps in flight, at most one in each process (server.ts)
  Ventana,    \* VENTANA_CONFIRMACION_MS
  Limite,     \* how many closings one sweep looks at
  MaxFallas,  \* bound: crashes and failed awaits
  Horizonte   \* bound: last instant of the clock

Hilos == Pedidos \cup Barridos

ASSUME CierreAssumption ==
  /\ Trabajos \subseteq Nat /\ IsFiniteSet(Trabajos)
  /\ Pedidos \cap Barridos = {}
  /\ Ventana \in Nat \ {0} /\ Limite \in Nat \ {0}
  /\ MaxFallas \in Nat /\ Horizonte \in Nat

VARIABLES
  cierre,    \* the row of the closing of each work
  turno,     \* the state of its reservation
  pagado,    \* works whose approved payments reach their total
  completo,  \* works whose own status is completed
  liberado,  \* works whose held money was released
  freno,     \* works something of other domains blocks (refund, discrepancy, case)
  baja,      \* works whose turno somebody read as confirmed, to call it off
  pisado,    \* history: works whose turno, already completed, was called off so
  avisos,    \* how often "your work was confirmed" was told
  hilo, fallas, ahora

bajas == <<baja, pisado>>
vars == <<cierre, turno, pagado, completo, liberado, freno, bajas, avisos, hilo, fallas, ahora>>

SinCierre == [fin |-> FALSE, vence |-> 0, confirmada |-> "no", obs |-> "no", resuelta |-> 0]

\* confirmada: its origin.  obs: never observed, open, or settled at `resuelta'.
CierreTrabajo ==
  [fin : BOOLEAN, vence : Nat, confirmada : {"no", "cliente", "automatica"},
   obs : {"no", "abierta", "resuelta"}, resuelta : Nat]

PASOS == {"libre", "crear", "mirar", "buscar", "mirar_turno", "confirmar", "releer",
          "completar", "completar_trabajo", "evaluar"}

Libre == [paso |-> "libre", resto |-> <<>>, gano |-> FALSE]
Ocupado(paso, resto) == [paso |-> paso, resto |-> resto, gano |-> FALSE]

\* The work a thread is at: the first of what it has left.
De(h) == Head(hilo[h].resto)
En(h, paso) == hilo[h].paso = paso

\* (Variant: what blocks a work ends the sweep.)
Siguiente_Variante(h) == Libre

\* (Variant: the end of the list is not looked for.)
Siguiente_SinFin(h) == Ocupado("mirar", Tail(hilo[h].resto))

\* The rest of a sweep: the next work of the list it read, or nothing more.
Siguiente(h) == IF Len(hilo[h].resto) > 1 THEN Ocupado("mirar", Tail(hilo[h].resto)) ELSE Libre

Avanza(h, paso) == hilo' = [hilo EXCEPT ![h].paso = paso]
Termina(h) == hilo' = [hilo EXCEPT ![h] = Siguiente(h)]

----------------------------------------------------------------------------
\* ABIERTO: what a confirmation and an observation expect of the row.
Abierto(c) == c.fin /\ c.confirmada = "no" /\ c.obs # "abierta"

\* (Variant: the window of a work is not waited for.)
Vencido_Variante(w) == Abierto(cierre[w])
Vencido(w) == Abierto(cierre[w]) /\ cierre[w].vence <= ahora

Antes(v, w) == cierre[v].vence < cierre[w].vence \/ (cierre[v].vence = cierre[w].vence /\ v < w)

\* vencidos: the overdue closings, oldest first, no more than the limit.
ListaVencidos ==
  LET s == {w \in Trabajos : Vencido(w)}
      lugar(w) == Cardinality({v \in s : Antes(v, w)}) + 1
      n == IF Cardinality(s) < Limite THEN Cardinality(s) ELSE Limite
  IN [k \in 1..n |-> CHOOSE w \in s : lugar(w) = k]

\* (Variant: a reservation that is not completed does not keep the money held.)
PuedeLiberar_Variante(w) ==
  /\ cierre[w].confirmada # "no"
  /\ cierre[w].obs # "abierta"
  /\ w \in pagado

\* evaluarLiquidacionEn for the order of a turno.
PuedeLiberar(w) ==
  /\ turno[w] = "completed"
  /\ cierre[w].confirmada # "no"
  /\ cierre[w].obs # "abierta"
  /\ w \in pagado

----------------------------------------------------------------------------
Init ==
  /\ cierre = [w \in Trabajos |-> SinCierre]
  /\ turno = [w \in Trabajos |-> "confirmed"]
  /\ pagado \in SUBSET Trabajos
  /\ completo = {} /\ liberado = {} /\ freno = {} /\ baja = {} /\ pisado = {}
  /\ avisos = [w \in Trabajos |-> 0]
  /\ hilo = [h \in Hilos |-> Libre]
  /\ fallas = 0
  /\ ahora = 0

\* finalizar up to its last read: no closing yet, and a turno that is confirmed.
PedirFinalizar(h, w) ==
  /\ En(h, "libre")
  /\ ~cierre[w].fin /\ turno[w] = "confirmed"
  /\ hilo' = [hilo EXCEPT ![h] = Ocupado("crear", <<w>>)]
  /\ UNCHANGED <<cierre, turno, pagado, completo, liberado, freno, bajas, avisos, fallas, ahora>>

\* (Variant: a second finalization writes over the first.)
PuedeCrear_Variante(w) == cierre[w].confirmada = "no"
PuedeCrear(w) == ~cierre[w].fin

\* crear: the primary key keeps the first row.
CrearCierre(h) ==
  /\ En(h, "crear")
  /\ cierre' = IF PuedeCrear(De(h))
               THEN [cierre EXCEPT ![De(h)].fin = TRUE, ![De(h)].vence = ahora + Ventana]
               ELSE cierre
  /\ Termina(h)
  /\ UNCHANGED <<turno, pagado, completo, liberado, freno, bajas, avisos, fallas, ahora>>

\* The client confirms.
PedirConfirmar(h, w) ==
  /\ En(h, "libre") /\ cierre[w].fin
  /\ hilo' = [hilo EXCEPT ![h] = Ocupado("buscar", <<w>>)]
  /\ UNCHANGED <<cierre, turno, pagado, completo, liberado, freno, bajas, avisos, fallas, ahora>>

\* procesarVencidos reads its list once.
IniciarBarrido(h) ==
  /\ En(h, "libre") /\ ListaVencidos # <<>>
  /\ hilo' = [hilo EXCEPT ![h] = Ocupado("mirar", ListaVencidos)]
  /\ UNCHANGED <<cierre, turno, pagado, completo, liberado, freno, bajas, avisos, fallas, ahora>>

\* ... and, for each work, what forbids confirming it automatically.
MirarBloqueos(h) ==
  /\ En(h, "mirar")
  /\ IF De(h) \in freno THEN Termina(h) ELSE Avanza(h, "buscar")
  /\ UNCHANGED <<cierre, turno, pagado, completo, liberado, freno, bajas, avisos, fallas, ahora>>

\* aplicarConfirmacion: its first read of the closing.
BuscarCierre(h) ==
  /\ En(h, "buscar")
  /\ CASE cierre[De(h)].obs = "abierta" -> Termina(h)
       [] Abierto(cierre[De(h)]) -> Avanza(h, "mirar_turno")
       [] OTHER -> Avanza(h, "releer")
  /\ UNCHANGED <<cierre, turno, pagado, completo, liberado, freno, bajas, avisos, fallas, ahora>>

MirarTurno(h) ==
  /\ En(h, "mirar_turno")
  /\ IF turno[De(h)] \in {"confirmed", "completed"} THEN Avanza(h, "confirmar") ELSE Termina(h)
  /\ UNCHANGED <<cierre, turno, pagado, completo, liberado, freno, bajas, avisos, fallas, ahora>>

\* (Variant: whoever asked believes it was the one that confirmed.)
Gana_Variante(w) == TRUE
Gana(w) == Abierto(cierre[w])

\* The conditional write of the store.
ConfirmarCierre(h) ==
  LET origen == IF h \in Barridos THEN "automatica" ELSE "cliente" IN
  /\ En(h, "confirmar")
  /\ cierre' = IF Abierto(cierre[De(h)])
               THEN [cierre EXCEPT ![De(h)].confirmada = origen] ELSE cierre
  /\ hilo' = [hilo EXCEPT ![h].paso = "releer", ![h].gano = Gana(De(h))]
  /\ UNCHANGED <<turno, pagado, completo, liberado, freno, bajas, avisos, fallas, ahora>>

\* Lost to an observation: it stays unconfirmed.
Releer(h) ==
  /\ En(h, "releer")
  /\ IF cierre[De(h)].confirmada = "no" THEN Termina(h) ELSE Avanza(h, "completar")
  /\ UNCHANGED <<cierre, turno, pagado, completo, liberado, freno, bajas, avisos, fallas, ahora>>

\* First effect: completarReserva.
CompletarReserva(h) ==
  /\ En(h, "completar")
  /\ turno' = IF turno[De(h)] = "confirmed" THEN [turno EXCEPT ![De(h)] = "completed"] ELSE turno
  /\ Avanza(h, "completar_trabajo")
  /\ UNCHANGED <<cierre, pagado, completo, liberado, freno, bajas, avisos, fallas, ahora>>

Pagados(w) == {w} \cap pagado

\* Second: completarSiPagado.
CompletarSiPagado(h) ==
  /\ En(h, "completar_trabajo")
  /\ completo' = completo \cup Pagados(De(h))
  /\ Avanza(h, "evaluar")
  /\ UNCHANGED <<cierre, turno, pagado, liberado, freno, bajas, avisos, fallas, ahora>>

\* Third: evaluarPagos, one finance transaction, and the notice of who won.
EvaluarPagos(h) ==
  /\ En(h, "evaluar")
  /\ liberado' = IF PuedeLiberar(De(h)) THEN liberado \cup {De(h)} ELSE liberado
  /\ avisos' = IF hilo[h].gano THEN [avisos EXCEPT ![De(h)] = @ + 1] ELSE avisos
  /\ Termina(h)
  /\ UNCHANGED <<cierre, turno, pagado, completo, freno, bajas, fallas, ahora>>

\* observar: the client says something is wrong, in one conditional write.
Observar(w) ==
  /\ Abierto(cierre[w])
  /\ cierre' = [cierre EXCEPT ![w].obs = "abierta"]
  /\ UNCHANGED <<turno, pagado, completo, liberado, freno, bajas, avisos, hilo, fallas, ahora>>

\* resolverObservacion: the platform settles it, and the money is evaluated.
ResolverObservacion(h, w) ==
  /\ En(h, "libre") /\ cierre[w].obs = "abierta"
  /\ cierre' = [cierre EXCEPT ![w].obs = "resuelta", ![w].resuelta = ahora]
  /\ hilo' = [hilo EXCEPT ![h] = Ocupado("evaluar", <<w>>)]
  /\ UNCHANGED <<turno, pagado, completo, liberado, freno, bajas, avisos, fallas, ahora>>

----------------------------------------------------------------------------
(* What other domains do meanwhile.                                        *)

\* cambiarEstadoTurno and cancelarTurnoCliente read a turno that is confirmed
\* (its client and its provider until it is finished, the administration
\* always) ...
BajaLee(w, esAdmin) ==
  /\ turno[w] = "confirmed" /\ w \notin baja
  /\ ~esAdmin => ~cierre[w].fin
  /\ baja' = baja \cup {w}
  /\ UNCHANGED <<cierre, turno, pagado, completo, liberado, freno, pisado, avisos, hilo, fallas, ahora>>

\* ... and write it later, by its identifier, whatever it has become.  The calendar
\* they hold keeps other calls off away, not the closing.
BajaEscribe(w, nuevo) ==
  /\ w \in baja
  /\ turno' = [turno EXCEPT ![w] = nuevo]
  /\ pisado' = IF turno[w] = "completed" THEN pisado \cup {w} ELSE pisado
  /\ baja' = baja \ {w}
  /\ UNCHANGED <<cierre, pagado, completo, liberado, freno, avisos, hilo, fallas, ahora>>

\* ... unless they fail first.
BajaFalla(w) ==
  /\ w \in baja
  /\ baja' = baja \ {w}
  /\ UNCHANGED <<cierre, turno, pagado, completo, liberado, freno, pisado, avisos, hilo, fallas, ahora>>

\* The approved balance: payable once the turno is completed and its closing
\* confirmed; one finance transaction completes the work and releases.
PagarSaldo(w) ==
  /\ w \notin pagado
  /\ turno[w] = "completed" /\ cierre[w].confirmada # "no" /\ cierre[w].obs # "abierta"
  /\ pagado' = pagado \cup {w}
  /\ completo' = completo \cup {w}
  /\ liberado' = liberado \cup {w}
  /\ UNCHANGED <<cierre, turno, freno, bajas, avisos, hilo, fallas, ahora>>

\* Something that blocks the automatic confirmation appears, or is over.
Frenar(w) ==
  /\ freno' = IF w \in freno THEN freno \ {w} ELSE freno \cup {w}
  /\ UNCHANGED <<cierre, turno, pagado, completo, liberado, bajas, avisos, hilo, fallas, ahora>>

\* The process of a thread stops: its request, or its whole sweep, is lost.
Caer(h) ==
  /\ ~En(h, "libre") /\ fallas < MaxFallas
  /\ hilo' = [hilo EXCEPT ![h] = Libre]
  /\ fallas' = fallas + 1
  /\ UNCHANGED <<cierre, turno, pagado, completo, liberado, freno, bajas, avisos, ahora>>

\* An await of aplicarConfirmacion fails: a sweep goes on with the next work.
Fallar(h) ==
  /\ h \in Barridos /\ ~(hilo[h].paso \in {"libre", "mirar"}) /\ fallas < MaxFallas
  /\ Termina(h)
  /\ fallas' = fallas + 1
  /\ UNCHANGED <<cierre, turno, pagado, completo, liberado, freno, bajas, avisos, ahora>>

Tick ==
  /\ ahora < Horizonte
  /\ ahora' = ahora + 1
  /\ UNCHANGED <<cierre, turno, pagado, completo, liberado, freno, bajas, avisos, hilo, fallas>>

----------------------------------------------------------------------------
Paso(h) ==
  \/ CrearCierre(h)
  \/ MirarBloqueos(h)
  \/ BuscarCierre(h)
  \/ MirarTurno(h)
  \/ ConfirmarCierre(h)
  \/ Releer(h)
  \/ CompletarReserva(h)
  \/ CompletarSiPagado(h)
  \/ EvaluarPagos(h)

Pedir(h, w) == PedirFinalizar(h, w) \/ PedirConfirmar(h, w) \/ ResolverObservacion(h, w)

DeOtros(w) ==
  \/ Observar(w)
  \/ \E esAdmin \in BOOLEAN : BajaLee(w, esAdmin)
  \/ \E nuevo \in {"cancelled", "no-show"} : BajaEscribe(w, nuevo)
  \/ BajaFalla(w)
  \/ PagarSaldo(w)
  \/ Frenar(w)

Next ==
  \/ \E h \in Hilos : Paso(h) \/ Caer(h) \/ Fallar(h)
  \/ \E h \in Pedidos, w \in Trabajos : Pedir(h, w)
  \/ \E h \in Barridos : IniciarBarrido(h)
  \/ \E w \in Trabajos : DeOtros(w)
  \/ Tick

Spec == Init /\ [][Next]_vars

\* The timer of every process starts a sweep again and again, what was started
\* goes on, and time passes.  Nobody is obliged to ask for anything.
Equidad ==
  /\ \A h \in Hilos : WF_vars(Paso(h))
  /\ \A h \in Barridos : WF_vars(IniciarBarrido(h))
  /\ WF_vars(Tick)

SpecViva == Spec /\ Equidad

----------------------------------------------------------------------------
TypeOK ==
  /\ cierre \in [Trabajos -> CierreTrabajo]
  /\ turno \in [Trabajos -> {"confirmed", "completed", "cancelled", "no-show"}]
  /\ pagado \subseteq Trabajos /\ completo \subseteq Trabajos
  /\ liberado \subseteq Trabajos /\ freno \subseteq Trabajos
  /\ baja \subseteq Trabajos /\ pisado \subseteq Trabajos
  /\ avisos \in [Trabajos -> Nat]
  /\ hilo \in [Hilos -> [paso : PASOS, resto : Seq(Trabajos), gano : BOOLEAN]]
  /\ \A h \in Hilos : hilo[h].resto = <<>> <=> hilo[h].paso = "libre"
  /\ fallas \in 0..MaxFallas /\ ahora \in 0..Horizonte

\* What was released was delivered, closed without an open complaint and fully
\* paid, whatever happened between the awaits of whoever confirmed it.  It stays
\* so, but for one thing: who had read the turno as confirmed before it was
\* completed may still call it off, and the money stays released.
LiberadoSoloCerrado ==
  \A w \in liberado :
    /\ turno[w] = "completed" \/ w \in pisado
    /\ cierre[w].confirmada # "no" /\ cierre[w].obs # "abierta"
    /\ w \in pagado

\* The work of a turno is completed (and may be rated) only once its closing is
\* confirmed and its total paid, whichever of the two came last (payments are
\* never reversed here: refunds and chargebacks are the subject of CobroTurno).
CompletoSoloCerrado ==
  \A w \in completo : cierre[w].confirmada # "no" /\ w \in pagado

\* Neither the money nor the work runs ahead of the closing.
EfectosSoloCerrados == LiberadoSoloCerrado /\ CompletoSoloCerrado

\* A confirmation is final: no observation opens after it and nobody confirms
\* again with another origin ("cannot both win").
ConfirmadaEsFinal ==
  [][\A w \in Trabajos : cierre[w].confirmada # "no" => cierre'[w] = cierre[w]]_vars

\* The client is told once that its work was confirmed, however many requests
\* and sweeps confirm it at the same time.
UnSoloAviso == \A w \in Trabajos : avisos[w] <= 1

\* Nothing is confirmed automatically before its window ran out or while an
\* observation is open, although the sweep decides on a list it read before.
AutomaticaSoloVencida ==
  [][\A w \in Trabajos :
       (cierre[w].confirmada = "no" /\ cierre'[w].confirmada = "automatica") =>
         cierre[w].vence <= ahora /\ cierre[w].obs # "abierta"]_vars

\* "asking again returns what is stored: the window never restarts", also for
\* two finalizations at once.
VentanaNoSeReinicia ==
  [][\A w \in Trabajos : cierre[w].fin => cierre'[w].fin /\ cierre'[w].vence = cierre[w].vence]_vars

\* The row of a closing only goes forward: it keeps the window it was made with, and
\* stops changing when it is confirmed.
CierreSoloAvanza == ConfirmadaEsFinal /\ VentanaNoSeReinicia

\* A closing whose window ran out, with nothing against it.
Confirmable(w) == Vencido(w) /\ turno[w] = "confirmed" /\ w \notin freno

\* It is not left that way: some sweep confirms it, unless something turns up.
VentanaSeCumple == \A w \in Trabajos : Confirmable(w) ~> ~Confirmable(w)

\* "a confirmation whose effects were interrupted is completed by asking again
\* (or by the next run of the automatic confirmation)" (cierre.ts).
EfectosSeCompletan ==
  \A w \in Trabajos :
    (cierre[w].confirmada # "no" /\ turno[w] = "confirmed") ~> turno[w] # "confirmed"
=============================================================================
