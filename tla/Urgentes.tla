------------------------------ MODULE Urgentes ------------------------------
(***************************************************************************)
(* One urgent request (tus/urgentes): offered to many providers at once,   *)
(* the first that takes it has it, whoever has it may give it back while   *)
(* nothing happened on its work, and then it is offered again.  It closes  *)
(* when nobody is left to answer, when its time runs out (the sweep of     *)
(* each process) or when its client calls it off.                          *)
(*                                                                         *)
(* A transaction that decides with one conditional write is one action;    *)
(* what a call reads or awaits before and after it is a step of its own.   *)
(***************************************************************************)
EXTENDS Integers, FiniteSets

CONSTANTS
  Prestadores,    \* tenants of the service and zone
  Pedidos,        \* calls of providers in flight, of any provider, repeated too
  Barridos,       \* sweeps of expired requests, one in each process
  MaxReaperturas, \* REAPERTURAS_URGENTE_MAXIMAS
  Vigencia,       \* how long the request waits to be taken, in ticks
  MaxFallas       \* bound: processes that stop in the middle of a call

ASSUME UrgentesAssumption ==
  /\ IsFiniteSet(Prestadores)
  /\ MaxReaperturas \in Nat /\ Vigencia \in Nat \ {0} /\ MaxFallas \in Nat

VARIABLES
  sol,       \* the row of the request
  resta,     \* ticks until expira_en; 0: it is not in the future
  oferta,    \* the state of the offer of each provider
  trabajo,   \* the one work of the request
  tanda,     \* the broadcast of each round, run by the call that started it
  hilo,      \* where each call of a provider is
  lista,     \* sweeps that read the request as expired
  avisos,    \* how often its client was told that it closed, and whether once without
             \* closing it: the answer of its creation
  fallas

vars == <<sol, resta, oferta, trabajo, tanda, hilo, lista, avisos, fallas>>

\* EstadoOferta, and "sin": no row.
ESTADOS_OFERTA == {"sin", "notificada", "no_enviada", "acepto", "no_puede",
                   "cerrada_por_otro", "renuncio", "vencida"}

OFERTA_TOMABLE == {"notificada", "no_enviada", "no_puede", "cerrada_por_otro"}

\* Offers nobody answered.
ESPERAN == {"notificada", "no_enviada", "cerrada_por_otro"}

\* A broadcast for each time the request is offered: each provider gives it back once at most.
Rondas == 1..(Cardinality(Prestadores) + 1)

\* A call: its step, its provider, and what it read for its next one.
Libre == [paso |-> "libre", de |-> {}, bien |-> FALSE]
En(paso, p, b) == [paso |-> paso, de |-> {p}, bien |-> b]
SinTanda == [fase |-> "no", faltan |-> {}, dicho |-> FALSE]
FinTanda == [fase |-> "fin", faltan |-> {}, dicho |-> FALSE]

Abierta == sol.estado = "abierta"

\* SIN_ASIGNAR: never assigned, or given back.
SinAsignar == sol.asig \in {"ninguna", "cancelada"}

\* Offers a transaction that has not committed yet holds the lock of.
Trabadas == {p \in Prestadores : \E h \in Pedidos : hilo[h].paso = "escrito" /\ hilo[h].de = {p}}

----------------------------------------------------------------------------
Init ==
  /\ sol = [estado |-> "no", asig |-> "ninguna", prest |-> {}, reap |-> 0]
  /\ resta = 0
  /\ oferta = [p \in Prestadores |-> "sin"]
  /\ trabajo = [estado |-> "no", prest |-> {}, avances |-> "no"]
  /\ tanda = [r \in Rondas |-> SinTanda]
  /\ hilo = [h \in Pedidos |-> Libre]
  /\ lista = {}
  /\ avisos = [veces |-> 0, sinCerrar |-> FALSE]
  /\ fallas = 0

\* crear: the request and one offer, not sent yet, for each candidate.
Crear(candidatos) ==
  /\ sol.estado = "no"
  /\ sol' = [sol EXCEPT !.estado = "abierta"]
  /\ resta' = Vigencia
  /\ oferta' = [p \in Prestadores |-> IF p \in candidatos THEN "no_enviada" ELSE "sin"]
  /\ tanda' = [tanda EXCEPT ![1] = [fase |-> "ofrecer", faltan |-> candidatos, dicho |-> FALSE]]
  /\ UNCHANGED <<trabajo, hilo, lista, avisos, fallas>>

\* (Variant: a late notice is written over a provider that said no.)
AdmiteAviso_Variante(p) == oferta[p] \in ESPERAN \cup {"vencida", "no_puede"}

\* marcarAviso: only an offer that is still waiting changes.
AdmiteAviso(p) == oferta[p] \in ESPERAN \cup {"vencida"}

\* ofrecer, for one of the candidates: the notice left or not, and its offer is marked.
Avisar(r, p, enviada) ==
  /\ tanda[r].fase = "ofrecer" /\ p \in tanda[r].faltan
  /\ p \notin Trabadas
  /\ tanda' = [tanda EXCEPT ![r].faltan = @ \ {p}, ![r].dicho = @ \/ enviada]
  /\ oferta' = IF AdmiteAviso(p)
               THEN [oferta EXCEPT ![p] = IF enviada THEN "notificada" ELSE "no_enviada"]
               ELSE oferta
  /\ UNCHANGED <<sol, resta, trabajo, hilo, lista, avisos, fallas>>

\* A closing takes effect only while nobody has it.
SeCierra == Abierta /\ SinAsignar

\* cerrar: one transaction; who had not answered cannot take it any more.
Cerrar ==
  IF SeCierra
  THEN /\ Trabadas = {}
       /\ sol' = [sol EXCEPT !.estado = "cerrada"]
       /\ oferta' = [p \in Prestadores |-> IF oferta[p] \in ESPERAN THEN "vencida" ELSE oferta[p]]
  ELSE UNCHANGED <<sol, oferta>>

Dicho == [avisos EXCEPT !.veces = @ + 1]

\* (Variant: the client is told whether or not this call closed it.)
DiceCierre_Variante == Dicho

\* Only the call that closes it tells its client ...
DiceCierre == IF SeCierra THEN Dicho ELSE avisos

\* ... but for crear, which answers "nobody to offer it to" also when its closing found
\* it taken, or closed.
RespondeSinCandidatos == IF SeCierra THEN Dicho ELSE [Dicho EXCEPT !.sinCerrar = TRUE]

\* The round that reached nobody closes the request.
CerrarSinAvisados(r) ==
  /\ tanda[r].fase = "ofrecer" /\ tanda[r].faltan = {}
  /\ tanda' = [tanda EXCEPT ![r] = FinTanda]
  /\ IF tanda[r].dicho
     THEN UNCHANGED <<sol, oferta, avisos>>
     ELSE Cerrar /\ avisos' = IF r = 1 THEN RespondeSinCandidatos ELSE DiceCierre
  /\ UNCHANGED <<resta, trabajo, hilo, lista, fallas>>

\* reofrecer: never to who gave it back, never to who said no.
Validos == {p \in Prestadores : oferta[p] \notin {"renuncio", "no_puede"}}

\* reofrecer: who is offered it again; a provider that became valid joins the round.
Reofrecer(r, candidatos) ==
  /\ tanda[r].fase = "reofrecer" /\ r - 1 <= MaxReaperturas
  /\ candidatos \subseteq Validos
  /\ oferta' = [p \in Prestadores |->
                  IF p \in candidatos /\ oferta[p] = "sin" THEN "no_enviada" ELSE oferta[p]]
  /\ tanda' = [tanda EXCEPT ![r] = [fase |-> "ofrecer", faltan |-> candidatos, dicho |-> FALSE]]
  /\ UNCHANGED <<sol, resta, trabajo, hilo, lista, avisos, fallas>>

\* ... and too many reopenings close it.
CerrarPorTope(r) ==
  /\ tanda[r].fase = "reofrecer" /\ r - 1 > MaxReaperturas
  /\ tanda' = [tanda EXCEPT ![r] = FinTanda]
  /\ Cerrar /\ avisos' = DiceCierre
  /\ UNCHANGED <<resta, trabajo, hilo, lista, fallas>>

----------------------------------------------------------------------------
\* asistir: its clock is read before the transaction that decides.
PedirTomar(h, p) ==
  /\ hilo[h] = Libre /\ sol.estado # "no"
  /\ hilo' = [hilo EXCEPT ![h] = En("tomar", p, resta > 0)]
  /\ UNCHANGED <<sol, resta, oferta, trabajo, tanda, lista, avisos, fallas>>

\* (Variant: that somebody has it already is not in the WHERE.)
Gana_Variante(p, aTiempo) == Abierta /\ aTiempo /\ oferta[p] \in OFERTA_TOMABLE

\* tomar: the conditional write, the offer it needs, the index of the winner and the
\* work, which is new or was released by another provider.
Gana(p, aTiempo) ==
  /\ Abierta /\ SinAsignar /\ aTiempo
  /\ oferta[p] \in OFERTA_TOMABLE
  /\ \A q \in Prestadores : oferta[q] # "acepto"
  /\ trabajo.estado = "no" \/ (trabajo.estado = "liberado" /\ trabajo.prest # {p})

\* The request, every offer and the work, in one transaction, or nothing.
Tomar(h, p) ==
  /\ hilo[h].paso = "tomar" /\ hilo[h].de = {p}
  /\ hilo' = [hilo EXCEPT ![h] = Libre]
  /\ IF Gana(p, hilo[h].bien)
     THEN /\ Trabadas \subseteq {q \in Prestadores \ {p} : oferta[q] = "cerrada_por_otro"}
          /\ sol' = [sol EXCEPT !.asig = "aceptada", !.prest = {p}]
          /\ oferta' = [q \in Prestadores |->
                          IF q = p THEN "acepto"
                          ELSE IF oferta[q] \in {"notificada", "no_enviada"}
                               THEN "cerrada_por_otro" ELSE oferta[q]]
          /\ trabajo' = [trabajo EXCEPT !.estado = "vivo", !.prest = {p}]
     ELSE UNCHANGED <<sol, oferta, trabajo>>
  /\ UNCHANGED <<resta, tanda, lista, avisos, fallas>>

\* rechazar: what it reads before it writes.
RechazarLee(h, p) ==
  /\ hilo[h] = Libre
  /\ oferta[p] \in ESPERAN /\ Abierta /\ SinAsignar /\ resta > 0
  /\ hilo' = [hilo EXCEPT ![h] = En("rechazar", p, FALSE)]
  /\ UNCHANGED <<sol, resta, oferta, trabajo, tanda, lista, avisos, fallas>>

\* ... it writes, if the offer still waits, and counts who was told and has not answered:
\* what others have not committed is not in its count.
RechazarEscribe(h, p) ==
  /\ hilo[h].paso = "rechazar" /\ hilo[h].de = {p} /\ p \notin Trabadas
  /\ hilo' = [hilo EXCEPT ![h] =
                IF oferta[p] \in ESPERAN
                THEN En("escrito", p, \A q \in Prestadores \ {p} : oferta[q] # "notificada")
                ELSE Libre]
  /\ UNCHANGED <<sol, resta, oferta, trabajo, tanda, lista, avisos, fallas>>

\* ... and commits; the last one to answer goes on to close.
RechazarConfirma(h, p) ==
  /\ hilo[h].paso = "escrito" /\ hilo[h].de = {p}
  /\ oferta' = [oferta EXCEPT ![p] = "no_puede"]
  /\ hilo' = [hilo EXCEPT ![h] = IF hilo[h].bien THEN En("cerrar", p, FALSE) ELSE Libre]
  /\ UNCHANGED <<sol, resta, trabajo, tanda, lista, avisos, fallas>>

\* noPuede: nobody is left to answer.
CerrarPorRechazos(h) ==
  /\ hilo[h].paso = "cerrar"
  /\ hilo' = [hilo EXCEPT ![h] = Libre]
  /\ Cerrar /\ avisos' = DiceCierre
  /\ UNCHANGED <<resta, trabajo, tanda, lista, fallas>>

\* (Variant: any cancelled work counts as released.)
SePuedeLiberar_Variante ==
  /\ trabajo.avances # "mensajes"
  /\ trabajo.estado = "vivo" => trabajo.avances = "no"

\* What renunciar and liberarPorRenuncia ask of the work: no message, payment or rating;
\* released already, or still as it was created.
SePuedeLiberar ==
  /\ trabajo.avances # "mensajes"
  /\ \/ trabajo.estado = "liberado"
     \/ trabajo.estado = "vivo" /\ trabajo.avances = "no"

\* (Variant: who gave it back waits like the others.)
Devuelta_Variante(p) == [oferta EXCEPT ![p] = "cerrada_por_otro"]

\* It is never offered to who gave it back.
Devuelta(p) == [oferta EXCEPT ![p] = "renuncio"]

\* renunciar: the work, the request (open for a new stretch) and the offer, or nothing.
Renunciar(p) ==
  /\ oferta[p] = "acepto" /\ Abierta /\ sol.asig = "aceptada" /\ sol.prest = {p}
  /\ SePuedeLiberar
  /\ trabajo' = [trabajo EXCEPT !.estado = IF @ = "vivo" THEN "liberado" ELSE @]
  /\ sol' = [sol EXCEPT !.asig = "cancelada", !.reap = @ + 1]
  /\ resta' = Vigencia
  /\ oferta' = Devuelta(p)
  /\ tanda' = [tanda EXCEPT ![sol.reap + 2].fase = "reofrecer"]
  /\ hilo' = [h \in Pedidos |-> [hilo[h] EXCEPT !.bien = @ \/ hilo[h].paso = "tomar"]]
  /\ UNCHANGED <<lista, avisos, fallas>>

----------------------------------------------------------------------------
\* (Variant: a NOT over the nullable column leaves out what was given back.)
Vencida_Variante == Abierta /\ sol.asig = "ninguna" /\ resta = 0

\* vencidas.
Vencida == Abierta /\ SinAsignar /\ resta = 0

\* procesarVencidas reads what ran out.
ListarVencida(b) ==
  /\ b \notin lista /\ Vencida
  /\ lista' = lista \cup {b}
  /\ UNCHANGED <<sol, resta, oferta, trabajo, tanda, hilo, avisos, fallas>>

\* ... and closes each: a provider that took it meanwhile keeps it.
CerrarVencida(b) ==
  /\ b \in lista
  /\ lista' = lista \ {b}
  /\ Cerrar /\ avisos' = DiceCierre
  /\ UNCHANGED <<resta, trabajo, tanda, hilo, fallas>>

\* cancelar of its client: only while it was never taken.
CancelarCliente ==
  /\ Abierta /\ sol.asig = "ninguna" /\ trabajo.estado = "no"
  /\ sol' = [sol EXCEPT !.estado = "cerrada"]
  /\ UNCHANGED <<resta, oferta, trabajo, tanda, hilo, lista, avisos, fallas>>

\* Something happens on the work: a diagnosis, a budget or evidence; or messages, a
\* payment or a rating, which the store of the urgent requests looks at itself.
AvanzarTrabajo(avance) ==
  /\ trabajo.estado = "vivo" /\ trabajo.avances = "no"
  /\ trabajo' = [trabajo EXCEPT !.avances = avance]
  /\ UNCHANGED <<sol, resta, oferta, tanda, hilo, lista, avisos, fallas>>

\* cancelWork and its support variant: by its provider, or by anybody else.
CancelarTrabajo(como) ==
  /\ trabajo.estado = "vivo"
  /\ trabajo' = [trabajo EXCEPT !.estado = como]
  /\ UNCHANGED <<sol, resta, oferta, tanda, hilo, lista, avisos, fallas>>

\* A process stops: its broadcast ends where it is, its open transaction is undone.
CaerTanda(r) ==
  /\ fallas < MaxFallas /\ tanda[r].fase \in {"ofrecer", "reofrecer"}
  /\ tanda' = [tanda EXCEPT ![r] = FinTanda]
  /\ fallas' = fallas + 1
  /\ UNCHANGED <<sol, resta, oferta, trabajo, hilo, lista, avisos>>

CaerPedido(h) ==
  /\ fallas < MaxFallas /\ hilo[h] # Libre
  /\ hilo' = [hilo EXCEPT ![h] = Libre]
  /\ fallas' = fallas + 1
  /\ UNCHANGED <<sol, resta, oferta, trabajo, tanda, lista, avisos>>

CaerBarrido(b) ==
  /\ fallas < MaxFallas /\ b \in lista
  /\ lista' = lista \ {b}
  /\ fallas' = fallas + 1
  /\ UNCHANGED <<sol, resta, oferta, trabajo, tanda, hilo, avisos>>

Tick ==
  /\ resta > 0 /\ resta' = resta - 1
  /\ UNCHANGED <<sol, oferta, trabajo, tanda, hilo, lista, avisos, fallas>>

Next ==
  \/ \E c \in SUBSET Prestadores : Crear(c)
  \/ \E r \in Rondas :
       \/ \E p \in Prestadores, b \in BOOLEAN : Avisar(r, p, b)
       \/ \E c \in SUBSET Prestadores : Reofrecer(r, c)
       \/ CerrarSinAvisados(r) \/ CerrarPorTope(r) \/ CaerTanda(r)
  \/ \E h \in Pedidos :
       \/ \E p \in Prestadores :
            \/ PedirTomar(h, p) \/ Tomar(h, p)
            \/ RechazarLee(h, p) \/ RechazarEscribe(h, p) \/ RechazarConfirma(h, p)
       \/ CerrarPorRechazos(h) \/ CaerPedido(h)
  \/ \E p \in Prestadores : Renunciar(p)
  \/ \E b \in Barridos : ListarVencida(b) \/ CerrarVencida(b) \/ CaerBarrido(b)
  \/ \E a \in {"presupuesto", "mensajes"} : AvanzarTrabajo(a)
  \/ \E c \in {"liberado", "cancelado"} : CancelarTrabajo(c)
  \/ CancelarCliente \/ Tick

Spec == Init /\ [][Next]_vars

\* The sweep runs every 30 seconds in each process (server.ts), a transaction that began
\* ends, and time passes.  Nobody has to answer and no broadcast has to end.
Equidad ==
  /\ WF_vars(Tick)
  /\ \A b \in Barridos : WF_vars(ListarVencida(b)) /\ WF_vars(CerrarVencida(b))
  /\ \A h \in Pedidos, p \in Prestadores : WF_vars(RechazarConfirma(h, p))

SpecViva == Spec /\ Equidad

----------------------------------------------------------------------------
TandaUrgente == [fase : {"no", "reofrecer", "ofrecer", "fin"}, faltan : SUBSET Prestadores, dicho : BOOLEAN]

\* Every variable keeps to its type, and it is given back once by each provider at most.
TypeOK ==
  /\ sol \in [estado : {"no", "abierta", "cerrada"}, asig : {"ninguna", "aceptada", "cancelada"},
              prest : SUBSET Prestadores, reap : 0..Cardinality(Prestadores)]
  /\ resta \in 0..Vigencia
  /\ oferta \in [Prestadores -> ESTADOS_OFERTA]
  /\ trabajo \in [estado : {"no", "vivo", "liberado", "cancelado"}, prest : SUBSET Prestadores,
                  avances : {"no", "presupuesto", "mensajes"}]
  /\ tanda \in [Rondas -> TandaUrgente]
  /\ hilo \in [Pedidos -> [paso : {"libre", "tomar", "rechazar", "escrito", "cerrar"},
                           de : SUBSET Prestadores, bien : BOOLEAN]]
  /\ lista \subseteq Barridos
  /\ avisos \in [veces : Nat, sinCerrar : BOOLEAN]
  /\ fallas \in 0..MaxFallas

Asignados == {p \in Prestadores : oferta[p] = "acepto"}
Renunciaron == {p \in Prestadores : oferta[p] = "renuncio"}

Promesa == INSTANCE AsignacionUrgente
           WITH asignados <- Asignados, renunciaron <- Renunciaron, cerrada <- sol.estado = "cerrada"

\* The offers, seen from outside, are an assignment to one provider at a time that a
\* provider gives back for ever and that closes only unassigned: whatever the order of
\* acceptances, rejections, broadcasts and sweeps.
ImplementaAsignacion == Promesa!Spec

\* The offers, the row of the request and its work name the same provider: the three
\* are written by different tables' conditional writes.  While nobody has the request
\* its work, if any, is one its provider released and that provider gave it back.
FilasDeAcuerdo ==
  /\ Asignados = IF sol.asig = "aceptada" THEN sol.prest ELSE {}
  /\ sol.asig = "aceptada" => /\ Cardinality(sol.prest) = 1
                              /\ trabajo.prest = sol.prest /\ trabajo.estado # "no"
  /\ sol.asig = "cancelada" => /\ trabajo.estado = "liberado" /\ trabajo.prest = sol.prest
                               /\ trabajo.prest \subseteq Renunciaron
  /\ sol.asig = "ninguna" => trabajo.estado = "no"

\* How often it was told by who closed it.
DelCierre == avisos.veces - (IF avisos.sinCerrar THEN 1 ELSE 0)

\* Rejections, rounds and sweeps may all try to close it: whoever does tells its client,
\* once, and what it says stays true, nobody has it and nobody takes it.  Besides, the
\* answer of its creation may say that there is nobody to offer it to without having
\* closed it: only when a provider took it, or it was closed, before; never while it waits.
AvisoDeCierreVerdadero ==
  /\ DelCierre <= 1
  /\ DelCierre = 1 => sol.estado = "cerrada" /\ Asignados = {}
  /\ avisos.sinCerrar => sol.estado = "cerrada" \/ sol.asig # "ninguna"

\* A provider that said no is not written over by a notice that was still on its way,
\* by a closing or by somebody else's acceptance: only its own acceptance changes it.
NoSeDeshaceUnNo ==
  [][\A p \in Prestadores : oferta[p] = "no_puede" => oferta'[p] \in {"no_puede", "acepto"}]_vars

\* Never left waiting: a request nobody has is taken or closed, also after it was given
\* back, whatever answers, notices and processes are lost.
NoQuedaEsperando == (Abierta /\ SinAsignar) ~> ~(Abierta /\ SinAsignar)
=============================================================================
