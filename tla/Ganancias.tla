------------------------------ MODULE Ganancias ------------------------------
(***************************************************************************)
(* What TUS owes one provider and how it is paid out                       *)
(* (finance/servicios/ganancias.ts): an append-only ledger of earnings,    *)
(* fees and reversals; payout requests that reserve exactly the movements  *)
(* they pay; and the transfer through Mercado Pago, whose answers are      *)
(* lost, late or repeated.  A call reads a request, awaits, and writes on  *)
(* condition that its version did not change; a resend uses the same key.  *)
(***************************************************************************)
EXTENDS Sumas

CONSTANTS
  Obligaciones,    \* payments TUS collected for this provider
  Ajustes,         \* keys of manual adjustments
  Importe,         \* the signed amount of each movement
  Minimo,          \* the minimum payout
  MaxSolicitudes,  \* bound: payout requests ever made
  MaxVersion,      \* bound: no new status is written beyond this version
  MaxReenvios,     \* bound: times each request is resent
  Hilos            \* calls in flight: provider, administration, notifications

Solicitudes == 1..MaxSolicitudes

\* Movements of the ledger that are owed; those of the requests are <<tipo, request>>.
Debidos == ({"earning", "fee", "reversal"} \X Obligaciones) \cup ({"adjustment"} \X Ajustes)
DeSolicitud == {"payout_reserve", "payout_release", "payout_completed"} \X Solicitudes

ASSUME GananciasAssumption ==
  /\ IsFiniteSet(Obligaciones) /\ IsFiniteSet(Ajustes)
  /\ Importe \in [Debidos -> Int]
  /\ Minimo \in Nat /\ MaxSolicitudes \in Nat /\ MaxVersion \in Nat /\ MaxReenvios \in Nat

VARIABLES
  libro,      \* movements booked
  retenidas,  \* obligations whose settlement is held and was never released
  solicitud,  \* the payout requests
  item,       \* active items of each request
  mp,         \* what Mercado Pago has of each request
  vuelo,      \* requests with a sending that timed out and may still arrive
  reenvios,   \* history: times each request was resent
  hilo

vars == <<libro, retenidas, solicitud, item, mp, vuelo, reenvios, hilo>>

SinSolicitud == [estado |-> "no", mec |-> "no", ids |-> FALSE, version |-> 0, monto |-> 0]
Libre == [paso |-> "libre", s |-> 0, version |-> 0, resp |-> "no", monto |-> 0,
          toma |-> {}, vistas |-> {}]
En(paso, s) == [Libre EXCEPT !.paso = paso, !.s = s, !.version = solicitud[s].version]

Abiertas == {s \in Solicitudes : solicitud[s].estado \in {"requested", "processing"}}
Creadas == {s \in Solicitudes : solicitud[s].estado # "no"}

\* TRANSICIONES: nothing skips a state.
TRANSICIONES == {<<"requested", "processing">>, <<"requested", "cancelled">>,
                 <<"processing", "paid">>, <<"processing", "failed">>}

Retenido(m) == m[1] # "adjustment" /\ m[2] \in retenidas
Montos(tipo) == Suma([s \in Solicitudes |-> solicitud[s].monto], {s \in Solicitudes : <<tipo, s>> \in libro})

\* calcularSaldo: what is owed and not held, less what open and paid requests took.
Disponible ==
  Suma(Importe, {m \in libro \cap Debidos : ~Retenido(m)}) - Montos("payout_reserve") + Montos("payout_release")

Tomados == UNION {item[s] : s \in Solicitudes}

\* The movements a new request takes: owed, not held, in no other request.
Libres == {m \in (libro \cap Debidos) \ Tomados : ~Retenido(m)}

----------------------------------------------------------------------------
Init ==
  /\ libro = {} /\ retenidas = {}
  /\ solicitud = [s \in Solicitudes |-> SinSolicitud]
  /\ item = [s \in Solicitudes |-> {}]
  /\ mp = [s \in Solicitudes |-> "no"]
  /\ vuelo = {} /\ reenvios = [s \in Solicitudes |-> 0]
  /\ hilo = [h \in Hilos |-> Libre]

\* An approved payment TUS collected: its earning, held or not, and its fee if reported.
Aprobar(o, retenida, conTarifa) ==
  /\ <<"earning", o>> \notin libro
  /\ libro' = libro \cup {<<"earning", o>>} \cup (IF conTarifa THEN {<<"fee", o>>} ELSE {})
  /\ retenidas' = IF retenida THEN retenidas \cup {o} ELSE retenidas
  /\ UNCHANGED <<solicitud, item, mp, vuelo, reenvios, hilo>>

\* registrarFeeProveedor: the fee reported later, once.
DebitarTarifa(o) ==
  /\ <<"earning", o>> \in libro /\ <<"fee", o>> \notin libro
  /\ libro' = libro \cup {<<"fee", o>>}
  /\ UNCHANGED <<retenidas, solicitud, item, mp, vuelo, reenvios, hilo>>

\* A refund or a chargeback: one reversal of an earning, whichever comes first.
Revertir(o) ==
  /\ <<"earning", o>> \in libro /\ <<"reversal", o>> \notin libro
  /\ libro' = libro \cup {<<"reversal", o>>}
  /\ UNCHANGED <<retenidas, solicitud, item, mp, vuelo, reenvios, hilo>>

\* The settlement of a held payment is released (never one that was reversed).
LiberarRetencion(o) ==
  /\ o \in retenidas /\ <<"reversal", o>> \notin libro
  /\ retenidas' = retenidas \ {o}
  /\ UNCHANGED <<libro, solicitud, item, mp, vuelo, reenvios, hilo>>

\* ajustar: once for each key.
Ajustar(k) ==
  /\ <<"adjustment", k>> \notin libro
  /\ libro' = libro \cup {<<"adjustment", k>>}
  /\ UNCHANGED <<retenidas, solicitud, item, mp, vuelo, reenvios, hilo>>

----------------------------------------------------------------------------
\* solicitar: everything available, decided on the snapshot of its transaction.
SolicitarLee(h) ==
  /\ hilo[h] = Libre
  /\ Abiertas = {} /\ Creadas # Solicitudes
  /\ Disponible > 0 /\ Disponible >= Minimo
  /\ hilo' = [hilo EXCEPT ![h] = [Libre EXCEPT !.paso = "solicitar", !.monto = Disponible,
                                               !.toma = Libres, !.vistas = Creadas]]
  /\ UNCHANGED <<libro, retenidas, solicitud, item, mp, vuelo, reenvios>>

\* (Variant: the transaction is not SERIALIZABLE.)
SinCambios_Variante(vistas) == TRUE

\* SERIALIZABLE: no other request was made since the snapshot; the finance service books
\* its movements at READ COMMITTED, so those are not noticed.
SinCambios(vistas) == Creadas = vistas

\* crearAtomica: the request, its items and its reserve.
SolicitarEscribe(h) ==
  /\ hilo[h].paso = "solicitar"
  /\ hilo' = [hilo EXCEPT ![h] = Libre]
  /\ IF SinCambios(hilo[h].vistas) /\ Creadas # Solicitudes
     THEN LET s == Cardinality(Creadas) + 1 IN
          /\ solicitud' = [solicitud EXCEPT ![s] = [estado |-> "requested", mec |-> "no",
                             ids |-> FALSE, version |-> 1, monto |-> hilo[h].monto]]
          /\ item' = [item EXCEPT ![s] = hilo[h].toma]
          /\ libro' = libro \cup {<<"payout_reserve", s>>}
     ELSE UNCHANGED <<solicitud, item, libro>>
  /\ UNCHANGED <<retenidas, mp, vuelo, reenvios>>

\* What each call asks of the request it read: cancelar (of the provider or the
\* administration), procesar with its mechanism, marcarPagada, marcarFallida
\* (exigirSinTransferenciaEnviada), reenviar, and the refresh or the notification.
Admite(s, paso) ==
  CASE paso \in {"cancelar", "manual", "mercado_pago"} -> solicitud[s].estado = "requested"
    [] paso \in {"pagar", "fallar"} -> solicitud[s].estado = "processing" /\ solicitud[s].mec = "manual"
    [] paso = "enviar" -> solicitud[s].estado = "processing" /\ solicitud[s].mec = "mp" /\ ~solicitud[s].ids
    [] paso = "consultar" -> solicitud[s].estado = "processing" /\ solicitud[s].ids

PASOS == {"cancelar", "manual", "mercado_pago", "pagar", "fallar", "enviar", "consultar"}

\* A call reads its request.
Leer(h, s, paso) ==
  /\ hilo[h] = Libre
  /\ Admite(s, paso)
  /\ paso = "enviar" => reenvios[s] < MaxReenvios
  /\ hilo' = [hilo EXCEPT ![h] = En(paso, s)]
  /\ reenvios' = [reenvios EXCEPT ![s] = IF paso = "enviar" THEN @ + 1 ELSE @]
  /\ UNCHANGED <<libro, retenidas, solicitud, item, mp, vuelo>>

\* (Variant: the write only looks at the state it read, not at the version.)
Vigente_Variante(h) == solicitud[hilo[h].s].estado \in {"requested", "processing"}
Vigente(h) == solicitud[hilo[h].s].version = hilo[h].version

\* (Variant: a payout that failed keeps its reserve.)
DeFin_Variante(s, hacia) ==
  CASE hacia = "paid" -> {<<"payout_completed", s>>}
    [] hacia = "cancelled" -> {<<"payout_release", s>>}
    [] OTHER -> {}

\* The movement that goes with each end.
DeFin(s, hacia) ==
  CASE hacia = "paid" -> {<<"payout_completed", s>>}
    [] hacia \in {"failed", "cancelled"} -> {<<"payout_release", s>>}
    [] OTHER -> {}

\* mover: the conditional write, its movement and its items, or a conflict and nothing.
Mover(h, hacia, mec) ==
  LET s == hilo[h].s IN
  IF Vigente(h) /\ <<solicitud[s].estado, hacia>> \in TRANSICIONES
  THEN /\ solicitud' = [solicitud EXCEPT ![s].estado = hacia, ![s].version = @ + 1, ![s].mec = mec]
       /\ libro' = libro \cup DeFin(s, hacia)
       /\ item' = IF hacia \in {"failed", "cancelled"} THEN [item EXCEPT ![s] = {}] ELSE item
  ELSE UNCHANGED <<solicitud, libro, item>>

\* The ends written by a person: cancelled, paid by another means, failed by another means.
Resolver(h) ==
  /\ hilo[h].paso \in {"cancelar", "pagar", "fallar"}
  /\ hilo' = [hilo EXCEPT ![h] = Libre]
  /\ Mover(h, CASE hilo[h].paso = "cancelar" -> "cancelled"
                [] hilo[h].paso = "pagar" -> "paid"
                [] OTHER -> "failed", solicitud[hilo[h].s].mec)
  /\ UNCHANGED <<retenidas, mp, vuelo, reenvios>>

\* procesar: being paid, by hand or by Mercado Pago, which is written before it is sent.
Procesar(h) ==
  /\ hilo[h].paso \in {"manual", "mercado_pago"}
  /\ Mover(h, "processing", IF hilo[h].paso = "manual" THEN "manual" ELSE "mp")
  /\ hilo' = [hilo EXCEPT ![h] =
                IF hilo[h].paso = "mercado_pago" /\ Vigente(h)
                THEN [hilo[h] EXCEPT !.paso = "enviar", !.version = hilo[h].version + 1]
                ELSE Libre]
  /\ UNCHANGED <<retenidas, mp, vuelo, reenvios>>

----------------------------------------------------------------------------
\* enviarAMercadoPago, the request on its way.  Mercado Pago takes it, or took it before
\* under the same key, and answers its ids.
MPAcepta(h) ==
  /\ hilo[h].paso = "enviar" /\ mp[hilo[h].s] # "rechazada"
  /\ mp' = [mp EXCEPT ![hilo[h].s] = IF @ = "no" THEN "en_curso" ELSE @]
  /\ hilo' = [hilo EXCEPT ![h].paso = "respondio", ![h].resp = "ids"]
  /\ UNCHANGED <<libro, retenidas, solicitud, item, vuelo, reenvios>>

\* ... or answers 4xx, all of them PROVIDER_REJECTED to TUS: a transfer it will never take, or
\* a request it refuses this time (401, 409, 429), whatever it did with an earlier sending.
MPRechaza(h) ==
  /\ hilo[h].paso = "enviar"
  /\ \/ mp[hilo[h].s] = "no" /\ mp' = [mp EXCEPT ![hilo[h].s] = "rechazada"]
     \/ UNCHANGED mp
  /\ hilo' = [hilo EXCEPT ![h].paso = "respondio", ![h].resp = "rechazo"]
  /\ UNCHANGED <<libro, retenidas, solicitud, item, vuelo, reenvios>>

\* ... or nothing useful comes back: a timeout, 5xx, an answer without ids.
MPNoResponde(h) ==
  /\ hilo[h].paso = "enviar"
  /\ vuelo' = vuelo \cup {hilo[h].s}
  /\ hilo' = [hilo EXCEPT ![h].paso = "respondio", ![h].resp = "duda"]
  /\ UNCHANGED <<libro, retenidas, solicitud, item, mp, reenvios>>

\* What timed out arrives after all, and is taken or refused.
LlegaTarde(s) ==
  /\ s \in vuelo
  /\ vuelo' = vuelo \ {s}
  /\ \E r \in {"en_curso", "rechazada"} : mp' = [mp EXCEPT ![s] = IF @ = "no" THEN r ELSE @]
  /\ UNCHANGED <<libro, retenidas, solicitud, item, reenvios, hilo>>

\* The write that follows the answer: the ids, a failure that releases, or send_unconfirmed.
Registrar(h) ==
  LET s == hilo[h].s IN
  /\ hilo[h].paso = "respondio"
  /\ hilo' = [hilo EXCEPT ![h] = Libre]
  /\ IF hilo[h].resp = "rechazo" THEN Mover(h, "failed", "mp")
     ELSE /\ solicitud' = IF Vigente(h)
                          THEN [solicitud EXCEPT ![s].ids = hilo[h].resp = "ids", ![s].version = @ + 1]
                          ELSE solicitud
          /\ UNCHANGED <<libro, item>>
  /\ UNCHANGED <<retenidas, mp, vuelo, reenvios>>

\* consultar: what Mercado Pago says of the transfer, asked by a refresh or a notification.
Consultar(h) ==
  /\ hilo[h].paso = "consultar"
  /\ hilo' = [hilo EXCEPT ![h].paso = "consulto", ![h].resp =
                CASE mp[hilo[h].s] = "acreditada" -> "paid"
                  [] mp[hilo[h].s] = "fallida" -> "failed"
                  [] OTHER -> "sigue"]
  /\ UNCHANGED <<libro, retenidas, solicitud, item, mp, vuelo, reenvios>>

\* aplicarEstadoProveedor: its end, or only the status shown (news: it was another one).
Aplicar(h, news) ==
  /\ hilo[h].paso = "consulto"
  /\ news => solicitud[hilo[h].s].version < MaxVersion
  /\ hilo' = [hilo EXCEPT ![h] = Libre]
  /\ IF hilo[h].resp # "sigue" THEN Mover(h, hilo[h].resp, "mp")
     ELSE /\ solicitud' = IF news /\ Vigente(h)
                          THEN [solicitud EXCEPT ![hilo[h].s].version = @ + 1] ELSE solicitud
          /\ UNCHANGED <<libro, item>>
  /\ UNCHANGED <<retenidas, mp, vuelo, reenvios>>

\* Mercado Pago ends the transfer.
MPTermina(s, fin) ==
  /\ mp[s] = "en_curso"
  /\ mp' = [mp EXCEPT ![s] = fin]
  /\ UNCHANGED <<libro, retenidas, solicitud, item, vuelo, reenvios, hilo>>

\* The process stops; what it was sending may still arrive.
Caer(h) ==
  /\ hilo[h] # Libre
  /\ hilo' = [hilo EXCEPT ![h] = Libre]
  /\ vuelo' = IF hilo[h].paso = "enviar" THEN vuelo \cup {hilo[h].s} ELSE vuelo
  /\ UNCHANGED <<libro, retenidas, solicitud, item, mp, reenvios>>

Next ==
  \/ \E o \in Obligaciones :
       \/ \E r, t \in BOOLEAN : Aprobar(o, r, t)
       \/ DebitarTarifa(o) \/ Revertir(o) \/ LiberarRetencion(o)
  \/ \E k \in Ajustes : Ajustar(k)
  \/ \E h \in Hilos :
       \/ SolicitarLee(h) \/ SolicitarEscribe(h)
       \/ \E s \in Solicitudes, paso \in PASOS : Leer(h, s, paso)
       \/ Resolver(h) \/ Procesar(h)
       \/ MPAcepta(h) \/ MPRechaza(h) \/ MPNoResponde(h) \/ Registrar(h)
       \/ Consultar(h) \/ \E news \in BOOLEAN : Aplicar(h, news)
       \/ Caer(h)
  \/ \E s \in Solicitudes :
       LlegaTarde(s) \/ \E fin \in {"acreditada", "fallida"} : MPTermina(s, fin)

Spec == Init /\ [][Next]_vars

----------------------------------------------------------------------------
ESTADOS == {"no", "requested", "processing", "paid", "failed", "cancelled"}

\* Every variable keeps to its type, and the ledger has of each request exactly the
\* movements of its state: reserved once made, completed if paid, released if not.
TypeOK ==
  /\ libro \subseteq Debidos \cup DeSolicitud
  /\ retenidas \subseteq Obligaciones
  /\ solicitud \in [Solicitudes -> [estado : ESTADOS, mec : {"no", "manual", "mp"}, ids : BOOLEAN,
                                    version : Nat, monto : Int]]
  /\ item \in [Solicitudes -> SUBSET Debidos]
  /\ mp \in [Solicitudes -> {"no", "en_curso", "acreditada", "fallida", "rechazada"}]
  /\ vuelo \subseteq Solicitudes /\ reenvios \in [Solicitudes -> Nat]
  /\ \A s \in Solicitudes :
       /\ <<"payout_reserve", s>> \in libro <=> solicitud[s].estado # "no"
       /\ <<"payout_completed", s>> \in libro <=> solicitud[s].estado = "paid"
       /\ <<"payout_release", s>> \in libro <=> solicitud[s].estado \in {"failed", "cancelled"}

\* A payout pays exactly what it says: its amount, derived from the whole ledger, is the
\* sum of the movements it took, none of them held, while fees, reversals, adjustments
\* and releases keep being booked; and what is left available is the sum of the rest.
\* No earning is in two payouts, whoever asks for them at the same moment: one open
\* request at most, and the movements of the ones open or paid are apart.
ReservaExacta ==
  /\ \A s \in Solicitudes : item[s] # {} => solicitud[s].monto = Suma(Importe, item[s])
  /\ \A m \in Tomados : m \in libro /\ ~Retenido(m)
  /\ Disponible = Suma(Importe, Libres)
  /\ Cardinality(Abiertas) <= 1
  /\ \A s, t \in Solicitudes : s # t => item[s] \cap item[t] = {}

\* Money goes out through Mercado Pago or back to the provider, never both, unless somebody
\* resent it: a cancelled payout was never sent; one that failed and left was resent, and
\* Mercado Pago had never told its ids (the refusal of one sending was taken for an answer
\* about the other); and one paid through Mercado Pago was accredited.  In any order of
\* sendings, refusals, late arrivals, refreshes and notifications.
SaleOVuelveSalvoReenvio ==
  \A s \in Solicitudes :
    /\ solicitud[s].estado = "cancelled" => mp[s] = "no" /\ s \notin vuelo
    /\ solicitud[s].estado = "failed" /\ mp[s] \in {"en_curso", "acreditada"} =>
         reenvios[s] > 0 /\ ~solicitud[s].ids
    /\ solicitud[s].estado = "paid" /\ solicitud[s].mec = "mp" => mp[s] = "acreditada"

\* What the code says of a refusal (ganancias.ts:902-904): Mercado Pago refused it, nothing
\* was sent, and the funds go back to the provider.
LiberadoNoSalio ==
  \A s \in Solicitudes :
    solicitud[s].estado = "failed" => mp[s] \notin {"en_curso", "acreditada"}
=============================================================================
