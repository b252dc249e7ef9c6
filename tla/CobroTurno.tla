----------------------------- MODULE CobroTurno -----------------------------
(***************************************************************************)
(* How one turno is charged through TUS (tus/finance/servicios): its       *)
(* client pays a deposit or the total, and the balance once the turno was  *)
(* delivered; Mercado Pago collects and reports late, twice or out of      *)
(* order; what was collected is held, released when the turno is closed,   *)
(* and reversed by refunds and chargebacks.  Meanwhile the turno expires   *)
(* or is called off and the administration may change its price.           *)
(*                                                                         *)
(* Every database transaction of the finance service, which are            *)
(* SERIALIZABLE, is one action.  What runs between two of them (the call   *)
(* that creates a checkout), and what reads the turno and writes it later  *)
(* whatever it has become (a call off, a change of price), is split.       *)
(* Everything is collected by the account of the platform.                 *)
(***************************************************************************)
EXTENDS Sumas

CONSTANTS
  Pedidos,      \* requests of the client in flight
  PagosMP,      \* payments Mercado Pago may collect
  Precios,      \* prices the turno may have
  PrecioReservado, \* the price it was booked with
  Ninguno,      \* no payment, no request
  MaxIntentos,  \* bound: intents of one obligation
  MaxCambios    \* bound: changes of price by the administration

Tramos == {"sena", "total", "saldo"}
Intentos == Tramos \X (1..MaxIntentos)

ASSUME CobroAssumption ==
  /\ Ninguno \notin PagosMP \cup Tramos
  /\ IsFiniteSet(PagosMP)
  \* Whole pesos are an even number of half pesos: a deposit is always exact.
  /\ Precios \subseteq Nat /\ \A p \in Precios : p > 0 /\ p % 2 = 0
  /\ PrecioReservado \in Precios
  /\ MaxIntentos \in Nat \ {0} /\ MaxCambios \in Nat

VARIABLES
  reserva,      \* the state of the turno; a no-show is a cancellation here
  pasado,       \* its payment window ran out and it began: an unpaid turno expires
                \* before anything else of it is decided, so one flag says both
  precio,       \* precio_final of the reservation
  cierre,       \* its closing: "no", "finalizado" or "confirmado"
  obligacion,   \* what is owed, by part
  intencion,    \* the attempts to pay each part
  clave,        \* the answer stored under the key of each part of the turno
  pedido,       \* where each request for a checkout is
  entregado,    \* the last checkout handed out
  mp,           \* what Mercado Pago collected
  liquidacion,  \* the settlement of each part
  cuarentena,   \* parts with an event in quarantine
  baja,         \* somebody read a turno that may be called off, and has not written yet
  pisada,       \* history: the turno was called off so after it was completed
  cambio        \* the administration's change of price

dinero == <<obligacion, intencion, liquidacion, cuarentena>>
checkout == <<clave, pedido, entregado>>
agenda == <<reserva, pasado, precio, cierre, baja, pisada, cambio>>
vars == <<agenda, dinero, checkout, mp>>

NoDebida == [estado |-> "none", monto |-> 0]
SinIntencion == [estado |-> "none", monto |-> 0, ref |-> Ninguno, url |-> FALSE, reclamo |-> FALSE]
SinPedido == [int |-> Ninguno, por |-> Ninguno]

COBRADAS == {"paid", "refunded", "charged_back"}
APROBADAS == {"approved", "refunded", "charged_back"}

----------------------------------------------------------------------------
(* What was paid (resumenPagos), always from the obligations.              *)

SumaDe(o) == Suma([t \in Tramos |-> o[t].monto], {t \in Tramos : o[t].estado = "paid"})
Pagado == SumaDe(obligacion)
Pendiente == IF Pagado >= precio THEN 0 ELSE precio - Pagado
Modalidad == IF obligacion["total"].estado = "paid" THEN "total"
             ELSE IF obligacion["sena"].estado = "paid" THEN "sena" ELSE Ninguno
Revertido == \E t \in Tramos : obligacion[t].estado \in {"refunded", "charged_back"}
TodoPagado == Pagado >= precio /\ ~Revertido

Sena(p) == p \div 2
LaOtra(t) == IF t = "sena" THEN "total" ELSE "sena"
EsperaPago == reserva = "awaiting_payment" /\ ~pasado

\* evaluarCobroTurno: which part a request for that way of paying charges ...
Parte(modo) == IF Modalidad # Ninguno THEN "saldo"
               ELSE IF modo = "total" THEN "total" ELSE "sena"

\* ... how much ...
Monto(t) ==
  CASE t = "total" -> precio
    [] t = "saldo" -> Pendiente
    [] OTHER -> IF obligacion[t].estado \in {"none", "voided"} THEN Sena(precio) ELSE obligacion[t].monto

SaldoHabilitado == reserva = "completed" /\ cierre = "confirmado"

\* ... and whether it can be charged now.
Cobrable(modo) ==
  /\ ~Revertido
  /\ IF Modalidad = Ninguno THEN EsperaPago
     ELSE modo \in {Ninguno, Modalidad} /\ Pendiente > 0 /\ SaldoHabilitado

----------------------------------------------------------------------------
Init ==
  /\ reserva = "awaiting_payment" /\ pasado = FALSE
  /\ precio = PrecioReservado
  /\ cierre = "no"
  /\ obligacion = [t \in Tramos |-> NoDebida]
  /\ intencion = [i \in Intentos |-> SinIntencion]
  /\ clave = [t \in Tramos |-> Ninguno]
  /\ pedido = [h \in Pedidos |-> SinPedido]
  /\ entregado = Ninguno
  /\ mp = [p \in PagosMP |-> [int |-> Ninguno, estado |-> "none"]]
  /\ liquidacion = [t \in Tramos |-> "none"]
  /\ cuarentena = {}
  /\ baja = FALSE /\ pisada = FALSE
  /\ cambio = [veces |-> 0, nuevo |-> Ninguno]

De(t) == {i \in Intentos : i[1] = t}
Con(t, estado) == {i \in De(t) : intencion[i].estado = estado}

\* (Variant: the other way of paying stays owed.)
ObligacionTras_Variante(t) ==
  [obligacion EXCEPT ![t] = [estado |-> "pending_payment", monto |-> Monto(t)]]

\* asegurarObligacionTramo: the other way of paying stops being owed, this one
\* is created, or comes back as it was.
Reemplaza(t) == t # "saldo" /\ obligacion[LaOtra(t)].estado = "pending_payment"
ObligacionTras(t) ==
  LET propia == IF obligacion[t].estado = "none"
                THEN [estado |-> "pending_payment", monto |-> Monto(t)]
                ELSE IF obligacion[t].estado = "voided"
                THEN [obligacion[t] EXCEPT !.estado = "pending_payment"]
                ELSE obligacion[t]
  IN [u \in Tramos |-> IF u = t THEN propia
                       ELSE IF Reemplaza(t) /\ u = LaOtra(t)
                       THEN [obligacion[u] EXCEPT !.estado = "voided"]
                       ELSE obligacion[u]]

\* anularObligacion also cancels the open checkouts of what it voids.
AnularIntenciones(t) ==
  [i \in Intentos |-> IF Reemplaza(t) /\ i \in Con(LaOtra(t), "pending")
                      THEN [intencion[i] EXCEPT !.estado = "cancelled"] ELSE intencion[i]]

Nueva(t) == [SinIntencion EXCEPT !.estado = "pending", !.monto = ObligacionTras(t)[t].monto]

\* crearIntencionPago: the open attempt of the part, or a new one.
CrearIntencion(modo, i) ==
  LET t == Parte(modo) IN
  /\ Cobrable(modo)
  /\ Reemplaza(t) => Con(LaOtra(t), "approved") = {}
  /\ ObligacionTras(t)[t].estado = "pending_payment"
  /\ Con(t, "approved") = {}
  /\ i \in De(t)
  /\ IF Con(t, "pending") # {} THEN i \in Con(t, "pending")
     ELSE i[2] = Cardinality(De(t) \ Con(t, "none")) + 1
  /\ obligacion' = ObligacionTras(t)

IntencionTras(i) ==
  IF i \in Con(i[1], "pending") THEN AnularIntenciones(i[1])
  ELSE [AnularIntenciones(i[1]) EXCEPT ![i] = Nueva(i[1])]

\* The address is shown to who asked, unless it is of another part.
Mostrar(i, por) == entregado' = IF por \in {Ninguno, i[1]} THEN i ELSE entregado

\* iniciarCheckout goes on with that attempt: its stored address, or a claim to
\* create it, or an error (no longer pending, or somebody else is creating it).
\* `ints' are the attempts as its first transaction leaves them.
Continuar(h, i, por, ints) ==
  IF ints[i].url
  THEN Mostrar(i, por) /\ intencion' = ints /\ UNCHANGED pedido
  ELSE IF ints[i].estado = "pending" /\ ~ints[i].reclamo
  THEN /\ intencion' = [ints EXCEPT ![i].reclamo = TRUE]
       /\ pedido' = [pedido EXCEPT ![h] = [int |-> i, por |-> por]]
       /\ UNCHANGED entregado
  ELSE intencion' = ints /\ UNCHANGED <<pedido, entregado>>

\* The door of the turno for each part, before the finance service is asked.
AdmiteTurno(t) ==
  CASE t = "sena" -> /\ EsperaPago
                     /\ obligacion["sena"].estado \notin COBRADAS
                     /\ obligacion["total"].estado \notin COBRADAS
    [] t = "total" -> ~TodoPagado
    [] OTHER -> ~TodoPagado /\ Modalidad = "sena"

\* checkout: one key for each part, so a second request gets the stored answer.
PedirPorTurno(h, t) ==
  /\ pedido[h] = SinPedido /\ AdmiteTurno(t)
  /\ IF clave[t] # Ninguno
     THEN Continuar(h, clave[t], t, intencion) /\ UNCHANGED <<obligacion, clave>>
     ELSE \E i \in Intentos :
            /\ CrearIntencion(IF t = "saldo" THEN Ninguno ELSE t, i)
            /\ Continuar(h, i, t, IntencionTras(i))
            /\ clave' = [clave EXCEPT ![t] = i]
  /\ UNCHANGED <<agenda, mp, liquidacion, cuarentena>>

\* The order's own checkout route and the assistant: a fresh key each time.
PedirPorTrabajo(h, modo) ==
  /\ pedido[h] = SinPedido
  /\ \E i \in Intentos : CrearIntencion(modo, i) /\ Continuar(h, i, Ninguno, IntencionTras(i))
  /\ UNCHANGED <<agenda, clave, mp, liquidacion, cuarentena>>

\* The provider answered.  The state of the intent is not looked at again.
RegistrarDespacho(h) ==
  LET i == pedido[h].int IN
  /\ pedido[h] # SinPedido
  /\ intencion' = [intencion EXCEPT ![i].url = TRUE, ![i].reclamo = FALSE]
  /\ Mostrar(i, pedido[h].por)
  /\ pedido' = [pedido EXCEPT ![h] = SinPedido]
  /\ UNCHANGED <<agenda, obligacion, liquidacion, cuarentena, clave, mp>>

\* The provider failed; or the process stopped and its claim ran out.
FallarDespacho(h) ==
  /\ pedido[h] # SinPedido
  /\ intencion' = [intencion EXCEPT ![pedido[h].int].reclamo = FALSE]
  /\ pedido' = [pedido EXCEPT ![h] = SinPedido]
  /\ UNCHANGED <<agenda, obligacion, liquidacion, cuarentena, clave, entregado, mp>>

\* 30 seconds went by and the provider still did not answer.
VenceReclamo(h) ==
  /\ pedido[h] # SinPedido /\ intencion[pedido[h].int].reclamo
  /\ intencion' = [intencion EXCEPT ![pedido[h].int].reclamo = FALSE]
  /\ UNCHANGED <<agenda, obligacion, liquidacion, cuarentena, checkout, mp>>

----------------------------------------------------------------------------
(* Mercado Pago (external): any address ever created may be paid, once or  *)
(* more, whatever TUS did with it since; a payment may be reversed.        *)

PagarEnMP(p, i) ==
  /\ mp[p].estado = "none" /\ intencion[i].url
  /\ mp' = [mp EXCEPT ![p] = [int |-> i, estado |-> "approved"]]
  /\ UNCHANGED <<agenda, dinero, checkout>>

RevertirEnMP(p, estado) ==
  /\ mp[p].estado = "approved"
  /\ mp' = [mp EXCEPT ![p].estado = estado]
  /\ UNCHANGED <<agenda, dinero, checkout>>

----------------------------------------------------------------------------
(* aplicarEventoVerificado: what Mercado Pago reported of a payment, as it *)
(* is now or as it was when somebody else read it.                         *)

\* (Variant: an approval revives a checkout that was cancelled.)
Transicion_Variante(desde, hacia) ==
  \/ desde \in {"pending", "cancelled"} /\ hacia = "approved"
  \/ desde = "approved" /\ hacia \in {"refunded", "charged_back"}
Transicion(desde, hacia) ==
  \/ desde = "pending" /\ hacia = "approved"
  \/ desde = "approved" /\ hacia \in {"refunded", "charged_back"}

\* (Variant: what is already paid is not added up.)
Sobrecobro_Variante(t) == FALSE
Sobrecobro(t) == Pagado + obligacion[t].monto > precio

\* evaluarEvento, and the two rules of an approval.
OtraReferencia(p) == intencion[mp[p].int].ref \notin {Ninguno, p}
Anulada(p) == obligacion[mp[p].int[1]].estado = "voided"
Permitido(p, estado) == ~OtraReferencia(p) /\ Transicion(intencion[mp[p].int].estado, estado)

\* Real money that may not be applied: kept for the platform to refund.
EventoEnCuarentena(p, estado) ==
  LET t == mp[p].int[1] IN
  /\ mp[p].estado # "none"
  /\ \/ OtraReferencia(p)
     \/ estado = "approved" /\ Anulada(p)
     \/ estado = "approved" /\ Permitido(p, estado) /\ Sobrecobro(t)
  /\ cuarentena' = cuarentena \cup {t}
  /\ UNCHANGED <<agenda, obligacion, intencion, liquidacion, checkout, mp>>

\* (Variant: part of the price is enough.)
CubreElPrecio_Variante(o) == SumaDe(o) >= Sena(precio)
CubreElPrecio(o) == SumaDe(o) >= precio

\* liberarLiquidacionesEn: everything held of a closed and fully paid turno.
Liberar(o, l) ==
  LET listo == /\ reserva = "completed" /\ cierre = "confirmado"
               /\ \A t \in Tramos : o[t].estado # "pending_payment"
               /\ CubreElPrecio(o)
      firme(t) == ~(o[t].estado = "paid" /\ l[t] \in {"frozen", "reversed"})
  IN [t \in Tramos |->
        IF /\ l[t] = "held" /\ o[t].estado = "paid" /\ listo
           /\ \A u \in Tramos \ {t} : firme(u)
        THEN "eligible" ELSE l[t]]

\* confirmarReservaPorPago: the deposit or the whole price, in its window.
Confirma(t) ==
  t # "saldo" /\ EsperaPago /\ obligacion[t].monto \in {Sena(precio), precio}

EventoAprobado(p) ==
  LET i == mp[p].int
      t == i[1]
      o == [obligacion EXCEPT ![t].estado = "paid"]
  IN
  /\ mp[p].estado # "none"
  /\ Permitido(p, "approved") /\ ~Anulada(p) /\ ~Sobrecobro(t)
  /\ intencion' = [intencion EXCEPT ![i].estado = "approved", ![i].ref = p]
  /\ obligacion' = o
  /\ reserva' = IF Confirma(t) THEN "confirmed" ELSE reserva
  /\ liquidacion' = Liberar(o, [liquidacion EXCEPT ![t] = "held"])
  /\ UNCHANGED <<pasado, precio, cierre, baja, pisada, cambio, cuarentena, checkout, mp>>

\* (Variant: what was already released is left as it is.)
LiquidacionTras_Variante(l, estado) ==
  IF l = "held" THEN IF estado = "refunded" THEN "reversed" ELSE "frozen" ELSE l

\* (Variant: the settlement takes the state of the payment.)
LiquidacionTras_Estado(l, estado) == estado

LiquidacionTras(l, estado) ==
  IF l = "reversed" \/ estado = "refunded" THEN "reversed" ELSE "frozen"

EventoRevertido(p) ==
  LET i == mp[p].int
      t == i[1]
  IN
  /\ mp[p].estado \in {"refunded", "charged_back"}
  /\ Permitido(p, mp[p].estado)
  /\ intencion' = [intencion EXCEPT ![i].estado = mp[p].estado]
  /\ obligacion' = [obligacion EXCEPT ![t].estado = mp[p].estado]
  /\ liquidacion' = [liquidacion EXCEPT ![t] = LiquidacionTras(@, mp[p].estado)]
  /\ UNCHANGED <<agenda, cuarentena, checkout, mp>>

\* conciliarObligacion: an event in quarantine is a discrepancy.
Conciliar(t) ==
  /\ t \in cuarentena /\ liquidacion[t] \in {"held", "eligible"}
  /\ liquidacion' = [liquidacion EXCEPT ![t] = "frozen"]
  /\ UNCHANGED <<agenda, obligacion, intencion, cuarentena, checkout, mp>>

----------------------------------------------------------------------------
(* The turno meanwhile.                                                    *)

Tick ==
  /\ ~pasado
  /\ pasado' = TRUE
  /\ UNCHANGED <<reserva, precio, cierre, baja, pisada, cambio, dinero, checkout, mp>>

\* conAgendaBloqueada: a turno nobody paid in its window, by who locks the agenda next.
Vencer ==
  /\ reserva = "awaiting_payment" /\ pasado /\ ~baja
  /\ reserva' = "expired"
  /\ UNCHANGED <<pasado, precio, cierre, baja, pisada, cambio, dinero, checkout, mp>>

\* cambiarEstadoTurno and cancelarTurnoCliente read, with the agenda locked, a turno
\* that may be called off (by its client and its provider until it is finished, by the
\* administration always) ...
BajaLee(esAdmin) ==
  /\ ~baja
  /\ reserva = "confirmed" \/ EsperaPago
  /\ ~esAdmin => cierre = "no"
  /\ baja' = TRUE
  /\ UNCHANGED <<reserva, pasado, precio, cierre, pisada, cambio, dinero, checkout, mp>>

\* ... and write it later by its identifier, whatever a payment or the closing, which
\* do not take the agenda, made of it ...
BajaEscribe ==
  /\ baja
  /\ reserva' = "cancelled"
  /\ pisada' = (pisada \/ reserva = "completed")
  /\ baja' = FALSE
  /\ UNCHANGED <<pasado, precio, cierre, cambio, dinero, checkout, mp>>

\* ... unless they fail first.
BajaFalla ==
  /\ baja
  /\ baja' = FALSE
  /\ UNCHANGED <<reserva, pasado, precio, cierre, pisada, cambio, dinero, checkout, mp>>

\* adminModificarPrecio looks for an issued deposit and, later, writes.
AdminLeePrecio(nuevo) ==
  /\ cambio.nuevo = Ninguno /\ cambio.veces < MaxCambios
  /\ obligacion["sena"].estado = "none"
  /\ cambio' = [veces |-> cambio.veces + 1, nuevo |-> nuevo]
  /\ UNCHANGED <<reserva, pasado, precio, cierre, baja, pisada, dinero, checkout, mp>>

AdminEscribePrecio ==
  /\ cambio.nuevo # Ninguno
  /\ precio' = cambio.nuevo
  /\ cambio' = [cambio EXCEPT !.nuevo = Ninguno]
  /\ UNCHANGED <<reserva, pasado, cierre, baja, pisada, dinero, checkout, mp>>

\* The closing, step by step in Cierre: finished by its provider ...
Finalizar ==
  /\ cierre = "no" /\ reserva = "confirmed" /\ pasado
  /\ cierre' = "finalizado"
  /\ UNCHANGED <<reserva, pasado, precio, baja, pisada, cambio, dinero, checkout, mp>>

\* ... confirmed by its client or its window ...
ConfirmarCierre ==
  /\ cierre = "finalizado" /\ reserva \in {"confirmed", "completed"}
  /\ cierre' = "confirmado"
  /\ UNCHANGED <<reserva, pasado, precio, baja, pisada, cambio, dinero, checkout, mp>>

\* ... and its effects, each after the other, which may be cut in between.
CompletarReserva ==
  /\ cierre = "confirmado" /\ reserva = "confirmed"
  /\ reserva' = "completed"
  /\ UNCHANGED <<pasado, precio, cierre, baja, pisada, cambio, dinero, checkout, mp>>

EvaluarPagos ==
  /\ cierre = "confirmado"
  /\ liquidacion' = Liberar(obligacion, liquidacion)
  /\ UNCHANGED <<agenda, obligacion, intencion, cuarentena, checkout, mp>>

----------------------------------------------------------------------------
DelPedido(h) ==
  \/ \E t \in Tramos : PedirPorTurno(h, t)
  \/ \E modo \in {"sena", "total", Ninguno} : PedirPorTrabajo(h, modo)
  \/ RegistrarDespacho(h)
  \/ FallarDespacho(h)
  \/ VenceReclamo(h)

DelPago(p) ==
  \/ \E i \in Intentos : PagarEnMP(p, i)
  \/ \E estado \in {"refunded", "charged_back"} : RevertirEnMP(p, estado)
  \/ \E estado \in {"approved", mp[p].estado} : EventoEnCuarentena(p, estado)
  \/ EventoAprobado(p)
  \/ EventoRevertido(p)

DelTurno ==
  \/ Tick
  \/ Vencer
  \/ \E esAdmin \in BOOLEAN : BajaLee(esAdmin)
  \/ BajaEscribe
  \/ BajaFalla
  \/ \E nuevo \in Precios \ {precio} : AdminLeePrecio(nuevo)
  \/ AdminEscribePrecio
  \/ Finalizar
  \/ ConfirmarCierre
  \/ CompletarReserva
  \/ EvaluarPagos

Next ==
  \/ \E h \in Pedidos : DelPedido(h)
  \/ \E p \in PagosMP : DelPago(p)
  \/ \E t \in Tramos : Conciliar(t)
  \/ DelTurno

Spec == Init /\ [][Next]_vars

----------------------------------------------------------------------------
TypeOK ==
  /\ reserva \in {"awaiting_payment", "confirmed", "completed", "cancelled", "expired"}
  /\ pasado \in BOOLEAN /\ precio \in Precios
  /\ cierre \in {"no", "finalizado", "confirmado"}
  /\ obligacion \in [Tramos -> [estado : {"none", "pending_payment", "voided"} \cup COBRADAS, monto : Nat]]
  /\ intencion \in [Intentos ->
       [estado : {"none", "pending", "cancelled"} \cup APROBADAS, monto : Nat,
        ref : PagosMP \cup {Ninguno}, url : BOOLEAN, reclamo : BOOLEAN]]
  /\ clave \in [Tramos -> Intentos \cup {Ninguno}]
  /\ pedido \in [Pedidos -> [int : Intentos \cup {Ninguno}, por : Tramos \cup {Ninguno}]]
  /\ entregado \in Intentos \cup {Ninguno}
  /\ mp \in [PagosMP -> [int : Intentos \cup {Ninguno}, estado : {"none"} \cup APROBADAS]]
  /\ liquidacion \in [Tramos -> {"none", "held", "eligible", "frozen", "reversed"}]
  /\ cuarentena \subseteq Tramos
  /\ baja \in BOOLEAN /\ pisada \in BOOLEAN
  /\ cambio \in [veces : 0..MaxCambios, nuevo : Precios \cup {Ninguno}]

\* It was delivered, although who had read it before may have called it off since.
Entregada == reserva = "completed" \/ pisada

\* Deposit and total are two ways of paying the same thing: whatever was asked for, in
\* whatever order, at most one of them is owed or was charged.  At most one attempt of the
\* turno is open, and what it would pay is owed with that amount: an attempt never outlives
\* the obligation it was made for.  A balance comes after a charged part, a delivery and its
\* closing; a delivered turno stays so but for who had read it, to call it off, before.
UnaFormaDePagar ==
  /\ \E t \in {"sena", "total"} : obligacion[t].estado \in {"none", "voided"}
  /\ \A i \in Intentos : intencion[i].estado = "pending" =>
       /\ obligacion[i[1]].estado = "pending_payment" /\ obligacion[i[1]].monto = intencion[i].monto
       /\ \A j \in Intentos \ {i} : intencion[j].estado # "pending"
  /\ obligacion["saldo"].estado # "none" =>
       /\ Entregada /\ cierre = "confirmado"
       /\ \E t \in {"sena", "total"} : obligacion[t].estado \in COBRADAS

\* No part is charged twice, although Mercado Pago may collect it twice, and
\* what says it was charged is one approved attempt.
UnSoloCobroPorTramo ==
  \A t \in Tramos :
    LET aprobadas == {i \in De(t) : intencion[i].estado \in APROBADAS} IN
    /\ Cardinality(aprobadas) <= 1
    /\ obligacion[t].estado \in COBRADAS <=> aprobadas # {}

\* What is charged never takes what was paid above the price of that moment,
\* also when the price changed after the checkout was created.
CobradoNoExcede == [][Pagado' > Pagado => Pagado' <= precio']_vars

\* What the provider may withdraw was delivered, closed and is still paid: a
\* refund or a chargeback takes it back, before or after it was released.  The
\* one thing that does not is a call off of a turno read before it was completed:
\* it is written over the delivery and the money stays released.
LiberadoSoloSiPagado ==
  \A t \in Tramos : liquidacion[t] = "eligible" =>
    obligacion[t].estado = "paid" /\ Entregada /\ cierre = "confirmado"

\* Money is released only at the moment when the whole price is paid and
\* nothing of the turno is owed: a deposit is not released without its balance.
SeLiberaConTodoPagado ==
  [][\A t \in Tramos : (liquidacion[t] # "eligible" /\ liquidacion'[t] = "eligible") =>
       /\ SumaDe(obligacion)' >= precio'
       /\ \A u \in Tramos : obligacion'[u].estado # "pending_payment"]_vars

\* "Chosen again after having been replaced: the same obligation comes back"
\* (servicio.ts): what is handed out is a checkout that can be paid.
LoEntregadoSePuedePagar ==
  [][entregado' # entregado =>
       /\ intencion'[entregado'].estado = "pending"
       /\ obligacion'[entregado'[1]].estado = "pending_payment"]_vars
=============================================================================
