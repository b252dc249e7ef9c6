----------------------------- MODULE CobroProofs -----------------------------
(***************************************************************************)
(* Theorems about CobroTurno, for any requests, payments, prices and       *)
(* numbers of attempts.                                                    *)
(*                                                                         *)
(* The argument: a part is charged exactly when one of its attempts was    *)
(* approved (CobradaSiAprobada), and one at most was (UnaAprobada).  An    *)
(* attempt is made and approved only for a part that is owed, so for one   *)
(* that nothing charged; choosing the other way of paying voids the part   *)
(* and closes its attempt in the same transaction; and a balance is owed   *)
(* only after a part was charged, when neither can be chosen any more.     *)
(* Every writer of the settlements looks at the obligation it is about.    *)
(***************************************************************************)
EXTENDS CobroTurno, SumasProofs

TObligacion == [estado : {"none", "pending_payment", "voided"} \cup COBRADAS, monto : Nat]
TIntencion == [estado : {"none", "pending", "cancelled"} \cup APROBADAS, monto : Nat,
               ref : PagosMP \cup {Ninguno}, url : BOOLEAN, reclamo : BOOLEAN]
TPedido == [int : Intentos \cup {Ninguno}, por : Tramos \cup {Ninguno}]
TLiquidacion == {"none", "held", "eligible", "frozen", "reversed"}

\* A request in flight is at an attempt, and so is what Mercado Pago collected.
Tipos ==
  /\ TypeOK
  /\ \A h \in Pedidos : pedido[h] # SinPedido => pedido[h].int \in Intentos
  /\ \A p \in PagosMP : mp[p].estado # "none" => mp[p].int \in Intentos

----------------------------------------------------------------------------
(* The operators of the model.                                             *)

\* There are three parts.
LEMMA TramosFinitos == IsFiniteSet(Tramos)
<1>1. IsFiniteSet({"sena"} \cup {"total"} \cup {"saldo"})
  BY FS_Singleton, FS_Union
<1>2. {"sena"} \cup {"total"} \cup {"saldo"} = Tramos
  BY DEF Tramos
<1>3. QED
  BY <1>1, <1>2

\* An attempt is of the part it names.
LEMMA DeTramo == ASSUME NEW i \in Intentos PROVE i[1] \in Tramos /\ i \in De(i[1])
BY DEF Intentos, De

\* What was paid adds up to an amount.
LEMMA SumaDeNat == ASSUME NEW o \in [Tramos -> TObligacion] PROVE SumaDe(o) \in Nat
<1> DEFINE f == [t \in Tramos |-> o[t].monto]
           S == {t \in Tramos : o[t].estado = "paid"}
<1>1. IsFiniteSet(S) /\ \A t \in S : f[t] \in Nat
  BY TramosFinitos, FS_Subset DEF TObligacion
<1> HIDE DEF f, S
<1>2. Suma(f, S) \in Nat
  BY <1>1, SumaNat
<1>3. QED
  BY <1>2 DEF SumaDe, f, S

\* A deposit is an amount below its price.
LEMMA SenaNat == ASSUME NEW p \in Precios PROVE p \in Nat /\ Sena(p) \in Nat /\ Sena(p) < p /\ p > 0
BY CobroAssumption DEF Sena

\* What a request would charge is an amount.
LEMMA MontoNat ==
  ASSUME TypeOK, NEW t \in Tramos
  PROVE  Monto(t) \in Nat
<1>1. precio \in Nat /\ Sena(precio) \in Nat /\ obligacion \in [Tramos -> TObligacion]
  BY SenaNat DEF TypeOK, TObligacion
<1>2. Pagado \in Nat
  BY <1>1, SumaDeNat DEF Pagado
<1>3. Pendiente \in Nat
  BY <1>1, <1>2 DEF Pendiente
<1>4. obligacion[t].monto \in Nat /\ ("sena" = t => obligacion["sena"].monto \in Nat)
  BY <1>1 DEF TObligacion
<1>5. QED
  BY <1>1, <1>3, <1>4 DEF Monto

\* Whatever way of paying is asked for, what is charged is a part.
LEMMA ParteTipo == ASSUME NEW modo PROVE Parte(modo) \in Tramos
BY DEF Parte, Tramos

\* The obligations after a part is chosen are well typed ...
LEMMA ObligacionTrasTipo ==
  ASSUME TypeOK, NEW t \in Tramos
  PROVE  ObligacionTras(t) \in [Tramos -> TObligacion]
<1>1. Monto(t) \in Nat
  BY MontoNat
<1>2. obligacion \in [Tramos -> TObligacion]
  BY DEF TypeOK, TObligacion
<1> DEFINE propia == IF obligacion[t].estado = "none"
                THEN [estado |-> "pending_payment", monto |-> Monto(t)]
                ELSE IF obligacion[t].estado = "voided"
                THEN [obligacion[t] EXCEPT !.estado = "pending_payment"]
                ELSE obligacion[t]
<1>3. propia \in TObligacion
  BY <1>1, <1>2 DEF TObligacion
<1>4. ASSUME NEW u \in Tramos PROVE [obligacion[u] EXCEPT !.estado = "voided"] \in TObligacion /\ obligacion[u] \in TObligacion
  BY <1>2 DEF TObligacion
<1> HIDE DEF propia
<1>5. ObligacionTras(t) = [u \in Tramos |-> IF u = t THEN propia
                             ELSE IF Reemplaza(t) /\ u = LaOtra(t)
                             THEN [obligacion[u] EXCEPT !.estado = "voided"]
                             ELSE obligacion[u]]
  BY DEF ObligacionTras, propia
<1>6. QED
  BY <1>3, <1>4, <1>5

\* ... the attempts after the other part is voided ...
LEMMA AnularTipo ==
  ASSUME TypeOK, NEW t
  PROVE  AnularIntenciones(t) \in [Intentos -> TIntencion]
<1>1. intencion \in [Intentos -> TIntencion]
  BY DEF TypeOK, TIntencion
<1>2. ASSUME NEW i \in Intentos PROVE [intencion[i] EXCEPT !.estado = "cancelled"] \in TIntencion /\ intencion[i] \in TIntencion
  BY <1>1 DEF TIntencion
<1>3. QED
  BY <1>2 DEF AnularIntenciones

\* ... those after a new attempt ...
LEMMA IntencionTrasTipo ==
  ASSUME TypeOK, NEW i \in Intentos
  PROVE  IntencionTras(i) \in [Intentos -> TIntencion]
<1>1. AnularIntenciones(i[1]) \in [Intentos -> TIntencion]
  BY AnularTipo
<1>2. ObligacionTras(i[1]) \in [Tramos -> TObligacion] /\ i[1] \in Tramos
  BY DeTramo, ObligacionTrasTipo
<1>3. ObligacionTras(i[1])[i[1]].monto \in Nat
  BY <1>2 DEF TObligacion
<1>4. Nueva(i[1]) \in TIntencion
  BY <1>3 DEF Nueva, TIntencion, SinIntencion
<1>5. QED
  BY <1>1, <1>4 DEF IntencionTras

\* One attempt written field by field.
LEMMA UnIntento ==
  ASSUME NEW ints \in [Intentos -> TIntencion], NEW i \in Intentos
  PROVE  /\ \A b \in BOOLEAN : [ints EXCEPT ![i].reclamo = b] \in [Intentos -> TIntencion]
         /\ [ints EXCEPT ![i].url = TRUE, ![i].reclamo = FALSE] \in [Intentos -> TIntencion]
         /\ \A p \in PagosMP : [ints EXCEPT ![i].estado = "approved", ![i].ref = p] \in [Intentos -> TIntencion]
         /\ \A e \in APROBADAS : [ints EXCEPT ![i].estado = e] \in [Intentos -> TIntencion]
BY DEF TIntencion, APROBADAS

\* ... and the settlements after an evaluation.
LEMMA LiberarTipo ==
  ASSUME NEW o, NEW l \in [Tramos -> TLiquidacion]
  PROVE  Liberar(o, l) \in [Tramos -> TLiquidacion]
BY DEF Liberar, TLiquidacion
----------------------------------------------------------------------------
(* Types.                                                                  *)

TReserva == {"awaiting_payment", "confirmed", "completed", "cancelled", "expired"}

\* The types of what the finance service keeps, and of the turno.
DineroBien ==
  /\ obligacion \in [Tramos -> TObligacion]
  /\ intencion \in [Intentos -> TIntencion]
  /\ liquidacion \in [Tramos -> TLiquidacion]
  /\ cuarentena \subseteq Tramos

CheckoutBien ==
  /\ clave \in [Tramos -> Intentos \cup {Ninguno}]
  /\ pedido \in [Pedidos -> TPedido]
  /\ \A h \in Pedidos : pedido[h] # SinPedido => pedido[h].int \in Intentos
  /\ entregado \in Intentos \cup {Ninguno}

AgendaBien ==
  /\ reserva \in TReserva
  /\ pasado \in BOOLEAN /\ precio \in Precios
  /\ cierre \in {"no", "finalizado", "confirmado"}
  /\ baja \in BOOLEAN /\ pisada \in BOOLEAN
  /\ cambio \in [veces : 0..MaxCambios, nuevo : Precios \cup {Ninguno}]

MPBien ==
  /\ mp \in [PagosMP -> [int : Intentos \cup {Ninguno}, estado : {"none"} \cup APROBADAS]]
  /\ \A p \in PagosMP : mp[p].estado # "none" => mp[p].int \in Intentos

\* The types, taken apart by who writes what.
LEMMA PartesDeTipos == Tipos <=> DineroBien /\ CheckoutBien /\ AgendaBien /\ MPBien
BY DEF Tipos, TypeOK, DineroBien, CheckoutBien, AgendaBien, MPBien, TObligacion, TIntencion, TPedido,
       TLiquidacion, TReserva

\* The same of the state after a step.
LEMMA PartesDeTiposPrima ==
  ASSUME DineroBien', CheckoutBien', AgendaBien', MPBien'
  PROVE  Tipos'
BY DEF Tipos, TypeOK, DineroBien, CheckoutBien, AgendaBien, MPBien, TObligacion, TIntencion, TPedido,
       TLiquidacion, TReserva

\* Each part is of what it reads.
LEMMA PartesQuietas ==
  /\ DineroBien /\ UNCHANGED dinero => DineroBien'
  /\ CheckoutBien /\ UNCHANGED checkout => CheckoutBien'
  /\ AgendaBien /\ UNCHANGED agenda => AgendaBien'
  /\ MPBien /\ UNCHANGED mp => MPBien'
BY DEF DineroBien, CheckoutBien, AgendaBien, MPBien, dinero, checkout, agenda

\* A request that goes on with an attempt is at it, and so is what it hands out.
LEMMA ContinuarTipo ==
  ASSUME CheckoutBien, NEW h \in Pedidos, NEW i \in Intentos, NEW por \in Tramos \cup {Ninguno},
         NEW ints \in [Intentos -> TIntencion], Continuar(h, i, por, ints)
  PROVE  /\ intencion' \in [Intentos -> TIntencion]
         /\ pedido' \in [Pedidos -> TPedido] /\ entregado' \in Intentos \cup {Ninguno}
         /\ \A g \in Pedidos : pedido'[g] # SinPedido => pedido'[g].int \in Intentos
<1>1. intencion' \in [Intentos -> TIntencion]
  <2>1. intencion' = ints \/ intencion' = [ints EXCEPT ![i].reclamo = TRUE]
    BY DEF Continuar
  <2>2. [ints EXCEPT ![i].reclamo = TRUE] \in [Intentos -> TIntencion]
    BY UnIntento
  <2>3. QED
    BY <2>1, <2>2
<1>2. entregado' \in Intentos \cup {Ninguno}
  BY DEF Continuar, Mostrar, CheckoutBien
<1>3. CASE pedido' = pedido
  BY <1>1, <1>2, <1>3 DEF CheckoutBien
<1>4. CASE pedido' = [pedido EXCEPT ![h] = [int |-> i, por |-> por]]
  <2>1. pedido' \in [Pedidos -> TPedido]
    BY <1>4 DEF CheckoutBien, TPedido
  <2>2. \A g \in Pedidos : pedido'[g] # SinPedido => pedido'[g].int \in Intentos
    BY <1>4 DEF CheckoutBien
  <2>3. QED
    BY <1>1, <1>2, <2>1, <2>2
<1>5. QED
  BY <1>3, <1>4 DEF Continuar

\* Asking through the turno keeps the types.
LEMMA PedirPorTurnoTipos ==
  ASSUME Tipos, NEW h \in Pedidos, NEW t \in Tramos, PedirPorTurno(h, t)
  PROVE  Tipos'
<1>1. DineroBien /\ CheckoutBien /\ AgendaBien /\ MPBien /\ TypeOK
  BY PartesDeTipos DEF Tipos
<1>2. UNCHANGED <<agenda, mp, liquidacion, cuarentena>>
  BY DEF PedirPorTurno
<1>3. CASE clave[t] # Ninguno
  <2>1. clave[t] \in Intentos
    BY <1>1, <1>3 DEF CheckoutBien
  <2>2. Continuar(h, clave[t], t, intencion) /\ obligacion' = obligacion /\ clave' = clave
    BY <1>3 DEF PedirPorTurno
  <2>3. /\ intencion' \in [Intentos -> TIntencion]
        /\ pedido' \in [Pedidos -> TPedido] /\ entregado' \in Intentos \cup {Ninguno}
        /\ \A g \in Pedidos : pedido'[g] # SinPedido => pedido'[g].int \in Intentos
    BY <1>1, <2>1, <2>2, ContinuarTipo DEF DineroBien
  <2>4. QED
    <3>1. DineroBien' /\ CheckoutBien'
      BY <1>1, <1>2, <2>2, <2>3 DEF DineroBien, CheckoutBien
    <3>2. QED
      BY <1>1, <1>2, <3>1, PartesQuietas, PartesDeTiposPrima
<1>4. CASE clave[t] = Ninguno
  <2>1. PICK i \in Intentos : /\ CrearIntencion(IF t = "saldo" THEN Ninguno ELSE t, i)
                              /\ Continuar(h, i, t, IntencionTras(i))
                              /\ clave' = [clave EXCEPT ![t] = i]
    BY <1>4 DEF PedirPorTurno
  <2>2. IntencionTras(i) \in [Intentos -> TIntencion]
    BY <1>1, IntencionTrasTipo
  <2>3. /\ intencion' \in [Intentos -> TIntencion]
        /\ pedido' \in [Pedidos -> TPedido] /\ entregado' \in Intentos \cup {Ninguno}
        /\ \A g \in Pedidos : pedido'[g] # SinPedido => pedido'[g].int \in Intentos
    BY <1>1, <2>1, <2>2, ContinuarTipo
  <2>4. obligacion' \in [Tramos -> TObligacion]
    BY <1>1, <2>1, ParteTipo, ObligacionTrasTipo DEF CrearIntencion
  <2>5. clave' \in [Tramos -> Intentos \cup {Ninguno}]
    BY <1>1, <2>1 DEF CheckoutBien
  <2>6. QED
    <3>1. DineroBien' /\ CheckoutBien'
      BY <1>1, <1>2, <2>3, <2>4, <2>5 DEF DineroBien, CheckoutBien
    <3>2. QED
      BY <1>1, <1>2, <3>1, PartesQuietas, PartesDeTiposPrima
<1>5. QED
  BY <1>3, <1>4

\* Asking through the order keeps the types.
LEMMA PedirPorTrabajoTipos ==
  ASSUME Tipos, NEW h \in Pedidos, NEW modo, PedirPorTrabajo(h, modo)
  PROVE  Tipos'
<1>1. DineroBien /\ CheckoutBien /\ AgendaBien /\ MPBien /\ TypeOK
  BY PartesDeTipos DEF Tipos
<1>2. PICK i \in Intentos : CrearIntencion(modo, i) /\ Continuar(h, i, Ninguno, IntencionTras(i))
  BY DEF PedirPorTrabajo
<1>3. IntencionTras(i) \in [Intentos -> TIntencion]
  BY <1>1, IntencionTrasTipo
<1>4. /\ intencion' \in [Intentos -> TIntencion]
      /\ pedido' \in [Pedidos -> TPedido] /\ entregado' \in Intentos \cup {Ninguno}
      /\ \A g \in Pedidos : pedido'[g] # SinPedido => pedido'[g].int \in Intentos
  BY <1>1, <1>2, <1>3, ContinuarTipo
<1>5. obligacion' \in [Tramos -> TObligacion]
  BY <1>1, <1>2, ParteTipo, ObligacionTrasTipo DEF CrearIntencion
<1>6. UNCHANGED <<agenda, clave, mp, liquidacion, cuarentena>>
  BY DEF PedirPorTrabajo
<1>7. QED
  <2>1. DineroBien' /\ CheckoutBien'
    BY <1>1, <1>4, <1>5, <1>6 DEF DineroBien, CheckoutBien
  <2>2. QED
    BY <1>1, <1>6, <2>1, PartesQuietas, PartesDeTiposPrima

\* The end of a dispatch, or its being given up, keeps the types.
LEMMA DespachoTipos ==
  ASSUME Tipos, NEW h \in Pedidos, RegistrarDespacho(h) \/ FallarDespacho(h) \/ VenceReclamo(h)
  PROVE  Tipos'
<1>1. DineroBien /\ CheckoutBien /\ AgendaBien /\ MPBien
  BY PartesDeTipos
<1>2. pedido[h].int \in Intentos /\ UNCHANGED <<agenda, obligacion, liquidacion, cuarentena, clave, mp>>
  BY <1>1 DEF CheckoutBien, RegistrarDespacho, FallarDespacho, VenceReclamo, checkout
<1>3. intencion' \in [Intentos -> TIntencion]
  <2>1. \/ intencion' = [intencion EXCEPT ![pedido[h].int].url = TRUE, ![pedido[h].int].reclamo = FALSE]
        \/ intencion' = [intencion EXCEPT ![pedido[h].int].reclamo = FALSE]
    BY DEF RegistrarDespacho, FallarDespacho, VenceReclamo
  <2>2. intencion \in [Intentos -> TIntencion]
    BY <1>1 DEF DineroBien
  <2>3. /\ [intencion EXCEPT ![pedido[h].int].url = TRUE, ![pedido[h].int].reclamo = FALSE] \in [Intentos -> TIntencion]
        /\ [intencion EXCEPT ![pedido[h].int].reclamo = FALSE] \in [Intentos -> TIntencion]
    BY <1>2, <2>2, UnIntento
  <2>4. QED
    BY <2>1, <2>3
<1>4. pedido' = pedido \/ pedido' = [pedido EXCEPT ![h] = SinPedido]
  BY DEF RegistrarDespacho, FallarDespacho, VenceReclamo, checkout
<1>5. SinPedido \in TPedido
  BY DEF SinPedido, TPedido
<1>6. pedido' \in [Pedidos -> TPedido] /\ \A g \in Pedidos : pedido'[g] # SinPedido => pedido'[g].int \in Intentos
  BY <1>1, <1>4, <1>5 DEF CheckoutBien
<1>7. entregado' \in Intentos \cup {Ninguno}
  BY <1>1, <1>2 DEF RegistrarDespacho, FallarDespacho, VenceReclamo, checkout, Mostrar, CheckoutBien
<1>8. QED
  <2>1. DineroBien' /\ CheckoutBien'
    BY <1>1, <1>2, <1>3, <1>6, <1>7 DEF DineroBien, CheckoutBien
  <2>2. QED
    BY <1>1, <1>2, <2>1, PartesQuietas, PartesDeTiposPrima

\* What Mercado Pago does on its own keeps the types.
LEMMA MPTipos ==
  ASSUME Tipos, NEW p \in PagosMP,
         \/ \E i \in Intentos : PagarEnMP(p, i)
         \/ \E estado \in {"refunded", "charged_back"} : RevertirEnMP(p, estado)
  PROVE  Tipos'
<1>1. DineroBien /\ CheckoutBien /\ AgendaBien /\ MPBien
  BY PartesDeTipos
<1>2. UNCHANGED <<agenda, dinero, checkout>>
  BY DEF PagarEnMP, RevertirEnMP
<1>3. MPBien'
  BY <1>1 DEF MPBien, PagarEnMP, RevertirEnMP, APROBADAS
<1>4. QED
  BY <1>1, <1>2, <1>3, PartesQuietas, PartesDeTiposPrima

\* Every event of a payment keeps the types.
LEMMA EventoTipos ==
  ASSUME Tipos, NEW p \in PagosMP,
         \/ \E estado \in {"approved", mp[p].estado} : EventoEnCuarentena(p, estado)
         \/ EventoAprobado(p) \/ EventoRevertido(p)
  PROVE  Tipos'
<1>1. DineroBien /\ CheckoutBien /\ AgendaBien /\ MPBien
  BY PartesDeTipos
<1>2. mp[p].int \in Intentos /\ mp[p].int[1] \in Tramos
  BY <1>1, DeTramo DEF EventoEnCuarentena, EventoAprobado, EventoRevertido, MPBien
<1>3. CASE \E estado \in {"approved", mp[p].estado} : EventoEnCuarentena(p, estado)
  <2>1. DineroBien' /\ UNCHANGED <<agenda, checkout, mp>>
    BY <1>1, <1>2, <1>3 DEF EventoEnCuarentena, DineroBien
  <2>2. QED
    BY <1>1, <2>1, PartesQuietas, PartesDeTiposPrima
<1>4. CASE EventoAprobado(p)
  <2>1. obligacion' \in [Tramos -> TObligacion]
    BY <1>1, <1>2, <1>4 DEF EventoAprobado, DineroBien, TObligacion, COBRADAS
  <2>2. intencion' \in [Intentos -> TIntencion]
    BY <1>1, <1>2, <1>4, UnIntento DEF EventoAprobado, DineroBien
  <2>3. [liquidacion EXCEPT ![mp[p].int[1]] = "held"] \in [Tramos -> TLiquidacion]
    BY <1>1, <1>2 DEF DineroBien, TLiquidacion
  <2>4. liquidacion' \in [Tramos -> TLiquidacion]
    BY <1>4, <2>3, LiberarTipo DEF EventoAprobado
  <2>5. reserva' \in TReserva /\ UNCHANGED <<pasado, precio, cierre, baja, pisada, cambio, cuarentena, checkout, mp>>
    BY <1>1, <1>4 DEF EventoAprobado, AgendaBien, TReserva
  <2>6. QED
    <3>1. DineroBien' /\ AgendaBien'
      BY <1>1, <2>1, <2>2, <2>4, <2>5 DEF DineroBien, AgendaBien
    <3>2. QED
      BY <1>1, <2>5, <3>1, PartesQuietas, PartesDeTiposPrima
<1>5. CASE EventoRevertido(p)
  <2>1. obligacion' \in [Tramos -> TObligacion]
    BY <1>1, <1>2, <1>5 DEF EventoRevertido, DineroBien, TObligacion, COBRADAS
  <2>2. intencion' \in [Intentos -> TIntencion]
    BY <1>1, <1>2, <1>5, UnIntento DEF EventoRevertido, DineroBien, APROBADAS
  <2>3. liquidacion' \in [Tramos -> TLiquidacion]
    BY <1>1, <1>2, <1>5 DEF EventoRevertido, LiquidacionTras, DineroBien, TLiquidacion
  <2>4. UNCHANGED <<agenda, cuarentena, checkout, mp>>
    BY <1>5 DEF EventoRevertido
  <2>5. QED
    <3>1. DineroBien'
      BY <1>1, <2>1, <2>2, <2>3, <2>4 DEF DineroBien
    <3>2. QED
      BY <1>1, <2>4, <3>1, PartesQuietas, PartesDeTiposPrima
<1>6. QED
  BY <1>3, <1>4, <1>5

\* The reconciliation and the evaluation of payments keep the types.
LEMMA LiquidarTipos ==
  ASSUME Tipos, (\E t \in Tramos : Conciliar(t)) \/ EvaluarPagos
  PROVE  Tipos'
<1>1. DineroBien /\ CheckoutBien /\ AgendaBien /\ MPBien
  BY PartesDeTipos
<1>2. UNCHANGED <<agenda, obligacion, intencion, cuarentena, checkout, mp>>
  BY DEF Conciliar, EvaluarPagos
<1>3. liquidacion' \in [Tramos -> TLiquidacion]
  BY <1>1, LiberarTipo DEF Conciliar, EvaluarPagos, DineroBien, TLiquidacion
<1>4. QED
  <2>1. DineroBien'
    BY <1>1, <1>2, <1>3 DEF DineroBien
  <2>2. QED
    BY <1>1, <1>2, <2>1, PartesQuietas, PartesDeTiposPrima

\* What happens to the turno but the payment of what was collected.
DelTurnoSolo ==
  \/ Tick \/ Vencer \/ (\E esAdmin \in BOOLEAN : BajaLee(esAdmin)) \/ BajaEscribe \/ BajaFalla
  \/ (\E nuevo \in Precios \ {precio} : AdminLeePrecio(nuevo)) \/ AdminEscribePrecio
  \/ Finalizar \/ ConfirmarCierre \/ CompletarReserva

\* What the turno does keeps the types, and leaves the money alone.
LEMMA TurnoTipos ==
  ASSUME Tipos, DelTurnoSolo
  PROVE  Tipos' /\ UNCHANGED <<dinero, checkout, mp>>
<1>1. DineroBien /\ CheckoutBien /\ AgendaBien /\ MPBien
  BY PartesDeTipos
<1>2. UNCHANGED <<dinero, checkout, mp>>
  BY DEF DelTurnoSolo, Tick, Vencer, BajaLee, BajaEscribe, BajaFalla, AdminLeePrecio, AdminEscribePrecio,
         Finalizar, ConfirmarCierre, CompletarReserva
<1>3. ASSUME Tick PROVE AgendaBien'
  BY <1>1, <1>3 DEF AgendaBien, TReserva, Tick
<1>4. ASSUME Vencer PROVE AgendaBien'
  BY <1>1, <1>4 DEF AgendaBien, TReserva, Vencer
<1>5. ASSUME NEW esAdmin \in BOOLEAN, BajaLee(esAdmin) PROVE AgendaBien'
  BY <1>1, <1>5 DEF AgendaBien, TReserva, BajaLee
<1>6. ASSUME BajaEscribe \/ BajaFalla PROVE AgendaBien'
  BY <1>1, <1>6 DEF AgendaBien, TReserva, BajaEscribe, BajaFalla
<1>7. ASSUME NEW nuevo \in Precios, AdminLeePrecio(nuevo) PROVE AgendaBien'
  <2>1. cambio.veces + 1 \in 0..MaxCambios
    BY <1>1, <1>7, CobroAssumption DEF AgendaBien, AdminLeePrecio
  <2>2. QED
    BY <1>1, <1>7, <2>1 DEF AgendaBien, AdminLeePrecio
<1>8. ASSUME AdminEscribePrecio PROVE AgendaBien'
  <2>1. cambio.nuevo \in Precios
    BY <1>1, <1>8 DEF AgendaBien, AdminEscribePrecio
  <2>2. QED
    BY <1>1, <1>8, <2>1 DEF AgendaBien, AdminEscribePrecio
<1>9. ASSUME Finalizar \/ ConfirmarCierre \/ CompletarReserva PROVE AgendaBien'
  BY <1>1, <1>9 DEF AgendaBien, TReserva, Finalizar, ConfirmarCierre, CompletarReserva
<1>10. AgendaBien'
  BY <1>3, <1>4, <1>5, <1>6, <1>7, <1>8, <1>9 DEF DelTurnoSolo
<1>11. QED
  BY <1>1, <1>2, <1>10, PartesQuietas, PartesDeTiposPrima

\* The types hold at the start ...
LEMMA TiposInicio == Init => Tipos
<1> SUFFICES ASSUME Init PROVE Tipos
  OBVIOUS
<1>1. DineroBien
  BY DEF Init, DineroBien, TObligacion, TIntencion, TLiquidacion, NoDebida, SinIntencion
<1>2. CheckoutBien
  BY DEF Init, CheckoutBien, TPedido, SinPedido
<1>3. AgendaBien
  <2>1. 0 \in 0..MaxCambios /\ PrecioReservado \in Precios
    BY CobroAssumption
  <2>2. [veces |-> 0, nuevo |-> Ninguno] \in [veces : 0..MaxCambios, nuevo : Precios \cup {Ninguno}]
    BY <2>1
  <2>3. QED
    BY <2>1, <2>2 DEF Init, AgendaBien, TReserva
<1>4. MPBien
  BY DEF Init, MPBien
<1>5. QED
  BY <1>1, <1>2, <1>3, <1>4, PartesDeTipos

\* ... and after every step.
LEMMA TiposPaso == Tipos /\ [Next]_vars => Tipos'
<1> SUFFICES ASSUME Tipos, [Next]_vars PROVE Tipos'
  OBVIOUS
<1>1. CASE UNCHANGED vars
  BY <1>1 DEF vars, agenda, dinero, checkout, Tipos, TypeOK
<1>2. ASSUME NEW h \in Pedidos, DelPedido(h) PROVE Tipos'
  BY <1>2, PedirPorTurnoTipos, PedirPorTrabajoTipos, DespachoTipos DEF DelPedido
<1>3. ASSUME NEW p \in PagosMP, DelPago(p) PROVE Tipos'
  BY <1>3, MPTipos, EventoTipos DEF DelPago
<1>4. ASSUME DelTurno PROVE Tipos'
  BY <1>4, TurnoTipos, LiquidarTipos DEF DelTurno, DelTurnoSolo
<1>5. QED
  BY <1>1, <1>2, <1>3, <1>4, LiquidarTipos DEF Next
----------------------------------------------------------------------------
(* What is charged.                                                        *)

\* One approved attempt for each part, at most ...
UnaAprobada ==
  \A i, j \in Intentos :
    /\ i[1] = j[1]
    /\ intencion[i].estado \in APROBADAS /\ intencion[j].estado \in APROBADAS
    => i = j

\* ... and one exactly for the parts that were charged.
CobradaSiAprobada ==
  \A t \in Tramos :
    obligacion[t].estado \in COBRADAS <=> \E i \in De(t) : intencion[i].estado \in APROBADAS

\* It is inductive as it stands: a part that may get a new attempt has no approved one.
IInv ==
  /\ Tipos
  /\ UnaFormaDePagar
  /\ UnaAprobada
  /\ CobradaSiAprobada
  /\ LiberadoSoloSiPagado

\* A charged part has one approved attempt, counted.
LEMMA CobradosUnoPorTramo == IInv => UnSoloCobroPorTramo
<1> SUFFICES ASSUME IInv, NEW t \in Tramos
             PROVE  /\ Cardinality({i \in De(t) : intencion[i].estado \in APROBADAS}) <= 1
                    /\ obligacion[t].estado \in COBRADAS <=> {i \in De(t) : intencion[i].estado \in APROBADAS} # {}
  BY DEF UnSoloCobroPorTramo
<1> DEFINE A == {i \in De(t) : intencion[i].estado \in APROBADAS}
<1>1. \A i, j \in A : i = j
  BY DEF IInv, UnaAprobada, De
<1>2. obligacion[t].estado \in COBRADAS <=> A # {}
  BY DEF IInv, CobradaSiAprobada
<1> HIDE DEF A
<1>3. Cardinality(A) <= 1
  <2>1. CASE A = {}
    BY <2>1, FS_EmptySet
  <2>2. CASE A # {}
    <3>1. PICK i : A = {i}
      BY <1>1, <2>2
    <3>2. QED
      <4>1. Cardinality({i}) = 1
        BY FS_Singleton
      <4>2. QED
        BY <3>1, <4>1
  <2>3. QED
    BY <2>1, <2>2
<1>4. QED
  BY <1>2, <1>3 DEF A

\* A step that leaves what is owed and charged as it was.
LEMMA Quietos ==
  ASSUME IInv, Tipos', UNCHANGED <<obligacion, liquidacion>>,
         \A i \in Intentos : intencion'[i].estado = intencion[i].estado /\ intencion'[i].monto = intencion[i].monto,
         Entregada => Entregada',
         cierre = "confirmado" => cierre' = "confirmado"
  PROVE  IInv'
<1>1. UnaFormaDePagar'
  <2>1. \A i \in Intentos : i[1] \in Tramos
    BY DeTramo
  <2>2. QED
    BY <2>1 DEF IInv, UnaFormaDePagar
<1>2. UnaAprobada'
  BY DEF IInv, UnaAprobada
<1>3. CobradaSiAprobada'
  BY DEF IInv, CobradaSiAprobada, De
<1>4. LiberadoSoloSiPagado'
  BY DEF IInv, LiberadoSoloSiPagado
<1>5. QED
  BY <1>1, <1>2, <1>3, <1>4 DEF IInv

\* What the first transaction of a checkout leaves: the attempt is open and owed, what it
\* replaces is neither, and nothing charged changes.
LEMMA TrasCrear ==
  ASSUME IInv, NEW modo, NEW i \in Intentos, CrearIntencion(modo, i)
  PROVE  /\ obligacion' = ObligacionTras(i[1])
         /\ obligacion[i[1]].estado \notin COBRADAS
         /\ ObligacionTras(i[1])[i[1]].estado = "pending_payment"
         /\ IntencionTras(i)[i].estado = "pending"
         /\ IntencionTras(i)[i].monto = ObligacionTras(i[1])[i[1]].monto
         /\ \A j \in Intentos \ {i} :
              /\ IntencionTras(i)[j].estado # "pending"
              /\ intencion[j].estado # "pending" => IntencionTras(i)[j].estado = intencion[j].estado
              /\ intencion[j].estado = "pending" => IntencionTras(i)[j].estado = "cancelled"
         /\ \A u \in Tramos \ {i[1]} :
              \/ ObligacionTras(i[1])[u] = obligacion[u]
              \/ obligacion[u].estado = "pending_payment" /\ ObligacionTras(i[1])[u].estado = "voided"
         /\ \E t \in {"sena", "total"} : ObligacionTras(i[1])[t].estado \in {"none", "voided"}
         /\ ObligacionTras(i[1])["saldo"].estado # "none" =>
              /\ Entregada /\ cierre = "confirmado"
              /\ \E t \in {"sena", "total"} : ObligacionTras(i[1])[t].estado \in COBRADAS
<1> DEFINE t == i[1]
<1>1. /\ TypeOK /\ t \in Tramos /\ t = Parte(modo)
      /\ obligacion \in [Tramos -> TObligacion] /\ intencion \in [Intentos -> TIntencion]
  BY DeTramo DEF IInv, Tipos, TypeOK, CrearIntencion, De, TObligacion, TIntencion
<1>2. /\ obligacion' = ObligacionTras(t) /\ ObligacionTras(t)[t].estado = "pending_payment"
      /\ ~Revertido
      /\ Con(t, "pending") # {} => i \in Con(t, "pending")
      /\ Modalidad = Ninguno => t # "saldo"
      /\ Modalidad # Ninguno => t = "saldo" /\ SaldoHabilitado
  <2>1. (Modalidad = Ninguno => t # "saldo") /\ (Modalidad # Ninguno => t = "saldo")
    BY <1>1 DEF Parte
  <2>2. Cobrable(modo)
    BY DEF CrearIntencion
  <2>3. ~Revertido /\ (Modalidad # Ninguno => SaldoHabilitado)
    BY <2>2 DEF Cobrable
  <2>4. /\ obligacion' = ObligacionTras(t) /\ ObligacionTras(t)[t].estado = "pending_payment"
        /\ Con(t, "pending") # {} => i \in Con(t, "pending")
    BY <1>1 DEF CrearIntencion
  <2>5. QED
    BY <2>1, <2>3, <2>4
<1>3. Modalidad # Ninguno <=> (obligacion["total"].estado = "paid" \/ obligacion["sena"].estado = "paid")
  BY CobroAssumption DEF Modalidad, Tramos
<1>4. /\ ObligacionTras(t)[t].estado = IF obligacion[t].estado \in {"none", "voided"} THEN "pending_payment"
                                       ELSE obligacion[t].estado
      /\ \A u \in Tramos \ {t} :
           ObligacionTras(t)[u].estado = IF Reemplaza(t) /\ u = LaOtra(t) THEN "voided" ELSE obligacion[u].estado
      /\ \A u \in Tramos \ {t} : ~(Reemplaza(t) /\ u = LaOtra(t)) => ObligacionTras(t)[u] = obligacion[u]
      /\ obligacion[t].estado = "pending_payment" => ObligacionTras(t)[t] = obligacion[t]
  BY <1>1 DEF ObligacionTras, TObligacion
<1>5. obligacion[t].estado \in {"none", "voided", "pending_payment"}
  BY <1>1, <1>2, <1>4
<1> HIDE DEF t
<1>6. Reemplaza(t) => LaOtra(t) \in Tramos \ {t} /\ obligacion[LaOtra(t)].estado = "pending_payment"
  BY <1>1 DEF Reemplaza, LaOtra, Tramos
<1>7. t # "saldo" => /\ t \in {"sena", "total"} /\ LaOtra(t) \in {"sena", "total"} \ {t}
                     /\ obligacion[LaOtra(t)].estado \notin COBRADAS
  <2>1. ASSUME t # "saldo" PROVE t \in {"sena", "total"} /\ LaOtra(t) \in {"sena", "total"} \ {t}
    BY <1>1, <2>1 DEF Tramos, LaOtra
  <2>2. ASSUME t # "saldo" PROVE obligacion[LaOtra(t)].estado \notin COBRADAS
    BY <1>2, <1>3, <2>1, <2>2 DEF Revertido, Tramos, COBRADAS
  <2>3. QED
    BY <2>1, <2>2
<1>8. \E u \in {"sena", "total"} : ObligacionTras(t)[u].estado \in {"none", "voided"}
  <2>1. CASE t = "saldo"
    <3>1. \A u \in {"sena", "total"} : ObligacionTras(t)[u].estado = obligacion[u].estado
      BY <1>4, <2>1 DEF Reemplaza, Tramos
    <3>2. QED
      BY <3>1 DEF IInv, UnaFormaDePagar
  <2>2. CASE t # "saldo"
    <3>1. obligacion[LaOtra(t)].estado \in {"none", "voided", "pending_payment"}
      BY <1>1, <1>7, <2>2 DEF TObligacion, Tramos
    <3>2. ObligacionTras(t)[LaOtra(t)].estado \in {"none", "voided"}
      BY <1>4, <1>7, <2>2, <3>1 DEF Reemplaza, Tramos
    <3>3. QED
      BY <1>7, <2>2, <3>2
  <2>3. QED
    BY <2>1, <2>2
<1>9. t # "saldo" => obligacion["saldo"].estado = "none"
  <2>1. ASSUME t # "saldo", obligacion["saldo"].estado # "none" PROVE FALSE
    <3>1. PICK u \in {"sena", "total"} : obligacion[u].estado \in COBRADAS
      BY <2>1 DEF IInv, UnaFormaDePagar
    <3>2. u \in {t, LaOtra(t)}
      BY <1>7, <2>1
    <3>3. QED
      BY <1>5, <1>7, <2>1, <3>1, <3>2 DEF COBRADAS
  <2>2. QED
    BY <2>1
<1>10. ObligacionTras(t)["saldo"].estado # "none" =>
         /\ Entregada /\ cierre = "confirmado"
         /\ \E u \in {"sena", "total"} : ObligacionTras(t)[u].estado \in COBRADAS
  <2>1. CASE t = "saldo"
    <3>1. \A u \in {"sena", "total"} : ObligacionTras(t)[u].estado = obligacion[u].estado
      BY <1>4, <2>1 DEF Reemplaza, Tramos
    <3>2. QED
      BY <1>2, <1>3, <2>1, <3>1 DEF SaldoHabilitado, Entregada, COBRADAS
  <2>2. CASE t # "saldo"
    <3>1. ObligacionTras(t)["saldo"].estado = "none"
      BY <1>4, <1>7, <1>9, <2>2 DEF Tramos
    <3>2. QED
      BY <3>1
  <2>3. QED
    BY <2>1, <2>2
<1>11. \A j \in Intentos \ {i} : intencion[j].estado = "pending" => Reemplaza(t) /\ j \in Con(LaOtra(t), "pending")
  <2>1. SUFFICES ASSUME NEW j \in Intentos, j # i, intencion[j].estado = "pending"
                 PROVE  Reemplaza(t) /\ j \in Con(LaOtra(t), "pending")
    OBVIOUS
  <2>2. obligacion[j[1]].estado = "pending_payment" /\ j[1] \in Tramos /\ intencion[i].estado # "pending"
    BY <2>1, DeTramo DEF IInv, UnaFormaDePagar
  <2>3. Con(t, "pending") = {}
    BY <1>2, <2>2 DEF Con
  <2>4. j[1] # t
    BY <2>1, <2>3 DEF Con, De
  <2>5. t # "saldo"
    <3>1. ASSUME t = "saldo" PROVE FALSE
      <4>1. PICK u \in {"sena", "total"} : obligacion[u].estado = "paid"
        BY <1>2, <1>3, <3>1
      <4>2. j[1] \in {"sena", "total"} /\ j[1] # u
        BY <2>2, <2>4, <3>1, <4>1 DEF Tramos
      <4>3. PICK v \in {"sena", "total"} : obligacion[v].estado \in {"none", "voided"}
        BY DEF IInv, UnaFormaDePagar
      <4>4. QED
        BY <2>2, <4>1, <4>2, <4>3
    <3>2. QED
      BY <3>1
  <2>6. j[1] = LaOtra(t)
    BY <1>7, <1>9, <2>2, <2>4, <2>5 DEF Tramos
  <2>7. QED
    BY <2>1, <2>2, <2>5, <2>6 DEF Reemplaza, Con, De
<1>12. i \notin Con(LaOtra(t), "pending") \/ ~Reemplaza(t)
  BY <1>6 DEF Con, De, t
<1>13. IntencionTras(i)[i].estado = "pending" /\ IntencionTras(i)[i].monto = ObligacionTras(t)[t].monto
  <2>1. CASE i \in Con(t, "pending")
    <3>1. IntencionTras(i)[i] = intencion[i] /\ intencion[i].estado = "pending"
      BY <1>12, <2>1 DEF IntencionTras, AnularIntenciones, Con, t
    <3>2. obligacion[t].estado = "pending_payment" /\ obligacion[t].monto = intencion[i].monto
      BY <3>1 DEF IInv, UnaFormaDePagar, t
    <3>3. QED
      BY <1>4, <3>1, <3>2
  <2>2. CASE i \notin Con(t, "pending")
    <3>1. AnularIntenciones(t) \in [Intentos -> TIntencion]
      BY <1>1, AnularTipo
    <3>2. IntencionTras(i) = [AnularIntenciones(t) EXCEPT ![i] = Nueva(t)]
      BY <2>2 DEF IntencionTras, t
    <3>3. IntencionTras(i)[i] = Nueva(t)
      BY <3>1, <3>2
    <3>4. QED
      BY <3>3 DEF Nueva, SinIntencion
  <2>3. QED
    BY <2>1, <2>2
<1>14. ASSUME NEW j \in Intentos \ {i}
       PROVE  /\ IntencionTras(i)[j].estado # "pending"
              /\ intencion[j].estado # "pending" => IntencionTras(i)[j].estado = intencion[j].estado
              /\ intencion[j].estado = "pending" => IntencionTras(i)[j].estado = "cancelled"
  <2>1. IntencionTras(i)[j] = AnularIntenciones(t)[j]
    BY DEF IntencionTras, AnularIntenciones, t
  <2>2. AnularIntenciones(t)[j] = IF Reemplaza(t) /\ j \in Con(LaOtra(t), "pending")
                                  THEN [intencion[j] EXCEPT !.estado = "cancelled"] ELSE intencion[j]
    BY DEF AnularIntenciones
  <2>3. CASE intencion[j].estado = "pending"
    <3>1. AnularIntenciones(t)[j] = [intencion[j] EXCEPT !.estado = "cancelled"]
      BY <1>11, <2>2, <2>3
    <3>2. intencion[j] \in TIntencion
      BY <1>1
    <3>3. AnularIntenciones(t)[j].estado = "cancelled"
      BY <3>1, <3>2 DEF TIntencion
    <3>4. QED
      BY <2>1, <2>3, <3>3
  <2>4. CASE intencion[j].estado # "pending"
    BY <2>1, <2>2, <2>4 DEF Con
  <2>5. QED
    BY <2>3, <2>4
<1>15. \A u \in Tramos \ {t} :
              \/ ObligacionTras(t)[u] = obligacion[u]
              \/ obligacion[u].estado = "pending_payment" /\ ObligacionTras(t)[u].estado = "voided"
  BY <1>4, <1>6
<1>16. obligacion[t].estado \notin COBRADAS
  BY <1>5 DEF COBRADAS
<1>17. QED
  BY <1>2, <1>8, <1>10, <1>13, <1>14, <1>15, <1>16 DEF t

\* What Continuar adds to the first transaction: a claim, and nothing to what is owed.
LEMMA TrasContinuar ==
  ASSUME NEW h, NEW i \in Intentos, NEW por, NEW ints \in [Intentos -> TIntencion], Continuar(h, i, por, ints)
  PROVE  \A j \in Intentos : intencion'[j].estado = ints[j].estado /\ intencion'[j].monto = ints[j].monto
<1>1. intencion' = ints \/ intencion' = [ints EXCEPT ![i].reclamo = TRUE]
  BY DEF Continuar
<1>2. QED
  BY <1>1 DEF TIntencion

\* A new attempt is made for a part that nothing charged, after the other part was voided.
LEMMA CrearPaso ==
  ASSUME IInv, Tipos', NEW modo, NEW h, NEW i \in Intentos, NEW por, CrearIntencion(modo, i),
         Continuar(h, i, por, IntencionTras(i)), UNCHANGED <<agenda, liquidacion>>
  PROVE  IInv'
<1> DEFINE t == i[1]
           n == IntencionTras(i)
<1>1. TypeOK /\ t \in Tramos
  BY DeTramo DEF IInv, Tipos
<1>2. n \in [Intentos -> TIntencion]
  BY <1>1, IntencionTrasTipo
<1>3. /\ \A j \in Intentos : intencion'[j].estado = n[j].estado /\ intencion'[j].monto = n[j].monto
      /\ UNCHANGED <<liquidacion, reserva, pisada, cierre, Entregada>>
  BY <1>2, TrasContinuar DEF agenda, Entregada
<1>4. /\ obligacion[t].estado \notin COBRADAS
      /\ obligacion'[t].estado = "pending_payment"
      /\ n[i].estado = "pending"
      /\ n[i].monto = obligacion'[t].monto
      /\ \A j \in Intentos \ {i} :
           /\ n[j].estado # "pending"
           /\ intencion[j].estado # "pending" => n[j].estado = intencion[j].estado
           /\ intencion[j].estado = "pending" => n[j].estado = "cancelled"
      /\ \A u \in Tramos \ {t} :
           \/ obligacion'[u] = obligacion[u]
           \/ obligacion[u].estado = "pending_payment" /\ obligacion'[u].estado = "voided"
      /\ \E u \in {"sena", "total"} : obligacion'[u].estado \in {"none", "voided"}
      /\ obligacion'["saldo"].estado # "none" =>
           /\ Entregada /\ cierre = "confirmado"
           /\ \E u \in {"sena", "total"} : obligacion'[u].estado \in COBRADAS
  BY TrasCrear
<1>5. UnaFormaDePagar'
  BY <1>3, <1>4 DEF UnaFormaDePagar
<1> HIDE DEF n
<1>6. ASSUME NEW j \in Intentos PROVE intencion'[j].estado \in APROBADAS <=> j # i /\ intencion[j].estado \in APROBADAS
  BY <1>3, <1>4 DEF APROBADAS
<1>7. \A j \in De(t) : intencion[j].estado \notin APROBADAS
  BY <1>1, <1>4 DEF IInv, CobradaSiAprobada
<1>8. \A j \in Intentos : intencion'[j].estado \in APROBADAS <=> intencion[j].estado \in APROBADAS
  BY <1>6, <1>7, DeTramo
<1>9. UnaAprobada'
  BY <1>8 DEF IInv, UnaAprobada
<1>10. \A u \in Tramos : obligacion'[u].estado \in COBRADAS <=> obligacion[u].estado \in COBRADAS
  BY <1>4 DEF COBRADAS
<1>11. CobradaSiAprobada'
  BY <1>8, <1>10 DEF IInv, CobradaSiAprobada, De
<1>12. \A u \in Tramos : obligacion[u].estado = "paid" => obligacion'[u].estado = "paid"
  BY <1>4 DEF COBRADAS
<1>13. LiberadoSoloSiPagado'
  BY <1>3, <1>12 DEF IInv, LiberadoSoloSiPagado
<1>14. QED
  BY <1>5, <1>9, <1>11, <1>13 DEF IInv

\* Whatever a request does keeps the invariant.
LEMMA PedidoPaso ==
  ASSUME IInv, Tipos', NEW h \in Pedidos, DelPedido(h)
  PROVE  IInv'
<1>1. TypeOK /\ intencion \in [Intentos -> TIntencion] /\ CheckoutBien
  BY PartesDeTipos DEF IInv, Tipos, DineroBien
<1>2. ASSUME NEW t \in Tramos, PedirPorTurno(h, t) PROVE IInv'
  <2>1. UNCHANGED <<agenda, liquidacion>>
    BY <1>2 DEF PedirPorTurno
  <2>2. CASE clave[t] # Ninguno
    <3>1. clave[t] \in Intentos /\ Continuar(h, clave[t], t, intencion) /\ obligacion' = obligacion
      BY <1>1, <1>2, <2>2 DEF PedirPorTurno, CheckoutBien
    <3>2. \A j \in Intentos : intencion'[j].estado = intencion[j].estado /\ intencion'[j].monto = intencion[j].monto
      BY <1>1, <3>1, TrasContinuar
    <3>3. QED
      BY <2>1, <3>1, <3>2, Quietos DEF agenda, Entregada
  <2>3. CASE clave[t] = Ninguno
    <3>1. PICK i \in Intentos : CrearIntencion(IF t = "saldo" THEN Ninguno ELSE t, i) /\ Continuar(h, i, t, IntencionTras(i))
      BY <1>2, <2>3 DEF PedirPorTurno
    <3>2. QED
      BY <2>1, <3>1, CrearPaso
  <2>4. QED
    BY <2>2, <2>3
<1>3. ASSUME NEW modo, PedirPorTrabajo(h, modo) PROVE IInv'
  <2>1. PICK i \in Intentos : CrearIntencion(modo, i) /\ Continuar(h, i, Ninguno, IntencionTras(i))
    BY <1>3 DEF PedirPorTrabajo
  <2>2. QED
    BY <1>3, <2>1, CrearPaso DEF PedirPorTrabajo
<1>4. ASSUME RegistrarDespacho(h) \/ FallarDespacho(h) \/ VenceReclamo(h) PROVE IInv'
  <2>1. UNCHANGED <<agenda, obligacion, liquidacion>>
    BY <1>4 DEF RegistrarDespacho, FallarDespacho, VenceReclamo
  <2>2. \/ intencion' = [intencion EXCEPT ![pedido[h].int].url = TRUE, ![pedido[h].int].reclamo = FALSE]
        \/ intencion' = [intencion EXCEPT ![pedido[h].int].reclamo = FALSE]
    BY <1>4 DEF RegistrarDespacho, FallarDespacho, VenceReclamo
  <2>3. \A j \in Intentos : intencion'[j].estado = intencion[j].estado /\ intencion'[j].monto = intencion[j].monto
    BY <1>1, <2>2 DEF TIntencion
  <2>4. QED
    BY <2>1, <2>3, Quietos DEF agenda, Entregada
<1>5. QED
  BY <1>2, <1>3, <1>4 DEF DelPedido

\* What Liberar makes eligible is paid, of a turno that was delivered and closed.
LEMMA LiberarSolo ==
  ASSUME NEW o, NEW l, NEW t \in Tramos, Liberar(o, l)[t] = "eligible", l[t] # "eligible"
  PROVE  /\ o[t].estado = "paid" /\ Entregada /\ cierre = "confirmado"
         /\ \A u \in Tramos : o[u].estado # "pending_payment"
         /\ SumaDe(o) >= precio
BY DEF Liberar, CubreElPrecio, Entregada

\* An approval charges an attempt only if its part is owed, hence uncharged.
LEMMA AprobadoPaso ==
  ASSUME IInv, Tipos', NEW p \in PagosMP, EventoAprobado(p)
  PROVE  IInv'
<1> DEFINE i == mp[p].int
           t == i[1]
           o == [obligacion EXCEPT ![t].estado = "paid"]
<1>1. /\ i \in Intentos /\ t \in Tramos /\ intencion[i].estado = "pending"
      /\ obligacion \in [Tramos -> TObligacion] /\ intencion \in [Intentos -> TIntencion]
      /\ liquidacion \in [Tramos -> TLiquidacion]
  BY DeTramo DEF IInv, Tipos, TypeOK, EventoAprobado, Permitido, Transicion, TObligacion, TIntencion, TLiquidacion
<1>2. /\ intencion' = [intencion EXCEPT ![i].estado = "approved", ![i].ref = p]
      /\ obligacion' = o
      /\ reserva' = IF Confirma(t) THEN "confirmed" ELSE reserva
      /\ liquidacion' = Liberar(o, [liquidacion EXCEPT ![t] = "held"])
      /\ UNCHANGED <<pasado, precio, cierre, pisada>>
  BY DEF EventoAprobado
<1> HIDE DEF i, t
<1>3. /\ obligacion[t].estado = "pending_payment"
      /\ \A j \in Intentos \ {i} : intencion[j].estado # "pending"
  BY <1>1 DEF IInv, UnaFormaDePagar, t
<1>4. /\ intencion'[i].estado = "approved"
      /\ \A j \in Intentos \ {i} : intencion'[j] = intencion[j]
      /\ o[t].estado = "paid" /\ o[t].monto = obligacion[t].monto
      /\ \A u \in Tramos \ {t} : o[u] = obligacion[u]
  BY <1>1, <1>2 DEF TIntencion, TObligacion
<1> HIDE DEF o
<1>5. Entregada => Entregada'
  BY <1>2 DEF Confirma, EsperaPago, Entregada
<1>6. UnaFormaDePagar'
  <2>1. \E u \in {"sena", "total"} : obligacion'[u].estado \in {"none", "voided"}
    BY <1>2, <1>3, <1>4 DEF IInv, UnaFormaDePagar, Tramos
  <2>2. \A j \in Intentos : intencion'[j].estado # "pending"
    BY <1>3, <1>4
  <2>3. obligacion'["saldo"].estado # "none" =>
          /\ Entregada' /\ cierre' = "confirmado"
          /\ \E u \in {"sena", "total"} : obligacion'[u].estado \in COBRADAS
    BY <1>2, <1>3, <1>4, <1>5 DEF IInv, UnaFormaDePagar, Tramos, COBRADAS
  <2>4. QED
    BY <2>1, <2>2, <2>3 DEF UnaFormaDePagar
<1>7. \A j \in De(t) : intencion[j].estado \notin APROBADAS
  BY <1>1, <1>3 DEF IInv, CobradaSiAprobada, COBRADAS
<1>8. UnaAprobada'
  BY <1>4, <1>7, DeTramo DEF IInv, UnaAprobada, De, t
<1>9. CobradaSiAprobada'
  <2>1. i \in De(t)
    BY <1>1, DeTramo DEF t
  <2>2. obligacion'[t].estado \in COBRADAS /\ \E j \in De(t) : intencion'[j].estado \in APROBADAS
    BY <1>2, <1>4, <2>1 DEF COBRADAS, APROBADAS
  <2>3. ASSUME NEW u \in Tramos \ {t} PROVE \A j \in De(u) : intencion'[j] = intencion[j]
    BY <1>4 DEF De, t
  <2>4. ASSUME NEW u \in Tramos
        PROVE  obligacion'[u].estado \in COBRADAS <=> \E j \in De(u) : intencion'[j].estado \in APROBADAS
    <3>1. CASE u = t
      BY <2>2, <3>1
    <3>2. CASE u # t
      BY <1>2, <1>4, <2>3, <3>2 DEF IInv, CobradaSiAprobada
    <3>3. QED
      BY <3>1, <3>2
  <2>5. QED
    BY <2>4 DEF CobradaSiAprobada, De
<1>10. LiberadoSoloSiPagado'
  <2>1. SUFFICES ASSUME NEW u \in Tramos, liquidacion'[u] = "eligible"
                 PROVE  obligacion'[u].estado = "paid" /\ Entregada' /\ cierre' = "confirmado"
    BY DEF LiberadoSoloSiPagado
  <2> DEFINE l == [liquidacion EXCEPT ![t] = "held"]
  <2>2. CASE l[u] = "eligible"
    <3>1. u # t /\ liquidacion[u] = "eligible"
      BY <1>1, <2>2
    <3>2. QED
      BY <1>2, <1>4, <1>5, <3>1 DEF IInv, LiberadoSoloSiPagado
  <2>3. CASE l[u] # "eligible"
    <3> HIDE DEF l
    <3>1. Liberar(o, l)[u] = "eligible"
      BY <1>2, <2>1 DEF l
    <3>2. o[u].estado = "paid" /\ Entregada /\ cierre = "confirmado"
      BY <2>3, <3>1, LiberarSolo
    <3>3. QED
      BY <1>2, <1>5, <3>2
  <2>4. QED
    BY <2>2, <2>3
<1>11. QED
  BY <1>6, <1>8, <1>9, <1>10 DEF IInv

\* A reversal changes how a part was charged, and takes back what was released.
LEMMA RevertidoPaso ==
  ASSUME IInv, Tipos', NEW p \in PagosMP, EventoRevertido(p)
  PROVE  IInv'
<1> DEFINE i == mp[p].int
           t == i[1]
           e == mp[p].estado
<1>1. /\ i \in Intentos /\ t \in Tramos /\ intencion[i].estado = "approved" /\ e \in {"refunded", "charged_back"}
      /\ obligacion \in [Tramos -> TObligacion] /\ intencion \in [Intentos -> TIntencion]
      /\ liquidacion \in [Tramos -> TLiquidacion]
  BY DeTramo DEF IInv, Tipos, TypeOK, EventoRevertido, Permitido, Transicion, TObligacion, TIntencion, TLiquidacion
<1>2. /\ intencion' = [intencion EXCEPT ![i].estado = e]
      /\ obligacion' = [obligacion EXCEPT ![t].estado = e]
      /\ liquidacion' = [liquidacion EXCEPT ![t] = LiquidacionTras(liquidacion[t], e)]
      /\ UNCHANGED <<reserva, cierre, Entregada>>
  BY DEF EventoRevertido, agenda, Entregada
<1> HIDE DEF i, t, e
<1>3. i \in De(t)
  BY <1>1, DeTramo DEF t
<1>4. /\ intencion'[i].estado = e
      /\ \A j \in Intentos \ {i} : intencion'[j] = intencion[j]
      /\ obligacion'[t].estado = e
      /\ \A u \in Tramos \ {t} : obligacion'[u] = obligacion[u] /\ liquidacion'[u] = liquidacion[u]
      /\ liquidacion'[t] \in {"reversed", "frozen"}
  BY <1>1, <1>2 DEF TIntencion, TObligacion, LiquidacionTras
<1>5. obligacion[t].estado \in COBRADAS
  BY <1>1, <1>3 DEF IInv, CobradaSiAprobada, APROBADAS
<1>6. \A u \in Tramos : /\ obligacion'[u].estado \in COBRADAS <=> obligacion[u].estado \in COBRADAS
                        /\ obligacion[u].estado \in {"none", "voided"} => obligacion'[u] = obligacion[u]
                        /\ obligacion[u].estado = "none" <=> obligacion'[u].estado = "none"
  BY <1>1, <1>4, <1>5 DEF COBRADAS
<1>7. \A j \in Intentos : /\ intencion'[j].estado \in APROBADAS <=> intencion[j].estado \in APROBADAS
                          /\ intencion'[j].estado = "pending" <=> intencion[j].estado = "pending"
  BY <1>1, <1>4 DEF APROBADAS
<1>8. UnaFormaDePagar'
  <2>1. \E u \in {"sena", "total"} : obligacion'[u].estado \in {"none", "voided"}
    BY <1>6 DEF IInv, UnaFormaDePagar, Tramos
  <2>2. ASSUME NEW j \in Intentos, intencion'[j].estado = "pending"
        PROVE  /\ obligacion'[j[1]].estado = "pending_payment" /\ obligacion'[j[1]].monto = intencion'[j].monto
               /\ \A k \in Intentos \ {j} : intencion'[k].estado # "pending"
    <3>1. intencion[j].estado = "pending" /\ j # i /\ intencion'[j] = intencion[j]
      BY <1>1, <1>4, <1>7, <2>2
    <3>2. obligacion[j[1]].estado = "pending_payment" /\ obligacion[j[1]].monto = intencion[j].monto
      BY <3>1 DEF IInv, UnaFormaDePagar
    <3>3. j[1] # t /\ j[1] \in Tramos
      BY <1>5, <3>2, DeTramo DEF COBRADAS
    <3>4. \A k \in Intentos \ {j} : intencion'[k].estado # "pending"
      BY <1>7, <3>1 DEF IInv, UnaFormaDePagar
    <3>5. QED
      BY <1>4, <3>1, <3>2, <3>3, <3>4
  <2>3. obligacion'["saldo"].estado # "none" =>
          /\ Entregada' /\ cierre' = "confirmado"
          /\ \E u \in {"sena", "total"} : obligacion'[u].estado \in COBRADAS
    BY <1>2, <1>6 DEF IInv, UnaFormaDePagar, Tramos
  <2>4. QED
    BY <2>1, <2>2, <2>3 DEF UnaFormaDePagar
<1>9. UnaAprobada'
  BY <1>7 DEF IInv, UnaAprobada
<1>10. CobradaSiAprobada'
  BY <1>6, <1>7 DEF IInv, CobradaSiAprobada, De
<1>11. LiberadoSoloSiPagado'
  BY <1>2, <1>4 DEF IInv, LiberadoSoloSiPagado
<1>12. QED
  BY <1>8, <1>9, <1>10, <1>11 DEF IInv

\* A reconciliation only freezes.
LEMMA ConciliarPaso ==
  ASSUME IInv, Tipos', NEW t \in Tramos, Conciliar(t)
  PROVE  IInv'
<1>1. /\ liquidacion' = [liquidacion EXCEPT ![t] = "frozen"]
      /\ UNCHANGED <<agenda, obligacion, intencion>>
  BY DEF Conciliar
<1>2. \A u \in Tramos : liquidacion'[u] = "eligible" => liquidacion[u] = "eligible"
  BY <1>1 DEF IInv, Tipos, TypeOK
<1>3. LiberadoSoloSiPagado'
  BY <1>1, <1>2 DEF IInv, LiberadoSoloSiPagado, agenda, Entregada
<1>4. UnaFormaDePagar' /\ UnaAprobada' /\ CobradaSiAprobada'
  BY <1>1 DEF IInv, UnaFormaDePagar, UnaAprobada, CobradaSiAprobada, De, agenda, Entregada
<1>5. QED
  BY <1>3, <1>4 DEF IInv

\* An evaluation releases only what is paid, of a turno given and closed.
LEMMA EvaluarPaso ==
  ASSUME IInv, Tipos', EvaluarPagos
  PROVE  IInv'
<1>1. liquidacion' = Liberar(obligacion, liquidacion) /\ UNCHANGED <<agenda, obligacion, intencion>>
  BY DEF EvaluarPagos
<1>2. ASSUME NEW u \in Tramos, liquidacion'[u] = "eligible"
      PROVE  obligacion[u].estado = "paid" /\ Entregada /\ cierre = "confirmado"
  <2>1. CASE liquidacion[u] = "eligible"
    BY <2>1 DEF IInv, LiberadoSoloSiPagado
  <2>2. CASE liquidacion[u] # "eligible"
    BY <1>1, <1>2, <2>2, LiberarSolo
  <2>3. QED
    BY <2>1, <2>2
<1>3. LiberadoSoloSiPagado'
  BY <1>1, <1>2 DEF LiberadoSoloSiPagado, agenda, Entregada
<1>4. UnaFormaDePagar' /\ UnaAprobada' /\ CobradaSiAprobada'
  BY <1>1 DEF IInv, UnaFormaDePagar, UnaAprobada, CobradaSiAprobada, De, agenda, Entregada
<1>5. QED
  BY <1>3, <1>4 DEF IInv

\* The invariant holds at the start ...
LEMMA IInvInicio == Init => IInv
<1> SUFFICES ASSUME Init PROVE IInv
  OBVIOUS
<1>1. /\ \A t \in Tramos : obligacion[t].estado = "none" /\ liquidacion[t] = "none"
      /\ \A i \in Intentos : intencion[i].estado = "none"
  BY DEF Init, NoDebida, SinIntencion
<1>2. UnaFormaDePagar
  BY <1>1 DEF UnaFormaDePagar, Tramos
<1>3. UnaAprobada /\ CobradaSiAprobada
  BY <1>1 DEF UnaAprobada, CobradaSiAprobada, De, APROBADAS, COBRADAS
<1>4. LiberadoSoloSiPagado
  BY <1>1 DEF LiberadoSoloSiPagado
<1>5. QED
  BY <1>2, <1>3, <1>4, TiposInicio DEF IInv

\* ... is kept by every step ...
LEMMA IInvPaso == IInv /\ [Next]_vars => IInv'
<1> SUFFICES ASSUME IInv, [Next]_vars PROVE IInv'
  OBVIOUS
<1>1. Tipos'
  BY TiposPaso DEF IInv
<1>2. CASE UNCHANGED vars
  BY <1>1, <1>2, Quietos DEF vars, agenda, Entregada, dinero
<1>3. ASSUME NEW h \in Pedidos, DelPedido(h) PROVE IInv'
  BY <1>1, <1>3, PedidoPaso
<1>4. ASSUME NEW p \in PagosMP, DelPago(p) PROVE IInv'
  <2>1. CASE EventoAprobado(p)
    BY <1>1, <2>1, AprobadoPaso
  <2>2. CASE EventoRevertido(p)
    BY <1>1, <2>2, RevertidoPaso
  <2>3. CASE ~EventoAprobado(p) /\ ~EventoRevertido(p)
    <3>1. UNCHANGED <<agenda, obligacion, intencion, liquidacion>>
      BY <1>4, <2>3 DEF DelPago, PagarEnMP, RevertirEnMP, EventoEnCuarentena, dinero
    <3>2. QED
      BY <1>1, <3>1, Quietos DEF agenda, Entregada
  <2>4. QED
    BY <2>1, <2>2, <2>3
<1>5. ASSUME NEW t \in Tramos, Conciliar(t) PROVE IInv'
  BY <1>1, <1>5, ConciliarPaso
<1>6. ASSUME DelTurnoSolo PROVE IInv'
  <2>1. UNCHANGED <<obligacion, intencion, liquidacion>>
    BY <1>6, TurnoTipos DEF IInv, dinero
  <2>2. Entregada => Entregada'
    BY <1>6 DEF IInv, Tipos, TypeOK, Entregada, DelTurnoSolo, Tick, Vencer, BajaLee, BajaEscribe, BajaFalla, EsperaPago, AdminLeePrecio,
                AdminEscribePrecio, Finalizar, ConfirmarCierre, CompletarReserva
  <2>3. cierre = "confirmado" => cierre' = "confirmado"
    BY <1>6 DEF DelTurnoSolo, Tick, Vencer, BajaLee, BajaEscribe, BajaFalla, AdminLeePrecio,
                AdminEscribePrecio, Finalizar, ConfirmarCierre, CompletarReserva
  <2>4. QED
    BY <1>1, <2>1, <2>2, <2>3, Quietos
<1>7. ASSUME EvaluarPagos PROVE IInv'
  BY <1>1, <1>7, EvaluarPaso
<1>8. QED
  BY <1>2, <1>3, <1>4, <1>5, <1>6, <1>7 DEF Next, DelTurno, DelTurnoSolo

----------------------------------------------------------------------------
(* The theorems.                                                           *)

\* Every variable of the charge keeps its type: an attempt, an obligation, a settlement and a
\* payment of Mercado Pago are only ever in the states the service has for them.
THEOREM TiposCobro == Spec => []TypeOK
<1>1. Tipos => TypeOK
  BY DEF Tipos
<1>2. QED
  BY <1>1, TiposInicio, TiposPaso, PTL DEF Spec

\* ... and hence always holds.
LEMMA IInvSiempre == Spec => []IInv
BY IInvInicio, IInvPaso, PTL DEF Spec

\* Deposit and total are two ways of paying the same thing: at most one is owed or charged, at
\* most one attempt is open and it is owed with its amount, and a balance comes after a charged
\* part, a delivery and its closing.
THEOREM UnaSolaFormaDePagar == Spec => []UnaFormaDePagar
<1>1. IInv => UnaFormaDePagar
  BY DEF IInv
<1>2. QED
  BY <1>1, IInvSiempre, PTL

\* No part is charged twice, whatever Mercado Pago collects and in whatever order it reports
\* it, and a part is charged exactly when one attempt of it was approved.
THEOREM CadaTramoSeCobraUnaVez == Spec => []UnSoloCobroPorTramo
BY CobradosUnoPorTramo, IInvSiempre, PTL

\* What the provider may withdraw was delivered, closed and is still paid.
THEOREM SoloSeRetiraLoPagado == Spec => []LiberadoSoloSiPagado
<1>1. IInv => LiberadoSoloSiPagado
  BY DEF IInv
<1>2. QED
  BY <1>1, IInvSiempre, PTL

\* Only an approval adds to what was paid.
LEMMA SumaMismosPagados ==
  ASSUME NEW o \in [Tramos -> TObligacion], NEW q \in [Tramos -> TObligacion],
         \A t \in Tramos : q[t].estado = "paid" => o[t] = q[t]
  PROVE  SumaDe(q) <= SumaDe(o)
<1> DEFINE f == [t \in Tramos |-> o[t].monto]
           g == [t \in Tramos |-> q[t].monto]
           S == {t \in Tramos : o[t].estado = "paid"}
           R == {t \in Tramos : q[t].estado = "paid"}
<1>1. /\ R \subseteq S /\ IsFiniteSet(S) /\ IsFiniteSet(R) /\ IsFiniteSet(S \ R)
  BY TramosFinitos, FS_Subset
<1>2. (\A t \in S : f[t] \in Nat) /\ (\A t \in R : g[t] = f[t])
  BY DEF TObligacion
<1> HIDE DEF f, g, S, R
<1>3. Suma(g, R) = Suma(f, R)
  BY <1>1, <1>2, SumaIgual
<1>4. R \cup (S \ R) = S /\ R \cap (S \ R) = {}
  BY <1>1
<1>5. \A t \in R \cup (S \ R) : f[t] \in Int
  BY <1>2, <1>4
<1>6. Suma(f, R \cup (S \ R)) = Suma(f, R) + Suma(f, S \ R)
  BY <1>1, <1>4, <1>5, SumaUnion
<1>7. Suma(f, R) \in Nat /\ Suma(f, S \ R) \in Nat
  BY <1>1, <1>2, SumaNat
<1>8. Suma(g, R) <= Suma(f, S)
  <2>1. Suma(f, S) = Suma(f, R \cup (S \ R))
    BY <1>4, Zenon
  <2>2. QED
    BY <1>3, <1>6, <1>7, <2>1
<1>9. QED
  BY <1>8 DEF SumaDe, f, g, S, R

\* Paying one more part adds its amount.
LEMMA SumaUnoMas ==
  ASSUME NEW o \in [Tramos -> TObligacion], NEW t \in Tramos, o[t].estado # "paid",
         NEW q \in [Tramos -> TObligacion], q[t].estado = "paid", q[t].monto = o[t].monto,
         \A u \in Tramos \ {t} : q[u] = o[u]
  PROVE  SumaDe(q) = SumaDe(o) + o[t].monto
<1> DEFINE f == [u \in Tramos |-> o[u].monto]
           g == [u \in Tramos |-> q[u].monto]
           S == {u \in Tramos : o[u].estado = "paid"}
           R == {u \in Tramos : q[u].estado = "paid"}
<1>1. R = S \cup {t} /\ t \notin S /\ IsFiniteSet(S) /\ IsFiniteSet(R)
  BY TramosFinitos, FS_Subset
<1>2. (\A u \in Tramos : f[u] \in Nat /\ g[u] = f[u]) /\ f[t] = o[t].monto /\ S \subseteq Tramos /\ R \subseteq Tramos
  BY DEF TObligacion
<1> HIDE DEF f, g, S, R
<1>3. Suma(g, R) = Suma(f, R)
  BY <1>1, <1>2, SumaIgual
<1>4. \A y \in S \cup {t} : f[y] \in Int
  BY <1>2
<1>5. Suma(f, S \cup {t}) = Suma(f, S) + f[t]
  BY <1>1, <1>4, SumaAgregar
<1>6. Suma(g, R) = Suma(f, S) + o[t].monto
  <2>1. Suma(f, R) = Suma(f, S \cup {t})
    BY <1>1, Zenon
  <2>2. QED
    BY <1>2, <1>3, <1>5, <2>1
<1>7. QED
  BY <1>6 DEF SumaDe, f, g, S, R

\* Only an approval makes what was paid grow, and it looks at the price first.
LEMMA CobroDelPaso ==
  ASSUME IInv, Tipos', [Next]_vars
  PROVE  \/ Pagado' <= Pagado
         \/ Pagado' <= precio'
<1>1. /\ obligacion \in [Tramos -> TObligacion] /\ obligacion' \in [Tramos -> TObligacion] /\ TypeOK
      /\ Pagado = SumaDe(obligacion) /\ Pagado' = SumaDe(obligacion')
  BY DEF IInv, Tipos, TypeOK, TObligacion, Pagado, SumaDe
<1>2. CASE \A t \in Tramos : obligacion'[t].estado = "paid" => obligacion[t] = obligacion'[t]
  BY <1>1, <1>2, SumaMismosPagados
<1>3. CASE \E p \in PagosMP : EventoAprobado(p)
  <2>1. PICK p \in PagosMP : EventoAprobado(p)
    BY <1>3
  <2> DEFINE t == mp[p].int[1]
  <2>2. /\ mp[p].int \in Intentos /\ t \in Tramos /\ intencion[mp[p].int].estado = "pending"
        /\ obligacion' = [obligacion EXCEPT ![t].estado = "paid"] /\ ~Sobrecobro(t) /\ precio' = precio
    BY <2>1, DeTramo DEF IInv, Tipos, EventoAprobado, Permitido, Transicion
  <2>3. obligacion[t].estado = "pending_payment"
    BY <2>2 DEF IInv, UnaFormaDePagar
  <2> HIDE DEF t
  <2>4. /\ obligacion'[t].estado = "paid" /\ obligacion'[t].monto = obligacion[t].monto
        /\ \A u \in Tramos \ {t} : obligacion'[u] = obligacion[u]
    BY <1>1, <2>2 DEF TObligacion
  <2>5. SumaDe(obligacion') = SumaDe(obligacion) + obligacion[t].monto
    <3>1. obligacion[t].estado # "paid"
      BY <2>3
    <3>2. QED
      <4>1. obligacion \in [Tramos -> TObligacion] /\ obligacion' \in [Tramos -> TObligacion] /\ t \in Tramos
        BY <1>1, <2>2
      <4>2. QED
        BY ONLY <2>4, <3>1, <4>1, SumaUnoMas
  <2>6. Pagado \in Nat /\ obligacion[t].monto \in Nat /\ precio \in Nat
    BY <1>1, <2>2, SumaDeNat, SenaNat DEF TObligacion, TypeOK
  <2>7. QED
    BY <1>1, <2>2, <2>5, <2>6 DEF Sobrecobro
<1>4. CASE ~ \E p \in PagosMP : EventoAprobado(p)
  <2> DEFINE NoPaga == \A t \in Tramos : obligacion'[t].estado = "paid" => obligacion[t] = obligacion'[t]
  <2>1. ASSUME NEW modo, NEW i \in Intentos, CrearIntencion(modo, i) PROVE NoPaga
    BY <2>1, TrasCrear
  <2>2. ASSUME NEW h \in Pedidos, NEW t \in Tramos, PedirPorTurno(h, t) PROVE NoPaga
    <3>1. CASE clave[t] # Ninguno
      BY <2>2, <3>1 DEF PedirPorTurno
    <3>2. CASE clave[t] = Ninguno
      <4>1. PICK i \in Intentos : CrearIntencion(IF t = "saldo" THEN Ninguno ELSE t, i)
        BY <2>2, <3>2 DEF PedirPorTurno
      <4>2. QED
        BY <2>1, <4>1
    <3>3. QED
      BY <3>1, <3>2
  <2>3. ASSUME NEW h \in Pedidos, NEW modo, PedirPorTrabajo(h, modo) PROVE NoPaga
    <3>1. PICK i \in Intentos : CrearIntencion(modo, i)
      BY <2>3 DEF PedirPorTrabajo
    <3>2. QED
      BY <2>1, <3>1
  <2>4. ASSUME NEW h \in Pedidos, RegistrarDespacho(h) \/ FallarDespacho(h) \/ VenceReclamo(h) PROVE NoPaga
    BY <2>4 DEF RegistrarDespacho, FallarDespacho, VenceReclamo
  <2>5. ASSUME NEW p \in PagosMP, EventoRevertido(p) PROVE NoPaga
    BY <1>1, <2>5 DEF EventoRevertido, TObligacion
  <2>6. ASSUME NEW p \in PagosMP, DelPago(p), ~EventoRevertido(p) PROVE NoPaga
    BY <1>4, <2>6 DEF DelPago, PagarEnMP, RevertirEnMP, EventoEnCuarentena, dinero
  <2>7. ASSUME DelTurnoSolo PROVE NoPaga
    BY <2>7, TurnoTipos DEF IInv, dinero
  <2>8. ASSUME EvaluarPagos \/ \E t \in Tramos : Conciliar(t) PROVE NoPaga
    BY <2>8 DEF EvaluarPagos, Conciliar
  <2>9. ASSUME UNCHANGED vars PROVE NoPaga
    BY <2>9 DEF vars, dinero
  <2> HIDE DEF NoPaga
  <2>10. NoPaga
    BY <2>2, <2>3, <2>4, <2>5, <2>6, <2>7, <2>8, <2>9 DEF Next, DelPedido, DelTurno, DelTurnoSolo
  <2>11. QED
    BY <1>2, <2>10 DEF NoPaga
<1>5. QED
  BY <1>3, <1>4

\* What is charged never takes what was paid above the price of that moment, also when the
\* price changed after the checkout was created.
THEOREM NoSeCobraDeMas == Spec => CobradoNoExcede
<1>1. IInv /\ [Next]_vars => [Pagado' > Pagado => Pagado' <= precio']_vars
  <2> SUFFICES ASSUME IInv, [Next]_vars, Pagado' > Pagado PROVE Pagado' <= precio'
    OBVIOUS
  <2>1. Tipos'
    BY TiposPaso DEF IInv
  <2>2. Pagado \in Nat /\ Pagado' \in Nat
    <3>1. obligacion \in [Tramos -> TObligacion] /\ obligacion' \in [Tramos -> TObligacion]
      BY <2>1 DEF IInv, Tipos, TypeOK, TObligacion
    <3>2. SumaDe(obligacion) \in Nat /\ SumaDe(obligacion') \in Nat
      BY <3>1, SumaDeNat
    <3>3. QED
      BY <3>2 DEF Pagado, SumaDe
  <2>3. QED
    BY <2>1, <2>2, CobroDelPaso
<1>2. QED
  BY <1>1, IInvSiempre, PTL DEF Spec, CobradoNoExcede

\* Money is released only at the moment when the whole price is paid and nothing of the turno
\* is owed.
THEOREM SoloSeLiberaConTodoPagado == Spec => SeLiberaConTodoPagado
<1> DEFINE A == \A t \in Tramos : (liquidacion[t] # "eligible" /\ liquidacion'[t] = "eligible") =>
                   /\ SumaDe(obligacion)' >= precio'
                   /\ \A u \in Tramos : obligacion'[u].estado # "pending_payment"
<1>1. IInv /\ [Next]_vars => [A]_vars
  <2> SUFFICES ASSUME IInv, [Next]_vars, NEW t \in Tramos, liquidacion[t] # "eligible", liquidacion'[t] = "eligible"
               PROVE  /\ SumaDe(obligacion)' >= precio'
                      /\ \A u \in Tramos : obligacion'[u].estado # "pending_payment"
    OBVIOUS
  <2>1. \/ \E p \in PagosMP : EventoAprobado(p) \/ EventoRevertido(p)
        \/ \E u \in Tramos : Conciliar(u)
        \/ EvaluarPagos
    <3>1. ASSUME NEW h \in Pedidos, DelPedido(h) PROVE liquidacion' = liquidacion
      BY <3>1 DEF DelPedido, PedirPorTurno, PedirPorTrabajo, RegistrarDespacho, FallarDespacho, VenceReclamo
    <3>2. ASSUME NEW p \in PagosMP, DelPago(p)
          PROVE  liquidacion' = liquidacion \/ EventoAprobado(p) \/ EventoRevertido(p)
      BY <3>2 DEF DelPago, PagarEnMP, RevertirEnMP, EventoEnCuarentena, dinero
    <3>3. ASSUME DelTurnoSolo PROVE liquidacion' = liquidacion
      BY <3>3, TurnoTipos DEF IInv, dinero
    <3>4. ~ UNCHANGED vars
      BY DEF vars, dinero
    <3>5. QED
      BY <3>1, <3>2, <3>3, <3>4 DEF Next, DelTurno, DelTurnoSolo
  <2>2. ASSUME NEW o, NEW l, liquidacion' = Liberar(o, l), l[t] # "eligible", obligacion' = o, precio' = precio
        PROVE  /\ SumaDe(obligacion)' >= precio'
               /\ \A u \in Tramos : obligacion'[u].estado # "pending_payment"
    <3>1. Liberar(o, l)[t] = "eligible"
      BY <2>2
    <3>2. SumaDe(o) >= precio /\ \A u \in Tramos : o[u].estado # "pending_payment"
      BY <2>2, <3>1, LiberarSolo
    <3>3. SumaDe(obligacion)' = SumaDe(o)
      BY <2>2 DEF SumaDe
    <3>4. QED
      BY <2>2, <3>2, <3>3
  <2>3. ASSUME NEW p \in PagosMP, EventoAprobado(p)
        PROVE  /\ SumaDe(obligacion)' >= precio'
               /\ \A u \in Tramos : obligacion'[u].estado # "pending_payment"
    <3> DEFINE o == [obligacion EXCEPT ![mp[p].int[1]].estado = "paid"]
               l == [liquidacion EXCEPT ![mp[p].int[1]] = "held"]
    <3>1. liquidacion' = Liberar(o, l) /\ obligacion' = o /\ precio' = precio
      BY <2>3 DEF EventoAprobado
    <3>2. l[t] # "eligible"
      BY DEF IInv, Tipos, TypeOK
    <3> HIDE DEF o, l
    <3>3. QED
      BY <2>2, <3>1, <3>2
  <2>4. ASSUME NEW p \in PagosMP, EventoRevertido(p) PROVE FALSE
    <3>1. liquidacion' = [liquidacion EXCEPT ![mp[p].int[1]] = LiquidacionTras(liquidacion[mp[p].int[1]], mp[p].estado)]
      BY <2>4 DEF EventoRevertido
    <3>2. LiquidacionTras(liquidacion[mp[p].int[1]], mp[p].estado) # "eligible"
      BY DEF LiquidacionTras
    <3>3. QED
      BY <3>1, <3>2 DEF IInv, Tipos, TypeOK
  <2>5. ASSUME NEW u \in Tramos, Conciliar(u) PROVE FALSE
    BY <2>5 DEF Conciliar, IInv, Tipos, TypeOK
  <2>6. CASE EvaluarPagos
    BY <2>2, <2>6 DEF EvaluarPagos, agenda
  <2>7. QED
    BY <2>1, <2>3, <2>4, <2>5, <2>6
<1>2. QED
  BY <1>1, IInvSiempre, PTL DEF Spec, SeLiberaConTodoPagado
=============================================================================
