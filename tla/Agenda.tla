------------------------------- MODULE Agenda -------------------------------
(***************************************************************************)
(* The agenda of ONE provider (tus/calendar/turnos-service.ts): requests,  *)
(* answers, reschedulings, turnos loaded by hand or forced by the          *)
(* administration, blocks, the verified payment that confirms, and the     *)
(* closing of a turno that was given.                                      *)
(*                                                                         *)
(* Every write of TurnosService runs inside conAgendaBloqueada, at READ    *)
(* COMMITTED: it takes the row of the CALENDAR and first expires what      *)
(* nobody answered in time.  That keeps the other writes of TurnosService  *)
(* away, and nobody else: what changes a turno reads its row without       *)
(* taking it, awaits, and then writes it by its identifier, whatever it    *)
(* has become.  Such an operation is two actions here, its reads           *)
(* (AceptarLee, RechazarLee, CancelarClienteLee, CambiarEstadoLee,         *)
(* ReprogramarLee), which leave in `escritura' what it is about to write,  *)
(* and the write (Escribir).  A write that only inserts is one action.     *)
(* What does not take the calendar runs in between: the payment (finance   *)
(* transaction), the removal of a block, and the closing of a turno, which *)
(* reads in one step and writes in another.                                *)
(***************************************************************************)
EXTENDS EstadosTurno, Integers, FiniteSets

CONSTANTS
  Turnos,             \* identifiers of reservations that may be created
  Clientes,           \* accounts
  Bloqueos,           \* identifiers of blocks (excepciones_calendario)
  Inicios,            \* the starts the weekly rules offer (agenda.ts)
  Duracion,           \* duration of the service
  RangosManuales,     \* <<start, end>> of turnos loaded by hand or forced
  RangosBloqueo,      \* <<start, end>> of blocks
  Descanso,           \* rest between two turnos (bufferMinutos)
  VigenciaSolicitud,  \* HORAS_VIGENCIA_SOLICITUD_TURNO
  VigenciaPago,       \* HORAS_VIGENCIA_PAGO_SENA_TURNO
  Ventana,            \* VENTANA_CANCELACION_MS, the last-minute window
  MaxPendientes,      \* MAXIMO_SOLICITUDES_PENDIENTES_POR_AGENDA
  Horizonte,          \* bound: last instant of the clock
  MaxVersion          \* bound: a turno is not moved past this version

Invitado == "invitado"

ASSUME AgendaAssumption ==
  /\ IsFiniteSet(Turnos)
  /\ Inicios \subseteq Nat
  /\ \A r \in RangosManuales \cup RangosBloqueo :
       r \in Nat \X Nat /\ r[1] < r[2]
  /\ Duracion \in Nat \ {0} /\ Descanso \in Nat
  /\ VigenciaSolicitud \in Nat \ {0} /\ VigenciaPago \in Nat \ {0}
  /\ Ventana \in Nat /\ MaxPendientes \in Nat \ {0}
  /\ Horizonte \in Nat /\ MaxVersion \in Nat \ {0}
  /\ Invitado \notin Clientes

VARIABLES
  reserva,      \* the rows of public."reservas", by turno
  bloqueo,      \* the active block with that identifier, or its absence
  permite,      \* calendarios.permiteReprogramacion
  orden,        \* turnos with an order of work: its checkout was opened
  pagado,       \* turnos whose payment the provider of payments approved
  cierre,       \* the closing of a turno: none, its checks passed, or stored
  avisos,       \* notices in the outbox: one per kind and version of the row
  escritura,    \* what the holder of the calendar is about to write, if anything
  ahora

vars == <<reserva, bloqueo, permite, orden, pagado, cierre, avisos, escritura, ahora>>

Fila == [estado : ESTADOS \cup {SinFila}, inicio : Nat, fin : Nat, expira : Nat,
         cliente : Clientes \cup {Invitado},
         origen : {"tus", "manual", "forzado", "mercado"},
         admite : BOOLEAN, conSena : BOOLEAN, version : Nat]

FilaVacia == [estado |-> SinFila, inicio |-> 0, fin |-> 0, expira |-> 0,
              cliente |-> Invitado, origen |-> "tus", admite |-> FALSE,
              conSena |-> FALSE, version |-> 0]

SinBloqueo == [activo |-> FALSE, inicio |-> 0, fin |-> 0]

TIPOS == {"solicitud_recibida", "solicitud_respondida", "turno_confirmado",
          "turno_cancelado", "turno_reprogramado"}

\* What a change of a turno read, and what it is about to write: another state,
\* or another time (hora: the new start, or the deadline of an acceptance).
OtroHorario == "otro_horario"
SinAviso == "sin_aviso"
Escrituras == [turno : Turnos, leido : ESTADOS, nuevo : ESTADOS \cup {OtroHorario},
               hora : Nat, aviso : TIPOS \cup {SinAviso}, vencidas : SUBSET Turnos]

Menor(a, b) == IF a < b THEN a ELSE b

----------------------------------------------------------------------------
(* Time and slots.                                                         *)

\* Two half-open ranges that touch, with a rest around the second (agenda.ts).
SeSolapan(i, f, j, g, colchon) == i < g + colchon /\ f + colchon > j

\* A request whose validity ran out (the limit itself is already late).
Vencida(r) == r.estado \in ESPERAN /\ r.expira <= ahora

\* queOcupan: what still holds its time for whoever reads.
Ocupa(r) == r.estado \notin LIBERAN \cup {SinFila} /\ ~Vencida(r)

\* Rows of the exclusion constraint: it does not know of validity.
EnRestriccion(r) == r.estado \notin LIBERAN \cup {SinFila}

\* (Variant: the predicate leaves out what still waits for an answer.)
SinChoque_Variante(tabla, t, i, f) ==
  \A u \in Turnos \ {t} :
    (EnRestriccion(tabla[u]) /\ tabla[u].estado # "pending") =>
      ~SeSolapan(i, f, tabla[u].inicio, tabla[u].fin, 0)

\* ex_reservas_sin_solapamiento: the row of t may have the range [i, f).
SinChoque(tabla, t, i, f) ==
  \A u \in Turnos \ {t} :
    EnRestriccion(tabla[u]) => ~SeSolapan(i, f, tabla[u].inicio, tabla[u].fin, 0)

Bloqueado(i, f) ==
  \E b \in Bloqueos :
    bloqueo[b].activo /\ SeSolapan(i, f, bloqueo[b].inicio, bloqueo[b].fin, 0)

\* (Variant: the rest around the other turnos is forgotten.)
Disponible_Variante(tabla, t, i) ==
  /\ i \in Inicios
  /\ i > ahora
  /\ ~Bloqueado(i, i + Duracion)
  /\ SinChoque(tabla, t, i, i + Duracion)

\* exigirDisponible: an offered start, in the future, that no block covers and
\* that respects the rest around every turno that holds its time.
Disponible(tabla, t, i) ==
  /\ i \in Inicios
  /\ i > ahora
  /\ ~Bloqueado(i, i + Duracion)
  /\ \A u \in Turnos \ {t} :
       Ocupa(tabla[u]) =>
         ~SeSolapan(i, i + Duracion, tabla[u].inicio, tabla[u].fin, Descanso)

\* esCancelacionTardia: exactly the window is already late.
EsTardia(i) == i - ahora <= Ventana

\* The writes of a row: another state, another deadline, another time.
Cambiada(r, e) == [r EXCEPT !.estado = e, !.version = @ + 1]
ConPlazo(r, hasta) == [r EXCEPT !.expira = hasta]
Movida(r, i) == [r EXCEPT !.inicio = i, !.fin = i + (r.fin - r.inicio), !.version = @ + 1]

\* The prologue of conAgendaBloqueada: the table every locked write starts from.
PorVencer == {t \in Turnos : Vencida(reserva[t])}
Expiradas(s) ==
  [t \in Turnos |-> IF t \in s THEN Cambiada(reserva[t], "expired") ELSE reserva[t]]
Vencidas == Expiradas(PorVencer)

Pasar(tabla, t, e) == [tabla EXCEPT ![t] = Cambiada(tabla[t], e)]

\* The update of a turno by its identifier: of the row as it is now, only the
\* columns it names.
Escrita(r, e) ==
  IF e.nuevo = OtroHorario THEN Movida(r, e.hora)
  ELSE ConPlazo(Cambiada(r, e.nuevo),
                IF e.nuevo = "awaiting_payment" THEN e.hora ELSE r.expira)

Aviso(t, tipo, tabla) == [turno |-> t, tipo |-> tipo, version |-> tabla[t].version]

\* What no write of the agenda touches.
SinTocarResto == UNCHANGED <<permite, orden, pagado, cierre, ahora>>

\* A transaction that takes the calendar, decides and writes in one action.
ConAgenda == escritura = {} /\ escritura' = {}

\* A transaction that takes the calendar and decides what to write in a turno.
\* What it expired is written too, and its rows are taken until it ends.
Decide(t, nuevo, hora, aviso) ==
  /\ escritura = {}
  /\ escritura' = {[turno |-> t, leido |-> Vencidas[t].estado, nuevo |-> nuevo,
                    hora |-> hora, aviso |-> aviso, vencidas |-> PorVencer]}
  /\ UNCHANGED <<reserva, bloqueo, avisos>> /\ SinTocarResto

----------------------------------------------------------------------------
Init ==
  /\ reserva = [t \in Turnos |-> FilaVacia]
  /\ bloqueo = [b \in Bloqueos |-> SinBloqueo]
  /\ permite \in BOOLEAN
  /\ orden = {} /\ pagado = {} /\ avisos = {} /\ escritura = {}
  /\ cierre = [t \in Turnos |-> "no"]
  /\ ahora = 0

Pendientes(tabla, c) ==
  {t \in Turnos : tabla[t].estado = "pending" /\ tabla[t].cliente = c}

CabeOtra(tabla, c) == Cardinality(Pendientes(tabla, c)) < MaxPendientes

\* crearTurno as a request: born pending, with the validity counted from now
\* and never past the start, and with what the agenda allows today.
SolicitarTurno(t, c, i, sena) ==
  LET tabla == Vencidas
      fila == [estado |-> "pending", inicio |-> i, fin |-> i + Duracion,
               expira |-> Menor(ahora + VigenciaSolicitud, i),
               cliente |-> c, origen |-> "tus", admite |-> permite,
               conSena |-> sena, version |-> 1]
      nueva == [tabla EXCEPT ![t] = fila]
  IN /\ tabla[t].estado = SinFila
     /\ Disponible(tabla, t, i)
     /\ CabeOtra(tabla, c)
     /\ SinChoque(tabla, t, i, i + Duracion)
     /\ reserva' = nueva
     /\ avisos' = avisos \cup {Aviso(t, "solicitud_recibida", nueva)}
     /\ ConAgenda /\ UNCHANGED bloqueo /\ SinTocarResto

\* crearTurno for the administration: the same rules, born confirmed.
AdminReservar(t, c, i) ==
  LET tabla == Vencidas IN
  /\ tabla[t].estado = SinFila
  /\ Disponible(tabla, t, i)
  /\ SinChoque(tabla, t, i, i + Duracion)
  /\ reserva' = [tabla EXCEPT ![t] =
       [estado |-> "confirmed", inicio |-> i, fin |-> i + Duracion, expira |-> 0,
        cliente |-> c, origen |-> "tus", admite |-> permite, conSena |-> FALSE,
        version |-> 1]]
  /\ ConAgenda /\ UNCHANGED <<bloqueo, avisos>> /\ SinTocarResto

\* (Variant: only the other turnos are looked at again.)
SigueLibre_Variante(tabla, t) ==
  SinChoque(tabla, t, tabla[t].inicio, tabla[t].fin)

\* "Still free?": the blocks and the other turnos, looked at when accepting.
SigueLibre(tabla, t) ==
  /\ ~Bloqueado(tabla[t].inicio, tabla[t].fin)
  /\ \A u \in Turnos \ {t} :
       Ocupa(tabla[u]) => ~SeSolapan(tabla[t].inicio, tabla[t].fin,
                                     tabla[u].inicio, tabla[u].fin, 0)

\* What an acceptance makes of a request.  It held its time against other
\* turnos, but its provider may have blocked it meanwhile: then the stored
\* answer is a rejection.
Respuesta(tabla, t) ==
  IF tabla[t].inicio <= ahora THEN "expired"
  ELSE IF ~SigueLibre(tabla, t) THEN "rejected"
  ELSE IF tabla[t].conSena THEN "awaiting_payment" ELSE "confirmed"

\* responderSolicitud, accepting.  Whether a deposit is due does not change
\* here, so reading it before the lock is the same step.
AceptarLee(t) ==
  LET r == Vencidas[t]
      destino == Respuesta(Vencidas, t)
  IN /\ r.estado = "pending"
     /\ Decide(t, destino,
               IF destino = "awaiting_payment" THEN Menor(ahora + VigenciaPago, r.inicio) ELSE 0,
               IF destino = "expired" THEN SinAviso ELSE "solicitud_respondida")

\* responderSolicitud, rejecting.
RechazarLee(t) ==
  /\ Vencidas[t].estado = "pending"
  /\ Decide(t, "rejected", 0, "solicitud_respondida")

\* (Variant: a turno already cancelled is cancelled again.)
Cancelable_Variante(r) ==
  r.estado \in ESPERAN \cup {"confirmed", "cancelled"} /\ r.inicio > ahora
Cancelable(r) == r.estado \in ESPERAN \cup {"confirmed"} /\ r.inicio > ahora

\* cancelarTurnoCliente: its own turno, before it starts, not yet finished.
\* The rule that applies was read before the lock: it may still say "in time"
\* when the last minute has begun, never the opposite.  (What the client loses
\* is the subject of CobroTurno.)
CancelarClienteLee(t, c, tarde) ==
  LET r == Vencidas[t] IN
  /\ r.cliente = c
  /\ Cancelable(r)
  /\ tarde => EsTardia(r.inicio)
  /\ cierre[t] # "si"
  /\ Decide(t, IF tarde /\ r.estado = "confirmed" THEN "cancelled-late" ELSE "cancelled",
            0, "turno_cancelado")

\* cambiarEstadoTurno, asked by its provider or by the administration.  A
\* turno with an online payment is closed through its closing, and one that
\* was finished is no longer its provider's to change.
CambiarEstadoLee(t, esAdmin, nuevo) ==
  LET r == Vencidas[t] IN
  /\ r.estado \in ESTADOS
  /\ nuevo \in A_PEDIDO(r.estado)
  /\ nuevo = "completed" => t \notin orden
  /\ ~esAdmin => cierre[t] # "si"
  /\ Decide(t, nuevo, 0,
            IF nuevo \in {"cancelled", "cancelled-late"} /\ r.cliente # Invitado
            THEN "turno_cancelado" ELSE SinAviso)

\* reprogramacionDe.
AdmiteMoverse(t, r) ==
  /\ r.admite /\ r.estado = "confirmed" /\ r.cliente # Invitado
  /\ ~EsTardia(r.inicio)
  /\ cierre[t] # "si"

\* reprogramarTurno: the same row at another free time; both times must be
\* further away than the last-minute window.
ReprogramarLee(t, i) ==
  LET r == Vencidas[t] IN
  /\ AdmiteMoverse(t, r)
  /\ ~EsTardia(i)
  /\ i # r.inicio
  /\ Disponible(Vencidas, t, i)
  /\ r.version < MaxVersion
  /\ Decide(t, OtroHorario, i, "turno_reprogramado")

\* The write of any of them, with its notice, if PostgreSQL does not refuse it.
Escribir ==
  \E e \in escritura :
    LET t == e.turno
        nueva == [Expiradas(e.vencidas) EXCEPT ![t] = Escrita(reserva[t], e)]
    IN /\ EnRestriccion(nueva[t]) => SinChoque(nueva, t, nueva[t].inicio, nueva[t].fin)
       /\ reserva' = nueva
       /\ avisos' = avisos \cup (IF e.aviso = SinAviso THEN {} ELSE {Aviso(t, e.aviso, nueva)})
       /\ escritura' = {}
       /\ UNCHANGED bloqueo /\ SinTocarResto

\* It fails (the constraint, its connection, its process): nothing remains.
Deshacer ==
  /\ escritura # {}
  /\ escritura' = {}
  /\ UNCHANGED <<reserva, bloqueo, avisos>> /\ SinTocarResto

\* crearTurnoManual: any time, past or future, that no active block covers.
CrearManual(t, c, i, f) ==
  LET tabla == Vencidas IN
  /\ tabla[t].estado = SinFila
  /\ ~Bloqueado(i, f)
  /\ SinChoque(tabla, t, i, f)
  /\ reserva' = [tabla EXCEPT ![t] =
       [estado |-> "confirmed", inicio |-> i, fin |-> f, expira |-> 0,
        cliente |-> c, origen |-> "manual", admite |-> FALSE, conSena |-> FALSE,
        version |-> 1]]
  /\ ConAgenda /\ UNCHANGED <<bloqueo, avisos>> /\ SinTocarResto

\* adminForzarTurno: future, outside the published hours and over any block;
\* only PostgreSQL refuses it.
ForzarTurno(t, c, i, f) ==
  LET tabla == Vencidas IN
  /\ tabla[t].estado = SinFila
  /\ i > ahora
  /\ SinChoque(tabla, t, i, f)
  /\ reserva' = [tabla EXCEPT ![t] =
       [estado |-> "confirmed", inicio |-> i, fin |-> f, expira |-> 0,
        cliente |-> c, origen |-> "forzado", admite |-> FALSE, conSena |-> FALSE,
        version |-> 1]]
  /\ ConAgenda /\ UNCHANGED <<bloqueo, avisos>> /\ SinTocarResto

\* exigirSinTurnos: a block never covers a turno already taken.  A request
\* nobody answered does not count: accepting it looks at the blocks again.
SinTurnos(tabla, i, f) ==
  \A t \in Turnos :
    (Ocupa(tabla[t]) /\ tabla[t].estado # "pending") =>
      ~SeSolapan(i, f, tabla[t].inicio, tabla[t].fin, 0)

\* bloquearHorario and editarBloqueo.
Bloquear(b, i, f) ==
  /\ SinTurnos(Vencidas, i, f)
  /\ reserva' = Vencidas
  /\ bloqueo' = [bloqueo EXCEPT ![b] = [activo |-> TRUE, inicio |-> i, fin |-> f]]
  /\ ConAgenda /\ UNCHANGED avisos /\ SinTocarResto

\* A locked write that changes no turno: a repeated answer, a cancellation
\* asked twice, new weekly hours.  What was overdue is expired all the same.
SoloVencer ==
  /\ reserva' = Vencidas
  /\ ConAgenda /\ UNCHANGED <<bloqueo, avisos>> /\ SinTocarResto

\* quitarBloqueo: a plain update, without the calendar.
QuitarBloqueo(b) ==
  /\ bloqueo[b].activo
  /\ bloqueo' = [bloqueo EXCEPT ![b] = SinBloqueo]
  /\ UNCHANGED <<reserva, avisos, escritura>> /\ SinTocarResto

\* guardarReprogramacionPrestador: a plain update of the row of the calendar,
\* which waits for whoever holds it.
GuardarReprogramacion ==
  /\ permite' = ~permite
  /\ ConAgenda /\ UNCHANGED <<reserva, bloqueo, orden, pagado, cierre, avisos, ahora>>

----------------------------------------------------------------------------
(* What other domains write in the same rows, without the calendar.        *)

\* Opening the checkout of the deposit creates the order of the turno.
AbrirCheckout(t) ==
  /\ reserva[t].estado = "awaiting_payment" /\ ~Vencida(reserva[t])
  /\ t \notin orden
  /\ orden' = orden \cup {t}
  /\ UNCHANGED <<reserva, bloqueo, permite, pagado, cierre, avisos, escritura, ahora>>

\* (Variant: the order of the turno is not looked for.)
Aprobable_Variante(t) == t \notin pagado
Aprobable(t) == t \in orden /\ t \notin pagado

\* (Variant: a late payment confirms an expired turno.)
EsperaPago_Variante(r) ==
  r.estado = "expired" \/ (r.estado = "awaiting_payment" /\ r.expira > ahora)
EsperaPago(r) == r.estado = "awaiting_payment" /\ r.expira > ahora

\* The verified approval, whenever it arrives.  confirmarReservaPorPagoPrisma
\* confirms only a turno that still waits for it.
PagoAprobado(t) ==
  /\ Aprobable(t)
  /\ pagado' = pagado \cup {t}
  /\ reserva' = IF EsperaPago(reserva[t])
                THEN [reserva EXCEPT ![t] = ConPlazo(Cambiada(reserva[t], "confirmed"), 0)]
                ELSE reserva
  /\ UNCHANGED <<bloqueo, permite, orden, cierre, avisos, escritura, ahora>>

\* avisarConfirmacionDe: after the webhook, and every time its client asks
\* whether the payment arrived.
AvisarConfirmacion(t) ==
  /\ reserva[t].estado = "confirmed"
  /\ reserva[t].cliente # Invitado /\ reserva[t].origen # "manual"
  /\ avisos' = avisos \cup {Aviso(t, "turno_confirmado", reserva)}
  /\ UNCHANGED <<reserva, bloqueo, permite, orden, pagado, cierre, escritura, ahora>>

\* ServicioCierreTrabajo.finalizar reads the turno ...
FinalizarLee(t) ==
  /\ t \in orden /\ cierre[t] = "no"
  /\ reserva[t].estado = "confirmed" /\ reserva[t].inicio <= ahora
  /\ cierre' = [cierre EXCEPT ![t] = "leido"]
  /\ UNCHANGED <<reserva, bloqueo, permite, orden, pagado, avisos, escritura, ahora>>

\* ... and stores the closing later, with nothing that ties it to that read.
FinalizarCrea(t) ==
  /\ cierre[t] = "leido"
  /\ cierre' = [cierre EXCEPT ![t] = "si"]
  /\ UNCHANGED <<reserva, bloqueo, permite, orden, pagado, avisos, escritura, ahora>>

\* completarReserva: the confirmed closing completes a confirmed turno.
CompletarReserva(t) ==
  /\ cierre[t] = "si" /\ reserva[t].estado = "confirmed"
  /\ reserva' = [reserva EXCEPT ![t].estado = "completed"]
  /\ UNCHANGED <<bloqueo, permite, orden, pagado, cierre, avisos, escritura, ahora>>

Tick ==
  /\ ahora < Horizonte
  /\ ahora' = ahora + 1
  /\ UNCHANGED <<reserva, bloqueo, permite, orden, pagado, cierre, avisos, escritura>>

----------------------------------------------------------------------------
Crear(t) ==
  \/ \E c \in Clientes, i \in Inicios, s \in BOOLEAN : SolicitarTurno(t, c, i, s)
  \/ \E c \in Clientes \cup {Invitado}, i \in Inicios : AdminReservar(t, c, i)
  \/ \E c \in Clientes \cup {Invitado}, r \in RangosManuales :
       CrearManual(t, c, r[1], r[2]) \/ ForzarTurno(t, c, r[1], r[2])

Cambiar(t) ==
  \/ AceptarLee(t)
  \/ RechazarLee(t)
  \/ \E c \in Clientes, tarde \in BOOLEAN : CancelarClienteLee(t, c, tarde)
  \/ \E esAdmin \in BOOLEAN, e \in ESTADOS : CambiarEstadoLee(t, esAdmin, e)
  \/ \E i \in Inicios : ReprogramarLee(t, i)

DeOtros(t) ==
  \/ AbrirCheckout(t)
  \/ PagoAprobado(t)
  \/ AvisarConfirmacion(t)
  \/ FinalizarLee(t)
  \/ FinalizarCrea(t)
  \/ CompletarReserva(t)

Next ==
  \/ \E t \in Turnos : Crear(t) \/ Cambiar(t) \/ DeOtros(t)
  \/ Escribir
  \/ Deshacer
  \/ \E b \in Bloqueos : QuitarBloqueo(b)
  \/ \E b \in Bloqueos, r \in RangosBloqueo : Bloquear(b, r[1], r[2])
  \/ SoloVencer
  \/ GuardarReprogramacion
  \/ Tick

Spec == Init /\ [][Next]_vars

----------------------------------------------------------------------------
TypeOK ==
  /\ reserva \in [Turnos -> Fila]
  /\ bloqueo \in [Bloqueos -> [activo : BOOLEAN, inicio : Nat, fin : Nat]]
  /\ permite \in BOOLEAN
  /\ orden \subseteq Turnos /\ pagado \subseteq orden
  /\ cierre \in [Turnos -> {"no", "leido", "si"}]
  /\ avisos \subseteq [turno : Turnos, tipo : TIPOS, version : Nat]
  /\ escritura \subseteq Escrituras /\ \A e, f \in escritura : e = f
  /\ ahora \in Nat

\* Two turnos of one provider that hold their time never overlap, whoever
\* wrote each of them (turnos-service.ts with the exclusion constraint).
SinSolapamiento ==
  \A t, u \in Turnos :
    (t # u /\ EnRestriccion(reserva[t]) /\ EnRestriccion(reserva[u])) =>
      ~SeSolapan(reserva[t].inicio, reserva[t].fin, reserva[u].inicio, reserva[u].fin, 0)

\* Between two turnos booked through TUS there is always the rest of the
\* service: the database cannot say it, only the lock of the agenda does.
DescansoEntreTurnos ==
  \A t, u \in Turnos :
    ( /\ t # u
      /\ Ocupa(reserva[t]) /\ Ocupa(reserva[u])
      /\ {reserva[t].origen, reserva[u].origen} \subseteq {"tus", "mercado"} ) =>
      ~SeSolapan(reserva[t].inicio, reserva[t].fin,
                 reserva[u].inicio, reserva[u].fin, Descanso)

\* A turno that was accepted (waiting for its payment, confirmed or given) and
\* an active block never cover the same time; only what the administration
\* forces may (exigirSinTurnos with the checks of every creation and answer).
AceptadoNoBloqueado ==
  \A t \in Turnos :
    ( /\ Ocupa(reserva[t]) /\ reserva[t].estado # "pending"
      /\ reserva[t].origen # "forzado" ) =>
      ~Bloqueado(reserva[t].inicio, reserva[t].fin)

\* A request that had a deposit to pay is confirmed, or given, only when the
\* payment was approved: no path confirms it for free.
NadieConfirmaGratis ==
  \A t \in Turnos :
    (reserva[t].conSena /\ reserva[t].estado \in {"confirmed", "completed", "no-show"})
      => t \in pagado

\* A turno that ended cancelled has exactly one notice of it (none for a guest
\* without an account), and an answered request exactly one answer, however
\* often the same thing was asked.
AvisosDe(t, tipo) == {a \in avisos : a.turno = t /\ a.tipo = tipo}
UnAvisoPorSuceso ==
  \A t \in Turnos :
    /\ Cardinality(AvisosDe(t, "turno_cancelado")) =
         IF reserva[t].estado \in {"cancelled", "cancelled-late"}
            /\ reserva[t].cliente # Invitado THEN 1 ELSE 0
    /\ Cardinality(AvisosDe(t, "solicitud_respondida")) <= 1
    /\ reserva[t].estado = "awaiting_payment" =>
         Cardinality(AvisosDe(t, "solicitud_respondida")) = 1

\* Every change of state of a turno, of any writer, is one the contract allows
\* (TRANSICIONES_TURNO): a late payment never revives an expired turno, and
\* nothing leaves a final state with one exception.  A turno that was given is
\* written over, and only by whoever held the calendar since before it was
\* completed: what it writes is right for the state it read.
LoEscribeQuienLoLeyo(t) ==
  \E e \in escritura :
    /\ e.turno = t /\ reserva'[t].estado = e.nuevo
    /\ e.leido \in {"awaiting_payment", "confirmed"} /\ e.nuevo \in TRANSICIONES[e.leido]
CambiosSegunContrato ==
  [][\A t \in Turnos :
       (reserva[t].estado \in ESTADOS /\ reserva'[t].estado # reserva[t].estado) =>
         \/ reserva'[t].estado \in TRANSICIONES[reserva[t].estado]
         \/ reserva[t].estado = "completed" /\ LoEscribeQuienLoLeyo(t)]_vars
=============================================================================
