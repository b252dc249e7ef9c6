---------------------------- MODULE AgendaMercado ----------------------------
(***************************************************************************)
(* The agenda of a provider has a second door: the marketplace books on    *)
(* the same table (tus/calendar/bookings.ts) and the acceptance of a work  *)
(* confirms its reservation (tus/adapters/prisma-work.ts).                 *)
(*                                                                         *)
(* Those writes do not take the row of the calendar.  They are             *)
(* SERIALIZABLE transactions: they decide on the snapshot taken at their   *)
(* first read, and PostgreSQL makes them fail when a row they update was   *)
(* changed meanwhile, or when two of them conflict.  The writes of Agenda  *)
(* run at READ COMMITTED, so nothing else is detected between the two      *)
(* doors: what the agenda decided on a row is written over whatever the    *)
(* marketplace made of it.  A booking and an acceptance are two actions,   *)
(* and the conflict among SERIALIZABLE transactions is one of them at a    *)
(* time.  A row the agenda has expired and not yet committed is taken.     *)
(***************************************************************************)
EXTENDS Agenda

CONSTANT LargoDia   \* hours of a calendar date

ASSUME MercadoAssumption == LargoDia \in Nat \ {0}

VARIABLES
  trabajo,  \* the marketplace work of a reservation
  tx        \* the SERIALIZABLE transaction in flight, with what it read

varsMercado == <<vars, trabajo, tx>>

SinTx == [op |-> "ninguna"]
Dia(h) == h \div LargoDia

\* The slot engine of the marketplace knows blocks as calendar dates: the date
\* each block STARTS on (toCalendar, generateServiceSlots).
FechaBloqueada(i) == \E b \in Bloqueos : bloqueo[b].activo /\ Dia(bloqueo[b].inicio) = Dia(i)

\* availableCapacity, with one place per slot: a reservation that was given
\* already does not count.
RetieneTiempo(r) == r.estado = "confirmed" \/ (r.estado \in ESPERAN /\ ~Vencida(r))

HayLugar(i) ==
  \A u \in Turnos :
    RetieneTiempo(reserva[u]) =>
      ~SeSolapan(i, i + Duracion, reserva[u].inicio, reserva[u].fin, Descanso)

\* The rows the agenda has expired and not yet committed: who writes them waits.
Tomadas == UNION {e.vencidas : e \in escritura}

\* bookInternal up to its last read.
ReservarLee(t, c, i) ==
  /\ tx = SinTx
  /\ reserva[t].estado = SinFila
  /\ ~FechaBloqueada(i)
  /\ i > ahora
  /\ Cardinality(Pendientes(Vencidas, c)) < MaxPendientes
  /\ HayLugar(i)
  /\ tx' = [op |-> "reservar", turno |-> t, cliente |-> c, inicio |-> i, leido |-> ahora,
            vencidas |-> {u \in Turnos : Vencida(reserva[u])}]
  /\ UNCHANGED <<vars, trabajo>>

\* Its commit: expireOverdue and the new row, if no row it updates changed.
ReservarEscribe ==
  LET t == tx.turno
      i == tx.inicio
      tabla == [u \in Turnos |-> IF u \in tx.vencidas
                                 THEN Cambiada(reserva[u], "expired") ELSE reserva[u]]
  IN /\ tx.op = "reservar"
     /\ tx.vencidas \cap Tomadas = {}
     /\ \A u \in tx.vencidas : reserva[u].estado \in ESPERAN
     /\ reserva[t].estado = SinFila
     /\ SinChoque(tabla, t, i, i + Duracion)
     /\ reserva' = [tabla EXCEPT ![t] =
          [estado |-> "pending", inicio |-> i, fin |-> i + Duracion,
           expira |-> Menor(tx.leido + VigenciaSolicitud, i),
           cliente |-> tx.cliente, origen |-> "mercado", admite |-> FALSE,
           conSena |-> FALSE, version |-> 1]]
     /\ tx' = SinTx
     /\ UNCHANGED <<bloqueo, avisos, escritura, trabajo>> /\ SinTocarResto

\* lockForWork up to its last read: a request in force, of a future time that
\* no block covers.
AceptarTrabajoLee(t) ==
  /\ tx = SinTx
  /\ reserva[t].origen = "mercado" /\ trabajo[t] = "no"
  /\ reserva[t].estado = "pending" /\ reserva[t].expira > ahora
  /\ ~Bloqueado(reserva[t].inicio, reserva[t].fin)
  /\ tx' = [op |-> "aceptar", turno |-> t]
  /\ UNCHANGED <<vars, trabajo>>

\* (Variant: the row is written whatever happened to it since it was read.)
SigueComoSeLeyo_Variante(t) == TRUE
SigueComoSeLeyo(t) == reserva[t].estado = "pending"

\* Its commit: the reservation is confirmed and the work created, together.
AceptarTrabajoEscribe ==
  /\ tx.op = "aceptar"
  /\ tx.turno \notin Tomadas
  /\ SigueComoSeLeyo(tx.turno)
  /\ reserva' = Pasar(reserva, tx.turno, "confirmed")
  /\ trabajo' = [trabajo EXCEPT ![tx.turno] = "activo"]
  /\ tx' = SinTx
  /\ UNCHANGED <<bloqueo, avisos, escritura>> /\ SinTocarResto

\* The transaction fails (a conflict, its connection, its process): nothing
\* of it remains, and a retry is a new one.
Abortar ==
  /\ tx # SinTx
  /\ tx' = SinTx
  /\ UNCHANGED <<vars, trabajo>>

\* lockForWork when the reservation was already confirmed: only the work.
AceptarTrabajoDeConfirmada(t) ==
  /\ tx = SinTx
  /\ reserva[t].origen = "mercado" /\ trabajo[t] = "no"
  /\ reserva[t].estado = "confirmed"
  /\ trabajo' = [trabajo EXCEPT ![t] = "activo"]
  /\ UNCHANGED <<vars, tx>>

\* ensureNotLinkedToWork: neither a marketplace work nor the order of a turno.
SinVinculo(t) == trabajo[t] = "no" /\ t \notin orden

\* TusServiceCalendar.cancel: what still waits is withdrawn by its client or
\* turned down by its provider; what was confirmed is cancelled.
CancelarReserva(t, esPrestador, tarde) ==
  /\ SinVinculo(t) /\ t \notin Tomadas
  /\ reserva[t].estado \in ESPERAN \cup {"confirmed"}
  /\ reserva[t].cliente # Invitado
  /\ tarde = (ahora > reserva[t].inicio)
  /\ reserva' = Pasar(reserva, t,
       IF reserva[t].estado \in ESPERAN
       THEN IF esPrestador THEN "rejected" ELSE "cancelled"
       ELSE IF tarde THEN "cancelled-late" ELSE "cancelled")
  /\ UNCHANGED <<bloqueo, avisos, escritura, trabajo, tx>> /\ SinTocarResto

\* markNoShow, after the end.
MarcarAusente(t) ==
  /\ SinVinculo(t)
  /\ reserva[t].estado = "confirmed" /\ ahora >= reserva[t].fin
  /\ reserva' = Pasar(reserva, t, "no-show")
  /\ UNCHANGED <<bloqueo, avisos, escritura, trabajo, tx>> /\ SinTocarResto

\* (Variant: the reservation of the work is left as it is.)
CancelarTrabajo_Variante(t) ==
  /\ trabajo[t] = "activo"
  /\ trabajo' = [trabajo EXCEPT ![t] = "cancelado"]
  /\ UNCHANGED <<vars, tx>>

\* cancelForWork: the work and its confirmed reservation, in one transaction.
CancelarTrabajo(t) ==
  /\ trabajo[t] = "activo"
  /\ trabajo' = [trabajo EXCEPT ![t] = "cancelado"]
  /\ reserva' = IF reserva[t].estado = "confirmed"
                THEN Pasar(reserva, t, "cancelled") ELSE reserva
  /\ UNCHANGED <<bloqueo, avisos, escritura, tx>> /\ SinTocarResto

InitMercado ==
  /\ Init
  /\ trabajo = [t \in Turnos |-> "no"]
  /\ tx = SinTx

NextMercado ==
  \/ Next /\ UNCHANGED <<trabajo, tx>>
  \/ \E t \in Turnos, c \in Clientes, i \in Inicios : ReservarLee(t, c, i)
  \/ ReservarEscribe
  \/ \E t \in Turnos : AceptarTrabajoLee(t) \/ AceptarTrabajoDeConfirmada(t)
  \/ AceptarTrabajoEscribe
  \/ Abortar
  \/ \E t \in Turnos, esPrestador, tarde \in BOOLEAN : CancelarReserva(t, esPrestador, tarde)
  \/ \E t \in Turnos : MarcarAusente(t) \/ CancelarTrabajo(t)

SpecMercado == InitMercado /\ [][NextMercado]_varsMercado

----------------------------------------------------------------------------
\* What the agenda is about to write, when this step writes it in t: right for
\* the state it read, whatever t became since.
EscrituraVieja(t) ==
  \E e \in escritura :
    /\ e.turno = t /\ reserva'[t].estado = e.nuevo
    /\ e.nuevo \in TRANSICIONES[e.leido]

\* However the transactions of the two doors interleave, no write the
\* marketplace decided on an old read brings a turno back from a final state.
\* Only the agenda does, with what it decided on an open turno before.
LoFinalSoloLoPisaLaAgenda ==
  [][\A t \in Turnos :
       ( /\ reserva[t].estado \in ESTADOS /\ TRANSICIONES[reserva[t].estado] = {}
         /\ reserva'[t].estado # reserva[t].estado ) => EscrituraVieja(t)]_varsMercado

\* A work that is called off takes its confirmed reservation with it, and it is
\* not confirmed again but by an answer of the agenda that had found it pending,
\* from before the work was accepted.
TrabajoCanceladoSueltaLaReserva ==
  [][\A t \in Turnos :
       (trabajo'[t] = "cancelado" /\ reserva'[t].estado = "confirmed") =>
         \/ trabajo[t] = "cancelado" /\ reserva[t].estado = "confirmed"
         \/ /\ EscrituraVieja(t)
            /\ \E e \in escritura : e.turno = t /\ e.leido = "pending"]_varsMercado
=============================================================================
