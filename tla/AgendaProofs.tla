---------------------------- MODULE AgendaProofs ----------------------------
(***************************************************************************)
(* Theorems about the agenda of one provider, for any number of turnos,    *)
(* clients, blocks and hours.                                              *)
(*                                                                         *)
(* The argument: whatever the step, the table after it is of one of three  *)
(* kinds.  Every row INHERITS its time from the row it was, and its state  *)
(* changes as the contract allows (PasoQuieto); or one row is new, after   *)
(* the exclusion constraint was satisfied (PasoFila); or one row is        *)
(* written with what its operation decided before (PasoEscrito).  In the   *)
(* last two the other rows inherit.  What was decided before is worth what *)
(* is known of it when it is written: EnVuelo says it whatever runs in     *)
(* between, AlDia and QuedaLugar for the agenda alone.  The rest between   *)
(* turnos and the blocks need to know besides what a step takes            *)
(* (Tranquilo, Ubica), and the notices what a step tells (Calla, Responde, *)
(* Cancela).  The last part is about the two doors of AgendaMercado.       *)
(***************************************************************************)
EXTENDS AgendaMercado, FiniteSetTheorems, TLAPS

\* No turno ends before it starts.
Rangos == \A t \in Turnos : reserva[t].inicio <= reserva[t].fin

Tipos == TypeOK /\ Rangos

\* What is about to be written was decided on a row that was there and open,
\* for the deposit it has; what it expires is overdue and stays so.
EnVuelo ==
  \A e \in escritura :
    /\ e.turno \notin e.vencidas
    /\ reserva[e.turno].estado # SinFila
    /\ \A u \in e.vencidas : Vencida(reserva[u])
    /\ \/ e.leido = "pending" /\ e.nuevo \in TRANSICIONES["pending"]
       \/ e.leido = "awaiting_payment" /\ e.nuevo = "cancelled"
       \/ e.leido = "confirmed" /\ e.nuevo \in TRANSICIONES["confirmed"] \cup {OtroHorario}
    /\ e.nuevo = "awaiting_payment" => reserva[e.turno].conSena
    /\ e.nuevo = "confirmed" => ~reserva[e.turno].conSena

\* The notice that goes with a write is the one of what it does.
AvisoDebido(e) ==
  \/ /\ e.aviso = "solicitud_respondida"
     /\ e.leido = "pending" /\ e.nuevo \in {"rejected", "awaiting_payment", "confirmed"}
  \/ /\ e.aviso = "turno_cancelado"
     /\ e.nuevo \in {"cancelled", "cancelled-late"} /\ reserva[e.turno].cliente # Invitado
  \/ /\ e.aviso \in {SinAviso, "turno_reprogramado"} /\ e.nuevo # "awaiting_payment"
     /\ e.nuevo \in {"cancelled", "cancelled-late"} => reserva[e.turno].cliente = Invitado

\* Without the marketplace, only the payment and the closing run in between:
\* this is all that can have become of the row that was read.
AlDia ==
  \A e \in escritura :
    /\ e.leido = "pending" => reserva[e.turno].estado = "pending"
    /\ e.leido = "awaiting_payment" =>
         reserva[e.turno].estado \in {"awaiting_payment", "confirmed", "completed"}
    /\ e.leido = "confirmed" => reserva[e.turno].estado \in {"confirmed", "completed"}
    /\ AvisoDebido(e)

Base == Tipos /\ EnVuelo
AgendaInv == Base /\ AlDia

\* The row f can be what the row of t becomes when only its state changes.
Hereda(t, f, pagos) ==
  /\ f.inicio = reserva[t].inicio
  /\ f.fin = reserva[t].fin
  /\ f.conSena = reserva[t].conSena
  /\ f.origen = reserva[t].origen
  /\ f.cliente = reserva[t].cliente
  /\ \/ f.estado = reserva[t].estado
     \/ /\ reserva[t].estado \in ESTADOS
        /\ f.estado \in TRANSICIONES[reserva[t].estado]
        /\ (f.estado = "confirmed" /\ f.conSena) => t \in pagos

PasoQuieto(nueva, pagos) ==
  /\ nueva \in [Turnos -> Fila]
  /\ \A t \in Turnos : Hereda(t, nueva[t], pagos)

PasoFila(t, nueva, pagos) ==
  /\ nueva \in [Turnos -> Fila]
  /\ \A u \in Turnos \ {t} : Hereda(u, nueva[u], pagos)
  /\ reserva[t].estado = SinFila
  /\ nueva[t].inicio <= nueva[t].fin
  /\ SinChoque(nueva, t, nueva[t].inicio, nueva[t].fin)
  /\ nueva[t].estado \in {"pending", "confirmed"} /\ nueva[t].origen # "mercado"
  /\ nueva[t].estado = "confirmed" => ~nueva[t].conSena

PasoEscrito(e, nueva, pagos) ==
  /\ nueva \in [Turnos -> Fila]
  /\ \A u \in Turnos \ {e.turno} : Hereda(u, nueva[u], pagos)
  /\ nueva[e.turno] = Escrita(reserva[e.turno], e)
  /\ EnRestriccion(nueva[e.turno]) =>
       SinChoque(nueva, e.turno, nueva[e.turno].inicio, nueva[e.turno].fin)

----------------------------------------------------------------------------
(* The rows.                                                               *)

\* What the contract allows from each state, spelled out.
LEMMA Destinos ==
  /\ TRANSICIONES["pending"] =
       {"awaiting_payment", "confirmed", "rejected", "cancelled", "expired"}
  /\ TRANSICIONES["awaiting_payment"] = {"confirmed", "cancelled", "expired"}
  /\ TRANSICIONES["confirmed"] = {"completed", "cancelled", "cancelled-late", "no-show"}
  /\ \A e \in ESTADOS \ {"pending", "awaiting_payment", "confirmed"} :
       TRANSICIONES[e] = {}
  BY DEF TRANSICIONES, ESTADOS

\* Another version is still a row.
LEMMA VersionFila ==
  ASSUME NEW r \in Fila, NEW v \in Nat
  PROVE  [r EXCEPT !.version = v] \in Fila
  BY DEF Fila

\* A change of state keeps the rest of a row: its time, its deposit, who it is for.
LEMMA CambiadaFila ==
  ASSUME NEW r \in Fila, NEW e \in ESTADOS
  PROVE  /\ Cambiada(r, e) \in Fila
         /\ Cambiada(r, e).estado = e
         /\ Cambiada(r, e).inicio = r.inicio
         /\ Cambiada(r, e).fin = r.fin
         /\ Cambiada(r, e).conSena = r.conSena
         /\ Cambiada(r, e).origen = r.origen
         /\ Cambiada(r, e).admite = r.admite
         /\ Cambiada(r, e).cliente = r.cliente
<1> DEFINE s == [r EXCEPT !.estado = e]
<1>1. s \in Fila
  BY DEF Fila
<1>2. r.version + 1 \in Nat
  BY DEF Fila
<1>3. Cambiada(r, e) = [s EXCEPT !.version = r.version + 1]
  BY DEF Fila, Cambiada
<1>4. Cambiada(r, e) \in Fila
  <2> HIDE DEF s
  <2> QED BY <1>1, <1>2, <1>3, VersionFila
<1> QED
  BY <1>4 DEF Fila, Cambiada

\* Another deadline changes nothing else.
LEMMA ConPlazoFila ==
  ASSUME NEW r \in Fila, NEW h \in Nat
  PROVE  /\ ConPlazo(r, h) \in Fila
         /\ ConPlazo(r, h).estado = r.estado
         /\ ConPlazo(r, h).inicio = r.inicio
         /\ ConPlazo(r, h).fin = r.fin
         /\ ConPlazo(r, h).conSena = r.conSena
         /\ ConPlazo(r, h).origen = r.origen
         /\ ConPlazo(r, h).admite = r.admite
         /\ ConPlazo(r, h).cliente = r.cliente
  BY DEF ConPlazo, Fila

\* A turno that moves keeps its state and its duration.
LEMMA MovidaFila ==
  ASSUME NEW r \in Fila, NEW i \in Nat, r.inicio <= r.fin
  PROVE  /\ Movida(r, i) \in Fila
         /\ Movida(r, i).estado = r.estado
         /\ Movida(r, i).inicio = i
         /\ Movida(r, i).fin = i + (r.fin - r.inicio)
         /\ Movida(r, i).conSena = r.conSena
         /\ Movida(r, i).origen = r.origen
         /\ Movida(r, i).admite = r.admite
         /\ Movida(r, i).cliente = r.cliente
<1> DEFINE f == i + (r.fin - r.inicio)
           s == [r EXCEPT !.inicio = i]
           q == [s EXCEPT !.fin = f]
<1>1. r.inicio \in Nat /\ r.fin \in Nat /\ r.version + 1 \in Nat
  BY DEF Fila
<1>2. f \in Nat
  BY <1>1
<1>3. s \in Fila
  BY DEF Fila
<1>4. q \in Fila
  <2> HIDE DEF f, s
  <2> QED BY <1>2, <1>3 DEF Fila
<1>5. Movida(r, i) = [q EXCEPT !.version = r.version + 1]
  BY DEF Fila, Movida
<1>6. Movida(r, i) \in Fila
  <2> HIDE DEF f, s, q
  <2> QED BY <1>1, <1>4, <1>5, VersionFila
<1> QED
  BY <1>6 DEF Fila, Movida

\* What is written in a row: another state, or another time.
LEMMA EscritaFila ==
  ASSUME NEW r \in Fila, NEW e \in Escrituras, r.inicio <= r.fin
  PROVE  /\ Escrita(r, e) \in Fila
         /\ Escrita(r, e).inicio <= Escrita(r, e).fin
         /\ e.nuevo # OtroHorario =>
              /\ Escrita(r, e).estado = e.nuevo
              /\ Escrita(r, e).inicio = r.inicio /\ Escrita(r, e).fin = r.fin
         /\ e.nuevo = OtroHorario =>
              /\ Escrita(r, e).estado = r.estado
              /\ Escrita(r, e).inicio = e.hora
              /\ Escrita(r, e).fin = e.hora + (r.fin - r.inicio)
         /\ Escrita(r, e).conSena = r.conSena
         /\ Escrita(r, e).origen = r.origen
         /\ Escrita(r, e).admite = r.admite
         /\ Escrita(r, e).cliente = r.cliente
<1>1. /\ e.hora \in Nat /\ e.nuevo \in ESTADOS \cup {OtroHorario}
      /\ r.inicio \in Nat /\ r.fin \in Nat /\ r.expira \in Nat
  BY DEF Escrituras, Fila
<1>2. CASE e.nuevo = OtroHorario
  <2> DEFINE f == Movida(r, e.hora)
  <2>1. Escrita(r, e) = f
    BY <1>2 DEF Escrita
  <2>2. /\ f \in Fila /\ f.estado = r.estado /\ f.inicio = e.hora
        /\ f.fin = e.hora + (r.fin - r.inicio) /\ f.conSena = r.conSena
        /\ f.origen = r.origen /\ f.admite = r.admite /\ f.cliente = r.cliente
    BY <1>1, MovidaFila
  <2> HIDE DEF f
  <2>3. f.inicio <= f.fin
    BY <1>1, <2>2
  <2> QED
    BY <1>2, <2>1, <2>2, <2>3
<1>3. CASE e.nuevo # OtroHorario
  <2> DEFINE k == Cambiada(r, e.nuevo)
             h == IF e.nuevo = "awaiting_payment" THEN e.hora ELSE r.expira
             f == ConPlazo(k, h)
  <2>1. Escrita(r, e) = f
    BY <1>3 DEF Escrita
  <2>2. e.nuevo \in ESTADOS /\ h \in Nat
    BY <1>1, <1>3
  <2>3. /\ k \in Fila /\ k.estado = e.nuevo /\ k.inicio = r.inicio /\ k.fin = r.fin
        /\ k.conSena = r.conSena /\ k.origen = r.origen /\ k.admite = r.admite
        /\ k.cliente = r.cliente
    BY <2>2, CambiadaFila
  <2> HIDE DEF k, h
  <2>4. /\ f \in Fila /\ f.estado = e.nuevo /\ f.inicio = r.inicio /\ f.fin = r.fin
        /\ f.conSena = r.conSena /\ f.origen = r.origen /\ f.admite = r.admite
        /\ f.cliente = r.cliente
    BY <2>2, <2>3, ConPlazoFila
  <2> HIDE DEF f
  <2> QED
    BY <1>3, <2>1, <2>4
<1> QED
  BY <1>2, <1>3

\* The table with some of its overdue rows expired.
LEMMA ExpiradasHereda ==
  ASSUME Tipos, NEW s \in SUBSET Turnos, \A u \in s : Vencida(reserva[u]), NEW pagos
  PROVE  /\ PasoQuieto(Expiradas(s), pagos)
         /\ \A t \in Turnos : IF t \in s
              THEN Expiradas(s)[t] = Cambiada(reserva[t], "expired")
                   /\ Expiradas(s)[t].estado = "expired"
              ELSE Expiradas(s)[t] = reserva[t]
<1>1. ASSUME NEW t \in Turnos
      PROVE  /\ Expiradas(s)[t] \in Fila
             /\ Hereda(t, Expiradas(s)[t], pagos)
             /\ IF t \in s THEN Expiradas(s)[t] = Cambiada(reserva[t], "expired")
                                /\ Expiradas(s)[t].estado = "expired"
                ELSE Expiradas(s)[t] = reserva[t]
  <2>1. reserva[t] \in Fila
    BY DEF Tipos, TypeOK
  <2>2. CASE t \in s
    <3>1. Expiradas(s)[t] = Cambiada(reserva[t], "expired")
      BY <2>2 DEF Expiradas
    <3>2. "expired" \in ESTADOS
      BY DEF ESTADOS
    <3>3. reserva[t].estado \in {"pending", "awaiting_payment"}
      BY <2>2 DEF Vencida, ESPERAN
    <3>4. "expired" \in TRANSICIONES[reserva[t].estado] /\ reserva[t].estado \in ESTADOS
      BY <3>3, Destinos DEF ESTADOS
    <3> QED
      BY <2>1, <2>2, <3>1, <3>2, <3>4, CambiadaFila DEF Hereda
  <2>3. CASE t \notin s
    BY <2>1, <2>3 DEF Expiradas, Hereda
  <2> QED
    BY <2>2, <2>3
<1>2. Expiradas(s) = [t \in Turnos |-> Expiradas(s)[t]]
  BY DEF Expiradas
<1>3. Expiradas(s) \in [Turnos -> Fila]
  BY <1>1, <1>2
<1> QED
  BY <1>1, <1>3 DEF PasoQuieto

\* The table every locked write starts from.
LEMMA VencidasHereda ==
  ASSUME Tipos
  PROVE  /\ PasoQuieto(Vencidas, pagado)
         /\ \A t \in Turnos : \/ Vencidas[t] = reserva[t] /\ ~Vencida(reserva[t])
                              \/ Vencidas[t].estado = "expired" /\ Vencida(reserva[t])
<1>1. PorVencer \in SUBSET Turnos /\ \A u \in PorVencer : Vencida(reserva[u])
  BY DEF PorVencer
<1>2. \A t \in Turnos : t \in PorVencer <=> Vencida(reserva[t])
  BY DEF PorVencer
<1> QED
  BY <1>1, <1>2, ExpiradasHereda DEF Vencidas

\* A row that still can change was not expired by the prologue of the write.
LEMMA VencidasViva ==
  ASSUME Tipos, NEW t \in Turnos, Vencidas[t].estado # "expired"
  PROVE  Vencidas[t] = reserva[t] /\ reserva[t] \in Fila /\ ~Vencida(reserva[t])
  BY VencidasHereda DEF Tipos, TypeOK

----------------------------------------------------------------------------
(* The writes of the table.                                                *)

\* A row is created with a time the constraint accepts.
LEMMA FilaConTiempo ==
  ASSUME Tipos, NEW t \in Turnos, NEW f \in Fila,
         f.inicio <= f.fin, SinChoque(Vencidas, t, f.inicio, f.fin),
         Vencidas[t].estado = SinFila,
         f.estado \in {"pending", "confirmed"}, f.origen # "mercado",
         f.estado = "confirmed" => ~f.conSena
  PROVE  PasoFila(t, [Vencidas EXCEPT ![t] = f], pagado)
<1> DEFINE nueva == [Vencidas EXCEPT ![t] = f]
<1>1. Vencidas \in [Turnos -> Fila] /\ \A u \in Turnos : Hereda(u, Vencidas[u], pagado)
  BY VencidasHereda DEF PasoQuieto
<1>2. nueva \in [Turnos -> Fila] /\ nueva[t] = f
      /\ \A u \in Turnos \ {t} : nueva[u] = Vencidas[u]
  BY <1>1
<1>3. Vencidas[t] = reserva[t]
  BY VencidasViva DEF SinFila
<1> HIDE DEF nueva
<1>4. \A u \in Turnos \ {t} : Hereda(u, nueva[u], pagado)
  BY <1>1, <1>2
<1>5. SinChoque(nueva, t, f.inicio, f.fin)
  BY <1>2 DEF SinChoque
<1>6. PasoFila(t, nueva, pagado)
  BY <1>2, <1>3, <1>4, <1>5 DEF PasoFila
<1> QED
  BY <1>6 DEF nueva

\* A new turno, asked for, loaded by hand or forced.
LEMMA CrearPaso ==
  ASSUME AgendaAssumption, Tipos, NEW t \in Turnos, Crear(t)
  PROVE  PasoFila(t, reserva', pagado')
<1> DEFINE Nueva(e, i, f, x, c, o, a, s) ==
             [estado |-> e, inicio |-> i, fin |-> f, expira |-> x, cliente |-> c,
              origen |-> o, admite |-> a, conSena |-> s, version |-> 1]
<1>1. ASSUME NEW c \in Clientes, NEW i \in Inicios, NEW s \in BOOLEAN,
             SolicitarTurno(t, c, i, s)
      PROVE  PasoFila(t, reserva', pagado')
  <2> DEFINE f == Nueva("pending", i, i + Duracion, Menor(ahora + VigenciaSolicitud, i),
                        c, "tus", permite, s)
  <2>1. /\ Vencidas[t].estado = SinFila /\ pagado' = pagado
        /\ SinChoque(Vencidas, t, i, i + Duracion)
        /\ reserva' = [Vencidas EXCEPT ![t] = f]
    BY <1>1 DEF SolicitarTurno, SinTocarResto
  <2>2. i \in Nat /\ Duracion \in Nat /\ Menor(ahora + VigenciaSolicitud, i) \in Nat
    BY DEF AgendaAssumption, Tipos, TypeOK, Menor
  <2>3. f \in Fila /\ f.inicio = i /\ f.fin = i + Duracion /\ f.estado = "pending"
          /\ f.origen = "tus"
    BY <2>2 DEF Fila, ESTADOS, Tipos, TypeOK
  <2>4. f.inicio <= f.fin
    BY <2>2, <2>3
  <2> HIDE DEF f
  <2> QED
    BY <2>1, <2>3, <2>4, FilaConTiempo
<1>2. ASSUME NEW c \in Clientes \cup {Invitado}, NEW i \in Inicios, AdminReservar(t, c, i)
      PROVE  PasoFila(t, reserva', pagado')
  <2> DEFINE f == Nueva("confirmed", i, i + Duracion, 0, c, "tus", permite, FALSE)
  <2>1. /\ Vencidas[t].estado = SinFila /\ pagado' = pagado
        /\ SinChoque(Vencidas, t, i, i + Duracion)
        /\ reserva' = [Vencidas EXCEPT ![t] = f]
    BY <1>2 DEF AdminReservar, SinTocarResto
  <2>2. i \in Nat /\ Duracion \in Nat
    BY DEF AgendaAssumption
  <2>3. f \in Fila /\ f.inicio = i /\ f.fin = i + Duracion /\ f.estado = "confirmed"
          /\ f.origen \in {"tus", "manual", "forzado"}
        /\ ~f.conSena
    BY <2>2 DEF Fila, ESTADOS, Tipos, TypeOK
  <2>4. f.inicio <= f.fin
    BY <2>2, <2>3
  <2> HIDE DEF f
  <2> QED
    BY <2>1, <2>3, <2>4, FilaConTiempo
<1>3. ASSUME NEW c \in Clientes \cup {Invitado}, NEW r \in RangosManuales,
             CrearManual(t, c, r[1], r[2]) \/ ForzarTurno(t, c, r[1], r[2])
      PROVE  PasoFila(t, reserva', pagado')
  <2>1. PICK o \in {"manual", "forzado"} :
          /\ Vencidas[t].estado = SinFila /\ pagado' = pagado
          /\ SinChoque(Vencidas, t, r[1], r[2])
          /\ reserva' = [Vencidas EXCEPT ![t] =
               Nueva("confirmed", r[1], r[2], 0, c, o, FALSE, FALSE)]
    BY <1>3 DEF CrearManual, ForzarTurno, SinTocarResto
  <2> DEFINE f == Nueva("confirmed", r[1], r[2], 0, c, o, FALSE, FALSE)
  <2>2. r[1] \in Nat /\ r[2] \in Nat /\ r[1] < r[2]
    BY DEF AgendaAssumption
  <2>3. f \in Fila /\ f.inicio = r[1] /\ f.fin = r[2] /\ f.estado = "confirmed"
          /\ f.origen \in {"tus", "manual", "forzado"}
        /\ ~f.conSena
    BY <2>2 DEF Fila, ESTADOS
  <2>4. f.inicio <= f.fin
    BY <2>2, <2>3
  <2>5. /\ Vencidas[t].estado = SinFila /\ pagado' = pagado
        /\ SinChoque(Vencidas, t, f.inicio, f.fin)
        /\ reserva' = [Vencidas EXCEPT ![t] = f]
    BY <2>1, <2>3
  <2> HIDE DEF f
  <2> QED
    BY <2>3, <2>4, <2>5, FilaConTiempo
<1> QED
  BY <1>1, <1>2, <1>3 DEF Crear

----------------------------------------------------------------------------
(* What is decided, and what is written of it.                             *)

\* What the reads of a change of t found, and what it is about to write.
Decision(t, nuevo, hora, aviso) ==
  /\ Decide(t, nuevo, hora, aviso)
  /\ nuevo \in ESTADOS \cup {OtroHorario} /\ hora \in Nat /\ aviso \in TIPOS \cup {SinAviso}
  /\ reserva[t] \in Fila /\ Vencidas[t] = reserva[t] /\ ~Vencida(reserva[t])
  /\ \/ reserva[t].estado = "pending" /\ nuevo \in TRANSICIONES["pending"]
     \/ reserva[t].estado = "awaiting_payment" /\ nuevo = "cancelled"
     \/ reserva[t].estado = "confirmed" /\ nuevo \in TRANSICIONES["confirmed"] \cup {OtroHorario}
  /\ nuevo = "awaiting_payment" => reserva[t].conSena
  /\ nuevo = "confirmed" => ~reserva[t].conSena
  /\ nuevo \in {"awaiting_payment", "confirmed"} => SigueLibre(Vencidas, t)
  /\ nuevo = OtroHorario => reserva[t].admite /\ Disponible(Vencidas, t, hora)
  /\ \/ /\ aviso = "solicitud_respondida" /\ reserva[t].estado = "pending"
        /\ nuevo \in {"rejected", "awaiting_payment", "confirmed"}
     \/ /\ aviso = "turno_cancelado" /\ nuevo \in {"cancelled", "cancelled-late"}
        /\ reserva[t].cliente # Invitado
     \/ /\ aviso \in {SinAviso, "turno_reprogramado"} /\ nuevo # "awaiting_payment"
        /\ nuevo \in {"cancelled", "cancelled-late"} => reserva[t].cliente = Invitado

\* A state that is not that of an expired request was not touched by the prologue.
LEMMA LeidaViva ==
  ASSUME Tipos, NEW t \in Turnos, Vencidas[t].estado \in ESPERAN \cup {"confirmed"}
  PROVE  Vencidas[t] = reserva[t] /\ reserva[t] \in Fila /\ ~Vencida(reserva[t])
  BY VencidasViva DEF ESPERAN

\* Accepting: confirmed for free only when no deposit is due.
LEMMA AceptarDecide ==
  ASSUME AgendaAssumption, Tipos, NEW t \in Turnos, AceptarLee(t)
  PROVE  \E nuevo, hora, aviso : Decision(t, nuevo, hora, aviso)
<1> DEFINE r == Vencidas[t]
           destino == Respuesta(Vencidas, t)
           hora == IF destino = "awaiting_payment" THEN Menor(ahora + VigenciaPago, r.inicio) ELSE 0
           aviso == IF destino = "expired" THEN SinAviso ELSE "solicitud_respondida"
<1>1. r.estado = "pending" /\ Decide(t, destino, hora, aviso)
  BY DEF AceptarLee
<1>2. r \in Fila /\ r = reserva[t] /\ ~Vencida(reserva[t])
  BY <1>1, LeidaViva DEF ESPERAN
<1>3. /\ destino \in {"expired", "rejected", "awaiting_payment", "confirmed"}
      /\ destino \in {"awaiting_payment", "confirmed"} => SigueLibre(Vencidas, t)
      /\ destino = "awaiting_payment" => r.conSena
      /\ destino = "confirmed" => ~r.conSena
  BY DEF Respuesta
<1> HIDE DEF destino
<1>4. hora \in Nat
  BY <1>2 DEF Tipos, TypeOK, AgendaAssumption, Menor, Fila
<1>5. /\ destino \in ESTADOS /\ destino \in TRANSICIONES["pending"] /\ destino # OtroHorario
      /\ destino \notin {"cancelled", "cancelled-late"}
  BY <1>3, Destinos DEF ESTADOS, OtroHorario
<1>6. /\ aviso \in TIPOS \cup {SinAviso}
      /\ \/ aviso = "solicitud_respondida" /\ destino # "expired"
         \/ aviso = SinAviso /\ destino = "expired"
  BY DEF TIPOS
<1> HIDE DEF hora, aviso
<1>7. Decision(t, destino, hora, aviso)
  BY <1>1, <1>2, <1>3, <1>4, <1>5, <1>6 DEF Decision
<1> QED
  BY <1>7

\* Rejecting and cancelling.
LEMMA NegarDecide ==
  ASSUME AgendaAssumption, Tipos, NEW t \in Turnos,
         \/ RechazarLee(t)
         \/ \E c \in Clientes, tarde \in BOOLEAN : CancelarClienteLee(t, c, tarde)
  PROVE  \E nuevo, hora, aviso : Decision(t, nuevo, hora, aviso)
<1>1. CASE RechazarLee(t)
  <2>1. Vencidas[t].estado = "pending" /\ Decide(t, "rejected", 0, "solicitud_respondida")
    BY <1>1 DEF RechazarLee
  <2>2. Vencidas[t] = reserva[t] /\ reserva[t] \in Fila /\ ~Vencida(reserva[t])
    BY <2>1, LeidaViva DEF ESPERAN
  <2>3. Decision(t, "rejected", 0, "solicitud_respondida")
    BY <2>1, <2>2, Destinos DEF Decision, ESTADOS, TIPOS, OtroHorario
  <2> QED
    BY <2>3
<1>2. ASSUME NEW c \in Clientes, NEW tarde \in BOOLEAN, CancelarClienteLee(t, c, tarde)
      PROVE  \E nuevo, hora, aviso : Decision(t, nuevo, hora, aviso)
  <2> DEFINE e == IF tarde /\ Vencidas[t].estado = "confirmed"
                  THEN "cancelled-late" ELSE "cancelled"
  <2>1. /\ Vencidas[t].estado \in {"pending", "awaiting_payment", "confirmed"}
        /\ Vencidas[t].cliente = c
        /\ Decide(t, e, 0, "turno_cancelado")
    BY <1>2 DEF CancelarClienteLee, Cancelable, ESPERAN
  <2>2. Vencidas[t] = reserva[t] /\ reserva[t] \in Fila /\ ~Vencida(reserva[t])
    BY <2>1, LeidaViva DEF ESPERAN
  <2>3. /\ e \in {"cancelled", "cancelled-late"}
        /\ e = "cancelled-late" => reserva[t].estado = "confirmed"
    BY <2>2
  <2> HIDE DEF e
  <2>4. reserva[t].cliente # Invitado
    BY <2>1, <2>2 DEF AgendaAssumption
  <2>5. Decision(t, e, 0, "turno_cancelado")
    BY <2>1, <2>2, <2>3, <2>4, Destinos DEF Decision, ESTADOS, TIPOS, OtroHorario
  <2> QED
    BY <2>5
<1> QED
  BY <1>1, <1>2

\* The changes asked by hand: never an acceptance, nor a confirmation.
LEMMA CambiarEstadoDecide ==
  ASSUME Tipos, NEW t \in Turnos, NEW esAdmin \in BOOLEAN, NEW e \in ESTADOS,
         CambiarEstadoLee(t, esAdmin, e)
  PROVE  \E nuevo, hora, aviso : Decision(t, nuevo, hora, aviso)
<1> DEFINE aviso == IF e \in {"cancelled", "cancelled-late"} /\ Vencidas[t].cliente # Invitado
                    THEN "turno_cancelado" ELSE SinAviso
<1>1. /\ Vencidas[t].estado \in ESTADOS /\ Decide(t, e, 0, aviso)
      /\ e \in TRANSICIONES[Vencidas[t].estado] \ {"expired", "confirmed", "awaiting_payment"}
  BY DEF CambiarEstadoLee, A_PEDIDO
<1>2. Vencidas[t].estado \in {"pending", "awaiting_payment", "confirmed"}
  BY <1>1, Destinos
<1>3. Vencidas[t] = reserva[t] /\ reserva[t] \in Fila /\ ~Vencida(reserva[t])
  BY <1>2, LeidaViva DEF ESPERAN
<1>4. reserva[t].estado = "awaiting_payment" => e = "cancelled"
  BY <1>1, <1>3, Destinos
<1>5. e # OtroHorario /\ aviso \in TIPOS \cup {SinAviso}
  BY DEF ESTADOS, OtroHorario, TIPOS
<1>6. \/ /\ aviso = "turno_cancelado" /\ e \in {"cancelled", "cancelled-late"}
         /\ reserva[t].cliente # Invitado
      \/ aviso = SinAviso /\ (e \in {"cancelled", "cancelled-late"} => reserva[t].cliente = Invitado)
  BY <1>3
<1> HIDE DEF aviso
<1>7. Decision(t, e, 0, aviso)
  BY <1>1, <1>2, <1>3, <1>4, <1>5, <1>6 DEF Decision
<1> QED
  BY <1>7

\* Rescheduling.
LEMMA ReprogramarDecide ==
  ASSUME AgendaAssumption, Tipos, NEW t \in Turnos, NEW i \in Inicios, ReprogramarLee(t, i)
  PROVE  \E nuevo, hora, aviso : Decision(t, nuevo, hora, aviso)
<1>1. /\ Vencidas[t].estado = "confirmed" /\ Vencidas[t].admite
      /\ Disponible(Vencidas, t, i)
      /\ Decide(t, OtroHorario, i, "turno_reprogramado")
  BY DEF ReprogramarLee, AdmiteMoverse
<1>2. Vencidas[t] = reserva[t] /\ reserva[t] \in Fila /\ ~Vencida(reserva[t])
  BY <1>1, LeidaViva DEF ESPERAN
<1>3. i \in Nat
  BY DEF AgendaAssumption
<1>4. Decision(t, OtroHorario, i, "turno_reprogramado")
  BY <1>1, <1>2, <1>3 DEF Decision, OtroHorario, TIPOS
<1> QED
  BY <1>4

\* Whatever change of a turno is asked, it is decided so.
LEMMA CambiarDecide ==
  ASSUME AgendaAssumption, Tipos, NEW t \in Turnos, Cambiar(t)
  PROVE  \E nuevo, hora, aviso : Decision(t, nuevo, hora, aviso)
  BY AceptarDecide, NegarDecide, CambiarEstadoDecide, ReprogramarDecide DEF Cambiar

\* The write: the rows its prologue found overdue expire, and its own is written.
LEMMA EscribirPaso ==
  ASSUME Base, Escribir
  PROVE  \E e \in escritura :
           /\ PasoEscrito(e, reserva', pagado')
           /\ e \in Escrituras
           /\ reserva' = [Expiradas(e.vencidas) EXCEPT ![e.turno] = Escrita(reserva[e.turno], e)]
           /\ avisos' = avisos \cup (IF e.aviso = SinAviso THEN {}
                                     ELSE {Aviso(e.turno, e.aviso, reserva')})
<1>1. PICK e \in escritura :
        /\ reserva' = [Expiradas(e.vencidas) EXCEPT ![e.turno] = Escrita(reserva[e.turno], e)]
        /\ EnRestriccion(reserva'[e.turno]) =>
             SinChoque(reserva', e.turno, reserva'[e.turno].inicio, reserva'[e.turno].fin)
        /\ avisos' = avisos \cup (IF e.aviso = SinAviso THEN {}
                                  ELSE {Aviso(e.turno, e.aviso, reserva')})
        /\ pagado' = pagado
  BY DEF Escribir, SinTocarResto
<1>2. e \in Escrituras /\ e.turno \in Turnos /\ e.vencidas \in SUBSET Turnos
  BY DEF Base, Tipos, TypeOK, Escrituras
<1>3. \A u \in e.vencidas : Vencida(reserva[u])
  BY DEF Base, EnVuelo
<1>4. PasoQuieto(Expiradas(e.vencidas), pagado)
  BY <1>2, <1>3, ExpiradasHereda DEF Base
<1>5. Escrita(reserva[e.turno], e) \in Fila
  BY <1>2, EscritaFila DEF Base, Tipos, TypeOK, Rangos
<1>6. /\ reserva' \in [Turnos -> Fila]
      /\ reserva'[e.turno] = Escrita(reserva[e.turno], e)
      /\ \A u \in Turnos \ {e.turno} : Hereda(u, reserva'[u], pagado)
  BY <1>1, <1>2, <1>4, <1>5 DEF PasoQuieto
<1> QED
  BY <1>1, <1>2, <1>6 DEF PasoEscrito

\* What the payment and the closing make of a row: no more than its state, and
\* only of a turno that is waiting in time, or confirmed.
Deja(t, f, pagos) ==
  /\ f.inicio = reserva[t].inicio /\ f.fin = reserva[t].fin
  /\ f.conSena = reserva[t].conSena /\ f.origen = reserva[t].origen
  /\ f.admite = reserva[t].admite /\ f.cliente = reserva[t].cliente
  /\ \/ f = reserva[t]
     \/ /\ reserva[t].estado = "awaiting_payment" /\ ~Vencida(reserva[t])
        /\ f.estado = "confirmed" /\ t \in pagos
     \/ reserva[t].estado = "confirmed" /\ f.estado = "completed"

LEMMA OtrosDejan ==
  ASSUME Tipos, NEW t \in Turnos, DeOtros(t)
  PROVE  /\ UNCHANGED <<bloqueo, permite, escritura, ahora>>
         /\ pagado \subseteq pagado'
         /\ reserva' \in [Turnos -> Fila]
         /\ \A u \in Turnos : Deja(u, reserva'[u], pagado')
<1>1. UNCHANGED <<bloqueo, permite, escritura, ahora>> /\ pagado \subseteq pagado'
  BY DEF DeOtros, AbrirCheckout, PagoAprobado, AvisarConfirmacion, FinalizarLee,
         FinalizarCrea, CompletarReserva
<1>2. reserva \in [Turnos -> Fila] /\ reserva[t] \in Fila
  BY DEF Tipos, TypeOK
<1>3. CASE reserva' = reserva
  BY <1>1, <1>2, <1>3 DEF Deja
<1>4. ASSUME NEW f \in Fila, Deja(t, f, pagado'), reserva' = [reserva EXCEPT ![t] = f]
      PROVE  /\ reserva' \in [Turnos -> Fila]
             /\ \A u \in Turnos : Deja(u, reserva'[u], pagado')
  <2>1. reserva' \in [Turnos -> Fila] /\ reserva'[t] = f
        /\ \A u \in Turnos \ {t} : reserva'[u] = reserva[u]
    BY <1>2, <1>4
  <2> QED
    BY <1>4, <2>1 DEF Deja
<1>5. CASE PagoAprobado(t) /\ EsperaPago(reserva[t])
  <2> DEFINE k == Cambiada(reserva[t], "confirmed")
             f == ConPlazo(k, 0)
  <2>1. /\ reserva' = [reserva EXCEPT ![t] = f] /\ t \in pagado'
        /\ reserva[t].estado = "awaiting_payment" /\ reserva[t].expira > ahora
    BY <1>5 DEF PagoAprobado, EsperaPago
  <2>2. ~Vencida(reserva[t])
    <3>1. reserva[t].expira \in Nat /\ ahora \in Nat
      BY <1>2 DEF Fila, Tipos, TypeOK
    <3> QED
      BY <2>1, <3>1 DEF Vencida
  <2>3. /\ k \in Fila /\ k.estado = "confirmed" /\ k.conSena = reserva[t].conSena
        /\ k.inicio = reserva[t].inicio /\ k.fin = reserva[t].fin
        /\ k.origen = reserva[t].origen /\ k.admite = reserva[t].admite
        /\ k.cliente = reserva[t].cliente
    BY <1>2, CambiadaFila DEF ESTADOS
  <2> HIDE DEF k
  <2>4. /\ f \in Fila /\ f.estado = "confirmed" /\ f.conSena = reserva[t].conSena
        /\ f.inicio = reserva[t].inicio /\ f.fin = reserva[t].fin
        /\ f.origen = reserva[t].origen /\ f.admite = reserva[t].admite
        /\ f.cliente = reserva[t].cliente
    BY <2>3, ConPlazoFila
  <2> HIDE DEF f
  <2>5. Deja(t, f, pagado')
    BY <2>1, <2>2, <2>4 DEF Deja
  <2> QED
    BY <1>1, <1>4, <2>1, <2>4, <2>5
<1>6. CASE CompletarReserva(t)
  <2> DEFINE f == [reserva[t] EXCEPT !.estado = "completed"]
  <2>1. reserva' = [reserva EXCEPT ![t] = f] /\ reserva[t].estado = "confirmed"
    BY <1>6 DEF CompletarReserva
  <2>2. /\ f \in Fila /\ f.estado = "completed" /\ f.conSena = reserva[t].conSena
        /\ f.inicio = reserva[t].inicio /\ f.fin = reserva[t].fin
        /\ f.origen = reserva[t].origen /\ f.admite = reserva[t].admite
        /\ f.cliente = reserva[t].cliente
    BY <1>2 DEF Fila, ESTADOS
  <2> HIDE DEF f
  <2>3. Deja(t, f, pagado')
    BY <2>1, <2>2 DEF Deja
  <2> QED
    BY <1>1, <1>4, <2>1, <2>2, <2>3
<1> QED
  BY <1>3, <1>5, <1>6 DEF DeOtros, AbrirCheckout, PagoAprobado, AvisarConfirmacion,
     FinalizarLee, FinalizarCrea

\* What other domains write, and the writes that change no state by themselves.
LEMMA RestoPaso ==
  ASSUME AgendaAssumption, Tipos,
         \/ \E t \in Turnos : Cambiar(t) \/ DeOtros(t)
         \/ Deshacer
         \/ \E b \in Bloqueos : QuitarBloqueo(b)
         \/ \E b \in Bloqueos, r \in RangosBloqueo : Bloquear(b, r[1], r[2])
         \/ SoloVencer
         \/ GuardarReprogramacion
         \/ Tick
  PROVE  pagado \subseteq pagado' /\ PasoQuieto(reserva', pagado')
<1>1. ASSUME reserva' = reserva, pagado' = pagado
      PROVE  pagado \subseteq pagado' /\ PasoQuieto(reserva', pagado')
  BY <1>1 DEF PasoQuieto, Hereda, Tipos, TypeOK
<1>2. ASSUME reserva' = Vencidas, pagado' = pagado
      PROVE  pagado \subseteq pagado' /\ PasoQuieto(reserva', pagado')
  BY <1>2, VencidasHereda
<1>3. ASSUME NEW t \in Turnos, Cambiar(t)
      PROVE  reserva' = reserva /\ pagado' = pagado
  BY <1>3, CambiarDecide DEF Decision, Decide, SinTocarResto
<1>4. ASSUME NEW t \in Turnos, DeOtros(t)
      PROVE  pagado \subseteq pagado' /\ PasoQuieto(reserva', pagado')
  <2>1. /\ pagado \subseteq pagado' /\ reserva' \in [Turnos -> Fila]
        /\ \A u \in Turnos : Deja(u, reserva'[u], pagado')
    BY <1>4, OtrosDejan
  <2>2. ASSUME NEW u \in Turnos
        PROVE  Hereda(u, reserva'[u], pagado')
    BY <2>1, Destinos DEF Deja, Hereda, ESTADOS
  <2> QED
    BY <2>1, <2>2 DEF PasoQuieto
<1>5. CASE (\E b \in Bloqueos : QuitarBloqueo(b)) \/ GuardarReprogramacion \/ Tick
           \/ Deshacer
  BY <1>5, <1>1 DEF QuitarBloqueo, GuardarReprogramacion, Tick, Deshacer, SinTocarResto
<1>6. CASE (\E b \in Bloqueos, r \in RangosBloqueo : Bloquear(b, r[1], r[2])) \/ SoloVencer
  BY <1>6, <1>2 DEF Bloquear, SoloVencer, SinTocarResto
<1> QED
  BY <1>1, <1>3, <1>4, <1>5, <1>6

\* Every step is of one of the three kinds.
LEMMA Paso ==
  ASSUME AgendaAssumption, Base, [Next]_vars
  PROVE  /\ pagado \subseteq pagado'
         /\ \/ PasoQuieto(reserva', pagado')
            \/ \E t \in Turnos : PasoFila(t, reserva', pagado')
            \/ Escribir /\ \E e \in escritura : PasoEscrito(e, reserva', pagado')
<1>0. Tipos
  BY DEF Base
<1>1. ASSUME NEW t \in Turnos, Crear(t)
      PROVE  pagado' = pagado
  BY <1>1 DEF Crear, SolicitarTurno, AdminReservar, CrearManual, ForzarTurno, SinTocarResto
<1>2. CASE Escribir
  BY <1>2, EscribirPaso DEF Escribir, SinTocarResto
<1>3. CASE UNCHANGED vars
  BY <1>0, <1>3 DEF vars, Tipos, TypeOK, PasoQuieto, Hereda
<1> QED
  BY <1>0, <1>1, <1>2, <1>3, CrearPaso, RestoPaso DEF Next

----------------------------------------------------------------------------
(* Type correctness, and what is known of a write in flight.               *)

\* A notice about a row of a well typed table.
LEMMA AvisoTipo ==
  ASSUME NEW tabla \in [Turnos -> Fila], NEW t \in Turnos, NEW tipo \in TIPOS
  PROVE  Aviso(t, tipo, tabla) \in [turno : Turnos, tipo : TIPOS, version : Nat]
<1>1. tabla[t].version \in Nat
  BY DEF Fila
<1> QED
  BY <1>1 DEF Aviso


\* No step writes a notice that is not one: each speaks of a row as it was stored.
LEMMA AvisosTipo ==
  ASSUME AgendaAssumption, Base, [Next]_vars, reserva' \in [Turnos -> Fila]
  PROVE  avisos' \subseteq [turno : Turnos, tipo : TIPOS, version : Nat]
<1> DEFINE Avisa(t) == \E tipo \in TIPOS : avisos' = avisos \cup {Aviso(t, tipo, reserva')}
<1>1. avisos \subseteq [turno : Turnos, tipo : TIPOS, version : Nat]
  BY DEF Base, Tipos, TypeOK
<1>2. ASSUME NEW t \in Turnos, Avisa(t)
      PROVE  avisos' \subseteq [turno : Turnos, tipo : TIPOS, version : Nat]
  BY <1>1, <1>2, AvisoTipo
<1>3. ASSUME avisos' = avisos
      PROVE  avisos' \subseteq [turno : Turnos, tipo : TIPOS, version : Nat]
  BY <1>1, <1>3
<1>4. ASSUME NEW t \in Turnos, Crear(t)
      PROVE  avisos' = avisos \/ Avisa(t)
  BY <1>4 DEF Crear, SolicitarTurno, AdminReservar, CrearManual, ForzarTurno, TIPOS
<1>5. ASSUME NEW t \in Turnos, Cambiar(t)
      PROVE  avisos' = avisos
  BY <1>5, CambiarDecide DEF Base, Decision, Decide
<1>6. ASSUME NEW t \in Turnos, DeOtros(t)
      PROVE  avisos' = avisos \/ Avisa(t)
  BY <1>6 DEF DeOtros, AbrirCheckout, PagoAprobado, AvisarConfirmacion, FinalizarLee,
              FinalizarCrea, CompletarReserva, TIPOS
<1>7. CASE \/ SoloVencer \/ GuardarReprogramacion \/ Tick \/ Deshacer
           \/ \E b \in Bloqueos : QuitarBloqueo(b)
           \/ \E b \in Bloqueos, r \in RangosBloqueo : Bloquear(b, r[1], r[2])
  BY <1>1, <1>7 DEF SoloVencer, GuardarReprogramacion, Tick, Deshacer, QuitarBloqueo,
              Bloquear, SinTocarResto
<1>8. CASE \E t \in Turnos : Crear(t) \/ Cambiar(t) \/ DeOtros(t)
  <2>1. PICK t \in Turnos : Crear(t) \/ Cambiar(t) \/ DeOtros(t)
    BY <1>8
  <2>2. avisos' = avisos \/ Avisa(t)
    BY <2>1, <1>4, <1>5, <1>6
  <2> HIDE DEF Avisa
  <2> QED
    BY <2>2, <1>2, <1>3
<1>10. CASE Escribir
  <2>1. PICK e \in escritura :
          /\ e \in Escrituras
          /\ avisos' = avisos \cup (IF e.aviso = SinAviso THEN {}
                                    ELSE {Aviso(e.turno, e.aviso, reserva')})
    BY <1>10, EscribirPaso
  <2>2. e.turno \in Turnos /\ e.aviso \in TIPOS \cup {SinAviso}
    BY <2>1 DEF Escrituras
  <2>3. avisos' = avisos \/ Avisa(e.turno)
    BY <2>1, <2>2
  <2> HIDE DEF Avisa
  <2> QED
    BY <2>2, <2>3, <1>2, <1>3
<1>9. CASE UNCHANGED vars
  BY <1>1, <1>9 DEF vars
<1> HIDE DEF Avisa
<1> QED
  BY <1>7, <1>8, <1>9, <1>10 DEF Next

\* The other variables of the agenda keep their types.
LEMMA RestoTipos ==
  ASSUME AgendaAssumption, Tipos, [Next]_vars
  PROVE  /\ bloqueo' \in [Bloqueos -> [activo : BOOLEAN, inicio : Nat, fin : Nat]]
         /\ permite' \in BOOLEAN
         /\ orden' \subseteq Turnos /\ pagado' \subseteq orden'
         /\ cierre' \in [Turnos -> {"no", "leido", "si"}]
         /\ ahora' \in Nat
<1> DEFINE Quedan == UNCHANGED <<bloqueo, permite, orden, pagado, cierre, ahora>>
<1>1. ASSUME NEW t \in Turnos, Crear(t)
      PROVE  UNCHANGED <<bloqueo, permite, orden, pagado, cierre, ahora>>
  BY <1>1 DEF Crear, SolicitarTurno, AdminReservar, CrearManual, ForzarTurno, SinTocarResto
<1>2. ASSUME NEW t \in Turnos, Cambiar(t)
      PROVE  UNCHANGED <<bloqueo, permite, orden, pagado, cierre, ahora>>
  BY <1>2, CambiarDecide DEF Decision, Decide, SinTocarResto
<1> USE DEF Tipos, TypeOK
<1>7. CASE (\E t \in Turnos : Crear(t) \/ Cambiar(t)) \/ Escribir \/ Deshacer
  <2>1. Quedan
    BY <1>7, <1>1, <1>2 DEF Escribir, Deshacer, SinTocarResto
  <2> QED
    BY <2>1
<1>3. CASE \E t \in Turnos : DeOtros(t)
  BY <1>3 DEF DeOtros, AbrirCheckout, PagoAprobado, AvisarConfirmacion, FinalizarLee,
              FinalizarCrea, CompletarReserva, Aprobable
<1>4. CASE \E b \in Bloqueos : QuitarBloqueo(b)
  BY <1>4 DEF QuitarBloqueo, SinTocarResto, SinBloqueo
<1>5. CASE \E b \in Bloqueos, r \in RangosBloqueo : Bloquear(b, r[1], r[2])
  <2>1. PICK b \in Bloqueos, r \in RangosBloqueo : Bloquear(b, r[1], r[2])
    BY <1>5
  <2>2. r[1] \in Nat /\ r[2] \in Nat
    BY DEF AgendaAssumption
  <2> QED
    BY <2>1, <2>2 DEF Bloquear, SinTocarResto
<1>6. CASE SoloVencer \/ Tick
  BY <1>6 DEF SoloVencer, Tick, SinTocarResto
<1>9. CASE GuardarReprogramacion
  <2>1. permite' \in BOOLEAN
    <3> HIDE DEF Tipos, TypeOK
    <3> QED BY <1>9, Zenon DEF GuardarReprogramacion
  <2> QED
    BY <1>9, <2>1 DEF GuardarReprogramacion
<1>8. CASE UNCHANGED vars
  BY <1>8 DEF vars
<1> HIDE DEF Tipos, TypeOK
<1> QED
  BY <1>3, <1>4, <1>5, <1>6, <1>7, <1>8, <1>9 DEF Next

\* What is decided is a write of one turno.
LEMMA DecisionEscritura ==
  ASSUME Tipos, NEW t \in Turnos, NEW nuevo, NEW hora, NEW aviso,
         Decision(t, nuevo, hora, aviso)
  PROVE  \E e \in Escrituras :
           /\ escritura' = {e}
           /\ e.turno = t /\ e.leido = reserva[t].estado /\ e.nuevo = nuevo /\ e.hora = hora
           /\ e.aviso = aviso /\ e.vencidas = PorVencer
<1> DEFINE e == [turno |-> t, leido |-> Vencidas[t].estado, nuevo |-> nuevo,
                 hora |-> hora, aviso |-> aviso, vencidas |-> PorVencer]
<1>1. escritura' = {e}
  BY DEF Decision, Decide
<1>2. Vencidas[t] = reserva[t] /\ reserva[t].estado \in ESTADOS
  BY DEF Decision, ESTADOS
<1>3. PorVencer \in SUBSET Turnos
  BY DEF PorVencer
<1>4. e \in Escrituras
  BY <1>2, <1>3 DEF Decision, Escrituras
<1> QED
  BY <1>1, <1>2, <1>4

\* The steps that end the write in flight, and those that leave it.
LEMMA EscrituraPaso ==
  ASSUME AgendaAssumption, Tipos, [Next]_vars
  PROVE  \/ escritura' = {}
         \/ \E t \in Turnos : Cambiar(t)
         \/ /\ escritura' = escritura /\ reserva' \in [Turnos -> Fila]
            /\ \A u \in Turnos : Deja(u, reserva'[u], pagado')
            /\ \A b \in Bloqueos : bloqueo'[b].activo => bloqueo'[b] = bloqueo[b]
            /\ ahora' \in {ahora, ahora + 1}
<1>1. ASSUME NEW t \in Turnos, Crear(t)
      PROVE  escritura' = {}
  BY <1>1 DEF Crear, SolicitarTurno, AdminReservar, CrearManual, ForzarTurno, ConAgenda
<1>2. CASE \/ Escribir \/ Deshacer \/ SoloVencer \/ GuardarReprogramacion
           \/ \E b \in Bloqueos, r \in RangosBloqueo : Bloquear(b, r[1], r[2])
  BY <1>2 DEF Escribir, Deshacer, SoloVencer, GuardarReprogramacion, Bloquear, ConAgenda
<1>3. ASSUME NEW t \in Turnos, DeOtros(t)
      PROVE  /\ escritura' = escritura /\ reserva' \in [Turnos -> Fila]
             /\ ahora' = ahora /\ bloqueo' = bloqueo
             /\ \A u \in Turnos : Deja(u, reserva'[u], pagado')
  BY <1>3, OtrosDejan
<1>4. CASE (\E b \in Bloqueos : QuitarBloqueo(b)) \/ Tick \/ UNCHANGED vars
  <2>1. /\ reserva \in [Turnos -> Fila]
        /\ bloqueo \in [Bloqueos -> [activo : BOOLEAN, inicio : Nat, fin : Nat]]
    BY DEF Tipos, TypeOK
  <2> QED
    BY <1>4, <2>1 DEF QuitarBloqueo, SinBloqueo, Tick, vars, SinTocarResto, Deja
<1> QED
  BY <1>1, <1>2, <1>3, <1>4 DEF Next

\* A turno that was overdue stays overdue while only the payment, the closing
\* and the clock run.
LEMMA SigueVencida ==
  ASSUME Tipos, NEW u \in Turnos, Vencida(reserva[u]),
         Deja(u, reserva'[u], pagado'), ahora' \in {ahora, ahora + 1}
  PROVE  Vencida(reserva[u])'
<1>1. reserva'[u] = reserva[u]
  BY DEF Deja, Vencida, ESPERAN
<1>2. reserva[u].expira \in Nat /\ ahora \in Nat
  BY DEF Tipos, TypeOK, Fila
<1> QED
  BY <1>1, <1>2 DEF Vencida

\* What is known of a write in flight stays true of it.
LEMMA EnVueloPaso ==
  ASSUME AgendaAssumption, Base, [Next]_vars
  PROVE  EnVuelo'
<1>1. Tipos /\ EnVuelo
  BY DEF Base
<1>2. CASE escritura' = {}
  BY <1>2 DEF EnVuelo
<1>3. ASSUME NEW t \in Turnos, Cambiar(t)
      PROVE  EnVuelo'
  <2>1. PICK nuevo, hora, aviso : Decision(t, nuevo, hora, aviso)
    BY <1>1, <1>3, CambiarDecide
  <2>2. PICK e \in Escrituras :
          /\ escritura' = {e} /\ e.turno = t /\ e.leido = reserva[t].estado
          /\ e.nuevo = nuevo /\ e.vencidas = PorVencer
    BY <1>1, <2>1, DecisionEscritura
  <2>3. reserva' = reserva /\ ahora' = ahora
    BY <2>1 DEF Decision, Decide, SinTocarResto
  <2>4. /\ t \notin PorVencer
        /\ \A u \in PorVencer : Vencida(reserva[u])
        /\ reserva[t].estado # SinFila
    BY <2>1 DEF Decision, PorVencer, SinFila
  <2>5. \A u \in PorVencer : Vencida(reserva[u])'
    BY <2>3, <2>4 DEF Vencida
  <2> QED
    BY <2>1, <2>2, <2>3, <2>4, <2>5 DEF EnVuelo, Decision
<1>4. CASE /\ escritura' = escritura
           /\ \A u \in Turnos : Deja(u, reserva'[u], pagado')
           /\ ahora' \in {ahora, ahora + 1}
  <2> SUFFICES ASSUME NEW e \in escritura
               PROVE  /\ e.turno \notin e.vencidas
                      /\ reserva'[e.turno].estado # SinFila
                      /\ \A u \in e.vencidas : Vencida(reserva[u])'
                      /\ \/ e.leido = "pending" /\ e.nuevo \in TRANSICIONES["pending"]
                         \/ e.leido = "awaiting_payment" /\ e.nuevo = "cancelled"
                         \/ /\ e.leido = "confirmed"
                            /\ e.nuevo \in TRANSICIONES["confirmed"] \cup {OtroHorario}
                      /\ e.nuevo = "awaiting_payment" => reserva'[e.turno].conSena
                      /\ e.nuevo = "confirmed" => ~reserva'[e.turno].conSena
    BY <1>4 DEF EnVuelo
  <2>1. e.turno \in Turnos /\ e.vencidas \subseteq Turnos
    BY <1>1 DEF Tipos, TypeOK, Escrituras
  <2>2. Deja(e.turno, reserva'[e.turno], pagado')
    BY <1>4, <2>1
  <2>3. reserva'[e.turno].estado # SinFila /\ reserva'[e.turno].conSena = reserva[e.turno].conSena
    BY <1>1, <2>2 DEF EnVuelo, Deja, SinFila
  <2>4. \A u \in e.vencidas : Vencida(reserva[u])'
    BY <1>1, <1>4, <2>1, SigueVencida DEF EnVuelo
  <2> QED
    BY <1>1, <2>3, <2>4 DEF EnVuelo
<1> QED
  BY <1>1, <1>2, <1>3, <1>4, EscrituraPaso

\* So does what the agenda alone knows of it.
LEMMA AlDiaPaso ==
  ASSUME AgendaAssumption, AgendaInv, [Next]_vars
  PROVE  AlDia'
<1>1. Tipos /\ AlDia
  BY DEF AgendaInv, Base
<1>2. CASE escritura' = {}
  BY <1>2 DEF AlDia
<1>3. ASSUME NEW t \in Turnos, Cambiar(t)
      PROVE  AlDia'
  <2>1. PICK nuevo, hora, aviso : Decision(t, nuevo, hora, aviso)
    BY <1>1, <1>3, CambiarDecide
  <2>2. PICK e \in Escrituras :
          /\ escritura' = {e} /\ e.turno = t /\ e.leido = reserva[t].estado
          /\ e.nuevo = nuevo /\ e.aviso = aviso
    BY <1>1, <2>1, DecisionEscritura
  <2>3. reserva' = reserva
    BY <2>1 DEF Decision, Decide
  <2>4. AvisoDebido(e)'
    BY <2>1, <2>2, <2>3 DEF Decision, AvisoDebido
  <2> QED
    BY <2>2, <2>3, <2>4 DEF AlDia
<1>4. CASE /\ escritura' = escritura
           /\ \A u \in Turnos : Deja(u, reserva'[u], pagado')
  <2> SUFFICES ASSUME NEW e \in escritura
               PROVE  /\ e.leido = "pending" => reserva'[e.turno].estado = "pending"
                      /\ e.leido = "awaiting_payment" =>
                           reserva'[e.turno].estado \in {"awaiting_payment", "confirmed", "completed"}
                      /\ e.leido = "confirmed" =>
                           reserva'[e.turno].estado \in {"confirmed", "completed"}
                      /\ AvisoDebido(e)'
    BY <1>4 DEF AlDia, AvisoDebido
  <2>1. e.turno \in Turnos
    BY <1>1 DEF Tipos, TypeOK, Escrituras
  <2>2. Deja(e.turno, reserva'[e.turno], pagado')
    BY <1>4, <2>1
  <2>3. AvisoDebido(e)'
    BY <1>1, <2>2 DEF AlDia, AvisoDebido, Deja
  <2> QED
    BY <1>1, <2>2, <2>3 DEF AlDia, Deja
<1> QED
  BY <1>1, <1>2, <1>3, <1>4, EscrituraPaso

\* Initially every row is the empty one, and nothing is being written.
LEMMA AgendaInicio ==
  ASSUME Init
  PROVE  AgendaInv
<1>1. FilaVacia \in Fila
  BY DEF FilaVacia, Fila, SinFila
<1>2. SinBloqueo \in [activo : BOOLEAN, inicio : Nat, fin : Nat]
  BY DEF SinBloqueo
<1>3. TypeOK
  BY <1>1, <1>2 DEF Init, TypeOK
<1>4. Rangos /\ EnVuelo /\ AlDia
  BY DEF Init, Rangos, FilaVacia, EnVuelo, AlDia
<1> QED
  BY <1>3, <1>4 DEF Tipos, Base, AgendaInv

\* The write in flight is at most one, of a turno.
LEMMA EscrituraTipos ==
  ASSUME AgendaAssumption, Tipos, [Next]_vars
  PROVE  escritura' \subseteq Escrituras /\ \A e, f \in escritura' : e = f
<1>1. ASSUME NEW t \in Turnos, Cambiar(t)
      PROVE  \E e \in Escrituras : escritura' = {e}
  <2>1. PICK nuevo, hora, aviso : Decision(t, nuevo, hora, aviso)
    BY <1>1, CambiarDecide
  <2> QED
    BY <2>1, DecisionEscritura
<1> QED
  BY <1>1, EscrituraPaso DEF Tipos, TypeOK

\* Types and ranges are preserved by every step, and what is known of a write.
LEMMA BasePaso ==
  ASSUME AgendaAssumption, Base, [Next]_vars
  PROVE  Base'
<1>0. Tipos
  BY DEF Base
<1>1. reserva' \in [Turnos -> Fila] /\ \A t \in Turnos : reserva'[t].inicio <= reserva'[t].fin
  <2>1. CASE PasoQuieto(reserva', pagado') \/ \E t \in Turnos : PasoFila(t, reserva', pagado')
    BY <1>0, <2>1 DEF PasoQuieto, PasoFila, Hereda, Tipos, Rangos
  <2>2. ASSUME NEW e \in escritura, PasoEscrito(e, reserva', pagado')
        PROVE  /\ reserva' \in [Turnos -> Fila]
               /\ \A t \in Turnos : reserva'[t].inicio <= reserva'[t].fin
    <3>1. e \in Escrituras /\ e.turno \in Turnos /\ reserva[e.turno] \in Fila
          /\ reserva[e.turno].inicio <= reserva[e.turno].fin
      BY <1>0 DEF Tipos, TypeOK, Rangos, Escrituras
    <3>2. reserva'[e.turno].inicio <= reserva'[e.turno].fin
      BY <2>2, <3>1, EscritaFila DEF PasoEscrito
    <3> QED
      BY <1>0, <2>2, <3>2 DEF PasoEscrito, Hereda, Tipos, Rangos
  <2> QED
    BY <2>1, <2>2, Paso
<1>2. TypeOK'
  BY <1>0, <1>1, AvisosTipo, RestoTipos, EscrituraTipos DEF TypeOK
<1> QED
  BY <1>1, <1>2, EnVueloPaso DEF Base, Tipos, Rangos

\* All that holds in the agenda.
LEMMA AgendaPaso ==
  ASSUME AgendaAssumption, AgendaInv, [Next]_vars
  PROVE  AgendaInv'
  BY BasePaso, AlDiaPaso DEF AgendaInv

\* Every reachable agenda is well typed: rows, blocks, notices, clock and what
\* is about to be written hold only values the tables of the calendar can hold,
\* and no turno ends before it starts.
THEOREM TiposCorrectos == Spec => [](TypeOK /\ Rangos)
<1> USE AgendaAssumption
<1>1. Init => AgendaInv
  BY AgendaInicio
<1>2. AgendaInv /\ [Next]_vars => AgendaInv'
  BY AgendaPaso
<1>3. AgendaInv => TypeOK /\ Rangos
  BY DEF AgendaInv, Base, Tipos
<1> QED
  BY <1>1, <1>2, <1>3, PTL DEF Spec

----------------------------------------------------------------------------
(* Nobody is booked twice.                                                 *)

\* For the constraint of the table it is enough that a row keeps its time and
\* that its state, if it changes, leaves one that was not final ...
Avanza(t, f) ==
  /\ f.inicio = reserva[t].inicio /\ f.fin = reserva[t].fin
  /\ f.conSena = reserva[t].conSena /\ f.origen = reserva[t].origen
  /\ \/ f.estado = reserva[t].estado
     \/ /\ reserva[t].estado \in ESPERAN \cup {"confirmed"}
        /\ f.estado \in ESTADOS \ {"pending"}
        /\ reserva[t].estado = "confirmed" => f.estado # "awaiting_payment"

\* ... or that it is written as it was decided, whatever it has become.
Pisa(t, f) ==
  \E e \in escritura :
    /\ e.turno = t
    /\ f.conSena = reserva[t].conSena /\ f.origen = reserva[t].origen
    /\ f.estado = IF e.nuevo = OtroHorario THEN reserva[t].estado ELSE e.nuevo

\* Every row advances ...
PasoSinFila(nueva) ==
  /\ nueva \in [Turnos -> Fila]
  /\ \A t \in Turnos : Avanza(t, nueva[t])

\* ... or one of them, new or written, has a time that the constraint accepted.
PasoConFila(t, nueva) ==
  /\ nueva \in [Turnos -> Fila]
  /\ \A u \in Turnos \ {t} : Avanza(u, nueva[u])
  /\ nueva[t].inicio <= nueva[t].fin
  /\ EnRestriccion(nueva[t]) => SinChoque(nueva, t, nueva[t].inicio, nueva[t].fin)
  /\ \/ /\ reserva[t].estado = SinFila /\ nueva[t].estado \in {"pending", "confirmed"}
        /\ nueva[t].origen = "mercado" => ~nueva[t].conSena
     \/ Pisa(t, nueva[t])

\* What the agenda does is no more than that.
LEMMA PasosAvanzan ==
  ASSUME AgendaAssumption, Base, [Next]_vars
  PROVE  PasoSinFila(reserva') \/ \E t \in Turnos : PasoConFila(t, reserva')
<1>1. ASSUME NEW t \in Turnos, NEW f \in Fila, NEW pagos, Hereda(t, f, pagos)
      PROVE  Avanza(t, f)
  BY <1>1, Destinos DEF Hereda, Avanza, ESPERAN, ESTADOS
<1>2. CASE PasoQuieto(reserva', pagado')
  BY <1>1, <1>2 DEF PasoQuieto, PasoSinFila
<1>3. ASSUME NEW t \in Turnos, PasoFila(t, reserva', pagado')
      PROVE  PasoConFila(t, reserva')
  <2>1. \A u \in Turnos \ {t} : Avanza(u, reserva'[u])
    BY <1>1, <1>3 DEF PasoFila
  <2> QED
    BY <1>3, <2>1 DEF PasoFila, PasoConFila
<1>4. ASSUME NEW e \in escritura, PasoEscrito(e, reserva', pagado')
      PROVE  e.turno \in Turnos /\ PasoConFila(e.turno, reserva')
  <2>1. e \in Escrituras /\ e.turno \in Turnos /\ reserva[e.turno] \in Fila
        /\ reserva[e.turno].inicio <= reserva[e.turno].fin
    BY DEF Base, Tipos, TypeOK, Rangos, Escrituras
  <2>2. \A u \in Turnos \ {e.turno} : Avanza(u, reserva'[u])
    BY <1>1, <1>4 DEF PasoEscrito
  <2>3. /\ Pisa(e.turno, reserva'[e.turno])
        /\ reserva'[e.turno].inicio <= reserva'[e.turno].fin
    BY <1>4, <2>1, EscritaFila DEF PasoEscrito, Pisa
  <2> QED
    BY <1>4, <2>1, <2>2, <2>3 DEF PasoEscrito, PasoConFila
<1> QED
  BY <1>2, <1>3, <1>4, Paso

\* A row that advances is in the constraint only if it was.
LEMMA AvanzaRestriccion ==
  ASSUME NEW t \in Turnos, NEW f, Avanza(t, f), EnRestriccion(f)
  PROVE  EnRestriccion(reserva[t])
  BY DEF Avanza, EnRestriccion, LIBERAN, SinFila, ESTADOS, ESPERAN

\* Overlapping does not depend on which of the two comes first.
LEMMA SolapanSimetrico ==
  ASSUME NEW i \in Nat, NEW f \in Nat, NEW j \in Nat, NEW g \in Nat,
         SeSolapan(i, f, j, g, 0)
  PROVE  SeSolapan(j, g, i, f, 0)
  BY DEF SeSolapan

\* A step of either kind keeps the turnos that hold their time apart.
LEMMA SolapamientoPaso ==
  ASSUME Tipos, SinSolapamiento,
         PasoSinFila(reserva') \/ \E t \in Turnos : PasoConFila(t, reserva')
  PROVE  SinSolapamiento'
<1> SUFFICES ASSUME NEW t \in Turnos, NEW u \in Turnos, t # u,
                    EnRestriccion(reserva'[t]), EnRestriccion(reserva'[u])
             PROVE  ~SeSolapan(reserva'[t].inicio, reserva'[t].fin,
                               reserva'[u].inicio, reserva'[u].fin, 0)
  BY DEF SinSolapamiento, EnRestriccion, SeSolapan
<1>1. reserva' \in [Turnos -> Fila]
  BY DEF PasoSinFila, PasoConFila
<1>2. \A v \in Turnos : reserva'[v].inicio \in Nat /\ reserva'[v].fin \in Nat
  BY <1>1 DEF Fila
<1>3. CASE Avanza(t, reserva'[t]) /\ Avanza(u, reserva'[u])
  <2>1. EnRestriccion(reserva[t]) /\ EnRestriccion(reserva[u])
    BY <1>3, AvanzaRestriccion
  <2> QED
    BY <1>3, <2>1 DEF Avanza, SinSolapamiento
<1>4. ASSUME NEW v \in Turnos, PasoConFila(v, reserva')
      PROVE  \A w \in Turnos \ {v} : EnRestriccion(reserva'[v]) /\ EnRestriccion(reserva'[w]) =>
               ~SeSolapan(reserva'[v].inicio, reserva'[v].fin,
                          reserva'[w].inicio, reserva'[w].fin, 0)
  BY <1>4 DEF PasoConFila, SinChoque
<1>5. CASE \E v \in Turnos : PasoConFila(v, reserva')
  <2>1. PICK v \in Turnos : PasoConFila(v, reserva')
    BY <1>5
  <2>2. CASE v = t
    BY <1>4, <2>1, <2>2
  <2>3. CASE v = u
    BY <1>2, <1>4, <2>1, <2>3, SolapanSimetrico
  <2>4. CASE v # t /\ v # u
    BY <1>3, <2>1, <2>4 DEF PasoConFila
  <2> QED
    BY <2>2, <2>3, <2>4
<1>6. CASE PasoSinFila(reserva')
  BY <1>3, <1>6 DEF PasoSinFila
<1> QED
  BY <1>5, <1>6

\* Two turnos of one provider that hold their time never overlap, whoever wrote
\* each of them, and however old what it had read: the client, the provider, the
\* administration or the payment.
THEOREM NadieSeSuperpone == Spec => []SinSolapamiento
<1> USE AgendaAssumption
<1> DEFINE IInv == AgendaInv /\ SinSolapamiento
<1>1. Init => IInv
  <2>1. Init => SinSolapamiento
    BY DEF Init, SinSolapamiento, EnRestriccion, FilaVacia, SinFila
  <2> QED
    BY <2>1, AgendaInicio
<1>2. IInv /\ [Next]_vars => IInv'
  <2>1. AgendaInv => Base /\ Tipos
    BY DEF AgendaInv, Base
  <2> QED
    BY <2>1, AgendaPaso, PasosAvanzan, SolapamientoPaso
<1>3. IInv => SinSolapamiento
  OBVIOUS
<1> QED
  BY <1>1, <1>2, <1>3, PTL DEF Spec

----------------------------------------------------------------------------
(* The states.                                                             *)

\* A step changes a state as the contract allows, but for what is written over a
\* turno that was given, by who had read it open.
LEMMA TransicionPaso ==
  ASSUME AgendaAssumption, AgendaInv, [Next]_vars,
         NEW t \in Turnos, reserva[t].estado \in ESTADOS,
         reserva'[t].estado # reserva[t].estado
  PROVE  \/ reserva'[t].estado \in TRANSICIONES[reserva[t].estado]
         \/ reserva[t].estado = "completed" /\ LoEscribeQuienLoLeyo(t)
<1>1. CASE PasoQuieto(reserva', pagado')
  BY <1>1 DEF PasoQuieto, Hereda
<1>2. CASE \E u \in Turnos : PasoFila(u, reserva', pagado')
  <2>1. PICK u \in Turnos : PasoFila(u, reserva', pagado')
    BY <1>2
  <2>2. u # t
    BY <2>1 DEF PasoFila, SinFila, ESTADOS
  <2> QED
    BY <2>1, <2>2 DEF PasoFila, Hereda
<1>3. ASSUME NEW e \in escritura, PasoEscrito(e, reserva', pagado')
      PROVE  \/ reserva'[t].estado \in TRANSICIONES[reserva[t].estado]
             \/ reserva[t].estado = "completed" /\ LoEscribeQuienLoLeyo(t)
  <2>1. CASE e.turno # t
    BY <1>3, <2>1 DEF PasoEscrito, Hereda
  <2>2. CASE e.turno = t
    <3>1. e \in Escrituras /\ reserva[t] \in Fila /\ reserva[t].inicio <= reserva[t].fin
      BY DEF AgendaInv, Base, Tipos, TypeOK, Rangos
    <3>2. e.nuevo # OtroHorario /\ reserva'[t].estado = e.nuevo
      BY <1>3, <2>2, <3>1, EscritaFila DEF PasoEscrito
    <3>3. CASE e.leido = "pending"
      <4>1. reserva[t].estado = "pending" /\ e.nuevo \in TRANSICIONES["pending"]
        BY <2>2, <3>3 DEF AgendaInv, Base, EnVuelo, AlDia
      <4> QED
        BY <3>2, <4>1
    <3>4. CASE e.leido = "awaiting_payment"
      <4>1. /\ reserva[t].estado \in {"awaiting_payment", "confirmed", "completed"}
            /\ e.nuevo = "cancelled"
        BY <2>2, <3>4 DEF AgendaInv, Base, EnVuelo, AlDia
      <4>2. reserva[t].estado = "completed" => LoEscribeQuienLoLeyo(t)
        BY <2>2, <3>2, <3>4, <4>1, Destinos DEF LoEscribeQuienLoLeyo
      <4> QED
        BY <3>2, <4>1, <4>2, Destinos
    <3>5. CASE e.leido = "confirmed"
      <4>1. /\ reserva[t].estado \in {"confirmed", "completed"}
            /\ e.nuevo \in TRANSICIONES["confirmed"]
        BY <2>2, <3>2, <3>5 DEF AgendaInv, Base, EnVuelo, AlDia
      <4>2. reserva[t].estado = "completed" => LoEscribeQuienLoLeyo(t)
        BY <2>2, <3>2, <3>5, <4>1 DEF LoEscribeQuienLoLeyo
      <4> QED
        BY <3>2, <4>1, <4>2
    <3> QED
      BY <2>2, <3>3, <3>4, <3>5 DEF AgendaInv, Base, EnVuelo
  <2> QED
    BY <2>1, <2>2
<1> QED
  BY <1>1, <1>2, <1>3, Paso DEF AgendaInv

\* Every change of state of a turno, of any writer, is one the contract allows,
\* and a late payment never revives an expired turno.  One exception: a turno
\* that was given is written over by who held the calendar since before and had
\* read it open.
THEOREM LoEscritoSigueElContrato == Spec => CambiosSegunContrato
<1> USE AgendaAssumption
<1> DEFINE Permitida ==
      \A t \in Turnos :
        (reserva[t].estado \in ESTADOS /\ reserva'[t].estado # reserva[t].estado) =>
          \/ reserva'[t].estado \in TRANSICIONES[reserva[t].estado]
          \/ reserva[t].estado = "completed" /\ LoEscribeQuienLoLeyo(t)
<1>1. AgendaInv /\ [Next]_vars => [Permitida]_vars
  BY TransicionPaso
<1>2. Spec => []AgendaInv
  BY AgendaInicio, AgendaPaso, PTL DEF Spec
<1> QED
  BY <1>1, <1>2, PTL DEF Spec, CambiosSegunContrato

\* No step confirms, for free, a turno that has a deposit to pay.
LEMMA GratisPaso ==
  ASSUME AgendaAssumption, AgendaInv, NadieConfirmaGratis, [Next]_vars
  PROVE  NadieConfirmaGratis'
<1> SUFFICES ASSUME NEW t \in Turnos, reserva'[t].conSena,
                    reserva'[t].estado \in {"confirmed", "completed", "no-show"}
             PROVE  t \in pagado'
  BY DEF NadieConfirmaGratis
<1>1. pagado \subseteq pagado'
  BY Paso DEF AgendaInv
<1>2. CASE Hereda(t, reserva'[t], pagado')
  <2>1. CASE reserva'[t].estado = reserva[t].estado
    BY <1>1, <1>2, <2>1 DEF Hereda, NadieConfirmaGratis
  <2>2. CASE reserva'[t].estado = "confirmed" /\ reserva'[t].estado # reserva[t].estado
    BY <1>2, <2>2 DEF Hereda
  <2>3. CASE /\ reserva'[t].estado \in {"completed", "no-show"}
             /\ reserva'[t].estado # reserva[t].estado
    <3>1. reserva[t].estado = "confirmed"
      BY <1>2, <2>3, Destinos DEF Hereda, ESTADOS
    <3> QED
      BY <1>1, <1>2, <3>1 DEF Hereda, NadieConfirmaGratis
  <2> QED
    BY <2>1, <2>2, <2>3
<1>3. CASE \E u \in Turnos : PasoFila(u, reserva', pagado')
  <2>1. PICK u \in Turnos : PasoFila(u, reserva', pagado')
    BY <1>3
  <2>2. CASE u = t
    BY <2>1, <2>2 DEF PasoFila
  <2> QED
    BY <1>2, <2>1, <2>2 DEF PasoFila
<1>4. CASE PasoQuieto(reserva', pagado')
  BY <1>2, <1>4 DEF PasoQuieto
<1>5. ASSUME NEW e \in escritura, PasoEscrito(e, reserva', pagado')
      PROVE  t \in pagado'
  <2>1. CASE e.turno # t
    BY <1>2, <1>5, <2>1 DEF PasoEscrito
  <2>2. CASE e.turno = t
    <3>1. e \in Escrituras /\ reserva[t] \in Fila /\ reserva[t].inicio <= reserva[t].fin
      BY DEF AgendaInv, Base, Tipos, TypeOK, Rangos
    <3>2. /\ reserva[t].conSena
          /\ reserva'[t].estado = IF e.nuevo = OtroHorario THEN reserva[t].estado ELSE e.nuevo
      BY <1>5, <2>2, <3>1, EscritaFila DEF PasoEscrito
    <3>3. e.nuevo # "confirmed"
      BY <2>2, <3>2 DEF AgendaInv, Base, EnVuelo
    <3>4. e.nuevo = OtroHorario \/ e.nuevo \in {"completed", "no-show"}
      BY <3>2, <3>3
    <3>5. e.leido = "confirmed"
      BY <3>4, Destinos DEF AgendaInv, Base, EnVuelo, OtroHorario
    <3>6. reserva[t].estado \in {"confirmed", "completed"}
      BY <2>2, <3>5 DEF AgendaInv, AlDia
    <3> QED
      BY <1>1, <3>2, <3>6 DEF NadieConfirmaGratis
  <2> QED
    BY <2>1, <2>2
<1> QED
  BY <1>3, <1>4, <1>5, Paso DEF AgendaInv

\* A request that had a deposit to pay is confirmed, or given, only when the
\* payment was approved: no path confirms it for free.
THEOREM NadaSeConfirmaGratis == Spec => []NadieConfirmaGratis
<1> USE AgendaAssumption
<1> DEFINE IInv == AgendaInv /\ NadieConfirmaGratis
<1>1. Init => IInv
  <2>1. Init => NadieConfirmaGratis
    BY DEF Init, NadieConfirmaGratis, FilaVacia
  <2> QED
    BY <2>1, AgendaInicio
<1>2. IInv /\ [Next]_vars => IInv'
  BY AgendaPaso, GratisPaso
<1>3. IInv => NadieConfirmaGratis
  OBVIOUS
<1> QED
  BY <1>1, <1>2, <1>3, PTL DEF Spec

----------------------------------------------------------------------------
(* The time of a turno: the rest between two of them, and the blocks.      *)
(*                                                                         *)
(* Seen from there, a write leaves every row where it was and takes no     *)
(* time that was free (Tranquilo), or it places ONE row, new, accepted or  *)
(* moved, where the agenda said there was room (Ubica).                    *)

\* Only what is offered through TUS can be moved, and it lasts what the service
\* lasts: the check of a move, made for that duration, is the check of the row.
Admitidas ==
  \A t \in Turnos :
    reserva[t].admite =>
      reserva[t].fin = reserva[t].inicio + Duracion /\ reserva[t].origen = "tus"

\* The row f keeps the time of the turno t, and takes nothing.
Sigue(t, f) ==
  /\ f.inicio = reserva[t].inicio /\ f.fin = reserva[t].fin
  /\ f.origen = reserva[t].origen /\ f.admite = reserva[t].admite
  /\ f.cliente = reserva[t].cliente
  /\ Ocupa(f) => Ocupa(reserva[t])
  /\ (Ocupa(f) /\ f.estado # "pending") =>
       reserva[t].estado # "pending" \/ ~Bloqueado(f.inicio, f.fin)

Tranquilo(nueva) ==
  /\ nueva \in [Turnos -> Fila]
  /\ \A t \in Turnos : Sigue(t, nueva[t])

\* There is room for the row f of the turno t beside the rows of the table.
HayHueco(tabla, t, f) ==
  /\ f.admite => f.fin = f.inicio + Duracion /\ f.origen = "tus"
  /\ f.estado # "pending" /\ f.origen # "forzado" => ~Bloqueado(f.inicio, f.fin)
  /\ f.origen \in {"tus", "mercado"} =>
       \A u \in Turnos \ {t} :
         Ocupa(tabla[u]) /\ tabla[u].origen \in {"tus", "mercado"} =>
           ~SeSolapan(f.inicio, f.fin, tabla[u].inicio, tabla[u].fin, Descanso)

\* What is about to take a time was decided with room for it, and there is room
\* still: who adds a turno or a block waits for the calendar.
QuedaLugar ==
  \A e \in escritura :
    e.nuevo \in {"awaiting_payment", "confirmed", OtroHorario} =>
      HayHueco(reserva, e.turno, Escrita(reserva[e.turno], e))

Ubica(t, nueva) ==
  /\ nueva \in [Turnos -> Fila]
  /\ \A u \in Turnos \ {t} : Sigue(u, nueva[u])
  /\ HayHueco(nueva, t, nueva[t])

\* Expiring what nobody answered in time only gives time back.
LEMMA ExpiradasTranquilo ==
  ASSUME Tipos, NEW s \in SUBSET Turnos, \A u \in s : Vencida(reserva[u])
  PROVE  Tranquilo(Expiradas(s))
<1>1. Expiradas(s) \in [Turnos -> Fila]
  BY ExpiradasHereda DEF PasoQuieto
<1>2. ASSUME NEW t \in Turnos
      PROVE  Sigue(t, Expiradas(s)[t])
  <2>1. reserva[t] \in Fila
    BY DEF Tipos, TypeOK
  <2>2. CASE t \in s
    <3>1. Expiradas(s)[t] = Cambiada(reserva[t], "expired") /\ "expired" \in ESTADOS
      BY <2>2, ExpiradasHereda DEF ESTADOS
    <3>2. ~Ocupa(Expiradas(s)[t])
      BY <2>1, <3>1, CambiadaFila DEF Ocupa, LIBERAN
    <3> QED
      BY <2>1, <3>1, <3>2, CambiadaFila DEF Sigue
  <2>3. CASE t \notin s
    <3>1. Expiradas(s)[t] = reserva[t]
      BY <2>3, ExpiradasHereda
    <3> QED
      BY <3>1 DEF Sigue
  <2> QED
    BY <2>2, <2>3
<1> QED
  BY <1>1, <1>2 DEF Tranquilo

LEMMA VencidasTranquilo ==
  ASSUME Tipos
  PROVE  Tranquilo(Vencidas)
  BY ExpiradasTranquilo DEF Vencidas, PorVencer

\* One row is placed, the others only expire.
LEMMA FilaUbicada ==
  ASSUME Tipos, NEW t \in Turnos, NEW f \in Fila, HayHueco(Vencidas, t, f)
  PROVE  Ubica(t, [Vencidas EXCEPT ![t] = f])
<1> DEFINE nueva == [Vencidas EXCEPT ![t] = f]
<1>1. Vencidas \in [Turnos -> Fila] /\ \A u \in Turnos : Sigue(u, Vencidas[u])
  BY VencidasTranquilo DEF Tranquilo
<1>2. nueva \in [Turnos -> Fila] /\ nueva[t] = f
      /\ \A u \in Turnos \ {t} : nueva[u] = Vencidas[u]
  BY <1>1
<1> HIDE DEF nueva
<1>3. HayHueco(nueva, t, nueva[t])
  BY <1>2 DEF HayHueco
<1>4. Ubica(t, nueva)
  BY <1>1, <1>2, <1>3 DEF Ubica
<1> QED
  BY <1>4 DEF nueva

\* A start that is available has room for the service.
LEMMA DisponibleHueco ==
  ASSUME Tipos, NEW t \in Turnos, NEW f \in Fila, NEW i,
         Disponible(Vencidas, t, i),
         f.inicio = i, f.fin = i + Duracion, f.origen = "tus"
  PROVE  HayHueco(Vencidas, t, f)
  BY DEF Disponible, HayHueco

\* So does every creation; what is forced only respects the constraint.
LEMMA CrearUbica ==
  ASSUME AgendaAssumption, Tipos, NEW t \in Turnos, Crear(t)
  PROVE  Ubica(t, reserva')
<1> DEFINE Nueva(e, i, f, x, c, o, a, s) ==
             [estado |-> e, inicio |-> i, fin |-> f, expira |-> x, cliente |-> c,
              origen |-> o, admite |-> a, conSena |-> s, version |-> 1]
<1>1. ASSUME NEW c \in Clientes, NEW i \in Inicios, NEW s \in BOOLEAN,
             SolicitarTurno(t, c, i, s)
      PROVE  Ubica(t, reserva')
  <2> DEFINE f == Nueva("pending", i, i + Duracion, Menor(ahora + VigenciaSolicitud, i),
                        c, "tus", permite, s)
  <2>1. Disponible(Vencidas, t, i) /\ reserva' = [Vencidas EXCEPT ![t] = f]
    BY <1>1 DEF SolicitarTurno
  <2>2. i \in Nat /\ Duracion \in Nat /\ Menor(ahora + VigenciaSolicitud, i) \in Nat
    BY DEF AgendaAssumption, Tipos, TypeOK, Menor
  <2>3. f \in Fila /\ f.inicio = i /\ f.fin = i + Duracion /\ f.origen = "tus"
    BY <2>2 DEF Fila, ESTADOS, Tipos, TypeOK
  <2> HIDE DEF f
  <2> QED
    BY <2>1, <2>3, DisponibleHueco, FilaUbicada
<1>2. ASSUME NEW c \in Clientes \cup {Invitado}, NEW i \in Inicios, AdminReservar(t, c, i)
      PROVE  Ubica(t, reserva')
  <2> DEFINE f == Nueva("confirmed", i, i + Duracion, 0, c, "tus", permite, FALSE)
  <2>1. Disponible(Vencidas, t, i) /\ reserva' = [Vencidas EXCEPT ![t] = f]
    BY <1>2 DEF AdminReservar
  <2>2. i \in Nat /\ Duracion \in Nat
    BY DEF AgendaAssumption
  <2>3. f \in Fila /\ f.inicio = i /\ f.fin = i + Duracion /\ f.origen = "tus"
    BY <2>2 DEF Fila, ESTADOS, Tipos, TypeOK
  <2> HIDE DEF f
  <2> QED
    BY <2>1, <2>3, DisponibleHueco, FilaUbicada
<1>3. ASSUME NEW c \in Clientes \cup {Invitado}, NEW r \in RangosManuales,
             CrearManual(t, c, r[1], r[2]) \/ ForzarTurno(t, c, r[1], r[2])
      PROVE  Ubica(t, reserva')
  <2>1. PICK o \in {"manual", "forzado"} :
          /\ o = "manual" => ~Bloqueado(r[1], r[2])
          /\ reserva' = [Vencidas EXCEPT ![t] =
               Nueva("confirmed", r[1], r[2], 0, c, o, FALSE, FALSE)]
    BY <1>3 DEF CrearManual, ForzarTurno
  <2> DEFINE f == Nueva("confirmed", r[1], r[2], 0, c, o, FALSE, FALSE)
  <2>2. r[1] \in Nat /\ r[2] \in Nat
    BY DEF AgendaAssumption
  <2>3. f \in Fila /\ f.inicio = r[1] /\ f.fin = r[2] /\ f.origen = o /\ ~f.admite
    BY <2>2 DEF Fila, ESTADOS
  <2>4. reserva' = [Vencidas EXCEPT ![t] = f]
    BY <2>1
  <2> HIDE DEF f
  <2>5. HayHueco(Vencidas, t, f)
    BY <2>1, <2>3 DEF HayHueco
  <2> QED
    BY <2>3, <2>4, <2>5, FilaUbicada
<1> QED
  BY <1>1, <1>2, <1>3 DEF Crear


\* What other domains write in a row takes no time: the payment confirms a turno
\* that still waited for it, and the closing completes a confirmed one.
LEMMA OtrosTranquilo ==
  ASSUME Tipos, NEW t \in Turnos, DeOtros(t)
  PROVE  Tranquilo(reserva') /\ bloqueo' = bloqueo /\ ahora' = ahora
<1>1. /\ reserva' \in [Turnos -> Fila] /\ bloqueo' = bloqueo /\ ahora' = ahora
      /\ \A u \in Turnos : Deja(u, reserva'[u], pagado')
  BY OtrosDejan
<1>2. \A u \in Turnos : Sigue(u, reserva'[u])
  BY <1>1 DEF Deja, Sigue, Ocupa, Vencida, ESPERAN, LIBERAN, SinFila
<1> QED
  BY <1>1, <1>2 DEF Tranquilo

\* The write of what was decided: an acceptance or a move has the room it was
\* decided with, and the rest takes no time.
LEMMA EscribirLugar ==
  ASSUME AgendaAssumption, AgendaInv, QuedaLugar, Escribir
  PROVE  /\ bloqueo' = bloqueo /\ ahora' = ahora
         /\ Tranquilo(reserva') \/ \E t \in Turnos : Ubica(t, reserva')
<1>1. /\ Tipos /\ EnVuelo /\ AlDia /\ Base
      /\ bloqueo' = bloqueo /\ ahora' = ahora
  BY DEF AgendaInv, Base, Escribir, SinTocarResto
<1>2. PICK e \in escritura :
        /\ e \in Escrituras
        /\ reserva' = [Expiradas(e.vencidas) EXCEPT ![e.turno] = Escrita(reserva[e.turno], e)]
  BY <1>1, EscribirPaso
<1> DEFINE t == e.turno
           f == Escrita(reserva[t], e)
<1>3. /\ t \in Turnos /\ e.vencidas \in SUBSET Turnos /\ reserva[t] \in Fila
      /\ reserva[t].inicio <= reserva[t].fin /\ e.nuevo \in ESTADOS \cup {OtroHorario}
  BY <1>1, <1>2 DEF Escrituras, Tipos, TypeOK, Rangos
<1>4. Tranquilo(Expiradas(e.vencidas))
  BY <1>1, <1>3, ExpiradasTranquilo DEF EnVuelo
<1>5. f \in Fila
  BY <1>2, <1>3, EscritaFila
<1>6. /\ reserva' \in [Turnos -> Fila] /\ reserva'[t] = f
      /\ \A u \in Turnos \ {t} : Sigue(u, reserva'[u])
  <2> HIDE DEF f, t
  <2> QED
    BY <1>2, <1>3, <1>4, <1>5 DEF Tranquilo, t, f
<1>7. CASE e.nuevo \in {"awaiting_payment", "confirmed", OtroHorario}
  <2>1. HayHueco(reserva, t, f)
    BY <1>7 DEF QuedaLugar
  <2> HIDE DEF f, t
  <2>2. HayHueco(reserva', t, reserva'[t])
    BY <1>6, <2>1 DEF HayHueco, Sigue
  <2> QED
    BY <1>1, <1>3, <1>6, <2>2 DEF Ubica
<1>8. CASE e.nuevo \notin {"awaiting_payment", "confirmed", OtroHorario}
  <2>1. /\ f.estado = e.nuevo /\ f.inicio = reserva[t].inicio /\ f.fin = reserva[t].fin
        /\ f.origen = reserva[t].origen /\ f.admite = reserva[t].admite
        /\ f.cliente = reserva[t].cliente
    BY <1>2, <1>3, <1>8, EscritaFila
  <2>2. e.nuevo \in LIBERAN \/ (e.nuevo = "completed" /\ e.leido = "confirmed")
    BY <1>1, <1>8, Destinos DEF EnVuelo, LIBERAN
  <2>3. e.leido = "confirmed" => Ocupa(reserva[t]) /\ reserva[t].estado # "pending"
    BY <1>1 DEF AlDia, Ocupa, Vencida, ESPERAN, LIBERAN, SinFila
  <2> HIDE DEF f, t
  <2>4. Sigue(t, f)
    BY <2>1, <2>2, <2>3 DEF Sigue, Ocupa
  <2> QED
    BY <1>1, <1>6, <2>4 DEF Tranquilo
<1> QED
  BY <1>7, <1>8

----------------------------------------------------------------------------
(* What each kind of step keeps.                                           *)

LugarInv ==
  AgendaInv /\ Admitidas /\ AceptadoNoBloqueado /\ DescansoEntreTurnos /\ QuedaLugar

\* The rest around two turnos does not depend on which comes first.
LEMMA DescansoSimetrico ==
  ASSUME NEW i \in Nat, NEW f \in Nat, NEW j \in Nat, NEW g \in Nat, NEW d \in Nat,
         SeSolapan(i, f, j, g, d)
  PROVE  SeSolapan(j, g, i, f, d)
  BY DEF SeSolapan

\* A step that takes no time.
LEMMA TranquiloInv ==
  ASSUME LugarInv, Tranquilo(reserva'), bloqueo' = bloqueo, ahora' = ahora
  PROVE  /\ Admitidas' /\ AceptadoNoBloqueado' /\ DescansoEntreTurnos'
<1>1. \A t \in Turnos : Sigue(t, reserva'[t])
  BY DEF Tranquilo
<1>2. \A t \in Turnos : Ocupa(reserva[t])' <=> Ocupa(reserva'[t])
  BY DEF Ocupa, Vencida
<1>3. \A i, f : Bloqueado(i, f)' <=> Bloqueado(i, f)
  BY DEF Bloqueado
<1>4. Admitidas'
  BY <1>1 DEF LugarInv, Admitidas, Sigue
<1>5. AceptadoNoBloqueado'
  <2> SUFFICES ASSUME NEW t \in Turnos, Ocupa(reserva[t])', reserva'[t].estado # "pending",
                      reserva'[t].origen # "forzado"
               PROVE  ~Bloqueado(reserva'[t].inicio, reserva'[t].fin)
    BY DEF AceptadoNoBloqueado, Bloqueado, SeSolapan
  <2>1. Ocupa(reserva'[t]) /\ Sigue(t, reserva'[t])
    BY <1>1, <1>2
  <2> QED
    BY <2>1 DEF Sigue, LugarInv, AceptadoNoBloqueado
<1>6. DescansoEntreTurnos'
  <2> SUFFICES ASSUME NEW t \in Turnos, NEW u \in Turnos, t # u,
                      Ocupa(reserva[t])', Ocupa(reserva[u])',
                      {reserva'[t].origen, reserva'[u].origen} \subseteq {"tus", "mercado"}
               PROVE  ~SeSolapan(reserva'[t].inicio, reserva'[t].fin,
                                 reserva'[u].inicio, reserva'[u].fin, Descanso)
    BY DEF DescansoEntreTurnos, SeSolapan
  <2>1. /\ Ocupa(reserva'[t]) /\ Sigue(t, reserva'[t])
        /\ Ocupa(reserva'[u]) /\ Sigue(u, reserva'[u])
    BY <1>1, <1>2
  <2> QED
    BY <2>1 DEF Sigue, LugarInv, DescansoEntreTurnos
<1> QED
  BY <1>4, <1>5, <1>6

\* A step that places one row.
LEMMA UbicaInv ==
  ASSUME AgendaAssumption, LugarInv, NEW t \in Turnos, Ubica(t, reserva'),
         bloqueo' = bloqueo, ahora' = ahora
  PROVE  /\ Admitidas' /\ AceptadoNoBloqueado' /\ DescansoEntreTurnos'
<1>1. /\ \A u \in Turnos \ {t} : Sigue(u, reserva'[u])
      /\ HayHueco(reserva', t, reserva'[t])
  BY DEF Ubica
<1>2. \A u \in Turnos : Ocupa(reserva[u])' <=> Ocupa(reserva'[u])
  BY DEF Ocupa, Vencida
<1>3. \A u \in Turnos : reserva'[u].inicio \in Nat /\ reserva'[u].fin \in Nat
  BY DEF Ubica, Fila
<1>4. Admitidas'
  BY <1>1 DEF LugarInv, Admitidas, Sigue, HayHueco
<1>5. AceptadoNoBloqueado'
  <2> SUFFICES ASSUME NEW u \in Turnos, Ocupa(reserva[u])', reserva'[u].estado # "pending",
                      reserva'[u].origen # "forzado"
               PROVE  ~Bloqueado(reserva'[u].inicio, reserva'[u].fin)
    BY DEF AceptadoNoBloqueado, Bloqueado, SeSolapan
  <2>1. CASE u = t
    BY <1>1, <2>1 DEF HayHueco
  <2>2. CASE u # t
    BY <1>1, <1>2, <2>2 DEF Sigue, LugarInv, AceptadoNoBloqueado
  <2> QED
    BY <2>1, <2>2
<1>6. DescansoEntreTurnos'
  <2> SUFFICES ASSUME NEW v \in Turnos, NEW u \in Turnos, v # u,
                      Ocupa(reserva[v])', Ocupa(reserva[u])',
                      {reserva'[v].origen, reserva'[u].origen} \subseteq {"tus", "mercado"}
               PROVE  ~SeSolapan(reserva'[v].inicio, reserva'[v].fin,
                                 reserva'[u].inicio, reserva'[u].fin, Descanso)
    BY DEF DescansoEntreTurnos, SeSolapan
  <2>1. Ocupa(reserva'[v]) /\ Ocupa(reserva'[u]) /\ Descanso \in Nat
        /\ reserva'[v].origen \in {"tus", "mercado"} /\ reserva'[u].origen \in {"tus", "mercado"}
    BY <1>2 DEF AgendaAssumption
  <2>2. CASE v = t
    BY <1>1, <2>1, <2>2 DEF HayHueco
  <2>3. CASE u = t
    <3>1. ~SeSolapan(reserva'[u].inicio, reserva'[u].fin,
                     reserva'[v].inicio, reserva'[v].fin, Descanso)
      BY <1>1, <2>1, <2>3 DEF HayHueco
    <3> QED
      BY <1>3, <2>1, <3>1, DescansoSimetrico
  <2>4. CASE v # t /\ u # t
    BY <1>1, <2>1, <2>4 DEF Sigue, LugarInv, DescansoEntreTurnos
  <2> QED
    BY <2>2, <2>3, <2>4
<1> QED
  BY <1>4, <1>5, <1>6

\* A block covers no turno that was accepted.
LEMMA BloquearInv ==
  ASSUME AgendaAssumption, LugarInv, NEW b \in Bloqueos, NEW r \in RangosBloqueo,
         Bloquear(b, r[1], r[2])
  PROVE  /\ Admitidas' /\ AceptadoNoBloqueado' /\ DescansoEntreTurnos'
<1>1. /\ SinTurnos(Vencidas, r[1], r[2]) /\ reserva' = Vencidas /\ ahora' = ahora
      /\ bloqueo' = [bloqueo EXCEPT ![b] = [activo |-> TRUE, inicio |-> r[1], fin |-> r[2]]]
  BY DEF Bloquear, SinTocarResto
<1>2. r[1] \in Nat /\ r[2] \in Nat
  BY DEF AgendaAssumption
<1>3. Tranquilo(reserva')
  BY <1>1, VencidasTranquilo DEF LugarInv, AgendaInv, Base
<1>4. /\ \A t \in Turnos : Sigue(t, reserva'[t])
      /\ \A t \in Turnos : Ocupa(reserva[t])' <=> Ocupa(reserva'[t])
      /\ \A t \in Turnos : reserva'[t].inicio \in Nat /\ reserva'[t].fin \in Nat
  BY <1>1, <1>3 DEF Tranquilo, Ocupa, Vencida, Fila
<1>5. Admitidas'
  BY <1>4 DEF LugarInv, Admitidas, Sigue
<1>6. DescansoEntreTurnos'
  <2> SUFFICES ASSUME NEW t \in Turnos, NEW u \in Turnos, t # u,
                      Ocupa(reserva[t])', Ocupa(reserva[u])',
                      {reserva'[t].origen, reserva'[u].origen} \subseteq {"tus", "mercado"}
               PROVE  ~SeSolapan(reserva'[t].inicio, reserva'[t].fin,
                                 reserva'[u].inicio, reserva'[u].fin, Descanso)
    BY DEF DescansoEntreTurnos, SeSolapan
  <2>1. /\ Ocupa(reserva'[t]) /\ Sigue(t, reserva'[t])
        /\ Ocupa(reserva'[u]) /\ Sigue(u, reserva'[u])
    BY <1>4
  <2> QED
    BY <2>1 DEF Sigue, LugarInv, DescansoEntreTurnos
<1>7. AceptadoNoBloqueado'
  <2> SUFFICES ASSUME NEW t \in Turnos, Ocupa(reserva[t])', reserva'[t].estado # "pending",
                      reserva'[t].origen # "forzado", NEW c \in Bloqueos, bloqueo'[c].activo,
                      SeSolapan(reserva'[t].inicio, reserva'[t].fin,
                                bloqueo'[c].inicio, bloqueo'[c].fin, 0)
               PROVE  FALSE
    BY DEF AceptadoNoBloqueado, Bloqueado, SeSolapan
  <2>1. Ocupa(reserva'[t]) /\ Sigue(t, reserva'[t])
    BY <1>4
  <2>2. bloqueo \in [Bloqueos -> [activo : BOOLEAN, inicio : Nat, fin : Nat]]
    BY DEF LugarInv, AgendaInv, Base, Tipos, TypeOK
  <2>3. CASE c = b
    <3>1. bloqueo'[c].inicio = r[1] /\ bloqueo'[c].fin = r[2]
      BY <1>1, <2>2, <2>3
    <3>2. ~SeSolapan(r[1], r[2], reserva'[t].inicio, reserva'[t].fin, 0)
      BY <1>1, <2>1 DEF SinTurnos
    <3>3. SeSolapan(r[1], r[2], reserva'[t].inicio, reserva'[t].fin, 0)
      BY <1>2, <1>4, <3>1, SolapanSimetrico
    <3> QED
      BY <3>2, <3>3
  <2>4. CASE c # b
    <3>1. bloqueo'[c] = bloqueo[c]
      BY <1>1, <2>2, <2>4
    <3>2. Bloqueado(reserva'[t].inicio, reserva'[t].fin)
      BY <3>1 DEF Bloqueado
    <3> QED
      BY <2>1, <3>2 DEF Sigue, LugarInv, AceptadoNoBloqueado
  <2> QED
    BY <2>3, <2>4
<1> QED
  BY <1>5, <1>6, <1>7

\* The steps that write nothing in the table: a block less, time, a preference.
LEMMA QuietoInv ==
  ASSUME LugarInv, reserva' = reserva,
         \/ bloqueo' = bloqueo /\ ahora' = ahora
         \/ \E b \in Bloqueos : QuitarBloqueo(b)
         \/ Tick
  PROVE  /\ Admitidas' /\ AceptadoNoBloqueado' /\ DescansoEntreTurnos'
<1>1. reserva \in [Turnos -> Fila] /\ ahora \in Nat
      /\ bloqueo \in [Bloqueos -> [activo : BOOLEAN, inicio : Nat, fin : Nat]]
  BY DEF LugarInv, AgendaInv, Base, Tipos, TypeOK
<1>2. \A t \in Turnos : reserva[t].inicio \in Nat /\ reserva[t].fin \in Nat
                        /\ reserva[t].expira \in Nat
  BY <1>1 DEF Fila
<1>3. ahora' = ahora \/ ahora' = ahora + 1
  BY DEF QuitarBloqueo, Tick, SinTocarResto
<1>4. \A t \in Turnos : Ocupa(reserva[t])' => Ocupa(reserva[t])
  BY <1>1, <1>2, <1>3 DEF Ocupa, Vencida
<1>5. \A c \in Bloqueos : bloqueo'[c].activo => bloqueo'[c] = bloqueo[c]
  BY <1>1 DEF QuitarBloqueo, Tick, SinBloqueo
<1>6. \A t \in Turnos :
        Bloqueado(reserva[t].inicio, reserva[t].fin)' =>
          Bloqueado(reserva[t].inicio, reserva[t].fin)
  BY <1>5 DEF Bloqueado, SeSolapan
<1>7. Admitidas'
  BY DEF LugarInv, Admitidas
<1>8. AceptadoNoBloqueado'
  BY <1>4, <1>6 DEF LugarInv, AceptadoNoBloqueado
<1>9. DescansoEntreTurnos'
  BY <1>4 DEF LugarInv, DescansoEntreTurnos, SeSolapan
<1> QED
  BY <1>7, <1>8, <1>9

\* The room for what is about to be written is there when it is decided, and
\* until it is written.
LEMMA QuedaLugarPaso ==
  ASSUME AgendaAssumption, LugarInv, [Next]_vars
  PROVE  QuedaLugar'
<1>1. Tipos /\ EnVuelo /\ AlDia /\ Admitidas /\ DescansoEntreTurnos /\ QuedaLugar
  BY DEF LugarInv, AgendaInv, Base
<1>2. CASE escritura' = {}
  BY <1>2 DEF QuedaLugar
<1>3. ASSUME NEW t \in Turnos, Cambiar(t)
      PROVE  QuedaLugar'
  <2>1. PICK nuevo, hora, aviso : Decision(t, nuevo, hora, aviso)
    BY <1>1, <1>3, CambiarDecide
  <2>2. PICK e \in Escrituras :
          /\ escritura' = {e} /\ e.turno = t /\ e.leido = reserva[t].estado
          /\ e.nuevo = nuevo /\ e.hora = hora
    BY <1>1, <2>1, DecisionEscritura
  <2>3. reserva' = reserva /\ bloqueo' = bloqueo /\ ahora' = ahora
    BY <2>1 DEF Decision, Decide, SinTocarResto
  <2>4. SUFFICES ASSUME nuevo \in {"awaiting_payment", "confirmed", OtroHorario}
                 PROVE  HayHueco(reserva, t, Escrita(reserva[t], e))
    BY <2>2, <2>3 DEF QuedaLugar, HayHueco, Ocupa, Vencida, Bloqueado
  <2> DEFINE f == Escrita(reserva[t], e)
  <2>5. /\ reserva[t] \in Fila /\ reserva[t].inicio <= reserva[t].fin
        /\ ~Vencida(reserva[t]) /\ Vencidas[t] = reserva[t]
    BY <1>1, <2>1 DEF Decision, Tipos, Rangos
  <2>6. f.admite = reserva[t].admite /\ f.origen = reserva[t].origen
    BY <2>2, <2>5, EscritaFila
  <2>7. CASE nuevo \in {"awaiting_payment", "confirmed"}
    <3>1. f.inicio = reserva[t].inicio /\ f.fin = reserva[t].fin
      BY <2>2, <2>5, <2>7, EscritaFila DEF OtroHorario
    <3>2. ~Bloqueado(reserva[t].inicio, reserva[t].fin)
      BY <2>1, <2>5, <2>7 DEF Decision, SigueLibre
    <3>3. Ocupa(reserva[t])
      <4>1. reserva[t].estado \in {"pending", "awaiting_payment", "confirmed"}
        BY <2>1 DEF Decision
      <4> QED
        BY <2>5, <4>1 DEF Ocupa, LIBERAN, SinFila
    <3> HIDE DEF f
    <3> QED
      BY <1>1, <2>6, <3>1, <3>2, <3>3 DEF HayHueco, Admitidas, DescansoEntreTurnos, f
  <2>8. CASE nuevo = OtroHorario
    <3>1. /\ f.inicio = hora /\ f.fin = hora + (reserva[t].fin - reserva[t].inicio)
      BY <2>2, <2>5, <2>8, EscritaFila
    <3>2. reserva[t].admite /\ Disponible(Vencidas, t, hora) /\ hora \in Nat
      BY <2>1, <2>8 DEF Decision
    <3>3. reserva[t].fin = reserva[t].inicio + Duracion /\ reserva[t].origen = "tus"
      BY <1>1, <3>2 DEF Admitidas
    <3>4. f.fin = hora + Duracion
      BY <2>5, <3>1, <3>2, <3>3 DEF Fila, AgendaAssumption
    <3>5. \A u \in Turnos : Ocupa(reserva[u]) => Vencidas[u] = reserva[u]
      BY <1>1, VencidasHereda DEF Ocupa
    <3> HIDE DEF f
    <3>6. HayHueco(reserva, t, f)
      BY <2>6, <3>1, <3>2, <3>3, <3>4, <3>5 DEF HayHueco, Disponible
    <3> QED
      BY <3>6 DEF f
  <2> QED
    BY <2>4, <2>7, <2>8
<1>4. CASE /\ escritura' = escritura /\ reserva' \in [Turnos -> Fila]
           /\ \A u \in Turnos : Deja(u, reserva'[u], pagado')
           /\ \A b \in Bloqueos : bloqueo'[b].activo => bloqueo'[b] = bloqueo[b]
           /\ ahora' \in {ahora, ahora + 1}
  <2> SUFFICES ASSUME NEW e \in escritura,
                      e.nuevo \in {"awaiting_payment", "confirmed", OtroHorario}
               PROVE  HayHueco(reserva, e.turno, Escrita(reserva[e.turno], e))'
    BY <1>4 DEF QuedaLugar
  <2> DEFINE t == e.turno
             f == Escrita(reserva[t], e)
             g == Escrita(reserva'[t], e)
  <2>1. /\ e \in Escrituras /\ t \in Turnos
        /\ reserva[t] \in Fila /\ reserva[t].inicio <= reserva[t].fin
    BY <1>1 DEF Tipos, TypeOK, Rangos, Escrituras
  <2>2. HayHueco(reserva, t, f)
    BY <1>1 DEF QuedaLugar
  <2>3. Deja(t, reserva'[t], pagado') /\ reserva'[t] \in Fila
        /\ reserva'[t].inicio <= reserva'[t].fin
    BY <1>4, <2>1 DEF Deja
  <2>4. /\ g.inicio = f.inicio /\ g.fin = f.fin /\ g.origen = f.origen /\ g.admite = f.admite
        /\ f.estado # "pending"
    <3>1. /\ g.origen = f.origen /\ g.admite = f.admite
          /\ g.inicio = f.inicio /\ g.fin = f.fin
      BY <2>1, <2>3, EscritaFila DEF Deja
    <3>2. CASE e.nuevo # OtroHorario
      <4>1. f.estado = e.nuevo
        BY <2>1, <3>2, EscritaFila
      <4> QED
        BY <3>1, <3>2, <4>1
    <3>3. CASE e.nuevo = OtroHorario
      <4>1. e.leido = "confirmed"
        BY <1>1, <3>3, Destinos DEF EnVuelo, OtroHorario
      <4>2. f.estado = reserva[t].estado /\ reserva[t].estado # "pending"
        BY <1>1, <2>1, <3>3, <4>1, EscritaFila DEF AlDia
      <4> QED
        BY <3>1, <4>2
    <3> QED
      BY <3>2, <3>3
  <2>5. \A i, j : Bloqueado(i, j)' => Bloqueado(i, j)
    BY <1>4 DEF Bloqueado
  <2>6. ASSUME NEW u \in Turnos
        PROVE  /\ reserva'[u].origen = reserva[u].origen
               /\ reserva'[u].inicio = reserva[u].inicio /\ reserva'[u].fin = reserva[u].fin
               /\ Ocupa(reserva[u])' => Ocupa(reserva[u])
    <3>1. Deja(u, reserva'[u], pagado') /\ reserva[u] \in Fila /\ ahora \in Nat
      BY <1>1, <1>4 DEF Tipos, TypeOK
    <3>2. CASE reserva'[u] = reserva[u]
      <4>1. ASSUME Vencida(reserva[u])
            PROVE  Vencida(reserva[u])'
        <5>1. reserva[u].expira \in Nat /\ ahora \in Nat /\ ahora' \in {ahora, ahora + 1}
          BY <1>4, <3>1 DEF Fila
        <5>2. reserva[u].expira <= ahora'
          BY <4>1, <5>1 DEF Vencida
        <5> QED
          BY <3>2, <4>1, <5>2 DEF Vencida
      <4> QED
        BY <3>2, <4>1 DEF Ocupa
    <3>3. CASE reserva'[u] # reserva[u]
      <4>1. Ocupa(reserva[u])
        BY <3>1, <3>3 DEF Deja, Ocupa, Vencida, LIBERAN, ESPERAN, SinFila
      <4> QED
        BY <3>1, <4>1 DEF Deja
    <3> QED
      BY <3>2, <3>3
  <2>7. ASSUME NEW v, v = f, NEW w, w = g
        PROVE  HayHueco(reserva, t, w)'
    <3>1. /\ w.inicio = v.inicio /\ w.fin = v.fin /\ w.origen = v.origen
          /\ w.admite = v.admite /\ v.estado # "pending" /\ HayHueco(reserva, t, v)
      BY <2>2, <2>4, <2>7
    <3> HIDE DEF f, g, t
    <3> QED
      BY <2>5, <2>6, <3>1 DEF HayHueco
  <2> QED
    BY <2>7
<1> QED
  BY <1>1, <1>2, <1>3, <1>4, EscrituraPaso

\* Every step keeps the rest and the blocks.
LEMMA LugarPaso ==
  ASSUME AgendaAssumption, LugarInv, [Next]_vars
  PROVE  LugarInv'
<1> SUFFICES Admitidas' /\ AceptadoNoBloqueado' /\ DescansoEntreTurnos'
  BY AgendaPaso, QuedaLugarPaso DEF LugarInv
<1>0. AgendaInv /\ Tipos /\ QuedaLugar
  BY DEF LugarInv, AgendaInv, Base
<1>1. ASSUME NEW t \in Turnos, Crear(t)
      PROVE  Admitidas' /\ AceptadoNoBloqueado' /\ DescansoEntreTurnos'
  <2>1. bloqueo' = bloqueo /\ ahora' = ahora
    BY <1>1 DEF Crear, SolicitarTurno, AdminReservar, CrearManual, ForzarTurno, SinTocarResto
  <2> QED
    BY <1>0, <1>1, <2>1, CrearUbica, UbicaInv
<1>2. CASE \E t \in Turnos : Cambiar(t)
  <2>1. reserva' = reserva /\ bloqueo' = bloqueo /\ ahora' = ahora
    BY <1>0, <1>2, CambiarDecide DEF Decision, Decide, SinTocarResto
  <2> QED
    BY <2>1, QuietoInv
<1>3. CASE \E t \in Turnos : DeOtros(t)
  BY <1>0, <1>3, OtrosTranquilo, TranquiloInv
<1>4. CASE Escribir
  BY <1>0, <1>4, EscribirLugar, TranquiloInv, UbicaInv
<1>5. CASE \E b \in Bloqueos, r \in RangosBloqueo : Bloquear(b, r[1], r[2])
  BY <1>5, BloquearInv
<1>6. CASE SoloVencer
  <2>1. Tranquilo(reserva') /\ bloqueo' = bloqueo /\ ahora' = ahora
    BY <1>0, <1>6, VencidasTranquilo DEF SoloVencer, SinTocarResto
  <2> QED
    BY <2>1, TranquiloInv
<1>7. CASE \/ Deshacer \/ \E b \in Bloqueos : QuitarBloqueo(b)
           \/ GuardarReprogramacion \/ Tick \/ UNCHANGED vars
  <2>1. reserva' = reserva
    BY <1>7 DEF Deshacer, QuitarBloqueo, GuardarReprogramacion, Tick, vars
  <2>2. \/ bloqueo' = bloqueo /\ ahora' = ahora
        \/ \E b \in Bloqueos : QuitarBloqueo(b)
        \/ Tick
    BY <1>7 DEF Deshacer, GuardarReprogramacion, vars, SinTocarResto
  <2> QED
    BY <2>1, <2>2, QuietoInv
<1> QED
  BY <1>1, <1>2, <1>3, <1>4, <1>5, <1>6, <1>7 DEF Next

\* An empty agenda satisfies all of it.
LEMMA LugarInicio ==
  ASSUME Init
  PROVE  LugarInv
<1>1. \A t \in Turnos : ~Ocupa(reserva[t]) /\ ~reserva[t].admite
  BY DEF Init, FilaVacia, Ocupa, LIBERAN, SinFila
<1>2. QuedaLugar
  BY DEF Init, QuedaLugar
<1> QED
  BY <1>1, <1>2, AgendaInicio DEF LugarInv, Admitidas, AceptadoNoBloqueado, DescansoEntreTurnos

\* Between two turnos booked through TUS there is always the rest of the
\* service, whatever was asked, moved, paid or left to expire, and however old
\* what a write was decided on: no constraint of the database says it.
THEOREM SiempreHayDescanso == Spec => []DescansoEntreTurnos
<1> USE AgendaAssumption
<1>1. LugarInv => DescansoEntreTurnos
  BY DEF LugarInv
<1> QED
  BY <1>1, LugarInicio, LugarPaso, PTL DEF Spec

\* A turno that was accepted and an active block never cover the same time, in
\* whichever order they were stored: only what the administration forces may.
THEOREM LoAceptadoNoSeBloquea == Spec => []AceptadoNoBloqueado
<1> USE AgendaAssumption
<1>1. LugarInv => AceptadoNoBloqueado
  BY DEF LugarInv
<1> QED
  BY <1>1, LugarInicio, LugarPaso, PTL DEF Spec

----------------------------------------------------------------------------
(* The notices: one for what happened, however often it was asked.         *)
(*                                                                         *)
(* The notice of a cancellation and the answer of a request are written    *)
(* with the change of state they tell, and that state is never entered     *)
(* twice: a step says nothing new about a turno (Calla), or it answers it  *)
(* (Responde), or it cancels it (Cancela).                                 *)

Cancelada(r) == r.estado \in {"cancelled", "cancelled-late"} /\ r.cliente # Invitado

SinResponder(r) == r.estado \in {SinFila, "pending"}

Solo(S) == \A a, b \in S : a = b

Avisado(t) ==
  /\ Solo(AvisosDe(t, "turno_cancelado"))
  /\ AvisosDe(t, "turno_cancelado") # {} <=> Cancelada(reserva[t])
  /\ Solo(AvisosDe(t, "solicitud_respondida"))
  /\ SinResponder(reserva[t]) => AvisosDe(t, "solicitud_respondida") = {}
  /\ reserva[t].estado = "awaiting_payment" => AvisosDe(t, "solicitud_respondida") # {}

\* What the row of t becomes when nobody has to be told.
Calla(t, f) ==
  /\ Cancelada(f) <=> Cancelada(reserva[t])
  /\ SinResponder(f) => SinResponder(reserva[t])
  /\ f.estado = "awaiting_payment" => reserva[t].estado = "awaiting_payment"

\* What it becomes when its request is answered, and when it is cancelled.
Responde(t, f) ==
  /\ reserva[t].estado = "pending"
  /\ ~SinResponder(f) /\ ~Cancelada(f)

Cancela(t, f) ==
  /\ reserva[t].estado \in ESPERAN \cup {"confirmed", "completed"}
  /\ Cancelada(f)

\* The notices of a turno after one was written, and after none was.
LEMMA UnAvisoMas ==
  ASSUME NEW t, NEW tipo, NEW tabla, avisos' = avisos \cup {Aviso(t, tipo, tabla)}
  PROVE  /\ AvisosDe(t, tipo)' = AvisosDe(t, tipo) \cup {Aviso(t, tipo, tabla)}
         /\ \A u, k : u # t \/ k # tipo => AvisosDe(u, k)' = AvisosDe(u, k)
<1>1. Aviso(t, tipo, tabla).turno = t /\ Aviso(t, tipo, tabla).tipo = tipo
  BY DEF Aviso
<1>2. AvisosDe(t, tipo)' = AvisosDe(t, tipo) \cup {Aviso(t, tipo, tabla)}
  BY <1>1 DEF AvisosDe
<1>3. ASSUME NEW u, NEW k, u # t \/ k # tipo
      PROVE  AvisosDe(u, k)' = AvisosDe(u, k)
  BY <1>1, <1>3 DEF AvisosDe
<1> QED
  BY <1>2, <1>3

\* A turno nobody has to be told about.
LEMMA CallaAvisado ==
  ASSUME NEW t \in Turnos, Avisado(t), Calla(t, reserva'[t]),
         AvisosDe(t, "turno_cancelado")' = AvisosDe(t, "turno_cancelado"),
         AvisosDe(t, "solicitud_respondida")' = AvisosDe(t, "solicitud_respondida")
  PROVE  Avisado(t)'
<1>1. Cancelada(reserva[t])' <=> Cancelada(reserva[t])
  BY DEF Calla, Cancelada
<1>2. SinResponder(reserva[t])' => SinResponder(reserva[t])
  BY DEF Calla, SinResponder
<1>3. reserva'[t].estado = "awaiting_payment" => reserva[t].estado = "awaiting_payment"
  BY DEF Calla
<1>4. /\ Solo(AvisosDe(t, "turno_cancelado"))' <=> Solo(AvisosDe(t, "turno_cancelado"))
      /\ Solo(AvisosDe(t, "solicitud_respondida"))' <=> Solo(AvisosDe(t, "solicitud_respondida"))
  BY DEF Solo
<1> QED
  BY <1>1, <1>2, <1>3, <1>4 DEF Avisado

\* A request that is answered had no answer.
LEMMA RespondeAvisado ==
  ASSUME NEW t \in Turnos, Avisado(t), Responde(t, reserva'[t]), NEW a,
         AvisosDe(t, "turno_cancelado")' = AvisosDe(t, "turno_cancelado"),
         AvisosDe(t, "solicitud_respondida")' = AvisosDe(t, "solicitud_respondida") \cup {a}
  PROVE  Avisado(t)'
<1>1. AvisosDe(t, "solicitud_respondida") = {}
  BY DEF Avisado, Responde, SinResponder
<1>2. AvisosDe(t, "turno_cancelado") = {}
  BY DEF Avisado, Responde, Cancelada
<1>3. AvisosDe(t, "solicitud_respondida")' = {a} /\ AvisosDe(t, "turno_cancelado")' = {}
  BY <1>1, <1>2
<1>4. ~SinResponder(reserva[t])' /\ ~Cancelada(reserva[t])'
  BY DEF Responde, SinResponder, Cancelada
<1>5. Solo(AvisosDe(t, "turno_cancelado"))' /\ Solo(AvisosDe(t, "solicitud_respondida"))'
  BY <1>3 DEF Solo
<1> QED
  BY <1>3, <1>4, <1>5 DEF Avisado

\* A turno that is cancelled was not.
LEMMA CancelaAvisado ==
  ASSUME NEW t \in Turnos, Avisado(t), Cancela(t, reserva'[t]), NEW a,
         AvisosDe(t, "turno_cancelado")' = AvisosDe(t, "turno_cancelado") \cup {a},
         AvisosDe(t, "solicitud_respondida")' = AvisosDe(t, "solicitud_respondida")
  PROVE  Avisado(t)'
<1>1. AvisosDe(t, "turno_cancelado") = {}
  BY DEF Avisado, Cancela, Cancelada, ESPERAN
<1>2. AvisosDe(t, "turno_cancelado")' = {a}
  BY <1>1
<1>3. Cancelada(reserva[t])' /\ ~SinResponder(reserva[t])'
      /\ reserva'[t].estado # "awaiting_payment"
  BY DEF Cancela, SinResponder, Cancelada, SinFila
<1>4. /\ Solo(AvisosDe(t, "turno_cancelado"))'
      /\ Solo(AvisosDe(t, "solicitud_respondida"))' <=> Solo(AvisosDe(t, "solicitud_respondida"))
  BY <1>2 DEF Solo
<1> QED
  BY <1>2, <1>3, <1>4 DEF Avisado

\* What expires by itself is told nobody.
LEMMA ExpiradasCalla ==
  ASSUME Tipos, NEW s \in SUBSET Turnos, \A u \in s : Vencida(reserva[u])
  PROVE  /\ Expiradas(s) \in [Turnos -> Fila]
         /\ \A u \in Turnos : Calla(u, Expiradas(s)[u])
<1>1. /\ Expiradas(s) \in [Turnos -> Fila]
      /\ \A u \in Turnos : IF u \in s THEN Expiradas(s)[u].estado = "expired"
                           ELSE Expiradas(s)[u] = reserva[u]
  BY ExpiradasHereda DEF PasoQuieto
<1>2. \A u \in s : reserva[u].estado \in {"pending", "awaiting_payment"}
  BY DEF Vencida, ESPERAN
<1> QED
  BY <1>1, <1>2 DEF Calla, Cancelada, SinResponder, SinFila

\* A write of one row that tells nobody, or tells something else.
LEMMA EscribeCallado ==
  ASSUME Tipos, NEW s \in SUBSET Turnos, \A u \in s : Vencida(reserva[u]),
         NEW t \in Turnos, NEW f,
         reserva' = [Expiradas(s) EXCEPT ![t] = f], Calla(t, f),
         \/ avisos' = avisos
         \/ avisos' = avisos \cup {Aviso(t, "solicitud_recibida", reserva')}
         \/ avisos' = avisos \cup {Aviso(t, "turno_reprogramado", reserva')},
         \A u \in Turnos : Avisado(u)
  PROVE  \A u \in Turnos : Avisado(u)'
<1> SUFFICES ASSUME NEW u \in Turnos
             PROVE  Avisado(u)'
  OBVIOUS
<1>1. Calla(u, reserva'[u])
  BY ExpiradasCalla
<1>2. /\ AvisosDe(u, "turno_cancelado")' = AvisosDe(u, "turno_cancelado")
      /\ AvisosDe(u, "solicitud_respondida")' = AvisosDe(u, "solicitud_respondida")
  <2>1. CASE avisos' = avisos
    BY <2>1 DEF AvisosDe
  <2>2. CASE avisos' = avisos \cup {Aviso(t, "solicitud_recibida", reserva')}
    BY <2>2, UnAvisoMas
  <2>3. CASE avisos' = avisos \cup {Aviso(t, "turno_reprogramado", reserva')}
    BY <2>3, UnAvisoMas
  <2> QED
    BY <2>1, <2>2, <2>3
<1> QED
  BY <1>1, <1>2, CallaAvisado

\* A write that answers or cancels one turno, with its notice.
LEMMA EscribeAvisando ==
  ASSUME Tipos, NEW s \in SUBSET Turnos, \A u \in s : Vencida(reserva[u]),
         NEW t \in Turnos, NEW f, NEW tipo,
         reserva' = [Expiradas(s) EXCEPT ![t] = f],
         avisos' = avisos \cup {Aviso(t, tipo, reserva')},
         \/ tipo = "solicitud_respondida" /\ Responde(t, f)
         \/ tipo = "turno_cancelado" /\ Cancela(t, f),
         \A u \in Turnos : Avisado(u)
  PROVE  \A u \in Turnos : Avisado(u)'
<1> SUFFICES ASSUME NEW u \in Turnos
             PROVE  Avisado(u)'
  OBVIOUS
<1>1. /\ reserva'[t] = f
      /\ \A v \in Turnos \ {t} : Calla(v, reserva'[v])
  BY ExpiradasCalla
<1>2. /\ AvisosDe(t, tipo)' = AvisosDe(t, tipo) \cup {Aviso(t, tipo, reserva')}
      /\ \A v, k : v # t \/ k # tipo => AvisosDe(v, k)' = AvisosDe(v, k)
  BY UnAvisoMas
<1>3. CASE u # t
  BY <1>1, <1>2, <1>3, CallaAvisado
<1>4. CASE u = t /\ tipo = "solicitud_respondida"
  BY <1>1, <1>2, <1>4, RespondeAvisado
<1>5. CASE u = t /\ tipo = "turno_cancelado"
  BY <1>1, <1>2, <1>5, CancelaAvisado
<1> QED
  BY <1>3, <1>4, <1>5

\* The write of what was decided: its notice was decided for the state that was
\* read, and it is the notice of what the write does to the row as it is.
LEMMA EscribirAvisa ==
  ASSUME AgendaInv, \A u \in Turnos : Avisado(u), Escribir
  PROVE  \A u \in Turnos : Avisado(u)'
<1>1. Base /\ Tipos
  BY DEF AgendaInv, Base
<1>2. PICK e \in escritura :
        /\ e \in Escrituras
        /\ reserva' = [Expiradas(e.vencidas) EXCEPT ![e.turno] = Escrita(reserva[e.turno], e)]
        /\ avisos' = avisos \cup (IF e.aviso = SinAviso THEN {}
                                  ELSE {Aviso(e.turno, e.aviso, reserva')})
  BY <1>1, EscribirPaso
<1> DEFINE t == e.turno
           f == Escrita(reserva[t], e)
<1>3. /\ t \in Turnos /\ e.vencidas \in SUBSET Turnos /\ reserva[t] \in Fila
      /\ reserva[t].inicio <= reserva[t].fin
      /\ \A u \in e.vencidas : Vencida(reserva[u])
  BY <1>1, <1>2 DEF Escrituras, Tipos, TypeOK, Rangos, Base, EnVuelo
<1>4. /\ f.estado = IF e.nuevo = OtroHorario THEN reserva[t].estado ELSE e.nuevo
      /\ f.cliente = reserva[t].cliente
  BY <1>2, <1>3, EscritaFila
<1>5. AvisoDebido(e) /\ (e.leido = "pending" => reserva[t].estado = "pending")
  BY <1>2 DEF AgendaInv, AlDia
<1>6. /\ reserva[t].estado \in ESPERAN \cup {"confirmed", "completed"}
      /\ e.nuevo \notin {"pending", SinFila}
      /\ e.nuevo = OtroHorario => reserva[t].estado \in {"confirmed", "completed"}
  BY <1>2, Destinos DEF AgendaInv, AlDia, Base, EnVuelo, ESPERAN, OtroHorario, SinFila
<1>7. CASE e.aviso = "solicitud_respondida"
  <2>1. e.leido = "pending" /\ e.nuevo \in {"rejected", "awaiting_payment", "confirmed"}
    BY <1>5, <1>7 DEF AvisoDebido, SinAviso
  <2>2. Responde(t, f)
    BY <1>4, <1>5, <2>1 DEF Responde, Cancelada, SinResponder, SinFila, OtroHorario
  <2>3. avisos' = avisos \cup {Aviso(t, "solicitud_respondida", reserva')}
    BY <1>2, <1>7 DEF SinAviso
  <2> HIDE DEF f, t
  <2> QED
    BY <1>1, <1>2, <1>3, <2>2, <2>3, EscribeAvisando DEF t, f
<1>8. CASE e.aviso = "turno_cancelado"
  <2>1. e.nuevo \in {"cancelled", "cancelled-late"} /\ reserva[t].cliente # Invitado
    BY <1>5, <1>8 DEF AvisoDebido, SinAviso
  <2>2. Cancela(t, f)
    BY <1>4, <1>6, <2>1 DEF Cancela, Cancelada, OtroHorario
  <2>3. avisos' = avisos \cup {Aviso(t, "turno_cancelado", reserva')}
    BY <1>2, <1>8 DEF SinAviso
  <2> HIDE DEF f, t
  <2> QED
    BY <1>1, <1>2, <1>3, <2>2, <2>3, EscribeAvisando DEF t, f
<1>9. CASE e.aviso \in {SinAviso, "turno_reprogramado"}
  <2>1. /\ e.nuevo # "awaiting_payment"
        /\ e.nuevo \in {"cancelled", "cancelled-late"} => reserva[t].cliente = Invitado
    BY <1>5, <1>9 DEF AvisoDebido, SinAviso
  <2>2. Calla(t, f)
    BY <1>4, <1>6, <2>1 DEF Calla, Cancelada, SinResponder, SinFila, ESPERAN
  <2>3. \/ avisos' = avisos
        \/ avisos' = avisos \cup {Aviso(t, "turno_reprogramado", reserva')}
    BY <1>2, <1>9
  <2> HIDE DEF f, t
  <2> QED
    BY <1>1, <1>2, <1>3, <2>2, <2>3, EscribeCallado DEF t, f
<1> QED
  BY <1>5, <1>7, <1>8, <1>9 DEF AvisoDebido

\* A new turno was neither answered nor cancelled.
LEMMA CrearAvisa ==
  ASSUME Tipos, NEW t \in Turnos, Crear(t), \A u \in Turnos : Avisado(u)
  PROVE  \A u \in Turnos : Avisado(u)'
<1> DEFINE Nueva(e, i, f, x, c, o, a, s) ==
             [estado |-> e, inicio |-> i, fin |-> f, expira |-> x, cliente |-> c,
              origen |-> o, admite |-> a, conSena |-> s, version |-> 1]
<1>1. ASSUME NEW c, NEW i, NEW s, SolicitarTurno(t, c, i, s)
      PROVE  \E f : /\ f.estado = "pending" /\ Vencidas[t].estado = SinFila
                    /\ reserva' = [Vencidas EXCEPT ![t] = f]
                    /\ avisos' = avisos \cup {Aviso(t, "solicitud_recibida", reserva')}
  <2> DEFINE f == Nueva("pending", i, i + Duracion, Menor(ahora + VigenciaSolicitud, i),
                        c, "tus", permite, s)
  <2> WITNESS f
  <2> QED
    BY <1>1 DEF SolicitarTurno
<1>2. ASSUME NEW c, NEW i, AdminReservar(t, c, i)
      PROVE  \E f : /\ f.estado = "confirmed" /\ Vencidas[t].estado = SinFila
                    /\ reserva' = [Vencidas EXCEPT ![t] = f] /\ avisos' = avisos
  <2> DEFINE f == Nueva("confirmed", i, i + Duracion, 0, c, "tus", permite, FALSE)
  <2> WITNESS f
  <2> QED
    BY <1>2 DEF AdminReservar
<1>3. ASSUME NEW c, NEW i, NEW g, CrearManual(t, c, i, g)
      PROVE  \E f : /\ f.estado = "confirmed" /\ Vencidas[t].estado = SinFila
                    /\ reserva' = [Vencidas EXCEPT ![t] = f] /\ avisos' = avisos
  <2> DEFINE f == Nueva("confirmed", i, g, 0, c, "manual", FALSE, FALSE)
  <2> WITNESS f
  <2> QED
    BY <1>3 DEF CrearManual
<1>4. ASSUME NEW c, NEW i, NEW g, ForzarTurno(t, c, i, g)
      PROVE  \E f : /\ f.estado = "confirmed" /\ Vencidas[t].estado = SinFila
                    /\ reserva' = [Vencidas EXCEPT ![t] = f] /\ avisos' = avisos
  <2> DEFINE f == Nueva("confirmed", i, g, 0, c, "forzado", FALSE, FALSE)
  <2> WITNESS f
  <2> QED
    BY <1>4 DEF ForzarTurno
<1>5. PICK f : /\ f.estado \in {"pending", "confirmed"} /\ Vencidas[t].estado = SinFila
               /\ reserva' = [Vencidas EXCEPT ![t] = f]
               /\ \/ avisos' = avisos
                  \/ avisos' = avisos \cup {Aviso(t, "solicitud_recibida", reserva')}
  BY <1>1, <1>2, <1>3, <1>4 DEF Crear
<1>6. reserva[t].estado = SinFila
  BY <1>5, VencidasViva DEF SinFila
<1>7. Calla(t, f)
  BY <1>5, <1>6 DEF Calla, Cancelada, SinResponder, SinFila
<1>8. /\ Vencidas = Expiradas(PorVencer) /\ PorVencer \in SUBSET Turnos
      /\ \A u \in PorVencer : Vencida(reserva[u])
  BY DEF Vencidas, PorVencer
<1> QED
  BY <1>5, <1>7, <1>8, EscribeCallado

\* What other domains write answers and cancels nothing.
LEMMA OtrosAvisan ==
  ASSUME Tipos, NEW t \in Turnos, DeOtros(t), \A u \in Turnos : Avisado(u)
  PROVE  \A u \in Turnos : Avisado(u)'
<1>1. /\ \A u \in Turnos : AvisosDe(u, "turno_cancelado")' = AvisosDe(u, "turno_cancelado")
      /\ \A u \in Turnos :
           AvisosDe(u, "solicitud_respondida")' = AvisosDe(u, "solicitud_respondida")
  <2>1. CASE avisos' = avisos
    BY <2>1 DEF AvisosDe
  <2>2. CASE avisos' = avisos \cup {Aviso(t, "turno_confirmado", reserva)}
    BY <2>2, UnAvisoMas
  <2> QED
    BY <2>1, <2>2 DEF DeOtros, AbrirCheckout, PagoAprobado, AvisarConfirmacion,
       FinalizarLee, FinalizarCrea, CompletarReserva
<1>2. \A u \in Turnos : Calla(u, reserva'[u])
  BY OtrosDejan DEF Deja, Calla, Cancelada, SinResponder, SinFila
<1> QED
  BY <1>1, <1>2, CallaAvisado

\* Every step of the agenda, and what is told of it.
LEMMA AvisadoPaso ==
  ASSUME AgendaAssumption, AgendaInv, \A u \in Turnos : Avisado(u), [Next]_vars
  PROVE  \A u \in Turnos : Avisado(u)'
<1>0. Tipos
  BY DEF AgendaInv, Base
<1>1. CASE \E t \in Turnos : Crear(t) \/ DeOtros(t)
  BY <1>0, <1>1, CrearAvisa, OtrosAvisan
<1>2. CASE Escribir
  BY <1>2, EscribirAvisa
<1>3. CASE reserva' = Vencidas /\ avisos' = avisos
  <2>1. /\ Vencidas = Expiradas(PorVencer) /\ PorVencer \in SUBSET Turnos
        /\ \A u \in PorVencer : Vencida(reserva[u])
    BY DEF Vencidas, PorVencer
  <2>2. \A u \in Turnos : Calla(u, reserva'[u])
    BY <1>0, <1>3, <2>1, ExpiradasCalla
  <2> QED
    BY <1>3, <2>2, CallaAvisado DEF AvisosDe
<1>4. CASE reserva' = reserva /\ avisos' = avisos
  BY <1>4, CallaAvisado DEF AvisosDe, Calla
<1>5. ASSUME NEW t \in Turnos, Cambiar(t)
      PROVE  reserva' = reserva /\ avisos' = avisos
  BY <1>0, <1>5, CambiarDecide DEF Decision, Decide
<1> QED
  BY <1>1, <1>2, <1>3, <1>4, <1>5 DEF Next, Deshacer, QuitarBloqueo, Bloquear, SoloVencer,
     GuardarReprogramacion, Tick, vars

\* How many notices a turno has, when all of one kind are the same.
LEMMA CuantosAvisos ==
  ASSUME NEW S, Solo(S)
  PROVE  Cardinality(S) = IF S = {} THEN 0 ELSE 1
<1>1. CASE S = {}
  BY <1>1, FS_EmptySet
<1>2. CASE S # {}
  <2>1. PICK a \in S : S = {a}
    BY <1>2 DEF Solo
  <2> QED
    BY <2>1, FS_Singleton
<1> QED
  BY <1>1, <1>2

\* A turno that ended cancelled has exactly one notice of it, a guest none, and
\* an answered request exactly one answer: however often it was asked, by its
\* client, its provider or the administration, in any order.
THEOREM CadaSucesoSeAvisaUnaVez == Spec => []UnAvisoPorSuceso
<1> USE AgendaAssumption
<1> DEFINE IInv == AgendaInv /\ \A u \in Turnos : Avisado(u)
<1>1. Init => IInv
  <2>1. ASSUME Init, NEW t \in Turnos
        PROVE  Avisado(t)
    BY <2>1 DEF Init, Avisado, AvisosDe, Solo, Cancelada, SinResponder, FilaVacia, SinFila
  <2> QED
    BY <2>1, AgendaInicio
<1>2. IInv /\ [Next]_vars => IInv'
  BY AgendaPaso, AvisadoPaso
<1>3. IInv => UnAvisoPorSuceso
  <2> SUFFICES ASSUME IInv, NEW t \in Turnos
               PROVE  /\ Cardinality(AvisosDe(t, "turno_cancelado")) =
                          IF Cancelada(reserva[t]) THEN 1 ELSE 0
                      /\ Cardinality(AvisosDe(t, "solicitud_respondida")) <= 1
                      /\ reserva[t].estado = "awaiting_payment" =>
                           Cardinality(AvisosDe(t, "solicitud_respondida")) = 1
    BY DEF UnAvisoPorSuceso, Cancelada
  <2>1. Avisado(t)
    OBVIOUS
  <2>2. Cardinality(AvisosDe(t, "turno_cancelado")) =
          IF AvisosDe(t, "turno_cancelado") = {} THEN 0 ELSE 1
    BY <2>1, CuantosAvisos DEF Avisado
  <2>3. Cardinality(AvisosDe(t, "solicitud_respondida")) =
          IF AvisosDe(t, "solicitud_respondida") = {} THEN 0 ELSE 1
    BY <2>1, CuantosAvisos DEF Avisado
  <2> QED
    BY <2>1, <2>2, <2>3 DEF Avisado
<1> QED
  BY <1>1, <1>2, <1>3, PTL DEF Spec

----------------------------------------------------------------------------
(* The two doors.                                                          *)
(*                                                                         *)
(* The marketplace writes the same table without the row of the calendar,  *)
(* on what its transaction read before.  Its writes too make rows advance  *)
(* or add one that the constraint accepted, because of what is looked at   *)
(* again when they are made: the state of the rows they update, and the    *)
(* constraint.  What the agenda decided looks at nothing again: here its   *)
(* write may land on anything (Pisa), and only what EnVuelo says of it is  *)
(* known.  (Nobody looks again at the rest between turnos or at the        *)
(* blocks: those are theorems of the agenda alone.)                        *)

TxTipos ==
  \/ tx = SinTx
  \/ tx \in [op : {"reservar"}, turno : Turnos, cliente : Clientes, inicio : Inicios,
             leido : Nat, vencidas : SUBSET Turnos]
  \/ tx \in [op : {"aceptar"}, turno : Turnos]

TiposMercado ==
  /\ Base
  /\ trabajo \in [Turnos -> {"no", "activo", "cancelado"}]
  /\ TxTipos

\* What is booked through the marketplace has no deposit.
DelMercado ==
  \A t \in Turnos :
    reserva[t].origen = "mercado" => ~reserva[t].conSena /\ reserva[t].estado # SinFila

\* A reservation with a work does not wait any more, and it came through the
\* marketplace, as the one that is being accepted did.
Enlazados ==
  /\ \A t \in Turnos :
       trabajo[t] # "no" =>
         /\ reserva[t].origen = "mercado"
         /\ reserva[t].estado \notin {SinFila, "pending", "awaiting_payment"}
  /\ tx.op = "aceptar" => reserva[tx.turno].origen = "mercado"

\* One row changes state outside the lock, and the others stay.
LEMMA PasarSinLlave ==
  ASSUME Tipos, NEW t \in Turnos, NEW e \in ESTADOS \ {"pending", "awaiting_payment"},
         reserva[t].estado \in ESPERAN \cup {"confirmed"}
  PROVE  PasoSinFila(Pasar(reserva, t, e)) /\ Pasar(reserva, t, e)[t].estado = e
<1> DEFINE f == Cambiada(reserva[t], e)
<1>1. reserva \in [Turnos -> Fila] /\ reserva[t] \in Fila
  BY DEF Tipos, TypeOK
<1>2. f \in Fila /\ f.estado = e /\ Avanza(t, f)
  BY <1>1, CambiadaFila DEF Avanza
<1> HIDE DEF f
<1> DEFINE nueva == [reserva EXCEPT ![t] = f]
<1>3. nueva \in [Turnos -> Fila] /\ nueva[t] = f /\ \A u \in Turnos \ {t} : nueva[u] = reserva[u]
  BY <1>1, <1>2
<1> HIDE DEF nueva
<1>4. PasoSinFila(nueva) /\ nueva[t].estado = e
  BY <1>2, <1>3 DEF PasoSinFila, Avanza
<1> QED
  BY <1>4 DEF nueva, f, Pasar

\* The rows a booking expires as it is written still waited when it is written,
\* and the row it adds satisfies the constraint against all of them.
LEMMA ReservarPaso ==
  ASSUME AgendaAssumption, TiposMercado, ReservarEscribe
  PROVE  \E t \in Turnos : PasoConFila(t, reserva')
<1> DEFINE t == tx.turno
           i == tx.inicio
           tabla == [u \in Turnos |-> IF u \in tx.vencidas
                                      THEN Cambiada(reserva[u], "expired") ELSE reserva[u]]
           f == [estado |-> "pending", inicio |-> i, fin |-> i + Duracion,
                 expira |-> Menor(tx.leido + VigenciaSolicitud, i),
                 cliente |-> tx.cliente, origen |-> "mercado", admite |-> FALSE,
                 conSena |-> FALSE, version |-> 1]
<1>1. /\ t \in Turnos /\ i \in Inicios /\ tx.cliente \in Clientes /\ tx.leido \in Nat
      /\ tx.vencidas \subseteq Turnos
  BY DEF ReservarEscribe, TiposMercado, TxTipos, SinTx
<1>2. /\ \A u \in tx.vencidas : reserva[u].estado \in ESPERAN
      /\ reserva[t].estado = SinFila
      /\ SinChoque(tabla, t, i, i + Duracion)
      /\ reserva' = [tabla EXCEPT ![t] = f]
  BY DEF ReservarEscribe
<1>3. ASSUME NEW u \in Turnos
      PROVE  tabla[u] \in Fila /\ Avanza(u, tabla[u])
  <2>1. reserva[u] \in Fila
    BY DEF TiposMercado, Base, Tipos, TypeOK
  <2>2. CASE u \in tx.vencidas
    <3>1. tabla[u] = Cambiada(reserva[u], "expired") /\ "expired" \in ESTADOS
      BY <2>2 DEF ESTADOS
    <3> QED
      BY <1>2, <2>1, <2>2, <3>1, CambiadaFila DEF Avanza, ESPERAN
  <2>3. CASE u \notin tx.vencidas
    BY <2>1, <2>3 DEF Avanza
  <2> QED
    BY <2>2, <2>3
<1>4. tabla \in [Turnos -> Fila]
  BY <1>3
<1>5. i \in Nat /\ i + Duracion \in Nat /\ i <= i + Duracion
      /\ Menor(tx.leido + VigenciaSolicitud, i) \in Nat
  <2>1. i \in Nat /\ Duracion \in Nat /\ VigenciaSolicitud \in Nat
    BY <1>1 DEF AgendaAssumption
  <2> HIDE DEF i
  <2> QED
    BY <1>1, <2>1 DEF Menor
<1>6. /\ f \in Fila /\ f.inicio = i /\ f.fin = i + Duracion /\ f.estado = "pending"
      /\ ~f.conSena
  BY <1>1, <1>5 DEF Fila, ESTADOS
<1> HIDE DEF f, tabla, t, i
<1>7. /\ reserva' \in [Turnos -> Fila] /\ reserva'[t] = f
      /\ \A u \in Turnos \ {t} : reserva'[u] = tabla[u]
  BY <1>1, <1>2, <1>4, <1>6
<1>8. SinChoque(reserva', t, f.inicio, f.fin)
  BY <1>2, <1>6, <1>7 DEF SinChoque
<1>9. PasoConFila(t, reserva')
  BY <1>2, <1>3, <1>5, <1>6, <1>7, <1>8 DEF PasoConFila
<1> QED
  BY <1>1, <1>9

\* Withdrawing, turning down and marking absent through the marketplace.
LEMMA RetirarPaso ==
  ASSUME Tipos, NEW t \in Turnos,
         \/ \E esPrestador, tarde \in BOOLEAN : CancelarReserva(t, esPrestador, tarde)
         \/ MarcarAusente(t)
  PROVE  PasoSinFila(reserva')
<1>1. ASSUME NEW esPrestador \in BOOLEAN, NEW tarde \in BOOLEAN,
             CancelarReserva(t, esPrestador, tarde)
      PROVE  PasoSinFila(reserva')
  <2> DEFINE e == IF reserva[t].estado \in ESPERAN
                  THEN IF esPrestador THEN "rejected" ELSE "cancelled"
                  ELSE IF tarde THEN "cancelled-late" ELSE "cancelled"
  <2>1. reserva' = Pasar(reserva, t, e) /\ reserva[t].estado \in ESPERAN \cup {"confirmed"}
    BY <1>1 DEF CancelarReserva
  <2>2. e \in ESTADOS \ {"pending", "awaiting_payment"}
    BY DEF ESTADOS
  <2> HIDE DEF e
  <2> QED
    BY <2>1, <2>2, PasarSinLlave
<1>2. CASE MarcarAusente(t)
  BY <1>2, PasarSinLlave DEF MarcarAusente, ESTADOS
<1> QED
  BY <1>1, <1>2

\* The steps that change the work of a reservation, and only those.
LEMMA TrabajoPaso ==
  ASSUME Tipos, TxTipos, NEW t \in Turnos,
         \/ AceptarTrabajoEscribe /\ t = tx.turno
         \/ AceptarTrabajoDeConfirmada(t)
         \/ CancelarTrabajo(t)
  PROVE  /\ PasoSinFila(reserva')
         /\ \/ /\ trabajo' = [trabajo EXCEPT ![t] = "activo"]
               /\ reserva'[t].estado = "confirmed"
            \/ /\ trabajo' = [trabajo EXCEPT ![t] = "cancelado"]
               /\ trabajo[t] = "activo"
               /\ reserva'[t].estado # "confirmed"
               /\ reserva'[t].estado \in {reserva[t].estado, "cancelled"}
<1>1. reserva \in [Turnos -> Fila]
  BY DEF Tipos, TypeOK
<1>2. reserva' = reserva => PasoSinFila(reserva')
  BY <1>1 DEF PasoSinFila, Avanza
<1>3. CASE AceptarTrabajoEscribe /\ t = tx.turno
  <2>1. /\ reserva' = Pasar(reserva, t, "confirmed") /\ reserva[t].estado = "pending"
        /\ trabajo' = [trabajo EXCEPT ![t] = "activo"]
    BY <1>3 DEF AceptarTrabajoEscribe, SigueComoSeLeyo
  <2> QED
    BY <2>1, PasarSinLlave DEF ESTADOS, ESPERAN
<1>4. CASE AceptarTrabajoDeConfirmada(t)
  BY <1>2, <1>4 DEF AceptarTrabajoDeConfirmada, vars
<1>5. CASE CancelarTrabajo(t)
  <2>1. CASE reserva[t].estado = "confirmed"
    BY <1>5, <2>1, PasarSinLlave DEF CancelarTrabajo, ESTADOS
  <2>2. CASE reserva[t].estado # "confirmed"
    BY <1>2, <1>5, <2>2 DEF CancelarTrabajo
  <2> QED
    BY <1>5, <2>1, <2>2 DEF CancelarTrabajo
<1> QED
  BY <1>3, <1>4, <1>5

\* Whatever the door, a step makes rows advance or adds one.
LEMMA PasoMercado ==
  ASSUME AgendaAssumption, TiposMercado, [NextMercado]_varsMercado
  PROVE  PasoSinFila(reserva') \/ \E t \in Turnos : PasoConFila(t, reserva')
<1>1. Tipos /\ TxTipos /\ reserva \in [Turnos -> Fila]
  BY DEF TiposMercado, Base, Tipos, TypeOK
<1>2. CASE [Next]_vars
  BY <1>2, PasosAvanzan DEF TiposMercado
<1>3. CASE AceptarTrabajoEscribe
  <2>1. tx.turno \in Turnos
    BY <1>1, <1>3 DEF AceptarTrabajoEscribe, TxTipos, SinTx
  <2> QED
    BY <1>1, <1>3, <2>1, TrabajoPaso
<1>4. CASE \E t \in Turnos : AceptarTrabajoDeConfirmada(t) \/ CancelarTrabajo(t)
  BY <1>1, <1>4, TrabajoPaso
<1>5. CASE \E t \in Turnos : \/ \E esPrestador, tarde \in BOOLEAN : CancelarReserva(t, esPrestador, tarde)
                             \/ MarcarAusente(t)
  BY <1>1, <1>5, RetirarPaso
<1>6. CASE \/ \E t \in Turnos, c \in Clientes, i \in Inicios : ReservarLee(t, c, i)
           \/ \E t \in Turnos : AceptarTrabajoLee(t)
           \/ Abortar
           \/ UNCHANGED varsMercado
  <2>1. UNCHANGED vars
    BY <1>6 DEF ReservarLee, AceptarTrabajoLee, Abortar, varsMercado
  <2> QED
    BY <1>2, <2>1
<1> QED
  BY <1>2, <1>3, <1>4, <1>5, <1>6, ReservarPaso DEF NextMercado

\* The rows the agenda has taken to expire them wait for it.
LEMMA TomadasQuedan ==
  ASSUME AgendaAssumption, TiposMercado, NEW u \in Turnos, u \in Tomadas,
         \/ ReservarEscribe \/ AceptarTrabajoEscribe
         \/ \E t \in Turnos : \/ \E esPrestador, tarde \in BOOLEAN :
                                   CancelarReserva(t, esPrestador, tarde)
                              \/ MarcarAusente(t) \/ CancelarTrabajo(t)
  PROVE  reserva'[u] = reserva[u]
<1>1. reserva \in [Turnos -> Fila]
  BY DEF TiposMercado, Base, Tipos, TypeOK
<1>2. reserva[u].estado \in ESPERAN
  BY DEF TiposMercado, Base, EnVuelo, Tomadas, Vencida
<1>3. ASSUME NEW t \in Turnos, NEW e, u # t
      PROVE  Pasar(reserva, t, e)[u] = reserva[u]
  BY <1>1, <1>3 DEF Pasar
<1>4. CASE ReservarEscribe
  <2>1. u # tx.turno /\ u \notin tx.vencidas
    BY <1>2, <1>4 DEF ReservarEscribe, ESPERAN, SinFila
  <2> QED
    BY <1>4, <2>1 DEF ReservarEscribe
<1>5. CASE AceptarTrabajoEscribe
  <2>1. tx.turno \in Turnos
    BY <1>5 DEF AceptarTrabajoEscribe, TiposMercado, TxTipos, SinTx
  <2> QED
    BY <1>3, <1>5, <2>1 DEF AceptarTrabajoEscribe
<1>6. CASE \E t \in Turnos, esPrestador, tarde \in BOOLEAN : CancelarReserva(t, esPrestador, tarde)
  BY <1>3, <1>6 DEF CancelarReserva
<1>7. CASE \E t \in Turnos : MarcarAusente(t) \/ CancelarTrabajo(t)
  BY <1>2, <1>3, <1>7 DEF MarcarAusente, CancelarTrabajo, ESPERAN
<1> QED
  BY <1>4, <1>5, <1>6, <1>7

\* A write of the marketplace leaves what the agenda is about to write as it was
\* decided, and its row there.
LEMMA MercadoBase ==
  ASSUME AgendaAssumption, TiposMercado,
         PasoSinFila(reserva') \/ \E t \in Turnos : PasoConFila(t, reserva'),
         UNCHANGED <<bloqueo, avisos, escritura>>, SinTocarResto,
         \A u \in Tomadas : reserva'[u] = reserva[u]
  PROVE  Base'
<1>1. Tipos /\ EnVuelo
  BY DEF TiposMercado, Base
<1>2. \/ \A u \in Turnos : Avanza(u, reserva'[u])
      \/ \E t \in Turnos :
           /\ \A u \in Turnos \ {t} : Avanza(u, reserva'[u])
           /\ reserva'[t].inicio <= reserva'[t].fin
           /\ reserva[t].estado = SinFila \/ Pisa(t, reserva'[t])
  BY DEF PasoSinFila, PasoConFila
<1>3. reserva' \in [Turnos -> Fila] /\ \A t \in Turnos : reserva'[t].inicio <= reserva'[t].fin
  BY <1>1, <1>2 DEF PasoSinFila, PasoConFila, Avanza, Tipos, Rangos
<1>4. Tipos'
  BY <1>1, <1>3 DEF SinTocarResto, Tipos, TypeOK, Rangos
<1>5. ASSUME NEW e \in escritura
      PROVE  /\ reserva'[e.turno].estado # SinFila
             /\ reserva'[e.turno].conSena = reserva[e.turno].conSena
  <2>1. e.turno \in Turnos /\ reserva[e.turno].estado # SinFila
        /\ \A f \in escritura : f.nuevo \in ESTADOS \cup {OtroHorario}
    BY <1>1 DEF Tipos, TypeOK, Escrituras, EnVuelo
  <2>2. Avanza(e.turno, reserva'[e.turno]) \/ Pisa(e.turno, reserva'[e.turno])
    BY <1>2, <2>1
  <2> QED
    BY <2>1, <2>2 DEF Avanza, Pisa, ESTADOS, SinFila, OtroHorario
<1>6. \A e \in escritura : \A u \in e.vencidas : Vencida(reserva[u])'
  BY <1>1 DEF EnVuelo, Tomadas, Vencida, SinTocarResto
<1>7. EnVuelo'
  BY <1>1, <1>5, <1>6 DEF EnVuelo
<1> QED
  BY <1>4, <1>7 DEF Base

\* What each write of the marketplace leaves alone, and the types of its own.
LEMMA TiposMercadoPaso ==
  ASSUME AgendaAssumption, TiposMercado, [NextMercado]_varsMercado
  PROVE  TiposMercado'
<1>1. Base /\ TxTipos /\ ahora \in Nat /\ trabajo \in [Turnos -> {"no", "activo", "cancelado"}]
  BY DEF TiposMercado, Base, Tipos, TypeOK
<1>2. CASE [Next]_vars /\ trabajo' = trabajo /\ tx' = tx
  <2>1. Base'
    BY <1>1, <1>2, BasePaso
  <2> QED
    BY <1>1, <1>2, <2>1 DEF TiposMercado, TxTipos, SinTx
<1>3. ASSUME UNCHANGED vars
      PROVE  Base'
  BY <1>1, <1>3, BasePaso
<1>4. ASSUME NEW t \in Turnos, NEW c \in Clientes, NEW i \in Inicios, ReservarLee(t, c, i)
      PROVE  TiposMercado'
  <2>1. /\ tx' = [op |-> "reservar", turno |-> t, cliente |-> c, inicio |-> i, leido |-> ahora,
                  vencidas |-> {u \in Turnos : Vencida(reserva[u])}]
        /\ UNCHANGED <<vars, trabajo>>
    BY <1>4 DEF ReservarLee
  <2>2. TxTipos'
    BY <1>1, <2>1 DEF TxTipos
  <2>3. Base'
    BY <1>3, <2>1
  <2> QED
    BY <1>1, <2>1, <2>2, <2>3 DEF TiposMercado
<1>5. ASSUME NEW t \in Turnos, AceptarTrabajoLee(t)
      PROVE  TiposMercado'
  <2>1. tx' = [op |-> "aceptar", turno |-> t] /\ UNCHANGED <<vars, trabajo>>
    BY <1>5 DEF AceptarTrabajoLee
  <2>2. TxTipos'
    BY <2>1 DEF TxTipos
  <2>3. Base'
    BY <1>3, <2>1
  <2> QED
    BY <1>1, <2>1, <2>2, <2>3 DEF TiposMercado
<1>6. CASE ReservarEscribe \/ AceptarTrabajoEscribe
  <2>1. Base'
    <3>1. \A u \in Tomadas : u \in Turnos
      BY <1>1 DEF Tomadas, Base, Tipos, TypeOK, Escrituras
    <3>2. \A u \in Tomadas : reserva'[u] = reserva[u]
      BY <1>6, <3>1, TomadasQuedan
    <3> QED
      BY <1>6, <3>2, PasoMercado, MercadoBase DEF ReservarEscribe, AceptarTrabajoEscribe, NextMercado
  <2>2. tx' = SinTx
    BY <1>6 DEF ReservarEscribe, AceptarTrabajoEscribe
  <2>3. TxTipos'
    BY <2>2 DEF TxTipos, SinTx
  <2>4. trabajo' \in [Turnos -> {"no", "activo", "cancelado"}]
    BY <1>1, <1>6 DEF ReservarEscribe, AceptarTrabajoEscribe
  <2> QED
    BY <2>1, <2>3, <2>4 DEF TiposMercado
<1>7. CASE Abortar
  <2>1. tx' = SinTx /\ UNCHANGED <<vars, trabajo>>
    BY <1>7 DEF Abortar
  <2>2. TxTipos'
    BY <2>1 DEF TxTipos, SinTx
  <2>3. Base'
    BY <1>3, <2>1
  <2> QED
    BY <1>1, <2>1, <2>2, <2>3 DEF TiposMercado
<1>8. CASE \E t \in Turnos : \/ CancelarTrabajo(t) \/ MarcarAusente(t)
                             \/ \E esPrestador, tarde \in BOOLEAN :
                                  CancelarReserva(t, esPrestador, tarde)
  <2>1. /\ UNCHANGED <<bloqueo, avisos, escritura>> /\ SinTocarResto /\ tx' = tx
        /\ trabajo' \in [Turnos -> {"no", "activo", "cancelado"}]
    BY <1>1, <1>8 DEF CancelarTrabajo, MarcarAusente, CancelarReserva, SinTocarResto
  <2>2. \A u \in Tomadas : u \in Turnos
    BY <1>1 DEF Tomadas, Base, Tipos, TypeOK, Escrituras
  <2>3. \A u \in Tomadas : reserva'[u] = reserva[u]
    BY <1>8, <2>2, TomadasQuedan
  <2>4. PasoSinFila(reserva')
    BY <1>1, <1>8, TrabajoPaso, RetirarPaso DEF Base
  <2>5. Base'
    BY <2>1, <2>3, <2>4, MercadoBase
  <2> QED
    BY <1>1, <2>1, <2>5 DEF TiposMercado, TxTipos, SinTx
<1>9. CASE \E t \in Turnos : AceptarTrabajoDeConfirmada(t)
  <2>1. /\ UNCHANGED <<vars, tx>> /\ trabajo' \in [Turnos -> {"no", "activo", "cancelado"}]
    BY <1>1, <1>9 DEF AceptarTrabajoDeConfirmada
  <2> QED
    BY <1>1, <1>3, <2>1 DEF TiposMercado, TxTipos, SinTx
<1> QED
  BY <1>2, <1>4, <1>5, <1>6, <1>7, <1>8, <1>9 DEF NextMercado, varsMercado

\* How a step of either door changes one row that is there.
LEMMA FilaMercado ==
  ASSUME AgendaAssumption, TiposMercado, [NextMercado]_varsMercado,
         NEW t \in Turnos, reserva[t].estado # SinFila
  PROVE  /\ reserva'[t].conSena = reserva[t].conSena
         /\ reserva'[t].origen = reserva[t].origen
         /\ \/ reserva'[t].estado = reserva[t].estado
            \/ /\ reserva[t].estado \in ESPERAN \cup {"confirmed"}
               /\ reserva'[t].estado \in ESTADOS \ {"pending"}
               /\ reserva[t].estado = "confirmed" => reserva'[t].estado # "awaiting_payment"
            \/ \E e \in escritura :
                 /\ e.turno = t /\ reserva'[t].estado = e.nuevo /\ e.nuevo # OtroHorario
                 /\ e.nuevo \in TRANSICIONES[e.leido]
                 /\ e.nuevo \in ESTADOS \ {"pending"}
                 /\ e.nuevo = "awaiting_payment" => reserva[t].conSena
                 /\ e.nuevo = "confirmed" => e.leido = "pending"
<1>1. Avanza(t, reserva'[t]) \/ Pisa(t, reserva'[t])
  BY PasoMercado DEF PasoSinFila, PasoConFila
<1>2. CASE Avanza(t, reserva'[t])
  BY <1>2 DEF Avanza
<1>3. CASE Pisa(t, reserva'[t])
  <2>1. PICK e \in escritura :
          /\ e.turno = t
          /\ reserva'[t].conSena = reserva[t].conSena
          /\ reserva'[t].origen = reserva[t].origen
          /\ reserva'[t].estado = IF e.nuevo = OtroHorario THEN reserva[t].estado ELSE e.nuevo
    BY <1>3 DEF Pisa
  <2>2. e.nuevo \in ESTADOS \cup {OtroHorario}
    BY DEF TiposMercado, Base, Tipos, TypeOK, Escrituras
  <2>3. CASE e.nuevo = OtroHorario
    BY <2>1, <2>3
  <2>4. CASE e.nuevo # OtroHorario
    <3>1. /\ e.nuevo \in TRANSICIONES[e.leido] /\ e.nuevo # "pending"
          /\ e.nuevo = "awaiting_payment" => reserva[t].conSena
          /\ e.nuevo = "confirmed" => e.leido = "pending"
      BY <2>1, <2>4, Destinos DEF TiposMercado, Base, EnVuelo
    <3> QED
      BY <2>1, <2>2, <2>4, <3>1
  <2> QED
    BY <2>3, <2>4
<1> QED
  BY <1>1, <1>2, <1>3

\* What is booked through the marketplace never owes a deposit.
LEMMA DelMercadoPaso ==
  ASSUME AgendaAssumption, TiposMercado, DelMercado, [NextMercado]_varsMercado
  PROVE  DelMercado'
<1> SUFFICES ASSUME NEW t \in Turnos, reserva'[t].origen = "mercado"
             PROVE  ~reserva'[t].conSena /\ reserva'[t].estado # SinFila
  BY DEF DelMercado
<1>1. CASE reserva[t].estado # SinFila
  <2>1. /\ reserva'[t].conSena = reserva[t].conSena
        /\ reserva'[t].origen = reserva[t].origen
        /\ reserva'[t].estado \in ESTADOS \cup {reserva[t].estado}
    BY <1>1, FilaMercado
  <2> QED
    BY <1>1, <2>1 DEF DelMercado, ESTADOS, SinFila
<1>2. CASE reserva[t].estado = SinFila
  <2>1. /\ reserva[t].origen # "mercado"
        /\ \A e \in escritura : e.turno # t
    BY <1>2 DEF DelMercado, TiposMercado, Base, EnVuelo
  <2>2. ~Avanza(t, reserva'[t]) /\ ~Pisa(t, reserva'[t])
    BY <2>1 DEF Avanza, Pisa
  <2> QED
    BY <2>2, PasoMercado DEF PasoSinFila, PasoConFila, SinFila
<1> QED
  BY <1>1, <1>2

\* A reservation with a work leaves its state only for a final one, or for what
\* the agenda writes over it.
LEMMA EnlazadosPaso ==
  ASSUME AgendaAssumption, TiposMercado, DelMercado, Enlazados, [NextMercado]_varsMercado
  PROVE  Enlazados'
<1>1. Tipos /\ TxTipos /\ trabajo \in [Turnos -> {"no", "activo", "cancelado"}]
  BY DEF TiposMercado, Base
<1>2. ASSUME NEW t \in Turnos, reserva[t].origen = "mercado"
      PROVE  reserva'[t].origen = "mercado"
  BY <1>2, FilaMercado DEF DelMercado
<1>3. ASSUME NEW t \in Turnos, trabajo[t] # "no"
      PROVE  /\ reserva'[t].origen = "mercado"
             /\ reserva'[t].estado \notin {SinFila, "pending", "awaiting_payment"}
  <2>1. /\ reserva[t].estado \notin {SinFila, "pending", "awaiting_payment"}
        /\ reserva[t].origen = "mercado" /\ ~reserva[t].conSena
    BY <1>3 DEF Enlazados, DelMercado
  <2>2. \/ reserva'[t].estado = reserva[t].estado
        \/ reserva[t].estado = "confirmed" /\ reserva'[t].estado \in ESTADOS \ {"pending", "awaiting_payment"}
        \/ reserva'[t].estado \in ESTADOS \ {"pending", "awaiting_payment"}
    BY <2>1, FilaMercado DEF ESPERAN
  <2> QED
    BY <1>2, <2>1, <2>2 DEF ESTADOS, SinFila
<1>4. CASE trabajo' = trabajo
  <2>1. tx'.op = "aceptar" => reserva'[tx'.turno].origen = "mercado"
    <3>1. CASE tx' = tx
      <4>1. tx.op = "aceptar" => tx.turno \in Turnos
        BY <1>1 DEF TxTipos, SinTx
      <4> QED
        BY <1>2, <3>1, <4>1 DEF Enlazados
    <3>2. CASE tx' = SinTx
      BY <3>2 DEF SinTx
    <3>3. ASSUME NEW t \in Turnos, AceptarTrabajoLee(t)
          PROVE  tx'.turno = t /\ reserva'[t].origen = "mercado"
      BY <1>2, <3>3 DEF AceptarTrabajoLee
    <3>4. ASSUME NEW t, NEW c, NEW i, ReservarLee(t, c, i)
          PROVE  tx'.op # "aceptar"
      BY <3>4 DEF ReservarLee
    <3> QED
      BY <3>1, <3>2, <3>3, <3>4 DEF NextMercado, varsMercado, ReservarEscribe,
         AceptarTrabajoEscribe, Abortar, AceptarTrabajoDeConfirmada, CancelarReserva,
         MarcarAusente, CancelarTrabajo
  <2> QED
    BY <1>3, <1>4, <2>1 DEF Enlazados
<1>5. ASSUME NEW t \in Turnos, reserva[t].origen = "mercado",
             tx' = SinTx \/ tx' = tx,
             \/ AceptarTrabajoEscribe /\ t = tx.turno
             \/ AceptarTrabajoDeConfirmada(t)
             \/ CancelarTrabajo(t)
      PROVE  Enlazados'
  <2>1. \/ /\ trabajo' = [trabajo EXCEPT ![t] = "activo"]
           /\ reserva'[t].estado = "confirmed"
        \/ /\ trabajo' = [trabajo EXCEPT ![t] = "cancelado"]
           /\ trabajo[t] = "activo"
    BY <1>1, <1>5, TrabajoPaso
  <2>2. \A u \in Turnos \ {t} : trabajo'[u] = trabajo[u]
    BY <1>1, <2>1
  <2>3. /\ reserva'[t].origen = "mercado"
        /\ reserva'[t].estado \notin {SinFila, "pending", "awaiting_payment"}
    BY <1>2, <1>3, <1>5, <2>1 DEF SinFila
  <2>4. tx'.op = "aceptar" => reserva'[tx'.turno].origen = "mercado"
    <3>1. tx.op = "aceptar" => tx.turno \in Turnos
      BY <1>1 DEF TxTipos, SinTx
    <3> QED
      BY <1>2, <1>5, <3>1 DEF Enlazados, SinTx
  <2> QED
    BY <1>3, <2>2, <2>3, <2>4 DEF Enlazados
<1>6. CASE AceptarTrabajoEscribe
  <2>1. tx.turno \in Turnos /\ reserva[tx.turno].origen = "mercado" /\ tx' = SinTx
    BY <1>1, <1>6 DEF AceptarTrabajoEscribe, TxTipos, SinTx, Enlazados
  <2> QED
    BY <1>5, <1>6, <2>1
<1>7. ASSUME NEW t \in Turnos, AceptarTrabajoDeConfirmada(t) \/ CancelarTrabajo(t)
      PROVE  Enlazados'
  <2>1. reserva[t].origen = "mercado" /\ tx' = tx
    BY <1>7 DEF AceptarTrabajoDeConfirmada, CancelarTrabajo, Enlazados
  <2> QED
    BY <1>5, <1>7, <2>1
<1> QED
  BY <1>4, <1>6, <1>7 DEF NextMercado, varsMercado, ReservarLee, ReservarEscribe,
     AceptarTrabajoLee, Abortar, CancelarReserva, MarcarAusente

\* What the two doors keep between them.
MercadoInv == TiposMercado /\ SinSolapamiento /\ DelMercado /\ Enlazados

\* Initially there is neither a reservation nor a work nor a transaction.
LEMMA MercadoInicio ==
  ASSUME InitMercado
  PROVE  MercadoInv
<1>1. Base
  BY AgendaInicio DEF InitMercado, AgendaInv
<1>2. SinSolapamiento
  BY DEF InitMercado, Init, SinSolapamiento, EnRestriccion, FilaVacia, SinFila
<1>3. DelMercado /\ Enlazados
  BY DEF InitMercado, Init, DelMercado, Enlazados, FilaVacia, SinTx
<1> QED
  BY <1>1, <1>2, <1>3 DEF MercadoInv, InitMercado, TiposMercado, TxTipos

\* Every step of either door keeps it.
LEMMA MercadoPaso ==
  ASSUME AgendaAssumption, MercadoInv, [NextMercado]_varsMercado
  PROVE  MercadoInv'
<1>1. TiposMercado /\ Tipos /\ SinSolapamiento /\ DelMercado /\ Enlazados
  BY DEF MercadoInv, TiposMercado, Base
<1>2. SinSolapamiento'
  BY <1>1, PasoMercado, SolapamientoPaso
<1>3. TiposMercado' /\ DelMercado' /\ Enlazados'
  BY <1>1, TiposMercadoPaso, DelMercadoPaso, EnlazadosPaso
<1> QED
  BY <1>2, <1>3 DEF MercadoInv

\* Nobody is booked twice, whichever of the two doors each turno came through
\* and however their transactions interleave.
THEOREM NadieSeSuperponeMercado == SpecMercado => []SinSolapamiento
<1> USE AgendaAssumption
<1>1. MercadoInv => SinSolapamiento
  BY DEF MercadoInv
<1> QED
  BY <1>1, MercadoInicio, MercadoPaso, PTL DEF SpecMercado

\* A work that is called off takes its confirmed reservation with it, and only an
\* answer of the agenda that had found it pending confirms it again.
THEOREM LaReservaSigueAlTrabajo == SpecMercado => TrabajoCanceladoSueltaLaReserva
<1> USE AgendaAssumption
<1> DEFINE Suelta ==
      \A t \in Turnos :
        (trabajo'[t] = "cancelado" /\ reserva'[t].estado = "confirmed") =>
          \/ trabajo[t] = "cancelado" /\ reserva[t].estado = "confirmed"
          \/ /\ EscrituraVieja(t)
             /\ \E e \in escritura : e.turno = t /\ e.leido = "pending"
<1>1. ASSUME MercadoInv, [NextMercado]_varsMercado, NEW t \in Turnos,
             trabajo'[t] = "cancelado", reserva'[t].estado = "confirmed"
      PROVE  \/ trabajo[t] = "cancelado" /\ reserva[t].estado = "confirmed"
             \/ /\ EscrituraVieja(t)
                /\ \E e \in escritura : e.turno = t /\ e.leido = "pending"
  <2>0. /\ TiposMercado /\ Tipos /\ TxTipos /\ Enlazados
        /\ trabajo \in [Turnos -> {"no", "activo", "cancelado"}]
    BY <1>1 DEF MercadoInv, TiposMercado, Base
  <2>1. trabajo[t] = "cancelado"
    <3>1. ASSUME NEW u \in Turnos,
                 \/ AceptarTrabajoEscribe /\ u = tx.turno
                 \/ AceptarTrabajoDeConfirmada(u)
                 \/ CancelarTrabajo(u)
          PROVE  trabajo[t] = "cancelado"
      BY <1>1, <2>0, <3>1, TrabajoPaso
    <3>2. AceptarTrabajoEscribe => tx.turno \in Turnos
      BY <2>0 DEF AceptarTrabajoEscribe, TxTipos, SinTx
    <3>3. CASE trabajo' = trabajo
      BY <1>1, <3>3
    <3> QED
      BY <1>1, <3>1, <3>2, <3>3 DEF NextMercado, varsMercado, ReservarLee, ReservarEscribe,
         AceptarTrabajoLee, Abortar, CancelarReserva, MarcarAusente
  <2>2. reserva[t].estado \notin {SinFila, "pending", "awaiting_payment"}
    BY <2>0, <2>1 DEF Enlazados
  <2>3. \/ reserva[t].estado = "confirmed"
        \/ \E e \in escritura :
             /\ e.turno = t /\ reserva'[t].estado = e.nuevo
             /\ e.nuevo \in TRANSICIONES[e.leido] /\ e.leido = "pending"
    BY <1>1, <2>0, <2>2, FilaMercado DEF ESPERAN
  <2> QED
    BY <2>1, <2>3 DEF EscrituraVieja
<1>2. MercadoInv /\ [NextMercado]_varsMercado => [Suelta]_varsMercado
  BY <1>1
<1>3. SpecMercado => []MercadoInv
  BY MercadoInicio, MercadoPaso, PTL DEF SpecMercado
<1> QED
  BY <1>2, <1>3, PTL DEF SpecMercado, TrabajoCanceladoSueltaLaReserva

\* Nothing the marketplace decided on an old read brings a turno back from a
\* final state: only the agenda does, with what it decided on an open one.
THEOREM LoFinalSoloCambiaPorLaAgenda == SpecMercado => LoFinalSoloLoPisaLaAgenda
<1> USE AgendaAssumption
<1> DEFINE Queda ==
      \A t \in Turnos :
        ( /\ reserva[t].estado \in ESTADOS /\ TRANSICIONES[reserva[t].estado] = {}
          /\ reserva'[t].estado # reserva[t].estado ) => EscrituraVieja(t)
<1>1. ASSUME MercadoInv, [NextMercado]_varsMercado, NEW t \in Turnos,
             reserva[t].estado \in ESTADOS, TRANSICIONES[reserva[t].estado] = {},
             reserva'[t].estado # reserva[t].estado
      PROVE  EscrituraVieja(t)
  <2>1. reserva[t].estado \notin {"pending", "awaiting_payment", "confirmed", SinFila}
    BY <1>1, Destinos DEF ESTADOS, SinFila
  <2>2. \E e \in escritura :
          e.turno = t /\ reserva'[t].estado = e.nuevo /\ e.nuevo \in TRANSICIONES[e.leido]
    BY <1>1, <2>1, FilaMercado DEF MercadoInv, ESPERAN
  <2> QED
    BY <2>2 DEF EscrituraVieja
<1>2. MercadoInv /\ [NextMercado]_varsMercado => [Queda]_varsMercado
  BY <1>1
<1>3. SpecMercado => []MercadoInv
  BY MercadoInicio, MercadoPaso, PTL DEF SpecMercado
<1> QED
  BY <1>2, <1>3, PTL DEF SpecMercado, LoFinalSoloLoPisaLaAgenda
=============================================================================
