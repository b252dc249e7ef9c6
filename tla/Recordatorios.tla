---------------------------- MODULE Recordatorios ----------------------------
(***************************************************************************)
(* The reminders of one turno for one of its recipients                    *)
(* (calendar/turnos-recordatorios.ts): a row for each kind and each time   *)
(* the turno had, computed, taken and sent by a sweep that any process     *)
(* runs at any time, with the clock it read when it began, while the turno *)
(* is confirmed, moved, changed and cancelled.  One action for each await. *)
(***************************************************************************)
EXTENDS Integers

CONSTANTS
  Inicios,     \* times the turno may have; all within HORIZONTE_MS
  Antes24,     \* 24 hours, in ticks
  Antes2,      \* 2 hours, in ticks
  Reclamo,     \* RECLAMO_VENCIDO_MS, in ticks
  Procesos,    \* processes of the API: each runs one sweep at a time
  MaxCambios,  \* bound: how often the turno is moved or changed
  MaxFallas,   \* bound: processes that stop in the middle of a sweep
  Horizonte    \* bound: the last tick

ASSUME RecordatoriosAssumption ==
  /\ Inicios \subseteq Nat /\ Horizonte \in Nat
  /\ Antes2 \in Nat /\ Antes24 \in Nat /\ Antes2 < Antes24 /\ Reclamo \in Nat
  /\ MaxCambios \in Nat /\ MaxFallas \in Nat

TIPOS == {"24h", "2h"}
ANTICIPACION == [t \in TIPOS |-> IF t = "24h" THEN Antes24 ELSE Antes2]

\* The unique index: a row for each time and kind.
Filas == Inicios \X TIPOS
ESTADOS == {"no", "pending", "sending", "sent", "skipped", "invalidated", "failed"}
programadoPara(f) == f[1] - ANTICIPACION[f[2]]

VARIABLES
  ahora,
  turno,     \* its state, its time, and when its row last changed
  fila,      \* state of each row and the clock of the sweep that took it
  salieron,  \* messages of each row that left
  proc,      \* the sweep of each process
  huerfanas, \* rows whose process stopped while it was sending them
  cambios,
  fallas

vars == <<ahora, turno, fila, salieron, proc, huerfanas, cambios, fallas>>

\* A sweep: its step, its clock, the turno it read, the rows it still has to look at.
Libre == [paso |-> "libre", ahora |-> 0, leido |-> {}, lista |-> {}, f |-> {}, res |-> "no"]

\* (Who took a row and when is only looked at while it is taken.)
Poner(fs, estado) == [f \in Filas |-> IF f \in fs THEN [estado |-> estado, reclamo |-> 0] ELSE fila[f]]
En(estados) == {f \in Filas : fila[f].estado \in estados}

----------------------------------------------------------------------------
Init ==
  /\ ahora = 0
  /\ turno = [estado |-> "pedido", inicio |-> 0, act |-> 0]
  /\ fila = [f \in Filas |-> [estado |-> "no", reclamo |-> 0]]
  /\ salieron = [f \in Filas |-> 0]
  /\ proc = [p \in Procesos |-> Libre]
  /\ huerfanas = {}
  /\ cambios = 0 /\ fallas = 0

\* The turno, written by the agenda: confirmed,
Confirmar(i) ==
  /\ turno.estado = "pedido" /\ i > ahora
  /\ turno' = [estado |-> "confirmed", inicio |-> i, act |-> ahora]
  /\ UNCHANGED <<ahora, fila, salieron, proc, huerfanas, cambios, fallas>>

\* ... moved by its client (reprogramarTurno), with the reminders still to be sent,
Reprogramar(i) ==
  /\ turno.estado = "confirmed" /\ i # turno.inicio
  /\ turno.inicio - ahora > Antes24 /\ i - ahora > Antes24
  /\ cambios < MaxCambios /\ cambios' = cambios + 1
  /\ turno' = [turno EXCEPT !.inicio = i, !.act = ahora]
  /\ fila' = Poner(En({"pending"}), "invalidated")
  /\ UNCHANGED <<ahora, salieron, proc, huerfanas, fallas>>

\* ... changed in something else,
Tocar ==
  /\ turno.estado = "confirmed" /\ turno.act # ahora
  /\ cambios < MaxCambios /\ cambios' = cambios + 1
  /\ turno' = [turno EXCEPT !.act = ahora]
  /\ UNCHANGED <<ahora, fila, salieron, proc, huerfanas, fallas>>

\* ... and cancelled or completed.
Terminar ==
  /\ turno.estado = "confirmed"
  /\ turno' = [turno EXCEPT !.estado = "fin", !.act = ahora]
  /\ UNCHANGED <<ahora, fila, salieron, proc, huerfanas, cambios, fallas>>

----------------------------------------------------------------------------
\* (Variant: a row taken long ago is sent again.)
TrasReclamo_Variante == "pending"

\* A row that was taken and never recorded: the message may have left.
TrasReclamo == "failed"

\* procesar: its clock, and the rows taken too long ago by anybody's sweep.
Empezar(p) ==
  /\ proc[p] = Libre
  /\ proc' = [proc EXCEPT ![p] = [Libre EXCEPT !.paso = "invalidar", !.ahora = ahora]]
  /\ fila' = Poner({f \in En({"sending"}) : fila[f].reclamo < ahora - Reclamo}, TrasReclamo)
  /\ UNCHANGED <<ahora, turno, salieron, huerfanas, cambios, fallas>>

\* What is still to be sent was computed for another time.
Invalidar(p) ==
  /\ proc[p].paso = "invalidar"
  /\ fila' = Poner({f \in En({"pending"}) : f[1] # turno.inicio}, "invalidated")
  /\ proc' = [proc EXCEPT ![p].paso = "turnos"]
  /\ UNCHANGED <<ahora, turno, salieron, huerfanas, cambios, fallas>>

\* programar: the confirmed turnos that are still to come.
LeerTurnos(p) ==
  /\ proc[p].paso = "turnos"
  /\ proc' = [proc EXCEPT ![p] =
                IF turno.estado = "confirmed" /\ turno.inicio > proc[p].ahora
                THEN [proc[p] EXCEPT !.paso = "programar", !.leido = {turno}]
                ELSE [proc[p] EXCEPT !.paso = "listar"]]
  /\ UNCHANGED <<ahora, turno, fila, salieron, huerfanas, cambios, fallas>>

\* Confirmed, or last changed, when it was already due; or computed too late for 24h.
Tarde(f, act, reloj) == act > programadoPara(f) \/ (f[2] = "24h" /\ programadoPara(f) < reloj)

\* ... the rows they have not got, for the time that was read; the index keeps one.
Programar(p) ==
  /\ proc[p].paso = "programar"
  /\ fila' = [f \in Filas |->
                IF fila[f].estado # "no" \/ \A t \in proc[p].leido : t.inicio # f[1]
                THEN fila[f]
                ELSE [fila[f] EXCEPT !.estado =
                        IF \E t \in proc[p].leido : Tarde(f, t.act, proc[p].ahora)
                        THEN "skipped" ELSE "pending"]]
  /\ proc' = [proc EXCEPT ![p].paso = "listar", ![p].leido = {}]
  /\ UNCHANGED <<ahora, turno, salieron, huerfanas, cambios, fallas>>

\* (Variant: the row it held is kept.)
Proxima_Variante(sweep) ==
  IF sweep.lista = {} THEN Libre ELSE [sweep EXCEPT !.paso = "fila", !.res = "no"]

\* The next row of the list, or the end of the sweep.
Proxima(sweep) ==
  IF sweep.lista = {} THEN Libre ELSE [sweep EXCEPT !.paso = "fila", !.f = {}, !.res = "no"]

\* What is due by the clock of the sweep (fewer rows than its limit).
Listar(p) ==
  /\ proc[p].paso = "listar"
  /\ LET vencidos == {f \in En({"pending"}) : programadoPara(f) <= proc[p].ahora} IN
     proc' = [proc EXCEPT ![p] = Proxima([proc[p] EXCEPT !.lista = vencidos])]
  /\ UNCHANGED <<ahora, turno, fila, salieron, huerfanas, cambios, fallas>>

\* (Variant: the time of the turno is not compared with the row's.)
Corresponde_Variante(f, reloj) ==
  /\ turno.estado = "confirmed" /\ turno.inicio > reloj
  /\ f[2] = "24h" => reloj < turno.inicio - Antes2

\* What enviar asks of the turno it reads: confirmed, at the time of the row, not begun,
\* and the reminder of the day before still to the point.
Corresponde(f, reloj) ==
  /\ turno.estado = "confirmed" /\ turno.inicio = f[1] /\ turno.inicio > reloj
  /\ f[2] = "24h" => reloj < turno.inicio - Antes2

\* enviar reads the turno, its names and its account (conCuenta).
LeerFila(p, f, conCuenta) ==
  /\ proc[p].paso = "fila" /\ f \in proc[p].lista
  /\ proc' = [proc EXCEPT ![p].lista = @ \ {f}, ![p].f = {f},
                ![p].paso = IF conCuenta /\ Corresponde(f, proc[p].ahora) THEN "tomar" ELSE "omitir"]
  /\ UNCHANGED <<ahora, turno, fila, salieron, huerfanas, cambios, fallas>>

\* omitir: also over a row that another sweep has taken by now.
Omitir(p) ==
  /\ proc[p].paso = "omitir"
  /\ fila' = Poner(proc[p].f \cap En({"pending", "sending"}), "skipped")
  /\ proc' = [proc EXCEPT ![p] = Proxima(proc[p])]
  /\ UNCHANGED <<ahora, turno, salieron, huerfanas, cambios, fallas>>

\* The row is taken, with the clock of the sweep, by this process or by none.
Tomar(p) ==
  /\ proc[p].paso = "tomar"
  /\ LET suyas == proc[p].f \cap En({"pending"}) IN
     /\ fila' = [f \in Filas |-> IF f \in suyas THEN [estado |-> "sending", reclamo |-> proc[p].ahora]
                                 ELSE fila[f]]
     /\ proc' = [proc EXCEPT ![p] = IF suyas = {} THEN Proxima(proc[p])
                                    ELSE [proc[p] EXCEPT !.paso = "enviar"]]
  /\ UNCHANGED <<ahora, turno, salieron, huerfanas, cambios, fallas>>

\* The channel: sent; failed, and then it may have left or not; or nothing to write to.
Enviar(p, res, sale) ==
  /\ proc[p].paso = "enviar"
  /\ res = "sent" => sale
  /\ res = "skipped" => ~sale
  /\ salieron' = [f \in Filas |-> IF f \in proc[p].f /\ sale THEN salieron[f] + 1 ELSE salieron[f]]
  /\ proc' = [proc EXCEPT ![p].paso = "registrar", ![p].res = res]
  /\ UNCHANGED <<ahora, turno, fila, huerfanas, cambios, fallas>>

\* The outcome of a sending is written whatever the row says by now.
Registrables(p) ==
  IF proc[p].res = "skipped" THEN proc[p].f \cap En({"pending", "sending"}) ELSE proc[p].f

Registrar(p) ==
  /\ proc[p].paso = "registrar"
  /\ fila' = Poner(Registrables(p), proc[p].res)
  /\ proc' = [proc EXCEPT ![p] = Proxima(proc[p])]
  /\ UNCHANGED <<ahora, turno, salieron, huerfanas, cambios, fallas>>

\* The process stops, or the database does not answer: the sweep ends where it is.
Caer(p) ==
  /\ fallas < MaxFallas /\ proc[p] # Libre
  /\ fallas' = fallas + 1
  /\ proc' = [proc EXCEPT ![p] = Libre]
  /\ huerfanas' = huerfanas \cup (IF proc[p].paso \in {"enviar", "registrar"} THEN proc[p].f ELSE {})
  /\ UNCHANGED <<ahora, turno, fila, salieron, cambios>>

Tick ==
  /\ ahora < Horizonte /\ ahora' = ahora + 1
  /\ UNCHANGED <<turno, fila, salieron, proc, huerfanas, cambios, fallas>>

Paso(p) ==
  \/ Empezar(p) \/ Invalidar(p) \/ LeerTurnos(p) \/ Programar(p) \/ Listar(p)
  \/ \E f \in Filas, conCuenta \in BOOLEAN : LeerFila(p, f, conCuenta)
  \/ Omitir(p) \/ Tomar(p) \/ Registrar(p)
  \/ \E res \in {"sent", "failed", "skipped"}, sale \in BOOLEAN : Enviar(p, res, sale)

Next ==
  \/ \E i \in Inicios : Confirmar(i) \/ Reprogramar(i)
  \/ Tocar \/ Terminar \/ Tick
  \/ \E p \in Procesos : Paso(p) \/ Caer(p)

Spec == Init /\ [][Next]_vars

----------------------------------------------------------------------------
PASOS == {"libre", "invalidar", "turnos", "programar", "listar", "fila", "omitir", "tomar",
          "enviar", "registrar"}
Turno == [estado : {"pedido", "confirmed", "fin"}, inicio : Nat, act : Nat]

\* Every variable keeps to its type, no clock is ahead of time, and a sweep
\* holds a row exactly while it takes, sends or closes it.
TypeOK ==
  /\ ahora \in 0..Horizonte
  /\ turno \in Turno
  /\ fila \in [Filas -> [estado : ESTADOS, reclamo : 0..ahora]]
  /\ salieron \in [Filas -> Nat]
  /\ proc \in [Procesos -> [paso : PASOS, ahora : 0..ahora, leido : SUBSET Turno, lista : SUBSET Filas,
                            f : SUBSET Filas, res : {"no", "sent", "failed", "skipped"}]]
  /\ \A p \in Procesos : proc[p].f # {} <=> proc[p].paso \in {"tomar", "omitir", "enviar", "registrar"}
  /\ huerfanas \subseteq Filas
  /\ cambios \in 0..MaxCambios /\ fallas \in 0..MaxFallas

\* Sweeps that are sending a row, or have its outcome to write.
Envia(p, f) == proc[p].paso \in {"enviar", "registrar"} /\ proc[p].f = {f}

\* A reminder leaves at most once and one process sends it, although sweeps overlap, die
\* and close each other's rows; and the audit does not lie: 'sent' left, and what was
\* recorded as skipped or invalidated did not leave, unless its process died with it.
UnEnvioYAuditado ==
  \A f \in Filas :
    /\ salieron[f] <= 1
    /\ \A p, q \in Procesos : Envia(p, f) /\ Envia(q, f) => p = q
    /\ fila[f].estado = "sent" => salieron[f] = 1
    /\ /\ fila[f].estado \in {"no", "pending", "skipped", "invalidated"} /\ salieron[f] = 1
       => f \in huerfanas \/ \E p \in Procesos : Envia(p, f)

\* The reminders of an old time are never sent: nobody takes one of a time the turno does
\* not have any more, also when it is moved between the reading and the taking, and when a
\* late sweep computes rows for the time it had read.
FechaViejaNuncaSeToma ==
  [][\A f \in Filas : fila[f].estado # "sending" /\ fila'[f].estado = "sending"
       => turno.inicio = f[1]]_vars
=============================================================================
