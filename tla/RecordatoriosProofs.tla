------------------------- MODULE RecordatoriosProofs -------------------------
(***************************************************************************)
(* Theorems about the reminders of a turno, for any number of times,       *)
(* processes, changes and failures.                                        *)
(*                                                                         *)
(* The argument: the state of a row only advances (Avanza), so a row that  *)
(* is still to be sent was never held by anybody; and whoever sends a row  *)
(* took it from there, so nobody else can.  What a sweep holds, and what   *)
(* it may still write, is said row by row (FilaBien).                      *)
(***************************************************************************)
EXTENDS Recordatorios, TLAPS

SOSTIENEN == {"tomar", "omitir", "enviar", "registrar"}
RESULTADOS == {"no", "sent", "failed", "skipped"}

\* A sweep by the clock h.
Barrido(h) ==
  [paso : PASOS, ahora : 0..h, leido : SUBSET Turno, lista : SUBSET Filas,
   f : SUBSET Filas, res : RESULTADOS]

FilaT(h) == [estado : ESTADOS, reclamo : 0..h]

\* A sweep holds a row exactly while it takes, sends or closes it, and one at a time.
Sostiene(s) ==
  /\ s.f # {} <=> s.paso \in SOSTIENEN
  /\ s.f # {} => \E f \in Filas : s.f = {f}

ProcBien == \A p \in Procesos : Sostiene(proc[p])

Tipos == TypeOK /\ ProcBien

\* The sweep of p becomes s, and no other changes.
Pasa(p, s) ==
  /\ s \in Barrido(ahora) /\ Sostiene(s)
  /\ proc' = [proc EXCEPT ![p] = s]

----------------------------------------------------------------------------
(* Rows and sweeps.                                                        *)

\* Setting the state of some rows.
LEMMA PonerTipo ==
  ASSUME NEW fs, NEW e \in ESTADOS, ahora \in Nat, fila \in [Filas -> FilaT(ahora)]
  PROVE  /\ Poner(fs, e) \in [Filas -> FilaT(ahora)]
         /\ \A f \in Filas : /\ f \in fs => Poner(fs, e)[f].estado = e
                             /\ f \notin fs => Poner(fs, e)[f] = fila[f]
  BY DEF Poner, FilaT

\* A free sweep.
LEMMA LibreTipo ==
  ASSUME ahora \in Nat
  PROVE  Libre \in Barrido(ahora) /\ Sostiene(Libre)
  BY DEF Libre, Barrido, PASOS, RESULTADOS, SOSTIENEN, Sostiene

\* The next row, or the end: no row is held.
LEMMA ProximaTipo ==
  ASSUME ahora \in Nat, NEW s \in Barrido(ahora)
  PROVE  /\ Proxima(s) \in Barrido(ahora) /\ Sostiene(Proxima(s))
         /\ Proxima(s).paso \in {"libre", "fila"} /\ Proxima(s).f = {}
         /\ Proxima(s).lista \subseteq s.lista /\ Proxima(s).leido \subseteq s.leido
<1>1. CASE s.lista = {}
  BY <1>1, LibreTipo DEF Proxima, Libre
<1>2. CASE s.lista # {}
  BY <1>2 DEF Proxima, Barrido, PASOS, RESULTADOS, SOSTIENEN, Sostiene
<1> QED
  BY <1>1, <1>2

\* What a sweep is, at every moment.
LEMMA BarridoDe ==
  ASSUME Tipos, NEW p \in Procesos
  PROVE  /\ proc[p] \in Barrido(ahora) /\ Sostiene(proc[p])
         /\ ahora \in Nat
  BY DEF Tipos, TypeOK, ProcBien, Barrido, RESULTADOS

----------------------------------------------------------------------------
(* What each step of a sweep does to it.                                   *)

\* Where a sweep is after it closes what was left halfway ...
LEMMA EmpezarPasa ==
  ASSUME Tipos, NEW p \in Procesos, Empezar(p)
  PROVE  \E s : /\ Pasa(p, s) /\ s.paso = "invalidar" /\ s.f = {} /\ s.lista = {} /\ s.leido = {}
<1> DEFINE s == [Libre EXCEPT !.paso = "invalidar", !.ahora = ahora]
<1>1. proc' = [proc EXCEPT ![p] = s] /\ ahora \in Nat
  BY BarridoDe DEF Empezar
<1>2. /\ s \in Barrido(ahora) /\ s.paso = "invalidar" /\ s.f = {} /\ s.lista = {} /\ s.leido = {}
  <2>1. Libre \in Barrido(ahora) /\ Libre.f = {} /\ Libre.lista = {} /\ Libre.leido = {}
    BY <1>1, LibreTipo DEF Libre
  <2> DEFINE k == [Libre EXCEPT !.paso = "invalidar"]
  <2>2. /\ k \in Barrido(ahora) /\ k.paso = "invalidar"
        /\ k.f = {} /\ k.lista = {} /\ k.leido = {}
    BY <2>1 DEF Barrido, PASOS
  <2>3. s = [k EXCEPT !.ahora = ahora] /\ ahora \in 0..ahora
    BY <1>1
  <2> HIDE DEF k, s
  <2> QED
    BY <2>2, <2>3 DEF Barrido
<1>3. Sostiene(s)
  BY <1>2 DEF Sostiene, SOSTIENEN
<1> HIDE DEF s
<1> QED
  BY <1>1, <1>2, <1>3 DEF Pasa

\* ... after it invalidates the rows of other times ...
LEMMA InvalidarPasa ==
  ASSUME Tipos, NEW p \in Procesos, Invalidar(p)
  PROVE  \E s : /\ Pasa(p, s) /\ s.paso = "turnos" /\ s.f = {}
                /\ s.lista = proc[p].lista /\ s.leido = proc[p].leido
<1> DEFINE s == [proc[p] EXCEPT !.paso = "turnos"]
<1>1. /\ proc' = [proc EXCEPT ![p] = s] /\ proc[p] \in Barrido(ahora) /\ proc[p].f = {}
  BY BarridoDe DEF Invalidar, Sostiene, SOSTIENEN
<1>2. /\ s \in Barrido(ahora) /\ s.paso = "turnos" /\ s.f = {}
      /\ s.lista = proc[p].lista /\ s.leido = proc[p].leido
  BY <1>1 DEF Barrido, PASOS
<1>3. Sostiene(s)
  BY <1>2 DEF Sostiene, SOSTIENEN
<1> HIDE DEF s
<1> QED
  BY <1>1, <1>2, <1>3 DEF Pasa

\* ... after it reads the turno ...
LEMMA LeerTurnosPasa ==
  ASSUME Tipos, NEW p \in Procesos, LeerTurnos(p)
  PROVE  \E s : /\ Pasa(p, s) /\ s.paso \in {"programar", "listar"} /\ s.f = {}
                /\ s.lista = proc[p].lista
                /\ s.leido = proc[p].leido \/ (s.leido = {turno} /\ turno.estado = "confirmed")
<1> DEFINE a == [proc[p] EXCEPT !.paso = "programar", !.leido = {turno}]
           b == [proc[p] EXCEPT !.paso = "listar"]
<1>1. /\ proc[p] \in Barrido(ahora) /\ proc[p].f = {} /\ turno \in Turno
  BY BarridoDe DEF LeerTurnos, Sostiene, SOSTIENEN, Tipos, TypeOK
<1>2. CASE turno.estado = "confirmed" /\ turno.inicio > proc[p].ahora
  <2>1. proc' = [proc EXCEPT ![p] = a]
    BY <1>2 DEF LeerTurnos
  <2>2. a \in Barrido(ahora) /\ a.paso = "programar" /\ a.f = {} /\ a.lista = proc[p].lista
        /\ a.leido = {turno}
    BY <1>1 DEF Barrido, PASOS
  <2>3. Sostiene(a)
    BY <2>2 DEF Sostiene, SOSTIENEN
  <2> HIDE DEF a
  <2> QED
    BY <1>2, <2>1, <2>2, <2>3 DEF Pasa
<1>3. CASE ~(turno.estado = "confirmed" /\ turno.inicio > proc[p].ahora)
  <2>1. proc' = [proc EXCEPT ![p] = b]
    BY <1>3 DEF LeerTurnos
  <2>2. b \in Barrido(ahora) /\ b.paso = "listar" /\ b.f = {} /\ b.lista = proc[p].lista
        /\ b.leido = proc[p].leido
    BY <1>1 DEF Barrido, PASOS
  <2>3. Sostiene(b)
    BY <2>2 DEF Sostiene, SOSTIENEN
  <2> HIDE DEF b
  <2> QED
    BY <2>1, <2>2, <2>3 DEF Pasa
<1> QED
  BY <1>2, <1>3

\* ... after it computes its rows ...
LEMMA ProgramarPasa ==
  ASSUME Tipos, NEW p \in Procesos, Programar(p)
  PROVE  \E s : /\ Pasa(p, s) /\ s.paso = "listar" /\ s.f = {}
                /\ s.lista = proc[p].lista /\ s.leido = {}
<1> DEFINE s == [proc[p] EXCEPT !.paso = "listar", !.leido = {}]
<1>1. /\ proc[p] \in Barrido(ahora) /\ proc[p].f = {}
  BY BarridoDe DEF Programar, Sostiene, SOSTIENEN
<1>2. proc' = [proc EXCEPT ![p] = s]
  BY DEF Programar
<1>3. /\ s \in Barrido(ahora) /\ s.paso = "listar" /\ s.f = {}
      /\ s.lista = proc[p].lista /\ s.leido = {}
  BY <1>1 DEF Barrido, PASOS
<1>4. Sostiene(s)
  BY <1>3 DEF Sostiene, SOSTIENEN
<1> HIDE DEF s
<1> QED
  BY <1>2, <1>3, <1>4 DEF Pasa

\* Only rows that are still to be sent are listed.
LEMMA ListarPasa ==
  ASSUME Tipos, NEW p \in Procesos, Listar(p)
  PROVE  \E s : /\ Pasa(p, s) /\ s.paso \in {"libre", "fila"} /\ s.f = {}
                /\ s.lista \subseteq En({"pending"}) /\ s.leido \subseteq proc[p].leido
<1> DEFINE v == {f \in En({"pending"}) : programadoPara(f) <= proc[p].ahora}
           r == [proc[p] EXCEPT !.lista = v]
           s == Proxima(r)
<1>1. proc[p] \in Barrido(ahora) /\ ahora \in Nat
  BY BarridoDe
<1>2. proc' = [proc EXCEPT ![p] = s]
  BY DEF Listar
<1>3. v \subseteq En({"pending"}) /\ v \subseteq Filas
  BY DEF En
<1> HIDE DEF v
<1>4. r \in Barrido(ahora) /\ r.lista = v /\ r.leido = proc[p].leido
  BY <1>1, <1>3 DEF Barrido
<1> HIDE DEF r
<1>5. /\ s \in Barrido(ahora) /\ Sostiene(s) /\ s.paso \in {"libre", "fila"} /\ s.f = {}
      /\ s.lista \subseteq v /\ s.leido \subseteq proc[p].leido
  BY <1>1, <1>4, ProximaTipo
<1> HIDE DEF s
<1> QED
  BY <1>2, <1>3, <1>5 DEF Pasa

\* A row is taken in hand to be sent only for the time the turno has.
LEMMA LeerFilaPasa ==
  ASSUME Tipos, NEW p \in Procesos, NEW f \in Filas, NEW conCuenta \in BOOLEAN,
         LeerFila(p, f, conCuenta)
  PROVE  \E s : /\ Pasa(p, s) /\ s.paso \in {"tomar", "omitir"} /\ s.f = {f}
                /\ f \in proc[p].lista
                /\ s.paso = "tomar" => turno.inicio = f[1]
                /\ s.lista \subseteq proc[p].lista /\ s.leido = proc[p].leido
<1> DEFINE e == IF conCuenta /\ Corresponde(f, proc[p].ahora) THEN "tomar" ELSE "omitir"
           s == [proc[p] EXCEPT !.lista = proc[p].lista \ {f}, !.f = {f}, !.paso = e]
<1>1. proc[p] \in Barrido(ahora) /\ f \in proc[p].lista
  BY BarridoDe DEF LeerFila
<1>2. proc \in [Procesos -> Barrido(ahora)]
  BY BarridoDe DEF Tipos, TypeOK
<1>3. e \in {"tomar", "omitir"} /\ (e = "tomar" => turno.inicio = f[1])
  BY DEF Corresponde
<1>4. proc' = [proc EXCEPT ![p].lista = proc[p].lista \ {f}, ![p].f = {f}, ![p].paso = e]
  BY DEF LeerFila
<1> HIDE DEF e
<1>5. proc' = [proc EXCEPT ![p] = s]
  BY <1>1, <1>2, <1>4 DEF Barrido
<1>6. /\ s \in Barrido(ahora) /\ s.paso = e /\ s.f = {f}
      /\ s.lista = proc[p].lista \ {f} /\ s.leido = proc[p].leido
  BY <1>1, <1>3 DEF Barrido, PASOS
<1>7. Sostiene(s)
  BY <1>3, <1>6 DEF Sostiene, SOSTIENEN
<1> HIDE DEF s
<1> QED
  BY <1>1, <1>3, <1>5, <1>6, <1>7 DEF Pasa

\* Closing a row: the sweep goes on without it.
LEMMA CerrarPasa ==
  ASSUME Tipos, NEW p \in Procesos, proc' = [proc EXCEPT ![p] = Proxima(proc[p])]
  PROVE  \E s : /\ Pasa(p, s) /\ s.paso \in {"libre", "fila"} /\ s.f = {}
                /\ s.lista \subseteq proc[p].lista /\ s.leido \subseteq proc[p].leido
  BY BarridoDe, ProximaTipo DEF Pasa

\* ... after it takes the row it is at ...
LEMMA TomarPasa ==
  ASSUME Tipos, NEW p \in Procesos, Tomar(p), proc[p].f \cap En({"pending"}) # {}
  PROVE  \E s : /\ Pasa(p, s) /\ s.paso = "enviar" /\ s.f = proc[p].f
                /\ s.lista = proc[p].lista /\ s.leido = proc[p].leido
<1> DEFINE s == [proc[p] EXCEPT !.paso = "enviar"]
<1>1. /\ proc[p] \in Barrido(ahora) /\ Sostiene(proc[p]) /\ proc[p].paso = "tomar"
  BY BarridoDe DEF Tomar
<1>2. proc' = [proc EXCEPT ![p] = s]
  BY DEF Tomar
<1>3. /\ s \in Barrido(ahora) /\ s.paso = "enviar" /\ s.f = proc[p].f
      /\ s.lista = proc[p].lista /\ s.leido = proc[p].leido
  BY <1>1 DEF Barrido, PASOS
<1>4. Sostiene(s)
  BY <1>1, <1>3 DEF Sostiene, SOSTIENEN
<1> HIDE DEF s
<1> QED
  BY <1>2, <1>3, <1>4 DEF Pasa

\* ... and after it called the channel.
LEMMA EnviarPasa ==
  ASSUME Tipos, NEW p \in Procesos, NEW res \in {"sent", "failed", "skipped"},
         NEW sale \in BOOLEAN, Enviar(p, res, sale)
  PROVE  \E s : /\ Pasa(p, s) /\ s.paso = "registrar" /\ s.f = proc[p].f /\ s.res = res
                /\ s.lista = proc[p].lista /\ s.leido = proc[p].leido
<1> DEFINE s == [proc[p] EXCEPT !.paso = "registrar", !.res = res]
<1>1. /\ proc[p] \in Barrido(ahora) /\ Sostiene(proc[p]) /\ proc[p].paso = "enviar"
  BY BarridoDe DEF Enviar
<1>2. proc \in [Procesos -> Barrido(ahora)]
  BY BarridoDe DEF Tipos, TypeOK
<1>3. proc' = [proc EXCEPT ![p] = s]
  BY <1>1, <1>2 DEF Enviar, Barrido
<1>4. /\ s \in Barrido(ahora) /\ s.paso = "registrar" /\ s.f = proc[p].f /\ s.res = res
      /\ s.lista = proc[p].lista /\ s.leido = proc[p].leido
  BY <1>1 DEF Barrido, PASOS, RESULTADOS
<1>5. Sostiene(s)
  BY <1>1, <1>4 DEF Sostiene, SOSTIENEN
<1> HIDE DEF s
<1> QED
  BY <1>3, <1>4, <1>5 DEF Pasa

----------------------------------------------------------------------------
(* The rows.                                                               *)

\* A row that nobody sends only goes forward.
AvanzaFila(f) ==
  \/ fila'[f].estado = fila[f].estado
  \/ fila[f].estado = "no" /\ turno.estado # "pedido" /\ fila'[f].estado \in {"pending", "skipped"}
  \/ fila[f].estado = "pending" /\ fila'[f].estado \in {"skipped", "invalidated"}
  \/ fila[f].estado = "sending" /\ fila'[f].estado \in {"failed", "skipped"}

\* Who sends it goes on sending it.
MismaMano(q, f) ==
  /\ Envia(q, f)' <=> Envia(q, f)
  /\ Envia(q, f) => proc'[q].paso = proc[q].paso /\ proc'[q].res = proc[q].res

\* No message of the row leaves, and nobody begins or ends sending it.
SerenaFila(f) ==
  /\ AvanzaFila(f)
  /\ salieron'[f] = salieron[f] /\ (f \in huerfanas' <=> f \in huerfanas)
  /\ \A q \in Procesos : MismaMano(q, f)

Sereno == \A f \in Filas : SerenaFila(f)

FilaBien(f) ==
  /\ fila[f].estado \in {"no", "pending"} =>
       salieron[f] = 0 /\ f \notin huerfanas /\ \A p \in Procesos : ~Envia(p, f)
  /\ \A p \in Procesos :
       Envia(p, f) =>
         /\ proc[p].paso = "enviar" => salieron[f] = 0
         /\ proc[p].paso = "registrar" =>
              /\ proc[p].res \in {"sent", "failed", "skipped"}
              /\ proc[p].res = "sent" => salieron[f] = 1
              /\ proc[p].res = "skipped" => salieron[f] = 0
  /\ fila[f].estado = "sending" => f \in huerfanas \/ \E p \in Procesos : Envia(p, f)
  /\ salieron[f] \in {0, 1}
  /\ \A p, q \in Procesos : Envia(p, f) /\ Envia(q, f) => p = q
  /\ fila[f].estado = "sent" => salieron[f] = 1
  /\ (fila[f].estado \in {"no", "pending", "skipped", "invalidated"} /\ salieron[f] = 1)
       => f \in huerfanas \/ \E p \in Procesos : Envia(p, f)

\* Rows a sweep knows exist, they were computed for a confirmed turno, and the one
\* it is about to take is of the time the turno has, as long as it is still to be sent.
Conocidas ==
  /\ \A p \in Procesos : \A f \in proc[p].f \cup proc[p].lista : fila[f].estado # "no"
  /\ turno.estado = "pedido" =>
       /\ \A p \in Procesos : proc[p].leido = {}
       /\ \A f \in Filas : fila[f].estado = "no"
  /\ \A p \in Procesos :
       proc[p].paso = "tomar" =>
         \A f \in proc[p].f : fila[f].estado = "pending" => turno.inicio = f[1]

RecInv == Tipos /\ (\A f \in Filas : FilaBien(f)) /\ Conocidas

\* A sweep that neither sends nor begins to send leaves every hand as it was.
LEMMA OtrasManos ==
  ASSUME Tipos, NEW p \in Procesos, NEW s, Pasa(p, s),
         proc[p].paso \notin {"enviar", "registrar"}, s.paso \notin {"enviar", "registrar"}
  PROVE  \A q \in Procesos, f \in Filas : MismaMano(q, f)
<1>1. proc \in [Procesos -> Barrido(ahora)]
  BY BarridoDe DEF Tipos, TypeOK
<1>2. proc'[p] = s /\ \A q \in Procesos \ {p} : proc'[q] = proc[q]
  BY <1>1 DEF Pasa
<1> QED
  BY <1>2 DEF MismaMano, Envia

\* So does a step that is of no sweep.
LEMMA MismasManos ==
  ASSUME proc' = proc
  PROVE  \A q \in Procesos, f \in Filas : MismaMano(q, f)
  BY DEF MismaMano, Envia

\* A serene step keeps what is known of a row.
LEMMA SerenoBien ==
  ASSUME NEW f \in Filas, SerenaFila(f), FilaBien(f)
  PROVE  FilaBien(f)'
<1>1. AvanzaFila(f) /\ \A q \in Procesos : MismaMano(q, f)
  BY DEF SerenaFila
<1>2. salieron'[f] = salieron[f] /\ (f \in huerfanas' <=> f \in huerfanas)
  BY DEF SerenaFila
<1>3. /\ \A q \in Procesos : Envia(q, f)' <=> Envia(q, f)
      /\ \A q \in Procesos : Envia(q, f) => proc'[q].paso = proc[q].paso /\ proc'[q].res = proc[q].res
  BY <1>1 DEF MismaMano
<1>4. fila'[f].estado \in {"no", "pending"} =>
        salieron'[f] = 0 /\ f \notin huerfanas' /\ \A q \in Procesos : ~Envia(q, f)'
  BY <1>1, <1>2, <1>3 DEF AvanzaFila, FilaBien
<1>5. \A q \in Procesos :
        Envia(q, f)' =>
          /\ proc'[q].paso = "enviar" => salieron'[f] = 0
          /\ proc'[q].paso = "registrar" =>
               /\ proc'[q].res \in {"sent", "failed", "skipped"}
               /\ proc'[q].res = "sent" => salieron'[f] = 1
               /\ proc'[q].res = "skipped" => salieron'[f] = 0
  BY <1>2, <1>3 DEF FilaBien
<1>6. fila'[f].estado = "sending" => f \in huerfanas' \/ \E q \in Procesos : Envia(q, f)'
  BY <1>1, <1>2, <1>3 DEF AvanzaFila, FilaBien
<1>7. /\ salieron'[f] \in {0, 1}
      /\ \A p, q \in Procesos : Envia(p, f)' /\ Envia(q, f)' => p = q
      /\ fila'[f].estado = "sent" => salieron'[f] = 1
  BY <1>1, <1>2, <1>3 DEF AvanzaFila, FilaBien
<1>8. (fila'[f].estado \in {"no", "pending", "skipped", "invalidated"} /\ salieron'[f] = 1)
        => f \in huerfanas' \/ \E q \in Procesos : Envia(q, f)'
  BY <1>1, <1>2, <1>3 DEF AvanzaFila, FilaBien
<1> QED
  BY <1>4, <1>5, <1>6, <1>7, <1>8 DEF FilaBien

\* What a step of a sweep does besides to its own place.
LEMMA TiposPasa ==
  ASSUME Tipos, NEW p \in Procesos, NEW s, Pasa(p, s),
         fila' \in [Filas -> FilaT(ahora)], salieron' \in [Filas -> Nat],
         huerfanas' \subseteq Filas, fallas' \in 0..MaxFallas,
         UNCHANGED <<ahora, turno, cambios>>
  PROVE  Tipos'
<1>1. proc \in [Procesos -> Barrido(ahora)]
  BY BarridoDe DEF Tipos, TypeOK
<1>2. proc'[p] = s /\ (\A q \in Procesos \ {p} : proc'[q] = proc[q])
      /\ proc' \in [Procesos -> Barrido(ahora)]
  BY <1>1 DEF Pasa
<1>3. ProcBien'
  BY <1>2 DEF Tipos, ProcBien, Pasa, Sostiene
<1>4. \A q \in Procesos : proc'[q].f # {} <=> proc'[q].paso \in {"tomar", "omitir", "enviar", "registrar"}
  BY <1>3 DEF ProcBien, Sostiene, SOSTIENEN
<1>5. TypeOK'
  BY <1>2, <1>4 DEF Tipos, TypeOK, Barrido, FilaT, RESULTADOS
<1> QED
  BY <1>3, <1>5 DEF Tipos

\* What the sweeps know, after a step of one of them.
LEMMA ConocidasPasa ==
  ASSUME Tipos, Conocidas, NEW p \in Procesos, NEW s, Pasa(p, s), turno' = turno,
         \A f \in Filas :
           \/ fila'[f].estado = fila[f].estado
           \/ fila[f].estado = "no" /\ turno.estado # "pedido" /\ fila'[f].estado # "no"
           \/ fila[f].estado # "no" /\ fila'[f].estado \notin {"no", "pending"},
         \A f \in s.f \cup s.lista : f \in Filas /\ fila[f].estado # "no",
         s.leido \subseteq proc[p].leido \/ turno.estado = "confirmed",
         s.paso = "tomar" => \A f \in s.f : turno.inicio = f[1]
  PROVE  Conocidas'
<1>1. proc \in [Procesos -> Barrido(ahora)]
  BY BarridoDe DEF Tipos, TypeOK
<1>2. proc'[p] = s /\ (\A q \in Procesos \ {p} : proc'[q] = proc[q])
  BY <1>1 DEF Pasa
<1>3. \A q \in Procesos : \A f \in proc[q].f \cup proc[q].lista :
        f \in Filas /\ fila[f].estado # "no"
  BY <1>1 DEF Barrido, Conocidas
<1>4. \A q \in Procesos : \A f \in proc'[q].f \cup proc'[q].lista :
        f \in Filas /\ fila[f].estado # "no" /\ fila'[f].estado # "no"
  <2>1. \A q \in Procesos : \A f \in proc'[q].f \cup proc'[q].lista :
          f \in Filas /\ fila[f].estado # "no"
    BY <1>2, <1>3
  <2> QED
    BY <2>1
<1>5. turno'.estado = "pedido" =>
        /\ \A q \in Procesos : proc'[q].leido = {}
        /\ \A f \in Filas : fila'[f].estado = "no"
  BY <1>2 DEF Conocidas
<1>6. \A q \in Procesos :
        proc'[q].paso = "tomar" =>
          \A f \in proc'[q].f : fila'[f].estado = "pending" => turno'.inicio = f[1]
  <2> SUFFICES ASSUME NEW q \in Procesos, proc'[q].paso = "tomar", NEW f \in proc'[q].f,
                      fila'[f].estado = "pending"
               PROVE  turno.inicio = f[1]
    OBVIOUS
  <2>1. f \in Filas /\ fila[f].estado # "no"
    BY <1>4
  <2>2. fila[f].estado = "pending"
    BY <2>1
  <2> QED
    BY <1>2, <2>2 DEF Conocidas
<1> QED
  BY <1>4, <1>5, <1>6 DEF Conocidas

----------------------------------------------------------------------------
(* The steps of a sweep.                                                   *)

\* Those in which nobody begins or ends a sending.
LEMMA SerenoPasa ==
  ASSUME RecInv, NEW p \in Procesos, NEW s, Pasa(p, s),
         proc[p].paso \notin {"enviar", "registrar"}, s.paso \notin {"enviar", "registrar"},
         fila' \in [Filas -> FilaT(ahora)], \A f \in Filas : AvanzaFila(f),
         UNCHANGED <<ahora, turno, salieron, huerfanas, cambios>>, fallas' \in 0..MaxFallas,
         \A f \in s.f \cup s.lista : f \in Filas /\ fila[f].estado # "no",
         s.leido \subseteq proc[p].leido \/ turno.estado = "confirmed",
         s.paso = "tomar" => \A f \in s.f : turno.inicio = f[1]
  PROVE  RecInv' /\ Sereno
<1>1. Tipos /\ Conocidas /\ \A f \in Filas : FilaBien(f)
  BY DEF RecInv
<1>2. Sereno
  BY <1>1, OtrasManos DEF Sereno, SerenaFila
<1>3. \A f \in Filas : FilaBien(f)'
  BY <1>1, <1>2, SerenoBien DEF Sereno
<1>4. Tipos'
  <2>1. salieron' \in [Filas -> Nat] /\ huerfanas' \subseteq Filas
    BY <1>1 DEF Tipos, TypeOK
  <2> QED
    BY <1>1, <2>1, TiposPasa
<1>5. Conocidas'
  <2>1. \A f \in Filas :
           \/ fila'[f].estado = fila[f].estado
           \/ fila[f].estado = "no" /\ turno.estado # "pedido" /\ fila'[f].estado # "no"
           \/ fila[f].estado # "no" /\ fila'[f].estado \notin {"no", "pending"}
    BY DEF AvanzaFila
  <2> QED
    BY <1>1, <2>1, ConocidasPasa
<1> QED
  BY <1>2, <1>3, <1>4, <1>5 DEF RecInv

\* What the sweep already knew, it knows.
LEMMA ListaConocida ==
  ASSUME RecInv, NEW p \in Procesos
  PROVE  /\ \A f \in proc[p].f \cup proc[p].lista : f \in Filas /\ fila[f].estado # "no"
         /\ fila \in [Filas -> FilaT(ahora)] /\ fallas \in 0..MaxFallas
         /\ proc \in [Procesos -> Barrido(ahora)]
         /\ ahora \in Nat /\ salieron \in [Filas -> Nat] /\ huerfanas \subseteq Filas
<1>1. Tipos /\ Conocidas
  BY DEF RecInv
<1>2. proc[p] \in Barrido(ahora)
  BY <1>1, BarridoDe
<1>3. \A f \in proc[p].f \cup proc[p].lista : f \in Filas /\ fila[f].estado # "no"
  BY <1>1, <1>2 DEF Barrido, Conocidas
<1>4. /\ fila \in [Filas -> FilaT(ahora)] /\ fallas \in 0..MaxFallas
      /\ proc \in [Procesos -> Barrido(ahora)]
      /\ ahora \in Nat /\ salieron \in [Filas -> Nat] /\ huerfanas \subseteq Filas
  BY <1>1 DEF Tipos, TypeOK, FilaT, Barrido, RESULTADOS
<1> QED
  BY <1>3, <1>4

\* A step that leaves the rows alone.
LEMMA FilasQuietas ==
  ASSUME fila' = fila
  PROVE  \A f \in Filas : AvanzaFila(f)
  BY DEF AvanzaFila

\* Closing what was left halfway only moves rows forward.
LEMMA EmpezarInv ==
  ASSUME RecInv, NEW p \in Procesos, Empezar(p)
  PROVE  RecInv' /\ Sereno
<1> DEFINE fs == {f \in En({"sending"}) : fila[f].reclamo < ahora - Reclamo}
<1>1. PICK s : Pasa(p, s) /\ s.paso = "invalidar" /\ s.f = {} /\ s.lista = {} /\ s.leido = {}
  BY EmpezarPasa DEF RecInv
<1>2. /\ fila' = Poner(fs, "failed") /\ proc[p].paso = "libre"
      /\ UNCHANGED <<ahora, turno, salieron, huerfanas, cambios, fallas>>
  BY DEF Empezar, TrasReclamo, Libre
<1>3. \A f \in fs : fila[f].estado = "sending"
  BY DEF En
<1> HIDE DEF fs
<1>4. fila' \in [Filas -> FilaT(ahora)] /\ \A f \in Filas : AvanzaFila(f)
  BY <1>2, <1>3, ListaConocida, PonerTipo DEF AvanzaFila, ESTADOS
<1> QED
  BY <1>1, <1>2, <1>4, ListaConocida, SerenoPasa

\* Invalidating only moves forward the rows nobody sends.
LEMMA InvalidarInv ==
  ASSUME RecInv, NEW p \in Procesos, Invalidar(p)
  PROVE  RecInv' /\ Sereno
<1> DEFINE fs == {f \in En({"pending"}) : f[1] # turno.inicio}
<1>1. PICK s : /\ Pasa(p, s) /\ s.paso = "turnos" /\ s.f = {}
               /\ s.lista = proc[p].lista /\ s.leido = proc[p].leido
  BY InvalidarPasa DEF RecInv
<1>2. /\ fila' = Poner(fs, "invalidated") /\ proc[p].paso = "invalidar"
      /\ UNCHANGED <<ahora, turno, salieron, huerfanas, cambios, fallas>>
  BY DEF Invalidar
<1>3. \A f \in fs : fila[f].estado = "pending"
  BY DEF En
<1> HIDE DEF fs
<1>4. fila' \in [Filas -> FilaT(ahora)] /\ \A f \in Filas : AvanzaFila(f)
  BY <1>2, <1>3, ListaConocida, PonerTipo DEF AvanzaFila, ESTADOS
<1> QED
  BY <1>1, <1>2, <1>4, ListaConocida, SerenoPasa

\* Reading the turno writes nothing.
LEMMA LeerTurnosInv ==
  ASSUME RecInv, NEW p \in Procesos, LeerTurnos(p)
  PROVE  RecInv' /\ Sereno
<1>1. PICK s : /\ Pasa(p, s) /\ s.paso \in {"programar", "listar"} /\ s.f = {}
               /\ s.lista = proc[p].lista
               /\ s.leido = proc[p].leido \/ (s.leido = {turno} /\ turno.estado = "confirmed")
  BY LeerTurnosPasa DEF RecInv
<1>2. /\ fila' = fila /\ proc[p].paso = "turnos"
      /\ UNCHANGED <<ahora, turno, salieron, huerfanas, cambios, fallas>>
  BY DEF LeerTurnos
<1> QED
  BY <1>1, <1>2, FilasQuietas, ListaConocida, SerenoPasa

\* Rows are computed only for a turno that was read confirmed.
LEMMA ProgramarInv ==
  ASSUME RecInv, NEW p \in Procesos, Programar(p)
  PROVE  RecInv' /\ Sereno
<1> DEFINE Cambia(f) == ~(fila[f].estado # "no" \/ \A t \in proc[p].leido : t.inicio # f[1])
           e(f) == IF \E t \in proc[p].leido : Tarde(f, t.act, proc[p].ahora)
                   THEN "skipped" ELSE "pending"
<1>1. PICK s : /\ Pasa(p, s) /\ s.paso = "listar" /\ s.f = {}
               /\ s.lista = proc[p].lista /\ s.leido = {}
  BY ProgramarPasa DEF RecInv
<1>2. /\ proc[p].paso = "programar"
      /\ UNCHANGED <<ahora, turno, salieron, huerfanas, cambios, fallas>>
      /\ fila' = [f \in Filas |-> IF Cambia(f) THEN [fila[f] EXCEPT !.estado = e(f)] ELSE fila[f]]
  BY DEF Programar
<1>3. ASSUME NEW f \in Filas
      PROVE  fila'[f] \in FilaT(ahora) /\ AvanzaFila(f)
  <2>1. fila[f] \in FilaT(ahora)
    BY ListaConocida
  <2>2. CASE Cambia(f)
    <3>1. fila[f].estado = "no" /\ proc[p].leido # {}
      BY <2>2
    <3>2. turno.estado # "pedido"
      BY <3>1 DEF RecInv, Conocidas
    <3>3. e(f) \in {"pending", "skipped"}
      OBVIOUS
    <3>4. fila'[f] = [fila[f] EXCEPT !.estado = e(f)]
      BY <1>2, <2>2
    <3> HIDE DEF e
    <3>5. fila'[f] \in FilaT(ahora) /\ fila'[f].estado = e(f)
      BY <2>1, <3>3, <3>4 DEF FilaT, ESTADOS
    <3> QED
      BY <3>1, <3>2, <3>3, <3>5 DEF AvanzaFila
  <2>3. CASE ~Cambia(f)
    BY <1>2, <2>1, <2>3 DEF AvanzaFila
  <2> QED
    BY <2>2, <2>3
<1> HIDE DEF Cambia, e
<1>4. fila' \in [Filas -> FilaT(ahora)]
  BY <1>2, <1>3
<1> QED
  BY <1>1, <1>2, <1>3, <1>4, ListaConocida, SerenoPasa

\* Listing writes nothing, and lists rows that exist.
LEMMA ListarInv ==
  ASSUME RecInv, NEW p \in Procesos, Listar(p)
  PROVE  RecInv' /\ Sereno
<1>1. PICK s : /\ Pasa(p, s) /\ s.paso \in {"libre", "fila"} /\ s.f = {}
               /\ s.lista \subseteq En({"pending"}) /\ s.leido \subseteq proc[p].leido
  BY ListarPasa DEF RecInv
<1>2. /\ fila' = fila /\ proc[p].paso = "listar"
      /\ UNCHANGED <<ahora, turno, salieron, huerfanas, cambios, fallas>>
  BY DEF Listar
<1>3. \A f \in s.f \cup s.lista : f \in Filas /\ fila[f].estado # "no"
  BY <1>1 DEF En
<1> QED
  BY <1>1, <1>2, <1>3, FilasQuietas, ListaConocida, SerenoPasa

\* Who is about to take a row saw the turno at the time of the row.
LEMMA LeerFilaInv ==
  ASSUME RecInv, NEW p \in Procesos, NEW f \in Filas, NEW conCuenta \in BOOLEAN,
         LeerFila(p, f, conCuenta)
  PROVE  RecInv' /\ Sereno
<1>1. PICK s : /\ Pasa(p, s) /\ s.paso \in {"tomar", "omitir"} /\ s.f = {f}
               /\ f \in proc[p].lista
               /\ s.paso = "tomar" => turno.inicio = f[1]
               /\ s.lista \subseteq proc[p].lista /\ s.leido = proc[p].leido
  BY LeerFilaPasa DEF RecInv
<1>2. /\ fila' = fila /\ proc[p].paso = "fila"
      /\ UNCHANGED <<ahora, turno, salieron, huerfanas, cambios, fallas>>
  BY DEF LeerFila
<1>3. \A g \in s.f \cup s.lista : g \in Filas /\ fila[g].estado # "no"
  BY <1>1, ListaConocida
<1> QED
  BY <1>1, <1>2, <1>3, FilasQuietas, ListaConocida, SerenoPasa

\* A row that is skipped is skipped before it was sent, or by who does not send it.
LEMMA OmitirInv ==
  ASSUME RecInv, NEW p \in Procesos, Omitir(p)
  PROVE  RecInv' /\ Sereno
<1> DEFINE fs == proc[p].f \cap En({"pending", "sending"})
<1>1. PICK s : /\ Pasa(p, s) /\ s.paso \in {"libre", "fila"} /\ s.f = {}
               /\ s.lista \subseteq proc[p].lista /\ s.leido \subseteq proc[p].leido
  BY CerrarPasa DEF Omitir, RecInv
<1>2. /\ fila' = Poner(fs, "skipped") /\ proc[p].paso = "omitir"
      /\ UNCHANGED <<ahora, turno, salieron, huerfanas, cambios, fallas>>
  BY DEF Omitir
<1>3. \A f \in fs : fila[f].estado \in {"pending", "sending"}
  BY DEF En
<1> HIDE DEF fs
<1>4. fila' \in [Filas -> FilaT(ahora)] /\ \A f \in Filas : AvanzaFila(f)
  BY <1>2, <1>3, ListaConocida, PonerTipo DEF AvanzaFila, ESTADOS
<1> QED
  BY <1>1, <1>2, <1>4, ListaConocida, SerenoPasa

\* Taking a row: it was still to be sent, so nobody had it.
LEMMA TomarInv ==
  ASSUME RecInv, NEW p \in Procesos, Tomar(p)
  PROVE  /\ RecInv'
         /\ \A f \in Filas : fila[f].estado # "sending" /\ fila'[f].estado = "sending"
                            => turno.inicio = f[1]
<1> DEFINE suyas == proc[p].f \cap En({"pending"})
<1>1. /\ proc[p].paso = "tomar"
      /\ UNCHANGED <<ahora, turno, salieron, huerfanas, cambios, fallas>>
      /\ fila' = [f \in Filas |-> IF f \in suyas THEN [estado |-> "sending", reclamo |-> proc[p].ahora]
                                  ELSE fila[f]]
  BY DEF Tomar
<1>2. Tipos /\ Conocidas /\ \A f \in Filas : FilaBien(f)
  BY DEF RecInv
<1>3. \A f \in Filas : fila[f].estado # "sending" /\ fila'[f].estado = "sending"
                            => turno.inicio = f[1]
  <2> SUFFICES ASSUME NEW f \in Filas, fila[f].estado # "sending", fila'[f].estado = "sending"
               PROVE  turno.inicio = f[1]
    OBVIOUS
  <2>1. f \in suyas
    BY <1>1
  <2>2. f \in proc[p].f /\ fila[f].estado = "pending"
    BY <2>1 DEF En
  <2> QED
    BY <1>1, <1>2, <2>2 DEF Conocidas
<1>4. CASE suyas = {}
  <2>1. PICK s : /\ Pasa(p, s) /\ s.paso \in {"libre", "fila"} /\ s.f = {}
                 /\ s.lista \subseteq proc[p].lista /\ s.leido \subseteq proc[p].leido
    BY <1>2, <1>4, CerrarPasa DEF Tomar
  <2>2. fila' \in [Filas -> FilaT(ahora)] /\ \A f \in Filas : AvanzaFila(f)
    <3>1. fila \in [Filas -> FilaT(ahora)]
      BY ListaConocida
    <3>2. \A f \in Filas : fila'[f] = fila[f]
      BY <1>1, <1>4
    <3>3. fila' = [f \in Filas |-> fila'[f]]
      BY <1>1
    <3> QED
      BY <3>1, <3>2, <3>3 DEF AvanzaFila
  <2> QED
    BY <1>1, <1>3, <2>1, <2>2, ListaConocida, SerenoPasa
<1>5. CASE suyas # {}
  <2>1. PICK s : /\ Pasa(p, s) /\ s.paso = "enviar" /\ s.f = proc[p].f
                 /\ s.lista = proc[p].lista /\ s.leido = proc[p].leido
    BY <1>2, <1>5, TomarPasa
  <2>2. PICK g \in Filas : proc[p].f = {g} /\ fila[g].estado = "pending"
    BY <1>2, <1>5 DEF En, Tipos, ProcBien, Sostiene
  <2>3. /\ fila'[g] = [estado |-> "sending", reclamo |-> proc[p].ahora]
        /\ \A f \in Filas \ {g} : fila'[f] = fila[f]
    BY <1>1, <2>2 DEF En
  <2>4. /\ proc'[p] = s /\ \A q \in Procesos \ {p} : proc'[q] = proc[q]
    BY <2>1, ListaConocida DEF Pasa
  <2>5. fila' \in [Filas -> FilaT(ahora)]
    <3>1. proc[p].ahora \in 0..ahora /\ fila \in [Filas -> FilaT(ahora)]
      BY ListaConocida DEF Barrido
    <3>2. fila'[g] \in FilaT(ahora)
      BY <2>3, <3>1 DEF FilaT, ESTADOS
    <3>3. \A f \in Filas : fila'[f] \in FilaT(ahora)
      BY <2>3, <3>1, <3>2
    <3>4. fila' = [f \in Filas |-> fila'[f]]
      BY <1>1
    <3> QED
      BY <3>3, <3>4
  <2>6. Tipos'
    BY <1>1, <1>2, <2>1, <2>5, ListaConocida, TiposPasa
  <2>7. Conocidas'
    <3>1. \A f \in s.f \cup s.lista : f \in Filas /\ fila[f].estado # "no"
      BY <2>1, ListaConocida
    <3>2. \A f \in Filas :
           \/ fila'[f].estado = fila[f].estado
           \/ fila[f].estado = "no" /\ turno.estado # "pedido" /\ fila'[f].estado # "no"
           \/ fila[f].estado # "no" /\ fila'[f].estado \notin {"no", "pending"}
      BY <2>2, <2>3
    <3> QED
      BY <1>1, <1>2, <2>1, <3>1, <3>2, ConocidasPasa
  <2>8. ASSUME NEW f \in Filas, f # g
        PROVE  FilaBien(f)'
    <3>1. \A q \in Procesos : MismaMano(q, f)
      BY <1>1, <2>1, <2>2, <2>4, <2>8 DEF MismaMano, Envia
    <3>2. SerenaFila(f)
      BY <1>1, <2>3, <2>8, <3>1 DEF SerenaFila, AvanzaFila
    <3> QED
      BY <1>2, <3>2, SerenoBien
  <2>9. FilaBien(g)'
    <3>1. salieron[g] = 0 /\ \A q \in Procesos : ~Envia(q, g)
      BY <1>2, <2>2 DEF FilaBien
    <3>2. \A q \in Procesos : Envia(q, g)' <=> q = p
      BY <2>1, <2>2, <2>4, <3>1 DEF Envia
    <3>3. fila'[g].estado = "sending" /\ salieron'[g] = 0 /\ proc'[p].paso = "enviar"
      BY <1>1, <2>1, <2>3, <2>4, <3>1
    <3> QED
      BY <3>2, <3>3 DEF FilaBien
  <2> QED
    BY <1>3, <2>6, <2>7, <2>8, <2>9 DEF RecInv
<1> QED
  BY <1>4, <1>5

\* The message leaves, or not: it is the only time for that row.
LEMMA EnviarInv ==
  ASSUME RecInv, NEW p \in Procesos, NEW res \in {"sent", "failed", "skipped"},
         NEW sale \in BOOLEAN, Enviar(p, res, sale)
  PROVE  RecInv' /\ fila' = fila
<1>1. /\ proc[p].paso = "enviar" /\ (res = "sent" => sale) /\ (res = "skipped" => ~sale)
      /\ UNCHANGED <<ahora, turno, fila, huerfanas, cambios, fallas>>
      /\ salieron' = [f \in Filas |-> IF f \in proc[p].f /\ sale THEN salieron[f] + 1 ELSE salieron[f]]
  BY DEF Enviar
<1>2. Tipos /\ Conocidas /\ \A f \in Filas : FilaBien(f)
  BY DEF RecInv
<1>3. PICK s : /\ Pasa(p, s) /\ s.paso = "registrar" /\ s.f = proc[p].f /\ s.res = res
               /\ s.lista = proc[p].lista /\ s.leido = proc[p].leido
  BY <1>2, EnviarPasa
<1>4. PICK g \in Filas : proc[p].f = {g}
  BY <1>1, <1>2 DEF Tipos, ProcBien, Sostiene, SOSTIENEN
<1>5. /\ proc'[p] = s /\ \A q \in Procesos \ {p} : proc'[q] = proc[q]
  BY <1>3, ListaConocida DEF Pasa
<1>6. Tipos'
  <2>1. salieron' \in [Filas -> Nat]
    BY <1>1, ListaConocida
  <2> QED
    BY <1>1, <1>2, <1>3, <2>1, ListaConocida, TiposPasa
<1>7. Conocidas'
  <2>1. \A f \in s.f \cup s.lista : f \in Filas /\ fila[f].estado # "no"
    BY <1>3, ListaConocida
  <2> QED
    BY <1>1, <1>2, <1>3, <2>1, ConocidasPasa
<1>8. ASSUME NEW f \in Filas, f # g
      PROVE  FilaBien(f)'
  <2>1. \A q \in Procesos : MismaMano(q, f)
    BY <1>3, <1>4, <1>5, <1>8 DEF MismaMano, Envia
  <2>2. salieron'[f] = salieron[f]
    BY <1>1, <1>4, <1>8
  <2>3. SerenaFila(f)
    BY <1>1, <2>1, <2>2 DEF SerenaFila, AvanzaFila
  <2> QED
    BY <1>2, <2>3, SerenoBien
<1>9. FilaBien(g)'
  <2>1. Envia(p, g) /\ salieron[g] = 0 /\ FilaBien(g)
    BY <1>1, <1>2, <1>4 DEF Envia, FilaBien
  <2>2. \A q \in Procesos : Envia(q, g) => q = p
    BY <2>1 DEF FilaBien
  <2>3. \A q \in Procesos : Envia(q, g)' <=> q = p
    BY <1>3, <1>4, <1>5, <2>1, <2>2 DEF Envia
  <2>4. /\ salieron'[g] \in {0, 1} /\ (res = "sent" => salieron'[g] = 1)
        /\ (res = "skipped" => salieron'[g] = 0)
    BY <1>1, <1>4, <2>1
  <2>5. fila[g].estado \notin {"no", "pending", "sent"}
    BY <2>1 DEF FilaBien
  <2>6. fila'[g] = fila[g] /\ proc'[p].paso = "registrar" /\ proc'[p].res = res
    BY <1>1, <1>3, <1>5
  <2> QED
    BY <2>3, <2>4, <2>5, <2>6 DEF FilaBien
<1> QED
  BY <1>1, <1>6, <1>7, <1>8, <1>9 DEF RecInv

\* The outcome is written: whoever recorded the row before, what left is not denied.
LEMMA RegistrarInv ==
  ASSUME RecInv, NEW p \in Procesos, Registrar(p)
  PROVE  RecInv' /\ \A f \in Filas : fila'[f].estado = "sending" => fila[f].estado = "sending"
<1> DEFINE fs == Registrables(p)
           res == proc[p].res
<1>1. /\ proc[p].paso = "registrar" /\ fila' = Poner(fs, res)
      /\ UNCHANGED <<ahora, turno, salieron, huerfanas, cambios, fallas>>
  BY DEF Registrar
<1>2. Tipos /\ Conocidas /\ \A f \in Filas : FilaBien(f)
  BY DEF RecInv
<1>3. PICK s : /\ Pasa(p, s) /\ s.paso \in {"libre", "fila"} /\ s.f = {}
               /\ s.lista \subseteq proc[p].lista /\ s.leido \subseteq proc[p].leido
  BY <1>2, CerrarPasa DEF Registrar
<1>4. PICK g \in Filas : proc[p].f = {g}
  BY <1>1, <1>2 DEF Tipos, ProcBien, Sostiene, SOSTIENEN
<1>5. /\ Envia(p, g) /\ FilaBien(g) /\ res \in {"sent", "failed", "skipped"}
      /\ res = "sent" => salieron[g] = 1
      /\ res = "skipped" => salieron[g] = 0
  BY <1>1, <1>2, <1>4 DEF Envia, FilaBien
<1>6. /\ fila[g].estado \notin {"no", "pending"}
      /\ \A q \in Procesos : Envia(q, g) => q = p
      /\ salieron[g] \in {0, 1}
  BY <1>5 DEF FilaBien
<1>7. /\ fs \subseteq {g} /\ (res # "skipped" => fs = {g})
      /\ g \notin fs => fila[g].estado # "sending"
  BY <1>4 DEF Registrables, En
<1>8. /\ proc'[p] = s /\ \A q \in Procesos \ {p} : proc'[q] = proc[q]
  BY <1>3, ListaConocida DEF Pasa
<1> HIDE DEF fs, res
<1>9. /\ fila' \in [Filas -> FilaT(ahora)]
      /\ \A f \in Filas \ {g} : fila'[f] = fila[f]
      /\ g \in fs => fila'[g].estado = res
      /\ g \notin fs => fila'[g] = fila[g]
  <2>1. res \in ESTADOS
    BY <1>5 DEF ESTADOS
  <2> QED
    BY <1>1, <1>7, <2>1, ListaConocida, PonerTipo
<1>10. Tipos'
  BY <1>1, <1>2, <1>3, <1>9, ListaConocida, TiposPasa
<1>11. Conocidas'
  <2>1. \A f \in s.f \cup s.lista : f \in Filas /\ fila[f].estado # "no"
    BY <1>3, ListaConocida
  <2>2. \A f \in Filas :
           \/ fila'[f].estado = fila[f].estado
           \/ fila[f].estado = "no" /\ turno.estado # "pedido" /\ fila'[f].estado # "no"
           \/ fila[f].estado # "no" /\ fila'[f].estado \notin {"no", "pending"}
    BY <1>5, <1>6, <1>9
  <2> QED
    BY <1>1, <1>2, <1>3, <2>1, <2>2, ConocidasPasa
<1>12. ASSUME NEW f \in Filas, f # g
       PROVE  FilaBien(f)'
  <2>1. \A q \in Procesos : MismaMano(q, f)
    BY <1>3, <1>4, <1>8, <1>12 DEF MismaMano, Envia
  <2>2. SerenaFila(f)
    BY <1>1, <1>9, <1>12, <2>1 DEF SerenaFila, AvanzaFila
  <2> QED
    BY <1>2, <2>2, SerenoBien
<1>13. FilaBien(g)'
  <2>1. \A q \in Procesos : ~Envia(q, g)'
    BY <1>3, <1>6, <1>8 DEF Envia
  <2>2. /\ fila'[g].estado \notin {"no", "pending", "sending"}
        /\ salieron'[g] = salieron[g]
    BY <1>1, <1>5, <1>6, <1>7, <1>9
  <2>3. fila'[g].estado = "sent" => salieron'[g] = 1
    BY <1>1, <1>5, <1>7, <1>9 DEF FilaBien
  <2>4. fila'[g].estado \in {"skipped", "invalidated"} /\ salieron'[g] = 1 => g \in huerfanas'
    BY <1>1, <1>5, <1>7, <1>9 DEF FilaBien
  <2> QED
    BY <1>6, <2>1, <2>2, <2>3, <2>4 DEF FilaBien
<1>14. \A f \in Filas : fila'[f].estado = "sending" => fila[f].estado = "sending"
  BY <1>5, <1>9
<1> QED
  BY <1>10, <1>11, <1>12, <1>13, <1>14 DEF RecInv

\* A process that stops leaves the row it was sending to nobody.
LEMMA CaerInv ==
  ASSUME RecInv, NEW p \in Procesos, Caer(p)
  PROVE  RecInv' /\ fila' = fila
<1>1. /\ fallas < MaxFallas /\ fallas' = fallas + 1 /\ proc' = [proc EXCEPT ![p] = Libre]
      /\ huerfanas' = huerfanas \cup (IF proc[p].paso \in {"enviar", "registrar"}
                                      THEN proc[p].f ELSE {})
      /\ UNCHANGED <<ahora, turno, fila, salieron, cambios>>
  BY DEF Caer
<1>2. Tipos /\ Conocidas /\ \A f \in Filas : FilaBien(f)
  BY DEF RecInv
<1>3. /\ Pasa(p, Libre) /\ Libre.f = {} /\ Libre.lista = {} /\ Libre.leido = {}
      /\ Libre.paso = "libre"
  BY <1>1, LibreTipo, ListaConocida DEF Pasa, Libre
<1>4. fallas' \in 0..MaxFallas
  BY <1>1, ListaConocida, RecordatoriosAssumption
<1>5. CASE proc[p].paso \in {"enviar", "registrar"}
  <2>1. PICK g \in Filas : proc[p].f = {g}
    BY <1>2, <1>5 DEF Tipos, ProcBien, Sostiene, SOSTIENEN
  <2>2. huerfanas' = huerfanas \cup {g} /\ huerfanas' \subseteq Filas
    BY <1>1, <1>5, <2>1, ListaConocida
  <2>3. Tipos'
    BY <1>1, <1>2, <1>3, <1>4, <2>2, ListaConocida, TiposPasa
  <2>4. Conocidas'
    BY <1>1, <1>2, <1>3, ConocidasPasa
  <2>5. /\ proc'[p] = Libre /\ \A q \in Procesos \ {p} : proc'[q] = proc[q]
    BY <1>3, ListaConocida DEF Pasa
  <2>6. ASSUME NEW f \in Filas, f # g
        PROVE  FilaBien(f)'
    <3>1. \A q \in Procesos : MismaMano(q, f)
      BY <1>3, <2>1, <2>5, <2>6 DEF MismaMano, Envia
    <3>2. SerenaFila(f)
      BY <1>1, <2>2, <2>6, <3>1 DEF SerenaFila, AvanzaFila
    <3> QED
      BY <1>2, <3>2, SerenoBien
  <2>7. FilaBien(g)'
    <3>1. Envia(p, g) /\ FilaBien(g)
      BY <1>2, <1>5, <2>1 DEF Envia
    <3>2. \A q \in Procesos : ~Envia(q, g)'
      BY <1>3, <2>5, <3>1 DEF Envia, FilaBien
    <3>3. fila[g].estado \notin {"no", "pending"} /\ salieron[g] \in {0, 1}
          /\ (fila[g].estado = "sent" => salieron[g] = 1)
      BY <3>1 DEF FilaBien
    <3> QED
      BY <1>1, <2>2, <3>2, <3>3 DEF FilaBien
  <2> QED
    BY <1>1, <2>3, <2>4, <2>6, <2>7 DEF RecInv
<1>6. CASE proc[p].paso \notin {"enviar", "registrar"}
  <2>1. huerfanas' = huerfanas
    BY <1>1, <1>6
  <2>2. RecInv'
    BY <1>1, <1>3, <1>4, <1>6, <2>1, FilasQuietas, ListaConocida, SerenoPasa
  <2> QED
    BY <1>1, <2>2
<1> QED
  BY <1>5, <1>6

----------------------------------------------------------------------------
(* The steps of the turno and of the clock.                                *)

\* A step of no sweep: the rows go forward, and what is still to be sent keeps its time.
LEMMA DeAfuera ==
  ASSUME RecInv, UNCHANGED <<salieron, proc, huerfanas, fallas>>,
         ahora \in 0..ahora', ahora' \in 0..Horizonte, turno' \in Turno, cambios' \in 0..MaxCambios,
         fila' \in [Filas -> FilaT(ahora')],
         turno'.estado = "pedido" => turno.estado = "pedido",
         turno'.inicio = turno.inicio \/ \A f \in Filas : fila'[f].estado # "pending",
         \A f \in Filas : \/ fila'[f] = fila[f]
                          \/ fila[f].estado = "pending" /\ fila'[f].estado = "invalidated"
  PROVE  RecInv' /\ Sereno
<1>1. Tipos /\ Conocidas /\ \A f \in Filas : FilaBien(f)
  BY DEF RecInv
<1>2. \A q \in Procesos, f \in Filas : MismaMano(q, f)
  BY MismasManos
<1>3. Sereno
  BY <1>2 DEF Sereno, SerenaFila, AvanzaFila
<1>4. \A f \in Filas : FilaBien(f)'
  BY <1>1, <1>3, SerenoBien DEF Sereno
<1>5. Tipos'
  <2>1. ProcBien'
    BY <1>1 DEF Tipos, ProcBien, Sostiene
  <2>2. Barrido(ahora) \subseteq Barrido(ahora') /\ ahora' \in Nat
    BY <1>1, ListaConocida DEF Barrido, Tipos, TypeOK
  <2>3. proc' \in [Procesos -> Barrido(ahora')]
    BY <1>1, <2>2 DEF Tipos, TypeOK, Barrido, RESULTADOS
  <2>4. TypeOK'
    BY <1>1, <2>3 DEF Tipos, TypeOK, Barrido, FilaT, RESULTADOS
  <2> QED
    BY <2>1, <2>4 DEF Tipos
<1>6. Conocidas'
  <2>1. \A q \in Procesos : \A f \in proc[q].f \cup proc[q].lista : f \in Filas
    BY ListaConocida
  <2>2. \A f \in Filas : /\ fila'[f].estado = "no" <=> fila[f].estado = "no"
                         /\ fila'[f].estado = "pending" => fila[f].estado = "pending"
    OBVIOUS
  <2>3. \A q \in Procesos : \A f \in proc'[q].f \cup proc'[q].lista : fila'[f].estado # "no"
    BY <1>1, <2>1, <2>2 DEF Conocidas
  <2>4. turno'.estado = "pedido" =>
          /\ \A q \in Procesos : proc'[q].leido = {}
          /\ \A f \in Filas : fila'[f].estado = "no"
    BY <1>1, <2>2 DEF Conocidas
  <2>5. \A q \in Procesos :
          proc'[q].paso = "tomar" =>
            \A f \in proc'[q].f : fila'[f].estado = "pending" => turno'.inicio = f[1]
    BY <1>1, <2>1, <2>2 DEF Conocidas
  <2> QED
    BY <2>3, <2>4, <2>5 DEF Conocidas
<1> QED
  BY <1>3, <1>4, <1>5, <1>6 DEF RecInv

\* What those steps find.
LEMMA TurnoDe ==
  ASSUME RecInv
  PROVE  /\ ahora \in 0..Horizonte /\ ahora \in 0..ahora /\ turno \in Turno
         /\ cambios \in 0..MaxCambios /\ fila \in [Filas -> FilaT(ahora)]
         /\ turno.inicio \in Nat /\ turno.act \in Nat /\ ahora \in Nat
  BY RecordatoriosAssumption DEF RecInv, Tipos, TypeOK, Turno, FilaT

\* A confirmation finds no row.
LEMMA ConfirmarInv ==
  ASSUME RecInv, NEW i \in Inicios, Confirmar(i)
  PROVE  RecInv' /\ Sereno
<1>1. /\ turno.estado = "pedido" /\ turno' = [estado |-> "confirmed", inicio |-> i, act |-> ahora]
      /\ UNCHANGED <<ahora, fila, salieron, proc, huerfanas, cambios, fallas>>
  BY DEF Confirmar
<1>2. turno' \in Turno /\ turno'.estado # "pedido"
  BY <1>1, TurnoDe, RecordatoriosAssumption DEF Turno
<1>3. \A f \in Filas : fila'[f].estado # "pending"
  BY <1>1 DEF RecInv, Conocidas
<1> QED
  BY <1>1, <1>2, <1>3, TurnoDe, DeAfuera

\* A move leaves no row to be sent.
LEMMA ReprogramarInv ==
  ASSUME RecInv, NEW i \in Inicios, Reprogramar(i)
  PROVE  RecInv' /\ Sereno
<1>1. /\ turno.estado = "confirmed" /\ turno' = [turno EXCEPT !.inicio = i, !.act = ahora]
      /\ cambios < MaxCambios /\ cambios' = cambios + 1
      /\ fila' = Poner(En({"pending"}), "invalidated")
      /\ UNCHANGED <<ahora, salieron, proc, huerfanas, fallas>>
  BY DEF Reprogramar
<1>2. turno' \in Turno /\ turno'.estado = turno.estado
  BY <1>1, TurnoDe, RecordatoriosAssumption DEF Turno
<1>3. cambios' \in 0..MaxCambios
  BY <1>1, TurnoDe, RecordatoriosAssumption
<1>4. /\ fila' \in [Filas -> FilaT(ahora)]
      /\ \A f \in Filas : fila[f].estado = "pending" => fila'[f].estado = "invalidated"
      /\ \A f \in Filas : fila[f].estado # "pending" => fila'[f] = fila[f]
  BY <1>1, TurnoDe, PonerTipo DEF En, ESTADOS
<1>5. \A f \in Filas : fila'[f].estado # "pending"
  BY <1>4
<1> QED
  BY <1>1, <1>2, <1>3, <1>4, <1>5, TurnoDe, DeAfuera

\* A turno that changes in something else leaves the rows alone ...
LEMMA TocarInv ==
  ASSUME RecInv, Tocar
  PROVE  RecInv' /\ Sereno
<1>1. /\ turno.estado = "confirmed" /\ turno' = [turno EXCEPT !.act = ahora]
      /\ cambios < MaxCambios /\ cambios' = cambios + 1
      /\ UNCHANGED <<ahora, fila, salieron, proc, huerfanas, fallas>>
  BY DEF Tocar
<1>2. turno' \in Turno /\ turno'.estado = turno.estado /\ turno'.inicio = turno.inicio
  BY <1>1, TurnoDe DEF Turno
<1>3. cambios' \in 0..MaxCambios
  BY <1>1, TurnoDe, RecordatoriosAssumption
<1> QED
  BY <1>1, <1>2, <1>3, TurnoDe, DeAfuera

\* ... and so does one that ends.
LEMMA TerminarInv ==
  ASSUME RecInv, Terminar
  PROVE  RecInv' /\ Sereno
<1>1. /\ turno' = [turno EXCEPT !.estado = "fin", !.act = ahora]
      /\ UNCHANGED <<ahora, fila, salieron, proc, huerfanas, cambios, fallas>>
  BY DEF Terminar
<1>2. turno' \in Turno /\ turno'.estado = "fin" /\ turno'.inicio = turno.inicio
  BY <1>1, TurnoDe DEF Turno
<1> QED
  BY <1>1, <1>2, TurnoDe, DeAfuera

\* Time touches no row.
LEMMA TickInv ==
  ASSUME RecInv, Tick
  PROVE  RecInv' /\ Sereno
<1>1. /\ ahora < Horizonte /\ ahora' = ahora + 1
      /\ UNCHANGED <<turno, fila, salieron, proc, huerfanas, cambios, fallas>>
  BY DEF Tick
<1>2. ahora \in 0..ahora' /\ ahora' \in 0..Horizonte
  BY <1>1, TurnoDe, RecordatoriosAssumption
<1>3. fila' \in [Filas -> FilaT(ahora')]
  <2>1. FilaT(ahora) \subseteq FilaT(ahora')
    BY <1>2, TurnoDe DEF FilaT
  <2> QED
    BY <1>1, <2>1, TurnoDe
<1> QED
  BY <1>1, <1>2, <1>3, TurnoDe, DeAfuera

----------------------------------------------------------------------------
(* Every step, and the theorems.                                           *)

NoTomaVieja ==
  \A f \in Filas : fila[f].estado # "sending" /\ fila'[f].estado = "sending"
     => turno.inicio = f[1]

\* A step that touches no sending takes no row.
LEMMA SerenoNoToma ==
  ASSUME Sereno
  PROVE  NoTomaVieja
  BY DEF Sereno, SerenaFila, AvanzaFila, NoTomaVieja

\* Every step keeps the invariant and takes no row of another time ...
LEMMA RecPaso ==
  ASSUME RecInv, Next
  PROVE  RecInv' /\ NoTomaVieja
<1>1. ASSUME NEW i \in Inicios, Confirmar(i)
      PROVE  RecInv' /\ NoTomaVieja
  BY <1>1, ConfirmarInv, SerenoNoToma
<1>2. ASSUME NEW i \in Inicios, Reprogramar(i)
      PROVE  RecInv' /\ NoTomaVieja
  BY <1>2, ReprogramarInv, SerenoNoToma
<1>3. CASE Tocar
  BY <1>3, TocarInv, SerenoNoToma
<1>4. CASE Terminar
  BY <1>4, TerminarInv, SerenoNoToma
<1>5. CASE Tick
  BY <1>5, TickInv, SerenoNoToma
<1>6. ASSUME NEW p \in Procesos, Paso(p)
      PROVE  RecInv' /\ NoTomaVieja
  <2>1. CASE Empezar(p)
    BY <2>1, EmpezarInv, SerenoNoToma
  <2>2. CASE Invalidar(p)
    BY <2>2, InvalidarInv, SerenoNoToma
  <2>3. CASE LeerTurnos(p)
    BY <2>3, LeerTurnosInv, SerenoNoToma
  <2>4. CASE Programar(p)
    BY <2>4, ProgramarInv, SerenoNoToma
  <2>5. CASE Listar(p)
    BY <2>5, ListarInv, SerenoNoToma
  <2>6. ASSUME NEW f \in Filas, NEW conCuenta \in BOOLEAN, LeerFila(p, f, conCuenta)
        PROVE  RecInv' /\ NoTomaVieja
    BY <2>6, LeerFilaInv, SerenoNoToma
  <2>7. CASE Omitir(p)
    BY <2>7, OmitirInv, SerenoNoToma
  <2>8. CASE Tomar(p)
    BY <2>8, TomarInv DEF NoTomaVieja
  <2>9. CASE Registrar(p)
    BY <2>9, RegistrarInv DEF NoTomaVieja
  <2>10. ASSUME NEW res \in {"sent", "failed", "skipped"}, NEW sale \in BOOLEAN,
                Enviar(p, res, sale)
         PROVE  RecInv' /\ NoTomaVieja
    BY <2>10, EnviarInv DEF NoTomaVieja
  <2> QED
    BY <1>6, <2>1, <2>2, <2>3, <2>4, <2>5, <2>6, <2>7, <2>8, <2>9, <2>10 DEF Paso
<1>7. ASSUME NEW p \in Procesos, Caer(p)
      PROVE  RecInv' /\ NoTomaVieja
  BY <1>7, CaerInv DEF NoTomaVieja
<1> QED
  BY <1>1, <1>2, <1>3, <1>4, <1>5, <1>6, <1>7 DEF Next

\* ... and so does a step that changes nothing.
LEMMA RecQuieto ==
  ASSUME RecInv, UNCHANGED vars
  PROVE  RecInv' /\ NoTomaVieja
<1>1. UNCHANGED <<ahora, turno, fila, salieron, proc, huerfanas, cambios, fallas>>
  BY DEF vars
<1> QED
  BY <1>1, TurnoDe, DeAfuera, SerenoNoToma

\* The invariant holds at the start ...
LEMMA RecInicio ==
  ASSUME Init
  PROVE  RecInv
<1>1. /\ ahora = 0 /\ turno = [estado |-> "pedido", inicio |-> 0, act |-> 0]
      /\ fila = [f \in Filas |-> [estado |-> "no", reclamo |-> 0]]
      /\ salieron = [f \in Filas |-> 0] /\ proc = [p \in Procesos |-> Libre]
      /\ huerfanas = {} /\ cambios = 0 /\ fallas = 0
  BY DEF Init
<1>2. ahora \in 0..Horizonte /\ cambios \in 0..MaxCambios /\ fallas \in 0..MaxFallas
  BY <1>1, RecordatoriosAssumption
<1>3. turno \in Turno /\ salieron \in [Filas -> Nat]
  BY <1>1 DEF Turno
<1>4. fila \in [Filas -> FilaT(ahora)]
  BY <1>1 DEF FilaT, ESTADOS
<1>5. \A p \in Procesos : /\ proc[p] = Libre /\ proc[p] \in Barrido(ahora) /\ Sostiene(proc[p])
                          /\ ~\E f \in Filas : Envia(p, f)
  BY <1>1, LibreTipo DEF Libre, Envia
<1>6. Tipos
  BY <1>1, <1>2, <1>3, <1>4, <1>5
     DEF Tipos, TypeOK, ProcBien, Barrido, FilaT, RESULTADOS, Sostiene, SOSTIENEN
<1>7. \A f \in Filas : FilaBien(f)
  BY <1>1, <1>5 DEF FilaBien
<1>8. Conocidas
  BY <1>1, <1>5 DEF Conocidas, Libre
<1> QED
  BY <1>6, <1>7, <1>8 DEF RecInv

\* ... and hence always.
LEMMA RecSiempre == Spec => []RecInv
  BY RecInicio, RecPaso, RecQuieto, PTL DEF Spec

\* Every variable keeps to its type, no sweep is ahead of the clock, and a sweep
\* holds a row exactly while it takes, sends or closes it.
THEOREM TiposRecordatorios == Spec => []TypeOK
<1>1. RecInv => TypeOK
  BY DEF RecInv, Tipos
<1> QED
  BY <1>1, RecSiempre, PTL

\* A reminder leaves at most once, one process sends it, and the record of it does not
\* lie, although sweeps overlap, die and close each other's rows (enviar, omitir and
\* registrar of turnos-recordatorios.ts).
THEOREM CadaRecordatorioSaleUnaVez == Spec => []UnEnvioYAuditado
<1>1. RecInv => UnEnvioYAuditado
  BY DEF RecInv, FilaBien, UnEnvioYAuditado
<1> QED
  BY <1>1, RecSiempre, PTL

\* No sweep takes a reminder of a time the turno does not have any more, however
\* late it read and whatever is moved meanwhile.
THEOREM NuncaLaFechaVieja == Spec => FechaViejaNuncaSeToma
<1>1. RecInv /\ [Next]_vars =>
        [\A f \in Filas : fila[f].estado # "sending" /\ fila'[f].estado = "sending"
            => turno.inicio = f[1]]_vars
  BY RecPaso DEF NoTomaVieja
<1> QED
  BY <1>1, RecSiempre, PTL DEF Spec, FechaViejaNuncaSeToma
=============================================================================
