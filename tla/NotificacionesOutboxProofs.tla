---------------------- MODULE NotificacionesOutboxProofs ----------------------
(***************************************************************************)
(* Theorems about the delivery of notices, for any finite set of notices   *)
(* and processes.                                                          *)
(*                                                                         *)
(* The argument: a claim is never given twice (Distintos), because it is   *)
(* the attempt it makes and a row only gains attempts; so what a process   *)
(* knows of its row (Conoce) is disturbed by no other process.  Deliveries *)
(* and attempts are then counted against what went wrong (Cuentas).        *)
(***************************************************************************)
EXTENDS NotificacionesOutbox, FiniteSetTheorems, TLAPS

TRABAJA == {"entregar", "anotar"}
FINALES == {"published", "dead-letter"}

\* What a process knows of the row it is at.  Until something fails its claim is
\* in force.
Conoce(p) ==
  /\ En(p, "reclamar") => proceso[p].leidos <= fila[De(p)].intentos
  /\ proceso[p].paso \in TRABAJA =>
       proceso[p].leidos < proceso[p].reclamo /\ proceso[p].reclamo <= fila[De(p)].intentos
  /\ En(p, "anotar") /\ proceso[p].bien => entregas[De(p)] > 0
  /\ fallas = 0 /\ proceso[p].paso \in TRABAJA => Suyo(p) /\ fila[De(p)].plazo > 0

Conocen == \A p \in Procesos : Conoce(p)

Comparten(p, q) ==
  /\ proceso[p].paso \in TRABAJA /\ proceso[q].paso \in TRABAJA
  /\ De(p) = De(q) /\ proceso[p].reclamo = proceso[q].reclamo

\* No two processes have the same claim.
Distintos == \A p, q \in Procesos : Comparten(p, q) => p = q

Entrego(p, a) == En(p, "anotar") /\ proceso[p].bien /\ De(p) = a

\* What a row says, and what was delivered is recorded unless something failed.
FilaCierta(a) ==
  /\ fila[a].estado \in FINALES => fila[a].plazo = 0
  /\ fila[a].estado = "published" => entregas[a] > 0
  /\ fila[a].estado = "dead-letter" => fila[a].intentos >= MaxIntentos
  /\ fallas = 0 /\ entregas[a] > 0 => fila[a].estado = "published" \/ \E p \in Procesos : Entrego(p, a)

Ciertas == \A a \in Avisos : FilaCierta(a)

IInv == TypeOK /\ Conocen /\ Distintos /\ Ciertas
----------------------------------------------------------------------------
(* Types.                                                                  *)

\* A wait is a number.
LEMMA DemoraTipo == ASSUME NEW n PROVE Demora(n) \in Nat
<1> DEFINE d == 2^(n - 1)
<1> HIDE DEF d
<1>1. (IF d \in 1..MaxDemora THEN d ELSE MaxDemora) \in Nat
  BY OutboxAssumption
<1>2. QED
  BY <1>1 DEF Demora, d

\* A drain that ended, or that looks for a row, is well typed.
LEMMA LibreTipo ==
  /\ Libre \in Proceso /\ Libre.paso = "libre"
  /\ \A n \in Nat : Buscando(n) \in Proceso /\ Buscando(n).paso = "buscar"
BY DEF Libre, Buscando, Proceso

\* Moving one drain leaves the others where they were.
LEMMA MueveTipo ==
  ASSUME TypeOK, NEW p \in Procesos, NEW x \in Proceso, Mueve(p, x),
         x.paso \in {"reclamar", "entregar", "anotar"} => x.aviso \in Avisos
  PROVE  /\ proceso' \in [Procesos -> Proceso] /\ proceso'[p] = x
         /\ \A q \in Procesos : q # p => proceso'[q] = proceso[q]
         /\ \A q \in Procesos : proceso'[q].paso \in {"reclamar", "entregar", "anotar"} => De(q)' \in Avisos
BY DEF TypeOK, Mueve, De

\* Writing one row leaves the others as they were.
LEMMA UnaFila ==
  ASSUME TypeOK, NEW a \in Avisos, NEW f \in Fila, fila' = [fila EXCEPT ![a] = f]
  PROVE  /\ fila' \in [Avisos -> Fila] /\ fila'[a] = f
         /\ \A b \in Avisos : b # a => fila'[b] = fila[b]
BY DEF TypeOK

\* A drain past its read is at a notice.
LEMMA AvisoDe ==
  ASSUME TypeOK, NEW p \in Procesos, proceso[p].paso \in {"reclamar", "entregar", "anotar"}
  PROVE  De(p) \in Avisos /\ fila[De(p)] \in Fila /\ entregas[De(p)] \in Nat
BY DEF TypeOK

\* What is left of a time is a number.
LEMMA MenosTipo == ASSUME NEW n \in Nat PROVE Menos(n) \in Nat
BY DEF Menos

\* What each action writes, field by field.
LEMMA EncolarEscribe ==
  ASSUME TypeOK, NEW a \in Avisos, Encolar(a)
  PROVE  LET f == [fila[a] EXCEPT !.estado = "pending"] IN f \in Fila /\ fila' = [fila EXCEPT ![a] = f]
<1>1. fila[a] \in Fila /\ fila \in [Avisos -> Fila]
  BY DEF TypeOK
<1> DEFINE f == [fila[a] EXCEPT !.estado = "pending"]
<1>2. f \in Fila
  BY <1>1 DEF Fila
<1>3. fila' = [fila EXCEPT ![a].estado = "pending"]
  BY DEF Encolar
<1>4. fila' = [fila EXCEPT ![a] = f]
  BY <1>1, <1>3
<1>5. QED
  BY <1>2, <1>4

\* Rows whose lease ran out are pending again.
LEMMA DespertarEscribe ==
  ASSUME TypeOK, NEW p \in Procesos, Despertar(p)
  PROVE  /\ fila' \in [Avisos -> Fila]
         /\ \A a \in Avisos :
              \/ fila'[a] = fila[a]
              \/ Vencida(a) /\ fila'[a] = [estado |-> "pending", intentos |-> fila[a].intentos, plazo |-> fila[a].plazo, reclamo |-> 0]
         /\ Mueve(p, Buscando(0))
<1>1. \A a \in Avisos : fila[a] \in Fila
  BY DEF TypeOK
<1>2. \A a \in Avisos :
        LET f == [fila[a] EXCEPT !.estado = "pending", !.reclamo = 0] IN
        f \in Fila /\ f = [estado |-> "pending", intentos |-> fila[a].intentos, plazo |-> fila[a].plazo, reclamo |-> 0]
  <2>1. SUFFICES ASSUME NEW a \in Avisos
                 PROVE  LET f == [fila[a] EXCEPT !.estado = "pending", !.reclamo = 0] IN
                        f \in Fila /\ f = [estado |-> "pending", intentos |-> fila[a].intentos, plazo |-> fila[a].plazo, reclamo |-> 0]
    OBVIOUS
  <2> DEFINE c == fila[a]
             f == [c EXCEPT !.estado = "pending", !.reclamo = 0]
  <2>2. c \in Fila
    BY <1>1
  <2> HIDE DEF c
  <2>3. f = [estado |-> "pending", intentos |-> c.intentos, plazo |-> c.plazo, reclamo |-> 0]
    <3> DEFINE y == [c EXCEPT !.estado = "pending"]
    <3>1. y = [estado |-> "pending", intentos |-> c.intentos, plazo |-> c.plazo, reclamo |-> c.reclamo]
      BY <2>2 DEF Fila
    <3>2. f = [y EXCEPT !.reclamo = 0]
      BY <2>2 DEF Fila
    <3> HIDE DEF y, f
    <3>3. QED
      BY <3>1, <3>2
  <2>4. c.intentos \in Nat /\ c.plazo \in Nat
    BY <2>2 DEF Fila
  <2>5. [estado |-> "pending", intentos |-> c.intentos, plazo |-> c.plazo, reclamo |-> 0] \in Fila
    BY <2>4 DEF Fila
  <2>6. QED
    BY <2>3, <2>5 DEF c
<1>3. QED
  BY <1>1, <1>2 DEF Despertar

\* What it read of the row is what the row says.
LEMMA BuscarEscribe ==
  ASSUME TypeOK, NEW p \in Procesos, Buscar(p)
  PROVE  \E x \in Proceso :
           /\ Mueve(p, x)
           /\ \/ x.paso = "libre"
              \/ x.paso = "reclamar" /\ x.aviso \in Avisos /\ x.leidos = fila[x.aviso].intentos
<1>1. CASE proceso[p].hechos < Limite /\ Disponibles # {}
  <2>1. PICK a \in Disponibles : Mueve(p, [proceso[p] EXCEPT !.paso = "reclamar", !.aviso = a, !.leidos = fila[a].intentos])
    BY <1>1 DEF Buscar
  <2>2. a \in Avisos
    BY DEF Disponibles
  <2>3. fila[a].intentos \in Nat /\ proceso[p] \in Proceso
    BY <2>2 DEF TypeOK, Fila
  <2> DEFINE n == fila[a].intentos
             x == [proceso[p] EXCEPT !.paso = "reclamar", !.aviso = a, !.leidos = n]
  <2>4. n \in Nat /\ Mueve(p, x)
    BY <2>1, <2>3
  <2> HIDE DEF n
  <2>5. x \in Proceso /\ x.paso = "reclamar" /\ x.aviso = a /\ x.leidos = n
    BY <2>2, <2>3, <2>4 DEF Proceso
  <2> HIDE DEF x
  <2>6. QED
    BY <2>2, <2>4, <2>5 DEF n
<1>2. CASE ~(proceso[p].hechos < Limite /\ Disponibles # {})
  BY <1>2, LibreTipo DEF Buscar
<1>3. QED
  BY <1>1, <1>2

\* A claim is the attempt it makes.
LEMMA ReclamarEscribe ==
  ASSUME TypeOK, NEW p \in Procesos, Reclamar(p), Reclamable(De(p))
  PROVE  LET a == De(p)
             n == fila[a].intentos + 1
             f == [estado |-> "processing", intentos |-> n, plazo |-> Arriendo, reclamo |-> n]
             x == [proceso[p] EXCEPT !.paso = "entregar", !.reclamo = n]
         IN  /\ a \in Avisos /\ n \in Nat /\ fila[a].estado = "pending"
             /\ f \in Fila /\ fila' = [fila EXCEPT ![a] = f]
             /\ x \in Proceso /\ Mueve(p, x)
             /\ x.paso = "entregar" /\ x.reclamo = n /\ x.aviso = a /\ x.leidos = proceso[p].leidos
             /\ UNCHANGED <<entregas, fallas>>
<1> DEFINE a == De(p)
           n == fila[a].intentos + 1
<1>1. a \in Avisos /\ fila[a] \in Fila
  BY AvisoDe DEF Reclamar, En
<1>2. n \in Nat
  BY <1>1 DEF Fila
<1>3. proceso[p] \in Proceso /\ proceso[p].aviso = a
  BY DEF TypeOK, De
<1>4. fila' = [fila EXCEPT ![a] = [estado |-> "processing", intentos |-> n, plazo |-> Arriendo, reclamo |-> n]]
      /\ Mueve(p, [proceso[p] EXCEPT !.paso = "entregar", !.reclamo = n]) /\ UNCHANGED <<entregas, fallas>>
  BY DEF Reclamar
<1>5. fila[a].estado = "pending"
  BY DEF Reclamable
<1> HIDE DEF a, n
<1>6. [estado |-> "processing", intentos |-> n, plazo |-> Arriendo, reclamo |-> n] \in Fila
  BY <1>2, OutboxAssumption DEF Fila
<1> DEFINE x == [proceso[p] EXCEPT !.paso = "entregar", !.reclamo = n]
<1>7. x \in Proceso /\ x.paso = "entregar" /\ x.reclamo = n /\ x.aviso = a /\ x.leidos = proceso[p].leidos
  BY <1>2, <1>3 DEF Proceso
<1> HIDE DEF x
<1>8. QED
  BY <1>1, <1>2, <1>4, <1>5, <1>6, <1>7 DEF a, n, x

\* The outcome of a delivery: published, given up, or pending again while attempts are left.
LEMMA AnotadaTipo ==
  ASSUME TypeOK, NEW p \in Procesos, En(p, "anotar")
  PROVE  /\ Anotada(p) \in Fila /\ Anotada(p).reclamo = 0 /\ Anotada(p).intentos = fila[De(p)].intentos
         /\ \/ proceso[p].bien /\ Anotada(p).estado = "published" /\ Anotada(p).plazo = 0
            \/ ~proceso[p].bien /\ Agotado(p) /\ Anotada(p).estado = "dead-letter" /\ Anotada(p).plazo = 0
            \/ ~proceso[p].bien /\ ~Agotado(p) /\ Anotada(p).estado = "pending"
<1>1. fila[De(p)] \in Fila /\ proceso[p] \in Proceso
  BY AvisoDe DEF En, TypeOK
<1>2. Demora(proceso[p].leidos + 1) \in Nat
  BY DemoraTipo
<1> DEFINE c == fila[De(p)]
           f == [c EXCEPT !.reclamo = 0]
           d == Demora(proceso[p].leidos + 1)
<1>3. f \in Fila /\ f.reclamo = 0 /\ f.intentos = c.intentos
  BY <1>1 DEF Fila
<1>4. Anotada(p) = CASE proceso[p].bien -> [f EXCEPT !.estado = "published", !.plazo = 0]
                    [] ~proceso[p].bien /\ Agotado(p) -> [f EXCEPT !.estado = "dead-letter", !.plazo = 0]
                    [] OTHER -> [f EXCEPT !.estado = "pending", !.plazo = d]
  BY DEF Anotada
<1>5. proceso[p].bien \in BOOLEAN
  BY <1>1 DEF Proceso
<1> HIDE DEF f, c, d
<1>6. CASE proceso[p].bien
  <2>1. Anotada(p) = [f EXCEPT !.estado = "published", !.plazo = 0]
    BY <1>4, <1>6
  <2>2. QED
    BY <1>3, <1>6, <2>1 DEF Fila, c
<1>7. CASE ~proceso[p].bien /\ Agotado(p)
  <2>1. Anotada(p) = [f EXCEPT !.estado = "dead-letter", !.plazo = 0]
    BY <1>4, <1>7
  <2>2. QED
    BY <1>3, <1>7, <2>1 DEF Fila, c
<1>8. CASE ~proceso[p].bien /\ ~Agotado(p)
  <2>1. Anotada(p) = [f EXCEPT !.estado = "pending", !.plazo = d]
    BY <1>4, <1>8
  <2>2. d \in Nat
    BY <1>2 DEF d
  <2>3. QED
    BY <1>3, <1>8, <2>1, <2>2 DEF Fila, c
<1>9. QED
  BY <1>5, <1>6, <1>7, <1>8

\* Time only shortens what is left.
LEMMA TickEscribe ==
  ASSUME TypeOK, Tick
  PROVE  /\ fila' \in [Avisos -> Fila]
         /\ \A a \in Avisos :
              /\ fila'[a].estado = fila[a].estado /\ fila'[a].intentos = fila[a].intentos
              /\ fila'[a].reclamo = fila[a].reclamo /\ fila'[a].plazo = Menos(fila[a].plazo)
              /\ fila[a].plazo = 0 => fila'[a] = fila[a]
<1>1. \A a \in Avisos : fila[a] \in Fila
  BY DEF TypeOK
<1>2. \A a \in Avisos : fila'[a] = [fila[a] EXCEPT !.plazo = Menos(fila[a].plazo)]
  BY DEF Tick
<1>3. \A a \in Avisos : Menos(fila[a].plazo) \in Nat /\ (fila[a].plazo = 0 => Menos(fila[a].plazo) = 0)
  BY <1>1, MenosTipo DEF Fila, Menos
<1>4. \A a \in Avisos : fila'[a] \in Fila
  BY <1>1, <1>2, <1>3 DEF Fila
<1>5. fila' \in [Avisos -> Fila]
  <2>1. fila' = [a \in Avisos |-> [fila[a] EXCEPT !.plazo = Menos(@)]]
    BY DEF Tick
  <2>2. QED
    BY <1>4, <2>1
<1>6. QED
  BY <1>1, <1>2, <1>3, <1>5 DEF Fila
----------------------------------------------------------------------------
(* One step.                                                               *)

\* What every step respects: attempts, deliveries and failures only grow.
Crece ==
  /\ \A a \in Avisos : fila[a].intentos <= fila'[a].intentos /\ entregas[a] <= entregas'[a]
  /\ fallas' = 0 => fallas = 0

\* A process that does not move goes on knowing, if its claim is still in force.
LEMMA SigueConociendo ==
  ASSUME TypeOK, TypeOK', Crece, NEW p \in Procesos, Conoce(p), proceso'[p] = proceso[p],
         (fallas' = 0 /\ proceso[p].paso \in TRABAJA /\ Suyo(p) /\ fila[De(p)].plazo > 0) =>
           Suyo(p)' /\ fila'[De(p)].plazo > 0
  PROVE  Conoce(p)'
<1>1. De(p)' = De(p) /\ \A s \in STRING : En(p, s)' <=> En(p, s)
  BY DEF De, En
<1>2. proceso[p] \in Proceso
  BY DEF TypeOK
<1>3. CASE proceso[p].paso \notin {"reclamar", "entregar", "anotar"}
  BY <1>3 DEF Conoce, En, TRABAJA
<1>4. CASE proceso[p].paso \in {"reclamar", "entregar", "anotar"}
  <2> DEFINE a == De(p)
  <2>1. a \in Avisos /\ fila[a] \in Fila /\ fila'[a] \in Fila /\ entregas[a] \in Nat /\ entregas'[a] \in Nat
    BY <1>4, AvisoDe DEF TypeOK
  <2>2. /\ fila[a].intentos \in Nat /\ fila'[a].intentos \in Nat /\ fila[a].intentos <= fila'[a].intentos
        /\ proceso[p].leidos \in Nat /\ proceso[p].reclamo \in Nat /\ entregas[a] <= entregas'[a]
    BY <1>2, <2>1 DEF Fila, Proceso, Crece
  <2>3. En(p, "reclamar") => proceso'[p].leidos <= fila'[a].intentos
    BY <2>2 DEF Conoce
  <2>4. proceso[p].paso \in TRABAJA => proceso'[p].leidos < proceso'[p].reclamo /\ proceso'[p].reclamo <= fila'[a].intentos
    BY <2>2 DEF Conoce
  <2>5. En(p, "anotar") /\ proceso[p].bien => entregas'[a] > 0
    BY <2>1, <2>2 DEF Conoce
  <2>6. fallas' = 0 /\ proceso[p].paso \in TRABAJA => Suyo(p)' /\ fila'[a].plazo > 0
    BY DEF Conoce, Crece
  <2> HIDE DEF a
  <2>7. De(p)' = a
    BY <1>1 DEF a
  <2>8. QED
    BY <1>1, <2>3, <2>4, <2>5, <2>6, <2>7 DEF Conoce, En
<1>5. QED
  BY <1>3, <1>4

\* Claims stay apart when who moves takes none.
LEMMA SiguenDistintos ==
  ASSUME Distintos, NEW p \in Procesos, NEW x, proceso'[p] = x,
         \A q \in Procesos : q # p => proceso'[q] = proceso[q],
         x.paso \in TRABAJA => proceso[p].paso \in TRABAJA /\ x.aviso = De(p) /\ x.reclamo = proceso[p].reclamo
  PROVE  Distintos'
<1>1. \A q \in Procesos :
        proceso'[q].paso \in TRABAJA =>
          proceso[q].paso \in TRABAJA /\ proceso'[q].aviso = proceso[q].aviso /\ proceso'[q].reclamo = proceso[q].reclamo
  BY DEF De
<1>2. QED
  BY <1>1 DEF Distintos, Comparten, De

\* Queuing a notice keeps the invariant ...
LEMMA EncolarPaso ==
  ASSUME IInv, NEW a \in Avisos, Encolar(a)
  PROVE  IInv'
<1> USE DEF IInv
<1> DEFINE f == [fila[a] EXCEPT !.estado = "pending"]
<1>1. f \in Fila /\ fila' = [fila EXCEPT ![a] = f] /\ fila[a] \in Fila
  BY EncolarEscribe DEF TypeOK
<1>2. f.estado = "pending" /\ f.intentos = fila[a].intentos /\ fila[a].estado = "no"
  BY <1>1 DEF Encolar, Fila
<1> HIDE DEF f
<1>3. UNCHANGED <<proceso, entregas, fallas>>
  BY DEF Encolar
<1>4. fila' \in [Avisos -> Fila] /\ fila'[a] = f /\ \A b \in Avisos : b # a => fila'[b] = fila[b]
  BY <1>1, UnaFila
<1>5. TypeOK'
  BY <1>3, <1>4 DEF TypeOK, De
<1>6. Crece
  <2>1. \A b \in Avisos : fila[b].intentos \in Nat /\ entregas[b] \in Nat
    BY DEF TypeOK, Fila
  <2>2. \A b \in Avisos : fila'[b].intentos = fila[b].intentos
    BY <1>2, <1>4
  <2>3. QED
    BY <1>3, <2>1, <2>2 DEF Crece
<1>7. \A p \in Procesos : Conoce(p)'
  <2>1. SUFFICES ASSUME NEW p \in Procesos, proceso[p].paso \in TRABAJA, Suyo(p), fila[De(p)].plazo > 0
                 PROVE  Suyo(p)' /\ fila'[De(p)].plazo > 0
    BY <1>3, <1>5, <1>6, SigueConociendo DEF Conocen
  <2>2. De(p) \in Avisos /\ De(p) # a
    BY <1>2, <2>1, AvisoDe DEF Suyo, TRABAJA
  <2>3. QED
    BY <1>3, <1>4, <2>1, <2>2 DEF Suyo, De
<1>8. Distintos'
  BY <1>3 DEF Distintos, Comparten, De
<1>9. Ciertas'
  <2>1. SUFFICES ASSUME NEW b \in Avisos PROVE FilaCierta(b)'
    BY DEF Ciertas
  <2>2. FilaCierta(b)
    BY DEF Ciertas
  <2>3. b = a => fila'[b].estado = "pending" /\ fila[b].estado = "no"
    BY <1>2, <1>4
  <2>4. \A p \in Procesos : Entrego(p, b)' <=> Entrego(p, b)
    BY <1>3 DEF Entrego, En, De
  <2>5. QED
    BY <1>3, <1>4, <2>2, <2>3, <2>4 DEF FilaCierta, FINALES
<1>10. QED
  BY <1>5, <1>7, <1>8, <1>9 DEF Conocen

\* ... and so does giving back what ran out ...
LEMMA DespertarPaso ==
  ASSUME IInv, NEW p \in Procesos, Despertar(p)
  PROVE  IInv'
<1> USE DEF IInv
<1> DEFINE x == Buscando(0)
<1>1. /\ fila' \in [Avisos -> Fila]
      /\ \A a \in Avisos :
           \/ fila'[a] = fila[a]
           \/ Vencida(a) /\ fila'[a] = [estado |-> "pending", intentos |-> fila[a].intentos, plazo |-> fila[a].plazo, reclamo |-> 0]
      /\ Mueve(p, x)
  BY DespertarEscribe
<1>2. x \in Proceso /\ x.paso = "buscar" /\ UNCHANGED <<entregas, fallas>> /\ proceso[p].paso = "libre"
  BY LibreTipo DEF Despertar, En
<1> HIDE DEF x
<1>3. /\ proceso' \in [Procesos -> Proceso] /\ proceso'[p] = x
      /\ \A q \in Procesos : q # p => proceso'[q] = proceso[q]
      /\ \A q \in Procesos : proceso'[q].paso \in {"reclamar", "entregar", "anotar"} => De(q)' \in Avisos
  BY <1>1, <1>2, MueveTipo
<1>4. TypeOK'
  BY <1>1, <1>2, <1>3 DEF TypeOK
<1>5. Crece
  <2>1. \A b \in Avisos : fila[b].intentos \in Nat /\ entregas[b] \in Nat
    BY DEF TypeOK, Fila
  <2>2. \A b \in Avisos : fila'[b].intentos = fila[b].intentos
    BY <1>1
  <2>3. QED
    BY <1>2, <2>1, <2>2 DEF Crece
<1>6. \A q \in Procesos : Conoce(q)'
  <2>1. Conoce(p)'
    BY <1>2, <1>3 DEF Conoce, En, TRABAJA
  <2>2. ASSUME NEW q \in Procesos, q # p PROVE Conoce(q)'
    <3>1. SUFFICES ASSUME proceso[q].paso \in TRABAJA, Suyo(q), fila[De(q)].plazo > 0
                   PROVE  Suyo(q)' /\ fila'[De(q)].plazo > 0
      BY <1>3, <1>4, <1>5, <2>2, SigueConociendo DEF Conocen
    <3>2. De(q) \in Avisos /\ fila[De(q)] \in Fila
      BY <3>1, AvisoDe DEF TRABAJA
    <3>3. ~Vencida(De(q))
      BY <3>1, <3>2 DEF Vencida, Fila
    <3>4. fila'[De(q)] = fila[De(q)] /\ proceso'[q] = proceso[q]
      BY <1>1, <1>3, <2>2, <3>2, <3>3
    <3>5. QED
      BY <3>1, <3>4 DEF Suyo, De
  <2>3. QED
    BY <2>1, <2>2
<1>7. Distintos'
  BY <1>2, <1>3, SiguenDistintos DEF TRABAJA
<1>8. Ciertas'
  <2>1. SUFFICES ASSUME NEW b \in Avisos PROVE FilaCierta(b)'
    BY DEF Ciertas
  <2>2. FilaCierta(b)
    BY DEF Ciertas
  <2>3. fila'[b] = fila[b] \/ (fila[b].estado = "processing" /\ fila'[b].estado = "pending")
    BY <1>1 DEF Vencida
  <2>4. \A q \in Procesos : Entrego(q, b) => Entrego(q, b)'
    BY <1>2, <1>3 DEF Entrego, En, De
  <2>5. QED
    BY <1>2, <2>2, <2>3, <2>4 DEF FilaCierta, FINALES
<1>9. QED
  BY <1>4, <1>6, <1>7, <1>8 DEF Conocen
\* ... reading a row ...
LEMMA BuscarPaso ==
  ASSUME IInv, NEW p \in Procesos, Buscar(p)
  PROVE  IInv'
<1> USE DEF IInv
<1>1. PICK x \in Proceso :
        /\ Mueve(p, x)
        /\ \/ x.paso = "libre"
           \/ x.paso = "reclamar" /\ x.aviso \in Avisos /\ x.leidos = fila[x.aviso].intentos
  BY BuscarEscribe
<1>2. UNCHANGED <<fila, entregas, fallas>> /\ proceso[p].paso = "buscar"
  BY DEF Buscar, En
<1>3. /\ proceso' \in [Procesos -> Proceso] /\ proceso'[p] = x
      /\ \A q \in Procesos : q # p => proceso'[q] = proceso[q]
      /\ \A q \in Procesos : proceso'[q].paso \in {"reclamar", "entregar", "anotar"} => De(q)' \in Avisos
  BY <1>1, MueveTipo
<1>4. TypeOK'
  BY <1>2, <1>3 DEF TypeOK
<1>5. Crece
  BY <1>2 DEF TypeOK, Fila, Crece
<1>6. Conoce(p)'
  <2>1. x.paso = "reclamar" => fila[x.aviso].intentos \in Nat
    BY <1>1 DEF TypeOK, Fila
  <2>2. QED
    BY <1>1, <1>2, <1>3, <2>1 DEF Conoce, En, De, TRABAJA
<1>7. \A q \in Procesos : q # p => Conoce(q)'
  BY <1>2, <1>3, <1>4, <1>5, SigueConociendo DEF Conocen, Suyo, De
<1>8. Distintos'
  BY <1>1, <1>3, SiguenDistintos DEF TRABAJA
<1>9. Ciertas'
  <2>1. \A q \in Procesos, b \in Avisos : Entrego(q, b) => Entrego(q, b)'
    BY <1>2, <1>3 DEF Entrego, En, De
  <2>2. QED
    BY <1>2, <2>1 DEF Ciertas, FilaCierta
<1>10. QED
  BY <1>4, <1>6, <1>7, <1>8, <1>9 DEF Conocen

\* ... claiming it ...
LEMMA ReclamarPaso ==
  ASSUME IInv, NEW p \in Procesos, Reclamar(p)
  PROVE  IInv'
<1> USE DEF IInv
<1>0. CASE ~Reclamable(De(p))
  <2> DEFINE x == Buscando(proceso[p].hechos)
  <2>1. Mueve(p, x) /\ UNCHANGED <<fila, entregas, fallas>> /\ proceso[p].paso = "reclamar"
    BY <1>0 DEF Reclamar, En
  <2>2. x \in Proceso /\ x.paso = "buscar"
    <3>1. proceso[p].hechos \in Nat
      BY DEF TypeOK, Proceso
    <3>2. QED
      BY <3>1, LibreTipo
  <2> HIDE DEF x
  <2>3. /\ proceso' \in [Procesos -> Proceso] /\ proceso'[p] = x
        /\ \A q \in Procesos : q # p => proceso'[q] = proceso[q]
        /\ \A q \in Procesos : proceso'[q].paso \in {"reclamar", "entregar", "anotar"} => De(q)' \in Avisos
    BY <2>1, <2>2, MueveTipo
  <2>4. TypeOK'
    BY <2>1, <2>3 DEF TypeOK
  <2>5. Crece
    BY <2>1 DEF TypeOK, Fila, Crece
  <2>6. Conoce(p)'
    BY <2>2, <2>3 DEF Conoce, En, TRABAJA
  <2>7. \A q \in Procesos : q # p => Conoce(q)'
    BY <2>1, <2>3, <2>4, <2>5, SigueConociendo DEF Conocen, Suyo, De
  <2>8. Distintos'
    BY <2>2, <2>3, SiguenDistintos DEF TRABAJA
  <2>9. \A q \in Procesos, b \in Avisos : Entrego(q, b) => Entrego(q, b)'
    BY <2>1, <2>3 DEF Entrego, En, De
  <2>10. Ciertas'
    BY <2>1, <2>9 DEF Ciertas, FilaCierta
  <2>11. QED
    BY <2>4, <2>6, <2>7, <2>8, <2>10 DEF Conocen
<1>1. CASE Reclamable(De(p))
  <2> DEFINE a == De(p)
             n == fila[a].intentos + 1
             f == [estado |-> "processing", intentos |-> n, plazo |-> Arriendo, reclamo |-> n]
             x == [proceso[p] EXCEPT !.paso = "entregar", !.reclamo = n]
  <2>1. /\ a \in Avisos /\ n \in Nat /\ fila[a].estado = "pending"
        /\ f \in Fila /\ fila' = [fila EXCEPT ![a] = f]
        /\ x \in Proceso /\ Mueve(p, x)
        /\ x.paso = "entregar" /\ x.reclamo = n /\ x.aviso = a /\ x.leidos = proceso[p].leidos
        /\ UNCHANGED <<entregas, fallas>>
    BY <1>1, ReclamarEscribe
  <2>2. f.estado = "processing" /\ f.intentos = n /\ f.reclamo = n /\ f.plazo = Arriendo
    OBVIOUS
  <2>3. n = fila[a].intentos + 1 /\ fila[a].intentos \in Nat /\ proceso[p].leidos \in Nat /\ proceso[p].leidos <= fila[a].intentos
    BY <2>1 DEF TypeOK, Fila, Proceso, Conocen, Conoce, Reclamar
  <2>4. proceso[p].paso = "reclamar" /\ proceso[p].aviso = a
    BY DEF Reclamar, En, De
  <2> HIDE DEF f, x, n
  <2>5. fila' \in [Avisos -> Fila] /\ fila'[a] = f /\ \A b \in Avisos : b # a => fila'[b] = fila[b]
    BY <2>1, UnaFila
  <2>6. /\ proceso' \in [Procesos -> Proceso] /\ proceso'[p] = x
        /\ \A q \in Procesos : q # p => proceso'[q] = proceso[q]
        /\ \A q \in Procesos : proceso'[q].paso \in {"reclamar", "entregar", "anotar"} => De(q)' \in Avisos
    BY <2>1, MueveTipo
  <2>7. TypeOK'
    BY <2>1, <2>5, <2>6 DEF TypeOK
  <2>8. Crece
    <3>1. \A b \in Avisos : fila[b].intentos \in Nat /\ entregas[b] \in Nat
      BY DEF TypeOK, Fila
    <3>2. \A b \in Avisos : fila[b].intentos <= fila'[b].intentos
      BY <2>2, <2>3, <2>5, <3>1
    <3>3. QED
      BY <2>1, <3>1, <3>2 DEF Crece
  <2>9. Conoce(p)'
    <3>1. De(p)' = a
      BY <2>1, <2>6 DEF De
    <3>2. Suyo(p)' /\ fila'[a].plazo > 0
      BY <2>1, <2>2, <2>5, <2>6, <3>1, OutboxAssumption DEF Suyo
    <3>3. proceso'[p].leidos < proceso'[p].reclamo /\ proceso'[p].reclamo <= fila'[a].intentos
      BY <2>1, <2>2, <2>3, <2>5, <2>6
    <3>4. QED
      BY <2>1, <2>6, <3>1, <3>2, <3>3 DEF Conoce, En
  <2>10. ASSUME NEW q \in Procesos, q # p PROVE Conoce(q)'
    <3>1. SUFFICES ASSUME proceso[q].paso \in TRABAJA, Suyo(q), fila[De(q)].plazo > 0
                   PROVE  Suyo(q)' /\ fila'[De(q)].plazo > 0
      BY <2>6, <2>7, <2>8, <2>10, SigueConociendo DEF Conocen
    <3>2. De(q) \in Avisos
      BY <3>1, AvisoDe DEF TRABAJA
    <3>3. De(q) # a
      BY <2>1, <3>1 DEF Suyo
    <3>4. fila'[De(q)] = fila[De(q)] /\ proceso'[q] = proceso[q]
      BY <2>5, <2>6, <2>10, <3>2, <3>3
    <3>5. QED
      BY <3>1, <3>4 DEF Suyo, De
  <2>11. Distintos'
    <3>1. \A q \in Procesos : q # p /\ proceso[q].paso \in TRABAJA /\ De(q) = a => proceso[q].reclamo # n
      <4>1. SUFFICES ASSUME NEW q \in Procesos, proceso[q].paso \in TRABAJA, De(q) = a PROVE proceso[q].reclamo # n
        OBVIOUS
      <4>2. proceso[q].reclamo \in Nat /\ proceso[q].reclamo <= fila[a].intentos
        BY <4>1 DEF Conocen, Conoce, TypeOK, Proceso
      <4>3. QED
        BY <2>3, <4>2
    <3>2. \A q \in Procesos : q # p => ~Comparten(p, q)' /\ ~Comparten(q, p)'
      BY <2>1, <2>6, <3>1 DEF Comparten, De
    <3>3. \A q, r \in Procesos : q # p /\ r # p /\ Comparten(q, r)' => Comparten(q, r)
      BY <2>6 DEF Comparten, De
    <3>4. QED
      BY <3>2, <3>3 DEF Distintos
  <2>12. Ciertas'
    <3>1. SUFFICES ASSUME NEW b \in Avisos PROVE FilaCierta(b)'
      BY DEF Ciertas
    <3>2. FilaCierta(b)
      BY DEF Ciertas
    <3>3. fila'[b] = fila[b] \/ (fila[b].estado = "pending" /\ fila'[b].estado = "processing")
      BY <2>1, <2>2, <2>5
    <3>4. \A q \in Procesos : Entrego(q, b) => Entrego(q, b)'
      BY <2>4, <2>6 DEF Entrego, En, De
    <3>5. QED
      BY <2>1, <3>2, <3>3, <3>4 DEF FilaCierta, FINALES
  <2>13. QED
    BY <2>7, <2>9, <2>10, <2>11, <2>12 DEF Conocen
<1>2. QED
  BY <1>0, <1>1
\* ... delivering ...
LEMMA EntregarPaso ==
  ASSUME IInv, NEW p \in Procesos, NEW bien \in BOOLEAN, Entregar(p, bien)
  PROVE  IInv'
<1> USE DEF IInv
<1> DEFINE a == De(p)
           x == [proceso[p] EXCEPT !.paso = "anotar", !.bien = bien]
<1>1. a \in Avisos /\ entregas[a] \in Nat /\ proceso[p].paso = "entregar" /\ proceso[p].aviso = a
  BY AvisoDe DEF Entregar, En, De
<1>2. proceso[p] \in Proceso
  BY DEF TypeOK
<1>3. entregas' = (IF bien THEN [entregas EXCEPT ![a] = @ + 1] ELSE entregas) /\ Mueve(p, x) /\ UNCHANGED <<fila, fallas>>
  BY DEF Entregar
<1> HIDE DEF a
<1>4. /\ x \in Proceso /\ x.paso = "anotar" /\ x.bien = bien /\ x.aviso = a
      /\ x.leidos = proceso[p].leidos /\ x.reclamo = proceso[p].reclamo
  BY <1>1, <1>2 DEF Proceso
<1> HIDE DEF x
<1>5. /\ proceso' \in [Procesos -> Proceso] /\ proceso'[p] = x
      /\ \A q \in Procesos : q # p => proceso'[q] = proceso[q]
      /\ \A q \in Procesos : proceso'[q].paso \in {"reclamar", "entregar", "anotar"} => De(q)' \in Avisos
  BY <1>1, <1>3, <1>4, MueveTipo
<1>6. entregas \in [Avisos -> Nat]
  BY DEF TypeOK
<1>7. /\ entregas' \in [Avisos -> Nat]
      /\ bien => entregas'[a] > 0
      /\ \A b \in Avisos : entregas[b] <= entregas'[b] /\ (b # a \/ ~bien => entregas'[b] = entregas[b])
  <2>1. CASE bien
    BY <1>1, <1>3, <1>6, <2>1
  <2>2. CASE ~bien
    BY <1>3, <1>6, <2>2
  <2>3. QED
    BY <2>1, <2>2
<1>8. TypeOK'
  BY <1>3, <1>5, <1>7 DEF TypeOK
<1>9. Crece
  <2>1. \A b \in Avisos : fila[b].intentos \in Nat
    BY DEF TypeOK, Fila
  <2>2. QED
    BY <1>3, <1>7, <2>1 DEF Crece
<1>10. Conoce(p)'
  <2>1. De(p)' = a /\ De(p) = a
    BY <1>4, <1>5 DEF De, a
  <2>2. Conoce(p)
    BY DEF Conocen
  <2>3. proceso'[p].leidos < proceso'[p].reclamo /\ proceso'[p].reclamo <= fila'[a].intentos
    BY <1>1, <1>3, <1>4, <1>5, <2>1, <2>2 DEF Conoce, TRABAJA
  <2>4. fallas' = 0 => Suyo(p)' /\ fila'[a].plazo > 0
    BY <1>1, <1>3, <1>4, <1>5, <2>1, <2>2 DEF Conoce, TRABAJA, Suyo
  <2>5. QED
    BY <1>4, <1>5, <1>7, <2>1, <2>3, <2>4 DEF Conoce, En
<1>11. \A q \in Procesos : q # p => Conoce(q)'
  BY <1>3, <1>5, <1>8, <1>9, SigueConociendo DEF Conocen, Suyo, De
<1>12. Distintos'
  BY <1>1, <1>4, <1>5, SiguenDistintos DEF TRABAJA, a
<1>13. Ciertas'
  <2>1. SUFFICES ASSUME NEW b \in Avisos PROVE FilaCierta(b)'
    BY DEF Ciertas
  <2>2. FilaCierta(b) /\ fila'[b] = fila[b] /\ fallas' = fallas
    BY <1>3 DEF Ciertas
  <2>3. \A q \in Procesos : Entrego(q, b) => Entrego(q, b)'
    BY <1>1, <1>5 DEF Entrego, En, De
  <2>4. CASE b = a /\ bien
    <3>1. Entrego(p, b)'
      BY <1>4, <1>5, <2>4 DEF Entrego, En, De
    <3>2. entregas'[b] > 0
      BY <1>7, <2>4
    <3>3. QED
      BY <2>2, <3>1, <3>2 DEF FilaCierta
  <2>5. CASE b # a \/ ~bien
    <3>1. entregas'[b] = entregas[b]
      BY <1>7, <2>5
    <3>2. QED
      BY <2>2, <2>3, <3>1 DEF FilaCierta
  <2>6. QED
    BY <2>4, <2>5
<1>14. QED
  BY <1>8, <1>10, <1>11, <1>12, <1>13 DEF Conocen

\* ... recording ...
LEMMA AnotarPaso ==
  ASSUME IInv, NEW p \in Procesos, Anotar(p)
  PROVE  IInv'
<1> USE DEF IInv
<1> DEFINE a == De(p)
           x == Buscando(proceso[p].hechos + 1)
<1>1. a \in Avisos /\ fila[a] \in Fila /\ entregas[a] \in Nat /\ proceso[p].paso = "anotar" /\ proceso[p].aviso = a
  BY AvisoDe DEF Anotar, En, De
<1>2. Mueve(p, x) /\ UNCHANGED <<entregas, fallas>> /\ fila' = IF Suyo(p) THEN [fila EXCEPT ![a] = Anotada(p)] ELSE fila
  BY DEF Anotar
<1>3. x \in Proceso /\ x.paso = "buscar"
  <2>1. proceso[p].hechos + 1 \in Nat
    BY DEF TypeOK, Proceso
  <2>2. QED
    BY <2>1, LibreTipo
<1> HIDE DEF x
<1>4. /\ proceso' \in [Procesos -> Proceso] /\ proceso'[p] = x
      /\ \A q \in Procesos : q # p => proceso'[q] = proceso[q]
      /\ \A q \in Procesos : proceso'[q].paso \in {"reclamar", "entregar", "anotar"} => De(q)' \in Avisos
  BY <1>2, <1>3, MueveTipo
<1>5. /\ Anotada(p) \in Fila /\ Anotada(p).intentos = fila[a].intentos
      /\ \/ proceso[p].bien /\ Anotada(p).estado = "published" /\ Anotada(p).plazo = 0
         \/ ~proceso[p].bien /\ Agotado(p) /\ Anotada(p).estado = "dead-letter" /\ Anotada(p).plazo = 0
         \/ ~proceso[p].bien /\ Anotada(p).estado = "pending"
  BY AnotadaTipo DEF Anotar
<1> DEFINE f == Anotada(p)
<1> HIDE DEF f
<1>6. /\ fila' \in [Avisos -> Fila]
      /\ \A b \in Avisos : b # a => fila'[b] = fila[b]
      /\ Suyo(p) => fila'[a] = f
      /\ ~Suyo(p) => fila' = fila
  <2>1. CASE Suyo(p)
    <3>1. fila' = [fila EXCEPT ![a] = f]
      BY <1>2, <2>1 DEF f
    <3>2. f \in Fila
      BY <1>5 DEF f
    <3>3. QED
      BY <1>1, <2>1, <3>1, <3>2, UnaFila
  <2>2. CASE ~Suyo(p)
    BY <1>2, <2>2 DEF TypeOK
  <2>3. QED
    BY <2>1, <2>2
<1>7. TypeOK'
  BY <1>2, <1>4, <1>6 DEF TypeOK
<1>8. Crece
  <2>1. \A b \in Avisos : fila[b].intentos \in Nat /\ entregas[b] \in Nat
    BY DEF TypeOK, Fila
  <2>2. \A b \in Avisos : fila'[b].intentos = fila[b].intentos
    BY <1>5, <1>6 DEF f
  <2>3. QED
    BY <1>2, <2>1, <2>2 DEF Crece
<1>9. Conoce(p)'
  BY <1>3, <1>4 DEF Conoce, En, TRABAJA
<1>10. ASSUME NEW q \in Procesos, q # p PROVE Conoce(q)'
  <2>1. SUFFICES ASSUME proceso[q].paso \in TRABAJA, Suyo(q), fila[De(q)].plazo > 0
                 PROVE  Suyo(q)' /\ fila'[De(q)].plazo > 0
    BY <1>4, <1>7, <1>8, <1>10, SigueConociendo DEF Conocen
  <2>2. De(q) \in Avisos
    BY <2>1, AvisoDe DEF TRABAJA
  <2>3. De(q) = a => ~Suyo(p)
    <3>1. SUFFICES ASSUME De(q) = a, Suyo(p) PROVE FALSE
      OBVIOUS
    <3>2. Comparten(p, q)
      BY <1>1, <2>1, <3>1 DEF Comparten, Suyo, TRABAJA
    <3>3. QED
      BY <1>10, <3>2 DEF Distintos
  <2>4. fila'[De(q)] = fila[De(q)] /\ proceso'[q] = proceso[q]
    BY <1>4, <1>6, <1>10, <2>2, <2>3
  <2>5. QED
    BY <2>1, <2>4 DEF Suyo, De
<1>11. Distintos'
  BY <1>3, <1>4, SiguenDistintos DEF TRABAJA
<1>12. Ciertas'
  <2>1. SUFFICES ASSUME NEW b \in Avisos PROVE FilaCierta(b)'
    BY DEF Ciertas
  <2>2. FilaCierta(b) /\ entregas'[b] = entregas[b] /\ fallas' = fallas /\ entregas[b] \in Nat
    BY <1>2 DEF Ciertas, TypeOK
  <2>3. Conoce(p)
    BY DEF Conocen
  <2>4. \A q \in Procesos : q # p => (Entrego(q, b) => Entrego(q, b)')
    BY <1>4 DEF Entrego, En, De
  <2>5. CASE b # a
    <3>1. fila'[b] = fila[b] /\ ~Entrego(p, b)
      BY <1>6, <2>5 DEF Entrego
    <3>2. QED
      BY <2>2, <2>4, <3>1 DEF FilaCierta
  <2>6. CASE b = a /\ ~Suyo(p)
    <3>1. fila'[b] = fila[b] /\ fallas # 0
      BY <1>1, <1>6, <2>3, <2>6 DEF Conoce, TRABAJA
    <3>2. QED
      BY <2>2, <3>1 DEF FilaCierta
  <2>7. CASE b = a /\ Suyo(p)
    <3>1. fila'[b] = f
      BY <1>6, <2>7
    <3>2. CASE proceso[p].bien
      <4>1. f.estado = "published" /\ f.plazo = 0 /\ entregas[b] > 0
        BY <1>1, <1>5, <2>3, <2>7, <3>2 DEF Conoce, En, f
      <4>2. QED
        BY <2>2, <3>1, <4>1 DEF FilaCierta, FINALES
    <3>3. CASE ~proceso[p].bien
      <4>1. ~Entrego(p, b) /\ fila[b].estado = "processing"
        BY <2>7, <3>3 DEF Entrego, Suyo
      <4>2. fallas = 0 /\ entregas[b] > 0 => \E q \in Procesos : Entrego(q, b)'
        BY <2>2, <2>4, <4>1 DEF FilaCierta
      <4>3. CASE f.estado = "pending"
        BY <2>2, <3>1, <4>2, <4>3 DEF FilaCierta, FINALES
      <4>4. CASE Agotado(p) /\ f.estado = "dead-letter" /\ f.plazo = 0
        <5>1. proceso[p].leidos < proceso[p].reclamo /\ proceso[p].reclamo <= fila[a].intentos
          BY <1>1, <2>3 DEF Conoce, TRABAJA
        <5>2. proceso[p].leidos \in Nat /\ proceso[p].reclamo \in Nat /\ fila[a].intentos \in Nat /\ MaxIntentos \in Nat
          BY <1>1, OutboxAssumption DEF TypeOK, Proceso, Fila
        <5>3. proceso[p].leidos + 1 >= MaxIntentos
          BY <4>4 DEF Agotado
        <5>4. f.intentos = fila[a].intentos
          BY <1>5 DEF f
        <5> HIDE DEF a
        <5>5. f.intentos >= MaxIntentos
          BY <5>1, <5>2, <5>3, <5>4
        <5>6. QED
          BY <2>2, <3>1, <4>2, <4>4, <5>5 DEF FilaCierta, FINALES
      <4>5. QED
        BY <1>5, <3>3, <4>3, <4>4 DEF f
    <3>4. QED
      BY <3>2, <3>3
  <2>8. QED
    BY <2>5, <2>6, <2>7
<1>13. QED
  BY <1>7, <1>9, <1>10, <1>11, <1>12 DEF Conocen
\* Nothing said of the moment before a failure has to hold after one.
LEMMA TrasFallar ==
  ASSUME IInv, NEW p \in Procesos, NEW x \in Proceso, Mueve(p, x), fallas < MaxFallas, fallas' = fallas + 1,
         UNCHANGED <<fila, entregas>>,
         \/ x.paso = "libre"
         \/ En(p, "anotar") /\ x = [proceso[p] EXCEPT !.bien = FALSE]
  PROVE  IInv'
<1> USE DEF IInv
<1>1. /\ x.paso \in {"libre", "anotar"}
      /\ x.paso = "anotar" => /\ proceso[p].paso = "anotar" /\ x.aviso = De(p) /\ ~x.bien
                              /\ x.leidos = proceso[p].leidos /\ x.reclamo = proceso[p].reclamo
  BY DEF TypeOK, Proceso, En, De
<1>2. x.paso = "anotar" => De(p) \in Avisos
  BY <1>1, AvisoDe
<1>3. /\ proceso' \in [Procesos -> Proceso] /\ proceso'[p] = x
      /\ \A q \in Procesos : q # p => proceso'[q] = proceso[q]
      /\ \A q \in Procesos : proceso'[q].paso \in {"reclamar", "entregar", "anotar"} => De(q)' \in Avisos
  BY <1>1, <1>2, MueveTipo
<1>4. fallas' \in 0..MaxFallas /\ fallas' # 0
  BY OutboxAssumption DEF TypeOK
<1>5. TypeOK'
  BY <1>3, <1>4 DEF TypeOK
<1>6. Crece
  BY <1>4 DEF TypeOK, Fila, Crece
<1>7. Conoce(p)'
  <2>1. x.paso = "anotar" => x.leidos < x.reclamo /\ x.reclamo <= fila[De(p)].intentos /\ De(p)' = De(p)
    BY <1>1, <1>3 DEF Conocen, Conoce, TRABAJA, De
  <2>2. QED
    BY <1>1, <1>3, <1>4, <2>1 DEF Conoce, En, TRABAJA
<1>8. \A q \in Procesos : q # p => Conoce(q)'
  BY <1>3, <1>4, <1>5, <1>6, SigueConociendo DEF Conocen
<1>9. Distintos'
  BY <1>1, <1>3, SiguenDistintos DEF TRABAJA
<1>10. Ciertas'
  BY <1>4 DEF Ciertas, FilaCierta
<1>11. QED
  BY <1>5, <1>7, <1>8, <1>9, <1>10 DEF Conocen

\* ... failing or stopping ...
LEMMA FallarPaso ==
  ASSUME IInv, NEW p \in Procesos, Fallar(p) \/ Caer(p)
  PROVE  IInv'
<1> DEFINE y == [proceso[p] EXCEPT !.bien = FALSE]
<1>1. /\ fallas < MaxFallas /\ fallas' = fallas + 1 /\ UNCHANGED <<fila, entregas>>
      /\ Mueve(p, Libre) \/ (Mueve(p, y) /\ En(p, "anotar"))
  BY DEF Fallar, Caer
<1>2. y \in Proceso
  BY DEF IInv, TypeOK, Proceso
<1>3. CASE Mueve(p, Libre)
  BY <1>1, <1>3, LibreTipo, TrasFallar
<1>4. CASE Mueve(p, y) /\ En(p, "anotar")
  BY <1>1, <1>2, <1>4, TrasFallar
<1>5. QED
  BY <1>1, <1>3, <1>4

\* ... and time, because a lease that runs out on who delivers is counted.
LEMMA TickPaso ==
  ASSUME IInv, Tick
  PROVE  IInv'
<1> USE DEF IInv
<1>1. /\ fila' \in [Avisos -> Fila]
      /\ \A a \in Avisos :
           /\ fila'[a].estado = fila[a].estado /\ fila'[a].intentos = fila[a].intentos
           /\ fila'[a].reclamo = fila[a].reclamo /\ fila'[a].plazo = Menos(fila[a].plazo)
           /\ fila[a].plazo = 0 => fila'[a] = fila[a]
  BY TickEscribe
<1>2. UNCHANGED <<proceso, entregas>> /\ (Lentos # {} => fallas < MaxFallas)
      /\ fallas' = IF Lentos = {} THEN fallas ELSE fallas + 1
  BY DEF Tick
<1>3. fallas' \in 0..MaxFallas /\ (fallas' = 0 => fallas = 0 /\ Lentos = {})
  BY <1>2, OutboxAssumption DEF TypeOK
<1>4. TypeOK'
  BY <1>1, <1>2, <1>3 DEF TypeOK, De
<1>5. Crece
  BY <1>1, <1>2, <1>3 DEF TypeOK, Fila, Crece
<1>6. ASSUME NEW p \in Procesos PROVE Conoce(p)'
  <2>1. SUFFICES ASSUME fallas' = 0, proceso[p].paso \in TRABAJA, Suyo(p), fila[De(p)].plazo > 0
                 PROVE  Suyo(p)' /\ fila'[De(p)].plazo > 0
    BY <1>2, <1>4, <1>5, SigueConociendo DEF Conocen
  <2>2. De(p) \in Avisos /\ fila[De(p)] \in Fila
    BY <2>1, AvisoDe DEF TRABAJA
  <2>3. fila[De(p)].plazo # 1
    BY <1>3, <2>1 DEF Lentos, TRABAJA
  <2>4. fila[De(p)].plazo \in Nat
    BY <2>2 DEF Fila
  <2>5. Menos(fila[De(p)].plazo) > 0
    BY <2>1, <2>3, <2>4 DEF Menos
  <2>6. QED
    BY <1>1, <1>2, <2>1, <2>2, <2>5 DEF Suyo, De
<1>7. Distintos'
  BY <1>2 DEF Distintos, Comparten, De
<1>8. Ciertas'
  <2>1. SUFFICES ASSUME NEW b \in Avisos PROVE FilaCierta(b)'
    BY DEF Ciertas
  <2>2. FilaCierta(b)
    BY DEF Ciertas
  <2>3. \A q \in Procesos : Entrego(q, b)' <=> Entrego(q, b)
    BY <1>2 DEF Entrego, En, De
  <2>4. QED
    BY <1>1, <1>2, <1>3, <2>2, <2>3 DEF FilaCierta
<1>9. QED
  BY <1>4, <1>6, <1>7, <1>8 DEF Conocen

----------------------------------------------------------------------------
(* The invariant and its consequences.                                     *)

\* The invariant holds at the start ...
LEMMA InicioBien ==
  ASSUME Init
  PROVE  IInv
<1> USE DEF Init
<1>1. SinFila \in Fila /\ SinFila.estado = "no" /\ Libre \in Proceso /\ Libre.paso = "libre"
  BY LibreTipo DEF SinFila, Fila
<1>2. TypeOK
  BY <1>1, OutboxAssumption DEF TypeOK
<1>3. Conocen /\ Distintos
  BY <1>1 DEF Conocen, Conoce, En, TRABAJA, Distintos, Comparten
<1>4. Ciertas
  BY <1>1 DEF Ciertas, FilaCierta, FINALES
<1>5. QED
  BY <1>2, <1>3, <1>4 DEF IInv

\* ... after every step ...
LEMMA PasoBien ==
  ASSUME IInv, Next
  PROVE  IInv'
<1>1. ASSUME NEW p \in Procesos, Paso(p) PROVE IInv'
  BY <1>1, DespertarPaso, BuscarPaso, ReclamarPaso, EntregarPaso, AnotarPaso DEF Paso
<1>2. QED
  BY <1>1, EncolarPaso, FallarPaso, TickPaso DEF Next

\* ... and after one that changes nothing.
LEMMA QuietoBien ==
  ASSUME IInv, UNCHANGED vars
  PROVE  IInv'
BY DEF vars, IInv, TypeOK, Conocen, Conoce, En, De, Suyo, Distintos, Comparten, Ciertas, FilaCierta, Entrego

\* The inductive invariant holds whatever processes drain, fail and stop.
THEOREM Invariante == Spec => []IInv
<1>1. Init => IInv
  BY InicioBien
<1>2. IInv /\ [Next]_vars => IInv'
  BY PasoBien, QuietoBien
<1>3. QED
  BY <1>1, <1>2, PTL DEF Spec

\* Rows and drains are well typed, and a drain past its read is at a notice
\* (OutboxEvent and drenar).
THEOREM TiposOutbox == Spec => []TypeOK
<1>1. IInv => TypeOK
  BY DEF IInv
<1>2. QED
  BY <1>1, Invariante, PTL

\* What the table says of a notice is true: published was delivered, given up used
\* its attempts and, if nothing failed, was never delivered.
THEOREM LaFilaDiceLaVerdad == Spec => []RegistroVerdadero
<1>1. ASSUME IInv, NEW a \in Avisos, fila[a].estado = "dead-letter", fallas = 0 PROVE entregas[a] = 0
  <2>1. SUFFICES ASSUME entregas[a] > 0 PROVE FALSE
    BY <1>1 DEF IInv, TypeOK
  <2>2. PICK p \in Procesos : Entrego(p, a)
    BY <1>1, <2>1 DEF IInv, Ciertas, FilaCierta
  <2>3. Suyo(p) /\ De(p) = a
    BY <1>1, <2>2 DEF IInv, Conocen, Conoce, Entrego, En, TRABAJA
  <2>4. QED
    BY <1>1, <2>3 DEF Suyo
<1>2. IInv => RegistroVerdadero
  BY <1>1 DEF IInv, Ciertas, FilaCierta, RegistroVerdadero
<1>3. QED
  BY <1>2, Invariante, PTL

\* A step writes over what ended, or over a claim whose lease lasts, only if it is
\* its owner recording the outcome.
LEMMA PasoDelDueno ==
  ASSUME IInv, Next, NEW a \in Avisos
  PROVE  /\ fila[a].estado \in FINALES => fila'[a] = fila[a]
         /\ (fila[a].estado = "processing" /\ fila[a].plazo > 0 /\ fila'[a].reclamo # fila[a].reclamo) =>
              \E p \in Procesos : En(p, "anotar") /\ De(p) = a /\ proceso[p].reclamo = fila[a].reclamo /\ ~En(p, "anotar")'
<1> USE DEF IInv
<1>1. fila[a] \in Fila
  BY DEF TypeOK
<1>2. CASE fila'[a] = fila[a]
  BY <1>2
<1>3. ASSUME NEW b \in Avisos, Encolar(b) PROVE fila'[a] = fila[a] \/ fila[a].estado = "no"
  BY <1>3, EncolarEscribe, UnaFila DEF Encolar
<1>4. ASSUME NEW p \in Procesos, Despertar(p) PROVE fila'[a] = fila[a] \/ (fila[a].estado = "processing" /\ fila[a].plazo = 0)
  BY <1>4, DespertarEscribe DEF Vencida
<1>5. ASSUME NEW p \in Procesos, Reclamar(p) PROVE fila'[a] = fila[a] \/ fila[a].estado = "pending"
  <2>1. CASE Reclamable(De(p))
    BY <1>5, <2>1, ReclamarEscribe, UnaFila
  <2>2. CASE ~Reclamable(De(p))
    BY <1>5, <2>2 DEF Reclamar
  <2>3. QED
    BY <2>1, <2>2
<1>6. ASSUME NEW p \in Procesos, Anotar(p), fila'[a] # fila[a]
      PROVE  /\ En(p, "anotar") /\ De(p) = a /\ Suyo(p) /\ proceso'[p].paso = "buscar"
  <2>1. Suyo(p) /\ fila' = [fila EXCEPT ![De(p)] = Anotada(p)]
    BY <1>6 DEF Anotar
  <2>2. De(p) = a
    BY <1>6, <2>1 DEF TypeOK
  <2>3. Buscando(proceso[p].hechos + 1).paso = "buscar"
    BY DEF Buscando, Libre
  <2>4. proceso'[p] = Buscando(proceso[p].hechos + 1)
    BY <1>6 DEF Anotar, Mueve, TypeOK
  <2>5. QED
    BY <1>6, <2>1, <2>2, <2>3, <2>4 DEF Anotar
<1>7. CASE \E p \in Procesos : Anotar(p)
  BY <1>6, <1>7 DEF Suyo, En, FINALES
<1>8. CASE Tick
  BY <1>8, TickEscribe DEF Ciertas, FilaCierta
<1>9. CASE fila' = fila
  BY <1>9
<1>10. CASE \E b \in Avisos : Encolar(b)
  BY <1>3, <1>10 DEF FINALES
<1>11. CASE \E p \in Procesos : Despertar(p)
  BY <1>1, <1>4, <1>11 DEF FINALES, Fila
<1>12. CASE \E p \in Procesos : Reclamar(p)
  BY <1>5, <1>12 DEF FINALES
<1>13. QED
  BY <1>7, <1>8, <1>9, <1>10, <1>11, <1>12 DEF Next, Paso, Buscar, Entregar, Fallar, Caer

\* Who comes late writes nothing: what ended stays as it is and a claim whose lease
\* lasts is ended by its owner only.
THEOREM QuienLlegaTardeNoEscribe == Spec => SoloSuDueno
<1> DEFINE Dueno ==
      \A a \in Avisos :
       /\ fila[a].estado \in {"published", "dead-letter"} => fila'[a] = fila[a]
       /\ (fila[a].estado = "processing" /\ fila[a].plazo > 0 /\ fila'[a].reclamo # fila[a].reclamo) =>
            \E p \in Procesos : En(p, "anotar") /\ De(p) = a /\ proceso[p].reclamo = fila[a].reclamo /\ ~En(p, "anotar")'
<1>1. IInv /\ [Next]_vars => [Dueno]_vars
  BY PasoDelDueno DEF FINALES
<1>2. QED
  BY <1>1, Invariante, PTL DEF Spec, SoloSuDueno

----------------------------------------------------------------------------
(* Counting deliveries and attempts.                                       *)
(*                                                                         *)
(* Both bounds are paid the same way.  A claim in force (Vigente) ends by  *)
(* its owner's record, or by a failure: who stops, who cannot record and   *)
(* who outlives its lease are counted.  So while a row is covered by who   *)
(* delivers it, or is at its last attempt, nobody claims it for free.      *)

Vigente(p, a) == proceso[p].paso \in TRABAJA /\ De(p) = a /\ Suyo(p) /\ fila[a].plazo > 0

\* Who is about to deliver a.
Entregando(a) == {p \in Procesos : En(p, "entregar") /\ De(p) = a}

\* The delivery of a is done, or in the hands of who will record it.
Cubierto(a) ==
  \/ fila[a].estado \in FINALES
  \/ \E p \in Procesos : Vigente(p, a) /\ (En(p, "entregar") \/ proceso[p].bien)

\* Deliveries, done and about to be, against failures.
CuentaEntregas(a) ==
  /\ entregas[a] + Cardinality(Entregando(a)) <= fallas + 1
  /\ ~Cubierto(a) => entregas[a] + Cardinality(Entregando(a)) <= fallas

\* Who is about to claim a with what it read when attempts were left.
ConResto(a) == {p \in Procesos : En(p, "reclamar") /\ De(p) = a /\ ~Agotado(p)}

\* The row ended, or ends with the claim that is in force.
Ultimo(a) ==
  \/ fila[a].estado \in FINALES
  \/ \E p \in Procesos : Vigente(p, a) /\ Agotado(p)

\* Attempts, made and about to be, against the limit, the processes and the failures.
CuentaIntentos(a) ==
  \/ fila[a].intentos = 0
  \/ LET n == fila[a].intentos + Cardinality(ConResto(a))
         tope == MaxIntentos + Cardinality(Procesos) + fallas
     IN  n + 1 <= tope /\ (~Ultimo(a) => n + 2 <= tope)

Cuentas == \A a \in Avisos : CuentaEntregas(a) /\ CuentaIntentos(a)

\* Sets of processes that differ in one at most.
LEMMA Cuantos ==
  ASSUME NEW S, NEW T, S \subseteq Procesos, T \subseteq Procesos,
         NEW p \in Procesos, \A q \in Procesos : q # p => (q \in S <=> q \in T)
  PROVE  /\ Cardinality(S) \in Nat /\ Cardinality(T) \in Nat /\ Cardinality(Procesos) \in Nat
         /\ Cardinality(T) <= Cardinality(Procesos) /\ Cardinality(Procesos) >= 1
         /\ (p \in T => p \in S) => Cardinality(T) <= Cardinality(S)
         /\ (p \in S /\ p \notin T) => Cardinality(T) = Cardinality(S) - 1 /\ Cardinality(T) + 1 <= Cardinality(Procesos)
         /\ (p \notin S /\ p \in T) => Cardinality(T) = Cardinality(S) + 1
<1>1. IsFiniteSet(Procesos) /\ IsFiniteSet(S) /\ IsFiniteSet(T)
  BY OutboxAssumption, FS_Subset
<1>2. /\ Cardinality(S) \in Nat /\ Cardinality(T) \in Nat /\ Cardinality(Procesos) \in Nat
      /\ Cardinality(T) <= Cardinality(Procesos) /\ Cardinality(S) <= Cardinality(Procesos)
  BY <1>1, FS_Subset, FS_CardinalityType
<1>3. Cardinality(Procesos) >= 1
  <2>1. Procesos # {}
    OBVIOUS
  <2> QED
    BY <1>1, <1>2, <2>1, FS_EmptySet
<1>4. ASSUME p \in S, p \notin T
      PROVE  Cardinality(T) = Cardinality(S) - 1
  <2>1. T = S \ {p}
    BY <1>4
  <2> QED
    BY <1>1, <1>4, <2>1, FS_RemoveElement
<1>5. ASSUME p \notin S, p \in T
      PROVE  Cardinality(T) = Cardinality(S) + 1
  <2>1. T = S \cup {p}
    BY <1>5
  <2> QED
    BY <1>1, <1>5, <2>1, FS_AddElement
<1>6. ASSUME p \in S <=> p \in T
      PROVE  S = T
  BY <1>6
<1> QED
  BY <1>2, <1>3, <1>4, <1>5, <1>6

\* Failures are counted one by one.
LEMMA FallasPaso ==
  ASSUME Next
  PROVE  fallas' = fallas \/ fallas' = fallas + 1
  BY DEF Next, Paso, Encolar, Despertar, Buscar, Reclamar, Entregar, Anotar, Fallar, Caer, Tick

\* A process moves itself only.
LEMMA SoloSeMueve ==
  ASSUME TypeOK, NEW q \in Procesos, Paso(q) \/ Fallar(q) \/ Caer(q)
  PROVE  \A p \in Procesos : p # q => proceso'[p] = proceso[p]
<1>1. \E x : Mueve(q, x)
  BY DEF Paso, Despertar, Buscar, Reclamar, Entregar, Anotar, Fallar, Caer
<1> QED
  BY <1>1 DEF Mueve, TypeOK

\* Who moves a process.
LEMMA QuienMueve ==
  ASSUME TypeOK, Next, NEW p \in Procesos
  PROVE  proceso'[p] = proceso[p] \/ Paso(p) \/ Fallar(p) \/ Caer(p)
<1>1. ASSUME NEW q \in Procesos, q # p, Paso(q) \/ Fallar(q) \/ Caer(q)
      PROVE  proceso'[p] = proceso[p]
  BY <1>1, SoloSeMueve
<1>2. CASE \E a \in Avisos : Encolar(a)
  BY <1>2 DEF Encolar
<1>3. CASE Tick
  BY <1>3 DEF Tick
<1> QED
  BY <1>1, <1>2, <1>3 DEF Next

\* Who writes over a row that is being processed and whose lease lasts.
LEMMA QuienEscribe ==
  ASSUME IInv, Next, NEW a \in Avisos, fila[a].estado = "processing", fila[a].plazo > 0
  PROVE  \/ fila'[a] = fila[a]
         \/ Tick
         \/ \E q \in Procesos : Anotar(q) /\ De(q) = a /\ Suyo(q) /\ fila'[a] = Anotada(q)
<1>0. TypeOK /\ fila[a] \in Fila
  BY DEF IInv, TypeOK
<1>1. ASSUME NEW b \in Avisos, Encolar(b) PROVE fila'[a] = fila[a]
  <2>1. b # a
    BY <1>1 DEF Encolar
  <2> QED
    BY <1>0, <1>1, <2>1, EncolarEscribe, UnaFila
<1>2. ASSUME NEW p \in Procesos, Despertar(p) PROVE fila'[a] = fila[a]
  <2>1. fila'[a] = fila[a] \/ Vencida(a)
    BY <1>0, <1>2, DespertarEscribe
  <2> QED
    BY <1>0, <2>1 DEF Vencida, Fila
<1>3. ASSUME NEW p \in Procesos, Reclamar(p) PROVE fila'[a] = fila[a]
  <2>1. CASE Reclamable(De(p))
    BY <1>0, <1>3, <2>1, ReclamarEscribe, UnaFila
  <2>2. CASE ~Reclamable(De(p))
    BY <1>3, <2>2 DEF Reclamar
  <2> QED
    BY <2>1, <2>2
<1>4. ASSUME NEW p \in Procesos, Anotar(p)
      PROVE  fila'[a] = fila[a] \/ (De(p) = a /\ Suyo(p) /\ fila'[a] = Anotada(p))
  BY <1>0, <1>4 DEF Anotar, TypeOK
<1>5. CASE fila' = fila
  BY <1>5
<1>6. CASE \E p \in Procesos : Anotar(p)
  BY <1>4, <1>6
<1> QED
  BY <1>1, <1>2, <1>3, <1>5, <1>6 DEF Next, Paso, Buscar, Entregar, Fallar, Caer

\* A claim in force goes on, ends by the record of its owner, or is paid with a failure.
LEMMA SigueVigente ==
  ASSUME IInv, Next, NEW p \in Procesos, NEW a \in Avisos, Vigente(p, a)
  PROVE  \/ fallas' = fallas + 1
         \/ /\ Vigente(p, a)' /\ proceso'[p].leidos = proceso[p].leidos
            /\ \/ proceso'[p] = proceso[p]
               \/ \E bien \in BOOLEAN : Entregar(p, bien) /\ proceso'[p].bien = bien
         \/ En(p, "anotar") /\ fila'[a] = Anotada(p)
<1>1. /\ TypeOK /\ Distintos /\ fila[a] \in Fila /\ proceso[p] \in Proceso
      /\ proceso[p].paso \in TRABAJA /\ De(p) = a /\ Suyo(p) /\ fila[a].plazo > 0
      /\ fila[a].estado = "processing" /\ fila[a].reclamo = proceso[p].reclamo
  BY DEF IInv, TypeOK, Vigente, Suyo
<1>2. CASE proceso'[p] = proceso[p]
  <2>1. De(p)' = a
    BY <1>1, <1>2 DEF De
  <2>2. CASE fila'[a] = fila[a]
    BY <1>1, <1>2, <2>1, <2>2 DEF Vigente, Suyo
  <2>3. CASE Tick
    <3>1. CASE fila[a].plazo = 1
      BY <1>1, <2>3, <3>1 DEF Tick, Lentos, TRABAJA
    <3>2. CASE fila[a].plazo # 1
      <4>1. /\ fila'[a].estado = fila[a].estado /\ fila'[a].reclamo = fila[a].reclamo
            /\ fila'[a].plazo = Menos(fila[a].plazo)
        BY <1>1, <2>3, TickEscribe
      <4>2. Menos(fila[a].plazo) > 0
        BY <1>1, <3>2 DEF Menos, Fila
      <4> QED
        BY <1>1, <1>2, <2>1, <4>1, <4>2 DEF Vigente, Suyo
    <3> QED
      BY <3>1, <3>2
  <2>4. ASSUME NEW q \in Procesos, Anotar(q), De(q) = a, Suyo(q), fila'[a] = Anotada(q)
        PROVE  En(p, "anotar") /\ fila'[a] = Anotada(p)
    <3>1. Comparten(p, q)
      BY <1>1, <2>4 DEF Comparten, Suyo, TRABAJA, Anotar, En
    <3> QED
      BY <1>1, <2>4, <3>1 DEF Distintos, Anotar
  <2> QED
    BY <1>1, <2>2, <2>3, <2>4, QuienEscribe
<1>3. ASSUME NEW bien \in BOOLEAN, Entregar(p, bien)
      PROVE  Vigente(p, a)' /\ proceso'[p].leidos = proceso[p].leidos /\ proceso'[p].bien = bien
  <2> DEFINE x == [proceso[p] EXCEPT !.paso = "anotar", !.bien = bien]
  <2>1. proceso'[p] = x /\ fila' = fila
    BY <1>1, <1>3 DEF Entregar, Mueve, TypeOK
  <2>2. /\ x.paso = "anotar" /\ x.bien = bien /\ x.aviso = proceso[p].aviso
        /\ x.leidos = proceso[p].leidos /\ x.reclamo = proceso[p].reclamo
    BY <1>1 DEF Proceso
  <2> HIDE DEF x
  <2> QED
    BY <1>1, <2>1, <2>2 DEF Vigente, Suyo, De, TRABAJA
<1>4. CASE Anotar(p)
  <2>1. fila' = [fila EXCEPT ![De(p)] = Anotada(p)] /\ En(p, "anotar")
    BY <1>1, <1>4 DEF Anotar
  <2> QED
    BY <1>1, <2>1 DEF TypeOK
<1>5. CASE Fallar(p) \/ Caer(p)
  BY <1>5 DEF Fallar, Caer
<1>6. ~(Despertar(p) \/ Buscar(p) \/ Reclamar(p))
  BY <1>1 DEF Despertar, Buscar, Reclamar, En, TRABAJA
<1> QED
  BY <1>1, <1>2, <1>3, <1>4, <1>5, <1>6, QuienMueve DEF Paso

\* What is covered stays so, unless a notifier fails or it is paid with a failure.
LEMMA SigueCubierto ==
  ASSUME IInv, Next, NEW a \in Avisos, Cubierto(a)
  PROVE  \/ fallas' = fallas + 1 \/ Cubierto(a)'
         \/ \E p \in Procesos : Entregar(p, FALSE) /\ De(p) = a
<1>1. CASE fila[a].estado \in FINALES
  BY <1>1, PasoDelDueno DEF Cubierto
<1>2. ASSUME NEW p \in Procesos, Vigente(p, a), En(p, "entregar") \/ proceso[p].bien
      PROVE  \/ fallas' = fallas + 1 \/ Cubierto(a)'
             \/ Entregar(p, FALSE) /\ De(p) = a
  <2>1. CASE fallas' = fallas + 1
    BY <2>1
  <2>2. CASE Vigente(p, a)' /\ proceso'[p] = proceso[p]
    BY <1>2, <2>2 DEF Cubierto, En
  <2>3. ASSUME NEW bien \in BOOLEAN, Vigente(p, a)', Entregar(p, bien), proceso'[p].bien = bien
        PROVE  Cubierto(a)' \/ (Entregar(p, FALSE) /\ De(p) = a)
    <3>1. CASE bien
      BY <2>3, <3>1 DEF Cubierto
    <3>2. CASE ~bien
      <4>1. bien = FALSE
        BY <2>3, <3>2
      <4> QED
        BY <1>2, <2>3, <4>1 DEF Vigente
    <3> QED
      BY <3>1, <3>2
  <2>4. CASE En(p, "anotar") /\ fila'[a] = Anotada(p)
    <3>1. proceso[p].bien
      BY <1>2, <2>4 DEF En
    <3>2. Anotada(p).estado = "published"
      BY <2>4, <3>1, AnotadaTipo DEF IInv
    <3> QED
      BY <2>4, <3>2 DEF Cubierto, FINALES
  <2> QED
    BY <1>2, <2>1, <2>2, <2>3, <2>4, SigueVigente
<1> QED
  BY <1>1, <1>2 DEF Cubierto

\* A last attempt stays the last one, unless it is paid with a failure.
LEMMA SigueUltimo ==
  ASSUME IInv, Next, NEW a \in Avisos, Ultimo(a)
  PROVE  fallas' = fallas + 1 \/ Ultimo(a)'
<1>1. CASE fila[a].estado \in FINALES
  BY <1>1, PasoDelDueno DEF Ultimo
<1>2. ASSUME NEW p \in Procesos, Vigente(p, a), Agotado(p)
      PROVE  fallas' = fallas + 1 \/ Ultimo(a)'
  <2>1. CASE fallas' = fallas + 1
    BY <2>1
  <2>2. CASE Vigente(p, a)' /\ proceso'[p].leidos = proceso[p].leidos
    BY <1>2, <2>2 DEF Ultimo, Agotado
  <2>3. CASE En(p, "anotar") /\ fila'[a] = Anotada(p)
    <3>1. Anotada(p).estado \in FINALES
      BY <1>2, <2>3, AnotadaTipo DEF IInv, FINALES
    <3> QED
      BY <2>3, <3>1 DEF Ultimo
  <2> QED
    BY <1>2, <2>1, <2>2, <2>3, SigueVigente
<1> QED
  BY <1>1, <1>2 DEF Ultimo

\* A claim that is given is in force, and found none in force.
LEMMA ReclamoDado ==
  ASSUME IInv, NEW p \in Procesos, Reclamar(p), Reclamable(De(p)), NEW a \in Avisos, De(p) = a
  PROVE  /\ proceso[p].paso = "reclamar"
         /\ ~Cubierto(a) /\ ~Ultimo(a)
         /\ \A q \in Procesos : q # p => proceso'[q] = proceso[q]
         /\ proceso'[p].paso = "entregar" /\ proceso'[p].aviso = a
         /\ proceso'[p].leidos = proceso[p].leidos
         /\ fila'[a].intentos = fila[a].intentos + 1 /\ fila[a].intentos \in Nat
         /\ \A b \in Avisos : b # a => fila'[b] = fila[b]
         /\ UNCHANGED <<entregas, fallas>>
         /\ Vigente(p, a)'
<1> DEFINE n == fila[a].intentos + 1
           f == [estado |-> "processing", intentos |-> n, plazo |-> Arriendo, reclamo |-> n]
           x == [proceso[p] EXCEPT !.paso = "entregar", !.reclamo = n]
<1>1. /\ n \in Nat /\ fila[a].estado = "pending"
      /\ f \in Fila /\ fila' = [fila EXCEPT ![a] = f]
      /\ x \in Proceso /\ Mueve(p, x)
      /\ x.paso = "entregar" /\ x.reclamo = n /\ x.aviso = a /\ x.leidos = proceso[p].leidos
      /\ UNCHANGED <<entregas, fallas>>
  BY ReclamarEscribe DEF IInv
<1>2. f.estado = "processing" /\ f.intentos = n /\ f.reclamo = n /\ f.plazo = Arriendo
  OBVIOUS
<1>3. proceso[p].paso = "reclamar" /\ TypeOK /\ n = fila[a].intentos + 1 /\ fila[a].intentos \in Nat
  BY <1>1 DEF Reclamar, En, IInv, TypeOK, Fila
<1> HIDE DEF f, x
<1>4. fila'[a] = f /\ \A b \in Avisos : b # a => fila'[b] = fila[b]
  BY <1>1, <1>3, UnaFila
<1>5. proceso'[p] = x /\ \A q \in Procesos : q # p => proceso'[q] = proceso[q]
  BY <1>1, <1>3, MueveTipo
<1>6. ~Cubierto(a) /\ ~Ultimo(a)
  BY <1>1 DEF Cubierto, Ultimo, Vigente, Suyo, FINALES
<1>7. Vigente(p, a)'
  <2>1. De(p)' = a /\ Arriendo > 0
    BY <1>1, <1>5, OutboxAssumption DEF De
  <2>2. proceso'[p].paso = "entregar" /\ proceso'[p].reclamo = n
    BY <1>1, <1>5
  <2>3. fila'[a].estado = "processing" /\ fila'[a].reclamo = n /\ fila'[a].plazo > 0
    BY <1>2, <1>4, <2>1
  <2> HIDE DEF n
  <2> QED
    BY <2>1, <2>2, <2>3 DEF Vigente, Suyo, TRABAJA
<1> QED
  BY <1>1, <1>2, <1>3, <1>4, <1>5, <1>6, <1>7

\* A claim that is not given, or a record, leaves the process without a row.
LEMMA SinAviso ==
  ASSUME IInv, NEW p \in Procesos,
         Despertar(p) \/ (Reclamar(p) /\ ~Reclamable(De(p))) \/ Anotar(p)
  PROVE  /\ proceso'[p].paso = "buscar"
         /\ UNCHANGED <<entregas, fallas>>
         /\ \A a \in Avisos : fila'[a].intentos = fila[a].intentos
<1>1. TypeOK
  BY DEF IInv
<1>2. UNCHANGED <<entregas, fallas>> /\ \E n : Mueve(p, Buscando(n))
  BY DEF Despertar, Reclamar, Anotar
<1>3. proceso'[p].paso = "buscar"
  BY <1>1, <1>2 DEF Mueve, TypeOK, Buscando, Libre
<1>4. \A a \in Avisos : fila'[a].intentos = fila[a].intentos
  <2>1. CASE Despertar(p)
    <3>1. SUFFICES ASSUME NEW a \in Avisos PROVE fila'[a].intentos = fila[a].intentos
      OBVIOUS
    <3>2. \/ fila'[a] = fila[a]
          \/ fila'[a] = [estado |-> "pending", intentos |-> fila[a].intentos, plazo |-> fila[a].plazo, reclamo |-> 0]
      BY <1>1, <2>1, DespertarEscribe
    <3> QED
      BY <3>2
  <2>2. CASE Reclamar(p) /\ ~Reclamable(De(p))
    BY <2>2 DEF Reclamar
  <2>3. CASE Anotar(p)
    <3>1. En(p, "anotar") /\ fila' = (IF Suyo(p) THEN [fila EXCEPT ![De(p)] = Anotada(p)] ELSE fila)
      BY <2>3 DEF Anotar
    <3>2. Anotada(p).intentos = fila[De(p)].intentos
      BY <1>1, <3>1, AnotadaTipo
    <3> QED
      BY <1>1, <3>1, <3>2 DEF TypeOK
  <2> QED
    BY <2>1, <2>2, <2>3
<1> QED
  BY <1>2, <1>3, <1>4

\* A delivery: the process goes on to record it.
LEMMA EntregarMueve ==
  ASSUME TypeOK, NEW p \in Procesos, NEW bien \in BOOLEAN, Entregar(p, bien)
  PROVE  /\ proceso[p].paso = "entregar" /\ proceso'[p].paso = "anotar"
         /\ UNCHANGED <<fila, fallas>>
         /\ De(p) \in Avisos
         /\ entregas'[De(p)] = IF bien THEN entregas[De(p)] + 1 ELSE entregas[De(p)]
         /\ \A a \in Avisos : a # De(p) => entregas'[a] = entregas[a]
<1>1. /\ proceso[p].paso = "entregar" /\ UNCHANGED <<fila, fallas>>
      /\ entregas' = IF bien THEN [entregas EXCEPT ![De(p)] = @ + 1] ELSE entregas
  BY DEF Entregar, En
<1>2. De(p) \in Avisos /\ entregas \in [Avisos -> Nat] /\ proceso[p] \in Proceso
  BY <1>1, AvisoDe DEF TypeOK
<1>3. proceso'[p].paso = "anotar"
  <2>1. proceso'[p] = [proceso[p] EXCEPT !.paso = "anotar", !.bien = bien]
    BY DEF Entregar, Mueve, TypeOK
  <2> QED
    BY <1>2, <2>1 DEF Proceso
<1> QED
  BY <1>1, <1>2, <1>3

\* A failure: the process is free, or records it as such.
LEMMA FallarMueve ==
  ASSUME TypeOK, NEW p \in Procesos, Fallar(p) \/ Caer(p)
  PROVE  /\ proceso'[p].paso \in {"libre", "anotar"}
         /\ UNCHANGED <<fila, entregas>> /\ fallas' = fallas + 1
<1> DEFINE y == [proceso[p] EXCEPT !.bien = FALSE]
<1>1. /\ UNCHANGED <<fila, entregas>> /\ fallas' = fallas + 1
      /\ Mueve(p, Libre) \/ (Mueve(p, y) /\ En(p, "anotar"))
  BY DEF Fallar, Caer
<1>2. Mueve(p, Libre) => proceso'[p].paso = "libre"
  BY LibreTipo DEF Mueve, TypeOK
<1>3. Mueve(p, y) /\ En(p, "anotar") => proceso'[p].paso = "anotar"
  BY DEF Mueve, TypeOK, En, Proceso
<1> QED
  BY <1>1, <1>2, <1>3

\* How a move of p changes the number of those about to deliver a,
LEMMA CuantosEntregan ==
  ASSUME NEW p \in Procesos, \A q \in Procesos : q # p => proceso'[q] = proceso[q],
         NEW a \in Avisos
  PROVE  /\ Cardinality(Entregando(a)) \in Nat /\ Cardinality(Entregando(a)') \in Nat
         /\ ~(proceso'[p].paso = "entregar" /\ proceso'[p].aviso = a)
              => Cardinality(Entregando(a)') <= Cardinality(Entregando(a))
         /\ /\ proceso[p].paso = "entregar" /\ De(p) = a /\ proceso'[p].paso # "entregar"
            => Cardinality(Entregando(a)') = Cardinality(Entregando(a)) - 1
         /\ /\ proceso[p].paso # "entregar" /\ proceso'[p].paso = "entregar" /\ proceso'[p].aviso = a
            => Cardinality(Entregando(a)') = Cardinality(Entregando(a)) + 1
<1>1. Entregando(a) \subseteq Procesos /\ Entregando(a)' \subseteq Procesos
  BY DEF Entregando
<1>2. \A q \in Procesos : q # p => (q \in Entregando(a) <=> q \in Entregando(a)')
  BY DEF Entregando, En, De
<1>3. /\ p \in Entregando(a) <=> proceso[p].paso = "entregar" /\ De(p) = a
      /\ p \in Entregando(a)' <=> proceso'[p].paso = "entregar" /\ proceso'[p].aviso = a
  BY DEF Entregando, En, De
<1> QED
  BY <1>1, <1>2, <1>3, Cuantos

\* ... and of those about to claim it with attempts left.
LEMMA CuantosConResto ==
  ASSUME NEW p \in Procesos, \A q \in Procesos : q # p => proceso'[q] = proceso[q],
         NEW a \in Avisos
  PROVE  /\ Cardinality(ConResto(a)) \in Nat /\ Cardinality(ConResto(a)') \in Nat
         /\ Cardinality(Procesos) \in Nat /\ Cardinality(Procesos) >= 1
         /\ Cardinality(ConResto(a)') <= Cardinality(Procesos)
         /\ ~(proceso'[p].paso = "reclamar" /\ proceso'[p].aviso = a)
              => Cardinality(ConResto(a)') <= Cardinality(ConResto(a))
         /\ /\ proceso[p].paso = "reclamar" /\ De(p) = a /\ ~Agotado(p) /\ proceso'[p].paso # "reclamar"
            => /\ Cardinality(ConResto(a)') = Cardinality(ConResto(a)) - 1
               /\ Cardinality(ConResto(a)') + 1 <= Cardinality(Procesos)
         /\ (proceso'[p].paso = "reclamar" /\ Agotado(p)')
              => Cardinality(ConResto(a)') <= Cardinality(ConResto(a))
<1>1. ConResto(a) \subseteq Procesos /\ ConResto(a)' \subseteq Procesos
  BY DEF ConResto
<1>2. \A q \in Procesos : q # p => (q \in ConResto(a) <=> q \in ConResto(a)')
  BY DEF ConResto, En, De, Agotado
<1>3. /\ p \in ConResto(a) <=> proceso[p].paso = "reclamar" /\ De(p) = a /\ ~Agotado(p)
      /\ p \in ConResto(a)' <=> proceso'[p].paso = "reclamar" /\ proceso'[p].aviso = a /\ ~Agotado(p)'
  BY DEF ConResto, En, De
<1> QED
  BY <1>1, <1>2, <1>3, Cuantos

\* No step delivers a notice more often than it is paid for.
LEMMA EntregasPaso ==
  ASSUME IInv, IInv', Next, NEW a \in Avisos, CuentaEntregas(a)
  PROVE  CuentaEntregas(a)'
<1> DEFINE c == Cardinality(Entregando(a))
           d == Cardinality(Entregando(a)')
<1>1. /\ TypeOK /\ TypeOK' /\ fallas \in Nat /\ fallas' \in Nat
      /\ entregas[a] \in Nat /\ entregas'[a] \in Nat
      /\ entregas[a] + c <= fallas + 1 /\ (~Cubierto(a) => entregas[a] + c <= fallas)
  BY DEF IInv, TypeOK, CuentaEntregas
<1>2. SUFFICES entregas'[a] + d <= fallas' + 1 /\ (~Cubierto(a)' => entregas'[a] + d <= fallas')
  BY DEF CuentaEntregas
<1> DEFINE Meta == entregas'[a] + d <= fallas' + 1 /\ (~Cubierto(a)' => entregas'[a] + d <= fallas')
           Fallo == \E p \in Procesos : Entregar(p, FALSE) /\ De(p) = a
<1> HIDE DEF c, d
\* What does not add to the count, and covers what was covered, keeps it.
<1>3. ASSUME c \in Nat, d \in Nat, entregas'[a] + d <= entregas[a] + c,
             ~Fallo
      PROVE  Meta
  <2>1. Cubierto(a) => fallas' = fallas + 1 \/ Cubierto(a)'
    BY <1>3, SigueCubierto
  <2>2. fallas' = fallas \/ fallas' = fallas + 1
    BY FallasPaso
  <2> QED
    BY <1>1, <1>3, <2>1, <2>2
<1>4. ASSUME NEW p \in Procesos, Entregar(p, FALSE), De(p) = a
      PROVE  Meta
  <2>1. /\ proceso[p].paso = "entregar" /\ proceso'[p].paso = "anotar"
        /\ fallas' = fallas /\ entregas'[a] = entregas[a]
    BY <1>1, <1>4, EntregarMueve
  <2>2. \A q \in Procesos : q # p => proceso'[q] = proceso[q]
    BY <1>1, <1>4, SoloSeMueve DEF Paso
  <2>3. c \in Nat /\ d \in Nat /\ d = c - 1
    BY <1>4, <2>1, <2>2, CuantosEntregan DEF c, d
  <2> QED
    BY <1>1, <2>1, <2>3
<1> HIDE DEF Meta, Fallo
<1>5. ASSUME NEW p \in Procesos, Paso(p) \/ Fallar(p) \/ Caer(p),
             ~(proceso'[p].paso = "entregar" /\ proceso'[p].aviso = a),
             entregas'[a] <= entregas[a],
             ~Fallo
      PROVE  Meta
  <2>1. \A q \in Procesos : q # p => proceso'[q] = proceso[q]
    BY <1>1, <1>5, SoloSeMueve
  <2>2. c \in Nat /\ d \in Nat /\ d <= c
    BY <1>5, <2>1, CuantosEntregan DEF c, d
  <2> QED
    BY <1>1, <1>3, <1>5, <2>2
<1>6. ASSUME NEW p \in Procesos, Paso(p), ~Fallo
      PROVE  Meta
  <2>1. CASE Despertar(p) \/ (Reclamar(p) /\ ~Reclamable(De(p))) \/ Anotar(p)
    BY <1>1, <1>5, <1>6, <2>1, SinAviso
  <2>2. CASE Buscar(p)
    <3>1. entregas' = entregas /\ proceso'[p].paso \in {"libre", "reclamar"}
      BY <1>1, <2>2, BuscarEscribe DEF Buscar, Mueve, TypeOK
    <3> QED
      BY <1>1, <1>5, <1>6, <3>1
  <2>3. CASE Reclamar(p) /\ Reclamable(De(p)) /\ De(p) = a
    <3>1. /\ proceso[p].paso = "reclamar" /\ ~Cubierto(a)
          /\ \A q \in Procesos : q # p => proceso'[q] = proceso[q]
          /\ proceso'[p].paso = "entregar" /\ proceso'[p].aviso = a
          /\ UNCHANGED <<entregas, fallas>> /\ Vigente(p, a)'
      BY <2>3, ReclamoDado
    <3>2. Cubierto(a)'
      BY <3>1 DEF Cubierto, En
    <3>3. c \in Nat /\ d \in Nat /\ d = c + 1
      BY <3>1, CuantosEntregan DEF c, d
    <3> QED
      BY <1>1, <3>1, <3>2, <3>3 DEF Meta
  <2>4. CASE Reclamar(p) /\ Reclamable(De(p)) /\ De(p) # a
    <3>1. De(p) \in Avisos
      BY <1>1, <2>4, AvisoDe DEF Reclamar, En
    <3>2. proceso'[p].aviso = De(p) /\ entregas' = entregas
      BY <2>4, <3>1, ReclamoDado
    <3> QED
      BY <1>1, <1>5, <1>6, <2>4, <3>2
  <2>5. ASSUME NEW bien \in BOOLEAN, Entregar(p, bien)
        PROVE  Meta
    <3>1. /\ proceso[p].paso = "entregar" /\ proceso'[p].paso = "anotar"
          /\ De(p) \in Avisos
          /\ entregas'[De(p)] = IF bien THEN entregas[De(p)] + 1 ELSE entregas[De(p)]
          /\ a # De(p) => entregas'[a] = entregas[a]
      BY <1>1, <2>5, EntregarMueve
    <3>2. CASE De(p) # a
      BY <1>1, <1>5, <1>6, <3>1, <3>2
    <3>3. CASE De(p) = a
      <4>1. bien
        BY <1>6, <2>5, <3>3 DEF Fallo
      <4>2. \A q \in Procesos : q # p => proceso'[q] = proceso[q]
        BY <1>1, <2>5, SoloSeMueve DEF Paso
      <4>3. c \in Nat /\ d \in Nat /\ d = c - 1
        BY <3>1, <3>3, <4>2, CuantosEntregan DEF c, d
      <4>4. entregas'[a] = entregas[a] + 1
        BY <3>1, <3>3, <4>1
      <4> QED
        BY <1>1, <1>3, <1>6, <4>3, <4>4
    <3> QED
      BY <3>2, <3>3
  <2> QED
    BY <1>6, <2>1, <2>2, <2>3, <2>4, <2>5 DEF Paso
<1>7. ASSUME NEW p \in Procesos, Fallar(p) \/ Caer(p), ~Fallo
      PROVE  Meta
  BY <1>1, <1>5, <1>7, FallarMueve
<1>8. ASSUME UNCHANGED <<proceso, entregas>>, ~Fallo
      PROVE  Meta
  <2>1. Entregando(a)' = Entregando(a)
    BY <1>8 DEF Entregando, En, De
  <2>2. c \in Nat /\ d = c
    <3>1. IsFiniteSet(Entregando(a))
      BY OutboxAssumption, FS_Subset DEF Entregando
    <3> QED
      BY <2>1, <3>1, FS_CardinalityType DEF c, d
  <2> QED
    BY <1>1, <1>3, <1>8, <2>2
<1>9. CASE Fallo
  BY <1>4, <1>9 DEF Fallo, Meta
<1>10. CASE ~Fallo
  BY <1>6, <1>7, <1>8, <1>10 DEF Next, Encolar, Tick, Meta
<1> QED
  BY <1>9, <1>10

\* Attempts are counted by the claims only, and who joins to claim with attempts
\* left read what the row says.
LEMMA IntentosPaso ==
  ASSUME IInv, IInv', Next, NEW a \in Avisos, CuentaIntentos(a)
  PROVE  CuentaIntentos(a)'
<1> DEFINE c == Cardinality(ConResto(a))
           d == Cardinality(ConResto(a)')
           i == fila[a].intentos
           j == fila'[a].intentos
           n == Cardinality(Procesos)
<1>1. /\ TypeOK /\ TypeOK' /\ fallas \in Nat /\ fallas' \in Nat
      /\ i \in Nat /\ j \in Nat /\ MaxIntentos \in Nat /\ MaxIntentos > 0
  BY OutboxAssumption DEF IInv, TypeOK, Fila
<1>2. \/ i = 0
      \/ i + c + 1 <= MaxIntentos + n + fallas /\ (~Ultimo(a) => i + c + 2 <= MaxIntentos + n + fallas)
  BY DEF CuentaIntentos
<1> DEFINE Meta ==
      \/ j = 0
      \/ j + d + 1 <= MaxIntentos + n + fallas' /\ (~Ultimo(a)' => j + d + 2 <= MaxIntentos + n + fallas')
<1>3. SUFFICES Meta
  BY DEF CuentaIntentos
<1> HIDE DEF c, d, i, j, n
<1>4. fallas' = fallas \/ fallas' = fallas + 1
  BY FallasPaso
\* A step that claims nothing and adds nobody.
<1>5. ASSUME j = i, c \in Nat, d \in Nat, n \in Nat, d <= c
      PROVE  Meta
  <2>1. Ultimo(a) => fallas' = fallas + 1 \/ Ultimo(a)'
    BY SigueUltimo
  <2>2. CASE i = 0
    BY <1>5, <2>2
  <2>3. CASE i # 0 /\ fallas' = fallas + 1
    <3>1. i + c + 1 <= MaxIntentos + n + fallas
      BY <1>2, <2>3
    <3>2. j + d + 2 <= MaxIntentos + n + fallas'
      BY <1>1, <1>5, <2>3, <3>1
    <3>3. j + d + 1 <= MaxIntentos + n + fallas'
      BY <1>1, <1>5, <2>3, <3>1
    <3> QED
      BY <3>2, <3>3
  <2>4. CASE i # 0 /\ fallas' = fallas
    <3>1. i + c + 1 <= MaxIntentos + n + fallas /\ (~Ultimo(a) => i + c + 2 <= MaxIntentos + n + fallas)
      BY <1>2, <2>4
    <3>2. ~Ultimo(a)' => ~Ultimo(a)
      BY <1>1, <2>1, <2>4
    <3> QED
      BY <1>1, <1>5, <2>4, <3>1, <3>2
  <2> QED
    BY <1>4, <2>2, <2>3, <2>4
<1> HIDE DEF Meta
<1>6. ASSUME NEW p \in Procesos, Paso(p) \/ Fallar(p) \/ Caer(p),
             ~(proceso'[p].paso = "reclamar" /\ proceso'[p].aviso = a), j = i
      PROVE  Meta
  <2>1. \A q \in Procesos : q # p => proceso'[q] = proceso[q]
    BY <1>1, <1>6, SoloSeMueve
  <2>2. c \in Nat /\ d \in Nat /\ n \in Nat /\ d <= c
    BY <1>6, <2>1, CuantosConResto DEF c, d, n
  <2> QED
    BY <1>5, <1>6, <2>2
<1>7. ASSUME NEW p \in Procesos, Buscar(p)
      PROVE  Meta
  <2>1. \A q \in Procesos : q # p => proceso'[q] = proceso[q]
    BY <1>1, <1>7, SoloSeMueve DEF Paso
  <2>2. j = i /\ fallas' = fallas
    BY <1>7 DEF Buscar, i, j
  <2>3. PICK x \in Proceso :
          /\ proceso'[p] = x
          /\ \/ x.paso = "libre"
             \/ x.paso = "reclamar" /\ x.aviso \in Avisos /\ x.leidos = fila[x.aviso].intentos
    BY <1>1, <1>7, BuscarEscribe DEF Mueve, TypeOK
  <2>4. CASE x.paso = "reclamar" /\ x.aviso = a
    <3>1. x.leidos = i
      BY <2>3, <2>4 DEF i
    <3>2. Agotado(p)' <=> i + 1 >= MaxIntentos
      BY <2>3, <3>1 DEF Agotado
    <3>3. /\ c \in Nat /\ d \in Nat /\ n \in Nat /\ d <= n
          /\ Agotado(p)' => d <= c
      BY <2>1, <2>3, <2>4, CuantosConResto DEF c, d, n
    <3>4. CASE Agotado(p)'
      BY <1>5, <2>2, <3>3, <3>4
    <3>5. CASE ~Agotado(p)'
      <4>1. i + 2 <= MaxIntentos
        BY <1>1, <3>2, <3>5
      <4> QED
        BY <1>1, <2>2, <3>3, <4>1 DEF Meta
    <3> QED
      BY <3>4, <3>5
  <2>5. CASE ~(x.paso = "reclamar" /\ x.aviso = a)
    BY <1>6, <1>7, <2>2, <2>3, <2>5 DEF Paso
  <2> QED
    BY <2>4, <2>5
<1>8. ASSUME NEW p \in Procesos, Reclamar(p), Reclamable(De(p))
      PROVE  Meta
  <2>1. CASE De(p) # a
    <3>1. De(p) \in Avisos
      BY <1>1, <1>8, AvisoDe DEF Reclamar, En
    <3>2. proceso'[p].paso = "entregar" /\ fila'[a] = fila[a]
      BY <1>8, <2>1, <3>1, ReclamoDado
    <3> QED
      BY <1>6, <1>8, <3>2 DEF Paso, i, j
  <2>2. CASE De(p) = a
    <3>1. /\ proceso[p].paso = "reclamar" /\ ~Ultimo(a)
          /\ \A q \in Procesos : q # p => proceso'[q] = proceso[q]
          /\ proceso'[p].paso = "entregar" /\ proceso'[p].leidos = proceso[p].leidos
          /\ j = i + 1 /\ fallas' = fallas /\ Vigente(p, a)'
      BY <1>8, <2>2, ReclamoDado DEF i, j
    <3>2. proceso[p].leidos \in Nat /\ proceso[p].leidos <= i
      BY <1>1, <2>2, <3>1 DEF IInv, Conocen, Conoce, En, TypeOK, Proceso, i
    <3>3. /\ c \in Nat /\ d \in Nat /\ n \in Nat /\ n >= 1 /\ d <= c
          /\ ~Agotado(p) => d = c - 1 /\ d + 1 <= n
      BY <2>2, <3>1, CuantosConResto DEF c, d, n
    <3>4. CASE Agotado(p)
      <4>1. Ultimo(a)'
        BY <3>1, <3>4 DEF Ultimo, Agotado
      <4>2. CASE i = 0
        <5>1. MaxIntentos = 1
          BY <1>1, <3>2, <3>4, <4>2 DEF Agotado
        <5>2. d = 0
          <6>1. ConResto(a)' = {}
            <7>1. \A q \in Procesos : proceso'[q].leidos \in Nat
              BY <1>1 DEF TypeOK, Proceso
            <7> QED
              BY <5>1, <7>1 DEF ConResto, Agotado
          <6> QED
            BY <6>1, FS_EmptySet DEF d
        <5> QED
          BY <1>1, <3>1, <3>3, <4>1, <4>2, <5>1, <5>2 DEF Meta
      <4>3. CASE i # 0
        BY <1>1, <1>2, <3>1, <3>3, <4>1, <4>3 DEF Meta
      <4> QED
        BY <4>2, <4>3
    <3>5. CASE ~Agotado(p)
      <4>1. CASE i = 0
        <5>1. MaxIntentos >= 2
          BY <1>1, <3>2, <3>5, <4>1 DEF Agotado
        <5> QED
          BY <1>1, <3>1, <3>3, <3>5, <4>1, <5>1 DEF Meta
      <4>2. CASE i # 0
        BY <1>1, <1>2, <3>1, <3>3, <3>5, <4>2 DEF Meta
      <4> QED
        BY <4>1, <4>2
    <3> QED
      BY <3>4, <3>5
  <2> QED
    BY <2>1, <2>2
<1>9. ASSUME NEW p \in Procesos, Paso(p)
      PROVE  Meta
  <2>1. CASE Despertar(p) \/ (Reclamar(p) /\ ~Reclamable(De(p))) \/ Anotar(p)
    <3>1. proceso'[p].paso = "buscar" /\ j = i
      BY <2>1, SinAviso DEF i, j
    <3> QED
      BY <1>6, <1>9, <3>1
  <2>2. ASSUME NEW bien \in BOOLEAN, Entregar(p, bien)
        PROVE  Meta
    <3>1. proceso'[p].paso = "anotar" /\ j = i
      BY <1>1, <2>2, EntregarMueve DEF i, j
    <3> QED
      BY <1>6, <1>9, <3>1
  <2> QED
    BY <1>7, <1>8, <1>9, <2>1, <2>2 DEF Paso
<1>10. ASSUME NEW p \in Procesos, Fallar(p) \/ Caer(p)
       PROVE  Meta
  <2>1. proceso'[p].paso \in {"libre", "anotar"} /\ j = i
    BY <1>1, <1>10, FallarMueve DEF i, j
  <2> QED
    BY <1>6, <1>10, <2>1
<1>11. ASSUME proceso' = proceso, j = i
       PROVE  Meta
  <2>1. ConResto(a)' = ConResto(a)
    BY <1>11 DEF ConResto, En, De, Agotado
  <2>2. c \in Nat /\ d = c /\ n \in Nat
    <3>1. IsFiniteSet(ConResto(a)) /\ IsFiniteSet(Procesos)
      BY OutboxAssumption, FS_Subset DEF ConResto
    <3> QED
      BY <2>1, <3>1, FS_CardinalityType DEF c, d, n
  <2> QED
    BY <1>1, <1>5, <1>11, <2>2
<1>12. ASSUME NEW b \in Avisos, Encolar(b)
       PROVE  Meta
  <2>1. fila' = [fila EXCEPT ![b].estado = "pending"] /\ proceso' = proceso
    BY <1>12 DEF Encolar
  <2>2. j = i
    BY <1>1, <2>1 DEF TypeOK, Fila, i, j
  <2> QED
    BY <1>11, <2>1, <2>2
<1>13. CASE Tick
  <2>1. proceso' = proceso /\ j = i
    BY <1>1, <1>13, TickEscribe DEF Tick, i, j
  <2> QED
    BY <1>11, <2>1
<1> QED
  BY <1>9, <1>10, <1>12, <1>13 DEF Next

\* Every step keeps both counts ...
LEMMA CuentasPaso ==
  ASSUME IInv, IInv', Cuentas, [Next]_vars
  PROVE  Cuentas'
<1>1. CASE Next
  <2>1. \A a \in Avisos : CuentaEntregas(a)' /\ CuentaIntentos(a)'
    BY <1>1, EntregasPaso, IntentosPaso DEF Cuentas
  <2> QED
    BY <2>1 DEF Cuentas
<1>2. CASE UNCHANGED vars
  BY <1>2 DEF vars, Cuentas, CuentaEntregas, CuentaIntentos, Cubierto, Ultimo, Vigente,
              Entregando, ConResto, Agotado, En, De, Suyo
<1> QED
  BY <1>1, <1>2

\* ... which are right at the start ...
LEMMA CuentasInicio ==
  ASSUME Init
  PROVE  Cuentas
<1>1. ASSUME NEW a \in Avisos
      PROVE  CuentaEntregas(a) /\ CuentaIntentos(a)
  <2>1. Entregando(a) = {} /\ entregas[a] = 0 /\ fallas = 0 /\ fila[a].intentos = 0
    BY <1>1 DEF Init, Entregando, En, Libre, SinFila
  <2>2. Cardinality(Entregando(a)) = 0
    BY <2>1, FS_EmptySet
  <2> QED
    BY <2>1, <2>2 DEF CuentaEntregas, CuentaIntentos
<1> QED
  BY <1>1 DEF Cuentas

\* ... and hence always.
LEMMA CuentasSiempre == Spec => [](IInv /\ Cuentas)
<1>1. Init => IInv /\ Cuentas
  BY InicioBien, CuentasInicio
<1>2. IInv /\ Cuentas /\ [Next]_vars => (IInv /\ Cuentas)'
  BY PasoBien, QuietoBien, CuentasPaso
<1> QED
  BY <1>1, <1>2, PTL DEF Spec

\* However many processes drain at once, a notice is delivered once, and once more at
\* most for each thing that failed, stopped or outlived its lease (drenar and its
\* conditional claim).
THEOREM UnaEntregaYLasFallas == Spec => []UnaEntregaSinFallas
<1>1. ASSUME IInv, Cuentas, NEW a \in Avisos
      PROVE  entregas[a] <= 1 + fallas
  <2>1. IsFiniteSet(Entregando(a))
    BY OutboxAssumption, FS_Subset DEF Entregando
  <2>2. Cardinality(Entregando(a)) \in Nat
    BY <2>1, FS_CardinalityType
  <2> QED
    BY <1>1, <2>2 DEF Cuentas, CuentaEntregas, IInv, TypeOK
<1>2. IInv /\ Cuentas => UnaEntregaSinFallas
  BY <1>1 DEF UnaEntregaSinFallas
<1> QED
  BY <1>2, CuentasSiempre, PTL

\* The attempts compared are those read before the claim: each other process adds one
\* to the limit at most, and each failure one more.
THEOREM LosIntentosSeAcaban == Spec => []ReintentosAcotados
<1>1. ASSUME IInv, Cuentas, NEW a \in Avisos
      PROVE  fila[a].intentos <= MaxIntentos + Cardinality(Procesos) - 1 + fallas
  <2>1. IsFiniteSet(ConResto(a)) /\ IsFiniteSet(Procesos)
    BY OutboxAssumption, FS_Subset DEF ConResto
  <2>2. Cardinality(ConResto(a)) \in Nat /\ Cardinality(Procesos) \in Nat
    BY <2>1, FS_CardinalityType
  <2>3. fila[a].intentos \in Nat /\ fallas \in Nat /\ MaxIntentos \in Nat /\ MaxIntentos > 0
    BY <1>1, OutboxAssumption DEF IInv, TypeOK, Fila
  <2> QED
    BY <1>1, <2>2, <2>3 DEF Cuentas, CuentaIntentos
<1>2. IInv /\ Cuentas => ReintentosAcotados
  BY <1>1 DEF ReintentosAcotados
<1> QED
  BY <1>2, CuentasSiempre, PTL
=============================================================================
