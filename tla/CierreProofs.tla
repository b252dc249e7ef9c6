---------------------------- MODULE CierreProofs ----------------------------
(***************************************************************************)
(* Theorems about the closing of works, for any number of works, requests  *)
(* and sweeps.                                                             *)
(*                                                                         *)
(* The argument: what a thread knows at each await of aplicarConfirmacion  *)
(* stays true while others write (Conoce), because the row of a closing    *)
(* moves in four ways only (Fila): it is made, observed, settled or        *)
(* confirmed, each on its own condition.  A confirmed row does not move    *)
(* (Cerradas), and the one thread that won it is the one that tells it     *)
(* (Avisado).                                                              *)
(***************************************************************************)
EXTENDS Cierre, TLAPS, FiniteSetTheorems, SequenceTheorems

Hilo == [paso : PASOS, resto : Seq(Trabajos), gano : BOOLEAN]
HiloBien(x) == x \in Hilo /\ (x.resto = <<>> <=> x.paso = "libre")

\* Awaits of a thread after its conditional write.
EFECTOS == {"releer", "completar", "completar_trabajo", "evaluar"}

\* What a thread knows of the work it is at, or of all the works it has left.
Conoce(h) ==
  /\ hilo[h].gano => hilo[h].paso \in EFECTOS /\ cierre[De(h)].confirmada # "no"
  /\ hilo[h].paso \in {"completar", "completar_trabajo"} => cierre[De(h)].confirmada # "no"
  /\ h \in Barridos =>
       /\ hilo[h].paso # "crear"
       /\ \A k \in 1..Len(hilo[h].resto) :
            cierre[hilo[h].resto[k]].fin /\ cierre[hilo[h].resto[k]].vence <= ahora

Conocen == \A h \in Hilos : Conoce(h)

\* A confirmed closing was made and has no open observation.
Cerradas == \A w \in Trabajos : cierre[w].confirmada # "no" => cierre[w].fin /\ cierre[w].obs # "abierta"

Gano(h, w) == hilo[h].gano /\ De(h) = w

\* Told once at most, by the one thread that won it.
Avisado(w) ==
  /\ avisos[w] = 0 \/ avisos[w] = 1
  /\ avisos[w] = 1 => cierre[w].confirmada # "no" /\ \A h \in Hilos : ~Gano(h, w)
  /\ \A h, g \in Hilos : Gano(h, w) /\ Gano(g, w) => h = g

Avisados == \A w \in Trabajos : Avisado(w)

IInv == TypeOK /\ Conocen /\ Cerradas /\ Avisados /\ LiberadoSoloCerrado /\ CompletoSoloCerrado

----------------------------------------------------------------------------
(* The list of a sweep.                                                    *)

\* The oldest first: the place of each overdue closing is how many come before it.
LEMMA ListaBien ==
  ASSUME TypeOK
  PROVE  /\ ListaVencidos \in Seq(Trabajos)
         /\ \A k \in 1..Len(ListaVencidos) : Vencido(ListaVencidos[k])
<1> DEFINE S == {w \in Trabajos : Vencido(w)}
           previos(w) == {v \in S : Antes(v, w)}
           lugar(w) == Cardinality({v \in S : Antes(v, w)}) + 1
           n == IF Cardinality(S) < Limite THEN Cardinality(S) ELSE Limite
           f == [w \in S |-> lugar(w)]
<1> USE CierreAssumption
<1>1. S \subseteq Trabajos /\ \A w \in S : Vencido(w)
  OBVIOUS
<1>2. IsFiniteSet(S) /\ Cardinality(S) \in Nat
  BY <1>1, FS_Subset, FS_CardinalityType
<1>3. \A w \in S : w \in Nat /\ cierre[w].vence \in Nat
  BY <1>1 DEF TypeOK, CierreTrabajo
<1>3a. \A w \in S : ~Antes(w, w)
  <2>1. SUFFICES ASSUME NEW w \in S PROVE ~Antes(w, w)
    OBVIOUS
  <2>2. w \in Nat /\ cierre[w].vence \in Nat
    BY <1>3
  <2> HIDE DEF S
  <2>3. ~(w < w) /\ ~(cierre[w].vence < cierre[w].vence)
    BY <2>2
  <2>4. QED
    BY <2>3 DEF Antes
<1>4. n \in Nat /\ n <= Cardinality(S)
  BY <1>2
<1>5. ASSUME NEW w \in S
      PROVE  IsFiniteSet(previos(w)) /\ Cardinality(previos(w)) \in Nat /\ Cardinality(previos(w)) < Cardinality(S)
  <2>1. ~Antes(w, w)
    BY <1>3a
  <2>2. previos(w) \in SUBSET S /\ previos(w) # S
    BY <2>1
  <2>3. IsFiniteSet(previos(w)) /\ Cardinality(previos(w)) <= Cardinality(S) /\ Cardinality(previos(w)) # Cardinality(S)
    BY <1>2, <2>2, FS_Subset
  <2>4. Cardinality(previos(w)) \in Nat
    BY <2>3, FS_CardinalityType
  <2>5. QED
    BY <1>2, <2>3, <2>4
<1>6. ASSUME NEW v \in S, NEW w \in S, Antes(v, w)
      PROVE  Cardinality(previos(v)) # Cardinality(previos(w))
  <2>1. \A u \in S : Antes(u, v) => Antes(u, w)
    <3>1. SUFFICES ASSUME NEW u \in S, Antes(u, v) PROVE Antes(u, w)
      OBVIOUS
    <3>2. /\ u \in Nat /\ v \in Nat /\ w \in Nat
          /\ cierre[u].vence \in Nat /\ cierre[v].vence \in Nat /\ cierre[w].vence \in Nat
      BY <1>3
    <3> HIDE DEF S
    <3>3. QED
      BY <1>6, <3>1, <3>2 DEF Antes
  <2>2. ~Antes(v, v)
    BY <1>3a
  <2>3. previos(v) \in SUBSET previos(w) /\ v \in previos(w) /\ v \notin previos(v)
    BY <1>6, <2>1, <2>2
  <2>4. previos(v) # previos(w)
    BY <2>3
  <2>5. QED
    BY <1>5, <2>3, <2>4, FS_Subset
<1>7. \A v, w \in S : v # w => Antes(v, w) \/ Antes(w, v)
  BY <1>3 DEF Antes
<1>8. f \in Injection(S, 1..Cardinality(S))
  <2>1. \A w \in S : f[w] \in 1..Cardinality(S)
    BY <1>2, <1>5
  <2>2. \A v, w \in S : f[v] = f[w] => v = w
    <3>1. SUFFICES ASSUME NEW v \in S, NEW w \in S, v # w PROVE f[v] # f[w]
      OBVIOUS
    <3>2. Cardinality(previos(v)) # Cardinality(previos(w))
      BY <1>6, <1>7, <3>1
    <3>3. f[v] = Cardinality(previos(v)) + 1 /\ f[w] = Cardinality(previos(w)) + 1
      OBVIOUS
    <3>4. Cardinality(previos(v)) \in Nat /\ Cardinality(previos(w)) \in Nat
      BY <1>5
    <3> HIDE DEF previos, f
    <3>5. QED
      BY <3>2, <3>3, <3>4
  <2>3. f \in [S -> 1..Cardinality(S)]
    BY <2>1
  <2>4. QED
    BY <2>2, <2>3 DEF Injection, IsInjective
<1>9. \A k \in 1..Cardinality(S) : \E w \in S : lugar(w) = k
  <2>1. IsFiniteSet(1..Cardinality(S)) /\ Cardinality(1..Cardinality(S)) = Cardinality(S)
    BY <1>2, FS_Interval
  <2>2. f \in Surjection(S, 1..Cardinality(S))
    BY <1>8, <2>1, FS_Injection
  <2>3. QED
    BY <2>2 DEF Surjection
<1>10. ListaVencidos = [k \in 1..n |-> CHOOSE w \in S : lugar(w) = k]
  BY DEF ListaVencidos
<1>11. \A k \in 1..n : (CHOOSE w \in S : lugar(w) = k) \in S
  <2>1. SUFFICES ASSUME NEW k \in 1..n PROVE (CHOOSE w \in S : lugar(w) = k) \in S
    OBVIOUS
  <2>2. k \in 1..Cardinality(S)
    BY <1>2, <1>4
  <2>3. \E w \in S : lugar(w) = k
    BY <1>9, <2>2
  <2> HIDE DEF S, lugar
  <2>4. QED
    BY <2>3
<1> DEFINE lista == [k \in 1..n |-> CHOOSE w \in S : lugar(w) = k]
<1> HIDE DEF S, lugar, n
<1>12. \A k \in 1..n : lista[k] \in S
  BY <1>11
<1>13. lista \in Seq(Trabajos) /\ Len(lista) = n
  <2>1. DOMAIN lista = 1..n /\ lista \in [1..n -> Trabajos]
    BY <1>1, <1>11
  <2> HIDE DEF lista
  <2>2. QED
    BY <1>4, <2>1
<1> HIDE DEF lista
<1>14. ListaVencidos = lista
  BY <1>10 DEF lista
<1>15. QED
  BY <1>1, <1>12, <1>13, <1>14

----------------------------------------------------------------------------
(* The threads.                                                            *)

\* A thread of a well typed state is well typed.
LEMMA HiloTipo == ASSUME TypeOK, NEW h \in Hilos PROVE HiloBien(hilo[h])
BY DEF TypeOK, HiloBien, Hilo

\* A thread that works is at the first work it has left.
LEMMA DeTipo ==
  ASSUME TypeOK, NEW h \in Hilos, hilo[h].paso # "libre"
  PROVE  De(h) \in Trabajos /\ hilo[h].resto # <<>> /\ De(h) = hilo[h].resto[1] /\ 1 \in 1..Len(hilo[h].resto)
<1>1. hilo[h].resto \in Seq(Trabajos) /\ hilo[h].resto # <<>>
  BY HiloTipo DEF HiloBien, Hilo
<1>2. QED
  BY <1>1 DEF De

\* A thread that starts, or stops, is well typed.
LEMMA OcupadoTipo ==
  ASSUME NEW p \in PASOS \ {"libre"}, NEW s \in Seq(Trabajos), s # <<>>
  PROVE  HiloBien(Ocupado(p, s)) /\ HiloBien(Libre)
BY DEF HiloBien, Hilo, Ocupado, Libre, PASOS

\* A list of one work.
LEMMA UnoTipo ==
  ASSUME NEW w \in Trabajos
  PROVE  /\ <<w>> \in Seq(Trabajos) /\ <<w>> # <<>> /\ Len(<<w>>) = 1
         /\ Head(<<w>>) = w /\ <<w>>[1] = w
OBVIOUS

\* A thread that goes to its next work has the rest of its list.
LEMMA SiguienteTipo ==
  ASSUME TypeOK, NEW h \in Hilos
  PROVE  /\ HiloBien(Siguiente(h)) /\ ~Siguiente(h).gano /\ Siguiente(h).paso \in {"libre", "mirar"}
         /\ \A k \in 1..Len(Siguiente(h).resto) :
              k + 1 \in 1..Len(hilo[h].resto) /\ Siguiente(h).resto[k] = hilo[h].resto[k + 1]
<1>1. hilo[h].resto \in Seq(Trabajos)
  BY HiloTipo DEF HiloBien, Hilo
<1>2. CASE Len(hilo[h].resto) > 1
  <2> DEFINE s == hilo[h].resto
             t == Tail(s)
  <2>1. s # <<>> /\ Len(s) \in Nat
    BY <1>1, <1>2
  <2>2. t \in Seq(Trabajos) /\ Len(t) = Len(s) - 1 /\ \A k \in 1..Len(t) : t[k] = s[k + 1]
    BY <1>1, <2>1, HeadTailProperties
  <2>3. t # <<>> /\ \A k \in 1..Len(t) : k + 1 \in 1..Len(s)
    <3>1. Len(s) > 1
      BY <1>2
    <3> HIDE DEF s, t
    <3>2. QED
      BY <2>1, <2>2, <3>1
  <2>4. Siguiente(h) = Ocupado("mirar", t)
    BY <1>2 DEF Siguiente
  <2> HIDE DEF t
  <2>5. QED
    BY <2>2, <2>3, <2>4, OcupadoTipo DEF Ocupado, PASOS
<1>3. CASE ~(Len(hilo[h].resto) > 1)
  <2>1. Siguiente(h) = Libre
    BY <1>3 DEF Siguiente
  <2>2. QED
    BY <2>1 DEF Libre, HiloBien, Hilo, PASOS
<1>4. QED
  BY <1>2, <1>3

\* Every step leaves the threads alone or moves one of them, in one of these ways.
Avance(h, x) ==
  /\ hilo[h].paso # "libre"
  /\ \E p \in PASOS \ {"libre", "crear"} :
       /\ x = [hilo[h] EXCEPT !.paso = p]
       /\ hilo[h].gano => p \in EFECTOS
       /\ p \in {"completar", "completar_trabajo"} => cierre[De(h)].confirmada # "no"

\* The conditional write: who wins knows it.
Escribe(h, x) ==
  /\ En(h, "confirmar")
  /\ x = [paso |-> "releer", resto |-> hilo[h].resto, gano |-> Abierto(cierre[De(h)])]
  /\ cierre' = IF Abierto(cierre[De(h)])
               THEN [cierre EXCEPT ![De(h)].confirmada = IF h \in Barridos THEN "automatica" ELSE "cliente"]
               ELSE cierre

Empieza(h, x) ==
  \/ h \in Pedidos /\ \E p \in PASOS \ {"libre", "completar", "completar_trabajo"}, w \in Trabajos : x = Ocupado(p, <<w>>)
  \/ h \in Barridos /\ x = Ocupado("mirar", ListaVencidos) /\ ListaVencidos # <<>>

Suelta(h, x) == x = Libre \/ x = Siguiente(h)

Mueve(h, x) == Avance(h, x) \/ Escribe(h, x) \/ Empieza(h, x) \/ Suelta(h, x)

MueveHilo ==
  \/ hilo' = hilo
  \/ \E h \in Hilos, x \in Hilo : HiloBien(x) /\ hilo' = [hilo EXCEPT ![h] = x] /\ Mueve(h, x)

\* Going on to another await moves a thread in one of the four ways ...
LEMMA AvanzaMueve ==
  ASSUME TypeOK, Conocen, NEW h \in Hilos, NEW p \in PASOS \ {"libre", "crear"},
         hilo[h].paso # "libre", Avanza(h, p), hilo[h].gano => p \in EFECTOS,
         p \in {"completar", "completar_trabajo"} => cierre[De(h)].confirmada # "no"
  PROVE  MueveHilo
<1> DEFINE x == [hilo[h] EXCEPT !.paso = p]
<1>1. HiloBien(x)
  BY HiloTipo DEF HiloBien, Hilo
<1>2. hilo' = [hilo EXCEPT ![h] = x]
  BY DEF Avanza
<1>3. Mueve(h, x)
  BY DEF Mueve, Avance
<1>4. QED
  BY <1>1, <1>2, <1>3 DEF MueveHilo, HiloBien

\* ... and so does ending ...
LEMMA TerminaMueve ==
  ASSUME TypeOK, NEW h \in Hilos, Termina(h)
  PROVE  MueveHilo
BY SiguienteTipo DEF Termina, MueveHilo, HiloBien, Mueve, Suelta

\* ... and starting.
LEMMA EmpiezaMueve ==
  ASSUME TypeOK, NEW h \in Pedidos, NEW w \in Trabajos,
         NEW p \in PASOS \ {"libre", "completar", "completar_trabajo"}, hilo' = [hilo EXCEPT ![h] = Ocupado(p, <<w>>)]
  PROVE  MueveHilo
<1>1. HiloBien(Ocupado(p, <<w>>)) /\ h \in Hilos
  BY OcupadoTipo, UnoTipo DEF Hilos
<1>2. Mueve(h, Ocupado(p, <<w>>))
  BY DEF Mueve, Empieza
<1>3. QED
  BY <1>1, <1>2 DEF MueveHilo, HiloBien

\* Every step leaves the threads alone or moves one.
LEMMA HilosPaso ==
  ASSUME TypeOK, Conocen, Next
  PROVE  MueveHilo
<1> USE DEF PASOS, EFECTOS
<1>1. \A h \in Hilos : Conoce(h)
  BY DEF Conocen
<1>2. ASSUME NEW h \in Hilos, Paso(h) PROVE MueveHilo
  <2>1. CASE CrearCierre(h)
    BY <2>1, TerminaMueve DEF CrearCierre
  <2>2. CASE MirarBloqueos(h)
    <3>1. ~hilo[h].gano /\ hilo[h].paso # "libre"
      BY <1>1, <2>2 DEF Conoce, MirarBloqueos, En
    <3>2. QED
      BY <2>2, <3>1, TerminaMueve, AvanzaMueve DEF MirarBloqueos
  <2>3. CASE BuscarCierre(h)
    <3>1. ~hilo[h].gano /\ hilo[h].paso # "libre"
      BY <1>1, <2>3 DEF Conoce, BuscarCierre, En
    <3>2. Termina(h) \/ Avanza(h, "mirar_turno") \/ Avanza(h, "releer")
      BY <2>3 DEF BuscarCierre
    <3>3. QED
      BY <3>1, <3>2, TerminaMueve, AvanzaMueve
  <2>4. CASE MirarTurno(h)
    <3>1. ~hilo[h].gano /\ hilo[h].paso # "libre"
      BY <1>1, <2>4 DEF Conoce, MirarTurno, En
    <3>2. QED
      BY <2>4, <3>1, TerminaMueve, AvanzaMueve DEF MirarTurno
  <2>5. CASE ConfirmarCierre(h)
    <3> DEFINE b == Abierto(cierre[De(h)])
               x == [paso |-> "releer", resto |-> hilo[h].resto, gano |-> b]
               y == [hilo EXCEPT ![h].paso = "releer"]
    <3>1. hilo' = [y EXCEPT ![h].gano = b]
      BY <2>5 DEF ConfirmarCierre, Gana
    <3>2. hilo[h] \in Hilo /\ hilo \in [Hilos -> Hilo]
      BY DEF TypeOK, Hilo
    <3>3. hilo' = [hilo EXCEPT ![h] = x]
      <4>1. /\ y \in [Hilos -> Hilo]
            /\ y[h] = [paso |-> "releer", resto |-> hilo[h].resto, gano |-> hilo[h].gano]
            /\ \A g \in Hilos : g # h => y[g] = hilo[g]
        BY <3>2 DEF Hilo
      <4> HIDE DEF y, b
      <4>2. /\ hilo' \in [Hilos -> UNION {Hilo, {[y[h] EXCEPT !.gano = b]}}]
            /\ hilo'[h] = [paso |-> "releer", resto |-> hilo[h].resto, gano |-> b]
            /\ \A g \in Hilos : g # h => hilo'[g] = hilo[g]
        BY <3>1, <4>1
      <4>3. QED
        BY <3>2, <4>2
    <3>4. Abierto(cierre[De(h)]) \in BOOLEAN
      BY DeTipo, <2>5 DEF Abierto, TypeOK, CierreTrabajo, ConfirmarCierre, En
    <3>5. hilo[h].resto # <<>>
      BY DeTipo, <2>5 DEF ConfirmarCierre, En
    <3>6. HiloBien(x)
      BY <3>2, <3>4, <3>5 DEF HiloBien, Hilo
    <3>7. Mueve(h, x)
      BY <2>5 DEF Mueve, Escribe, ConfirmarCierre
    <3> HIDE DEF x
    <3>8. QED
      BY <3>3, <3>6, <3>7 DEF MueveHilo, HiloBien
  <2>6. CASE Releer(h)
    <3>1. hilo[h].paso # "libre"
      BY <2>6 DEF Releer, En
    <3>2. Termina(h) \/ (Avanza(h, "completar") /\ cierre[De(h)].confirmada # "no")
      BY <2>6 DEF Releer
    <3>3. QED
      BY <3>1, <3>2, TerminaMueve, AvanzaMueve
  <2>7. CASE CompletarReserva(h)
    <3>1. hilo[h].paso # "libre" /\ cierre[De(h)].confirmada # "no"
      BY <1>1, <2>7 DEF Conoce, CompletarReserva, En
    <3>2. Avanza(h, "completar_trabajo")
      BY <2>7 DEF CompletarReserva
    <3>3. QED
      BY <3>1, <3>2, AvanzaMueve
  <2>8. CASE CompletarSiPagado(h)
    <3>1. hilo[h].paso # "libre"
      BY <2>8 DEF CompletarSiPagado, En
    <3>2. Avanza(h, "evaluar")
      BY <2>8 DEF CompletarSiPagado
    <3>3. QED
      BY <3>1, <3>2, AvanzaMueve
  <2>9. CASE EvaluarPagos(h)
    BY <2>9, TerminaMueve DEF EvaluarPagos
  <2>10. QED
    BY <1>2, <2>1, <2>2, <2>3, <2>4, <2>5, <2>6, <2>7, <2>8, <2>9 DEF Paso
<1>3. ASSUME NEW h \in Hilos, Caer(h) PROVE MueveHilo
  <2>1. HiloBien(Libre) /\ Mueve(h, Libre)
    BY DEF Mueve, Suelta, Libre, HiloBien, Hilo
  <2>2. QED
    BY <1>3, <2>1 DEF MueveHilo, Caer, HiloBien
<1>4. ASSUME NEW h \in Hilos, Fallar(h) PROVE MueveHilo
  BY <1>4, TerminaMueve DEF Fallar
<1>5. ASSUME NEW h \in Pedidos, NEW w \in Trabajos, Pedir(h, w) PROVE MueveHilo
  <2>1. \/ hilo' = [hilo EXCEPT ![h] = Ocupado("crear", <<w>>)]
        \/ hilo' = [hilo EXCEPT ![h] = Ocupado("buscar", <<w>>)]
        \/ hilo' = [hilo EXCEPT ![h] = Ocupado("evaluar", <<w>>)]
    BY <1>5 DEF Pedir, PedirFinalizar, PedirConfirmar, ResolverObservacion
  <2>2. QED
    BY <2>1, EmpiezaMueve
<1>6. ASSUME NEW h \in Barridos, IniciarBarrido(h) PROVE MueveHilo
  <2> DEFINE x == Ocupado("mirar", ListaVencidos)
  <2>1. ListaVencidos # <<>> /\ hilo' = [hilo EXCEPT ![h] = x] /\ h \in Hilos
    BY <1>6 DEF IniciarBarrido, Hilos
  <2>2. HiloBien(x)
    BY <2>1, ListaBien, OcupadoTipo
  <2>3. Mueve(h, x)
    BY <1>6, <2>1 DEF Mueve, Empieza
  <2> HIDE DEF x
  <2>4. QED
    BY <2>1, <2>2, <2>3 DEF MueveHilo, HiloBien
<1>7. ASSUME NEW w \in Trabajos, DeOtros(w) PROVE MueveHilo
  <2>1. hilo' = hilo
    BY <1>7 DEF DeOtros, Observar, BajaLee, BajaEscribe, BajaFalla, PagarSaldo, Frenar
  <2>2. QED
    BY <2>1 DEF MueveHilo
<1>8. ASSUME Tick PROVE MueveHilo
  BY <1>8 DEF Tick, MueveHilo
<1>9. QED
  BY <1>2, <1>3, <1>4, <1>5, <1>6, <1>7, <1>8 DEF Next

----------------------------------------------------------------------------
(* The rows.                                                               *)

\* A row is made, observed, settled or confirmed, each on its own condition.
Fila(w) ==
  \/ cierre'[w] = cierre[w]
  \/ ~cierre[w].fin /\ cierre'[w] = [cierre[w] EXCEPT !.fin = TRUE, !.vence = ahora + Ventana]
  \/ Abierto(cierre[w]) /\ cierre'[w] = [cierre[w] EXCEPT !.obs = "abierta"]
  \/ cierre[w].obs = "abierta" /\ cierre'[w] = [cierre[w] EXCEPT !.obs = "resuelta", !.resuelta = ahora]
  \/ Abierto(cierre[w]) /\ cierre'[w] = [cierre[w] EXCEPT !.confirmada = "cliente"]
  \/ Vencido(w) /\ cierre'[w] = [cierre[w] EXCEPT !.confirmada = "automatica"]

\* Writing one row leaves the others as they were.
LEMMA UnaFila ==
  ASSUME TypeOK, NEW v \in Trabajos, NEW r \in CierreTrabajo, cierre' = [cierre EXCEPT ![v] = r]
  PROVE  /\ cierre' \in [Trabajos -> CierreTrabajo] /\ cierre'[v] = r
         /\ \A w \in Trabajos : w # v => cierre'[w] = cierre[w]
BY DEF TypeOK

\* What is written on a row is well typed.
LEMMA FilaTipo ==
  ASSUME NEW c \in CierreTrabajo, NEW t \in Nat, NEW o \in {"cliente", "automatica"}
  PROVE  /\ [c EXCEPT !.fin = TRUE, !.vence = t] \in CierreTrabajo
         /\ [c EXCEPT !.fin = TRUE, !.vence = t] = [[c EXCEPT !.fin = TRUE] EXCEPT !.vence = t]
         /\ [c EXCEPT !.obs = "resuelta", !.resuelta = t] \in CierreTrabajo
         /\ [c EXCEPT !.obs = "resuelta", !.resuelta = t] = [[c EXCEPT !.obs = "resuelta"] EXCEPT !.resuelta = t]
         /\ [c EXCEPT !.confirmada = o] \in CierreTrabajo
<1> USE DEF CierreTrabajo
<1>1. [c EXCEPT !.fin = TRUE, !.vence = t] \in CierreTrabajo
  OBVIOUS
<1>2. [c EXCEPT !.fin = TRUE, !.vence = t] = [[c EXCEPT !.fin = TRUE] EXCEPT !.vence = t]
  OBVIOUS
<1>3. [c EXCEPT !.obs = "resuelta", !.resuelta = t] \in CierreTrabajo
  OBVIOUS
<1>4. [c EXCEPT !.obs = "resuelta", !.resuelta = t] = [[c EXCEPT !.obs = "resuelta"] EXCEPT !.resuelta = t]
  OBVIOUS
<1>5. [c EXCEPT !.confirmada = o] \in CierreTrabajo
  OBVIOUS
<1>6. QED
  BY <1>1, <1>2, <1>3, <1>4, <1>5

\* Every step moves each row in one of the five ways, and time forward.
LEMMA FilasPaso ==
  ASSUME TypeOK, Conocen, Next
  PROVE  /\ cierre' \in [Trabajos -> CierreTrabajo]
         /\ \A w \in Trabajos : Fila(w)
         /\ ahora' \in 0..Horizonte /\ ahora <= ahora'
<1> USE CierreAssumption
<1>1. ahora' \in 0..Horizonte /\ ahora <= ahora'
  <2>1. ahora' = ahora \/ (ahora < Horizonte /\ ahora' = ahora + 1)
    BY DEF Next, Paso, Pedir, DeOtros, CrearCierre, MirarBloqueos, BuscarCierre, MirarTurno, ConfirmarCierre,
           Releer, CompletarReserva, CompletarSiPagado, EvaluarPagos, Caer, Fallar, PedirFinalizar, PedirConfirmar,
           ResolverObservacion, IniciarBarrido, Observar, BajaLee, BajaEscribe, BajaFalla, PagarSaldo, Frenar, Tick
  <2>2. QED
    BY <2>1 DEF TypeOK
<1>2. cierre \in [Trabajos -> CierreTrabajo]
  BY DEF TypeOK
<1>3. CASE cierre' = cierre
  BY <1>1, <1>2, <1>3 DEF Fila
<1>4. CASE \E v \in Trabajos, r \in CierreTrabajo :
             /\ cierre' = [cierre EXCEPT ![v] = r]
             /\ \/ ~cierre[v].fin /\ r = [cierre[v] EXCEPT !.fin = TRUE, !.vence = ahora + Ventana]
                \/ Abierto(cierre[v]) /\ r = [cierre[v] EXCEPT !.obs = "abierta"]
                \/ cierre[v].obs = "abierta" /\ r = [cierre[v] EXCEPT !.obs = "resuelta", !.resuelta = ahora]
                \/ Abierto(cierre[v]) /\ r = [cierre[v] EXCEPT !.confirmada = "cliente"]
                \/ Vencido(v) /\ r = [cierre[v] EXCEPT !.confirmada = "automatica"]
  BY <1>1, <1>4, UnaFila DEF Fila
<1>5. ASSUME NEW h \in Hilos, CrearCierre(h), cierre' # cierre PROVE <1>4!1
  <2>1. De(h) \in Trabajos
    BY <1>5, DeTipo DEF CrearCierre, En
  <2> DEFINE v == De(h)
             r == [cierre[v] EXCEPT !.fin = TRUE, !.vence = ahora + Ventana]
             y == [cierre EXCEPT ![v].fin = TRUE]
  <2>2. ~cierre[v].fin /\ cierre' = [y EXCEPT ![v].vence = ahora + Ventana]
    BY <1>5 DEF CrearCierre, PuedeCrear
  <2>3. y \in [Trabajos -> CierreTrabajo] /\ y[v] = [cierre[v] EXCEPT !.fin = TRUE]
        /\ \A w \in Trabajos : w # v => y[w] = cierre[w]
    BY <1>2, <2>1 DEF CierreTrabajo
  <2>4. r \in CierreTrabajo /\ r = [y[v] EXCEPT !.vence = ahora + Ventana]
    <3>1. cierre[v] \in CierreTrabajo
      BY <1>2, <2>1
    <3>2. ahora \in Nat /\ Ventana \in Nat
      BY DEF TypeOK
    <3> HIDE DEF y, v
    <3>3. ahora + Ventana \in Nat
      BY <3>2
    <3>4. QED
      BY <2>3, <3>1, <3>3, FilaTipo
  <2> HIDE DEF v, y
  <2>5. cierre' = [cierre EXCEPT ![v] = r]
    BY <1>2, <2>1, <2>2, <2>3, <2>4 DEF v
  <2>6. QED
    BY <2>1, <2>2, <2>4, <2>5 DEF v
<1>6. ASSUME NEW h \in Hilos, ConfirmarCierre(h), cierre' # cierre PROVE <1>4!1
  <2>1. De(h) \in Trabajos /\ De(h) = hilo[h].resto[1] /\ 1 \in 1..Len(hilo[h].resto)
    BY <1>6, DeTipo DEF ConfirmarCierre, En
  <2> DEFINE v == De(h)
             o == IF h \in Barridos THEN "automatica" ELSE "cliente"
             r == [cierre[v] EXCEPT !.confirmada = o]
  <2>2. Abierto(cierre[v]) /\ cierre' = [cierre EXCEPT ![v].confirmada = o]
    BY <1>6 DEF ConfirmarCierre
  <2>3. r \in CierreTrabajo /\ cierre' = [cierre EXCEPT ![v] = r]
    <3>1. cierre[v] \in CierreTrabajo /\ o \in {"cliente", "automatica"}
      BY <1>2, <2>1
    <3> HIDE DEF v, o
    <3>2. r \in CierreTrabajo
      BY <3>1, FilaTipo
    <3>3. QED
      BY <2>2, <3>2
  <2>4. h \in Barridos => cierre[v].vence <= ahora
    BY <2>1 DEF Conocen, Conoce
  <2>5. \/ Abierto(cierre[v]) /\ r = [cierre[v] EXCEPT !.confirmada = "cliente"]
        \/ Vencido(v) /\ r = [cierre[v] EXCEPT !.confirmada = "automatica"]
    BY <2>2, <2>4 DEF Vencido
  <2> HIDE DEF v, r
  <2>6. QED
    BY <2>1, <2>3, <2>5 DEF v
<1>7. ASSUME NEW w \in Trabajos, Observar(w) PROVE <1>4!1
  <2> DEFINE r == [cierre[w] EXCEPT !.obs = "abierta"]
  <2>1. r \in CierreTrabajo /\ cierre' = [cierre EXCEPT ![w] = r] /\ Abierto(cierre[w])
    BY <1>2, <1>7 DEF Observar, CierreTrabajo
  <2>2. QED
    BY <2>1
<1>8. ASSUME NEW h \in Pedidos, NEW w \in Trabajos, ResolverObservacion(h, w) PROVE <1>4!1
  <2> DEFINE r == [cierre[w] EXCEPT !.obs = "resuelta", !.resuelta = ahora]
             y == [cierre EXCEPT ![w].obs = "resuelta"]
  <2>1. cierre[w].obs = "abierta" /\ cierre' = [y EXCEPT ![w].resuelta = ahora]
    BY <1>8 DEF ResolverObservacion
  <2>2. y \in [Trabajos -> CierreTrabajo] /\ y[w] = [cierre[w] EXCEPT !.obs = "resuelta"]
        /\ \A u \in Trabajos : u # w => y[u] = cierre[u]
    BY <1>2 DEF CierreTrabajo
  <2>3. r \in CierreTrabajo /\ r = [y[w] EXCEPT !.resuelta = ahora]
    <3>1. cierre[w] \in CierreTrabajo /\ ahora \in Nat
      BY <1>2 DEF TypeOK
    <3> HIDE DEF y
    <3>2. QED
      BY <2>2, <3>1, FilaTipo
  <2> HIDE DEF y
  <2>4. cierre' = [cierre EXCEPT ![w] = r]
    BY <1>2, <2>1, <2>2, <2>3
  <2>5. QED
    BY <2>1, <2>3, <2>4
<1>9. \/ cierre' = cierre
      \/ \E h \in Hilos : CrearCierre(h) \/ ConfirmarCierre(h)
      \/ \E w \in Trabajos : Observar(w)
      \/ \E h \in Pedidos, w \in Trabajos : ResolverObservacion(h, w)
  BY DEF Next, Paso, Pedir, DeOtros, MirarBloqueos, BuscarCierre, MirarTurno,
         Releer, CompletarReserva, CompletarSiPagado, EvaluarPagos, Caer, Fallar, PedirFinalizar, PedirConfirmar,
         IniciarBarrido, BajaLee, BajaEscribe, BajaFalla, PagarSaldo, Frenar, Tick
<1>10. QED
  BY <1>3, <1>4, <1>5, <1>6, <1>7, <1>8, <1>9

\* What is known of a row stays true: made, with its window, and confirmed.
Crece(w) ==
  /\ cierre[w].fin => cierre'[w].fin /\ cierre'[w].vence = cierre[w].vence
  /\ cierre[w].confirmada # "no" => cierre'[w].confirmada # "no"

\* A row only grows.
LEMMA CrecePaso ==
  ASSUME TypeOK, Conocen, Next
  PROVE  \A w \in Trabajos : Crece(w)
<1>1. SUFFICES ASSUME NEW w \in Trabajos PROVE Crece(w)
  OBVIOUS
<1>2. cierre[w] \in CierreTrabajo /\ Fila(w)
  BY FilasPaso DEF TypeOK
<1>3. QED
  BY <1>2 DEF Fila, Crece, CierreTrabajo, Abierto, Vencido

\* A confirmed row never changes and has no open observation.
LEMMA CerradasPaso ==
  ASSUME TypeOK, Conocen, Cerradas, Next
  PROVE  Cerradas' /\ \A w \in Trabajos : cierre[w].confirmada # "no" => cierre'[w] = cierre[w]
<1>1. SUFFICES ASSUME NEW w \in Trabajos
               PROVE  /\ cierre'[w].confirmada # "no" => cierre'[w].fin /\ cierre'[w].obs # "abierta"
                      /\ cierre[w].confirmada # "no" => cierre'[w] = cierre[w]
  BY DEF Cerradas
<1>2. cierre[w] \in CierreTrabajo /\ Fila(w) /\ (cierre[w].confirmada # "no" => cierre[w].fin /\ cierre[w].obs # "abierta")
  BY FilasPaso DEF TypeOK, Cerradas
<1>3. QED
  BY <1>2 DEF Fila, CierreTrabajo, Abierto, Vencido

----------------------------------------------------------------------------
(* What the threads know.                                                  *)

\* What a thread knows stays true while others write.
LEMMA SigueConociendo ==
  ASSUME TypeOK, Conocen, Next, NEW h \in Hilos, hilo'[h] = hilo[h]
  PROVE  Conoce(h)'
<1>1. Conoce(h) /\ HiloBien(hilo[h])
  BY HiloTipo DEF Conocen
<1>2. \A k \in 1..Len(hilo[h].resto) : Crece(hilo[h].resto[k])
  BY <1>1, CrecePaso DEF HiloBien, Hilo
<1>3. hilo[h].paso # "libre" => Crece(De(h)) /\ De(h)' = De(h)
  BY DeTipo, CrecePaso DEF De
<1>4. ahora \in Int /\ ahora' \in Int /\ ahora <= ahora'
  BY CierreAssumption, FilasPaso DEF TypeOK
<1>5. \A k \in 1..Len(hilo[h].resto) : cierre[hilo[h].resto[k]].vence \in Int
  BY <1>1 DEF HiloBien, Hilo, TypeOK, CierreTrabajo
<1>6. hilo[h].gano => hilo'[h].paso \in EFECTOS /\ cierre'[De(h)'].confirmada # "no"
  <2>1. SUFFICES ASSUME hilo[h].gano PROVE hilo'[h].paso \in EFECTOS /\ cierre'[De(h)'].confirmada # "no"
    OBVIOUS
  <2>2. hilo[h].paso \in EFECTOS /\ cierre[De(h)].confirmada # "no"
    BY <1>1, <2>1 DEF Conoce
  <2>3. QED
    BY <1>3, <2>2 DEF EFECTOS, Crece
<1>7. hilo[h].paso \in {"completar", "completar_trabajo"} => cierre'[De(h)'].confirmada # "no"
  BY <1>1, <1>3 DEF Conoce, Crece
<1>8. h \in Barridos =>
        /\ hilo[h].paso # "crear"
        /\ \A k \in 1..Len(hilo[h].resto) : cierre'[hilo[h].resto[k]].fin /\ cierre'[hilo[h].resto[k]].vence <= ahora'
  BY <1>1, <1>2, <1>4, <1>5 DEF Conoce, Crece
<1>9. QED
  BY <1>6, <1>7, <1>8 DEF Conoce

\* What a thread that moves knows of where it goes.
LEMMA MueveConoce ==
  ASSUME TypeOK, Conocen, Next, NEW h \in Hilos, NEW x, HiloBien(x), hilo'[h] = x, Mueve(h, x)
  PROVE  Conoce(h)'
<1> USE DEF PASOS, EFECTOS
<1>1. Conoce(h) /\ HiloBien(hilo[h]) /\ hilo[h].resto \in Seq(Trabajos)
  BY HiloTipo DEF Conocen, HiloBien, Hilo
<1>2. ahora \in Int /\ ahora' \in Int /\ ahora <= ahora'
  BY CierreAssumption, FilasPaso DEF TypeOK
<1>3. \A w \in Trabajos : Crece(w) /\ cierre[w].vence \in Int
  BY CrecePaso DEF TypeOK, CierreTrabajo
<1>4. CASE Avance(h, x)
  <2>1. PICK p \in PASOS \ {"libre", "crear"} :
          /\ x = [hilo[h] EXCEPT !.paso = p]
          /\ hilo[h].gano => p \in EFECTOS
          /\ p \in {"completar", "completar_trabajo"} => cierre[De(h)].confirmada # "no"
    BY <1>4 DEF Avance
  <2>2. x.paso = p /\ x.resto = hilo[h].resto /\ x.gano = hilo[h].gano
    BY <1>1, <2>1 DEF HiloBien, Hilo
  <2>3. De(h)' = De(h) /\ De(h) \in Trabajos /\ Crece(De(h))
    BY <1>3, <1>4, <2>2, DeTipo DEF De, Avance
  <2>4. x.gano => x.paso \in EFECTOS /\ cierre'[De(h)'].confirmada # "no"
    BY <1>1, <2>1, <2>2, <2>3 DEF Conoce, Crece
  <2>5. x.paso \in {"completar", "completar_trabajo"} => cierre'[De(h)'].confirmada # "no"
    BY <2>1, <2>2, <2>3 DEF Crece
  <2>6. h \in Barridos =>
          /\ x.paso # "crear"
          /\ \A k \in 1..Len(x.resto) : cierre'[x.resto[k]].fin /\ cierre'[x.resto[k]].vence <= ahora'
    BY <1>1, <1>2, <1>3, <2>2 DEF Conoce, Crece
  <2>7. QED
    BY <2>4, <2>5, <2>6 DEF Conoce
<1>5. CASE Escribe(h, x)
  <2>1. x.paso = "releer" /\ x.resto = hilo[h].resto /\ x.gano = Abierto(cierre[De(h)]) /\ hilo[h].paso # "libre"
    BY <1>5 DEF Escribe, En
  <2>2. De(h)' = De(h) /\ De(h) \in Trabajos
    BY <2>1, DeTipo DEF De
  <2>3. x.gano => cierre'[De(h)'].confirmada # "no"
    <3> DEFINE v == De(h)
    <3>1. SUFFICES ASSUME Abierto(cierre[v]) PROVE cierre'[v].confirmada # "no"
      BY <2>1, <2>2
    <3>2. cierre' = [cierre EXCEPT ![v].confirmada = IF h \in Barridos THEN "automatica" ELSE "cliente"]
      BY <1>5, <3>1 DEF Escribe
    <3>3. v \in Trabajos /\ cierre \in [Trabajos -> CierreTrabajo]
      BY <2>2 DEF TypeOK
    <3> HIDE DEF v
    <3>4. cierre'[v].confirmada = IF h \in Barridos THEN "automatica" ELSE "cliente"
      BY <3>2, <3>3 DEF CierreTrabajo
    <3>5. QED
      BY <3>4
  <2>4. h \in Barridos =>
          \A k \in 1..Len(x.resto) : cierre'[x.resto[k]].fin /\ cierre'[x.resto[k]].vence <= ahora'
    BY <1>1, <1>2, <1>3, <2>1 DEF Conoce, Crece
  <2>5. QED
    BY <2>1, <2>3, <2>4 DEF Conoce
<1>6. CASE Empieza(h, x)
  <2>1. CASE h \in Pedidos /\ \E p \in PASOS \ {"libre", "completar", "completar_trabajo"}, w \in Trabajos : x = Ocupado(p, <<w>>)
    <3>1. ~x.gano /\ x.paso \notin {"completar", "completar_trabajo"} /\ h \notin Barridos
      BY <2>1, CierreAssumption DEF Ocupado
    <3>2. QED
      BY <3>1 DEF Conoce
  <2>2. CASE h \in Barridos /\ x = Ocupado("mirar", ListaVencidos) /\ ListaVencidos # <<>>
    <3>1. ~x.gano /\ x.paso = "mirar" /\ x.resto = ListaVencidos
      BY <2>2 DEF Ocupado
    <3>2. \A k \in 1..Len(x.resto) : x.resto[k] \in Trabajos /\ Vencido(x.resto[k])
      BY <3>1, ListaBien
    <3>3. \A k \in 1..Len(x.resto) : cierre'[x.resto[k]].fin /\ cierre'[x.resto[k]].vence <= ahora'
      BY <1>2, <1>3, <3>2 DEF Vencido, Abierto, Crece
    <3>4. QED
      BY <3>1, <3>3 DEF Conoce
  <2>3. QED
    BY <1>6, <2>1, <2>2 DEF Empieza
<1>7. CASE x = Libre
  BY <1>7 DEF Conoce, Libre
<1>8. CASE x = Siguiente(h)
  <2>1. ~x.gano /\ x.paso \in {"libre", "mirar"}
    BY <1>8, SiguienteTipo
  <2>2. \A k \in 1..Len(x.resto) : k + 1 \in 1..Len(hilo[h].resto) /\ x.resto[k] = hilo[h].resto[k + 1]
    BY <1>8, SiguienteTipo
  <2>3. h \in Barridos =>
          \A k \in 1..Len(x.resto) : cierre'[x.resto[k]].fin /\ cierre'[x.resto[k]].vence <= ahora'
    <3>1. SUFFICES ASSUME h \in Barridos, NEW k \in 1..Len(x.resto)
                   PROVE  cierre'[x.resto[k]].fin /\ cierre'[x.resto[k]].vence <= ahora'
      OBVIOUS
    <3> DEFINE j == k + 1
               w == hilo[h].resto[j]
    <3>2. j \in 1..Len(hilo[h].resto) /\ x.resto[k] = w
      BY <2>2
    <3> HIDE DEF j
    <3>3. w \in Trabajos /\ cierre[w].fin /\ cierre[w].vence <= ahora
      BY <1>1, <3>1, <3>2 DEF Conoce
    <3> HIDE DEF w
    <3>4. QED
      BY <1>2, <1>3, <3>2, <3>3 DEF Crece
  <2>4. QED
    BY <2>1, <2>3 DEF Conoce
<1>9. QED
  BY <1>4, <1>5, <1>6, <1>7, <1>8 DEF Mueve, Suelta

\* What the threads know stays true while others write.
LEMMA ConocenPaso ==
  ASSUME TypeOK, Conocen, Next
  PROVE  Conocen' /\ hilo' \in [Hilos -> Hilo] /\ \A h \in Hilos : HiloBien(hilo'[h])
<1>1. CASE hilo' = hilo
  <2>1. \A h \in Hilos : Conoce(h)'
    BY <1>1, SigueConociendo
  <2>2. QED
    BY <1>1, <2>1, HiloTipo DEF Conocen, TypeOK, Hilo
<1>2. CASE \E h \in Hilos, x \in Hilo : HiloBien(x) /\ hilo' = [hilo EXCEPT ![h] = x] /\ Mueve(h, x)
  <2>1. PICK h \in Hilos, x \in Hilo : HiloBien(x) /\ hilo' = [hilo EXCEPT ![h] = x] /\ Mueve(h, x)
    BY <1>2
  <2>2. hilo \in [Hilos -> Hilo]
    BY DEF TypeOK, Hilo
  <2>3. hilo' \in [Hilos -> Hilo] /\ hilo'[h] = x /\ \A g \in Hilos : g # h => hilo'[g] = hilo[g]
    BY <2>1, <2>2
  <2>4. Conoce(h)'
    BY <2>1, <2>3, MueveConoce
  <2>5. \A g \in Hilos : g # h => Conoce(g)'
    BY <2>3, SigueConociendo
  <2>6. QED
    BY <2>1, <2>3, <2>4, <2>5, HiloTipo DEF Conocen
<1>3. QED
  BY <1>1, <1>2, HilosPaso DEF MueveHilo
----------------------------------------------------------------------------
(* Who tells the client.                                                   *)

\* A thread wins only by confirming what nobody had confirmed.
LEMMA GanadoresPaso ==
  ASSUME TypeOK, Conocen, Next, NEW h \in Hilos, NEW w, Gano(h, w)'
  PROVE  Gano(h, w) \/ (cierre[w].confirmada = "no" /\ \A g \in Hilos : g # h => hilo'[g] = hilo[g])
<1>1. CASE hilo'[h] = hilo[h]
  BY <1>1 DEF Gano, De
<1>2. CASE \E g \in Hilos, x \in Hilo : HiloBien(x) /\ hilo' = [hilo EXCEPT ![g] = x] /\ Mueve(g, x)
  <2>1. PICK g \in Hilos, x \in Hilo : hilo' = [hilo EXCEPT ![g] = x] /\ Mueve(g, x)
    BY <1>2
  <2>2. hilo'[g] = x /\ \A f \in Hilos : f # g => hilo'[f] = hilo[f]
    BY <2>1 DEF TypeOK
  <2>3. CASE g # h
    BY <1>1, <2>2, <2>3
  <2>4. CASE g = h
    <3>1. x.gano /\ Head(x.resto) = w
      BY <2>2, <2>4 DEF Gano, De
    <3>2. ~Empieza(h, x) /\ ~Suelta(h, x)
      BY <3>1, SiguienteTipo DEF Empieza, Suelta, Ocupado, Libre
    <3>3. CASE Avance(h, x)
      <4>1. x.gano = hilo[h].gano /\ x.resto = hilo[h].resto
        BY <3>3, HiloTipo DEF Avance, HiloBien, Hilo
      <4>2. QED
        BY <3>1, <4>1 DEF Gano, De
    <3>4. CASE Escribe(h, x)
      <4>1. Abierto(cierre[De(h)]) /\ De(h) = w
        BY <3>1, <3>4 DEF Escribe, De
      <4>2. QED
        BY <2>2, <2>4, <4>1 DEF Abierto
    <3>5. QED
      BY <2>1, <2>4, <3>2, <3>3, <3>4 DEF Mueve
  <2>5. QED
    BY <2>3, <2>4
<1>3. QED
  BY <1>1, <1>2, HilosPaso DEF MueveHilo

\* One thread at most won a work and has not told it.
LEMMA AvisadosPaso ==
  ASSUME TypeOK, Conocen, Avisados, Next
  PROVE  Avisados' /\ avisos' \in [Trabajos -> Nat]
<1>1. \A h \in Hilos, w \in Trabajos : Gano(h, w) => cierre[w].confirmada # "no" /\ hilo[h].paso # "libre"
  BY DEF Conocen, Conoce, Gano, EFECTOS
<1>2. avisos \in [Trabajos -> Nat]
  BY DEF TypeOK
<1>3. \A w \in Trabajos : cierre[w].confirmada # "no" => cierre'[w].confirmada # "no"
  BY CrecePaso DEF Crece
<1>4. CASE avisos' = avisos
  <2>1. SUFFICES ASSUME NEW w \in Trabajos PROVE Avisado(w)'
    BY <1>2, <1>4 DEF Avisados
  <2>2. Avisado(w)
    BY DEF Avisados
  <2>3. avisos'[w] = 1 => cierre'[w].confirmada # "no" /\ \A h \in Hilos : ~Gano(h, w)'
    BY <1>3, <1>4, <2>2, GanadoresPaso DEF Avisado
  <2>4. ASSUME NEW h \in Hilos, NEW g \in Hilos, Gano(h, w)', Gano(g, w)' PROVE h = g
    <3>1. SUFFICES ASSUME h # g PROVE FALSE
      OBVIOUS
    <3>2. CASE Gano(h, w) /\ Gano(g, w)
      BY <2>2, <3>1, <3>2 DEF Avisado
    <3>3. CASE ~Gano(h, w)
      <4>1. cierre[w].confirmada = "no" /\ hilo'[g] = hilo[g]
        BY <2>4, <3>1, <3>3, GanadoresPaso
      <4>2. Gano(g, w)
        BY <2>4, <4>1 DEF Gano, De
      <4>3. QED
        BY <1>1, <4>1, <4>2
    <3>4. CASE ~Gano(g, w)
      <4>1. cierre[w].confirmada = "no" /\ hilo'[h] = hilo[h]
        BY <2>4, <3>1, <3>4, GanadoresPaso
      <4>2. Gano(h, w)
        BY <2>4, <4>1 DEF Gano, De
      <4>3. QED
        BY <1>1, <4>1, <4>2
    <3>5. QED
      BY <3>2, <3>3, <3>4
  <2>5. QED
    BY <1>4, <2>2, <2>3, <2>4 DEF Avisado
<1>5. ASSUME NEW h \in Hilos, EvaluarPagos(h), hilo[h].gano
      PROVE  Avisados' /\ avisos' \in [Trabajos -> Nat]
  <2> DEFINE v == De(h)
  <2>1. v \in Trabajos
    BY <1>5, DeTipo DEF EvaluarPagos, En
  <2>2. avisos' = [avisos EXCEPT ![v] = @ + 1] /\ hilo' = [hilo EXCEPT ![h] = Siguiente(h)]
    BY <1>5 DEF EvaluarPagos, Termina
  <2>3. Gano(h, v)
    BY <1>5 DEF Gano
  <2> HIDE DEF v
  <2>4. avisos[v] = 0
    BY <2>1, <2>3 DEF Avisados, Avisado
  <2>5. avisos' \in [Trabajos -> Nat] /\ avisos'[v] = 1 /\ \A w \in Trabajos : w # v => avisos'[w] = avisos[w]
    BY <1>2, <2>1, <2>2, <2>4
  <2>6. ~hilo'[h].gano /\ \A g \in Hilos : g # h => hilo'[g] = hilo[g]
    BY <2>2, SiguienteTipo DEF TypeOK
  <2>7. \A g \in Hilos, w \in Trabajos : Gano(g, w)' => Gano(g, w) /\ g # h
    BY <2>6 DEF Gano, De
  <2>8. ASSUME NEW w \in Trabajos PROVE Avisado(w)'
    <3>1. Avisado(w)
      BY DEF Avisados
    <3>2. w = v => \A g \in Hilos : ~Gano(g, w)'
      BY <2>3, <2>7, <3>1 DEF Avisado
    <3>3. w = v => cierre'[w].confirmada # "no"
      BY <1>1, <1>3, <2>1, <2>3
    <3>4. \A f, g \in Hilos : Gano(f, w)' /\ Gano(g, w)' => f = g
      BY <2>7, <3>1 DEF Avisado
    <3>5. w # v => (avisos'[w] = 1 => cierre'[w].confirmada # "no" /\ \A g \in Hilos : ~Gano(g, w)')
      BY <1>3, <2>5, <2>7, <3>1 DEF Avisado
    <3>6. avisos'[w] = 0 \/ avisos'[w] = 1
      BY <2>5, <3>1 DEF Avisado
    <3>7. QED
      BY <3>2, <3>3, <3>4, <3>5, <3>6 DEF Avisado
  <2>9. QED
    BY <2>5, <2>8 DEF Avisados
<1>6. avisos' = avisos \/ \E h \in Hilos : EvaluarPagos(h) /\ hilo[h].gano
  BY DEF Next, Paso, Pedir, DeOtros, CrearCierre, MirarBloqueos, BuscarCierre, MirarTurno, ConfirmarCierre,
         Releer, CompletarReserva, CompletarSiPagado, EvaluarPagos, Caer, Fallar, PedirFinalizar, PedirConfirmar,
         ResolverObservacion, IniciarBarrido, Observar, BajaLee, BajaEscribe, BajaFalla, PagarSaldo, Frenar, Tick
<1>7. QED
  BY <1>4, <1>5, <1>6

----------------------------------------------------------------------------
(* The money.                                                              *)

\* A completed turno stays so, or it is called off by who had read it confirmed,
\* what is paid stays paid, and what is released or
\* completed by a step had its conditions.
LEMMA DineroPaso ==
  ASSUME TypeOK, Conocen, Next
  PROVE  /\ turno' \in [Trabajos -> {"confirmed", "completed", "cancelled", "no-show"}]
         /\ \A w \in Trabajos : turno[w] = "completed" => turno'[w] = "completed" \/ w \in pisado'
         /\ baja' \subseteq Trabajos /\ pisado \subseteq pisado' /\ pisado' \subseteq Trabajos
         /\ pagado \subseteq pagado' /\ pagado' \subseteq Trabajos
         /\ completo' \subseteq Trabajos /\ liberado' \subseteq Trabajos
         /\ \A w \in liberado' \ liberado :
              turno[w] = "completed" /\ cierre[w].confirmada # "no" /\ cierre[w].obs # "abierta" /\ w \in pagado'
         /\ \A w \in completo' \ completo : cierre[w].confirmada # "no" /\ w \in pagado'
<1> USE DEF TypeOK
<1>0. UNCHANGED bajas \/ \E w \in Trabajos : \/ \E esAdmin \in BOOLEAN : BajaLee(w, esAdmin)
                                            \/ \E nuevo \in {"cancelled", "no-show"} : BajaEscribe(w, nuevo)
                                            \/ BajaFalla(w)
  BY DEF Next, Paso, Pedir, DeOtros, CrearCierre, MirarBloqueos, BuscarCierre, MirarTurno, ConfirmarCierre,
         Releer, CompletarReserva, CompletarSiPagado, EvaluarPagos, Caer, Fallar, PedirFinalizar, PedirConfirmar,
         ResolverObservacion, IniciarBarrido, Observar, PagarSaldo, Frenar, Tick
<1>0a. baja' \subseteq Trabajos /\ pisado \subseteq pisado' /\ pisado' \subseteq Trabajos
  BY <1>0 DEF bajas, BajaLee, BajaEscribe, BajaFalla
<1>1. CASE UNCHANGED <<turno, pagado, completo, liberado>>
  BY <1>0a, <1>1
<1>2. ASSUME NEW h \in Hilos, CompletarReserva(h)
      PROVE  /\ turno' \in [Trabajos -> {"confirmed", "completed", "cancelled", "no-show"}]
             /\ \A w \in Trabajos : turno[w] = "completed" => turno'[w] = "completed"
             /\ UNCHANGED <<pagado, completo, liberado>>
  BY <1>2 DEF CompletarReserva
<1>3. ASSUME NEW h \in Hilos, CompletarSiPagado(h)
      PROVE  /\ UNCHANGED <<turno, pagado, liberado>> /\ completo' \subseteq Trabajos
             /\ \A w \in completo' \ completo : cierre[w].confirmada # "no" /\ w \in pagado'
  <2>1. cierre[De(h)].confirmada # "no"
    BY <1>3 DEF CompletarSiPagado, En, Conocen, Conoce
  <2>2. UNCHANGED <<turno, pagado, liberado>> /\ completo' = completo \cup ({De(h)} \cap pagado)
    BY <1>3 DEF CompletarSiPagado, Pagados
  <2>3. QED
    BY <2>1, <2>2
<1>4. ASSUME NEW h \in Hilos, EvaluarPagos(h)
      PROVE  /\ UNCHANGED <<turno, pagado, completo>> /\ liberado' \subseteq Trabajos
             /\ \A w \in liberado' \ liberado :
                  turno[w] = "completed" /\ cierre[w].confirmada # "no" /\ cierre[w].obs # "abierta" /\ w \in pagado'
  BY <1>4 DEF EvaluarPagos, PuedeLiberar
<1>5. ASSUME NEW w \in Trabajos, PagarSaldo(w)
      PROVE  /\ turno' = turno /\ pagado \subseteq pagado' /\ pagado' \subseteq Trabajos
             /\ completo' \subseteq Trabajos /\ liberado' \subseteq Trabajos
             /\ \A v \in (liberado' \ liberado) \cup (completo' \ completo) :
                  turno[v] = "completed" /\ cierre[v].confirmada # "no" /\ cierre[v].obs # "abierta" /\ v \in pagado'
  BY <1>5 DEF PagarSaldo
<1>6. ASSUME NEW w \in Trabajos, NEW nuevo \in {"cancelled", "no-show"}, BajaEscribe(w, nuevo)
      PROVE  /\ turno' \in [Trabajos -> {"confirmed", "completed", "cancelled", "no-show"}]
             /\ \A v \in Trabajos : turno[v] = "completed" => turno'[v] = "completed" \/ v \in pisado'
             /\ UNCHANGED <<pagado, completo, liberado>>
  BY <1>6 DEF BajaEscribe
<1>7. \/ UNCHANGED <<turno, pagado, completo, liberado>>
      \/ \E h \in Hilos : CompletarReserva(h) \/ CompletarSiPagado(h) \/ EvaluarPagos(h)
      \/ \E w \in Trabajos : PagarSaldo(w)
      \/ \E w \in Trabajos, nuevo \in {"cancelled", "no-show"} : BajaEscribe(w, nuevo)
  BY DEF Next, Paso, Pedir, DeOtros, CrearCierre, MirarBloqueos, BuscarCierre, MirarTurno, ConfirmarCierre,
         Releer, Caer, Fallar, PedirFinalizar, PedirConfirmar, ResolverObservacion, IniciarBarrido, Observar, BajaLee, BajaFalla, Frenar, Tick
<1>8. QED
  BY <1>0a, <1>1, <1>2, <1>3, <1>4, <1>5, <1>6, <1>7

\* The rest of the state keeps its types.
LEMMA RestoPaso ==
  ASSUME TypeOK, Next
  PROVE  freno' \subseteq Trabajos /\ fallas' \in 0..MaxFallas
<1>1. freno' = freno \/ \E w \in Trabajos : freno' = freno \ {w} \/ freno' = freno \cup {w}
  BY DEF Next, Paso, Pedir, DeOtros, CrearCierre, MirarBloqueos, BuscarCierre, MirarTurno, ConfirmarCierre,
         Releer, CompletarReserva, CompletarSiPagado, EvaluarPagos, Caer, Fallar, PedirFinalizar, PedirConfirmar,
         ResolverObservacion, IniciarBarrido, Observar, BajaLee, BajaEscribe, BajaFalla, PagarSaldo, Frenar, Tick
<1>2. fallas' = fallas \/ (fallas < MaxFallas /\ fallas' = fallas + 1)
  BY DEF Next, Paso, Pedir, DeOtros, CrearCierre, MirarBloqueos, BuscarCierre, MirarTurno, ConfirmarCierre,
         Releer, CompletarReserva, CompletarSiPagado, EvaluarPagos, Caer, Fallar, PedirFinalizar, PedirConfirmar,
         ResolverObservacion, IniciarBarrido, Observar, BajaLee, BajaEscribe, BajaFalla, PagarSaldo, Frenar, Tick
<1>3. fallas' \in 0..MaxFallas
  BY <1>2, CierreAssumption DEF TypeOK
<1>4. QED
  BY <1>1, <1>3 DEF TypeOK
----------------------------------------------------------------------------
(* The invariant and its consequences.                                     *)

\* The invariant holds at the start ...
LEMMA InicioBien ==
  ASSUME Init
  PROVE  IInv
<1> USE CierreAssumption DEF Init
<1>1. Libre \in Hilo /\ SinCierre \in CierreTrabajo
  BY DEF Libre, Hilo, PASOS, SinCierre, CierreTrabajo
<1>2. \A h \in Hilos : hilo[h].paso = "libre" /\ hilo[h].resto = <<>> /\ ~hilo[h].gano /\ Len(hilo[h].resto) = 0
  BY DEF Libre
<1>3. TypeOK
  BY <1>1, <1>2 DEF TypeOK, Hilo
<1>4. Conocen
  BY <1>2 DEF Conocen, Conoce
<1>5. Cerradas
  BY DEF Cerradas, SinCierre
<1>6. Avisados
  BY <1>2 DEF Avisados, Avisado, Gano
<1>7. QED
  BY <1>3, <1>4, <1>5, <1>6 DEF IInv, LiberadoSoloCerrado, CompletoSoloCerrado

\* ... and after every step.
LEMMA PasoBien ==
  ASSUME IInv, Next
  PROVE  IInv'
<1>1. TypeOK /\ Conocen /\ Cerradas /\ Avisados /\ LiberadoSoloCerrado /\ CompletoSoloCerrado
  BY DEF IInv
<1>2. TypeOK'
  <2>1. cierre' \in [Trabajos -> CierreTrabajo] /\ ahora' \in 0..Horizonte
    BY <1>1, FilasPaso
  <2>2. hilo' \in [Hilos -> Hilo] /\ \A h \in Hilos : hilo'[h].resto = <<>> <=> hilo'[h].paso = "libre"
    BY <1>1, ConocenPaso DEF HiloBien
  <2>3. avisos' \in [Trabajos -> Nat]
    BY <1>1, AvisadosPaso
  <2>4. QED
    BY <1>1, <2>1, <2>2, <2>3, DineroPaso, RestoPaso DEF TypeOK, Hilo
<1>3. Conocen' /\ Cerradas' /\ Avisados'
  BY <1>1, ConocenPaso, CerradasPaso, AvisadosPaso
<1>4. \A w \in Trabajos : cierre[w].confirmada # "no" => cierre'[w] = cierre[w]
  BY <1>1, CerradasPaso
<1>5. liberado' \subseteq Trabajos /\ completo' \subseteq Trabajos
  BY <1>1, DineroPaso
<1>6. LiberadoSoloCerrado'
  <2>1. \A w \in liberado' :
          (turno[w] = "completed" \/ w \in pisado) /\ cierre[w].confirmada # "no" /\ cierre[w].obs # "abierta" /\ w \in pagado'
    BY <1>1, DineroPaso DEF LiberadoSoloCerrado
  <2>2. QED
    BY <1>1, <1>4, <1>5, <2>1, DineroPaso DEF LiberadoSoloCerrado
<1>7. CompletoSoloCerrado'
  <2>1. \A w \in completo' : cierre[w].confirmada # "no" /\ w \in pagado'
    BY <1>1, DineroPaso DEF CompletoSoloCerrado
  <2>2. QED
    BY <1>4, <1>5, <2>1 DEF CompletoSoloCerrado
<1>8. QED
  BY <1>2, <1>3, <1>6, <1>7 DEF IInv

\* What does not move keeps it.
LEMMA QuietoBien ==
  ASSUME IInv, UNCHANGED vars
  PROVE  IInv'
BY DEF IInv, vars, bajas, TypeOK, Conocen, Conoce, De, Cerradas, Avisados, Avisado, Gano, LiberadoSoloCerrado, CompletoSoloCerrado

\* The inductive invariant holds in every state a closing can reach, whatever
\* requests, sweeps, crashes and other domains do (cierre.ts).
THEOREM Invariante == Spec => []IInv
<1>1. Init => IInv
  BY InicioBien
<1>2. IInv /\ [Next]_vars => IInv'
  BY PasoBien, QuietoBien
<1>3. QED
  BY <1>1, <1>2, PTL DEF Spec

\* The rows, the threads and the sets of works have their types; a thread that
\* works has a work to be at (PrismaCierreTrabajo and the calls of cierre.ts).
THEOREM TiposCierre == Spec => []TypeOK
<1>1. IInv => TypeOK
  BY DEF IInv
<1>2. QED
  BY <1>1, Invariante, PTL

\* Whatever runs between the awaits of a confirmation, held money is released
\* only of a completed turno, confirmed, without open observation and fully paid
\* (evaluarLiquidacionEn); what was released stays so, although who had read the
\* turno as confirmed may still call it off.
THEOREM SoloSeLiberaLoCerrado == Spec => []LiberadoSoloCerrado
<1>1. IInv => LiberadoSoloCerrado
  BY DEF IInv
<1>2. QED
  BY <1>1, Invariante, PTL

\* A work is completed only with its closing confirmed and its total paid
\* (completarSiPagado and the balance that arrives later).
THEOREM SoloSeCompletaLoCerrado == Spec => []CompletoSoloCerrado
<1>1. IInv => CompletoSoloCerrado
  BY DEF IInv
<1>2. QED
  BY <1>1, Invariante, PTL

\* The client is told once that its work was confirmed: of any number of
\* requests and sweeps only the one whose conditional write won tells it.
THEOREM ElClienteSeEnteraUnaVez == Spec => []UnSoloAviso
<1>1. ASSUME IInv, NEW w \in Trabajos PROVE avisos[w] <= 1
  <2>1. avisos[w] = 0 \/ avisos[w] = 1
    BY <1>1 DEF IInv, Avisados, Avisado
  <2>2. QED
    BY <2>1
<1>2. IInv => UnSoloAviso
  BY <1>1 DEF UnSoloAviso
<1>3. QED
  BY <1>2, Invariante, PTL

\* Confirming and observing cannot both win: a confirmed row never changes again.
THEOREM LaConfirmacionEsFinal == Spec => ConfirmadaEsFinal
<1>1. IInv /\ [Next]_vars => [\A w \in Trabajos : cierre[w].confirmada # "no" => cierre'[w] = cierre[w]]_vars
  BY CerradasPaso DEF IInv
<1>2. QED
  BY <1>1, Invariante, PTL DEF Spec, ConfirmadaEsFinal

\* No step of any sweep confirms a work whose window has not run out or that has
\* an open observation, although its list was read long before.
THEOREM LaAutomaticaEsperaSuVentana == Spec => AutomaticaSoloVencida
<1> DEFINE A == \A w \in Trabajos :
                  (cierre[w].confirmada = "no" /\ cierre'[w].confirmada = "automatica") =>
                    cierre[w].vence <= ahora /\ cierre[w].obs # "abierta"
<1>1. ASSUME IInv, Next, NEW w \in Trabajos, cierre[w].confirmada = "no", cierre'[w].confirmada = "automatica"
      PROVE  cierre[w].vence <= ahora /\ cierre[w].obs # "abierta"
  <2>1. Fila(w) /\ cierre[w] \in CierreTrabajo
    BY <1>1, FilasPaso DEF IInv, TypeOK
  <2>2. QED
    BY <1>1, <2>1 DEF Fila, CierreTrabajo, Vencido, Abierto
<1>2. IInv /\ [Next]_vars => [A]_vars
  BY <1>1
<1>3. QED
  BY <1>2, Invariante, PTL DEF Spec, AutomaticaSoloVencida

\* Finishing twice, or twice at once, keeps the first window.
THEOREM LaVentanaNoSeReinicia == Spec => VentanaNoSeReinicia
<1> DEFINE A == \A w \in Trabajos : cierre[w].fin => cierre'[w].fin /\ cierre'[w].vence = cierre[w].vence
<1>1. IInv /\ [Next]_vars => [A]_vars
  BY CrecePaso DEF IInv, Crece
<1>2. QED
  BY <1>1, Invariante, PTL DEF Spec, VentanaNoSeReinicia

\* Money and work wait for the closing, for any number of works and threads.
THEOREM LosEfectosEsperanElCierre == Spec => []EfectosSoloCerrados
<1>1. LiberadoSoloCerrado /\ CompletoSoloCerrado => EfectosSoloCerrados
  BY DEF EfectosSoloCerrados
<1>2. QED
  BY <1>1, SoloSeLiberaLoCerrado, SoloSeCompletaLoCerrado, PTL

\* No request, sweep or observation takes a closing back.
THEOREM ElCierreSoloAvanza == Spec => CierreSoloAvanza
BY LaConfirmacionEsFinal, LaVentanaNoSeReinicia, PTL DEF CierreSoloAvanza
=============================================================================
