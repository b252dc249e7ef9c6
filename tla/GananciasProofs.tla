--------------------------- MODULE GananciasProofs ---------------------------
(***************************************************************************)
(* Theorems about the payouts, for any payments, adjustments, amounts,     *)
(* calls and number of payout requests.                                    *)
(*                                                                         *)
(* First the funds, whatever Mercado Pago answers: a call writes only over *)
(* the version it read (Vigente), so what it may write follows from what   *)
(* it was allowed to read (Sabe); only requests paid through Mercado Pago  *)
(* were ever sent to it (FilaCierta); and one that nobody resent has one   *)
(* sending, so a refusal of it is a refusal of all there is (Unica).       *)
(* Then the amounts: what a call saw of the ledger stays true while no     *)
(* other request is made (Foto), so each request is worth what it took     *)
(* (Cuentas).                                                              *)
(***************************************************************************)
EXTENDS Ganancias, SumasProofs

MECANISMOS == {"no", "manual", "mp"}
MP == {"no", "en_curso", "acreditada", "fallida", "rechazada"}
ACABADAS == {"acreditada", "fallida", "rechazada"}

\* The two records, field by field; their amounts are typed with the accounts below.
EsFila(r) ==
  /\ r = [estado |-> r.estado, mec |-> r.mec, ids |-> r.ids, version |-> r.version, monto |-> r.monto]
  /\ r.estado \in ESTADOS /\ r.mec \in MECANISMOS /\ r.ids \in BOOLEAN /\ r.version \in Nat

EsLlamada(x) ==
  /\ x = [paso |-> x.paso, s |-> x.s, version |-> x.version, resp |-> x.resp, monto |-> x.monto,
          toma |-> x.toma, vistas |-> x.vistas]
  /\ x.version \in Nat

Tipos ==
  /\ solicitud = [s \in Solicitudes |-> solicitud[s]] /\ \A s \in Solicitudes : EsFila(solicitud[s])
  /\ hilo = [h \in Hilos |-> hilo[h]] /\ \A h \in Hilos : EsLlamada(hilo[h])
  /\ mp \in [Solicitudes -> MP]

\* Steps in which a request is on its way to Mercado Pago, or its state is asked.
CONMP == {"enviar", "respondio", "consultar", "consulto"}
PREGUNTA == {"consultar", "consulto"}
DELEIDA == {"cancelar", "manual", "mercado_pago"}
AMANO == {"pagar", "fallar"}

\* A request that was never given to Mercado Pago is unknown to it; one that ended is
\* ended there.
FilaCierta(s) ==
  LET r == solicitud[s] IN
  /\ r.estado \in {"no", "requested", "cancelled"} => r.mec = "no"
  /\ r.mec # "mp" => mp[s] = "no" /\ s \notin vuelo /\ ~r.ids
  /\ r.estado = "failed" /\ r.ids => mp[s] = "fallida"
  /\ r.estado = "paid" /\ r.mec = "mp" => mp[s] = "acreditada"

\* What a call knows of the request it read.
Sabe(h) ==
  LET x == hilo[h]
      r == solicitud[x.s] IN
  /\ x.paso \notin {"libre", "solicitar"} => x.s \in Solicitudes /\ x.version <= r.version /\ r.estado # "no"
  /\ x.paso \in CONMP => r.mec = "mp"
  /\ x.paso \in CONMP /\ Vigente(h) => r.estado = "processing" /\ (r.ids <=> x.paso \in PREGUNTA)
  /\ x.paso \in DELEIDA /\ Vigente(h) => r.estado = "requested"
  /\ x.paso \in AMANO /\ Vigente(h) => r.estado = "processing" /\ r.mec = "manual"
  /\ x.paso = "consulto" => x.resp \in {"paid", "failed", "sigue"}
  /\ x.paso = "consulto" /\ x.resp = "paid" => mp[x.s] = "acreditada"
  /\ x.paso = "consulto" /\ x.resp = "failed" => mp[x.s] = "fallida"

\* Requests are numbered one after the other.
Contiguas == \E n \in 0..MaxSolicitudes : Creadas = 1..n

Ciertas == \A s \in Solicitudes : FilaCierta(s)
Saben == \A h \in Hilos : Sabe(h)

IInv == Tipos /\ Contiguas /\ Ciertas /\ Saben
----------------------------------------------------------------------------
(* Writing one request, one call.                                          *)

\* Writing one request leaves the others as they were.
LEMMA UnaSolicitud ==
  ASSUME Tipos, NEW s \in Solicitudes, NEW r, EsFila(r), solicitud' = [solicitud EXCEPT ![s] = r]
  PROVE  /\ solicitud'[s] = r /\ \A t \in Solicitudes : t # s => solicitud'[t] = solicitud[t]
         /\ solicitud' = [t \in Solicitudes |-> solicitud'[t]] /\ \A t \in Solicitudes : EsFila(solicitud'[t])
<1>1. solicitud' = [t \in Solicitudes |-> IF t = s THEN r ELSE solicitud[t]]
  BY DEF Tipos
<1>2. QED
  BY <1>1 DEF Tipos

\* Moving one call leaves the others where they were.
LEMMA UnaLlamada ==
  ASSUME Tipos, NEW h \in Hilos, NEW x, EsLlamada(x), hilo' = [hilo EXCEPT ![h] = x]
  PROVE  /\ hilo'[h] = x /\ \A g \in Hilos : g # h => hilo'[g] = hilo[g]
         /\ hilo' = [g \in Hilos |-> hilo'[g]] /\ \A g \in Hilos : EsLlamada(hilo'[g])
<1>1. hilo' = [g \in Hilos |-> IF g = h THEN x ELSE hilo[g]]
  BY DEF Tipos
<1>2. QED
  BY <1>1 DEF Tipos

\* A call that ended is a call.
LEMMA LibreTipo == EsLlamada(Libre) /\ Libre.paso = "libre"
BY DEF Libre, EsLlamada

\* A call that leaves its request knows nothing.
LEMMA LibreSabe ==
  ASSUME NEW h \in Hilos, hilo'[h].paso \in {"libre", "solicitar"}
  PROVE  Sabe(h)'
BY DEF Sabe, CONMP, PREGUNTA, DELEIDA, AMANO

\* What no step undoes: a request that was made changes with its version, goes on being
\* made, and what was given to Mercado Pago is not taken back.
Crece ==
  \A s \in Solicitudes :
    /\ solicitud[s].estado # "no" =>
         /\ solicitud'[s].estado # "no"
         /\ solicitud'[s] = solicitud[s] \/ solicitud'[s].version > solicitud[s].version
    /\ solicitud[s].mec = "mp" => solicitud'[s].mec = "mp"
    /\ mp[s] \in ACABADAS => mp'[s] = mp[s]

\* A call that does not move goes on knowing.
LEMMA SigueSabiendo ==
  ASSUME Tipos, Tipos', Crece, NEW h \in Hilos, Sabe(h), hilo'[h] = hilo[h]
  PROVE  Sabe(h)'
<1> DEFINE x == hilo[h]
<1>1. CASE x.paso \in {"libre", "solicitar"}
  BY <1>1, LibreSabe
<1>2. CASE x.paso \notin {"libre", "solicitar"}
  <2>1. x.s \in Solicitudes /\ x.version <= solicitud[x.s].version /\ solicitud[x.s].estado # "no"
    BY <1>2 DEF Sabe
  <2>2. x.version \in Nat /\ solicitud[x.s].version \in Nat /\ solicitud'[x.s].version \in Nat
    BY <2>1 DEF Tipos, EsLlamada, EsFila
  <2>3. /\ solicitud'[x.s].estado # "no"
        /\ solicitud'[x.s] = solicitud[x.s] \/ solicitud'[x.s].version > solicitud[x.s].version
        /\ solicitud[x.s].mec = "mp" => solicitud'[x.s].mec = "mp"
        /\ mp[x.s] \in ACABADAS => mp'[x.s] = mp[x.s]
    BY <2>1 DEF Crece
  <2>4. x.version <= solicitud'[x.s].version
    BY <2>1, <2>2, <2>3
  <2>5. solicitud'[x.s].version = x.version => solicitud'[x.s] = solicitud[x.s]
    BY <2>1, <2>2, <2>3
  <2>6. Vigente(h) <=> solicitud[x.s].version = x.version
    BY DEF Vigente
  <2>7. Vigente(h)' <=> solicitud'[x.s].version = x.version
    BY DEF Vigente
  <2>8. Vigente(h)' => Vigente(h) /\ solicitud'[x.s] = solicitud[x.s]
    BY <2>5, <2>6, <2>7
  <2> HIDE DEF x
  <2>9. hilo'[h] = x /\ hilo[h] = x
    BY DEF x
  <2>10. QED
    BY <2>1, <2>3, <2>4, <2>8, <2>9 DEF Sabe, ACABADAS
<1>3. QED
  BY <1>1, <1>2

\* Every call goes on as it was or knows what it has to.
LEMMA UnPaso ==
  ASSUME IInv, Tipos', Crece, Contiguas', \A s \in Solicitudes : FilaCierta(s)',
         \A g \in Hilos : hilo'[g] = hilo[g] \/ Sabe(g)'
  PROVE  IInv'
<1>1. \A g \in Hilos : Sabe(g)'
  BY SigueSabiendo DEF IInv, Saben
<1>2. QED
  BY <1>1 DEF IInv, Ciertas, Saben

\* Who makes no request leaves them numbered without gaps.
LEMMA SiguenContiguas ==
  ASSUME Contiguas, \A s \in Solicitudes : solicitud'[s].estado = "no" <=> solicitud[s].estado = "no"
  PROVE  Contiguas'
<1>1. Creadas' = Creadas
  BY DEF Creadas
<1>2. QED
  BY <1>1 DEF Contiguas

\* The requests do not change but in what Mercado Pago has of one.
LEMMA UnEnvio ==
  ASSUME IInv, hilo' = [h \in Hilos |-> hilo'[h]], \A h \in Hilos : EsLlamada(hilo'[h]),
         \A g \in Hilos : hilo'[g] = hilo[g] \/ Sabe(g)',
         solicitud' = solicitud, mp' \in [Solicitudes -> MP],
         \A s \in Solicitudes : mp[s] \in ACABADAS => mp'[s] = mp[s],
         \A s \in Solicitudes : (mp'[s] = mp[s] /\ (s \in vuelo' => s \in vuelo)) \/ FilaCierta(s)'
  PROVE  IInv'
<1>1. Tipos'
  BY DEF IInv, Tipos
<1>2. Crece
  BY DEF Crece
<1>3. Contiguas'
  BY SiguenContiguas DEF IInv
<1>4. \A s \in Solicitudes : FilaCierta(s)'
  BY DEF IInv, Ciertas, FilaCierta
<1>5. QED
  BY <1>1, <1>2, <1>3, <1>4, UnPaso

\* Nothing of the requests changes but what a call is at.
LEMMA SoloLaLlamada ==
  ASSUME IInv, NEW h \in Hilos, NEW x, EsLlamada(x), hilo' = [hilo EXCEPT ![h] = x],
         solicitud' = solicitud, mp' = mp, vuelo' = vuelo, Sabe(h)'
  PROVE  IInv'
<1>1. /\ \A g \in Hilos : g # h => hilo'[g] = hilo[g]
      /\ hilo' = [g \in Hilos |-> hilo'[g]] /\ \A g \in Hilos : EsLlamada(hilo'[g])
  BY UnaLlamada DEF IInv
<1>2. mp' \in [Solicitudes -> MP]
  BY DEF IInv, Tipos
<1>3. QED
  BY <1>1, <1>2, UnEnvio

\* One request that was made is written with a later version.
LEMMA UnaEscritura ==
  ASSUME IInv, NEW h \in Hilos, NEW x, EsLlamada(x), hilo' = [hilo EXCEPT ![h] = x], Sabe(h)',
         NEW s \in Solicitudes, NEW f, EsFila(f), solicitud' = [solicitud EXCEPT ![s] = f],
         mp' = mp, vuelo' = vuelo, FilaCierta(s)',
         solicitud[s].estado # "no", f.estado # "no", f.version > solicitud[s].version,
         solicitud[s].mec = "mp" => f.mec = "mp"
  PROVE  IInv'
<1>1. /\ \A g \in Hilos : g # h => hilo'[g] = hilo[g]
      /\ hilo' = [g \in Hilos |-> hilo'[g]] /\ \A g \in Hilos : EsLlamada(hilo'[g])
  BY UnaLlamada DEF IInv
<1>2. /\ solicitud'[s] = f /\ \A t \in Solicitudes : t # s => solicitud'[t] = solicitud[t]
      /\ solicitud' = [t \in Solicitudes |-> solicitud'[t]] /\ \A t \in Solicitudes : EsFila(solicitud'[t])
  BY UnaSolicitud DEF IInv
<1>3. Tipos'
  BY <1>1, <1>2 DEF IInv, Tipos
<1>4. Crece
  BY <1>2 DEF Crece
<1>5. Contiguas'
  BY <1>2, SiguenContiguas DEF IInv
<1>6. \A t \in Solicitudes : FilaCierta(t)'
  BY <1>2 DEF IInv, Ciertas, FilaCierta
<1>7. QED
  BY <1>1, <1>3, <1>4, <1>5, <1>6, UnPaso
----------------------------------------------------------------------------
(* What each action writes.                                                *)

\* mover writes a request whose version is the one that was read, along TRANSICIONES.
LEMMA MoverEscribe ==
  ASSUME Tipos, NEW h \in Hilos, hilo[h].s \in Solicitudes, NEW hacia \in ESTADOS, NEW m \in MECANISMOS,
         Mover(h, hacia, m)
  PROVE  LET s == hilo[h].s
             c == solicitud[s]
             f == [estado |-> hacia, mec |-> m, ids |-> c.ids, version |-> c.version + 1, monto |-> c.monto] IN
         IF Vigente(h) /\ <<c.estado, hacia>> \in TRANSICIONES
         THEN EsFila(f) /\ solicitud' = [solicitud EXCEPT ![s] = f]
         ELSE solicitud' = solicitud
<1> DEFINE s == hilo[h].s
           c == solicitud[s]
           y == [estado |-> hacia, mec |-> c.mec, ids |-> c.ids, version |-> c.version, monto |-> c.monto]
           z == [estado |-> hacia, mec |-> c.mec, ids |-> c.ids, version |-> c.version + 1, monto |-> c.monto]
           f == [estado |-> hacia, mec |-> m, ids |-> c.ids, version |-> c.version + 1, monto |-> c.monto]
           g1 == [solicitud EXCEPT ![s].estado = hacia]
           g2 == [g1 EXCEPT ![s].version = @ + 1]
           g3 == [g2 EXCEPT ![s].mec = m]
<1>1. CASE Vigente(h) /\ <<solicitud[hilo[h].s].estado, hacia>> \in TRANSICIONES
  <2>1. c = [estado |-> c.estado, mec |-> c.mec, ids |-> c.ids, version |-> c.version, monto |-> c.monto]
        /\ c.version \in Nat /\ c.ids \in BOOLEAN
    BY DEF Tipos, EsFila
  <2>2. solicitud = [t \in Solicitudes |-> solicitud[t]]
    BY DEF Tipos
  <2>3. solicitud' = g3
    BY <1>1 DEF Mover
  <2>4. [c EXCEPT !.estado = hacia] = y
    BY <2>1
  <2>5. g1 = [t \in Solicitudes |-> IF t = s THEN y ELSE solicitud[t]]
    BY <2>2, <2>4
  <2> HIDE DEF g1
  <2>6. [y EXCEPT !.version = y.version + 1] = z
    OBVIOUS
  <2>7. g1[s] = y
    BY <2>5
  <2>8. g2 = [t \in Solicitudes |-> IF t = s THEN z ELSE solicitud[t]]
    BY <2>5, <2>6, <2>7
  <2> HIDE DEF g2
  <2>9. [z EXCEPT !.mec = m] = f
    OBVIOUS
  <2>10. g2[s] = z
    BY <2>8
  <2>11. g3 = [t \in Solicitudes |-> IF t = s THEN f ELSE solicitud[t]]
    BY <2>8, <2>9, <2>10
  <2>12. [solicitud EXCEPT ![s] = f] = [t \in Solicitudes |-> IF t = s THEN f ELSE solicitud[t]]
    BY <2>2
  <2>13. solicitud' = [solicitud EXCEPT ![s] = f]
    BY <2>3, <2>11, <2>12
  <2>14. EsFila(f)
    BY <2>1 DEF EsFila
  <2> HIDE DEF f
  <2>15. QED
    BY <1>1, <2>13, <2>14 DEF f
<1>2. CASE ~(Vigente(h) /\ <<solicitud[hilo[h].s].estado, hacia>> \in TRANSICIONES)
  BY <1>2 DEF Mover
<1>3. QED
  BY <1>1, <1>2

\* A call gets its answer.
LEMMA Responde ==
  ASSUME Tipos, NEW h \in Hilos, NEW p, NEW q, hilo' = [hilo EXCEPT ![h].paso = p, ![h].resp = q]
  PROVE  LET c == hilo[h]
             x == [paso |-> p, s |-> c.s, version |-> c.version, resp |-> q, monto |-> c.monto,
                   toma |-> c.toma, vistas |-> c.vistas] IN
         EsLlamada(x) /\ hilo' = [hilo EXCEPT ![h] = x]
<1> DEFINE c == hilo[h]
           y == [paso |-> p, s |-> c.s, version |-> c.version, resp |-> c.resp, monto |-> c.monto,
                 toma |-> c.toma, vistas |-> c.vistas]
           x == [paso |-> p, s |-> c.s, version |-> c.version, resp |-> q, monto |-> c.monto,
                 toma |-> c.toma, vistas |-> c.vistas]
           g1 == [hilo EXCEPT ![h].paso = p]
           g2 == [g1 EXCEPT ![h].resp = q]
<1>1. c = [paso |-> c.paso, s |-> c.s, version |-> c.version, resp |-> c.resp, monto |-> c.monto,
           toma |-> c.toma, vistas |-> c.vistas] /\ c.version \in Nat
  BY DEF Tipos, EsLlamada
<1>2. hilo = [g \in Hilos |-> hilo[g]]
  BY DEF Tipos
<1>3. hilo' = g2
  OBVIOUS
<1>4. [c EXCEPT !.paso = p] = y
  BY <1>1
<1>5. g1 = [g \in Hilos |-> IF g = h THEN y ELSE hilo[g]]
  BY <1>2, <1>4
<1> HIDE DEF g1
<1>6. [y EXCEPT !.resp = q] = x
  OBVIOUS
<1>7. g1[h] = y
  BY <1>5
<1>8. g2 = [g \in Hilos |-> IF g = h THEN x ELSE hilo[g]]
  BY <1>5, <1>6, <1>7
<1>9. [hilo EXCEPT ![h] = x] = [g \in Hilos |-> IF g = h THEN x ELSE hilo[g]]
  BY <1>2
<1>10. hilo' = [hilo EXCEPT ![h] = x]
  BY <1>3, <1>8, <1>9
<1>11. EsLlamada(x)
  BY <1>1 DEF EsLlamada
<1> HIDE DEF x
<1>12. QED
  BY <1>10, <1>11 DEF x
----------------------------------------------------------------------------
(* Every action keeps the invariant.                                       *)

\* What the finance service books is no matter of the requests.
LEMMA LibroPaso ==
  ASSUME IInv, hilo' = hilo, solicitud' = solicitud, mp' = mp, vuelo' = vuelo
  PROVE  IInv'
<1>1. /\ hilo' = [h \in Hilos |-> hilo'[h]] /\ \A h \in Hilos : EsLlamada(hilo'[h])
      /\ mp' \in [Solicitudes -> MP]
  BY DEF IInv, Tipos
<1>2. QED
  BY <1>1, UnEnvio

\* The snapshot of a new request writes nothing.
LEMMA SolicitarLeePaso ==
  ASSUME IInv, NEW h \in Hilos, SolicitarLee(h)
  PROVE  IInv'
<1> DEFINE y1 == [paso |-> "solicitar", s |-> 0, version |-> 0, resp |-> "no", monto |-> 0, toma |-> {}, vistas |-> {}]
           y2 == [paso |-> "solicitar", s |-> 0, version |-> 0, resp |-> "no", monto |-> Disponible, toma |-> {}, vistas |-> {}]
           y3 == [paso |-> "solicitar", s |-> 0, version |-> 0, resp |-> "no", monto |-> Disponible, toma |-> Libres, vistas |-> {}]
           y4 == [paso |-> "solicitar", s |-> 0, version |-> 0, resp |-> "no", monto |-> Disponible, toma |-> Libres, vistas |-> Creadas]
           x == [Libre EXCEPT !.paso = "solicitar", !.monto = Disponible, !.toma = Libres, !.vistas = Creadas]
<1>1. EsLlamada(x) /\ x.paso = "solicitar"
  <2>1. [Libre EXCEPT !.paso = "solicitar"] = y1
    BY DEF Libre
  <2>2. [y1 EXCEPT !.monto = Disponible] = y2
    OBVIOUS
  <2>3. [y2 EXCEPT !.toma = Libres] = y3
    OBVIOUS
  <2>4. [y3 EXCEPT !.vistas = Creadas] = y4
    OBVIOUS
  <2>5. EsLlamada(y4) /\ y4.paso = "solicitar"
    BY DEF EsLlamada
  <2> HIDE DEF y1, y2, y3, y4
  <2>6. QED
    BY <2>1, <2>2, <2>3, <2>4, <2>5
<1>2. hilo' = [hilo EXCEPT ![h] = x] /\ solicitud' = solicitud /\ mp' = mp /\ vuelo' = vuelo
  BY DEF SolicitarLee
<1> HIDE DEF x
<1>3. hilo'[h] = x
  BY <1>1, <1>2, UnaLlamada DEF IInv
<1>4. Sabe(h)'
  BY <1>1, <1>3, LibreSabe
<1>5. QED
  BY <1>1, <1>2, <1>4, SoloLaLlamada

\* What a call knows of its request is what admitted it.
LEMMA LeerPaso ==
  ASSUME IInv, NEW h \in Hilos, NEW s \in Solicitudes, NEW paso \in PASOS, Leer(h, s, paso)
  PROVE  IInv'
<1> DEFINE x == [paso |-> paso, s |-> s, version |-> solicitud[s].version, resp |-> "no", monto |-> 0,
                 toma |-> {}, vistas |-> {}]
<1>1. EsFila(solicitud[s]) /\ FilaCierta(s)
  BY DEF IInv, Tipos, Ciertas
<1>2. En(paso, s) = x
  <2> DEFINE y1 == [paso |-> paso, s |-> 0, version |-> 0, resp |-> "no", monto |-> 0, toma |-> {}, vistas |-> {}]
             y2 == [paso |-> paso, s |-> s, version |-> 0, resp |-> "no", monto |-> 0, toma |-> {}, vistas |-> {}]
  <2>1. [Libre EXCEPT !.paso = paso] = y1
    BY DEF Libre
  <2>2. [y1 EXCEPT !.s = s] = y2
    OBVIOUS
  <2>3. [y2 EXCEPT !.version = solicitud[s].version] = x
    OBVIOUS
  <2> HIDE DEF y1, y2, x
  <2>4. QED
    BY <2>1, <2>2, <2>3 DEF En
<1>3. hilo' = [hilo EXCEPT ![h] = x] /\ solicitud' = solicitud /\ mp' = mp /\ vuelo' = vuelo
  BY <1>2 DEF Leer
<1>4. EsLlamada(x) /\ x.paso = paso /\ x.s = s /\ x.version = solicitud[s].version
  BY <1>1 DEF EsLlamada, EsFila
<1> HIDE DEF x
<1>5. hilo'[h] = x
  BY <1>3, <1>4, UnaLlamada DEF IInv
<1>6. Admite(s, paso)
  BY DEF Leer
<1>7. solicitud[s].version \in Nat
  BY <1>1 DEF EsFila
<1>8. /\ paso \in DELEIDA => solicitud[s].estado = "requested"
      /\ paso \in AMANO => solicitud[s].estado = "processing" /\ solicitud[s].mec = "manual"
      /\ paso \notin DELEIDA \cup AMANO => paso \in {"enviar", "consultar"}
      /\ paso \in {"enviar", "consultar"} => solicitud[s].estado = "processing" /\ solicitud[s].mec = "mp"
      /\ paso \in {"enviar", "consultar"} => (solicitud[s].ids <=> paso = "consultar")
  BY <1>1, <1>6 DEF Admite, PASOS, DELEIDA, AMANO, FilaCierta
<1>9. Sabe(h)'
  BY <1>3, <1>4, <1>5, <1>7, <1>8 DEF Sabe, CONMP, PREGUNTA, DELEIDA, AMANO
<1>10. QED
  BY <1>3, <1>4, <1>9, SoloLaLlamada

\* An answer about a transfer is what Mercado Pago has of it.
LEMMA ConsultarPaso ==
  ASSUME IInv, NEW h \in Hilos, Consultar(h)
  PROVE  IInv'
<1> DEFINE c == hilo[h]
           q == CASE mp[c.s] = "acreditada" -> "paid"
                  [] mp[c.s] = "fallida" -> "failed"
                  [] OTHER -> "sigue"
           x == [paso |-> "consulto", s |-> c.s, version |-> c.version, resp |-> q, monto |-> c.monto,
                 toma |-> c.toma, vistas |-> c.vistas]
<1>1. hilo' = [hilo EXCEPT ![h].paso = "consulto", ![h].resp = q] /\ c.paso = "consultar"
      /\ solicitud' = solicitud /\ mp' = mp /\ vuelo' = vuelo
  BY DEF Consultar
<1>2. /\ q \in {"paid", "failed", "sigue"}
      /\ q = "paid" => mp[c.s] = "acreditada"
      /\ q = "failed" => mp[c.s] = "fallida"
  OBVIOUS
<1> HIDE DEF q
<1>3. EsLlamada(x) /\ hilo' = [hilo EXCEPT ![h] = x]
  BY <1>1, Responde DEF IInv
<1>4. x.paso = "consulto" /\ x.s = c.s /\ x.version = c.version /\ x.resp = q
  OBVIOUS
<1> HIDE DEF x
<1>5. hilo'[h] = x
  BY <1>3, UnaLlamada DEF IInv
<1>6. /\ c.s \in Solicitudes /\ c.version <= solicitud[c.s].version /\ solicitud[c.s].estado # "no" /\ solicitud[c.s].mec = "mp"
      /\ solicitud[c.s].version = c.version => solicitud[c.s].estado = "processing" /\ solicitud[c.s].ids
  BY <1>1 DEF IInv, Saben, Sabe, CONMP, PREGUNTA, Vigente
<1> HIDE DEF c
<1>7. Sabe(h)'
  BY <1>1, <1>2, <1>4, <1>5, <1>6 DEF Sabe, Vigente, CONMP, PREGUNTA, DELEIDA, AMANO
<1>8. QED
  BY <1>1, <1>3, <1>7, SoloLaLlamada

\* What Mercado Pago has of one request changes and its calls do not.
LEMMA MPPaso ==
  ASSUME IInv, NEW s \in Solicitudes, solicitud' = solicitud, hilo' = hilo, vuelo' \subseteq vuelo,
         NEW r \in MP, mp' = [mp EXCEPT ![s] = r], solicitud[s].mec = "mp",
         mp[s] \in ACABADAS => r = mp[s]
  PROVE  IInv'
<1>1. /\ hilo' = [h \in Hilos |-> hilo'[h]] /\ \A h \in Hilos : EsLlamada(hilo'[h])
      /\ mp \in [Solicitudes -> MP]
  BY DEF IInv, Tipos
<1>2. mp' \in [Solicitudes -> MP] /\ mp'[s] = r /\ \A t \in Solicitudes : t # s => mp'[t] = mp[t]
  BY <1>1
<1>3. FilaCierta(s)'
  BY <1>2 DEF IInv, Ciertas, FilaCierta, ACABADAS
<1>4. QED
  BY <1>1, <1>2, <1>3, UnEnvio

\* A sending that arrives late was given to Mercado Pago before.
LEMMA LlegaTardePaso ==
  ASSUME IInv, NEW s \in Solicitudes, LlegaTarde(s)
  PROVE  IInv'
<1>1. /\ solicitud' = solicitud /\ hilo' = hilo /\ vuelo' \subseteq vuelo /\ s \in vuelo
      /\ \E r \in {"en_curso", "rechazada"} : mp' = [mp EXCEPT ![s] = IF mp[s] = "no" THEN r ELSE mp[s]]
  BY DEF LlegaTarde
<1>2. PICK r \in {"en_curso", "rechazada"} : mp' = [mp EXCEPT ![s] = IF mp[s] = "no" THEN r ELSE mp[s]]
  BY <1>1
<1> DEFINE q == IF mp[s] = "no" THEN r ELSE mp[s]
<1>3. q \in MP /\ (mp[s] \in ACABADAS => q = mp[s])
  BY DEF IInv, Tipos, MP, ACABADAS
<1>4. solicitud[s].mec = "mp"
  BY <1>1 DEF IInv, Ciertas, FilaCierta
<1>5. mp' = [mp EXCEPT ![s] = q]
  BY <1>2
<1> HIDE DEF q
<1>6. QED
  BY <1>1, <1>3, <1>4, <1>5, MPPaso

\* What ended in Mercado Pago stays so.
LEMMA MPTerminaPaso ==
  ASSUME IInv, NEW s \in Solicitudes, NEW fin \in {"acreditada", "fallida"}, MPTermina(s, fin)
  PROVE  IInv'
<1>1. /\ solicitud' = solicitud /\ hilo' = hilo /\ vuelo' = vuelo /\ mp[s] = "en_curso"
      /\ mp' = [mp EXCEPT ![s] = fin]
  BY DEF MPTermina
<1>2. fin \in MP /\ mp[s] \notin ACABADAS
  BY <1>1 DEF MP, ACABADAS
<1>3. solicitud[s].mec = "mp"
  BY <1>1 DEF IInv, Ciertas, FilaCierta
<1>4. QED
  BY <1>1, <1>2, <1>3, MPPaso

\* The call whose request was on its way has its answer.
LEMMA RespuestaSabe ==
  ASSUME IInv, NEW h \in Hilos, hilo[h].paso = "enviar", solicitud' = solicitud,
         NEW q, hilo' = [hilo EXCEPT ![h].paso = "respondio", ![h].resp = q]
  PROVE  /\ Sabe(h)' /\ \A g \in Hilos : g # h => hilo'[g] = hilo[g]
         /\ hilo' = [g \in Hilos |-> hilo'[g]] /\ \A g \in Hilos : EsLlamada(hilo'[g])
<1> DEFINE c == hilo[h]
           x == [paso |-> "respondio", s |-> c.s, version |-> c.version, resp |-> q, monto |-> c.monto,
                 toma |-> c.toma, vistas |-> c.vistas]
<1>1. /\ c.s \in Solicitudes /\ c.version <= solicitud[c.s].version /\ solicitud[c.s].estado # "no" /\ solicitud[c.s].mec = "mp"
      /\ solicitud[c.s].version = c.version => solicitud[c.s].estado = "processing" /\ ~solicitud[c.s].ids
  BY DEF IInv, Saben, Sabe, CONMP, PREGUNTA, Vigente
<1>2. Tipos /\ hilo' = [hilo EXCEPT ![h].paso = "respondio", ![h].resp = q]
  BY DEF IInv
<1>3. EsLlamada(x) /\ hilo' = [hilo EXCEPT ![h] = x]
  BY ONLY <1>2, Responde, h \in Hilos
<1>4. x.paso = "respondio" /\ x.s = c.s /\ x.version = c.version /\ x.resp = q
  OBVIOUS
<1> HIDE DEF x
<1>5. /\ hilo'[h] = x /\ \A g \in Hilos : g # h => hilo'[g] = hilo[g]
      /\ hilo' = [g \in Hilos |-> hilo'[g]] /\ \A g \in Hilos : EsLlamada(hilo'[g])
  BY <1>2, <1>3, UnaLlamada
<1> HIDE DEF c
<1>6. Sabe(h)'
  BY ONLY <1>1, <1>4, <1>5, solicitud' = solicitud DEF Sabe, Vigente, CONMP, PREGUNTA, DELEIDA, AMANO
<1>7. QED
  BY <1>5, <1>6

\* What it did in Mercado Pago is done to a request given to it.
LEMMA RespuestaPaso ==
  ASSUME IInv, NEW h \in Hilos, hilo[h].paso = "enviar", solicitud' = solicitud,
         Sabe(h)', \A g \in Hilos : g # h => hilo'[g] = hilo[g],
         hilo' = [g \in Hilos |-> hilo'[g]], \A g \in Hilos : EsLlamada(hilo'[g]),
         mp' \in [Solicitudes -> MP],
         \A s \in Solicitudes : mp[s] \in ACABADAS => mp'[s] = mp[s],
         \A s \in Solicitudes : s # hilo[h].s => mp'[s] = mp[s] /\ (s \in vuelo' => s \in vuelo)
  PROVE  IInv'
<1>1. ASSUME NEW s \in Solicitudes, s = hilo[h].s PROVE FilaCierta(s)'
  <2>1. solicitud[s].mec = "mp"
    BY <1>1 DEF IInv, Saben, Sabe, CONMP
  <2>2. FilaCierta(s)
    BY DEF IInv, Ciertas
  <2>3. mp[s] \in ACABADAS => mp'[s] = mp[s]
    OBVIOUS
  <2>4. QED
    BY <2>1, <2>2, <2>3 DEF FilaCierta, ACABADAS
<1>2. \A s \in Solicitudes : (mp'[s] = mp[s] /\ (s \in vuelo' => s \in vuelo)) \/ FilaCierta(s)'
  BY <1>1
<1>3. QED
  BY <1>2, UnEnvio

\* Taken, refused or unanswered: what Mercado Pago ended it does not change.
LEMMA EnviarPaso ==
  ASSUME IInv, NEW h \in Hilos, MPAcepta(h) \/ MPRechaza(h) \/ MPNoResponde(h)
  PROVE  IInv'
<1> DEFINE s == hilo[h].s
<1>1. hilo[h].paso = "enviar" /\ solicitud' = solicitud
  BY DEF MPAcepta, MPRechaza, MPNoResponde
<1>2. s \in Solicitudes /\ mp \in [Solicitudes -> MP]
  BY <1>1 DEF IInv, Saben, Sabe, Tipos
<1>3. CASE MPAcepta(h)
  <2>1. mp' = [mp EXCEPT ![s] = IF mp[s] = "no" THEN "en_curso" ELSE mp[s]] /\ vuelo' = vuelo
        /\ hilo' = [hilo EXCEPT ![h].paso = "respondio", ![h].resp = "ids"]
    BY <1>3 DEF MPAcepta
  <2>2. mp' \in [Solicitudes -> MP] /\ \A t \in Solicitudes : (mp[t] \in ACABADAS \/ t # s) => mp'[t] = mp[t]
    BY <1>2, <2>1 DEF MP, ACABADAS
  <2>3. /\ Sabe(h)' /\ \A g \in Hilos : g # h => hilo'[g] = hilo[g]
        /\ hilo' = [g \in Hilos |-> hilo'[g]] /\ \A g \in Hilos : EsLlamada(hilo'[g])
    BY ONLY IInv, h \in Hilos, <1>1, <2>1, RespuestaSabe
  <2>4. QED
    BY <1>1, <2>1, <2>2, <2>3, RespuestaPaso
<1>4. CASE MPRechaza(h)
  <2>1. /\ mp' = mp \/ (mp[s] = "no" /\ mp' = [mp EXCEPT ![s] = "rechazada"])
        /\ vuelo' = vuelo
        /\ hilo' = [hilo EXCEPT ![h].paso = "respondio", ![h].resp = "rechazo"]
    BY <1>4 DEF MPRechaza
  <2>2. mp' \in [Solicitudes -> MP]
        /\ \A t \in Solicitudes : (mp[t] \in ACABADAS \/ t # s) => mp'[t] = mp[t]
    BY <1>2, <2>1 DEF MP, ACABADAS
  <2>3. /\ Sabe(h)' /\ \A g \in Hilos : g # h => hilo'[g] = hilo[g]
        /\ hilo' = [g \in Hilos |-> hilo'[g]] /\ \A g \in Hilos : EsLlamada(hilo'[g])
    BY ONLY IInv, h \in Hilos, <1>1, <2>1, RespuestaSabe
  <2>4. QED
    BY <1>1, <2>1, <2>2, <2>3, RespuestaPaso
<1>5. CASE MPNoResponde(h)
  <2>1. mp' = mp /\ vuelo' = vuelo \cup {s} /\ hilo' = [hilo EXCEPT ![h].paso = "respondio", ![h].resp = "duda"]
    BY <1>5 DEF MPNoResponde
  <2>2. mp' \in [Solicitudes -> MP]
    BY <1>2, <2>1
  <2>3. /\ Sabe(h)' /\ \A g \in Hilos : g # h => hilo'[g] = hilo[g]
        /\ hilo' = [g \in Hilos |-> hilo'[g]] /\ \A g \in Hilos : EsLlamada(hilo'[g])
    BY ONLY IInv, h \in Hilos, <1>1, <2>1, RespuestaSabe
  <2>4. QED
    BY <1>1, <2>1, <2>2, <2>3, RespuestaPaso
<1>6. QED
  BY <1>3, <1>4, <1>5

\* A call that stops knows nothing any more.
LEMMA CaerPaso ==
  ASSUME IInv, NEW h \in Hilos, Caer(h)
  PROVE  IInv'
<1>1. /\ hilo' = [hilo EXCEPT ![h] = Libre] /\ solicitud' = solicitud /\ mp' = mp
      /\ vuelo' = IF hilo[h].paso = "enviar" THEN vuelo \cup {hilo[h].s} ELSE vuelo
  BY DEF Caer
<1>2. /\ hilo'[h] = Libre /\ \A g \in Hilos : g # h => hilo'[g] = hilo[g]
      /\ hilo' = [g \in Hilos |-> hilo'[g]] /\ \A g \in Hilos : EsLlamada(hilo'[g])
  BY <1>1, LibreTipo, UnaLlamada DEF IInv
<1>3. Sabe(h)'
  BY <1>2, LibreTipo, LibreSabe
<1>4. mp' \in [Solicitudes -> MP]
  BY <1>1 DEF IInv, Tipos
<1>5. ASSUME NEW s \in Solicitudes, s \in vuelo', s \notin vuelo PROVE FilaCierta(s)'
  <2>1. hilo[h].paso = "enviar" /\ hilo[h].s = s
    BY <1>1, <1>5
  <2>2. solicitud[s].mec = "mp"
    BY <2>1 DEF IInv, Saben, Sabe, CONMP
  <2>3. QED
    BY <1>1, <2>2 DEF IInv, Ciertas, FilaCierta
<1>6. QED
  BY <1>1, <1>2, <1>3, <1>4, <1>5, UnEnvio

\* mover, from a request and to a state and a mechanism that fit what Mercado Pago has.
LEMMA MoverPaso ==
  ASSUME IInv, NEW h \in Hilos, NEW s \in Solicitudes, hilo[h].s = s,
         NEW hacia \in ESTADOS \ {"no", "requested"}, NEW m \in MECANISMOS, Mover(h, hacia, m),
         NEW x, EsLlamada(x), hilo' = [hilo EXCEPT ![h] = x], Sabe(h)', mp' = mp, vuelo' = vuelo,
         Vigente(h) /\ <<solicitud[s].estado, hacia>> \in TRANSICIONES =>
           /\ solicitud[s].mec = "mp" <=> m = "mp"
           /\ hacia = "cancelled" => m = "no"
           /\ hacia = "failed" /\ solicitud[s].ids => mp[s] = "fallida"
           /\ hacia = "paid" /\ m = "mp" => mp[s] = "acreditada"
  PROVE  IInv'
<1> DEFINE c == solicitud[s]
           f == [estado |-> hacia, mec |-> m, ids |-> c.ids, version |-> c.version + 1, monto |-> c.monto]
<1>1. Tipos /\ FilaCierta(s) /\ EsFila(c)
  BY DEF IInv, Tipos, Ciertas
<1>2. IF Vigente(h) /\ <<c.estado, hacia>> \in TRANSICIONES
      THEN EsFila(f) /\ solicitud' = [solicitud EXCEPT ![s] = f]
      ELSE solicitud' = solicitud
  BY ONLY <1>1, MoverEscribe, h \in Hilos, s \in Solicitudes, hilo[h].s = s, hacia \in ESTADOS,
          m \in MECANISMOS, Mover(h, hacia, m)
<1>3. CASE Vigente(h) /\ <<c.estado, hacia>> \in TRANSICIONES
  <2>1. EsFila(f) /\ solicitud' = [solicitud EXCEPT ![s] = f]
    BY <1>2, <1>3
  <2>2. f.estado = hacia /\ f.mec = m /\ f.ids = c.ids /\ f.version = c.version + 1
    OBVIOUS
  <2>3. /\ c.mec = "mp" <=> m = "mp"
        /\ hacia = "cancelled" => m = "no"
        /\ hacia = "failed" /\ c.ids => mp[s] = "fallida"
        /\ hacia = "paid" /\ m = "mp" => mp[s] = "acreditada"
    BY <1>3
  <2>4. c.estado # "no" /\ hacia \notin {"no", "requested"}
    BY <1>3 DEF TRANSICIONES
  <2>5. c.version \in Nat
    BY <1>1 DEF EsFila
  <2> HIDE DEF f
  <2>6. solicitud'[s] = f
    BY ONLY <1>1, <2>1, UnaSolicitud, s \in Solicitudes
  <2>7. FilaCierta(s)'
    BY ONLY <1>1, <2>2, <2>3, <2>4, <2>6, mp' = mp, vuelo' = vuelo DEF FilaCierta
  <2>8. f.version > c.version
    BY <2>2, <2>5
  <2>9. QED
    BY <2>1, <2>2, <2>3, <2>4, <2>7, <2>8, UnaEscritura
<1>4. CASE ~(Vigente(h) /\ <<c.estado, hacia>> \in TRANSICIONES)
  BY <1>2, <1>4, SoloLaLlamada
<1>5. QED
  BY <1>3, <1>4

\* A call that ends knows nothing.
LEMMA LibreSabeFin ==
  ASSUME IInv, NEW h \in Hilos, hilo' = [hilo EXCEPT ![h] = Libre]
  PROVE  Sabe(h)' /\ EsLlamada(Libre)
<1>1. hilo'[h] = Libre
  BY LibreTipo, UnaLlamada DEF IInv
<1>2. QED
  BY <1>1, LibreTipo, LibreSabe

\* A call without Mercado Pago writes over the version it read.
LEMMA ResolverPaso ==
  ASSUME IInv, NEW h \in Hilos, Resolver(h)
  PROVE  IInv'
<1> DEFINE c == solicitud[hilo[h].s]
           hacia == CASE hilo[h].paso = "cancelar" -> "cancelled"
                      [] hilo[h].paso = "pagar" -> "paid"
                      [] OTHER -> "failed"
<1>1. /\ hilo[h].paso \in {"cancelar", "pagar", "fallar"} /\ hilo' = [hilo EXCEPT ![h] = Libre]
      /\ Mover(h, hacia, c.mec) /\ mp' = mp /\ vuelo' = vuelo
  BY DEF Resolver
<1>2. hacia \in ESTADOS \ {"no", "requested"} /\ (hilo[h].paso = "cancelar" => hacia = "cancelled")
      /\ (hilo[h].paso # "cancelar" => hacia \in {"paid", "failed"})
  BY <1>1 DEF ESTADOS
<1> HIDE DEF hacia
<1>3. Tipos /\ Sabe(h) /\ hilo[h].s \in Solicitudes
  BY <1>1 DEF IInv, Saben, Sabe
<1>4. PICK s \in Solicitudes : hilo[h].s = s
  BY <1>3
<1>5. FilaCierta(s) /\ EsFila(c)
  BY <1>3, <1>4 DEF IInv, Tipos, Ciertas
<1>6. /\ c.mec \in MECANISMOS
      /\ hilo[h].paso = "cancelar" /\ Vigente(h) => c.estado = "requested"
      /\ hilo[h].paso # "cancelar" /\ Vigente(h) => c.mec = "manual"
  BY <1>1, <1>3, <1>5 DEF Sabe, EsFila, DELEIDA, AMANO
<1>7. Vigente(h) => c.mec # "mp" /\ ~c.ids /\ (hacia = "cancelled" => c.mec = "no")
  BY <1>2, <1>4, <1>5, <1>6 DEF FilaCierta
<1>8. Sabe(h)' /\ EsLlamada(Libre)
  BY <1>1, LibreSabeFin
<1>9. PICK m \in MECANISMOS : m = c.mec
  BY <1>6
<1>10. /\ Mover(h, hacia, m) /\ hacia \in ESTADOS \ {"no", "requested"}
       /\ Vigente(h) /\ <<solicitud[s].estado, hacia>> \in TRANSICIONES =>
            /\ solicitud[s].mec = "mp" <=> m = "mp"
            /\ hacia = "cancelled" => m = "no"
            /\ hacia = "failed" /\ solicitud[s].ids => mp[s] = "fallida"
            /\ hacia = "paid" /\ m = "mp" => mp[s] = "acreditada"
  BY <1>1, <1>2, <1>4, <1>7, <1>9
<1>11. QED
  BY ONLY IInv, h \in Hilos, s \in Solicitudes, m \in MECANISMOS, <1>1, <1>4, <1>8, <1>10, MoverPaso

\* The copy of a call that goes on to send, over the version it has just written.
LEMMA SigueEnviando ==
  ASSUME NEW c, EsLlamada(c)
  PROVE  LET x == [paso |-> "enviar", s |-> c.s, version |-> c.version + 1, resp |-> c.resp,
                   monto |-> c.monto, toma |-> c.toma, vistas |-> c.vistas] IN
         EsLlamada(x) /\ [c EXCEPT !.paso = "enviar", !.version = c.version + 1] = x
<1> DEFINE y == [paso |-> "enviar", s |-> c.s, version |-> c.version, resp |-> c.resp,
                 monto |-> c.monto, toma |-> c.toma, vistas |-> c.vistas]
           x == [paso |-> "enviar", s |-> c.s, version |-> c.version + 1, resp |-> c.resp,
                 monto |-> c.monto, toma |-> c.toma, vistas |-> c.vistas]
<1>1. c = [paso |-> c.paso, s |-> c.s, version |-> c.version, resp |-> c.resp, monto |-> c.monto,
           toma |-> c.toma, vistas |-> c.vistas] /\ c.version \in Nat
  BY DEF EsLlamada
<1>2. [c EXCEPT !.paso = "enviar"] = y
  BY <1>1
<1>3. [y EXCEPT !.version = c.version + 1] = x
  OBVIOUS
<1>4. EsLlamada(x)
  BY <1>1 DEF EsLlamada
<1> HIDE DEF x, y
<1>5. EsLlamada(x) /\ [c EXCEPT !.paso = "enviar", !.version = c.version + 1] = x
  BY <1>2, <1>3, <1>4
<1>6. QED
  BY <1>5 DEF x

\* A request given to Mercado Pago was requested until then.
LEMMA ProcesarPaso ==
  ASSUME IInv, NEW h \in Hilos, Procesar(h)
  PROVE  IInv'
<1> DEFINE m == IF hilo[h].paso = "manual" THEN "manual" ELSE "mp"
           x == [paso |-> "enviar", s |-> hilo[h].s, version |-> hilo[h].version + 1, resp |-> hilo[h].resp,
                 monto |-> hilo[h].monto, toma |-> hilo[h].toma, vistas |-> hilo[h].vistas]
<1>1. /\ hilo[h].paso \in {"manual", "mercado_pago"} /\ Mover(h, "processing", m) /\ mp' = mp /\ vuelo' = vuelo
      /\ hilo' = [hilo EXCEPT ![h] = IF hilo[h].paso = "mercado_pago" /\ Vigente(h)
                                     THEN [hilo[h] EXCEPT !.paso = "enviar", !.version = hilo[h].version + 1] ELSE Libre]
  BY DEF Procesar
<1>2. m \in MECANISMOS /\ (hilo[h].paso = "mercado_pago" => m = "mp")
  BY DEF MECANISMOS
<1> HIDE DEF m
<1>3. Tipos /\ Sabe(h) /\ hilo[h].s \in Solicitudes /\ EsLlamada(hilo[h])
  BY <1>1 DEF IInv, Tipos, Saben, Sabe
<1>4. PICK s \in Solicitudes : hilo[h].s = s
  BY <1>3
<1> DEFINE c == solicitud[s]
           f == [estado |-> "processing", mec |-> m, ids |-> c.ids, version |-> c.version + 1, monto |-> c.monto]
<1>5. FilaCierta(s) /\ EsFila(c) /\ c.version \in Nat
  BY <1>3 DEF IInv, Tipos, Ciertas, EsFila
<1>6. Vigente(h) => c.estado = "requested" /\ c.mec # "mp" /\ hilo[h].version = c.version
  BY <1>1, <1>3, <1>4, <1>5 DEF Sabe, DELEIDA, FilaCierta, Vigente
<1>7. IF Vigente(h) /\ <<c.estado, "processing">> \in TRANSICIONES
      THEN EsFila(f) /\ solicitud' = [solicitud EXCEPT ![s] = f]
      ELSE solicitud' = solicitud
  <2>1. "processing" \in ESTADOS
    BY DEF ESTADOS
  <2>2. QED
    BY ONLY <1>1, <1>2, <1>3, <1>4, <2>1, h \in Hilos, MoverEscribe
<1>8. CASE Vigente(h)
  <2> DEFINE z == IF hilo[h].paso = "mercado_pago" THEN x ELSE Libre
  <2>1. EsFila(f) /\ solicitud' = [solicitud EXCEPT ![s] = f]
    BY <1>6, <1>7, <1>8 DEF TRANSICIONES
  <2>2. f.estado = "processing" /\ f.mec = m /\ f.ids = c.ids /\ f.version = c.version + 1
    OBVIOUS
  <2> HIDE DEF f
  <2>3. solicitud'[s] = f
    BY ONLY <1>3, <2>1, UnaSolicitud, s \in Solicitudes
  <2>4. x.paso = "enviar" /\ x.s = s /\ x.version = hilo[h].version + 1
    BY <1>4
  <2>5. EsLlamada(x) /\ [hilo[h] EXCEPT !.paso = "enviar", !.version = hilo[h].version + 1] = x
    BY ONLY <1>3, SigueEnviando
  <2> HIDE DEF x
  <2>6. EsLlamada(z) /\ hilo' = [hilo EXCEPT ![h] = z]
    BY <1>1, <1>8, <2>5, LibreTipo
  <2>7. z.paso = "libre" \/ (z = x /\ m = "mp")
    BY <1>2, LibreTipo
  <2> HIDE DEF z
  <2>8. hilo'[h] = z
    BY ONLY <1>3, <2>6, UnaLlamada, h \in Hilos
  <2>9. ASSUME z.paso = "libre" PROVE Sabe(h)'
    BY <2>8, <2>9, LibreSabe
  <2>10. ASSUME z = x, m = "mp" PROVE Sabe(h)'
    <3>1. hilo'[h].paso = "enviar" /\ hilo'[h].s = s /\ hilo'[h].version = c.version + 1
      BY <1>6, <1>8, <2>4, <2>8, <2>10
    <3>2. solicitud'[s].mec = "mp" /\ solicitud'[s].estado = "processing" /\ ~solicitud'[s].ids
          /\ solicitud'[s].version = c.version + 1
      BY <1>5, <1>6, <1>8, <2>2, <2>3, <2>10 DEF FilaCierta
    <3>3. c.version + 1 <= c.version + 1
      BY <1>5
    <3> HIDE DEF c
    <3>4. QED
      BY ONLY <3>1, <3>2, <3>3, s \in Solicitudes DEF Sabe, CONMP, PREGUNTA, DELEIDA, AMANO
  <2>11. Sabe(h)'
    BY <2>7, <2>9, <2>10
  <2>12. FilaCierta(s)'
    <3>1. mp' = mp /\ vuelo' = vuelo
      BY <1>1
    <3>2. c.mec # "mp"
      BY <1>6, <1>8
    <3>3. QED
      BY ONLY <1>5, <2>2, <2>3, <3>1, <3>2 DEF FilaCierta
  <2>13. c.estado # "no" /\ f.estado # "no" /\ f.version > c.version /\ (c.mec = "mp" => f.mec = "mp")
    BY <1>5, <1>6, <1>8, <2>2
  <2>14. QED
    BY ONLY IInv, h \in Hilos, s \in Solicitudes, <1>1, <2>1, <2>6, <2>11, <2>12, <2>13, UnaEscritura
<1>9. CASE ~Vigente(h)
  <2>1. solicitud' = solicitud /\ hilo' = [hilo EXCEPT ![h] = Libre]
    BY <1>1, <1>7, <1>9
  <2>2. Sabe(h)' /\ EsLlamada(Libre)
    BY <2>1, LibreSabeFin
  <2>3. QED
    BY ONLY IInv, h \in Hilos, <1>1, <2>1, <2>2, SoloLaLlamada
<1>10. QED
  BY <1>8, <1>9

\* One request is written with its next version and nothing else that matters here.
LEMMA VersionPaso ==
  ASSUME IInv, NEW h \in Hilos, NEW s \in Solicitudes, hilo' = [hilo EXCEPT ![h] = Libre],
         NEW i \in BOOLEAN, solicitud[s].mec = "mp", solicitud[s].estado = "processing",
         solicitud' = [solicitud EXCEPT ![s] =
           [estado |-> solicitud[s].estado, mec |-> "mp", ids |-> i,
            version |-> solicitud[s].version + 1, monto |-> solicitud[s].monto]],
         mp' = mp, vuelo' = vuelo
  PROVE  IInv'
<1> DEFINE c == solicitud[s]
           f == [estado |-> c.estado, mec |-> "mp", ids |-> i, version |-> c.version + 1, monto |-> c.monto]
<1>1. Tipos /\ FilaCierta(s) /\ EsFila(c)
  BY DEF IInv, Tipos, Ciertas
<1>2. EsFila(f)
  BY <1>1 DEF EsFila, MECANISMOS
<1>3. f.estado = c.estado /\ f.mec = "mp" /\ f.version = c.version + 1 /\ c.version \in Nat
  BY <1>1 DEF EsFila
<1>4. solicitud' = [solicitud EXCEPT ![s] = f]
  OBVIOUS
<1> HIDE DEF f
<1>5. solicitud'[s] = f
  BY ONLY <1>1, <1>2, <1>4, UnaSolicitud, s \in Solicitudes
<1>6. FilaCierta(s)'
  BY ONLY <1>1, <1>3, <1>5, mp' = mp, vuelo' = vuelo, solicitud[s].mec = "mp", solicitud[s].estado = "processing" DEF FilaCierta
<1>7. Sabe(h)' /\ EsLlamada(Libre)
  BY LibreSabeFin
<1>8. f.version > c.version /\ f.estado # "no"
  BY <1>3
<1>9. QED
  BY ONLY IInv, h \in Hilos, s \in Solicitudes, <1>2, <1>3, <1>4, <1>6, <1>7, <1>8, mp' = mp, vuelo' = vuelo,
          hilo' = [hilo EXCEPT ![h] = Libre], c.estado = "processing", UnaEscritura

\* A failure of a request that was refused before TUS had its ids, or that Mercado Pago says
\* failed; a payment that it says was accredited.
LEMMA FinPaso ==
  ASSUME IInv, NEW h \in Hilos, NEW s \in Solicitudes, hilo[h].s = s, hilo' = [hilo EXCEPT ![h] = Libre],
         NEW hacia \in {"paid", "failed"}, Mover(h, hacia, "mp"), mp' = mp, vuelo' = vuelo,
         solicitud[s].mec = "mp",
         Vigente(h) /\ hacia = "failed" /\ solicitud[s].ids => mp[s] = "fallida",
         hacia = "paid" => mp[s] = "acreditada"
  PROVE  IInv'
<1>1. Sabe(h)' /\ EsLlamada(Libre)
  BY LibreSabeFin
<1>2. hacia \in ESTADOS \ {"no", "requested"} /\ "mp" \in MECANISMOS /\ hacia # "cancelled"
  BY DEF ESTADOS, MECANISMOS
<1>3. QED
  BY <1>1, <1>2, MoverPaso

\* What an answer ends is what Mercado Pago ended.
LEMMA AplicarPaso ==
  ASSUME IInv, NEW h \in Hilos, NEW news \in BOOLEAN, Aplicar(h, news)
  PROVE  IInv'
<1>1. /\ hilo[h].paso = "consulto" /\ hilo' = [hilo EXCEPT ![h] = Libre] /\ mp' = mp /\ vuelo' = vuelo
      /\ hilo[h].resp # "sigue" => Mover(h, hilo[h].resp, "mp")
  BY DEF Aplicar
<1>2. Tipos /\ Sabe(h) /\ hilo[h].s \in Solicitudes
  BY <1>1 DEF IInv, Saben, Sabe
<1>3. PICK s \in Solicitudes : hilo[h].s = s
  BY <1>2
<1>4. /\ solicitud[s].mec = "mp" /\ (Vigente(h) => solicitud[s].estado = "processing") /\ hilo[h].resp \in {"paid", "failed", "sigue"}
      /\ hilo[h].resp = "failed" => mp[s] = "fallida"
      /\ hilo[h].resp = "paid" => mp[s] = "acreditada"
  BY <1>1, <1>2, <1>3 DEF Sabe, CONMP
<1>5. CASE hilo[h].resp # "sigue"
  <2>1. PICK hacia \in {"paid", "failed"} : hacia = hilo[h].resp
    BY <1>4, <1>5
  <2>2. Mover(h, hacia, "mp")
    BY <1>1, <1>5, <2>1
  <2>3. (Vigente(h) /\ hacia = "failed" /\ solicitud[s].ids => mp[s] = "fallida") /\ (hacia = "paid" => mp[s] = "acreditada")
    BY <1>4, <2>1
  <2>4. QED
    BY ONLY IInv, h \in Hilos, <1>1, <1>3, <1>4, <2>2, <2>3, FinPaso
<1>6. CASE hilo[h].resp = "sigue"
  <2> DEFINE c == solicitud[s]
             f == [estado |-> c.estado, mec |-> "mp", ids |-> c.ids, version |-> c.version + 1, monto |-> c.monto]
  <2>1. solicitud' = IF news /\ Vigente(h)
                     THEN [solicitud EXCEPT ![hilo[h].s].version = solicitud[hilo[h].s].version + 1] ELSE solicitud
    BY <1>6 DEF Aplicar
  <2>2. c = [estado |-> c.estado, mec |-> c.mec, ids |-> c.ids, version |-> c.version, monto |-> c.monto]
        /\ c.ids \in BOOLEAN
    BY <1>2 DEF Tipos, EsFila
  <2>3. CASE news /\ Vigente(h)
    <3>1. solicitud' = [solicitud EXCEPT ![s].version = c.version + 1]
      BY <1>3, <2>1, <2>3
    <3>2. [c EXCEPT !.version = c.version + 1] = f
      BY <1>4, <2>2
    <3> HIDE DEF f
    <3>3. solicitud' = [solicitud EXCEPT ![s] = f]
      BY <3>1, <3>2
    <3>4. QED
      BY ONLY IInv, h \in Hilos, s \in Solicitudes, <1>1, <1>4, <2>2, <2>3, <3>3, VersionPaso DEF f
  <2>4. CASE ~(news /\ Vigente(h))
    <3>1. solicitud' = solicitud /\ Sabe(h)' /\ EsLlamada(Libre)
      BY <1>1, <2>1, <2>4, LibreSabeFin
    <3>2. QED
      BY ONLY IInv, h \in Hilos, <1>1, <3>1, SoloLaLlamada
  <2>5. QED
    BY <2>3, <2>4
<1>7. QED
  BY <1>5, <1>6

\* What an answer to a sending writes is of the request it was sent for.
LEMMA RegistrarPaso ==
  ASSUME IInv, NEW h \in Hilos, Registrar(h)
  PROVE  IInv'
<1>1. /\ hilo[h].paso = "respondio" /\ hilo' = [hilo EXCEPT ![h] = Libre] /\ mp' = mp /\ vuelo' = vuelo
      /\ hilo[h].resp = "rechazo" => Mover(h, "failed", "mp")
  BY DEF Registrar
<1>2. Tipos /\ Sabe(h) /\ hilo[h].s \in Solicitudes
  BY <1>1 DEF IInv, Saben, Sabe
<1>3. PICK s \in Solicitudes : hilo[h].s = s
  BY <1>2
<1>4. /\ solicitud[s].mec = "mp"
      /\ Vigente(h) => solicitud[s].estado = "processing" /\ ~solicitud[s].ids
  BY <1>1, <1>2, <1>3 DEF Sabe, CONMP, PREGUNTA
<1>5. CASE hilo[h].resp = "rechazo"
  <2>1. Mover(h, "failed", "mp") /\ (Vigente(h) => ~solicitud[s].ids)
    BY <1>1, <1>4, <1>5
  <2>2. QED
    BY ONLY IInv, h \in Hilos, s \in Solicitudes, <1>1, <1>3, <1>4, <2>1, FinPaso
<1>6. CASE hilo[h].resp # "rechazo"
  <2> DEFINE c == solicitud[s]
             i == hilo[h].resp = "ids"
             y == [estado |-> c.estado, mec |-> "mp", ids |-> i, version |-> c.version, monto |-> c.monto]
             f == [estado |-> c.estado, mec |-> "mp", ids |-> i, version |-> c.version + 1, monto |-> c.monto]
             g1 == [solicitud EXCEPT ![s].ids = i]
             g2 == [g1 EXCEPT ![s].version = @ + 1]
  <2>1. solicitud' = IF Vigente(h)
                     THEN [solicitud EXCEPT ![hilo[h].s].ids = (hilo[h].resp = "ids"), ![hilo[h].s].version = @ + 1]
                     ELSE solicitud
    BY <1>6 DEF Registrar
  <2>2. c = [estado |-> c.estado, mec |-> c.mec, ids |-> c.ids, version |-> c.version, monto |-> c.monto]
        /\ solicitud = [t \in Solicitudes |-> solicitud[t]]
    BY <1>2 DEF Tipos, EsFila
  <2>3. CASE Vigente(h)
    <3>1. solicitud' = g2
      BY <1>3, <2>1, <2>3
    <3>2. [c EXCEPT !.ids = i] = y
      BY <1>4, <2>2
    <3>3. g1 = [t \in Solicitudes |-> IF t = s THEN y ELSE solicitud[t]]
      BY <2>2, <3>2
    <3>4. [y EXCEPT !.version = y.version + 1] = f
      OBVIOUS
    <3> HIDE DEF g1, y, f
    <3>5. g1[s] = y
      BY <3>3
    <3>6. g2 = [t \in Solicitudes |-> IF t = s THEN f ELSE solicitud[t]]
      BY <3>3, <3>4, <3>5
    <3>7. [solicitud EXCEPT ![s] = f] = [t \in Solicitudes |-> IF t = s THEN f ELSE solicitud[t]]
      BY <2>2
    <3>8. solicitud' = [solicitud EXCEPT ![s] = f] /\ i \in BOOLEAN
      BY <3>1, <3>6, <3>7
    <3>9. QED
      BY ONLY IInv, h \in Hilos, s \in Solicitudes, <1>1, <1>4, <2>3, <3>8, VersionPaso DEF f
  <2>4. CASE ~Vigente(h)
    <3>1. solicitud' = solicitud /\ Sabe(h)' /\ EsLlamada(Libre)
      BY <1>1, <2>1, <2>4, LibreSabeFin
    <3>2. QED
      BY ONLY IInv, h \in Hilos, <1>1, <3>1, SoloLaLlamada
  <2>5. QED
    BY <2>3, <2>4
<1>7. QED
  BY <1>5, <1>6

\* The new request takes the next number.
LEMMA SolicitarEscribePaso ==
  ASSUME IInv, NEW h \in Hilos, SolicitarEscribe(h)
  PROVE  IInv'
<1>1. hilo' = [hilo EXCEPT ![h] = Libre] /\ mp' = mp /\ vuelo' = vuelo
  BY DEF SolicitarEscribe
<1>2. Sabe(h)' /\ EsLlamada(Libre) /\ Tipos
  BY <1>1, LibreSabeFin DEF IInv
<1>3. CASE ~(SinCambios(hilo[h].vistas) /\ Creadas # Solicitudes)
  <2>1. solicitud' = solicitud
    BY <1>3 DEF SolicitarEscribe
  <2>2. QED
    BY ONLY IInv, h \in Hilos, <1>1, <1>2, <2>1, SoloLaLlamada
<1>4. CASE SinCambios(hilo[h].vistas) /\ Creadas # Solicitudes
  <2>1. PICK n \in 0..MaxSolicitudes : Creadas = 1..n
    BY DEF IInv, Contiguas
  <2>2. Cardinality(Creadas) = n
    BY <2>1, FS_Interval, GananciasAssumption
  <2> DEFINE s == n + 1
             f == [estado |-> "requested", mec |-> "no", ids |-> FALSE, version |-> 1, monto |-> hilo[h].monto]
  <2>3. s \in Solicitudes /\ s \notin Creadas
    BY <1>4, <2>1, GananciasAssumption DEF Solicitudes
  <2>4. solicitud' = [solicitud EXCEPT ![s] = f]
    BY <1>4, <2>2 DEF SolicitarEscribe
  <2>5. EsFila(f) /\ f.estado = "requested" /\ f.mec = "no" /\ ~f.ids
    BY DEF EsFila, ESTADOS, MECANISMOS
  <2>6. FilaCierta(s) /\ solicitud[s].estado = "no"
    BY <2>3 DEF IInv, Ciertas, Creadas
  <2> HIDE DEF f
  <2>7. /\ solicitud'[s] = f /\ \A t \in Solicitudes : t # s => solicitud'[t] = solicitud[t]
        /\ solicitud' = [t \in Solicitudes |-> solicitud'[t]] /\ \A t \in Solicitudes : EsFila(solicitud'[t])
    BY ONLY <1>2, <2>3, <2>4, <2>5, UnaSolicitud
  <2>8. /\ \A g \in Hilos : g # h => hilo'[g] = hilo[g]
        /\ hilo' = [g \in Hilos |-> hilo'[g]] /\ \A g \in Hilos : EsLlamada(hilo'[g])
    BY ONLY <1>1, <1>2, UnaLlamada, h \in Hilos
  <2>9. Tipos'
    BY ONLY <1>1, <1>2, <2>7, <2>8 DEF Tipos
  <2>10. Crece
    BY ONLY <1>1, <2>6, <2>7 DEF Crece, FilaCierta
  <2>11. Contiguas'
    <3>1. Creadas' = Creadas \cup {s}
      BY ONLY <2>3, <2>5, <2>7 DEF Creadas
    <3>2. 1..n \cup {s} = 1..s /\ s \in 0..MaxSolicitudes
      BY <2>1, <2>3, GananciasAssumption DEF Solicitudes
    <3>3. QED
      BY ONLY <2>1, <3>1, <3>2 DEF Contiguas
  <2>12. FilaCierta(s)'
    BY ONLY <1>1, <2>5, <2>6, <2>7 DEF FilaCierta
  <2>13. \A t \in Solicitudes : FilaCierta(t)'
    <3>1. ASSUME NEW t \in Solicitudes, t # s PROVE FilaCierta(t)'
      <4>1. FilaCierta(t) /\ solicitud'[t] = solicitud[t]
        BY <2>7, <3>1 DEF IInv, Ciertas
      <4>2. QED
        BY ONLY <1>1, <4>1 DEF FilaCierta
    <3>2. QED
      BY <2>12, <3>1
  <2>14. QED
    BY ONLY IInv, <1>2, <2>8, <2>9, <2>10, <2>11, <2>13, UnPaso
<1>5. QED
  BY <1>3, <1>4
----------------------------------------------------------------------------
(* The invariant, and what it says of the funds.                           *)

\* The invariant holds at the start ...
LEMMA InicioBien == Init => IInv
<1> SUFFICES ASSUME Init PROVE IInv
  OBVIOUS
<1>1. solicitud = [s \in Solicitudes |-> SinSolicitud] /\ hilo = [h \in Hilos |-> Libre]
      /\ mp = [s \in Solicitudes |-> "no"] /\ vuelo = {}
  BY DEF Init
<1>2. EsFila(SinSolicitud) /\ SinSolicitud.estado = "no" /\ SinSolicitud.mec = "no" /\ ~SinSolicitud.ids
  BY DEF SinSolicitud, EsFila, ESTADOS, MECANISMOS
<1>3. Tipos
  <2>1. \A s \in Solicitudes : solicitud[s] = SinSolicitud
    BY <1>1
  <2>2. \A h \in Hilos : hilo[h] = Libre
    BY <1>1
  <2>3. mp \in [Solicitudes -> MP]
    BY <1>1 DEF MP
  <2>4. solicitud = [s \in Solicitudes |-> solicitud[s]] /\ hilo = [h \in Hilos |-> hilo[h]]
    BY <1>1
  <2>5. QED
    BY <1>2, <2>1, <2>2, <2>3, <2>4, LibreTipo DEF Tipos
<1>4. Contiguas
  <2>1. Creadas = 1..0
    BY <1>1, <1>2 DEF Creadas
  <2>2. 0 \in 0..MaxSolicitudes
    BY GananciasAssumption
  <2>3. QED
    BY <2>1, <2>2 DEF Contiguas
<1>5. Ciertas
  BY <1>1, <1>2 DEF Ciertas, FilaCierta
<1>6. Saben
  BY <1>1, LibreTipo DEF Saben, Sabe, CONMP, PREGUNTA, DELEIDA, AMANO
<1>7. QED
  BY <1>3, <1>4, <1>5, <1>6 DEF IInv

\* ... and after every step.
LEMMA PasoBien == IInv /\ [Next]_vars => IInv'
<1> SUFFICES ASSUME IInv, [Next]_vars PROVE IInv'
  OBVIOUS
<1>1. ASSUME NEW o \in Obligaciones, NEW r \in BOOLEAN, NEW t \in BOOLEAN, Aprobar(o, r, t) PROVE IInv'
  BY <1>1, LibroPaso DEF Aprobar
<1>2. ASSUME NEW o \in Obligaciones, DebitarTarifa(o) PROVE IInv'
  BY <1>2, LibroPaso DEF DebitarTarifa
<1>3. ASSUME NEW o \in Obligaciones, Revertir(o) PROVE IInv'
  BY <1>3, LibroPaso DEF Revertir
<1>4. ASSUME NEW o \in Obligaciones, LiberarRetencion(o) PROVE IInv'
  BY <1>4, LibroPaso DEF LiberarRetencion
<1>5. ASSUME NEW k \in Ajustes, Ajustar(k) PROVE IInv'
  BY <1>5, LibroPaso DEF Ajustar
<1>6. CASE UNCHANGED vars
  BY <1>6, LibroPaso DEF vars
<1>7. CASE Next
  BY <1>1, <1>2, <1>3, <1>4, <1>5, <1>7, SolicitarLeePaso, SolicitarEscribePaso, LeerPaso, ResolverPaso,
     ProcesarPaso, EnviarPaso, RegistrarPaso, ConsultarPaso, AplicarPaso, CaerPaso, LlegaTardePaso,
     MPTerminaPaso DEF Next
<1>8. QED
  BY <1>6, <1>7

\* Every reachable state has the invariant: what each call knows stays true until its
\* conditional write, whoever writes in between.
THEOREM Invariante == Spec => []IInv
BY InicioBien, PasoBien, PTL DEF Spec
----------------------------------------------------------------------------
(* A request that nobody resent has one sending: while it is on its way,   *)
(* or was refused, or its funds were given back without its ids, Mercado   *)
(* Pago has nothing of it and nothing of it may still arrive.              *)

Manda(h, s) == hilo[h].s = s /\ hilo[h].paso = "enviar"
Pendiente(h, s) == hilo[h].s = s /\ hilo[h].paso \in {"enviar", "respondio"}
Rechazada(h, s) == Pendiente(h, s) /\ hilo[h].paso = "respondio" /\ hilo[h].resp = "rechazo"
Devuelta(s) == solicitud[s].estado = "failed" /\ ~solicitud[s].ids
Limpia(s) == mp[s] \in {"no", "rechazada"} /\ s \notin vuelo

Unica(s) ==
  reenvios[s] = 0 =>
    /\ \A g, h \in Hilos : Pendiente(g, s) /\ Pendiente(h, s) => g = h
    /\ Devuelta(s) \/ (\E h \in Hilos : Manda(h, s) \/ Rechazada(h, s)) => Limpia(s)
    /\ Devuelta(s) => \A h \in Hilos : ~Manda(h, s)

Unicas == reenvios \in [Solicitudes -> Nat] /\ \A s \in Solicitudes : Unica(s)

\* A step that sends nothing, gives nothing back and leaves nothing in Mercado Pago.
LEMMA SigueUnica ==
  ASSUME NEW s \in Solicitudes, Unica(s), reenvios'[s] = 0 => reenvios[s] = 0,
         \A g \in Hilos : Pendiente(g, s)' => hilo'[g] = hilo[g],
         Limpia(s) => Limpia(s)', Devuelta(s)' => Devuelta(s)
  PROVE  Unica(s)'
<1> SUFFICES ASSUME reenvios'[s] = 0 PROVE Unica(s)'
  BY DEF Unica
<1>1. \A g \in Hilos : /\ Pendiente(g, s)' => Pendiente(g, s)
                       /\ Manda(g, s)' => Manda(g, s)
                       /\ Rechazada(g, s)' => Rechazada(g, s)
  BY DEF Pendiente, Manda, Rechazada
<1>2. QED
  BY <1>1 DEF Unica

\* The fields of a call that got its answer.
LEMMA RespondeCampos ==
  ASSUME Tipos, NEW h \in Hilos, NEW p, NEW q, hilo' = [hilo EXCEPT ![h].paso = p, ![h].resp = q]
  PROVE  /\ hilo'[h].s = hilo[h].s /\ hilo'[h].paso = p /\ hilo'[h].resp = q
         /\ \A g \in Hilos : g # h => hilo'[g] = hilo[g]
<1> DEFINE c == hilo[h]
           x == [paso |-> p, s |-> c.s, version |-> c.version, resp |-> q, monto |-> c.monto,
                 toma |-> c.toma, vistas |-> c.vistas]
<1>1. EsLlamada(x) /\ hilo' = [hilo EXCEPT ![h] = x]
  BY Responde
<1>2. x.s = c.s /\ x.paso = p /\ x.resp = q
  OBVIOUS
<1> HIDE DEF x
<1>3. hilo'[h] = x /\ \A g \in Hilos : g # h => hilo'[g] = hilo[g]
  BY <1>1, UnaLlamada
<1>4. QED
  BY <1>2, <1>3

\* The fields of the request that mover writes.
LEMMA MoverCampos ==
  ASSUME Tipos, NEW h \in Hilos, hilo[h].s \in Solicitudes, NEW hacia \in ESTADOS, NEW m \in MECANISMOS,
         Mover(h, hacia, m)
  PROVE  \A t \in Solicitudes :
           \/ solicitud'[t] = solicitud[t]
           \/ /\ t = hilo[h].s /\ Vigente(h) /\ solicitud'[t].estado = hacia
              /\ solicitud'[t].mec = m /\ solicitud'[t].ids = solicitud[t].ids
<1> DEFINE s == hilo[h].s
           c == solicitud[s]
           f == [estado |-> hacia, mec |-> m, ids |-> c.ids, version |-> c.version + 1, monto |-> c.monto]
<1>1. IF Vigente(h) /\ <<c.estado, hacia>> \in TRANSICIONES
      THEN EsFila(f) /\ solicitud' = [solicitud EXCEPT ![s] = f]
      ELSE solicitud' = solicitud
  BY MoverEscribe
<1>2. f.estado = hacia /\ f.mec = m /\ f.ids = c.ids
  OBVIOUS
<1> HIDE DEF f
<1>3. CASE solicitud' = solicitud
  BY <1>3
<1>4. CASE Vigente(h) /\ EsFila(f) /\ solicitud' = [solicitud EXCEPT ![s] = f]
  <2>1. solicitud'[s] = f /\ \A t \in Solicitudes : t # s => solicitud'[t] = solicitud[t]
    BY <1>4, UnaSolicitud
  <2>2. QED
    BY <1>2, <1>4, <2>1
<1>5. QED
  BY <1>1, <1>3, <1>4

\* What leaves the sendings alone: the finance service, the reads, Mercado Pago on its own.
LEMMA QuietoUnica ==
  ASSUME Unicas, reenvios' = reenvios, solicitud' = solicitud,
         \A g \in Hilos : hilo'[g] = hilo[g] \/ hilo'[g].paso \notin {"enviar", "respondio"},
         \A s \in Solicitudes : Limpia(s) => Limpia(s)'
  PROVE  Unicas'
<1>1. ASSUME NEW s \in Solicitudes PROVE Unica(s)'
  <2>1. Unica(s) /\ (Limpia(s) => Limpia(s)') /\ (Devuelta(s)' => Devuelta(s))
    BY DEF Unicas, Devuelta
  <2>2. \A g \in Hilos : Pendiente(g, s)' => hilo'[g] = hilo[g]
    BY DEF Pendiente
  <2>3. QED
    BY <2>1, <2>2, SigueUnica
<1>2. QED
  BY <1>1 DEF Unicas

\* A call that reads: only reenviar goes on to send, and it is counted.
LEMMA LeerUnica ==
  ASSUME IInv, Unicas, NEW h \in Hilos, NEW s \in Solicitudes, NEW paso \in PASOS, Leer(h, s, paso)
  PROVE  Unicas'
<1>1. /\ hilo' = [hilo EXCEPT ![h] = En(paso, s)] /\ solicitud' = solicitud /\ mp' = mp /\ vuelo' = vuelo
      /\ reenvios' = [reenvios EXCEPT ![s] = IF paso = "enviar" THEN reenvios[s] + 1 ELSE reenvios[s]]
  BY DEF Leer
<1>2. /\ reenvios' \in [Solicitudes -> Nat]
      /\ \A t \in Solicitudes : reenvios'[t] = 0 => reenvios[t] = 0
      /\ paso = "enviar" => reenvios'[s] # 0
  BY <1>1 DEF Unicas
<1>3. /\ \A g \in Hilos : g # h => hilo'[g] = hilo[g]
      /\ hilo'[h] = En(paso, s)
  BY <1>1 DEF IInv, Tipos
<1>4. En(paso, s).s = s /\ En(paso, s).paso = paso
  BY DEF En, Libre
<1>5. ASSUME NEW t \in Solicitudes PROVE Unica(t)'
  <2>1. CASE t = s /\ paso = "enviar"
    BY <1>2, <2>1 DEF Unica
  <2>2. CASE ~(t = s /\ paso = "enviar")
    <3>1. \A g \in Hilos : Pendiente(g, t)' => hilo'[g] = hilo[g]
      BY <1>3, <1>4, <2>2 DEF Pendiente, PASOS
    <3>2. Unica(t) /\ (Limpia(t) => Limpia(t)') /\ (Devuelta(t)' => Devuelta(t))
      BY <1>1 DEF Unicas, Limpia, Devuelta
    <3>3. QED
      BY <1>2, <3>1, <3>2, SigueUnica
  <2>3. QED
    BY <2>1, <2>2
<1>6. QED
  BY <1>2, <1>5 DEF Unicas

\* What a call has in hand after its sending, if it was not refused.
LEMMA SinRechazo ==
  ASSUME Tipos, NEW h \in Hilos, MPAcepta(h) \/ MPNoResponde(h)
  PROVE  hilo'[h].paso = "respondio" /\ hilo'[h].resp \in {"ids", "duda"}
<1>1. CASE MPAcepta(h)
  <2>1. hilo' = [hilo EXCEPT ![h].paso = "respondio", ![h].resp = "ids"]
    BY <1>1 DEF MPAcepta
  <2>2. hilo'[h].paso = "respondio"
    BY <2>1, RespondeCampos
  <2>3. hilo'[h].resp = "ids"
    BY <2>1, RespondeCampos
  <2>4. QED
    BY <2>2, <2>3
<1>2. CASE MPNoResponde(h)
  <2>1. hilo' = [hilo EXCEPT ![h].paso = "respondio", ![h].resp = "duda"]
    BY <1>2 DEF MPNoResponde
  <2>2. hilo'[h].paso = "respondio"
    BY <2>1, RespondeCampos
  <2>3. hilo'[h].resp = "duda"
    BY <2>1, RespondeCampos
  <2>4. QED
    BY <2>2, <2>3
<1>3. QED
  BY <1>1, <1>2

\* The only sending of a request is answered, or not.
LEMMA EnviarUnica ==
  ASSUME IInv, Unicas, NEW h \in Hilos, MPAcepta(h) \/ MPRechaza(h) \/ MPNoResponde(h) \/ Caer(h)
  PROVE  Unicas'
<1>0. PICK s : s = hilo[h].s
  OBVIOUS
<1> USE <1>0
<1>1. /\ solicitud' = solicitud /\ reenvios' = reenvios
      /\ \A t \in Solicitudes : t # s /\ Limpia(t) => Limpia(t)'
  BY DEF IInv, Tipos, MPAcepta, MPRechaza, MPNoResponde, Caer, Limpia
<1>2. \A g \in Hilos : g # h => hilo'[g] = hilo[g]
  <2>1. CASE Caer(h)
    BY <2>1 DEF Caer, IInv, Tipos
  <2>2. CASE ~Caer(h)
    <3>1. PICK q : hilo' = [hilo EXCEPT ![h].paso = "respondio", ![h].resp = q]
      BY <2>2 DEF MPAcepta, MPRechaza, MPNoResponde
    <3>2. QED
      BY <3>1, RespondeCampos DEF IInv
  <2>3. QED
    BY <2>1, <2>2
<1>3. ASSUME NEW t \in Solicitudes, t # s PROVE Unica(t)'
  <2>1. ~Pendiente(h, t)'
    <3>1. CASE Caer(h)
      <4>1. hilo'[h] = Libre
        BY <3>1 DEF Caer, IInv, Tipos
      <4>2. QED
        BY <4>1, LibreTipo DEF Pendiente
    <3>2. CASE ~Caer(h)
      <4>1. PICK q : hilo' = [hilo EXCEPT ![h].paso = "respondio", ![h].resp = q]
        BY <3>2 DEF MPAcepta, MPRechaza, MPNoResponde
      <4>2. hilo'[h].s = s
        BY <4>1, RespondeCampos DEF IInv
      <4>3. QED
        BY <1>3, <4>2 DEF Pendiente
    <3>3. QED
      BY <3>1, <3>2
  <2>2. Unica(t) /\ (Devuelta(t)' => Devuelta(t))
    BY <1>1 DEF Unicas, Devuelta
  <2>3. QED
    BY <1>1, <1>2, <1>3, <2>1, <2>2, SigueUnica
<1>4. ASSUME s \in Solicitudes, hilo[h].paso = "enviar" PROVE Unica(s)'
  <2>1. SUFFICES ASSUME reenvios[s] = 0 PROVE Unica(s)'
    BY <1>1 DEF Unica
  <2>2. Manda(h, s) /\ Pendiente(h, s)
    BY <1>4 DEF Manda, Pendiente
  <2>3. ~Devuelta(s) /\ Limpia(s) /\ \A g \in Hilos : Pendiente(g, s) => g = h
    BY <1>4, <2>1, <2>2 DEF Unicas, Unica
  <2>4. ~Devuelta(s)'
    BY <1>1, <2>3 DEF Devuelta
  <2>5. \A g \in Hilos : g # h => ~Pendiente(g, s)'
    BY <1>2, <2>3 DEF Pendiente
  <2>6. ~Manda(h, s)' /\ (Rechazada(h, s)' => Limpia(s)')
    <3>1. CASE Caer(h)
      <4>1. hilo'[h] = Libre
        BY <3>1 DEF Caer, IInv, Tipos
      <4>2. QED
        BY <4>1, LibreTipo DEF Manda, Rechazada, Pendiente
    <3>2. CASE MPRechaza(h)
      <4>1. hilo' = [hilo EXCEPT ![h].paso = "respondio", ![h].resp = "rechazo"]
        BY <3>2 DEF MPRechaza
      <4>2. hilo'[h].paso = "respondio"
        BY <4>1, RespondeCampos DEF IInv
      <4>3. Limpia(s)'
        BY <1>4, <2>3, <3>2 DEF MPRechaza, Limpia, IInv, Tipos
      <4>4. QED
        BY <4>2, <4>3 DEF Manda
    <3>3. CASE MPAcepta(h) \/ MPNoResponde(h)
      <4>1. hilo'[h].paso = "respondio" /\ hilo'[h].resp \in {"ids", "duda"}
        BY <3>3, SinRechazo DEF IInv
      <4>2. QED
        BY <4>1 DEF Manda, Rechazada
    <3>4. QED
      BY <3>1, <3>2, <3>3
  <2>7. \A g \in Hilos : Manda(g, s)' => Pendiente(g, s)'
    BY DEF Manda, Pendiente
  <2>8. \A g \in Hilos : Rechazada(g, s)' => Pendiente(g, s)'
    BY DEF Rechazada
  <2>9. QED
    BY <2>4, <2>5, <2>6, <2>7, <2>8 DEF Unica
<1>5. ASSUME s \in Solicitudes, hilo[h].paso # "enviar" PROVE Unica(s)'
  <2>1. hilo' = [hilo EXCEPT ![h] = Libre] /\ mp' = mp /\ vuelo' = vuelo
    BY <1>5 DEF Caer, MPAcepta, MPRechaza, MPNoResponde
  <2>2. hilo'[h] = Libre
    BY <2>1 DEF IInv, Tipos
  <2>3. \A g \in Hilos : Pendiente(g, s)' => hilo'[g] = hilo[g]
    BY <1>2, <2>2, LibreTipo DEF Pendiente
  <2>4. Unica(s) /\ (Limpia(s) => Limpia(s)') /\ (Devuelta(s)' => Devuelta(s))
    BY <1>1, <1>5, <2>1 DEF Unicas, Limpia, Devuelta
  <2>5. QED
    BY <1>1, <1>5, <2>3, <2>4, SigueUnica
<1>6. QED
  BY <1>1, <1>3, <1>4, <1>5 DEF Unicas

\* A call that ends without giving anything back.
LEMMA FinUnica ==
  ASSUME IInv, Unicas, NEW h \in Hilos, hilo' = [hilo EXCEPT ![h] = Libre],
         reenvios' = reenvios, mp' = mp, vuelo' = vuelo,
         \A s \in Solicitudes : Devuelta(s)' => Devuelta(s)
  PROVE  Unicas'
<1>1. hilo'[h] = Libre /\ \A g \in Hilos : g # h => hilo'[g] = hilo[g]
  BY DEF IInv, Tipos
<1>2. ASSUME NEW s \in Solicitudes PROVE Unica(s)'
  <2>1. \A g \in Hilos : Pendiente(g, s)' => hilo'[g] = hilo[g]
    BY <1>1, LibreTipo DEF Pendiente
  <2>2. Unica(s) /\ (Limpia(s) => Limpia(s)') /\ (Devuelta(s)' => Devuelta(s))
    BY DEF Unicas, Limpia
  <2>3. QED
    BY <2>1, <2>2, SigueUnica
<1>3. QED
  BY <1>2 DEF Unicas

\* Funds given back by a call that ends: nothing of that request is on its way.
LEMMA DevolverUnica ==
  ASSUME IInv, Unicas, NEW h \in Hilos, hilo' = [hilo EXCEPT ![h] = Libre],
         reenvios' = reenvios, mp' = mp, vuelo' = vuelo, NEW m \in MECANISMOS, Mover(h, "failed", m),
         hilo[h].s \in Solicitudes,
         reenvios[hilo[h].s] = 0 /\ Vigente(h) =>
           /\ Limpia(hilo[h].s)
           /\ \A g \in Hilos : g # h => ~Manda(g, hilo[h].s)
  PROVE  Unicas'
<1>0. PICK s : s = hilo[h].s
  OBVIOUS
<1> USE <1>0
<1>1. hilo'[h] = Libre /\ \A g \in Hilos : g # h => hilo'[g] = hilo[g]
  BY DEF IInv, Tipos
<1>2. \A t \in Solicitudes : solicitud'[t] = solicitud[t] \/ (t = s /\ Vigente(h))
  <2>1. "failed" \in ESTADOS /\ Tipos
    BY DEF ESTADOS, IInv
  <2>2. QED
    BY <2>1, MoverCampos
<1>3. ASSUME NEW t \in Solicitudes, solicitud'[t] = solicitud[t] PROVE Unica(t)'
  <2>1. \A g \in Hilos : Pendiente(g, t)' => hilo'[g] = hilo[g]
    BY <1>1, LibreTipo DEF Pendiente
  <2>2. Unica(t) /\ (Limpia(t) => Limpia(t)') /\ (Devuelta(t)' => Devuelta(t))
    BY <1>3 DEF Unicas, Limpia, Devuelta
  <2>3. QED
    BY <2>1, <2>2, SigueUnica
<1>4. ASSUME Vigente(h) PROVE Unica(s)'
  <2>1. SUFFICES ASSUME reenvios[s] = 0 PROVE Unica(s)'
    BY DEF Unica
  <2>2. Limpia(s)' /\ \A g \in Hilos : g # h => ~Manda(g, s)
    BY <1>4, <2>1 DEF Limpia
  <2>3. \A g \in Hilos : ~Manda(g, s)'
    BY <1>1, <2>2, LibreTipo DEF Manda
  <2>4. \A g \in Hilos : Pendiente(g, s)' => Pendiente(g, s)
    BY <1>1, LibreTipo DEF Pendiente
  <2>5. \A f, g \in Hilos : Pendiente(f, s)' /\ Pendiente(g, s)' => f = g
    BY <2>1, <2>4 DEF Unicas, Unica
  <2>6. QED
    BY <2>2, <2>3, <2>5 DEF Unica
<1>5. QED
  BY <1>2, <1>3, <1>4 DEF Unicas

\* The end of the only sending: its ids, its refusal or its doubt.
LEMMA RegistrarUnica ==
  ASSUME IInv, Unicas, NEW h \in Hilos, Registrar(h)
  PROVE  Unicas'
<1>0. PICK s : s = hilo[h].s
  OBVIOUS
<1> USE <1>0
<1>1. /\ hilo[h].paso = "respondio" /\ hilo' = [hilo EXCEPT ![h] = Libre]
      /\ reenvios' = reenvios /\ mp' = mp /\ vuelo' = vuelo
  BY DEF Registrar
<1>2. s \in Solicitudes /\ (Vigente(h) => solicitud[s].estado = "processing")
  BY <1>1 DEF IInv, Saben, Sabe, CONMP
<1>3. CASE hilo[h].resp = "rechazo"
  <2>1. Mover(h, "failed", "mp") /\ "mp" \in MECANISMOS
    BY <1>3 DEF Registrar, MECANISMOS
  <2>2. Rechazada(h, s) /\ Pendiente(h, s) /\ \A g \in Hilos : Manda(g, s) => Pendiente(g, s)
    BY <1>1, <1>3 DEF Rechazada, Pendiente, Manda
  <2>3. reenvios[s] = 0 => Limpia(s) /\ \A g \in Hilos : g # h => ~Manda(g, s)
    BY <1>2, <2>2 DEF Unicas, Unica
  <2>4. QED
    BY <1>1, <1>2, <2>1, <2>3, DevolverUnica
<1>4. CASE hilo[h].resp # "rechazo"
  <2>1. solicitud' = IF Vigente(h)
                     THEN [solicitud EXCEPT ![s].ids = hilo[h].resp = "ids", ![s].version = @ + 1]
                     ELSE solicitud
    BY <1>4 DEF Registrar
  <2>2. \A t \in Solicitudes : solicitud'[t].estado = "failed" => solicitud'[t] = solicitud[t]
    <3>1. ASSUME NEW t \in Solicitudes, solicitud'[t].estado = "failed", Vigente(h) PROVE solicitud'[t] = solicitud[t]
      <4>1. t # s => solicitud'[t] = solicitud[t]
        BY <2>1, <3>1 DEF IInv, Tipos
      <4>2. solicitud'[s].estado = solicitud[s].estado
        <5> DEFINE c == solicitud[s]
                   y == [estado |-> c.estado, mec |-> c.mec, ids |-> (hilo[h].resp = "ids"), version |-> c.version, monto |-> c.monto]
                   f == [estado |-> c.estado, mec |-> c.mec, ids |-> (hilo[h].resp = "ids"), version |-> c.version + 1, monto |-> c.monto]
                   g1 == [solicitud EXCEPT ![s].ids = (hilo[h].resp = "ids")]
                   g2 == [g1 EXCEPT ![s].version = @ + 1]
        <5>1. c = [estado |-> c.estado, mec |-> c.mec, ids |-> c.ids, version |-> c.version, monto |-> c.monto]
              /\ solicitud = [r \in Solicitudes |-> solicitud[r]]
          BY <1>2 DEF IInv, Tipos, EsFila
        <5>2. solicitud' = g2
          BY <2>1, <3>1
        <5>3. [c EXCEPT !.ids = (hilo[h].resp = "ids")] = y
          BY <5>1
        <5>4. g1[s] = y /\ g1 = [r \in Solicitudes |-> IF r = s THEN y ELSE solicitud[r]]
          BY <1>2, <5>1, <5>3
        <5>5. [y EXCEPT !.version = y.version + 1] = f
          OBVIOUS
        <5>6. f.estado = c.estado
          OBVIOUS
        <5> HIDE DEF g1, y, f
        <5>7. g2[s] = f
          BY <1>2, <5>4, <5>5
        <5>8. QED
          BY <5>2, <5>6, <5>7
      <4>3. QED
        BY <1>2, <3>1, <4>1, <4>2
    <3>2. QED
      BY <2>1, <3>1
  <2>3. \A t \in Solicitudes : Devuelta(t)' => Devuelta(t)
    BY <2>2 DEF Devuelta
  <2>4. QED
    BY <1>1, <2>3, FinUnica
<1>5. QED
  BY <1>3, <1>4

\* The end of a consultation: what it gives back has its ids.
LEMMA AplicarUnica ==
  ASSUME IInv, Unicas, NEW h \in Hilos, NEW news \in BOOLEAN, Aplicar(h, news)
  PROVE  Unicas'
<1>0. PICK s : s = hilo[h].s
  OBVIOUS
<1> USE <1>0
<1>1. /\ hilo[h].paso = "consulto" /\ hilo' = [hilo EXCEPT ![h] = Libre]
      /\ reenvios' = reenvios /\ mp' = mp /\ vuelo' = vuelo
  BY DEF Aplicar
<1>2. /\ s \in Solicitudes /\ hilo[h].resp \in {"paid", "failed", "sigue"}
      /\ Vigente(h) => solicitud[s].estado = "processing" /\ solicitud[s].ids
  BY <1>1 DEF IInv, Saben, Sabe, CONMP, PREGUNTA
<1>3. CASE hilo[h].resp # "sigue"
  <2>1. PICK hacia \in {"paid", "failed"} : hacia = hilo[h].resp
    BY <1>2, <1>3
  <2>2. Mover(h, hacia, "mp") /\ "mp" \in MECANISMOS /\ hacia \in ESTADOS /\ Tipos
    BY <1>3, <2>1 DEF Aplicar, MECANISMOS, ESTADOS, IInv
  <2>3. \A t \in Solicitudes :
          \/ solicitud'[t] = solicitud[t]
          \/ t = s /\ Vigente(h) /\ solicitud'[t].ids = solicitud[t].ids
    BY <1>2, <2>2, MoverCampos
  <2>4. \A t \in Solicitudes : Devuelta(t)' => Devuelta(t)
    BY <1>2, <2>3 DEF Devuelta
  <2>5. QED
    BY <1>1, <2>4, FinUnica
<1>4. CASE hilo[h].resp = "sigue"
  <2>1. solicitud' = IF news /\ Vigente(h) THEN [solicitud EXCEPT ![s].version = @ + 1] ELSE solicitud
    BY <1>4 DEF Aplicar
  <2>2. \A t \in Solicitudes : solicitud'[t].estado = solicitud[t].estado /\ solicitud'[t].ids = solicitud[t].ids
    <3>1. \A t \in Solicitudes : EsFila(solicitud[t])
      BY DEF IInv, Tipos
    <3>2. CASE news /\ Vigente(h)
      <4> DEFINE c == solicitud[s]
                 f == [estado |-> c.estado, mec |-> c.mec, ids |-> c.ids, version |-> c.version + 1, monto |-> c.monto]
      <4>1. [c EXCEPT !.version = c.version + 1] = f
        <5>1. c = [estado |-> c.estado, mec |-> c.mec, ids |-> c.ids, version |-> c.version, monto |-> c.monto]
          BY <1>2, <3>1 DEF EsFila
        <5>2. QED
          BY <5>1
      <4>2. f.estado = c.estado /\ f.ids = c.ids
        OBVIOUS
      <4> HIDE DEF f
      <4>3. \A t \in Solicitudes : solicitud'[t] = IF t = s THEN f ELSE solicitud[t]
        BY <2>1, <3>2, <4>1 DEF IInv, Tipos
      <4>4. QED
        BY <4>2, <4>3
    <3>3. CASE ~(news /\ Vigente(h))
      BY <2>1, <3>3
    <3>4. QED
      BY <3>2, <3>3
  <2>3. \A t \in Solicitudes : Devuelta(t)' => Devuelta(t)
    BY <2>2 DEF Devuelta
  <2>4. QED
    BY <1>1, <2>3, FinUnica
<1>5. QED
  BY <1>3, <1>4

\* What a person fails was never sent to Mercado Pago.
LEMMA ResolverUnica ==
  ASSUME IInv, Unicas, NEW h \in Hilos, Resolver(h)
  PROVE  Unicas'
<1>0. PICK s : s = hilo[h].s
  OBVIOUS
<1> USE <1>0
<1>1. /\ hilo[h].paso \in {"cancelar", "pagar", "fallar"} /\ hilo' = [hilo EXCEPT ![h] = Libre]
      /\ reenvios' = reenvios /\ mp' = mp /\ vuelo' = vuelo
  BY DEF Resolver
<1>2. s \in Solicitudes /\ Tipos
  BY <1>1 DEF IInv, Saben, Sabe
<1>3. EsFila(solicitud[s]) /\ FilaCierta(s)
  BY <1>2 DEF IInv, Tipos, Ciertas
<1>4. PICK m \in MECANISMOS : m = solicitud[s].mec
  BY <1>3 DEF EsFila
<1>5. CASE hilo[h].paso = "fallar"
  <2>1. Mover(h, "failed", m)
    BY <1>4, <1>5 DEF Resolver
  <2>2. Vigente(h) => solicitud[s].mec = "manual"
    BY <1>5 DEF IInv, Saben, Sabe, AMANO
  <2>3. Vigente(h) => Limpia(s)
    BY <1>3, <2>2 DEF FilaCierta, Limpia
  <2>4. Vigente(h) => \A g \in Hilos : ~Manda(g, s)
    BY <2>2 DEF IInv, Saben, Sabe, CONMP, Manda
  <2>5. QED
    BY <1>1, <1>2, <2>1, <2>3, <2>4, DevolverUnica
<1>6. CASE hilo[h].paso # "fallar"
  <2>1. PICK hacia \in {"cancelled", "paid"} : Mover(h, hacia, m)
    BY <1>1, <1>4, <1>6 DEF Resolver
  <2>2. hacia \in ESTADOS /\ hacia # "failed"
    BY DEF ESTADOS
  <2>3. \A t \in Solicitudes : solicitud'[t] = solicitud[t] \/ solicitud'[t].estado = hacia
    BY <1>2, <2>1, <2>2, MoverCampos
  <2>4. \A t \in Solicitudes : Devuelta(t)' => Devuelta(t)
    BY <2>2, <2>3 DEF Devuelta
  <2>5. QED
    BY <1>1, <2>4, FinUnica
<1>7. QED
  BY <1>5, <1>6

\* The first sending of a request that was only requested until then.
LEMMA ProcesarUnica ==
  ASSUME IInv, Unicas, NEW h \in Hilos, Procesar(h)
  PROVE  Unicas'
<1>0. PICK s : s = hilo[h].s
  OBVIOUS
<1> USE <1>0
<1> DEFINE m == IF hilo[h].paso = "manual" THEN "manual" ELSE "mp"
           z == IF hilo[h].paso = "mercado_pago" /\ Vigente(h)
                THEN [hilo[h] EXCEPT !.paso = "enviar", !.version = hilo[h].version + 1] ELSE Libre
<1>1. /\ hilo[h].paso \in {"manual", "mercado_pago"} /\ Mover(h, "processing", m)
      /\ hilo' = [hilo EXCEPT ![h] = z] /\ reenvios' = reenvios /\ mp' = mp /\ vuelo' = vuelo
  BY DEF Procesar
<1>2. s \in Solicitudes /\ Tipos /\ EsLlamada(hilo[h])
  BY <1>1 DEF IInv, Tipos, Saben, Sabe
<1>3. FilaCierta(s) /\ (Vigente(h) => solicitud[s].estado = "requested")
  BY <1>1, <1>2 DEF IInv, Ciertas, Saben, Sabe, DELEIDA
<1>4. \A t \in Solicitudes : solicitud'[t] = solicitud[t] \/ solicitud'[t].estado = "processing"
  <2>1. "processing" \in ESTADOS /\ m \in MECANISMOS
    BY DEF ESTADOS, MECANISMOS
  <2>2. QED
    BY ONLY <1>0, <1>1, <1>2, <2>1, h \in Hilos, MoverCampos
<1>5. \A t \in Solicitudes : Devuelta(t)' => Devuelta(t)
  BY <1>4 DEF Devuelta
<1>6. CASE hilo[h].paso = "mercado_pago" /\ Vigente(h)
  <2>1. z.s = s /\ z.paso = "enviar"
    <3> DEFINE x == [paso |-> "enviar", s |-> hilo[h].s, version |-> hilo[h].version + 1, resp |-> hilo[h].resp,
                     monto |-> hilo[h].monto, toma |-> hilo[h].toma, vistas |-> hilo[h].vistas]
    <3>1. [hilo[h] EXCEPT !.paso = "enviar", !.version = hilo[h].version + 1] = x
      BY ONLY <1>2, SigueEnviando
    <3>2. x.s = hilo[h].s /\ x.paso = "enviar"
      OBVIOUS
    <3> HIDE DEF x
    <3>3. QED
      BY <1>6, <3>1, <3>2
  <2> HIDE DEF z
  <2>2. hilo'[h] = z /\ \A g \in Hilos : g # h => hilo'[g] = hilo[g]
    BY <1>1 DEF IInv, Tipos
  <2>3. solicitud[s].mec # "mp"
    BY <1>3, <1>6 DEF FilaCierta
  <2>4. Limpia(s)' /\ \A g \in Hilos : ~Pendiente(g, s)
    BY <1>1, <1>3, <2>3 DEF FilaCierta, Limpia, Pendiente, IInv, Saben, Sabe, CONMP
  <2>5. ~Devuelta(s)'
    BY <1>2, <1>3, <1>5, <1>6 DEF Devuelta
  <2>6. Unica(s)'
    <3>1. \A g \in Hilos : Pendiente(g, s)' => g = h
      BY <2>2, <2>4 DEF Pendiente
    <3>2. QED
      BY <2>4, <2>5, <3>1 DEF Unica
  <2>7. ASSUME NEW t \in Solicitudes, t # s PROVE Unica(t)'
    <3>1. \A g \in Hilos : Pendiente(g, t)' => hilo'[g] = hilo[g]
      BY <2>1, <2>2, <2>7 DEF Pendiente
    <3>2. Unica(t) /\ (Limpia(t) => Limpia(t)') /\ (Devuelta(t)' => Devuelta(t))
      BY <1>1, <1>5 DEF Unicas, Limpia
    <3>3. QED
      BY <1>1, <3>1, <3>2, SigueUnica
  <2>8. QED
    BY <1>1, <2>6, <2>7 DEF Unicas
<1>7. CASE ~(hilo[h].paso = "mercado_pago" /\ Vigente(h))
  BY <1>1, <1>5, <1>7, FinUnica
<1>8. QED
  BY <1>6, <1>7

\* A new request has nothing to give back.
LEMMA SolicitarUnica ==
  ASSUME IInv, Unicas, NEW h \in Hilos, SolicitarLee(h) \/ SolicitarEscribe(h)
  PROVE  Unicas'
<1>1. CASE SolicitarLee(h)
  <2>1. /\ hilo' = [hilo EXCEPT ![h] = [Libre EXCEPT !.paso = "solicitar", !.monto = Disponible,
                                                      !.toma = Libres, !.vistas = Creadas]]
        /\ solicitud' = solicitud /\ reenvios' = reenvios /\ mp' = mp /\ vuelo' = vuelo
    BY <1>1 DEF SolicitarLee
  <2>2. [Libre EXCEPT !.paso = "solicitar", !.monto = Disponible, !.toma = Libres, !.vistas = Creadas].paso = "solicitar"
    BY DEF Libre
  <2>3. \A g \in Hilos : hilo'[g] = hilo[g] \/ hilo'[g].paso = "solicitar"
    BY <2>1, <2>2 DEF IInv, Tipos
  <2>4. \A s \in Solicitudes : Limpia(s) => Limpia(s)'
    BY <2>1 DEF Limpia
  <2>5. QED
    BY <2>1, <2>3, <2>4, QuietoUnica
<1>2. CASE SolicitarEscribe(h)
  <2>1. /\ hilo' = [hilo EXCEPT ![h] = Libre] /\ reenvios' = reenvios /\ mp' = mp /\ vuelo' = vuelo
        /\ \/ solicitud' = solicitud
           \/ \E r : solicitud' = [solicitud EXCEPT ![Cardinality(Creadas) + 1] =
                [estado |-> "requested", mec |-> "no", ids |-> FALSE, version |-> 1, monto |-> r]]
    BY <1>2 DEF SolicitarEscribe
  <2>2. \A t \in Solicitudes : solicitud'[t] = solicitud[t] \/ solicitud'[t].estado = "requested"
    <3>1. CASE solicitud' = solicitud
      BY <3>1
    <3>2. CASE solicitud' # solicitud
      <4> DEFINE f(r) == [estado |-> "requested", mec |-> "no", ids |-> FALSE, version |-> 1, monto |-> r]
      <4>1. PICK r : solicitud' = [solicitud EXCEPT ![Cardinality(Creadas) + 1] = f(r)]
        BY <2>1, <3>2
      <4>2. f(r).estado = "requested"
        OBVIOUS
      <4> HIDE DEF f
      <4>3. \A t \in Solicitudes : solicitud'[t] = solicitud[t] \/ solicitud'[t] = f(r)
        BY <4>1 DEF IInv, Tipos
      <4>4. QED
        BY <4>2, <4>3
    <3>3. QED
      BY <3>1, <3>2
  <2>3. \A t \in Solicitudes : Devuelta(t)' => Devuelta(t)
    BY <2>2 DEF Devuelta
  <2>4. QED
    BY <2>1, <2>3, FinUnica
<1>3. QED
  BY <1>1, <1>2

\* What Mercado Pago does on its own it does to what it has or is about to get.
LEMMA MPSoloUnica ==
  ASSUME IInv, Unicas, NEW s \in Solicitudes, LlegaTarde(s) \/ \E fin \in {"acreditada", "fallida"} : MPTermina(s, fin)
  PROVE  Unicas'
<1>1. /\ solicitud' = solicitud /\ reenvios' = reenvios /\ hilo' = hilo /\ vuelo' \subseteq vuelo
      /\ s \in vuelo \/ mp[s] = "en_curso"
      /\ \A t \in Solicitudes : t # s => mp'[t] = mp[t]
  BY DEF LlegaTarde, MPTermina, IInv, Tipos
<1>2. \A t \in Solicitudes : Limpia(t) => Limpia(t)'
  BY <1>1 DEF Limpia
<1>3. QED
  BY <1>1, <1>2, QuietoUnica

\* A step of a call or of Mercado Pago keeps each request's only sending.
LEMMA UnicasPaso == IInv /\ Unicas /\ [Next]_vars => Unicas'
<1> SUFFICES ASSUME IInv, Unicas, [Next]_vars PROVE Unicas'
  OBVIOUS
<1>1. ASSUME hilo' = hilo, solicitud' = solicitud, mp' = mp, vuelo' = vuelo, reenvios' = reenvios PROVE Unicas'
  BY <1>1, QuietoUnica DEF Limpia
<1>2. CASE UNCHANGED vars
  BY <1>1, <1>2 DEF vars
<1>3. ASSUME NEW o \in Obligaciones, (\E r, t \in BOOLEAN : Aprobar(o, r, t)) \/ DebitarTarifa(o) \/ Revertir(o) \/ LiberarRetencion(o)
      PROVE  Unicas'
  BY <1>1, <1>3 DEF Aprobar, DebitarTarifa, Revertir, LiberarRetencion
<1>4. ASSUME NEW k \in Ajustes, Ajustar(k) PROVE Unicas'
  BY <1>1, <1>4 DEF Ajustar
<1>5. ASSUME NEW h \in Hilos, Consultar(h) PROVE Unicas'
  <2>1. PICK q : /\ hilo' = [hilo EXCEPT ![h].paso = "consulto", ![h].resp = q] /\ Tipos
                 /\ solicitud' = solicitud /\ mp' = mp /\ vuelo' = vuelo /\ reenvios' = reenvios
    BY <1>5 DEF Consultar, IInv
  <2>2. \A g \in Hilos : hilo'[g] = hilo[g] \/ hilo'[g].paso = "consulto"
    BY <2>1, RespondeCampos
  <2>3. \A s \in Solicitudes : Limpia(s) => Limpia(s)'
    BY <2>1 DEF Limpia
  <2>4. QED
    BY <2>1, <2>2, <2>3, QuietoUnica
<1>6. CASE Next
  BY <1>3, <1>4, <1>5, <1>6, SolicitarUnica, LeerUnica, ResolverUnica, ProcesarUnica, EnviarUnica,
     RegistrarUnica, AplicarUnica, MPSoloUnica DEF Next
<1>7. QED
  BY <1>2, <1>6

\* What the two invariants say of the money.
LEMMA SaleOVuelve == IInv /\ Unicas => SaleOVuelveSalvoReenvio
<1> SUFFICES ASSUME IInv, Unicas, NEW s \in Solicitudes
    PROVE  /\ solicitud[s].estado = "cancelled" => mp[s] = "no" /\ s \notin vuelo
           /\ solicitud[s].estado = "failed" /\ mp[s] \in {"en_curso", "acreditada"} =>
                reenvios[s] > 0 /\ ~solicitud[s].ids
           /\ solicitud[s].estado = "paid" /\ solicitud[s].mec = "mp" => mp[s] = "acreditada"
  BY DEF SaleOVuelveSalvoReenvio
<1>1. FilaCierta(s) /\ Unica(s) /\ reenvios[s] \in Nat /\ solicitud[s].ids \in BOOLEAN
  BY DEF IInv, Tipos, EsFila, Ciertas, Unicas
<1>2. reenvios[s] = 0 /\ Devuelta(s) => Limpia(s)
  BY <1>1 DEF Unica
<1>3. QED
  BY <1>1, <1>2 DEF FilaCierta, Devuelta, Limpia

\* Without a resend, money never goes back to the provider while it left or may leave through
\* Mercado Pago, and it is paid through it only if it was accredited: for any number of
\* requests, calls and resends, in any order of answers, refusals (final or not), late arrivals,
\* crashes, refreshes and notifications.
THEOREM SoloUnReenvioSaleYVuelve == Spec => []SaleOVuelveSalvoReenvio
<1>1. Init => Unicas
  <2> SUFFICES ASSUME Init PROVE Unicas
    OBVIOUS
  <2>1. \A h \in Hilos : hilo[h].paso = "libre"
    BY LibreTipo DEF Init
  <2>2. \A s \in Solicitudes : ~Devuelta(s)
    BY DEF Init, SinSolicitud, Devuelta
  <2>3. reenvios \in [Solicitudes -> Nat]
    BY DEF Init
  <2>4. QED
    BY <2>1, <2>2, <2>3 DEF Unicas, Unica, Manda, Pendiente, Rechazada
<1>2. QED
  BY <1>1, Invariante, UnicasPaso, SaleOVuelve, PTL DEF Spec
----------------------------------------------------------------------------
(* The amounts.  What a call that asks for a payout saw of the ledger stays *)
(* true while no other request is made (Foto), and the sums of the ledger   *)
(* follow from what each request took (Cuentas).                            *)

FILA == [estado : ESTADOS, mec : MECANISMOS, ids : BOOLEAN, version : Nat, monto : Int]
LLAMADA == [paso : {"libre", "solicitar", "respondio", "consulto"} \cup PASOS, s : Solicitudes \cup {0}, version : Nat,
            resp : {"no", "ids", "rechazo", "duda", "paid", "failed", "sigue"},
            monto : Int, toma : SUBSET Debidos, vistas : SUBSET Solicitudes]

FilasBien == solicitud \in [Solicitudes -> FILA]
LlamadasBien ==
  /\ hilo \in [Hilos -> LLAMADA]
  /\ \A h \in Hilos : hilo[h].paso \notin {"libre", "solicitar"} => hilo[h].s \in Solicitudes
LibroBien ==
  /\ libro \subseteq Debidos \cup DeSolicitud
  /\ retenidas \subseteq Obligaciones
  /\ item \in [Solicitudes -> SUBSET Debidos]
EnviosBien == mp \in [Solicitudes -> MP] /\ vuelo \subseteq Solicitudes

\* The movements of each request.
Asientos ==
  \A s \in Solicitudes :
    /\ <<"payout_reserve", s>> \in libro <=> solicitud[s].estado # "no"
    /\ <<"payout_completed", s>> \in libro <=> solicitud[s].estado = "paid"
    /\ <<"payout_release", s>> \in libro <=> solicitud[s].estado \in {"failed", "cancelled"}

VIVAS == {"requested", "processing", "paid"}
Vivas == {s \in Solicitudes : solicitud[s].estado \in VIVAS}

\* What each request took, and fees and reversals come after their earning.
Cuentas ==
  /\ \A s \in Solicitudes : IF s \in Vivas THEN solicitud[s].monto = Suma(Importe, item[s]) ELSE item[s] = {}
  /\ \A s \in Solicitudes : \A m \in item[s] : m \in libro /\ ~Retenido(m)
  /\ \A s, t \in Solicitudes : s # t => item[s] \cap item[t] = {}
  /\ \A s, t \in Abiertas : s = t
  /\ \A o \in Obligaciones : <<"earning", o>> \notin libro => <<"fee", o>> \notin libro /\ <<"reversal", o>> \notin libro

Foto(h) ==
  hilo[h].paso = "solicitar" =>
    /\ \A m \in hilo[h].toma : m \in libro /\ ~Retenido(m)
    /\ hilo[h].monto = Suma(Importe, hilo[h].toma)
    /\ hilo[h].vistas \subseteq Creadas
    /\ Creadas = hilo[h].vistas => Abiertas = {} /\ \A s \in Solicitudes : hilo[h].toma \cap item[s] = {}

CuentasInv ==
  /\ FilasBien /\ LlamadasBien /\ LibroBien /\ EnviosBien
  /\ Asientos /\ Contiguas /\ Cuentas
  /\ \A h \in Hilos : Foto(h)
----------------------------------------------------------------------------
(* The sums.                                                               *)

\* The movements a payout may take are finitely many ...
LEMMA DebidosFinitos == IsFiniteSet(Debidos)
<1>1. IsFiniteSet({"earning"} \cup {"fee"} \cup {"reversal"}) /\ IsFiniteSet({"adjustment"})
  BY FS_Singleton, FS_Union
<1>2. {"earning"} \cup {"fee"} \cup {"reversal"} = {"earning", "fee", "reversal"}
  OBVIOUS
<1>3. IsFiniteSet({"earning", "fee", "reversal"} \X Obligaciones) /\ IsFiniteSet({"adjustment"} \X Ajustes)
  BY <1>1, <1>2, FS_Product, GananciasAssumption
<1>4. QED
  BY <1>3, FS_Union DEF Debidos

\* ... and so are the requests.
LEMMA SolicitudesFinitas == IsFiniteSet(Solicitudes)
BY FS_Interval, GananciasAssumption DEF Solicitudes

\* Movements add up to an integer.
LEMMA SumaDebidos == ASSUME NEW S \in SUBSET Debidos PROVE IsFiniteSet(S) /\ (\A m \in S : Importe[m] \in Int) /\ Suma(Importe, S) \in Int
<1>1. IsFiniteSet(S) /\ \A m \in S : Importe[m] \in Int
  BY DebidosFinitos, FS_Subset, GananciasAssumption
<1>2. QED
  BY <1>1, SumaTipo

\* What the requests open or paid say is the sum of what they took.
LEMMA SumaDeVivas ==
  ASSUME FilasBien, LibroBien, Cuentas
  PROVE  Suma([s \in Solicitudes |-> solicitud[s].monto], Vivas) = Suma(Importe, Tomados)
<1> DEFINE f == [s \in Solicitudes |-> solicitud[s].monto]
           P == {X \in SUBSET Vivas : Suma(f, X) = Suma(Importe, UNION {item[s] : s \in X})}
<1>1. Vivas \subseteq Solicitudes /\ IsFiniteSet(Vivas)
  BY SolicitudesFinitas, FS_Subset DEF Vivas
<1>2. ASSUME NEW s \in Vivas PROVE f[s] = Suma(Importe, item[s]) /\ f[s] \in Int /\ item[s] \in SUBSET Debidos
  BY <1>1, <1>2 DEF Cuentas, FilasBien, FILA, LibroBien
<1> HIDE DEF f
<1>3. {} \in P
  <2>1. UNION {item[s] : s \in {}} = {}
    OBVIOUS
  <2>2. Suma(f, {}) = 0 /\ Suma(Importe, {}) = 0
    BY SumaVacia
  <2>3. QED
    BY <2>1, <2>2
<1>4. ASSUME NEW X \in SUBSET Vivas, X # {}, \A x \in X : X \ {x} \in P PROVE X \in P
  <2>1. PICK x : x \in X
    BY <1>4
  <2> DEFINE R == UNION {item[s] : s \in X \ {x}}
  <2>2. x \in Vivas /\ x \in Solicitudes /\ IsFiniteSet(X) /\ \A y \in X : f[y] \in Int
    BY <1>1, <1>2, <2>1, FS_Subset
  <2>3. Suma(f, X) = f[x] + Suma(f, X \ {x})
    BY <2>1, <2>2, SumaQuitar
  <2>4. Suma(f, X \ {x}) = Suma(Importe, R)
    BY <1>4, <2>1
  <2>5. R \in SUBSET Debidos /\ item[x] \in SUBSET Debidos
    BY <1>2, <2>2
  <2>6. item[x] \cap R = {}
    BY <1>1, <2>2 DEF Cuentas
  <2>7. UNION {item[s] : s \in X} = item[x] \cup R
    BY <2>1
  <2> HIDE DEF R
  <2>8. IsFiniteSet(item[x]) /\ IsFiniteSet(R) /\ \A m \in item[x] \cup R : Importe[m] \in Int
    BY <2>5, SumaDebidos
  <2>9. Suma(Importe, item[x] \cup R) = Suma(Importe, item[x]) + Suma(Importe, R)
    BY <2>6, <2>8, SumaUnion
  <2>10. Suma(f, X) = Suma(Importe, item[x] \cup R)
    BY <1>2, <2>2, <2>3, <2>4, <2>9
  <2>11. Suma(f, X) = Suma(Importe, UNION {item[s] : s \in X})
    BY <2>7, <2>10, Zenon
  <2>12. QED
    BY <2>11
<1> HIDE DEF P
<1>5. \A X \in SUBSET Vivas : X \in P
  BY <1>1, <1>3, <1>4, InduccionFinita
<1>6. Suma(f, Vivas) = Suma(Importe, UNION {item[s] : s \in Vivas})
  BY <1>5 DEF P
<1>7. UNION {item[s] : s \in Vivas} = Tomados
  BY <1>1 DEF Cuentas, Tomados
<1>8. Suma(f, Vivas) = Suma(Importe, Tomados)
  BY <1>6, <1>7, Zenon
<1>9. QED
  BY <1>8 DEF f

\* calcularSaldo agrees with the movements a request would take.
LEMMA DisponibleEsLibres ==
  ASSUME FilasBien, LibroBien, Asientos, Cuentas
  PROVE  Disponible = Suma(Importe, Libres) /\ Disponible \in Int
<1> DEFINE f == [s \in Solicitudes |-> solicitud[s].monto]
           D == {m \in libro \cap Debidos : ~Retenido(m)}
           R == {s \in Solicitudes : <<"payout_reserve", s>> \in libro}
           L == {s \in Solicitudes : <<"payout_release", s>> \in libro}
<1>1. Disponible = Suma(Importe, D) - Suma(f, R) + Suma(f, L)
  BY DEF Disponible, Montos
<1>2. Vivas \cup L = R /\ Vivas \cap L = {}
  <2>1. ASSUME NEW s \in Solicitudes
        PROVE  (s \in Vivas \cup L <=> s \in R) /\ ~(s \in Vivas /\ s \in L)
    BY DEF Asientos, Vivas, VIVAS, FilasBien, FILA, ESTADOS
  <2>2. QED
    BY <2>1 DEF Vivas
<1>3. Tomados \subseteq D /\ Libres = D \ Tomados /\ D \in SUBSET Debidos
  BY DEF Cuentas, Tomados, Libres, LibroBien
<1>4. IsFiniteSet(Vivas) /\ IsFiniteSet(L) /\ IsFiniteSet(R) /\ Vivas \subseteq Solicitudes /\ L \subseteq Solicitudes
  BY SolicitudesFinitas, FS_Subset DEF Vivas
<1>5. \A s \in Solicitudes : f[s] \in Int
  BY DEF FilasBien, FILA
<1>6. Suma(f, Vivas) = Suma(Importe, Tomados)
  BY SumaDeVivas
<1> HIDE DEF f, D, R, L
<1>7. Suma(f, Vivas \cup L) = Suma(f, Vivas) + Suma(f, L)
  BY <1>2, <1>4, <1>5, SumaUnion
<1>8. Suma(f, R) = Suma(f, Vivas \cup L)
  BY <1>2, Zenon
<1>9. Tomados \in SUBSET Debidos /\ Libres \in SUBSET Debidos /\ Tomados \cap Libres = {}
  BY <1>3
<1>10. /\ IsFiniteSet(Tomados) /\ IsFiniteSet(Libres)
       /\ Suma(Importe, Tomados) \in Int /\ Suma(Importe, Libres) \in Int
       /\ \A m \in Tomados \cup Libres : Importe[m] \in Int
  BY <1>9, SumaDebidos
<1>11. Suma(Importe, Tomados \cup Libres) = Suma(Importe, Tomados) + Suma(Importe, Libres)
  BY <1>9, <1>10, SumaUnion
<1>12. D = Tomados \cup Libres
  BY <1>3
<1>13. Suma(Importe, D) = Suma(Importe, Tomados \cup Libres)
  BY <1>12, Zenon
<1>14. Suma(f, L) \in Int /\ Suma(f, Vivas) \in Int
  BY <1>4, <1>5, SumaTipo
<1>15. QED
  BY <1>1, <1>6, <1>7, <1>8, <1>10, <1>11, <1>13, <1>14
----------------------------------------------------------------------------
(* Every action keeps the accounts.                                        *)

\* The types of the accounts are those of the calls, for the lemmas above.
LEMMA CuentasConTipos ==
  ASSUME FilasBien, LlamadasBien
  PROVE  /\ solicitud = [s \in Solicitudes |-> solicitud[s]] /\ \A s \in Solicitudes : EsFila(solicitud[s])
         /\ hilo = [h \in Hilos |-> hilo[h]] /\ \A h \in Hilos : EsLlamada(hilo[h])
<1>1. \A r \in FILA : EsFila(r)
  BY DEF FILA, EsFila
<1>2. \A x \in LLAMADA : EsLlamada(x)
  BY DEF LLAMADA, EsLlamada
<1>3. QED
  BY <1>1, <1>2 DEF FilasBien, LlamadasBien

\* A step of the calls and of Mercado Pago: no amount, no state of a request, no movement.
LEMMA SinMovimiento ==
  ASSUME CuentasInv, FilasBien', LlamadasBien', EnviosBien', UNCHANGED <<libro, retenidas, item>>,
         \A s \in Solicitudes : solicitud'[s].estado = solicitud[s].estado /\ solicitud'[s].monto = solicitud[s].monto,
         \A h \in Hilos : hilo'[h] = hilo[h] \/ hilo'[h].paso # "solicitar"
  PROVE  CuentasInv'
<1>1. Creadas' = Creadas /\ Abiertas' = Abiertas /\ Vivas' = Vivas
  BY DEF Creadas, Abiertas, Vivas
<1>2. LibroBien'
  BY DEF CuentasInv, LibroBien
<1>3. Asientos'
  BY DEF CuentasInv, Asientos
<1>4. Cuentas'
  BY <1>1 DEF CuentasInv, Cuentas, Retenido, Vivas
<1>5. \A h \in Hilos : Foto(h)'
  BY <1>1 DEF CuentasInv, Foto, Retenido
<1>6. Contiguas'
  BY <1>1 DEF CuentasInv, Contiguas
<1>7. QED
  BY <1>2, <1>3, <1>4, <1>5, <1>6 DEF CuentasInv

\* The finance service books a movement that is owed; nothing booked becomes held.
LEMMA MovimientoPaso ==
  ASSUME CuentasInv, UNCHANGED <<solicitud, item, mp, vuelo, hilo>>,
         libro \subseteq libro', libro' \ libro \subseteq Debidos, retenidas' \subseteq Obligaciones,
         \A m \in libro \cap Debidos : ~Retenido(m) => ~Retenido(m)',
         \A o \in Obligaciones : <<"earning", o>> \notin libro' => <<"fee", o>> \notin libro' /\ <<"reversal", o>> \notin libro'
  PROVE  CuentasInv'
<1>1. Creadas' = Creadas /\ Abiertas' = Abiertas /\ Vivas' = Vivas
  BY DEF Creadas, Abiertas, Vivas
<1>2. LibroBien'
  BY DEF CuentasInv, LibroBien
<1>3. \A s \in Solicitudes, t \in {"payout_reserve", "payout_completed", "payout_release"} : <<t, s>> \notin Debidos
  BY DEF Debidos
<1>4. Asientos'
  BY <1>3 DEF CuentasInv, Asientos
<1>5. \A m \in libro \cap Debidos : ~Retenido(m) => m \in libro' /\ ~Retenido(m)'
  OBVIOUS
<1>6. Cuentas'
  <2>1. \A s \in Solicitudes : \A m \in item[s] : m \in libro' /\ ~Retenido(m)'
    BY <1>5 DEF CuentasInv, Cuentas, LibroBien
  <2>2. QED
    BY <1>1, <2>1 DEF CuentasInv, Cuentas, Vivas, Retenido
<1>7. ASSUME NEW h \in Hilos PROVE Foto(h)'
  <2>1. hilo[h].toma \subseteq Debidos
    BY DEF CuentasInv, LlamadasBien, LLAMADA
  <2>2. Foto(h) /\ hilo'[h] = hilo[h] /\ item' = item
    BY DEF CuentasInv
  <2>3. QED
    BY <1>1, <1>5, <2>1, <2>2 DEF Foto, Retenido
<1>8. Contiguas' /\ FilasBien' /\ LlamadasBien' /\ EnviosBien'
  BY <1>1 DEF CuentasInv, Contiguas, FilasBien, LlamadasBien, EnviosBien
<1>9. QED
  BY <1>2, <1>4, <1>6, <1>7, <1>8 DEF CuentasInv

\* A movement that is no adjustment is of a payment.
LEMMA DeUnaObligacion ==
  ASSUME NEW m \in Debidos, m[1] # "adjustment"
  PROVE  /\ m[2] \in Obligaciones
         /\ m \in {<<"earning", m[2]>>, <<"fee", m[2]>>, <<"reversal", m[2]>>}
BY DEF Debidos

\* What finance books or stops holding was not in the ledger or was held: no request took it.
LEMMA FinanzasPaso ==
  ASSUME CuentasInv,
         \/ \E o \in Obligaciones : \/ \E r, t \in BOOLEAN : Aprobar(o, r, t)
                                    \/ DebitarTarifa(o) \/ Revertir(o) \/ LiberarRetencion(o)
         \/ \E k \in Ajustes : Ajustar(k)
  PROVE  CuentasInv'
<1>1. /\ \A o \in Obligaciones : <<"earning", o>> \notin libro => <<"fee", o>> \notin libro /\ <<"reversal", o>> \notin libro
      /\ retenidas \subseteq Obligaciones
  BY DEF CuentasInv, Cuentas, LibroBien
<1>2. \A o \in Obligaciones : {<<"earning", o>>, <<"fee", o>>, <<"reversal", o>>} \subseteq Debidos
  BY DEF Debidos
<1>3. ASSUME NEW o \in Obligaciones, NEW r \in BOOLEAN, NEW t \in BOOLEAN, Aprobar(o, r, t) PROVE CuentasInv'
  <2>1. /\ <<"earning", o>> \notin libro /\ UNCHANGED <<solicitud, item, mp, vuelo, hilo>>
        /\ libro' = libro \cup {<<"earning", o>>} \cup (IF t THEN {<<"fee", o>>} ELSE {})
        /\ retenidas' = IF r THEN retenidas \cup {o} ELSE retenidas
    BY <1>3 DEF Aprobar
  <2>2. libro \subseteq libro' /\ libro' \ libro \subseteq Debidos /\ retenidas' \subseteq Obligaciones
    BY <1>1, <1>2, <2>1
  <2>3. ASSUME NEW m \in libro \cap Debidos, ~Retenido(m) PROVE ~Retenido(m)'
    <3>1. m[1] # "adjustment" => m[2] # o
      BY <1>1, <2>1, <2>3, DeUnaObligacion
    <3>2. QED
      BY <2>1, <2>3, <3>1 DEF Retenido
  <2>4. \A p \in Obligaciones : <<"earning", p>> \notin libro' => <<"fee", p>> \notin libro' /\ <<"reversal", p>> \notin libro'
    BY <1>1, <2>1
  <2>5. QED
    BY <2>1, <2>2, <2>3, <2>4, MovimientoPaso
<1>4. ASSUME NEW o \in Obligaciones, DebitarTarifa(o) PROVE CuentasInv'
  <2>1. \A p \in Obligaciones : <<"earning", p>> \notin libro' => <<"fee", p>> \notin libro' /\ <<"reversal", p>> \notin libro'
    BY <1>1, <1>4 DEF DebitarTarifa
  <2>2. QED
    BY <1>1, <1>2, <1>4, <2>1, MovimientoPaso DEF DebitarTarifa, Retenido
<1>5. ASSUME NEW o \in Obligaciones, Revertir(o) PROVE CuentasInv'
  <2>1. \A p \in Obligaciones : <<"earning", p>> \notin libro' => <<"fee", p>> \notin libro' /\ <<"reversal", p>> \notin libro'
    BY <1>1, <1>5 DEF Revertir
  <2>2. QED
    BY <1>1, <1>2, <1>5, <2>1, MovimientoPaso DEF Revertir, Retenido
<1>6. ASSUME NEW o \in Obligaciones, LiberarRetencion(o) PROVE CuentasInv'
  BY <1>1, <1>6, MovimientoPaso DEF LiberarRetencion, Retenido
<1>7. ASSUME NEW k \in Ajustes, Ajustar(k) PROVE CuentasInv'
  <2>1. <<"adjustment", k>> \in Debidos
    BY DEF Debidos
  <2>2. \A p \in Obligaciones : <<"earning", p>> \notin libro' => <<"fee", p>> \notin libro' /\ <<"reversal", p>> \notin libro'
    BY <1>1, <1>7 DEF Ajustar
  <2>3. QED
    BY <1>1, <1>7, <2>1, <2>2, MovimientoPaso DEF Ajustar, Retenido
<1>8. QED
  BY <1>3, <1>4, <1>5, <1>6, <1>7

\* mover along TRANSICIONES: the request lives on with what it took, or gives it all back.
LEMMA MoverUna ==
  ASSUME CuentasInv, LlamadasBien', EnviosBien', NEW s \in Solicitudes, NEW hacia, NEW f \in FILA,
         <<solicitud[s].estado, hacia>> \in TRANSICIONES, f.estado = hacia, f.monto = solicitud[s].monto,
         solicitud' = [solicitud EXCEPT ![s] = f], libro' = libro \cup DeFin(s, hacia),
         item' = (IF hacia \in {"failed", "cancelled"} THEN [item EXCEPT ![s] = {}] ELSE item), retenidas' = retenidas,
         \A h \in Hilos : hilo'[h] = hilo[h] \/ hilo'[h].paso # "solicitar"
  PROVE  CuentasInv'
<1>1. /\ FilasBien' /\ solicitud'[s] = f /\ \A t \in Solicitudes \ {s} : solicitud'[t] = solicitud[t]
  BY DEF CuentasInv, FilasBien
<1>2. /\ solicitud[s].estado \in {"requested", "processing"} /\ hacia \in {"processing", "paid", "failed", "cancelled"}
  BY DEF TRANSICIONES
<1>3. Creadas' = Creadas /\ Abiertas' \subseteq Abiertas
  BY <1>1, <1>2 DEF Creadas, Abiertas
<1>4. /\ item' \in [Solicitudes -> SUBSET Debidos]
      /\ \A t \in Solicitudes \ {s} : item'[t] = item[t]
      /\ item'[s] = IF hacia \in {"failed", "cancelled"} THEN {} ELSE item[s]
  BY DEF CuentasInv, LibroBien
<1>5. DeFin(s, hacia) \subseteq DeSolicitud
  BY DEF DeFin, DeSolicitud
<1>6. LibroBien'
  BY <1>4, <1>5 DEF CuentasInv, LibroBien
<1>7. ASSUME NEW t \in Solicitudes
      PROVE  /\ <<"payout_reserve", t>> \in libro' <=> solicitud'[t].estado # "no"
             /\ <<"payout_completed", t>> \in libro' <=> solicitud'[t].estado = "paid"
             /\ <<"payout_release", t>> \in libro' <=> solicitud'[t].estado \in {"failed", "cancelled"}
  <2>1. /\ <<"payout_reserve", t>> \in libro <=> solicitud[t].estado # "no"
        /\ <<"payout_completed", t>> \in libro <=> solicitud[t].estado = "paid"
        /\ <<"payout_release", t>> \in libro <=> solicitud[t].estado \in {"failed", "cancelled"}
    BY DEF CuentasInv, Asientos
  <2>2. CASE t = s
    BY <1>1, <1>2, <2>1, <2>2 DEF DeFin
  <2>3. CASE t # s
    BY <1>1, <2>1, <2>3 DEF DeFin
  <2>4. QED
    BY <2>2, <2>3
<1>8. libro \subseteq libro' /\ \A t \in Debidos : t \in libro' <=> t \in libro
  BY <1>5 DEF DeSolicitud, Debidos
<1>9. Cuentas'
  <2>1. ASSUME NEW t \in Solicitudes
        PROVE  IF t \in Vivas' THEN solicitud'[t].monto = Suma(Importe, item'[t]) ELSE item'[t] = {}
    <3>1. IF t \in Vivas THEN solicitud[t].monto = Suma(Importe, item[t]) ELSE item[t] = {}
      BY DEF CuentasInv, Cuentas
    <3>2. CASE t = s
      <4>1. s \in Vivas
        BY <1>2 DEF Vivas, VIVAS
      <4>2. s \in Vivas' <=> hacia \notin {"failed", "cancelled"}
        BY <1>1, <1>2 DEF Vivas, VIVAS
      <4>3. QED
        BY <1>1, <1>4, <3>1, <3>2, <4>1, <4>2
    <3>3. CASE t # s
      <4>1. t \in Vivas' <=> t \in Vivas
        BY <1>1, <3>3 DEF Vivas
      <4>2. QED
        BY <1>1, <1>4, <3>1, <3>3, <4>1
    <3>4. QED
      BY <3>2, <3>3
  <2>2. \A t \in Solicitudes : item'[t] \subseteq item[t]
    BY <1>4
  <2>3. \A t \in Solicitudes : \A m \in item'[t] : m \in libro' /\ ~Retenido(m)'
    BY <1>8, <2>2 DEF CuentasInv, Cuentas, Retenido
  <2>4. \A t, u \in Solicitudes : t # u => item'[t] \cap item'[u] = {}
    BY <2>2 DEF CuentasInv, Cuentas
  <2>5. \A t, u \in Abiertas' : t = u
    BY <1>3 DEF CuentasInv, Cuentas
  <2>6. \A o \in Obligaciones : <<"earning", o>> \notin libro' => <<"fee", o>> \notin libro' /\ <<"reversal", o>> \notin libro'
    BY <1>8 DEF CuentasInv, Cuentas, Debidos
  <2>7. QED
    BY <2>1, <2>3, <2>4, <2>5, <2>6 DEF Cuentas
<1>10. ASSUME NEW h \in Hilos PROVE Foto(h)'
  <2>1. CASE hilo'[h].paso # "solicitar"
    BY <2>1 DEF Foto
  <2>2. CASE hilo'[h] = hilo[h]
    <3>1. Foto(h) /\ \A t \in Solicitudes : item'[t] \subseteq item[t]
      BY <1>4 DEF CuentasInv
    <3>2. QED
      BY <1>3, <1>8, <2>2, <3>1 DEF Foto, Retenido
  <2>3. QED
    BY <2>1, <2>2
<1>11. Contiguas'
  BY <1>3 DEF CuentasInv, Contiguas
<1>12. QED
  BY <1>1, <1>6, <1>7, <1>9, <1>10, <1>11 DEF CuentasInv, Asientos

\* mover, whether it writes or not.
LEMMA MoverCuentas ==
  ASSUME CuentasInv, LlamadasBien', EnviosBien', NEW h \in Hilos, hilo[h].s \in Solicitudes, NEW hacia,
         NEW m \in MECANISMOS, Mover(h, hacia, m), retenidas' = retenidas,
         \A g \in Hilos : hilo'[g] = hilo[g] \/ hilo'[g].paso # "solicitar"
  PROVE  CuentasInv'
<1>1. PICK s \in Solicitudes : s = hilo[h].s
  OBVIOUS
<1>2. CASE Vigente(h) /\ <<solicitud[s].estado, hacia>> \in TRANSICIONES
  <2> DEFINE c == solicitud[s]
             f == [estado |-> hacia, mec |-> m, ids |-> c.ids, version |-> c.version + 1, monto |-> c.monto]
  <2>1. /\ libro' = libro \cup DeFin(s, hacia)
        /\ item' = IF hacia \in {"failed", "cancelled"} THEN [item EXCEPT ![s] = {}] ELSE item
        /\ solicitud' = [solicitud EXCEPT ![s].estado = hacia, ![s].version = @ + 1, ![s].mec = m]
    BY <1>1, <1>2 DEF Mover
  <2>2. c \in FILA /\ hacia \in ESTADOS
    BY <1>2 DEF CuentasInv, FilasBien, TRANSICIONES, ESTADOS
  <2>3. f \in FILA /\ f.estado = hacia /\ f.monto = c.monto
    BY <2>2 DEF FILA
  <2>4. solicitud' = [solicitud EXCEPT ![s] = f]
    BY <2>1, <2>2 DEF CuentasInv, FilasBien, FILA
  <2> HIDE DEF f
  <2>5. QED
    BY <1>2, <2>1, <2>3, <2>4, MoverUna
<1>3. CASE ~(Vigente(h) /\ <<solicitud[s].estado, hacia>> \in TRANSICIONES)
  <2>1. UNCHANGED <<solicitud, libro, item>>
    BY <1>1, <1>3 DEF Mover
  <2>2. FilasBien'
    BY <2>1 DEF CuentasInv, FilasBien
  <2>3. QED
    BY <2>1, <2>2, SinMovimiento
<1>4. QED
  BY <1>2, <1>3

\* A call changes for another of its type.
LEMMA UnaLlamadaBien ==
  ASSUME LlamadasBien, NEW h \in Hilos, NEW x \in LLAMADA, x.paso \notin {"libre", "solicitar"} => x.s \in Solicitudes,
         hilo' = [hilo EXCEPT ![h] = x]
  PROVE  /\ LlamadasBien' /\ hilo'[h] = x
         /\ \A g \in Hilos \ {h} : hilo'[g] = hilo[g]
BY DEF LlamadasBien

\* A call that ended is well typed.
LEMMA LibreBien == Libre \in LLAMADA /\ Libre.paso = "libre"
BY DEF Libre, LLAMADA

\* A snapshot is worth what it takes.
LEMMA SolicitarLeeCuentas ==
  ASSUME CuentasInv, NEW h \in Hilos, SolicitarLee(h)
  PROVE  CuentasInv'
<1> DEFINE x == [Libre EXCEPT !.paso = "solicitar", !.monto = Disponible, !.toma = Libres, !.vistas = Creadas]
<1>1. Disponible = Suma(Importe, Libres) /\ Disponible \in Int
  BY DisponibleEsLibres DEF CuentasInv
<1>2. Libres \subseteq Debidos /\ Creadas \subseteq Solicitudes
  BY DEF Libres, Creadas
<1>3. /\ x \in LLAMADA /\ x.paso = "solicitar" /\ x.monto = Disponible /\ x.toma = Libres /\ x.vistas = Creadas
  BY <1>1, <1>2 DEF LLAMADA, Libre
<1>4. /\ hilo' = [hilo EXCEPT ![h] = x] /\ Abiertas = {}
      /\ UNCHANGED <<libro, retenidas, solicitud, item, mp, vuelo>>
  BY DEF SolicitarLee
<1> HIDE DEF x
<1>5. LlamadasBien' /\ hilo'[h] = x /\ \A g \in Hilos \ {h} : hilo'[g] = hilo[g]
  BY <1>3, <1>4, UnaLlamadaBien DEF CuentasInv
<1>6. Creadas' = Creadas /\ Abiertas' = Abiertas /\ Vivas' = Vivas
  BY <1>4 DEF Creadas, Abiertas, Vivas
<1>7. FilasBien' /\ LibroBien' /\ EnviosBien' /\ Asientos' /\ Contiguas'
  BY <1>4, <1>6 DEF CuentasInv, FilasBien, LibroBien, EnviosBien, Asientos, Contiguas
<1>8. Cuentas'
  BY <1>4, <1>6 DEF CuentasInv, Cuentas, Retenido, Vivas
<1>9. ASSUME NEW g \in Hilos PROVE Foto(g)'
  <2>1. CASE g # h
    BY <1>4, <1>5, <1>6, <2>1 DEF CuentasInv, Foto, Retenido
  <2>2. CASE g = h
    <3>1. \A m \in Libres : m \in libro /\ ~Retenido(m)
      BY DEF Libres
    <3>2. \A s \in Solicitudes : Libres \cap item[s] = {}
      BY DEF Libres, Tomados
    <3>3. QED
      BY <1>1, <1>3, <1>4, <1>5, <1>6, <2>2, <3>1, <3>2 DEF Foto, Retenido
  <2>3. QED
    BY <2>1, <2>2
<1>10. QED
  BY <1>5, <1>7, <1>8, <1>9 DEF CuentasInv

\* A request that is made is worth its snapshot, of which nothing was taken meanwhile.
LEMMA SolicitarEscribeCuentas ==
  ASSUME CuentasInv, NEW h \in Hilos, SolicitarEscribe(h)
  PROVE  CuentasInv'
<1>1. hilo' = [hilo EXCEPT ![h] = Libre] /\ UNCHANGED <<retenidas, mp, vuelo>> /\ hilo[h].paso = "solicitar"
  BY DEF SolicitarEscribe
<1>2. LlamadasBien' /\ hilo'[h] = Libre /\ \A g \in Hilos \ {h} : hilo'[g] = hilo[g]
  BY <1>1, LibreBien, UnaLlamadaBien DEF CuentasInv
<1>3. EnviosBien'
  BY <1>1 DEF CuentasInv, EnviosBien
<1>4. CASE ~(SinCambios(hilo[h].vistas) /\ Creadas # Solicitudes)
  <2>1. UNCHANGED <<solicitud, item, libro>>
    BY <1>4 DEF SolicitarEscribe
  <2>2. FilasBien'
    BY <2>1 DEF CuentasInv, FilasBien
  <2>3. QED
    BY <1>1, <1>2, <1>3, <2>1, <2>2, LibreBien, SinMovimiento
<1>5. CASE SinCambios(hilo[h].vistas) /\ Creadas # Solicitudes
  <2>1. PICK n \in 0..MaxSolicitudes : Creadas = 1..n
    BY DEF CuentasInv, Contiguas
  <2>2. Cardinality(Creadas) = n
    BY <2>1, FS_Interval, GananciasAssumption
  <2>3. n + 1 \in Solicitudes /\ n + 1 \notin Creadas
    BY <1>5, <2>1, GananciasAssumption DEF Solicitudes
  <2>4. PICK s \in Solicitudes : s = n + 1
    BY <2>3
  <2> DEFINE f == [estado |-> "requested", mec |-> "no", ids |-> FALSE, version |-> 1, monto |-> hilo[h].monto]
             toma == hilo[h].toma
  <2>5. /\ solicitud' = [solicitud EXCEPT ![s] = f]
        /\ item' = [item EXCEPT ![s] = toma]
        /\ libro' = libro \cup {<<"payout_reserve", s>>}
    BY <1>5, <2>2, <2>4 DEF SolicitarEscribe
  <2>6. hilo[h].monto \in Int /\ toma \subseteq Debidos
    BY DEF CuentasInv, LlamadasBien, LLAMADA
  <2>7. f \in FILA /\ f.estado = "requested" /\ f.monto = hilo[h].monto
    BY <2>6 DEF FILA, ESTADOS, MECANISMOS
  <2>8. /\ \A m \in toma : m \in libro /\ ~Retenido(m)
        /\ hilo[h].monto = Suma(Importe, toma)
        /\ Abiertas = {} /\ \A t \in Solicitudes : toma \cap item[t] = {}
    BY <1>1, <1>5 DEF CuentasInv, Foto, SinCambios
  <2> HIDE DEF f, toma
  <2>9. FilasBien' /\ solicitud'[s] = f /\ \A t \in Solicitudes \ {s} : solicitud'[t] = solicitud[t]
    BY <2>5, <2>7 DEF CuentasInv, FilasBien
  <2>10. item' \in [Solicitudes -> SUBSET Debidos] /\ item'[s] = toma /\ \A t \in Solicitudes \ {s} : item'[t] = item[t]
    BY <2>5, <2>6 DEF CuentasInv, LibroBien
  <2>11. solicitud[s].estado = "no"
    BY <2>3, <2>4 DEF Creadas
  <2>12. Creadas' = Creadas \cup {s} /\ Abiertas' = {s}
    BY <2>7, <2>8, <2>9 DEF Creadas, Abiertas
  <2>13. LibroBien'
    <3>1. <<"payout_reserve", s>> \in DeSolicitud
      BY DEF DeSolicitud
    <3>2. QED
      BY <1>1, <2>5, <2>10, <3>1 DEF CuentasInv, LibroBien
  <2>14. ASSUME NEW t \in Solicitudes
         PROVE  /\ <<"payout_reserve", t>> \in libro' <=> solicitud'[t].estado # "no"
                /\ <<"payout_completed", t>> \in libro' <=> solicitud'[t].estado = "paid"
                /\ <<"payout_release", t>> \in libro' <=> solicitud'[t].estado \in {"failed", "cancelled"}
    <3>1. /\ <<"payout_reserve", t>> \in libro <=> solicitud[t].estado # "no"
          /\ <<"payout_completed", t>> \in libro <=> solicitud[t].estado = "paid"
          /\ <<"payout_release", t>> \in libro <=> solicitud[t].estado \in {"failed", "cancelled"}
      BY DEF CuentasInv, Asientos
    <3>2. CASE t = s
      BY <2>5, <2>7, <2>9, <2>11, <3>1, <3>2
    <3>3. CASE t # s
      BY <2>5, <2>9, <3>1, <3>3
    <3>4. QED
      BY <3>2, <3>3
  <2>15. libro \subseteq libro' /\ \A m \in Debidos : m \in libro' <=> m \in libro
    BY <2>5 DEF Debidos
  <2>16. Cuentas'
    <3>1. ASSUME NEW t \in Solicitudes
          PROVE  IF t \in Vivas' THEN solicitud'[t].monto = Suma(Importe, item'[t]) ELSE item'[t] = {}
      <4>1. CASE t = s
        BY <2>7, <2>8, <2>9, <2>10, <4>1 DEF Vivas, VIVAS
      <4>2. CASE t # s
        <5>1. IF t \in Vivas THEN solicitud[t].monto = Suma(Importe, item[t]) ELSE item[t] = {}
          BY DEF CuentasInv, Cuentas
        <5>2. t \in Vivas' <=> t \in Vivas
          BY <2>9, <4>2 DEF Vivas
        <5>3. QED
          BY <2>9, <2>10, <4>2, <5>1, <5>2
      <4>3. QED
        BY <4>1, <4>2
    <3>2. ASSUME NEW t \in Solicitudes, NEW m \in item'[t] PROVE m \in libro' /\ ~Retenido(m)'
      BY <1>1, <2>8, <2>10, <2>15, <3>2 DEF CuentasInv, Cuentas, Retenido
    <3>3. \A t, u \in Solicitudes : t # u => item'[t] \cap item'[u] = {}
      BY <2>8, <2>10 DEF CuentasInv, Cuentas
    <3>4. \A t, u \in Abiertas' : t = u
      BY <2>12
    <3>5. \A o \in Obligaciones : <<"earning", o>> \notin libro' => <<"fee", o>> \notin libro' /\ <<"reversal", o>> \notin libro'
      BY <2>15 DEF CuentasInv, Cuentas, Debidos
    <3>6. QED
      BY <3>1, <3>2, <3>3, <3>4, <3>5 DEF Cuentas
  <2>17. ASSUME NEW g \in Hilos PROVE Foto(g)'
    <3>1. CASE g = h
      BY <1>2, <3>1, LibreBien DEF Foto
    <3>2. CASE g # h
      <4>1. Foto(g) /\ hilo'[g] = hilo[g]
        BY <1>2, <3>2 DEF CuentasInv
      <4>2. hilo[g].vistas \subseteq Creadas => hilo[g].vistas \subseteq Creadas' /\ Creadas' # hilo[g].vistas
        BY <2>3, <2>4, <2>12
      <4>3. QED
        BY <1>1, <2>15, <4>1, <4>2 DEF Foto, Retenido
    <3>3. QED
      BY <3>1, <3>2
  <2>18. Contiguas'
    <3>1. 1..n \cup {s} = 1..s /\ s \in 0..MaxSolicitudes
      BY <2>1, <2>4, GananciasAssumption DEF Solicitudes
    <3>2. QED
      BY <2>1, <2>12, <3>1 DEF Contiguas
  <2>19. QED
    BY <1>2, <1>3, <2>9, <2>13, <2>14, <2>16, <2>17, <2>18 DEF CuentasInv, Asientos
<1>6. QED
  BY <1>4, <1>5

\* Reading a request touches no account.
LEMMA LeerCuentas ==
  ASSUME CuentasInv, NEW h \in Hilos, NEW s \in Solicitudes, NEW paso \in PASOS, Leer(h, s, paso)
  PROVE  CuentasInv'
<1>1. En(paso, s) \in LLAMADA /\ En(paso, s).paso = paso /\ En(paso, s).s = s
  <2>1. solicitud[s].version \in Nat /\ Libre \in LLAMADA
    BY LibreBien DEF CuentasInv, FilasBien, FILA
  <2>2. QED
    BY <2>1 DEF En, LLAMADA
<1>2. LlamadasBien' /\ hilo'[h] = En(paso, s) /\ \A g \in Hilos \ {h} : hilo'[g] = hilo[g]
  BY <1>1, UnaLlamadaBien DEF CuentasInv, Leer
<1>3. UNCHANGED <<libro, retenidas, solicitud, item, mp, vuelo>>
  BY DEF Leer
<1>4. FilasBien' /\ EnviosBien'
  BY <1>3 DEF CuentasInv, FilasBien, EnviosBien
<1>5. QED
  BY <1>1, <1>2, <1>3, <1>4, SinMovimiento DEF PASOS

\* A request that ends without Mercado Pago keeps its movements or gives them all back.
LEMMA ResolverCuentas ==
  ASSUME CuentasInv, NEW h \in Hilos, Resolver(h)
  PROVE  CuentasInv'
<1>1. hilo' = [hilo EXCEPT ![h] = Libre] /\ UNCHANGED <<retenidas, mp, vuelo>>
  BY DEF Resolver
<1>2. LlamadasBien' /\ hilo'[h] = Libre /\ \A g \in Hilos \ {h} : hilo'[g] = hilo[g]
  BY <1>1, LibreBien, UnaLlamadaBien DEF CuentasInv
<1>3. EnviosBien'
  BY <1>1 DEF CuentasInv, EnviosBien
<1>4. hilo[h].s \in Solicitudes
  BY DEF CuentasInv, LlamadasBien, Resolver
<1>5. solicitud[hilo[h].s].mec \in MECANISMOS
  BY <1>4 DEF CuentasInv, FilasBien, FILA
<1>6. \E hacia : Mover(h, hacia, solicitud[hilo[h].s].mec)
  BY DEF Resolver
<1>7. QED
  BY <1>1, <1>2, <1>3, <1>4, <1>5, <1>6, LibreBien, MoverCuentas

\* A request that is processed keeps what it took.
LEMMA ProcesarCuentas ==
  ASSUME CuentasInv, NEW h \in Hilos, Procesar(h)
  PROVE  CuentasInv'
<1> DEFINE c == hilo[h]
           x == IF c.paso = "mercado_pago" /\ Vigente(h)
                THEN [c EXCEPT !.paso = "enviar", !.version = c.version + 1] ELSE Libre
<1>1. c \in LLAMADA /\ c.s \in Solicitudes
  BY DEF CuentasInv, LlamadasBien, Procesar
<1>2. x \in LLAMADA /\ x.paso # "solicitar" /\ (x.paso # "libre" => x.s = c.s)
  <2>1. CASE c.paso = "mercado_pago" /\ Vigente(h)
    <3>1. [c EXCEPT !.paso = "enviar", !.version = c.version + 1] \in LLAMADA
      <4>1. c.version + 1 \in Nat
        BY <1>1 DEF LLAMADA
      <4>2. "enviar" \in {"libre", "solicitar", "respondio", "consulto"} \cup PASOS
        BY DEF PASOS
      <4>3. \A v \in Nat : [c EXCEPT !.paso = "enviar", !.version = v] \in LLAMADA
        BY <1>1, <4>2 DEF LLAMADA
      <4>4. QED
        BY <4>1, <4>3
    <3>2. [c EXCEPT !.paso = "enviar", !.version = c.version + 1].paso = "enviar"
          /\ [c EXCEPT !.paso = "enviar", !.version = c.version + 1].s = c.s
      BY <1>1 DEF LLAMADA
    <3>3. QED
      BY <2>1, <3>1, <3>2
  <2>2. CASE ~(c.paso = "mercado_pago" /\ Vigente(h))
    BY <2>2, LibreBien
  <2>3. QED
    BY <2>1, <2>2
<1>3. hilo' = [hilo EXCEPT ![h] = x] /\ UNCHANGED <<retenidas, mp, vuelo>>
  BY DEF Procesar
<1> HIDE DEF x
<1>4. LlamadasBien' /\ hilo'[h] = x /\ \A g \in Hilos \ {h} : hilo'[g] = hilo[g]
  BY <1>1, <1>2, <1>3, UnaLlamadaBien DEF CuentasInv
<1>5. EnviosBien'
  BY <1>3 DEF CuentasInv, EnviosBien
<1>6. PICK m \in MECANISMOS : Mover(h, "processing", m)
  BY DEF Procesar, MECANISMOS
<1>7. QED
  BY <1>1, <1>2, <1>3, <1>4, <1>5, <1>6, MoverCuentas

\* Mercado Pago answering, or not, touches no account ...
LEMMA MPCuentas ==
  ASSUME CuentasInv, NEW h \in Hilos, MPAcepta(h) \/ MPRechaza(h) \/ MPNoResponde(h) \/ Consultar(h) \/ Caer(h)
  PROVE  CuentasInv'
<1> DEFINE c == hilo[h]
<1>1. c \in LLAMADA /\ (c.paso \notin {"libre", "solicitar"} => c.s \in Solicitudes)
  BY DEF CuentasInv, LlamadasBien
<1>2. PICK x \in LLAMADA : hilo' = [hilo EXCEPT ![h] = x] /\ x.paso # "solicitar" /\ (x.paso # "libre" => x.s \in Solicitudes)
  <2>1. CASE Caer(h)
    BY <2>1, LibreBien DEF Caer
  <2>2. CASE ~Caer(h)
    <3>1. c.paso \in {"enviar", "consultar"}
      BY <2>2 DEF MPAcepta, MPRechaza, MPNoResponde, Consultar
    <3>2. PICK p \in {"respondio", "consulto"}, r \in {"ids", "rechazo", "duda", "paid", "failed", "sigue"} :
            hilo' = [hilo EXCEPT ![h].paso = p, ![h].resp = r]
      BY <2>2 DEF MPAcepta, MPRechaza, MPNoResponde, Consultar
    <3> DEFINE x == [c EXCEPT !.paso = p, !.resp = r]
    <3>3. x \in LLAMADA /\ x.paso = p /\ x.s = c.s
      BY <1>1 DEF LLAMADA
    <3>4. hilo' = [hilo EXCEPT ![h] = x]
      BY <3>2 DEF CuentasInv, LlamadasBien, LLAMADA
    <3> HIDE DEF x
    <3>5. QED
      BY <1>1, <3>1, <3>3, <3>4
  <2>3. QED
    BY <2>1, <2>2
<1>3. LlamadasBien' /\ hilo'[h] = x /\ \A g \in Hilos \ {h} : hilo'[g] = hilo[g]
  BY <1>2, UnaLlamadaBien DEF CuentasInv
<1>4. UNCHANGED <<libro, retenidas, solicitud, item>>
  BY DEF MPAcepta, MPRechaza, MPNoResponde, Consultar, Caer
<1>5. vuelo' \subseteq Solicitudes
  BY <1>1 DEF MPAcepta, MPRechaza, MPNoResponde, Consultar, Caer, CuentasInv, EnviosBien
<1>6. mp' \in [Solicitudes -> MP]
  <2>1. mp \in [Solicitudes -> MP]
    BY DEF CuentasInv, EnviosBien
  <2>2. \/ mp' = mp
        \/ mp' = [mp EXCEPT ![c.s] = IF mp[c.s] = "no" THEN "en_curso" ELSE mp[c.s]]
        \/ mp' = [mp EXCEPT ![c.s] = "rechazada"]
    BY DEF MPAcepta, MPRechaza, MPNoResponde, Consultar, Caer
  <2>3. QED
    BY <2>1, <2>2 DEF MP
<1>7. FilasBien' /\ EnviosBien'
  BY <1>4, <1>5, <1>6 DEF CuentasInv, FilasBien, EnviosBien
<1>8. QED
  BY <1>2, <1>3, <1>4, <1>7, SinMovimiento

\* ... nor does what it does on its own.
LEMMA LlegadasCuentas ==
  ASSUME CuentasInv, NEW s \in Solicitudes, LlegaTarde(s) \/ \E fin \in {"acreditada", "fallida"} : MPTermina(s, fin)
  PROVE  CuentasInv'
<1>1. UNCHANGED <<libro, retenidas, solicitud, item, hilo>> /\ vuelo' \subseteq vuelo
  BY DEF LlegaTarde, MPTermina
<1>2. mp' \in [Solicitudes -> MP]
  BY DEF CuentasInv, EnviosBien, LlegaTarde, MPTermina, MP
<1>3. FilasBien' /\ EnviosBien' /\ LlamadasBien'
  BY <1>1, <1>2 DEF CuentasInv, FilasBien, EnviosBien, LlamadasBien
<1>4. QED
  BY <1>1, <1>3, SinMovimiento

\* The write that follows an answer: an end, or only what is shown of the request.
LEMMA RespuestaCuentas ==
  ASSUME CuentasInv, NEW h \in Hilos, Registrar(h) \/ \E news \in BOOLEAN : Aplicar(h, news)
  PROVE  CuentasInv'
<1> DEFINE s == hilo[h].s
<1>1. hilo' = [hilo EXCEPT ![h] = Libre] /\ UNCHANGED <<retenidas, mp, vuelo>>
  BY DEF Registrar, Aplicar
<1>2. LlamadasBien' /\ hilo'[h] = Libre /\ \A g \in Hilos \ {h} : hilo'[g] = hilo[g]
  BY <1>1, LibreBien, UnaLlamadaBien DEF CuentasInv
<1>3. EnviosBien'
  BY <1>1 DEF CuentasInv, EnviosBien
<1>4. s \in Solicitudes /\ solicitud \in [Solicitudes -> FILA]
  BY DEF CuentasInv, LlamadasBien, FilasBien, Registrar, Aplicar
<1>5. CASE \E hacia : Mover(h, hacia, "mp")
  <2>1. "mp" \in MECANISMOS
    BY DEF MECANISMOS
  <2>2. QED
    BY <1>1, <1>2, <1>3, <1>4, <1>5, <2>1, LibreBien, MoverCuentas
<1>6. CASE ~\E hacia : Mover(h, hacia, "mp")
  <2>1. /\ UNCHANGED <<libro, item>>
        /\ \/ solicitud' = solicitud
           \/ solicitud' = [solicitud EXCEPT ![s].ids = hilo[h].resp = "ids", ![s].version = solicitud[s].version + 1]
           \/ solicitud' = [solicitud EXCEPT ![s].version = solicitud[s].version + 1]
    BY <1>6 DEF Registrar, Aplicar
  <2>2. (hilo[h].resp = "ids") \in BOOLEAN
    OBVIOUS
  <2>3. FilasBien' /\ \A t \in Solicitudes : solicitud'[t].estado = solicitud[t].estado /\ solicitud'[t].monto = solicitud[t].monto
    BY <1>4, <2>1, <2>2 DEF FilasBien, FILA
  <2>4. QED
    BY <1>1, <1>2, <1>3, <2>1, <2>3, LibreBien, SinMovimiento
<1>7. QED
  BY <1>5, <1>6

\* The accounts are right at the start ...
LEMMA CuentasInicio == Init => CuentasInv
<1> SUFFICES ASSUME Init PROVE CuentasInv
  OBVIOUS
<1>1. /\ solicitud = [s \in Solicitudes |-> SinSolicitud] /\ SinSolicitud \in FILA /\ SinSolicitud.estado = "no"
      /\ item = [s \in Solicitudes |-> {}] /\ libro = {} /\ retenidas = {}
  BY DEF Init, SinSolicitud, FILA, ESTADOS, MECANISMOS
<1>2. FilasBien /\ LibroBien /\ Vivas = {} /\ Creadas = {} /\ Abiertas = {}
  BY <1>1 DEF FilasBien, LibroBien, Vivas, VIVAS, Creadas, Abiertas
<1>3. LlamadasBien /\ EnviosBien
  BY LibreBien DEF Init, LlamadasBien, EnviosBien, MP
<1>4. Asientos
  BY <1>1 DEF Asientos
<1>5. Contiguas
  <2>1. Creadas = 1..0 /\ 0 \in 0..MaxSolicitudes
    BY <1>2, GananciasAssumption
  <2>2. QED
    BY <2>1 DEF Contiguas
<1>6. Cuentas
  BY <1>1, <1>2 DEF Cuentas
<1>7. \A h \in Hilos : Foto(h)
  BY LibreBien DEF Init, Foto
<1>8. QED
  BY <1>2, <1>3, <1>4, <1>5, <1>6, <1>7 DEF CuentasInv

\* ... and after every step.
LEMMA CuentasPaso == CuentasInv /\ [Next]_vars => CuentasInv'
<1> SUFFICES ASSUME CuentasInv, [Next]_vars PROVE CuentasInv'
  OBVIOUS
<1>1. CASE UNCHANGED vars
  <2>1. FilasBien' /\ LlamadasBien' /\ EnviosBien'
    BY <1>1 DEF vars, CuentasInv, FilasBien, LlamadasBien, EnviosBien
  <2>2. QED
    BY <1>1, <2>1, SinMovimiento DEF vars
<1>2. CASE Next
  BY <1>2, FinanzasPaso, SolicitarLeeCuentas, SolicitarEscribeCuentas, LeerCuentas, ResolverCuentas,
     ProcesarCuentas, MPCuentas, RespuestaCuentas, LlegadasCuentas DEF Next
<1>3. QED
  BY <1>1, <1>2

\* Every variable of the payouts keeps its type, and the ledger has of each request exactly
\* the movements of its state: reserved once made, completed if paid, released if not.
THEOREM TiposGanancias == Spec => []TypeOK
<1> DEFINE Contados == reenvios \in [Solicitudes -> Nat]
<1>1. CuentasInv /\ Contados => TypeOK
  BY DEF CuentasInv, TypeOK, FilasBien, LibroBien, EnviosBien, Asientos, FILA, MECANISMOS, MP
<1>2. Init => Contados
  BY DEF Init
<1>3. Contados /\ [Next]_vars => Contados'
  <2> SUFFICES ASSUME Contados, [Next]_vars PROVE Contados'
    OBVIOUS
  <2>1. CASE \E h \in Hilos, s \in Solicitudes, paso \in PASOS : Leer(h, s, paso)
    BY <2>1 DEF Leer
  <2>2. CASE ~\E h \in Hilos, s \in Solicitudes, paso \in PASOS : Leer(h, s, paso)
    BY <2>2 DEF Next, vars, Aprobar, DebitarTarifa, Revertir, LiberarRetencion, Ajustar, SolicitarLee,
                SolicitarEscribe, Resolver, Procesar, MPAcepta, MPRechaza, MPNoResponde, Registrar,
                Consultar, Aplicar, Caer, LlegaTarde, MPTermina
  <2>3. QED
    BY <2>1, <2>2
<1>4. QED
  BY <1>1, <1>2, <1>3, CuentasInicio, CuentasPaso, PTL DEF Spec

\* A payout pays exactly the movements it took, and what is left available is the sum of the
\* rest, for any ledger, any amounts and any number of requests and calls, whatever Mercado
\* Pago answers: no earning is paid twice and one request is open at most.
THEOREM CadaPagoLoSuyo == Spec => []ReservaExacta
<1>1. CuentasInv => ReservaExacta
  <2> SUFFICES ASSUME CuentasInv PROVE ReservaExacta
    OBVIOUS
  <2>1. \A s \in Solicitudes : item[s] # {} => solicitud[s].monto = Suma(Importe, item[s])
    BY DEF CuentasInv, Cuentas
  <2>2. \A m \in Tomados : m \in libro /\ ~Retenido(m)
    BY DEF CuentasInv, Cuentas, Tomados
  <2>3. Disponible = Suma(Importe, Libres)
    BY DisponibleEsLibres DEF CuentasInv
  <2>4. Cardinality(Abiertas) <= 1
    <3>1. CASE Abiertas = {}
      BY <3>1, FS_EmptySet
    <3>2. CASE Abiertas # {}
      <4>1. PICK s : Abiertas = {s}
        BY <3>2 DEF CuentasInv, Cuentas
      <4>2. Cardinality({s}) = 1
        BY FS_Singleton
      <4>3. QED
        BY <4>1, <4>2
    <3>3. QED
      BY <3>1, <3>2
  <2>5. \A s, t \in Solicitudes : s # t => item[s] \cap item[t] = {}
    BY DEF CuentasInv, Cuentas
  <2>6. QED
    BY <2>1, <2>2, <2>3, <2>4, <2>5 DEF ReservaExacta
<1>2. QED
  BY <1>1, CuentasInicio, CuentasPaso, PTL DEF Spec
=============================================================================
