--------------------------- MODULE UrgentesProofs ---------------------------
(***************************************************************************)
(* Theorems about one urgent request, for any number of providers, calls,  *)
(* sweeps and reopenings.                                                  *)
(*                                                                         *)
(* The argument: seen through its offers, its row and its work, every step *)
(* is of one of seven kinds (Clases): nothing but offers nobody has        *)
(* changes, its creation answers without closing it, the request is made,  *)
(* its work moves, a provider takes it, the provider gives it back, or it  *)
(* closes while nobody has it.  What each kind keeps is then short.  Three *)
(* facts make the classification true: the states of the row before it     *)
(* exists and after it closed (Fases), the first broadcast that never      *)
(* starts again once it was answered (Respondida), and the lock of an      *)
(* offer whose rejection was written and not committed (Candados).         *)
(***************************************************************************)
EXTENDS Urgentes, TLAPS, FiniteSetTheorems

Sol == [estado : {"no", "abierta", "cerrada"}, asig : {"ninguna", "aceptada", "cancelada"},
        prest : SUBSET Prestadores, reap : Nat]
Trabajo == [estado : {"no", "vivo", "liberado", "cancelado"}, prest : SUBSET Prestadores,
            avances : {"no", "presupuesto", "mensajes"}]
Hilo == [paso : {"libre", "tomar", "rechazar", "escrito", "cerrar"},
         de : SUBSET Prestadores, bien : BOOLEAN]

\* TypeOK without the bound on how often it is given back.
Tipos ==
  /\ sol \in Sol
  /\ resta \in 0..Vigencia
  /\ oferta \in [Prestadores -> ESTADOS_OFERTA]
  /\ trabajo \in Trabajo
  /\ tanda \in [Rondas -> TandaUrgente]
  /\ hilo \in [Pedidos -> Hilo]
  /\ lista \subseteq Barridos
  /\ avisos \in [veces : Nat, sinCerrar : BOOLEAN]
  /\ fallas \in 0..MaxFallas

\* Before it exists there is nothing; closed, nobody has it; told by who closed it, it is
\* closed; told by its creation without closing it, it was taken or is closed.
Fases ==
  /\ sol.estado = "no" => /\ sol.asig = "ninguna" /\ avisos = [veces |-> 0, sinCerrar |-> FALSE]
                          /\ \A p \in Prestadores : oferta[p] = "sin"
                          /\ \A r \in Rondas : tanda[r].fase = "no"
  /\ sol.estado = "cerrada" => SinAsignar
  /\ DelCierre = 0 \/ (DelCierre = 1 /\ sol.estado = "cerrada")
  /\ avisos.sinCerrar => sol.estado = "cerrada" \/ sol.asig # "ninguna"

\* The answer of the creation ends the first broadcast, which never starts again.
Respondida == avisos.sinCerrar => tanda[1].fase = "fin"

\* A rejection that was written holds an offer that still waits, and only one does.
Candados ==
  /\ \A h \in Pedidos : hilo[h].paso = "escrito" =>
       \E p \in Prestadores : hilo[h].de = {p} /\ oferta[p] \in ESPERAN
  /\ \A h, g \in Pedidos :
       hilo[h].paso = "escrito" /\ hilo[g].paso = "escrito" /\ hilo[h].de = hilo[g].de => h = g

\* The row, the offers and the work agree (FilasDeAcuerdo, with its provider named).
Acuerdo ==
  /\ sol.asig = "aceptada" =>
       /\ \E p \in Prestadores : sol.prest = {p} /\ Asignados = {p}
       /\ trabajo.prest = sol.prest /\ trabajo.estado # "no"
  /\ sol.asig # "aceptada" => Asignados = {}
  /\ sol.asig = "cancelada" => /\ trabajo.estado = "liberado" /\ trabajo.prest = sol.prest
                               /\ trabajo.prest \subseteq Renunciaron
  /\ sol.asig = "ninguna" => trabajo.estado = "no"

\* It was given back as often as providers gave it back.
Cuenta == sol.reap = Cardinality(Renunciaron)

IInv == Tipos /\ Fases /\ Respondida /\ Candados /\ Acuerdo /\ Cuenta

----------------------------------------------------------------------------
(* The kinds of steps.                                                     *)

\* Offers that nobody accepted, refused or gave back.
Sueltas == {"sin", "notificada", "no_enviada", "cerrada_por_otro", "vencida"}

Quieta(q) == \/ oferta'[q] = oferta[q]
             \/ oferta[q] \in Sueltas /\ oferta'[q] \in Sueltas \cup {"no_puede"}

OfertasQuietas == \A q \in Prestadores : Quieta(q)

\* ... and before the request exists, no offer and no broadcast.
SinNacer == sol.estado = "no" => oferta' = oferta /\ tanda' = tanda

Nada == sol' = sol /\ trabajo' = trabajo /\ avisos' = avisos /\ OfertasQuietas /\ SinNacer

Nace == /\ sol.estado = "no" /\ sol' = [sol EXCEPT !.estado = "abierta"]
        /\ trabajo' = trabajo /\ avisos' = avisos /\ OfertasQuietas

MueveTrabajo == /\ trabajo.estado = "vivo" /\ trabajo'.estado \in {"vivo", "liberado", "cancelado"}
                /\ trabajo'.prest = trabajo.prest
                /\ UNCHANGED <<sol, oferta, tanda, avisos>>

Toma(p) == /\ Abierta /\ SinAsignar /\ avisos' = avisos
           /\ sol'.estado = sol.estado /\ sol'.asig = "aceptada" /\ sol'.prest = {p} /\ sol'.reap = sol.reap
           /\ trabajo'.estado = "vivo" /\ trabajo'.prest = {p}
           /\ oferta[p] \in OFERTA_TOMABLE /\ oferta'[p] = "acepto"
           /\ \A q \in Prestadores \ {p} : Quieta(q)

Devuelve(p) == /\ Abierta /\ sol.asig = "aceptada" /\ sol.prest = {p} /\ avisos' = avisos
               /\ sol'.estado = sol.estado /\ sol'.asig = "cancelada" /\ sol'.prest = {p}
               /\ sol'.reap = sol.reap + 1
               /\ trabajo'.estado = "liberado" /\ trabajo'.prest = trabajo.prest
               /\ oferta[p] = "acepto" /\ oferta'[p] = "renuncio"
               /\ \A q \in Prestadores \ {p} : oferta'[q] = oferta[q]

Cierra == /\ Abierta /\ SinAsignar
          /\ sol' = [sol EXCEPT !.estado = "cerrada"]
          /\ trabajo' = trabajo /\ OfertasQuietas
          /\ avisos'.sinCerrar = avisos.sinCerrar /\ DelCierre' \in {DelCierre, DelCierre + 1}

Responde == /\ sol.estado # "no" /\ ~SeCierra
            /\ sol' = sol /\ trabajo' = trabajo /\ OfertasQuietas
            /\ DelCierre' = DelCierre

Clase == \/ Nada \/ Responde \/ Nace \/ MueveTrabajo \/ Cierra
         \/ \E p \in Prestadores : Toma(p) \/ Devuelve(p)

\* A closing, whoever tries it.
LEMMA CierreOIgual ==
  ASSUME Tipos, Cerrar, UNCHANGED trabajo, avisos' \in {avisos, DiceCierre},
         sol.estado = "no" => tanda' = tanda
  PROVE  Clase
<1>1. CASE SeCierra
  <2>1. avisos'.sinCerrar = avisos.sinCerrar /\ DelCierre' \in {DelCierre, DelCierre + 1}
    BY <1>1 DEF DiceCierre, Dicho, DelCierre, Tipos
  <2> QED
    BY <1>1, <2>1 DEF Cerrar, SeCierra, Clase, Cierra, Quieta, OfertasQuietas, Tipos, ESPERAN, Sueltas
<1>2. CASE ~SeCierra
  BY <1>2 DEF Cerrar, DiceCierre, Clase, Nada, SinNacer, Quieta, OfertasQuietas
<1> QED BY <1>1, <1>2

\* Every step is of one of the kinds.
LEMMA Clases ==
  ASSUME Tipos, Fases, Respondida, Candados, [Next]_vars
  PROVE  Clase
<1> USE DEF Tipos
<1>1. ASSUME NEW c \in SUBSET Prestadores, Crear(c) PROVE Clase
  BY <1>1 DEF Crear, Fases, Clase, Nace, Quieta, OfertasQuietas, Sueltas
<1>2. ASSUME NEW r \in Rondas, NEW p \in Prestadores, NEW b \in BOOLEAN, Avisar(r, p, b) PROVE Clase
  BY <1>2 DEF Fases, Avisar, AdmiteAviso, ESPERAN, Clase, Nada, SinNacer, Quieta, OfertasQuietas, Sueltas
<1>3. ASSUME NEW r \in Rondas, NEW c \in SUBSET Prestadores, Reofrecer(r, c) PROVE Clase
  BY <1>3 DEF Fases, Reofrecer, Clase, Nada, SinNacer, Quieta, OfertasQuietas, Sueltas
<1>4. ASSUME NEW r \in Rondas, CerrarSinAvisados(r) PROVE Clase
  <2>1. CASE tanda[r].dicho
    BY <1>4, <2>1 DEF Fases, CerrarSinAvisados, Clase, Nada, SinNacer, Quieta, OfertasQuietas
  <2>2. CASE ~tanda[r].dicho
    <3>1. sol.estado # "no"
      BY <1>4 DEF Fases, CerrarSinAvisados
    <3>2. CASE r = 1 /\ ~SeCierra
      <4>1. avisos' = [avisos EXCEPT !.veces = @ + 1, !.sinCerrar = TRUE] /\ ~avisos.sinCerrar
        BY <1>4, <2>2, <3>2 DEF CerrarSinAvisados, RespondeSinCandidatos, Dicho, Respondida
      <4>2. DelCierre' = DelCierre
        BY <4>1 DEF DelCierre
      <4> QED
        BY <1>4, <2>2, <3>1, <3>2, <4>2 DEF CerrarSinAvisados, Cerrar, Clase, Responde, Quieta, OfertasQuietas
    <3>3. CASE r # 1 \/ SeCierra
      <4>1. avisos' = DiceCierre /\ Cerrar /\ UNCHANGED trabajo
        BY <1>4, <2>2, <3>3 DEF CerrarSinAvisados, RespondeSinCandidatos, DiceCierre
      <4> QED BY <3>1, <4>1, CierreOIgual
    <3> QED BY <3>2, <3>3
  <2> QED BY <2>1, <2>2
<1>5. ASSUME NEW r \in Rondas, CerrarPorTope(r) PROVE Clase
  BY <1>5, CierreOIgual DEF Fases, CerrarPorTope
<1>6. ASSUME NEW h \in Pedidos, NEW p \in Prestadores, Tomar(h, p) PROVE Clase
  <2>1. CASE Gana(p, hilo[h].bien)
    <3>1. Toma(p)
      <4>1. sol' = [sol EXCEPT !.asig = "aceptada", !.prest = {p}] /\ avisos' = avisos
        BY <1>6, <2>1 DEF Tomar
      <4>2. sol'.estado = sol.estado /\ sol'.asig = "aceptada" /\ sol'.prest = {p} /\ sol'.reap = sol.reap
        BY <4>1 DEF Sol
      <4>3. trabajo' = [trabajo EXCEPT !.estado = "vivo", !.prest = {p}]
        BY <1>6, <2>1 DEF Tomar
      <4>4. trabajo'.estado = "vivo" /\ trabajo'.prest = {p}
        BY <4>3 DEF Trabajo
      <4>5. oferta' = [q \in Prestadores |->
                         IF q = p THEN "acepto"
                         ELSE IF oferta[q] \in {"notificada", "no_enviada"}
                              THEN "cerrada_por_otro" ELSE oferta[q]]
        BY <1>6, <2>1 DEF Tomar
      <4>6. \A q \in Prestadores \ {p} : Quieta(q)
        BY <4>5 DEF Quieta, Sueltas
      <4>7. Abierta /\ SinAsignar /\ oferta[p] \in OFERTA_TOMABLE
        BY <2>1 DEF Gana
      <4> QED BY <4>1, <4>2, <4>4, <4>5, <4>6, <4>7 DEF Toma
    <3> QED BY <3>1 DEF Clase
  <2>2. CASE ~Gana(p, hilo[h].bien)
    BY <1>6, <2>2 DEF Tomar, Clase, Nada, SinNacer, Quieta, OfertasQuietas
  <2> QED BY <2>1, <2>2
<1>7. ASSUME NEW h \in Pedidos, NEW p \in Prestadores, RechazarConfirma(h, p) PROVE Clase
  <2>1. oferta[p] \in ESPERAN
    BY <1>7 DEF RechazarConfirma, Candados
  <2> QED
    BY <1>7, <2>1 DEF Fases, RechazarConfirma, ESPERAN, Clase, Nada, SinNacer, Quieta, OfertasQuietas, Sueltas
<1>8. ASSUME NEW h \in Pedidos, CerrarPorRechazos(h) PROVE Clase
  BY <1>8, CierreOIgual DEF CerrarPorRechazos
<1>9. ASSUME NEW p \in Prestadores, Renunciar(p) PROVE Clase
  <2>1. Devuelve(p)
    BY <1>9 DEF Renunciar, SePuedeLiberar, Devuelta, Devuelve, Sol, Trabajo
  <2> QED BY <2>1 DEF Clase
<1>10. ASSUME NEW b \in Barridos, CerrarVencida(b) PROVE Clase
  BY <1>10, CierreOIgual DEF CerrarVencida
<1>11. CASE CancelarCliente
  BY <1>11 DEF CancelarCliente, SinAsignar, DelCierre, Clase, Cierra, Quieta, OfertasQuietas
<1>12. ASSUME NEW a \in {"presupuesto", "mensajes"}, AvanzarTrabajo(a) PROVE Clase
  BY <1>12 DEF AvanzarTrabajo, Clase, MueveTrabajo, Trabajo
<1>13. ASSUME NEW c \in {"liberado", "cancelado"}, CancelarTrabajo(c) PROVE Clase
  BY <1>13 DEF CancelarTrabajo, Clase, MueveTrabajo, Trabajo
<1>14. CASE Tick
  BY <1>14 DEF Tick, Clase, Nada, SinNacer, Quieta, OfertasQuietas
<1>15. ASSUME NEW h \in Pedidos, NEW p \in Prestadores,
              PedirTomar(h, p) \/ RechazarLee(h, p) \/ RechazarEscribe(h, p)
       PROVE  Clase
  BY <1>15 DEF PedirTomar, RechazarLee, RechazarEscribe, Clase, Nada, SinNacer, Quieta, OfertasQuietas
<1>16. ASSUME NEW b \in Barridos, ListarVencida(b) \/ CaerBarrido(b) PROVE Clase
  BY <1>16 DEF ListarVencida, CaerBarrido, Clase, Nada, SinNacer, Quieta, OfertasQuietas
<1>17. ASSUME NEW r \in Rondas, CaerTanda(r) PROVE Clase
  BY <1>17 DEF Fases, CaerTanda, Clase, Nada, SinNacer, Quieta, OfertasQuietas
<1>18. ASSUME NEW h \in Pedidos, CaerPedido(h) PROVE Clase
  BY <1>18 DEF CaerPedido, Clase, Nada, SinNacer, Quieta, OfertasQuietas
<1>19. CASE UNCHANGED vars
  BY <1>19 DEF vars, Clase, Nada, SinNacer, Quieta, OfertasQuietas
<1> HIDE DEF Tipos
<1> QED
  BY <1>1, <1>2, <1>3, <1>4, <1>5, <1>6, <1>7, <1>8, <1>9, <1>10, <1>11, <1>12, <1>13, <1>14,
     <1>15, <1>16, <1>17, <1>18, <1>19 DEF Next

----------------------------------------------------------------------------
(* What each kind of step keeps.                                           *)

\* While offers stay quiet, the same provider has it and the same ones gave it back.
LEMMA QuietasIguales ==
  ASSUME OfertasQuietas
  PROVE  Asignados' = Asignados /\ Renunciaron' = Renunciaron
  BY DEF OfertasQuietas, Quieta, Sueltas, Asignados, Renunciaron

\* Taken: one provider has it, and who gave it back stays out.
LEMMA TomaAsigna ==
  ASSUME Tipos, NEW p \in Prestadores, Toma(p), Asignados = {}
  PROVE  Asignados' = {p} /\ Renunciaron' = Renunciaron /\ p \notin Renunciaron
<1>1. \A q \in Prestadores \ {p} : (oferta'[q] = "acepto") <=> (oferta[q] = "acepto")
  BY DEF Toma, Quieta, Sueltas
<1>2. \A q \in Prestadores \ {p} : (oferta'[q] = "renuncio") <=> (oferta[q] = "renuncio")
  BY DEF Toma, Quieta, Sueltas
<1>3. oferta'[p] = "acepto" /\ oferta[p] # "renuncio"
  BY DEF Toma, OFERTA_TOMABLE
<1> QED BY <1>1, <1>2, <1>3 DEF Asignados, Renunciaron

\* Given back: nobody has it, and one more gave it back.
LEMMA DevuelveLibera ==
  ASSUME NEW p \in Prestadores, Devuelve(p), Asignados = {p}
  PROVE  Asignados' = {} /\ Renunciaron' = Renunciaron \cup {p} /\ p \notin Renunciaron
  BY DEF Devuelve, Asignados, Renunciaron

\* Opening or closing a request changes nothing else of it.
LEMMA SolAbierta ==
  ASSUME sol \in Sol, NEW e \in {"abierta", "cerrada"}, sol' = [sol EXCEPT !.estado = e]
  PROVE  sol'.estado = e /\ sol'.asig = sol.asig /\ sol'.prest = sol.prest /\ sol'.reap = sol.reap
  BY DEF Sol

\* Every kind of step keeps what the row is in each phase ...
LEMMA FasesPaso ==
  ASSUME Tipos, Fases, Clase
  PROVE  Fases'
<1>1. CASE Nada
  BY <1>1 DEF Nada, SinNacer, Fases, DelCierre, SinAsignar, OfertasQuietas, Quieta, Sueltas
<1>2. CASE Nace
  BY <1>2, SolAbierta DEF Nace, Fases, DelCierre, SinAsignar, Tipos
<1>3. CASE MueveTrabajo
  BY <1>3 DEF MueveTrabajo, Fases, DelCierre, SinAsignar
<1>4. CASE Cierra
  BY <1>4, SolAbierta DEF Cierra, Fases, Abierta, SinAsignar, Tipos
<1>5. ASSUME NEW p \in Prestadores, Toma(p) PROVE Fases'
  BY <1>5 DEF Toma, Fases, DelCierre, Abierta, SinAsignar
<1>6. ASSUME NEW p \in Prestadores, Devuelve(p) PROVE Fases'
  BY <1>6 DEF Devuelve, Fases, DelCierre, Abierta, SinAsignar
<1>7. CASE Responde
  BY <1>7 DEF Responde, Fases, SeCierra, Abierta, SinAsignar, Tipos, Sol
<1> QED BY <1>1, <1>2, <1>3, <1>4, <1>5, <1>6, <1>7 DEF Clase

\* ... the first broadcast stays answered ...
LEMMA RespondidaPaso ==
  ASSUME Tipos, Fases, Respondida, [Next]_vars
  PROVE  Respondida'
<1>0. 1 \in Rondas /\ tanda \in [Rondas -> TandaUrgente] /\ sol.reap \in Nat
  BY UrgentesAssumption, FS_CardinalityType DEF Tipos, Sol, Rondas
<1>1. ASSUME NEW c \in SUBSET Prestadores, Crear(c) PROVE Respondida'
  BY <1>1 DEF Crear, Fases, Respondida
<1>2. ASSUME NEW r \in Rondas, NEW p \in Prestadores, NEW b \in BOOLEAN, Avisar(r, p, b) PROVE Respondida'
  BY <1>0, <1>2 DEF Avisar, Respondida, TandaUrgente
<1>3. ASSUME NEW r \in Rondas, NEW c \in SUBSET Prestadores, Reofrecer(r, c) PROVE Respondida'
  BY <1>0, <1>3 DEF Reofrecer, Respondida
<1>4. ASSUME NEW r \in Rondas, CerrarSinAvisados(r) PROVE Respondida'
  <2>1. tanda' = [tanda EXCEPT ![r] = FinTanda]
    BY <1>4 DEF CerrarSinAvisados
  <2>2. r # 1 => avisos'.sinCerrar = avisos.sinCerrar
    BY <1>4 DEF CerrarSinAvisados, DiceCierre, RespondeSinCandidatos, Dicho, Tipos
  <2> QED BY <1>0, <2>1, <2>2 DEF Respondida, FinTanda
<1>5. ASSUME NEW r \in Rondas, CerrarPorTope(r) PROVE Respondida'
  BY <1>0, <1>5 DEF CerrarPorTope, DiceCierre, Dicho, Tipos, Respondida, FinTanda
<1>6. ASSUME NEW p \in Prestadores, Renunciar(p) PROVE Respondida'
  BY <1>0, <1>6 DEF Renunciar, Respondida
<1>7. ASSUME NEW r \in Rondas, CaerTanda(r) PROVE Respondida'
  BY <1>0, <1>7 DEF CaerTanda, Respondida, FinTanda
<1>8. ASSUME (\E h \in Pedidos : CerrarPorRechazos(h)) \/ (\E b \in Barridos : CerrarVencida(b)) PROVE Respondida'
  BY <1>8 DEF CerrarPorRechazos, CerrarVencida, DiceCierre, Dicho, Tipos, Respondida
<1>9. ASSUME UNCHANGED <<tanda, avisos>> PROVE Respondida'
  BY <1>9 DEF Respondida
<1> QED
  BY <1>1, <1>2, <1>3, <1>4, <1>5, <1>6, <1>7, <1>8, <1>9
  DEF Next, vars, PedirTomar, Tomar, RechazarLee, RechazarEscribe, RechazarConfirma, CaerPedido, ListarVencida,
      CaerBarrido, AvanzarTrabajo, CancelarTrabajo, CancelarCliente, Tick

\* ... the agreement of request, offers and work ...
LEMMA AcuerdoPaso ==
  ASSUME Tipos, Fases, Acuerdo, Clase
  PROVE  Acuerdo'
<1>1. CASE Nada \/ Responde
  BY <1>1, QuietasIguales DEF Nada, Responde, Acuerdo
<1>2. CASE Nace
  <2>1. sol'.asig = sol.asig /\ sol'.prest = sol.prest
    BY <1>2, SolAbierta DEF Nace, Tipos
  <2> QED BY <1>2, <2>1, QuietasIguales DEF Nace, Acuerdo
<1>3. CASE MueveTrabajo
  <2>1. Asignados' = Asignados /\ Renunciaron' = Renunciaron
    BY <1>3 DEF MueveTrabajo, Asignados, Renunciaron
  <2> QED BY <1>3, <2>1 DEF MueveTrabajo, Acuerdo, Tipos, Sol
<1>4. CASE Cierra
  <2>1. sol'.asig = sol.asig /\ sol'.prest = sol.prest
    BY <1>4, SolAbierta DEF Cierra, Tipos
  <2> QED BY <1>4, <2>1, QuietasIguales DEF Cierra, Acuerdo
<1>5. ASSUME NEW p \in Prestadores, Toma(p) PROVE Acuerdo'
  <2>1. Asignados = {}
    BY <1>5 DEF Toma, SinAsignar, Acuerdo
  <2>2. Asignados' = {p}
    BY <1>5, <2>1, TomaAsigna
  <2> QED BY <1>5, <2>2 DEF Toma, Acuerdo
<1>6. ASSUME NEW p \in Prestadores, Devuelve(p) PROVE Acuerdo'
  <2>1. Asignados = {p} /\ trabajo.prest = {p}
    BY <1>6 DEF Devuelve, Acuerdo
  <2>2. Asignados' = {} /\ Renunciaron' = Renunciaron \cup {p}
    BY <1>6, <2>1, DevuelveLibera
  <2> QED BY <1>6, <2>1, <2>2 DEF Devuelve, Acuerdo
<1> QED BY <1>1, <1>2, <1>3, <1>4, <1>5, <1>6 DEF Clase

\* No more providers gave it back than there are.
LEMMA RenunciaronFinito == IsFiniteSet(Renunciaron) /\ Cardinality(Renunciaron) \in 0..Cardinality(Prestadores)
<1>1. Renunciaron \subseteq Prestadores
  BY DEF Renunciaron
<1> QED BY <1>1, FS_Subset, FS_CardinalityType, UrgentesAssumption

\* ... and the count of who gave it back.
LEMMA CuentaPaso ==
  ASSUME Tipos, Acuerdo, Cuenta, Clase
  PROVE  Cuenta'
<1>1. CASE Nada \/ Responde \/ MueveTrabajo
  <2>1. Renunciaron' = Renunciaron /\ sol' = sol
    BY <1>1, QuietasIguales DEF Nada, Responde, MueveTrabajo, Renunciaron
  <2> QED BY <2>1 DEF Cuenta
<1>2. CASE Nace \/ Cierra
  <2>1. Renunciaron' = Renunciaron
    BY <1>2, QuietasIguales DEF Nace, Cierra
  <2>2. sol'.reap = sol.reap
    BY <1>2, SolAbierta DEF Nace, Cierra, Tipos
  <2> QED BY <2>1, <2>2 DEF Cuenta
<1>3. ASSUME NEW p \in Prestadores, Toma(p) PROVE Cuenta'
  <2>1. Asignados = {}
    BY <1>3 DEF Toma, SinAsignar, Acuerdo
  <2>2. Renunciaron' = Renunciaron
    BY <1>3, <2>1, TomaAsigna
  <2> QED BY <1>3, <2>2 DEF Toma, Cuenta
<1>4. ASSUME NEW p \in Prestadores, Devuelve(p) PROVE Cuenta'
  <2>1. Asignados = {p}
    BY <1>4 DEF Devuelve, Acuerdo
  <2>2. Renunciaron' = Renunciaron \cup {p} /\ p \notin Renunciaron
    BY <1>4, <2>1, DevuelveLibera
  <2>3. Cardinality(Renunciaron \cup {p}) = Cardinality(Renunciaron) + 1
    BY <2>2, RenunciaronFinito, FS_AddElement
  <2> QED BY <1>4, <2>2, <2>3 DEF Devuelve, Cuenta
<1> QED BY <1>1, <1>2, <1>3, <1>4 DEF Clase

----------------------------------------------------------------------------
(* Types and locks, action by action.                                      *)

\* Closing writes a request and offers that are well typed.
LEMMA TiposCerrar ==
  ASSUME Tipos, Cerrar
  PROVE  sol' \in Sol /\ oferta' \in [Prestadores -> ESTADOS_OFERTA]
  BY DEF Tipos, Cerrar, Sol, ESTADOS_OFERTA

\* Moving one broadcast keeps the type of all ...
LEMMA TandaTipo ==
  ASSUME Tipos, NEW r \in Rondas, NEW v \in TandaUrgente
  PROVE  [tanda EXCEPT ![r] = v] \in [Rondas -> TandaUrgente]
  BY DEF Tipos

\* ... and so does moving one call.
LEMMA HiloTipo ==
  ASSUME Tipos, NEW h \in Pedidos, NEW v \in Hilo
  PROVE  [hilo EXCEPT ![h] = v] \in [Pedidos -> Hilo]
  BY DEF Tipos

\* A call or a broadcast that ended, or did not begin, is well typed.
LEMMA Constantes == FinTanda \in TandaUrgente /\ SinTanda \in TandaUrgente /\ Libre \in Hilo
  BY DEF FinTanda, SinTanda, TandaUrgente, Libre, Hilo

\* Every step keeps the types ...
LEMMA TiposPaso ==
  ASSUME Tipos, [Next]_vars
  PROVE  Tipos'
<1> USE UrgentesAssumption
<1>1. ASSUME NEW c \in SUBSET Prestadores, Crear(c) PROVE Tipos'
  <2>1. 1 \in Rondas
    BY FS_CardinalityType DEF Rondas
  <2>2. tanda' \in [Rondas -> TandaUrgente]
    BY <1>1, <2>1 DEF Tipos, Crear, TandaUrgente
  <2> QED BY <1>1, <2>2 DEF Tipos, Crear, Sol, ESTADOS_OFERTA
<1>2. ASSUME NEW r \in Rondas, NEW p \in Prestadores, NEW b \in BOOLEAN, Avisar(r, p, b) PROVE Tipos'
  <2>1. tanda' \in [Rondas -> TandaUrgente]
    <3> DEFINE x == [tanda[r] EXCEPT !.faltan = @ \ {p}]
               y == [x EXCEPT !.dicho = @ \/ b]
    <3>1. tanda[r] \in TandaUrgente /\ tanda[r].faltan \ {p} \in SUBSET Prestadores
      BY DEF Tipos, TandaUrgente
    <3>2. x \in TandaUrgente
      BY <3>1 DEF TandaUrgente
    <3>3. y \in TandaUrgente
      <4> HIDE DEF x
      <4>1. (x.dicho \/ b) \in BOOLEAN
        OBVIOUS
      <4> QED BY <3>2, <4>1 DEF TandaUrgente
    <3>4. tanda' = [tanda EXCEPT ![r] = y]
      BY <1>2 DEF Avisar, Tipos, TandaUrgente
    <3> HIDE DEF x, y
    <3> QED BY <3>3, <3>4, TandaTipo
  <2>2. oferta' \in [Prestadores -> ESTADOS_OFERTA]
    BY <1>2 DEF Tipos, Avisar, ESTADOS_OFERTA
  <2> QED BY <1>2, <2>1, <2>2 DEF Tipos, Avisar
<1>3. ASSUME NEW r \in Rondas, NEW c \in SUBSET Prestadores, Reofrecer(r, c) PROVE Tipos'
  <2>1. [fase |-> "ofrecer", faltan |-> c, dicho |-> FALSE] \in TandaUrgente
    BY DEF TandaUrgente
  <2>2. oferta' \in [Prestadores -> ESTADOS_OFERTA]
    BY <1>3 DEF Tipos, Reofrecer, ESTADOS_OFERTA
  <2> QED BY <1>3, <2>1, <2>2, TandaTipo DEF Tipos, Reofrecer
<1>4. ASSUME NEW r \in Rondas, CerrarSinAvisados(r) PROVE Tipos'
  <2>1. tanda' \in [Rondas -> TandaUrgente]
    BY <1>4, Constantes, TandaTipo DEF CerrarSinAvisados
  <2>2. CASE tanda[r].dicho
    BY <1>4, <2>1, <2>2 DEF CerrarSinAvisados, Tipos
  <2>3. CASE ~tanda[r].dicho
    <3>1. avisos' \in [veces : Nat, sinCerrar : BOOLEAN]
      <4>1. Dicho \in [veces : Nat, sinCerrar : BOOLEAN]
        BY DEF Dicho, Tipos
      <4>2. [Dicho EXCEPT !.sinCerrar = TRUE] \in [veces : Nat, sinCerrar : BOOLEAN]
        BY <4>1
      <4>3. avisos' \in {avisos, Dicho, [Dicho EXCEPT !.sinCerrar = TRUE]}
        BY <1>4, <2>3 DEF CerrarSinAvisados, DiceCierre, RespondeSinCandidatos
      <4> QED BY <4>1, <4>2, <4>3 DEF Tipos
    <3>2. sol' \in Sol /\ oferta' \in [Prestadores -> ESTADOS_OFERTA]
      BY <1>4, <2>3, TiposCerrar DEF CerrarSinAvisados
    <3> QED BY <1>4, <2>1, <3>1, <3>2 DEF CerrarSinAvisados, Tipos
  <2> QED BY <2>2, <2>3
<1>5. ASSUME NEW r \in Rondas, CerrarPorTope(r) PROVE Tipos'
  <2>1. tanda' \in [Rondas -> TandaUrgente]
    BY <1>5, Constantes, TandaTipo DEF CerrarPorTope
  <2> QED BY <1>5, <2>1, TiposCerrar DEF CerrarPorTope, DiceCierre, Dicho, Tipos
<1>6. ASSUME NEW h \in Pedidos, NEW p \in Prestadores, Tomar(h, p) PROVE Tipos'
  <2>1. hilo' \in [Pedidos -> Hilo]
    BY <1>6, Constantes, HiloTipo DEF Tomar
  <2>2. CASE Gana(p, hilo[h].bien)
    <3>1. /\ sol' = [sol EXCEPT !.asig = "aceptada", !.prest = {p}]
          /\ trabajo' = [trabajo EXCEPT !.estado = "vivo", !.prest = {p}]
      BY <1>6, <2>2 DEF Tomar
    <3>2. [sol EXCEPT !.asig = "aceptada"] \in Sol
      BY DEF Tipos, Sol
    <3>3. sol' \in Sol
      <4> DEFINE s == [sol EXCEPT !.asig = "aceptada"]
      <4>1. sol' = [s EXCEPT !.prest = {p}]
        BY <3>1
      <4> HIDE DEF s
      <4>2. s \in Sol
        BY <3>2 DEF s
      <4> QED BY <4>1, <4>2 DEF Sol
    <3>4. trabajo' \in Trabajo
      <4> DEFINE w == [trabajo EXCEPT !.estado = "vivo"]
      <4>1. trabajo' = [w EXCEPT !.prest = {p}]
        BY <3>1
      <4>2. w \in Trabajo
        BY DEF Tipos, Trabajo
      <4> HIDE DEF w
      <4> QED BY <4>1, <4>2 DEF Trabajo
    <3>5. oferta' \in [Prestadores -> ESTADOS_OFERTA]
      BY <1>6, <2>2 DEF Tomar, Tipos, ESTADOS_OFERTA
    <3> QED BY <1>6, <2>1, <3>3, <3>4, <3>5 DEF Tomar, Tipos
  <2>3. CASE ~Gana(p, hilo[h].bien)
    BY <1>6, <2>1, <2>3 DEF Tomar, Tipos
  <2> QED BY <2>2, <2>3
<1>7. ASSUME NEW h \in Pedidos, NEW p \in Prestadores, RechazarConfirma(h, p) PROVE Tipos'
  <2>1. hilo' \in [Pedidos -> Hilo]
    <3>1. En("cerrar", p, FALSE) \in Hilo
      BY DEF En, Hilo
    <3> QED BY <1>7, <3>1, Constantes, HiloTipo DEF RechazarConfirma
  <2> QED BY <1>7, <2>1 DEF Tipos, RechazarConfirma, ESTADOS_OFERTA
<1>8. ASSUME NEW h \in Pedidos, CerrarPorRechazos(h) PROVE Tipos'
  <2>1. hilo' \in [Pedidos -> Hilo]
    BY <1>8, Constantes, HiloTipo DEF CerrarPorRechazos
  <2> QED BY <1>8, <2>1, TiposCerrar DEF CerrarPorRechazos, DiceCierre, Dicho, Tipos
<1>9. ASSUME NEW p \in Prestadores, Renunciar(p) PROVE Tipos'
  <2>1. sol' \in Sol
    <3> DEFINE s == [sol EXCEPT !.asig = "cancelada"]
    <3>1. s \in Sol /\ sol.reap \in Nat
      BY DEF Tipos, Sol
    <3>2. sol' = [s EXCEPT !.reap = s.reap + 1]
      BY <1>9 DEF Renunciar, Tipos, Sol
    <3> HIDE DEF s
    <3> QED BY <3>1, <3>2 DEF Sol
  <2>2. trabajo' \in Trabajo
    BY <1>9 DEF Renunciar, Tipos, Trabajo
  <2>3. oferta' \in [Prestadores -> ESTADOS_OFERTA]
    BY <1>9 DEF Renunciar, Devuelta, Tipos, ESTADOS_OFERTA
  <2>4. tanda' \in [Rondas -> TandaUrgente]
    BY <1>9 DEF Renunciar, Tipos, TandaUrgente
  <2>5. hilo' \in [Pedidos -> Hilo]
    <3>1. ASSUME NEW h \in Pedidos
          PROVE  [hilo[h] EXCEPT !.bien = @ \/ hilo[h].paso = "tomar"] \in Hilo
      <4>1. (hilo[h].bien \/ hilo[h].paso = "tomar") \in BOOLEAN
        OBVIOUS
      <4> QED BY <4>1 DEF Tipos, Hilo
    <3> QED BY <1>9, <3>1 DEF Renunciar
  <2> QED BY <1>9, <2>1, <2>2, <2>3, <2>4, <2>5 DEF Renunciar, Tipos
<1>10. ASSUME NEW b \in Barridos, CerrarVencida(b) PROVE Tipos'
  BY <1>10, TiposCerrar DEF CerrarVencida, DiceCierre, Dicho, Tipos
<1>11. CASE CancelarCliente
  BY <1>11 DEF CancelarCliente, Tipos, Sol
<1>12. ASSUME NEW a \in {"presupuesto", "mensajes"}, AvanzarTrabajo(a) PROVE Tipos'
  BY <1>12 DEF AvanzarTrabajo, Tipos, Trabajo
<1>13. ASSUME NEW c \in {"liberado", "cancelado"}, CancelarTrabajo(c) PROVE Tipos'
  BY <1>13 DEF CancelarTrabajo, Tipos, Trabajo
<1>14. CASE Tick
  BY <1>14 DEF Tick, Tipos
<1>15. ASSUME NEW h \in Pedidos, NEW p \in Prestadores,
              PedirTomar(h, p) \/ RechazarLee(h, p) \/ RechazarEscribe(h, p)
       PROVE  Tipos'
  <2>1. \A b \in BOOLEAN : \A paso \in {"tomar", "rechazar", "escrito"} : En(paso, p, b) \in Hilo
    BY DEF En, Hilo
  <2>2. (resta > 0) \in BOOLEAN
    OBVIOUS
  <2>3. (\A q \in Prestadores \ {p} : oferta[q] # "notificada") \in BOOLEAN
    OBVIOUS
  <2>4. hilo' \in [Pedidos -> Hilo]
    <3>1. CASE PedirTomar(h, p)
      BY <3>1, <2>1, <2>2, HiloTipo DEF PedirTomar
    <3>2. CASE RechazarLee(h, p)
      BY <3>2, <2>1, HiloTipo DEF RechazarLee
    <3>3. CASE RechazarEscribe(h, p)
      BY <3>3, <2>1, <2>3, HiloTipo, Constantes DEF RechazarEscribe
    <3> QED BY <1>15, <3>1, <3>2, <3>3
  <2> QED BY <1>15, <2>4 DEF PedirTomar, RechazarLee, RechazarEscribe, Tipos
<1>16. ASSUME NEW b \in Barridos, ListarVencida(b) \/ CaerBarrido(b) PROVE Tipos'
  BY <1>16 DEF ListarVencida, CaerBarrido, Tipos
<1>17. ASSUME NEW r \in Rondas, CaerTanda(r) PROVE Tipos'
  BY <1>17, Constantes, TandaTipo DEF CaerTanda, Tipos
<1>18. ASSUME NEW h \in Pedidos, CaerPedido(h) PROVE Tipos'
  BY <1>18, Constantes, HiloTipo DEF CaerPedido, Tipos
<1>19. CASE UNCHANGED vars
  BY <1>19 DEF vars, Tipos
<1> QED
  BY <1>1, <1>2, <1>3, <1>4, <1>5, <1>6, <1>7, <1>8, <1>9, <1>10, <1>11, <1>12, <1>13, <1>14,
     <1>15, <1>16, <1>17, <1>18, <1>19 DEF Next

\* No rejection is written, and the offers whose lock is held still wait.
LEMMA CandadosGuardan ==
  ASSUME Candados,
         \A h \in Pedidos : hilo'[h].paso = "escrito" =>
                              hilo[h].paso = "escrito" /\ hilo'[h].de = hilo[h].de,
         \A p \in Trabadas : oferta'[p] \in ESPERAN
  PROVE  Candados'
<1>1. ASSUME NEW h \in Pedidos, hilo'[h].paso = "escrito"
      PROVE  \E p \in Prestadores : hilo'[h].de = {p} /\ oferta'[p] \in ESPERAN
  <2>1. PICK p \in Prestadores : hilo[h].de = {p}
    BY <1>1 DEF Candados
  <2>2. p \in Trabadas
    BY <1>1, <2>1 DEF Trabadas
  <2> QED BY <1>1, <2>1, <2>2
<1>2. \A h, g \in Pedidos :
        hilo'[h].paso = "escrito" /\ hilo'[g].paso = "escrito" /\ hilo'[h].de = hilo'[g].de => h = g
  BY DEF Candados
<1> QED BY <1>1, <1>2 DEF Candados

\* A held offer waits.
LEMMA TrabadasEsperan ==
  ASSUME Candados, NEW p \in Trabadas
  PROVE  p \in Prestadores /\ oferta[p] \in ESPERAN
  BY DEF Candados, Trabadas

\* A closing has no locks to break, or changes no offer.
LEMMA CierreGuarda ==
  ASSUME Candados, Cerrar
  PROVE  \A p \in Trabadas : oferta'[p] \in ESPERAN
  BY TrabadasEsperan DEF Cerrar

\* ... and the locks: what an uncommitted rejection holds still waits.
LEMMA CandadosPaso ==
  ASSUME Tipos, Fases, Candados, [Next]_vars
  PROVE  Candados'
<1> USE DEF Tipos
<1>1. ASSUME NEW c \in SUBSET Prestadores, Crear(c) PROVE Candados'
  <2>1. Trabadas = {}
    BY <1>1, TrabadasEsperan DEF Crear, Fases, ESPERAN
  <2> QED BY <1>1, <2>1, CandadosGuardan DEF Crear
<1>2. ASSUME NEW r \in Rondas, NEW p \in Prestadores, NEW b \in BOOLEAN, Avisar(r, p, b) PROVE Candados'
  <2>1. \A q \in Trabadas : oferta'[q] = oferta[q]
    BY <1>2, TrabadasEsperan DEF Avisar
  <2> QED BY <1>2, <2>1, TrabadasEsperan, CandadosGuardan DEF Avisar
<1>3. ASSUME NEW r \in Rondas, NEW c \in SUBSET Prestadores, Reofrecer(r, c) PROVE Candados'
  <2>1. \A q \in Trabadas : oferta'[q] \in ESPERAN
    BY <1>3, TrabadasEsperan DEF Reofrecer, ESPERAN
  <2> QED BY <1>3, <2>1, CandadosGuardan DEF Reofrecer
<1>4. ASSUME NEW r \in Rondas, CerrarSinAvisados(r) PROVE Candados'
  <2>1. \A q \in Trabadas : oferta'[q] \in ESPERAN
    BY <1>4, CierreGuarda, TrabadasEsperan DEF CerrarSinAvisados
  <2> QED BY <1>4, <2>1, CandadosGuardan DEF CerrarSinAvisados
<1>5. ASSUME NEW r \in Rondas, CerrarPorTope(r) PROVE Candados'
  BY <1>5, CierreGuarda, CandadosGuardan DEF CerrarPorTope
<1>6. ASSUME NEW h \in Pedidos, NEW p \in Prestadores, Tomar(h, p) PROVE Candados'
  <2>1. \A g \in Pedidos : hilo'[g].paso = "escrito" => hilo'[g] = hilo[g]
    BY <1>6 DEF Tomar, Libre
  <2>2. \A q \in Trabadas : oferta'[q] \in ESPERAN
    <3>1. CASE Gana(p, hilo[h].bien)
      BY <1>6, <3>1, TrabadasEsperan DEF Tomar, ESPERAN
    <3>2. CASE ~Gana(p, hilo[h].bien)
      BY <1>6, <3>2, TrabadasEsperan DEF Tomar
    <3> QED BY <3>1, <3>2
  <2> QED BY <2>1, <2>2, CandadosGuardan
<1>7. ASSUME NEW h \in Pedidos, NEW p \in Prestadores, RechazarConfirma(h, p) PROVE Candados'
  <2>1. \A g \in Pedidos : hilo'[g].paso = "escrito" => g # h /\ hilo'[g] = hilo[g]
    BY <1>7 DEF RechazarConfirma, Libre, En
  <2>2. ASSUME NEW g \in Pedidos, hilo'[g].paso = "escrito"
        PROVE  \E q \in Prestadores : hilo'[g].de = {q} /\ oferta'[q] \in ESPERAN
    <3>1. hilo[g].paso = "escrito" /\ g # h
      BY <2>1, <2>2
    <3>2. PICK q \in Prestadores : hilo[g].de = {q} /\ oferta[q] \in ESPERAN
      BY <3>1 DEF Candados
    <3>3. q # p
      BY <1>7, <3>1, <3>2 DEF Candados, RechazarConfirma
    <3> QED BY <1>7, <2>1, <2>2, <3>2, <3>3 DEF RechazarConfirma
  <2>3. \A g, k \in Pedidos :
          hilo'[g].paso = "escrito" /\ hilo'[k].paso = "escrito" /\ hilo'[g].de = hilo'[k].de => g = k
    BY <2>1 DEF Candados
  <2> QED BY <2>2, <2>3 DEF Candados
<1>8. ASSUME NEW h \in Pedidos, CerrarPorRechazos(h) PROVE Candados'
  <2>1. \A g \in Pedidos : hilo'[g].paso = "escrito" => hilo'[g] = hilo[g]
    BY <1>8 DEF CerrarPorRechazos, Libre
  <2> QED BY <1>8, <2>1, CierreGuarda, CandadosGuardan DEF CerrarPorRechazos
<1>9. ASSUME NEW p \in Prestadores, Renunciar(p) PROVE Candados'
  <2>1. \A q \in Trabadas : oferta'[q] = oferta[q]
    BY <1>9, TrabadasEsperan DEF Renunciar, Devuelta, ESPERAN
  <2>2. \A g \in Pedidos : hilo'[g].paso = hilo[g].paso /\ hilo'[g].de = hilo[g].de
    BY <1>9 DEF Renunciar, Hilo
  <2> QED BY <2>1, <2>2, TrabadasEsperan, CandadosGuardan
<1>10. ASSUME NEW b \in Barridos, CerrarVencida(b) PROVE Candados'
  BY <1>10, CierreGuarda, CandadosGuardan DEF CerrarVencida
<1>11. ASSUME UNCHANGED <<oferta, hilo>> PROVE Candados'
  BY <1>11, TrabadasEsperan, CandadosGuardan
<1>12. ASSUME NEW h \in Pedidos, NEW p \in Prestadores, PedirTomar(h, p) \/ RechazarLee(h, p)
       PROVE  Candados'
  <2>1. \A g \in Pedidos : hilo'[g].paso = "escrito" => hilo'[g] = hilo[g]
    BY <1>12 DEF PedirTomar, RechazarLee, En
  <2>2. oferta' = oferta
    BY <1>12 DEF PedirTomar, RechazarLee
  <2> QED BY <2>1, <2>2, TrabadasEsperan, CandadosGuardan
<1>13. ASSUME NEW h \in Pedidos, NEW p \in Prestadores, RechazarEscribe(h, p) PROVE Candados'
  <2> DEFINE ultimo == \A q \in Prestadores \ {p} : oferta[q] # "notificada"
  <2> oferta' = oferta /\ p \notin Trabadas
    BY <1>13 DEF RechazarEscribe
  <2>1. CASE oferta[p] \in ESPERAN
    <3>1. hilo' = [hilo EXCEPT ![h] = En("escrito", p, ultimo)]
      BY <1>13, <2>1 DEF RechazarEscribe
    <3>2. hilo'[h].paso = "escrito" /\ hilo'[h].de = {p}
      BY <3>1 DEF En
    <3>3. \A g \in Pedidos \ {h} : hilo'[g] = hilo[g]
      BY <3>1
    <3>4. \A g \in Pedidos \ {h} : hilo[g].paso = "escrito" => hilo[g].de # {p}
      BY DEF Trabadas
    <3> HIDE DEF ultimo
    <3>5. ASSUME NEW g \in Pedidos, hilo'[g].paso = "escrito"
          PROVE  \E q \in Prestadores : hilo'[g].de = {q} /\ oferta'[q] \in ESPERAN
      BY <2>1, <3>2, <3>3, <3>5 DEF Candados
    <3>6. \A g, k \in Pedidos :
            hilo'[g].paso = "escrito" /\ hilo'[k].paso = "escrito" /\ hilo'[g].de = hilo'[k].de => g = k
      BY <3>2, <3>3, <3>4 DEF Candados
    <3> QED BY <3>5, <3>6 DEF Candados
  <2>2. CASE oferta[p] \notin ESPERAN
    <3>1. \A g \in Pedidos : hilo'[g].paso = "escrito" => hilo'[g] = hilo[g]
      BY <1>13, <2>2 DEF RechazarEscribe, Libre
    <3> QED BY <3>1, TrabadasEsperan, CandadosGuardan
  <2> QED BY <2>1, <2>2
<1>14. ASSUME NEW h \in Pedidos, CaerPedido(h) PROVE Candados'
  <2>1. \A g \in Pedidos : hilo'[g].paso = "escrito" => hilo'[g] = hilo[g]
    BY <1>14 DEF CaerPedido, Libre
  <2> QED BY <1>14, <2>1, TrabadasEsperan, CandadosGuardan DEF CaerPedido
<1> HIDE DEF Tipos
<1>15. ASSUME NEW r \in Rondas, CaerTanda(r) PROVE Candados'
  BY <1>15, <1>11 DEF CaerTanda
<1>16. ASSUME NEW b \in Barridos, ListarVencida(b) \/ CaerBarrido(b) PROVE Candados'
  BY <1>16, <1>11 DEF ListarVencida, CaerBarrido
<1>17. ASSUME NEW a \in {"presupuesto", "mensajes"}, AvanzarTrabajo(a) PROVE Candados'
  BY <1>17, <1>11 DEF AvanzarTrabajo
<1>18. ASSUME NEW c \in {"liberado", "cancelado"}, CancelarTrabajo(c) PROVE Candados'
  BY <1>18, <1>11 DEF CancelarTrabajo
<1>19. CASE CancelarCliente \/ Tick \/ UNCHANGED vars
  BY <1>19, <1>11 DEF CancelarCliente, Tick, vars
<1> QED
  BY <1>1, <1>2, <1>3, <1>4, <1>5, <1>6, <1>7, <1>8, <1>9, <1>10, <1>12, <1>13, <1>14, <1>15,
     <1>16, <1>17, <1>18, <1>19 DEF Next

----------------------------------------------------------------------------
(* The invariant.                                                          *)

\* The invariant holds at the start ...
LEMMA InvInicial ==
  ASSUME Init
  PROVE  IInv
<1> USE UrgentesAssumption
<1>1. Asignados = {} /\ Renunciaron = {}
  BY DEF Init, Asignados, Renunciaron
<1>2. Tipos
  BY Constantes DEF Init, Tipos, Sol, Trabajo, ESTADOS_OFERTA
<1>3. Fases
  BY DEF Init, Fases, DelCierre, SinTanda
<1>4. Candados
  BY DEF Init, Candados, Libre
<1>5. Acuerdo
  BY <1>1 DEF Init, Acuerdo
<1>6. Cuenta
  BY <1>1, FS_EmptySet DEF Init, Cuenta
<1>7. Respondida
  BY DEF Init, Respondida
<1> QED BY <1>2, <1>3, <1>4, <1>5, <1>6, <1>7 DEF IInv

\* ... and after every step.
LEMMA InvPaso ==
  ASSUME IInv, [Next]_vars
  PROVE  IInv'
<1>1. Clase
  BY Clases DEF IInv
<1> QED BY <1>1, TiposPaso, FasesPaso, RespondidaPaso, CandadosPaso, AcuerdoPaso, CuentaPaso DEF IInv

\* The inductive invariant, which every theorem below rests on.
THEOREM Invariante == Spec => []IInv
<1>1. Init => IInv
  BY InvInicial
<1>2. IInv /\ [Next]_vars => IInv'
  BY InvPaso
<1> QED BY <1>1, <1>2, PTL DEF Spec

----------------------------------------------------------------------------
(* What it gives.                                                          *)

\* Every variable keeps to its type; the request is given back, and so offered again, at
\* most once by each provider: the reopenings end by themselves.
THEOREM TiposUrgentes == Spec => []TypeOK
<1>1. IInv => TypeOK
  <2> SUFFICES ASSUME IInv PROVE TypeOK
    OBVIOUS
  <2>1. sol.reap \in 0..Cardinality(Prestadores)
    BY RenunciaronFinito DEF IInv, Cuenta
  <2>2. sol \in [estado : {"no", "abierta", "cerrada"}, asig : {"ninguna", "aceptada", "cancelada"},
                 prest : SUBSET Prestadores, reap : 0..Cardinality(Prestadores)]
    BY <2>1 DEF IInv, Tipos, Sol
  <2> QED BY <2>2 DEF IInv, Tipos, TypeOK, Trabajo, Hilo
<1> QED BY <1>1, Invariante, PTL

\* The row, the offers and the work name the same one provider, or none of them does:
\* almacen.ts and work/index.ts write them in one transaction, each with its condition.
THEOREM LasFilasConcuerdan == Spec => []FilasDeAcuerdo
<1>1. IInv => FilasDeAcuerdo
  <2> SUFFICES ASSUME IInv PROVE FilasDeAcuerdo
    OBVIOUS
  <2>1. sol.asig = "aceptada" => Asignados = sol.prest /\ Cardinality(sol.prest) = 1
    BY FS_Singleton DEF IInv, Acuerdo
  <2> QED BY <2>1 DEF IInv, Acuerdo, FilasDeAcuerdo
<1> QED BY <1>1, Invariante, PTL

\* Whatever tries to close it, who does tells its client, once, and nobody has it then; the
\* answer of the creation (servicio.ts:142-147) may say so besides without having closed it,
\* but only of a request that was taken or closed before.
THEOREM ElAvisoDeCierreEsVerdad == Spec => []AvisoDeCierreVerdadero
<1>1. IInv => AvisoDeCierreVerdadero
  BY DEF IInv, Fases, Acuerdo, SinAsignar, AvisoDeCierreVerdadero
<1> QED BY <1>1, Invariante, PTL

\* Only the acceptance of a provider that said no changes its answer.
THEOREM UnNoQuedaDicho == Spec => NoSeDeshaceUnNo
<1>1. ASSUME IInv, [Next]_vars, NEW p \in Prestadores, oferta[p] = "no_puede"
      PROVE  oferta'[p] \in {"no_puede", "acepto"}
  <2>1. Clase
    BY <1>1, Clases DEF IInv
  <2> QED
    BY <1>1, <2>1 DEF Clase, Nada, Responde, Nace, MueveTrabajo, Toma, Devuelve, Cierra, OfertasQuietas, Quieta, Sueltas
<1>2. IInv /\ [Next]_vars =>
        [\A p \in Prestadores : oferta[p] = "no_puede" => oferta'[p] \in {"no_puede", "acepto"}]_vars
  BY <1>1
<1> QED BY <1>2, Invariante, PTL DEF Spec, NoSeDeshaceUnNo

\* The offers implement the assignment of AsignacionUrgente: one provider at a time, never
\* one that gave it back, closed only while nobody has it and for ever.
THEOREM LaAsignacionSeCumple == Spec => ImplementaAsignacion
<1> USE DEF Promesa!Next, Promesa!Asignar, Promesa!Devolver, Promesa!Cerrar
<1>1. Init => Promesa!Init
  BY DEF Init, Promesa!Init, Asignados, Renunciaron
<1>2. ASSUME IInv, [Next]_vars
      PROVE  [Promesa!Next]_<<Asignados, Renunciaron, sol.estado = "cerrada">>
  <2>1. Clase
    BY <1>2, Clases DEF IInv
  <2>2. Acuerdo /\ Tipos /\ sol \in Sol
    BY <1>2 DEF IInv, Tipos
  <2>3. CASE Nada \/ Responde
    BY <2>3, QuietasIguales DEF Nada, Responde
  <2>4. CASE Nace
    BY <2>2, <2>4, SolAbierta, QuietasIguales DEF Nace
  <2>5. CASE MueveTrabajo
    BY <2>5 DEF MueveTrabajo, Asignados, Renunciaron
  <2>6. CASE Cierra
    <3>1. Asignados = {} /\ Asignados' = Asignados /\ Renunciaron' = Renunciaron
      BY <2>2, <2>6, QuietasIguales DEF Cierra, SinAsignar, Acuerdo
    <3>2. sol.estado # "cerrada" /\ sol'.estado = "cerrada"
      BY <2>2, <2>6, SolAbierta DEF Cierra, Abierta
    <3> QED BY <3>1, <3>2
  <2>7. ASSUME NEW p \in Prestadores, Toma(p)
        PROVE  [Promesa!Next]_<<Asignados, Renunciaron, sol.estado = "cerrada">>
    <3>1. Asignados = {}
      BY <2>2, <2>7 DEF Toma, SinAsignar, Acuerdo
    <3>2. Asignados' = {p} /\ Renunciaron' = Renunciaron /\ p \notin Renunciaron
      BY <2>2, <2>7, <3>1, TomaAsigna
    <3>3. sol.estado # "cerrada" /\ sol'.estado = sol.estado
      BY <2>7 DEF Toma, Abierta
    <3> QED BY <3>1, <3>2, <3>3
  <2>8. ASSUME NEW p \in Prestadores, Devuelve(p)
        PROVE  [Promesa!Next]_<<Asignados, Renunciaron, sol.estado = "cerrada">>
    <3>1. Asignados = {p}
      BY <2>2, <2>8 DEF Devuelve, Acuerdo
    <3>2. Asignados' = {} /\ Renunciaron' = Renunciaron \cup Asignados
      BY <2>8, <3>1, DevuelveLibera
    <3>3. sol.estado # "cerrada" /\ sol'.estado = sol.estado
      BY <2>8 DEF Devuelve, Abierta
    <3> QED BY <3>1, <3>2, <3>3
  <2> QED BY <2>1, <2>3, <2>4, <2>5, <2>6, <2>7, <2>8 DEF Clase
<1> QED BY <1>1, <1>2, Invariante, PTL DEF Spec, ImplementaAsignacion, Promesa!Spec
=============================================================================
