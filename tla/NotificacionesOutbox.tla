------------------------- MODULE NotificacionesOutbox -------------------------
(***************************************************************************)
(* How the queued notices of the turnos are delivered                      *)
(* (tus/calendar/turnos-notificaciones-outbox.ts): every process drains    *)
(* the same table.  A drain gives back the rows whose lease ran out, then  *)
(* reads, claims, delivers and records one row after another, each in an   *)
(* await of its own.  Instants are kept as what is left until them.        *)
(***************************************************************************)
EXTENDS Integers, FiniteSets

CONSTANTS
  Avisos,       \* queued notices, numbered by createdAt
  Procesos,     \* one drain at a time in each (procesamiento)
  Arriendo,     \* how long a claim lasts
  MaxIntentos,  \* attempts after which a failure is the last
  MaxDemora,    \* longest wait before the next attempt
  Limite,       \* rows of one drain
  MaxFallas     \* bound: crashes, failed writes and deliveries slower than the lease

ASSUME OutboxAssumption ==
  /\ Avisos \subseteq Nat /\ IsFiniteSet(Avisos) /\ IsFiniteSet(Procesos)
  /\ Arriendo \in Nat \ {0} /\ MaxIntentos \in Nat \ {0} /\ MaxDemora \in Nat \ {0}
  /\ Limite \in Nat \ {0} /\ MaxFallas \in Nat

VARIABLES
  fila,      \* the row of each notice
  proceso,   \* the drain of each process
  entregas,  \* how often the delivery of each notice was completed
  fallas

vars == <<fila, proceso, entregas, fallas>>

\* plazo: until it is available (pending) or until its lease ends (processing).
\* reclamo: every claim has an identifier of its own, here the attempt it makes.
Fila ==
  [estado : {"no", "pending", "processing", "published", "dead-letter"},
   intentos : Nat, plazo : Nat, reclamo : Nat]

SinFila == [estado |-> "no", intentos |-> 0, plazo |-> 0, reclamo |-> 0]

\* leidos: the attempts of the row when it was read.  hechos: rows of this drain.
Proceso ==
  [paso : {"libre", "buscar", "reclamar", "entregar", "anotar"},
   aviso : Avisos \cup {-1}, leidos : Nat, reclamo : Nat, bien : BOOLEAN, hechos : Nat]

Libre == [paso |-> "libre", aviso |-> -1, leidos |-> 0, reclamo |-> 0, bien |-> FALSE, hechos |-> 0]
Buscando(n) == [Libre EXCEPT !.paso = "buscar", !.hechos = n]

En(p, paso) == proceso[p].paso = paso
De(p) == proceso[p].aviso
Mueve(p, x) == proceso' = [proceso EXCEPT ![p] = x]

\* The claim of a process is still the one the row has.  (Variant: only that it
\* is being processed is asked.)
Suyo_Variante(p) == fila[De(p)].estado = "processing"
Suyo(p) == fila[De(p)].estado = "processing" /\ fila[De(p)].reclamo = proceso[p].reclamo

----------------------------------------------------------------------------
Init ==
  /\ fila = [a \in Avisos |-> SinFila]
  /\ proceso = [p \in Procesos |-> Libre]
  /\ entregas = [a \in Avisos |-> 0]
  /\ fallas = 0

\* encolar: its identifier (kind, row and version) is queued once.  A row of a
\* transaction may be seen after one that was created later.
Encolar(a) ==
  /\ fila[a].estado = "no"
  /\ fila' = [fila EXCEPT ![a].estado = "pending"]
  /\ UNCHANGED <<proceso, entregas, fallas>>

\* (Variant: what nobody finished is not given back.)
Vencida_Variante(a) == FALSE
Vencida(a) == fila[a].estado = "processing" /\ fila[a].plazo = 0

\* drenar starts by giving back what others left.
Despertar(p) ==
  /\ En(p, "libre")
  /\ fila' = [a \in Avisos |->
                IF Vencida(a) THEN [fila[a] EXCEPT !.estado = "pending", !.reclamo = 0] ELSE fila[a]]
  /\ Mueve(p, Buscando(0))
  /\ UNCHANGED <<entregas, fallas>>

Disponibles == {a \in Avisos : fila[a].estado = "pending" /\ fila[a].plazo = 0}

\* The oldest available row, if the drain may still take one.
Buscar(p) ==
  /\ En(p, "buscar")
  /\ IF proceso[p].hechos < Limite /\ Disponibles # {}
     THEN \E a \in Disponibles :
            /\ \A b \in Disponibles : a <= b
            /\ Mueve(p, [proceso[p] EXCEPT !.paso = "reclamar", !.aviso = a, !.leidos = fila[a].intentos])
     ELSE Mueve(p, Libre)
  /\ UNCHANGED <<fila, entregas, fallas>>

\* (Variant: the row is claimed by its identifier only.)
Reclamable_Variante(a) == TRUE
Reclamable(a) == fila[a].estado = "pending"

\* The conditional write: it looks at the state again, not at when it is available.
Reclamar(p) ==
  LET a == De(p)
      n == fila[a].intentos + 1 IN
  /\ En(p, "reclamar")
  /\ IF Reclamable(a)
     THEN /\ fila' = [fila EXCEPT ![a] = [estado |-> "processing", intentos |-> n, plazo |-> Arriendo, reclamo |-> n]]
          /\ Mueve(p, [proceso[p] EXCEPT !.paso = "entregar", !.reclamo = n])
     ELSE /\ Mueve(p, Buscando(proceso[p].hechos))
          /\ UNCHANGED fila
  /\ UNCHANGED <<entregas, fallas>>

\* Every notifier accepts it, or one fails.
Entregar(p, bien) ==
  /\ En(p, "entregar")
  /\ entregas' = IF bien THEN [entregas EXCEPT ![De(p)] = @ + 1] ELSE entregas
  /\ Mueve(p, [proceso[p] EXCEPT !.paso = "anotar", !.bien = bien])
  /\ UNCHANGED <<fila, fallas>>

\* It doubles up to a limit.
Demora(n) == IF 2^(n - 1) \in 1..MaxDemora THEN 2^(n - 1) ELSE MaxDemora

\* What is compared is the count that was read, not the one the claim wrote.
\* (Variants: one attempt early, and only exactly at the last one.)
Agotado_Antes(p) == proceso[p].leidos + 2 >= MaxIntentos
Agotado_Exacto(p) == proceso[p].leidos + 1 = MaxIntentos
Agotado(p) == proceso[p].leidos + 1 >= MaxIntentos

Anotada(p) ==
  LET f == [fila[De(p)] EXCEPT !.reclamo = 0] IN
  CASE proceso[p].bien -> [f EXCEPT !.estado = "published", !.plazo = 0]
    [] ~proceso[p].bien /\ Agotado(p) -> [f EXCEPT !.estado = "dead-letter", !.plazo = 0]
    [] OTHER -> [f EXCEPT !.estado = "pending", !.plazo = Demora(proceso[p].leidos + 1)]

\* The outcome is written by whoever still has the claim.
Anotar(p) ==
  /\ En(p, "anotar")
  /\ fila' = IF Suyo(p) THEN [fila EXCEPT ![De(p)] = Anotada(p)] ELSE fila
  /\ Mueve(p, Buscando(proceso[p].hechos + 1))
  /\ UNCHANGED <<entregas, fallas>>

----------------------------------------------------------------------------
\* A read or a write fails.  Recording a success is inside the try: when it
\* fails, what was delivered is recorded as a failure.  The rest ends the drain.
Fallar(p) ==
  /\ proceso[p].paso \in {"buscar", "reclamar", "anotar"} /\ fallas < MaxFallas
  /\ Mueve(p, IF En(p, "anotar") /\ proceso[p].bien THEN [proceso[p] EXCEPT !.bien = FALSE] ELSE Libre)
  /\ fallas' = fallas + 1
  /\ UNCHANGED <<fila, entregas>>

\* The process stops.
Caer(p) ==
  /\ ~En(p, "libre") /\ fallas < MaxFallas
  /\ Mueve(p, Libre)
  /\ fallas' = fallas + 1
  /\ UNCHANGED <<fila, entregas>>

\* Somebody is still delivering, or recording, when its lease ends.
Lentos == {p \in Procesos : proceso[p].paso \in {"entregar", "anotar"} /\ Suyo(p) /\ fila[De(p)].plazo = 1}

\* (Variant: time goes on below zero.)
Menos_Variante(n) == n - 1
Menos(n) == IF n > 0 THEN n - 1 ELSE 0

Tick ==
  /\ \E a \in Avisos : fila[a].plazo > 0
  /\ Lentos # {} => fallas < MaxFallas
  /\ fila' = [a \in Avisos |-> [fila[a] EXCEPT !.plazo = Menos(@)]]
  /\ fallas' = IF Lentos = {} THEN fallas ELSE fallas + 1
  /\ UNCHANGED <<proceso, entregas>>

----------------------------------------------------------------------------
Paso(p) ==
  \/ Despertar(p)
  \/ Buscar(p)
  \/ Reclamar(p)
  \/ \E bien \in BOOLEAN : Entregar(p, bien)
  \/ Anotar(p)

Next ==
  \/ \E a \in Avisos : Encolar(a)
  \/ \E p \in Procesos : Paso(p) \/ Fallar(p) \/ Caer(p)
  \/ Tick

Spec == Init /\ [][Next]_vars

\* The worker of every process drains again and again (crearWorker), every call
\* of a drain ends, and time passes.
Equidad == WF_vars(Tick) /\ \A p \in Procesos : WF_vars(Paso(p))

SpecViva == Spec /\ Equidad

----------------------------------------------------------------------------
TypeOK ==
  /\ fila \in [Avisos -> Fila]
  /\ proceso \in [Procesos -> Proceso]
  /\ \A p \in Procesos : proceso[p].paso \in {"reclamar", "entregar", "anotar"} => De(p) \in Avisos
  /\ entregas \in [Avisos -> Nat]
  /\ fallas \in 0..MaxFallas

\* However many processes drain at once, a notice is delivered once, and once
\* more at most for each time something failed, stopped or outlived its lease.
UnaEntregaSinFallas == \A a \in Avisos : entregas[a] <= 1 + fallas

\* The row tells the truth: published was delivered; given up had its attempts
\* and, unless something failed while it was recorded, was never delivered.
RegistroVerdadero ==
  \A a \in Avisos :
    /\ fila[a].estado = "published" => entregas[a] > 0
    /\ fila[a].estado = "dead-letter" =>
         fila[a].intentos >= MaxIntentos /\ (fallas = 0 => entregas[a] = 0)

\* The attempts compared are those that were read before the claim, which others
\* may have used meanwhile: each other process adds one to the limit at most, and
\* each failure one more.
ReintentosAcotados ==
  \A a \in Avisos : fila[a].intentos <= MaxIntentos + Cardinality(Procesos) - 1 + fallas

\* While its lease lasts only who claimed a row ends it, and what ended stays so:
\* who comes late writes nothing.
SoloSuDueno ==
  [][\A a \in Avisos :
       /\ fila[a].estado \in {"published", "dead-letter"} => fila'[a] = fila[a]
       /\ (fila[a].estado = "processing" /\ fila[a].plazo > 0 /\ fila'[a].reclamo # fila[a].reclamo) =>
            \E p \in Procesos : En(p, "anotar") /\ De(p) = a /\ proceso[p].reclamo = fila[a].reclamo /\ ~En(p, "anotar")']_vars

\* What was queued ends published or given up, whoever stops.
TodoSeResuelve ==
  \A a \in Avisos : fila[a].estado = "pending" ~> fila[a].estado \in {"published", "dead-letter"}
=============================================================================
