# A verification project for TUS

TLA+ specifications, TLC configurations and TLAPS proofs kept beside the TUS code base (`src/`): a marketplace where a client
books a turno (an appointment) with a provider, pays it online, and closes it once it was given. All paths below are relative
to `src/apps/api/src/tus/` unless they start with another directory.

- [1. The system](#1-the-system)
- [2. Modules](#2-modules)
- [3. Runs](#3-runs)
- [4. What is proved](#4-what-is-proved)
- [5. What the code does differently from what it says](#5-what-the-code-does-differently-from-what-it-says)
- [6. Not modelled, and why](#6-not-modelled-and-why)
- [7. Plan](#7-plan)

## 1. The system

One Express API over PostgreSQL (Prisma), run by any number of processes, with a Next.js web, a mobile application and a
WhatsApp assistant as clients. Mercado Pago collects payments and reports them by webhook. What matters here is that several
people (client, provider, administration), several processes (requests and timers) and an external provider write the same
few rows, in transactions of different isolation and with awaits between them.

| Component | State it keeps | Operations | Who it interacts with | What makes it hard |
| --- | --- | --- | --- | --- |
| Agenda of turnos: `calendar/turnos-service.ts`, `agenda.ts` | `reservas` (state, time, deadline, version), `excepciones_calendario` (blocks), the row of the calendar | request, accept, reject, cancel, change of state, reschedule, load by hand, force, block, unblock | finance confirms its rows; the closing completes them; notices go to an outbox | lazily expired deadlines, several writers, one lock and one exclusion constraint |
| Marketplace door: `calendar/bookings.ts`, `adapters/prisma-work.ts`, `prisma-calendar.ts` | the same `reservas`, and the works linked to them | book, cancel, no-show, accept or cancel a work with its reservation | the agenda, works | SERIALIZABLE against READ COMMITTED, no common lock |
| Closing of a work: `work/cierre.ts`, `adapters/prisma-cierres.ts` | one closing row for each work: end of window, confirmation, observation | finish, confirm, observe, settle, automatic confirmation | agenda (completes the turno), works (completes the work), finance (releases the money) | a chain of awaits run by requests and sweeps at once, cut by failures |
| Charge of a turno: `finance/servicios/*`, `calendar/turnos-sena.ts` | obligations by part (`sena`, `total`, `saldo`), intents, idempotency keys, inbox of events, settlements | checkout, dispatch, verified event, release, reversal, reconciliation, refund | Mercado Pago, agenda, closing | late, repeated and reordered events, stored answers, a way of paying that may be switched, a price that may change |
| Reminders: `calendar/turnos-recordatorios.ts` | one row for each reminder: pending, sending, sent, skipped, failed, invalidated | schedule, claim, send, answer | agenda, WhatsApp | at most one send although processes stop; rescheduling in between |
| Notices: `calendar/turnos-notificaciones-outbox.ts` | outbox rows with lease | queue, claim, deliver, retry | agenda, closing, WhatsApp, e-mail | duplicates by key, lease shorter than a delivery |
| Works and requests: `work/index.ts`, `solicitudes/` | works, budgets, messages, requests | propose, accept, start, finish, cancel, rate | agenda, finance, closing | versions and optimistic writes |
| Urgent requests: `urgentes/` | a request, its offers, its assignment | offer, take, reject, give back, expire | works, WhatsApp | many takers, one winner, reopening |
| Earnings and payouts: `finance/servicios/ganancias.ts` | movements of each provider, payout requests | credit, debit, request, process, pay, fail, adjust | finance, Mercado Pago payouts | a transfer whose answer is lost; money reserved while it is debited |
| Accounts of collection, configuration: `finance/servicios/cuentas-cobro.ts` | OAuth credentials of sellers, policies | connect, refresh, revoke | Mercado Pago | token refresh by two processes |
| Lodging: `alojamientos/` | searches, quotes, reservations | search, quote, book, manage | external provider | outcome of a call that timed out |
| Identity verification: `identidad/` | documents, jobs with lease | submit, claim, analyse, decide | external analysis | retries, lease |
| Assistant: `asistente/`, `whatsapp/` | conversations, links of numbers to accounts | every operation above, by message | all | repeated webhooks, confirmation of one intent by another message |
| Commerce, delivery, point of sale, billing, support, catalogue, directory, profile, reputation | their own rows | CRUD and small state machines | each other | idempotency, stock |
| Platform: `src/apps/api/src/platform` | jobs, outbox, idempotency records, quotas, assets | claim, retry, publish | all | leases and limits |
| Authentication: `src/apps/api/src/auth-security` | sessions, refresh families, codes, passkeys | login, rotate, verify | all | rotation of one token by two requests |

What makes the modelled ones correct, in one sentence each:

- **Agenda**: no two turnos that hold their time overlap; TUS bookings keep the rest of the service; a turno that was accepted
  is never under a block; states change as the contract allows; nothing with a deposit is confirmed without its payment; every
  event is told once.
- **Marketplace door**: what it decided on an old read never brings a turno back; a work that is called off takes its reservation with it.
- **Closing**: a confirmation is final, told once and never early; nothing is released or completed before delivery, closing
  and payment; a window that ran out is eventually confirmed.
- **Charge**: deposit and total exclude each other; a part is charged once, never above the price; what is released was
  delivered, closed, paid in full and not reversed.
- **Urgent requests**: one provider at a time has it and who gave it back never has it again; the request, its offers and its
  work name the same provider; who closes it tells its client, once, and then nobody has it; it never waits for ever.
- **Earnings and payouts**: a payout pays exactly the movements it took and none of them twice; money that was sent once leaves or goes back, never both.
- **Reminders**: a reminder leaves at most once, never for a time the turno does not have, and its row says what happened.
- **Notices**: a notice that was queued is delivered or given up in the end, once and once more at most for each thing that
  went wrong, and its row says which.

Some of these sentences the code keeps only up to an exception: the property then names exactly that exception, and section 5 says
how it comes about. The most important one is that the lock of the calendar is not a lock of the turno: a change of a turno is
read under that lock and written later by its identifier, over whatever the closing, a payment or the marketplace made of it.

The hazards behind those sentences are listed, at the lines where they bite, in `PROJECT.json`.

## 2. Modules

| Module | Stands for | State |
| --- | --- | --- |
| `EstadosTurno` | the states of a turno and the transitions of the contract (`src/packages/contracts/src/tus-turnos.ts`) | none |
| `Agenda` | the agenda of ONE provider | rows, blocks, order of the turno, approved payment, closing, notices, what is about to be written, clock |
| `AgendaMercado` | `Agenda` with the marketplace door | adds works and the SERIALIZABLE transaction in flight |
| `Cierre` | how the order of a turno is closed | closing rows, where each request and sweep is, what was completed, released and told |
| `CobroTurno` | how one turno is charged | obligations, intents, stored answers, what Mercado Pago collected, settlements, the turno meanwhile |
| `AsignacionUrgente` | what an urgent request promises, seen from outside (abstract) | who has it, who gave it back, whether it closed |
| `Urgentes` | one urgent request, its offers, broadcasts and work; implements `AsignacionUrgente` | the row of the request, the offer of each provider, the work, every call, broadcast and sweep in flight |
| `Ganancias` | the ledger of one provider and its payouts | movements, held payments, payout requests and their items, what Mercado Pago has, calls in flight |
| `Recordatorios` | the reminders of one turno for one recipient | the turno, a row for each kind and time, the sweep of each process |
| `NotificacionesOutbox` | how the queued notices are delivered | a row for each notice, the drain of each process, deliveries, mishaps |
| `Sumas` | amounts added up, used by `CobroTurno` and `Ganancias` | none |
| `SumasProofs` | lemmas: what a sum over any finite set is, and how it changes when its set or its amounts do | |
| `AgendaProofs` | theorems about `Agenda` and `AgendaMercado` | |
| `CierreProofs`, `CobroProofs`, `UrgentesProofs`, `GananciasProofs`, `RecordatoriosProofs`, `NotificacionesOutboxProofs` | theorems about `Cierre`, `CobroTurno`, `Urgentes`, `Ganancias`, `Recordatorios` and `NotificacionesOutbox` | |
| `MCAgenda`, `MCAgendaMercado`, `MCCierre`, `MCCobroTurno`, `MCUrgentes`, `MCGanancias`, `MCRecordatorios`, `MCNotificacionesOutbox` | small instances for TLC | |

The definitions keep the names of the code where it has one (`responderSolicitud` accepting is `AceptarLee` and `Escribir`, the prologue of
`conAgendaBloqueada` is `Vencidas`, the WHERE of `ex_reservas_sin_solapamiento` is `EnRestriccion`, and so on);
`PROJECT.json` maps each one to its lines. A definition that ends in `_Variante` (or is marked "Variant") is a plausible
mistake in the definition that follows it: replacing one by the other must break the property it is paired with.

### Agenda

Time is a natural number; a turno is a half-open range. A write of `TurnosService` runs inside `conAgendaBloqueada`, at READ
COMMITTED: it takes the row of the CALENDAR, expires what is overdue, decides, and writes, in one transaction. The lock keeps other
writes of `TurnosService` away and nobody else, so what changes a turno that exists is two actions: its reads (`AceptarLee`, `RechazarLee`,
`CancelarClienteLee`, `CambiarEstadoLee`, `ReprogramarLee`), which leave in `escritura` the state they read and what they are about to
write, and `Escribir`, the update by identifier, of the row as it is by then and only of the columns the update names; or `Deshacer`,
when it fails. While `escritura` is not empty no other action that takes the calendar is possible. What only inserts (a request, a turno by
hand, a block) is one action, because nobody can change a row that is not there; both kinds start from `Vencidas`, so expiry is
never a separate choice. What does not take the calendar runs in between, as in the code: the approved payment (`PagoAprobado`, the finance
transaction), removing a block (`QuitarBloqueo`), the notices after a webhook, and the closing, which reads in one step
(`FinalizarLee`) and writes in another (`FinalizarCrea`, `CompletarReserva`). `CancelarClienteLee` receives whether its rule was read before
the last minute began, because the code reads it before the lock. The database is modelled by what it refuses: `SinChoque` is the
exclusion constraint.

Abstractions: one service with one duration (ranges of any length exist for turnos loaded by hand or forced); weekly hours
and time zones are the set `Inicios`; a guest is one client without account; whether a deposit is due (`conSena`) is fixed
when the request is made. A notice is its kind with the version of the row, which is its key in the outbox.

### AgendaMercado

`bookInternal` and the acceptance of a work are SERIALIZABLE: they decide on a snapshot and fail if a row they update changed.
Each is two actions, the reads (`ReservarLee`, `AceptarTrabajoLee`) and the commit (`ReservarEscribe`,
`AceptarTrabajoEscribe`), or `Abortar`; two of them conflict, so one is in flight at a time. The agenda itself runs at READ
COMMITTED, so PostgreSQL detects only what a SERIALIZABLE transaction finds changed in a row it updates; the agenda detects nothing, and
its `Escribir` lands on whatever the marketplace committed since the read. The rows the agenda expired and has not committed (`Tomadas`) make
who writes them wait. Cancelling, no-show and cancelling a work read and write the same row and are one action each. There is one place
per slot. The marketplace keeps blocks as the calendar date they start on (`FechaBloqueada`), as its code does.

### Cierre

Every await of `aplicarConfirmacion` is one action and `hilo` says where each request or sweep is: look for the closing, look
at the turno, the conditional write (`Gana`), read again, complete the reservation, complete the work if paid, evaluate
payments. A sweep reads the list of overdue closings once (`IniciarBarrido`) and goes through it, so everything it knows may
be old. `Fallar` fails any await, `Caer` stops a process. `Observar` and `ResolverObservacion` are the two sides of a
complaint; the agenda calls the turno off in two steps, the read of a confirmed turno (`BajaLee`) and the write by identifier, whatever it has become
(`BajaEscribe`, or `BajaFalla`), so it may land on a turno whose money was released: `pisado` remembers those. `PagarSaldo` is the last payment arriving and `Frenar` a refund or
discrepancy that blocks. Payments are not reversed in this module.

### CobroTurno

One database transaction of the finance service is one action. What runs between transactions is split: creating a checkout
calls Mercado Pago between the claim (`PedirPorTurno`, `PedirPorTrabajo`) and the record (`RegistrarDespacho`), and
what calls a turno off (`BajaLee`, `BajaEscribe`) or changes its price reads before it writes. `PedirPorTurno` is the door of the turno with its constant key for
each part (`clave` is the stored answer); `PedirPorTrabajo` is the route of the order and the assistant, with a fresh key.

Mercado Pago is external and as hostile as the code must expect: any address ever created may be paid, by any number of
payments, after it was cancelled too; a payment may be reversed; and every state a payment is or was in may be reported any number of
times in any order (a superset of what the inbox of events lets through). Prices are even numbers, half pesos, so the 50 %
deposit is exact, as it is in the code for whole pesos.

Abstractions: the platform collects; a no-show is a
cancellation; one flag says both that the payment window ran out and that the turno began, because an unpaid turno is expired
before anything else is decided about it; creating the intent and claiming its dispatch is one step, since nothing external
happens in between; the failed attempts of a hosted checkout change nothing and are left out. The command that asks Mercado
Pago for a refund, commission, ledger and earnings are left out.

### Urgentes

The store decides each operation with one conditional write in one transaction: `Tomar` (the request, every offer, the index
of the winner and the work), `Renunciar`, `Cerrar`. What a call reads before it is a step of its own: the clock of `asistir`
(`PedirTomar`), the reads of `rechazar` (`RechazarLee`), and its write and its commit apart (`RechazarEscribe`,
`RechazarConfirma`), because the count of who is left to answer runs at READ COMMITTED and does not see what others have not
committed; `Trabadas` are the rows such a transaction holds, and who writes them waits. A broadcast (`tanda`, one for each round)
is a background task of the call that started it: it marks its candidates one by one, in any order, and the round that reached
nobody closes the request. The first one is part of the creation, whose answer to the client says "sin candidatos" whether or not it was who closed the request
(`RespondeSinCandidatos`): the docs call that answer the notice of this closing, so it is counted, and `avisos.sinCerrar` says when it was
given without having closed anything. Each sweep lists what ran out (`ListarVencida`) and closes it later (`CerrarVencida`). `CaerTanda`,
`CaerPedido`, `CaerBarrido` stop a process anywhere.

Time is how many ticks are left (`resta`); a renunciation grants a new stretch, also to a call that had read its clock before,
since its transaction compares with the new limit. Candidates are any set of providers. The work is what decides here: none,
alive, released by its provider or cancelled by another, with something on it or not.

`AsignacionUrgente` has three actions (assign, give back, close) over three variables. `Urgentes` implements it under the mapping
in `Promesa`: who has an accepted offer, who has a renounced one, whether the request is closed.

### Ganancias

The ledger is a set of movements, each booked once (`earning`, `fee`, `reversal` of an obligation, `adjustment`, and the three of
a payout request). What the finance service books (`Aprobar`, `DebitarTarifa`, `Revertir`, `LiberarRetencion`) runs at READ
COMMITTED; a payout request is created at SERIALIZABLE, so it is the snapshot (`SolicitarLee`) and the commit
(`SolicitarEscribe`), which fails only if another request was made. Every other operation reads its request (`Leer`, with the
conditions of each in `Admite`), may await Mercado Pago, and writes on condition of the version it read (`Mover`, `Vigente`).

Mercado Pago Payouts is external. It takes a sending or took it before under the same key (`MPAcepta`), answers 4xx (`MPRechaza`: because it
will never take that transfer, or to this sending only, whatever it did with another, as with 401, 409 or 429),
or answers nothing useful (`MPNoResponde`, `Caer`), in which case the sending may still arrive, any time later (`LlegaTarde`). It ends what it took
as accredited or failed (`MPTermina`). `reenvios` counts, for the properties only, how often a request was sent again.

### Recordatorios

Every await of `procesar` is an action of the sweep of a process: close what was taken too long ago, invalidate what belongs to
another time, read the turno, compute the rows it has not got, list what is due, and for each one read the turno, take the row,
write to the channel, record. The sweep works with the clock it read when it began. The turno is written by the agenda
meanwhile; moving it invalidates its pending rows in the same transaction. Each row is one kind for one time, which is its unique
index. One recipient is modelled, as rows of two recipients never meet; the limits of a sweep (500 turnos, 50 rows) are above what
there is.

### NotificacionesOutbox

Each process has one drain at a time. It gives back the rows whose lease ran out (`Despertar`), then reads the oldest
available row (`Buscar`), claims it on condition that it is still pending (`Reclamar`), delivers (`Entregar`) and records the
outcome on condition that the claim is still its own (`Anotar`): one action for each await, so what a drain knows of a row may be
old at every one. `Fallar` is a read or a write that fails, `Caer` a process that stops. An identifier of a claim is random and
never repeats; here it is the attempt it makes. Instants are kept as what is left until them (`plazo`), so time has no horizon.
A delivery is counted when every notifier accepted it; one that failed halfway counts as none, and the notifiers that had
accepted it are called again. What queues a notice, with the key that makes it unique, is in `Agenda`.

## 3. Runs

States are distinct states. "Violation" runs check one sentence the repository says and the code does not do; see section 5.

| Run | Instance and bounds | Shows |
| --- | --- | --- |
| `agenda` | 2 turnos, 1 client and a guest, 1 block, 3 starts, rest 1, validity 2 and 1, window 1, clock to 2, at most 1 move; 451 716 states up to `Vista` | `SinSolapamiento`, `DescansoEntreTurnos`, `AceptadoNoBloqueado`, `NadieConfirmaGratis`, `UnAvisoPorSuceso`, `CambiosSegunContrato` |
| `agenda_mercado` | 2 turnos, 2 starts, 1 block, days of 2 hours, no move; 724 050 states | `SinSolapamiento` through both doors, `LoFinalSoloLoPisaLaAgenda`, `TrabajoCanceladoSueltaLaReserva` |
| `cierre` | 1 work, 2 requests, 1 sweep, 1 failure, clock to 3; 1 982 352 states | `EfectosSoloCerrados`, `UnSoloAviso`, `AutomaticaSoloVencida`, `CierreSoloAvanza` |
| `cierre_vivo` | 2 works, the sweeps of 2 processes, limit 2, 1 failure; 1 313 440 states | `VentanaSeCumple` under fairness |
| `cierre_efectos` | 1 work, 1 sweep, 1 failure | violation of `EfectosSeCompletan` |
| `cobro` | 1 request in flight, 2 payments, prices 2, 4 (booked) and 8, 2 intents for each part, 1 change of price, at most 2 mishaps and 5 mishaps and intents together; 475 258 states | `UnaFormaDePagar`, `UnSoloCobroPorTramo`, `CobradoNoExcede`, `LiberadoSoloSiPagado`, `SeLiberaConTodoPagado` |
| `urgentes` | 2 providers, 2 calls, 1 sweep, 1 reopening, 1 tick, 1 failure; 1 230 562 states | `ImplementaAsignacion` (refinement), `FilasDeAcuerdo`, `AvisoDeCierreVerdadero`, `NoSeDeshaceUnNo`, `NoQuedaEsperando` under fairness |
| `ganancias` | 1 collected payment, 1 adjustment, 2 payout requests, 2 calls, minimum 2, each request sent again once, statuses stored up to version 4; 4 270 061 states | `ReservaExacta`, `SaleOVuelveSalvoReenvio` |
| `recordatorios` | 2 times, 2 processes, 2 changes, 1 failure, clock to 3; 3 050 000 states | `UnEnvioYAuditado`, `FechaViejaNuncaSeToma` |
| `outbox` | 2 notices, 2 processes, lease 1, 2 attempts, delay 1, 2 rows for each drain, 2 mishaps; 743 565 states | `UnaEntregaSinFallas`, `RegistroVerdadero`, `ReintentosAcotados`, `SoloSuDueno`, `TodoSeResuelve` under fairness |
| `cobro_reelegir` | 1 payment, one price | violation of `LoEntregadoSePuedePagar` |
| `ganancias_rechazo` | that of `ganancias` | violation of `LiberadoNoSalio` |

Why these bounds are enough to be interesting. Every property of the agenda is about one row or about a pair of rows and a
block, so two turnos and one block make every case; the starts 1, 2, 3 with duration 1 and rest 1 give touching, resting and
separate times, and the clock passes the validities and the window. `Vista` and `Simetria` make it
smaller without losing a case: a row that gave its time back is never written again in this run, so its time, its deadline and how it was made
decide nothing, nor does the deadline of a row that does not wait. One holder of the calendar is all there can be, and every change of the other writers fits between
its read and its write. With the marketplace, one turno can be written by the agenda while a transaction about it is in flight, and by the marketplace while
the agenda is about to write it. One work is enough for the safety of its closing, which never relates two works; two
works and two sweeps make the order of a list matter for liveness. Two payments can collect the same part twice, the deposit
and the total, or the deposit and the balance, and the price can move below and above what was paid. `PocosSobresaltos` bounds
how many mishaps (reversals, parts in quarantine, changes of price, turnos called off or about to be) meet in one behaviour of `cobro`: any two do, with three
attempts to pay (deposit, total, deposit again), one with four (and the balance), and none with five.
One request in flight is enough because a second one would only add that an address is recorded after a part was cancelled, which
is the same as before it. Two providers and two calls make every race for an urgent request (two takers, a taker against a refusal, a refusal against
another), and three rounds with one reopening allowed reach the limit of reopenings. Two payout requests and two calls give two
requests at once, a request after a failed one, and a resend against the first sending, a refresh or an end; one payment with its fee and reversal and one
adjustment leave the balance zero, below the minimum or negative. Two times let a turno be moved away and
back; two sweeps, one of which may stop, overlap at every await. Two processes
reach every race for a notice (both read it, one claims it, the lease of one ends while the other drains), two attempts tell the last
from the one before, and two mishaps put one inside another; two notices make the order of a drain matter.

`MaxVersion`, `MaxReenvios`, `Horizonte`, `MaxFallas`, `MaxIntentos`, `MaxCambios`, `MaxSobresaltos` and `MaxTropiezos` are bounds of the model, not
of the code. `CHECK_DEADLOCK FALSE` everywhere but in `recordatorios` and `outbox`, whose sweeps go on for ever: a turno or a request that ended has nothing left to
do, and the clock stops at its bound.

Fairness (`Cierre!Equidad`). The timer of `src/apps/api/src/server.ts` (466-483) starts a sweep every minute in every process:
weak fairness of `IniciarBarrido`; what was started goes on (`Paso`) unless it fails; time passes. Nobody is obliged to ask for
anything, and failures are bounded, because with infinitely many nothing is ever confirmed. `VentanaSeCumple` needs one more
assumption that the instance makes visible: the limit of a sweep (50) is above the number of closings it finds. With `Limite`
closings blocked for ever, every sweep reads those and the rest is never looked at.

Fairness (`Urgentes!Equidad`). The sweep of urgent requests runs every 30 seconds in every process (504-522): weak fairness of listing
and of closing; a transaction that began ends, because the database ends it (`RechazarConfirma`); time passes. No provider has to answer, no
broadcast has to end, and calls may stop anywhere: what remains is enough for `NoQuedaEsperando`.

Fairness (`NotificacionesOutbox!Equidad`). The worker of every process drains, waits two seconds and drains again, also after a failure
(`calendar/turnos-notificaciones-outbox.ts:124-134`), and each of its calls ends: an e-mail is given up after 8 seconds
(`src/apps/api/src/auth-security/adapters/email/email-senders.ts:99`). Hence weak fairness of the steps of each process, and of time. A
delivery that outlives its lease of 30 seconds is possible (several reads and channels) and is counted among the mishaps, like a
crash or a failed write; with infinitely many of them nothing has to end, as section 5 says.

Each property of a passing run has a mutant in `PROJECT.json`: one definition of the model replaced by its variant makes TLC
find the property violated, so none of them holds just by the shape of the model.

## 4. What is proved

Every invariant and every action property of the runs that pass is also a theorem, as is the refinement: TLC shows it on the instance of
section 3, the theorem for every value of the constants. What is left to TLC is at the end of this section. The proofs assume nothing
but the named `ASSUME` of each module, which TLC evaluates on every run.

| Module | Theorems | Assumes |
| --- | --- | --- |
| `Agenda` | 7 | hours and durations are natural, ranges are not empty, finitely many turnos |
| `AgendaMercado` | 3 | the same, and days of some length |
| `Cierre` | 5 | finitely many works, which are numbered; a request is not a sweep; window and limit of a sweep positive |
| `CobroTurno` | 6 | prices are even and positive, finitely many payments, limits natural, and "none" is no payment and no part |
| `Urgentes` | 5 | finitely many providers, limits natural |
| `Ganancias` | 3 | finitely many payments and adjustments, whole amounts |
| `Recordatorios` | 3 | times and limits are natural |
| `NotificacionesOutbox` | 5 | finitely many notices and processes, limits natural |

`AgendaProofs` proves about `Agenda`, for every number of turnos, clients and blocks and every value of the other constants
that satisfies `AgendaAssumption` (natural hours, positive durations and validities, ranges that end after they start):

| Theorem | Says |
| --- | --- |
| `TiposCorrectos` | `Spec => [](TypeOK /\ Rangos)`: well typed, and no row ends before it starts |
| `NadieSeSuperpone` | `Spec => []SinSolapamiento` |
| `LoEscritoSigueElContrato` | `Spec => CambiosSegunContrato` |
| `NadaSeConfirmaGratis` | `Spec => []NadieConfirmaGratis` |
| `SiempreHayDescanso` | `Spec => []DescansoEntreTurnos` |
| `LoAceptadoNoSeBloquea` | `Spec => []AceptadoNoBloqueado` |
| `CadaSucesoSeAvisaUnaVez` | `Spec => []UnAvisoPorSuceso` |

The argument. What is about to be written was decided on a row that others may have changed since, so the invariant says what
is still known of it. `EnVuelo`: the row was there, open, and what it becomes is allowed from the state that was read, with a deposit or not as the row
has. It holds whoever writes in between. `AlDia` holds for the agenda alone, where only the payment and the closing do: a row read as pending
still is; one read as waiting for its payment may be confirmed or given; one read as confirmed may be given. `Base` is `Tipos` (`TypeOK` and `Rangos`) with
`EnVuelo`, and under it every step is of one of three kinds (lemma `Paso`):

- `PasoQuieto`: every row *inherits*: it keeps its time and its deposit, and its state stays or moves as the contract
  allows, to confirmed with a deposit only if it was paid (`Hereda`);
- `PasoFila`: one row is new and takes a time that the exclusion constraint accepted against the table after the step, and the others
  inherit;
- `PasoEscrito`: one row is written with what was decided, and if it holds its time the constraint accepted it; the others inherit.

The first three properties and `NadieConfirmaGratis` then follow from the kinds without looking at the writers again: a row that inherits
held its time before if it holds it now, so two of them were apart already; a row that is new or written is apart from the others
because the constraint says so, however old what it was decided on. `Rangos` is the strengthening `SinSolapamiento` needs, since moving a turno keeps
its length; `AlDia` is what leaves a turno given meanwhile as the only one written over.

The rest and the blocks are in no constraint, so they need what a step looked at. `LugarInv` adds to `AgendaInv` those two properties,
`Admitidas` (only what TUS offers can be moved, and it lasts what the service lasts, which is why the check of a move, made for that duration,
is a check of the row) and `QuedaLugar`: what is about to take a time was decided with room for it (`HayHueco`) and there is room still, because
who adds a turno or a block waits for the calendar and nobody else takes time. A step either takes nothing (`Tranquilo`: who keeps a row keeps its
place) or places one row where there is room (`Ubica`). The step that adds a block is the remaining case: it looked at every accepted row, and nothing was
about to be written. For the notices, a step says nothing new about a turno (`Calla`), answers it (`Responde`) or cancels it (`Cancela`); `Avisado` says
that the notice of a cancellation is there exactly when the turno is cancelled, and that who still has to be answered was not.

About `AgendaMercado`, with the same assumptions:

| Theorem | Says |
| --- | --- |
| `NadieSeSuperponeMercado` | `SpecMercado => []SinSolapamiento` |
| `LaReservaSigueAlTrabajo` | `SpecMercado => TrabajoCanceladoSueltaLaReserva` |
| `LoFinalSoloCambiaPorLaAgenda` | `SpecMercado => LoFinalSoloLoPisaLaAgenda` |

The argument. What the transaction in flight read is never trusted: its commit looks again at the state of the rows it updates, and at
the constraint. What the agenda is about to write may land on anything, and only what `EnVuelo` says of it is known. So a step of both doors together is one
where the rows only advance (`PasoSinFila`) or one where a row, new or written as it was decided (`Pisa`), takes a time the constraint accepted
(`PasoConFila`). `Enlazados` is the strengthening `TrabajoCanceladoSueltaLaReserva` needs: a row with a work is past waiting, so when its work
is called off its reservation is withdrawn unless it already was, and the only decision that could confirm it again was taken on a read from before.
The rest and the blocks are theorems of the agenda alone: through this door they are false (section 5).

`SumasProofs` has no property of its own. `Suma` is a recursion over the subsets of a set that takes out a member at a time, and the
library's induction theorems take an operator as a parameter, which the provers cannot use. The lemmas get induction from a fact about sets
instead: the naturals are well founded, so a set of natural numbers that is not empty has a least one (`HayMinimo`), hence a set of numbers with 0 and every
successor has them all (`InduccionNat`). With the good cases as a SET the recursion is shown to exist, and the sum not to depend on the member
taken out; then to split over sets that are apart, to keep its sign and to change by one term.

`CobroProofs` proves about `CobroTurno`, for any requests, payments, prices and numbers of attempts:

| Theorem | Says |
| --- | --- |
| `TiposCobro` | `Spec => []TypeOK` |
| `UnaSolaFormaDePagar` | `Spec => []UnaFormaDePagar` |
| `CadaTramoSeCobraUnaVez` | `Spec => []UnSoloCobroPorTramo` |
| `SoloSeRetiraLoPagado` | `Spec => []LiberadoSoloSiPagado` |
| `NoSeCobraDeMas` | `Spec => CobradoNoExcede` |
| `SoloSeLiberaConTodoPagado` | `Spec => SeLiberaConTodoPagado` |

The argument. `IInv` is the types, `UnaFormaDePagar`, `LiberadoSoloSiPagado` and what `UnSoloCobroPorTramo` says without counting: one
approved attempt for each part at most (`UnaAprobada`), and one exactly for the parts that were charged (`CobradaSiAprobada`). Everything
hangs on the attempt and its part being written together: an approval is accepted only of an attempt that is still
open, whose part is then owed, so a part is charged once; choosing the other way of paying voids the part and closes its attempt in one transaction, so an
attempt never outlives what it would pay; a balance is owed only after a part was charged, when the way of paying cannot be switched
any more. "Delivered" is `Entregada`: the turno was completed, also if a call-off that had read it confirmed wrote over it afterwards;
`pisada` is what makes that stable, since the code keeps no trace of it in the turno. `NoSeCobraDeMas` adds up the parts with `SumasProofs`: only an approval makes what was paid grow, by the amount that was compared with the price
before (`CobroDelPaso`).

`UrgentesProofs` proves about `Urgentes`, for every finite set of providers, any calls and sweeps, and every value of the other
constants that satisfies `UrgentesAssumption`:

| Theorem | Says |
| --- | --- |
| `TiposUrgentes` | `Spec => []TypeOK` |
| `LasFilasConcuerdan` | `Spec => []FilasDeAcuerdo` |
| `ElAvisoDeCierreEsVerdad` | `Spec => []AvisoDeCierreVerdadero` |
| `UnNoQuedaDicho` | `Spec => NoSeDeshaceUnNo` |
| `LaAsignacionSeCumple` | `Spec => ImplementaAsignacion`: `Urgentes` implements `AsignacionUrgente` |

The argument. Seen through its offers, its row and its work, every step is of one of seven kinds (`Clases`): only offers nobody has
change, its creation answers without having closed it, the request is made, its work moves, a provider takes it, the provider gives it back, or it closes while nobody has it.
The inductive invariant is `Tipos` with five facts. `Fases`: what the row is before the request exists and after it closed, and what was told of it.
`Respondida`: the answer of the creation ends the first broadcast, which never starts again, so it is given once.
`Candados`: a rejection that was written and not committed holds an offer that still waits, and only one does; without it a
refusal could be written over. `Acuerdo`: `FilasDeAcuerdo` with the provider named. `Cuenta`: it was given back as often as providers gave it
back, which bounds the reopenings and keeps the rounds in their range. The refinement then needs only that whoever takes the request has
not given it back, that closing finds nobody with it, and that every other kind leaves the mapped values alone.

`CierreProofs` proves about `Cierre`, for any finite set of works, any requests and sweeps, and every value of the other constants
that satisfies `CierreAssumption` (works are numbered, a request is not a sweep, window and limit are positive):

| Theorem | Says |
| --- | --- |
| `TiposCierre` | `Spec => []TypeOK` |
| `LosEfectosEsperanElCierre` | `Spec => []EfectosSoloCerrados` |
| `ElClienteSeEnteraUnaVez` | `Spec => []UnSoloAviso` |
| `LaAutomaticaEsperaSuVentana` | `Spec => AutomaticaSoloVencida` |
| `ElCierreSoloAvanza` | `Spec => CierreSoloAvanza` (a confirmation is final, a window never restarts) |

The argument. Every step leaves the threads alone or moves one of them in one of four ways (`MueveHilo`: it goes on, writes, starts,
or lets go), and moves at most one row in one of five (`Fila`: made, observed, settled, confirmed by its client or automatically,
each on its own condition). The inductive invariant `IInv` adds to the properties what a thread *knows* at each await
(`Conoce`): after its read the work is confirmed; the works a sweep has left were made and their window ran out. Each stays
true while others write, because a row only grows (`Crece`), which is why the stale list of a sweep does no harm. `Cerradas` says
that a confirmed row has no open observation, so no disjunct of `Fila` applies to it; and `Avisados`, that at most one thread won
a work and that it has not told it yet, which is the part `UnSoloAviso` lacks to be inductive. `ListaBien` shows that the list of a
sweep is well defined: the places of the overdue closings are an injection into their number, hence onto it.

`NotificacionesOutboxProofs` proves about `NotificacionesOutbox`, for any finite set of notices and of processes and every value of
the other constants that satisfies `OutboxAssumption`:

| Theorem | Says |
| --- | --- |
| `TiposOutbox` | `Spec => []TypeOK` |
| `LaFilaDiceLaVerdad` | `Spec => []RegistroVerdadero` |
| `QuienLlegaTardeNoEscribe` | `Spec => SoloSuDueno` |
| `UnaEntregaYLasFallas` | `Spec => []UnaEntregaSinFallas` |
| `LosIntentosSeAcaban` | `Spec => []ReintentosAcotados` |

The argument. The inductive invariant adds to the types what a drain knows of its row (`Conoce`): it read no more attempts than the
row has, its claim is newer than what it read, what it says it delivered was delivered, and until something fails its claim is in
force. That stays true while others write because no two drains have the same claim (`Distintos`), which holds because a
claim is the attempt it makes and a row only gains attempts (`Crece`). `FilaCierta` says of the row that what was delivered is
recorded, or about to be by whoever delivered it; with it, a row given up without mishaps was never delivered.

The two bounds need a count (`Cuentas`), and both are paid the same way: a claim in force (`Vigente`) ends by the record of its owner or with a
mishap (`SigueVigente`). `CuentaEntregas` counts the deliveries done and those about to be made: at most one more than the mishaps, and no
more than them unless the row is `Cubierto`, that is, it ended or who delivered it, or will, has a claim in force; while it is,
nobody claims it for free. `CuentaIntentos` counts the attempts made and those of whoever is about to claim with attempts left by what it
read; the one that is missing until the row is at its `Ultimo` attempt is what makes the bound `Cardinality(Procesos) - 1` and not
`Cardinality(Procesos)`.

`RecordatoriosProofs` proves about `Recordatorios`, for any times, any number of processes, changes and failures:

| Theorem | Says |
| --- | --- |
| `TiposRecordatorios` | `Spec => []TypeOK` |
| `CadaRecordatorioSaleUnaVez` | `Spec => []UnEnvioYAuditado` |
| `NuncaLaFechaVieja` | `Spec => FechaViejaNuncaSeToma` |

The argument. A row only goes forward (`AvanzaFila`), so one that is still to be sent was never in anybody's hands. A step is *serene*
(`Sereno`) if it neither begins nor ends a sending; all are but taking a row, sending, recording and stopping. `FilaBien` says of each row that it left
once at most, that one process sends it and what that process may still write about it. `Conocidas` has what
`FechaViejaNuncaSeToma` needs: the row a sweep is about to take is of the time the turno has, as long as it is still to be sent, because
the move that would make that false invalidates the row in its own transaction.

`GananciasProofs` proves about `Ganancias`, for any payments, adjustments and amounts, any number of payout requests and of calls,
and whatever Mercado Pago answers:

| Theorem | Says |
| --- | --- |
| `Invariante` | `Spec => []IInv` |
| `SoloUnReenvioSaleYVuelve` | `Spec => []SaleOVuelveSalvoReenvio` |
| `TiposGanancias` | `Spec => []TypeOK` |
| `CadaPagoLoSuyo` | `Spec => []ReservaExacta` |

The argument. `SaleOVuelveSalvoReenvio` is not inductive: it says nothing of the calls that are about to write. `IInv` adds what each call
*knows* of the request it read (`Sabe`): its version is not newer than the row's; while it is still the row's, the row is in the
state that admitted the call; an answer it holds is what Mercado Pago said, and that was the end of it there. `FilaCierta` adds that a request never given
to Mercado Pago is unknown to it, has nothing in flight and has no ids. What a call knows survives the writes of the others because a row
changes only with its version and an end in Mercado Pago is for ever (`Crece`); `Contiguas`, that the requests are numbered without
gaps, is why a new one overwrites none. What `IInv` cannot give is that a refusal concerns all there is: that is `Unicas`. Of a request nobody sent again
one call is at its sending, at most; and while it is, or was refused, or its funds were given back without its ids, Mercado Pago has nothing of it and nothing may still
arrive. A resend is where this stops being true, and the exception of the property is exactly that.

The accounts (`CuentasInv`) are kept whatever Mercado Pago answers. `Asientos`: which movements of the ledger each request has, by its state.
`Cuentas`: each live request is worth the sum of what it took, what was taken is in the ledger and not held, two requests took nothing in common and one is open
at most; a fee or a reversal comes after its earning, so nothing taken becomes held again. `Foto` is what makes them inductive: what a call saw of the ledger
is still worth what it was and still belongs to nobody *while no other request was made*, although fees, reversals and adjustments are booked
by transactions that do not conflict with it. That is the condition under which its commit succeeds. What is left available is then the sum of what nobody took, because the
ledger splits in what each request took and the rest (`SumasProofs`).

Only model-checked: the liveness properties `VentanaSeCumple`, `NoQuedaEsperando` and `TodoSeResuelve`, since liveness under fairness and
what ENABLED says are beyond the proof system; and the three sentences the code does not keep, whose runs find the violation.

## 5. What the code does differently from what it says

Each of these is a run whose single property is the quoted sentence; `PROJECT.json` has the quotes with their lines.

1. **Interrupted effects are not completed by the next sweep** (`cierre_efectos`). The sweep selects closings that are not
   confirmed; one that stopped right after confirming leaves the turno confirmed, and only a person asking again repairs it.
2. **Choosing the deposit again hands out its cancelled checkout** (`cobro_reelegir`). The constant key of the door of the turno
   replays the answer stored before the part was voided; the money paid there goes to quarantine.
3. **A payout may be released although its money left** (`ganancias_rechazo`). Every 4xx counts as "nothing was sent"
   (`finance/servicios/ganancias.ts:902-905`, `payouts-mercado-pago.ts:132-134`), also when it answers a resend: a sending is taken
   and its answer lost, the resend is answered 401 or 429, and the funds go back while the transfer is on its way.
   `SaleOVuelveSalvoReenvio` is what holds without assuming anything of those answers: it takes a resend.

What follows has no run of its own. In the first four the behaviour is in the model, and the passing properties name the exception:

- **A change of a turno is written over what it became.** `conAgendaBloqueada` (`calendar/turnos-service.ts:492-505`) locks the calendar, not the turno;
  `cambiarEstadoTurno` reads it (1765), awaits, and updates it by identifier (1783), as `responderSolicitud` (1340, 1346) and `cancelarTurnoCliente`
  (1442, 1453) do. 1768 says "Nothing leaves a final state". When the closing completes the turno in between (`adapters/prisma-cierres.ts:107-111`), it ends
  as cancelled or as a no-show; `CambiosSegunContrato` says that this is the only final state the agenda writes over, and that nothing else does.
- **Money stays released for a turno that was called off**, for the same reason: the closing completes it and evaluates its payments between
  that read and that write. `EfectosSoloCerrados`, `UnaFormaDePagar` and `LiberadoSoloSiPagado` say that it was completed when that happened.
- **What the marketplace ended comes back.** The same write lands on a reservation the marketplace cancelled or rejected meanwhile: it is confirmed again, or its
  cancellation becomes a no-show, also with its work cancelled. `LoFinalSoloLoPisaLaAgenda` and `TrabajoCanceladoSueltaLaReserva` say that nothing
  else undoes an end, and from which read.
- **A request for nobody is always answered as closed.** `crear` (`urgentes/servicio.ts:142-147`) closes the request when its first broadcast reached nobody,
  does not look at whether it did, and tells its client "sin candidatos", which `docs/SERVICIO_URGENTE_TUS.md:139` has as the notice of that closing: also when a provider took
  it from its list, or another closing had told already. `AvisoDeCierreVerdadero` says that it is told so only of a request taken or closed before.

Seen while modelling:

- A cancellation may cost what nobody accepted to lose. `cancelarTurnoCliente` reads what was paid (`calendar/turnos-service.ts:1439`) before it takes the
  agenda (1440): a payment approved in between is not seen, the client is not asked to confirm the loss (1449-1451), and the record of the cancellation says nothing was paid.
- Turning down an appointment that waits for its payment leaves it as rejected. `src/packages/contracts/src/tus-turnos.ts` (75-78) lists the allowed changes of
  state, and from `awaiting_payment` they are `confirmed`, `cancelled` and `expired`; when its provider cancels it through the marketplace, `calendar/bookings.ts` (676-688)
  writes `rejected`. So `CambiosSegunContrato` is a property of the agenda alone; what holds through both doors is `LoFinalSoloLoPisaLaAgenda`.
- Settling an observation does not restart the window. `work/cierre.ts` (294-295) promises that "the client keeps its 72 hours after the case is
  settled"; the end of the window never changes, so a complaint that outlived it is followed at once by the automatic
  confirmation. `Cierre` has the behaviour (`ResolverObservacion`, then a sweep).
- A linked reservation is withdrawn by the other door. `calendar/bookings.ts` (789-790) refuses to cancel or mark a reservation linked to a
  work, because "desde ese momento el trabajo es la autoridad de su ciclo de vida"; `cancelarTurnoCliente` and
  `cambiarEstadoTurno` do not look for the work, which stays accepted over a withdrawn reservation. `AgendaMercado` has the behaviour.
- The rest between two turnos and the blocks are protected by the lock of the agenda, which the marketplace does not take: a booking
  and a turno that read each other as absent may end closer than the rest (never overlapping). Blocks count there only on the
  date they start on.
- `adminModificarPrecio` looks for an issued deposit, then updates; and it looks for the part `sena` only, so a price changes
  after a total was issued or paid. `CobradoNoExcede` still holds because every charge is compared with the price of its
  moment; a price lowered afterwards leaves more paid than it.
- The door of the total does not look at the state of the turno before it replays a stored answer, so it hands out the checkout
  of a turno that expired. What is paid there is charged (its part is still owed) and does not confirm the turno.
- A refund reported before its approval is refused as a transition; the approval applied later leaves the part as paid
  until a reconciliation compares it with Mercado Pago.
- A payment on a checkout that was cancelled, of a part that was chosen again since, is refused as a transition and not
  quarantined: it is recorded, but not as money to return.
- An urgent work with progress can still be handed to another provider. `docs/SERVICIO_URGENTE_TUS.md` (126-134) says a work with
  progress is never reassigned; a provider that cancels such a work the ordinary way and then says it cannot go passes
  as already released (`work/index.ts:588`), and who takes the request next gets that work with its budget.
- `rechazar` counts who was told and did not answer; a candidate whose notice is still on its way is not counted, so the request may
  close as refused by all (`urgentes/almacen.ts:230`) just before that provider is told of it.
- A turno moved away from its time and back has no reminders: the rows of that time were invalidated and the unique index keeps
  them (`calendar/turnos-recordatorios.ts:137`), although `docs/TURNOS_RECORDATORIOS_Y_CANCELACION_TUS.md` (233-234) has the sweep compute those of the new time.
- A restart "neither repeats nor forgets" a reminder (`src/apps/api/src/server.ts:484-485`): it never repeats, but what its process held is closed as
  interrupted and not sent. A turno cancelled between the read and the claim of its row is still reminded.
- The attempts of a notice are compared as they were read, before the claim (`calendar/turnos-notificaciones-outbox.ts:94`), so each process
  that read the row earlier may add one to the limit of 8; `ReintentosAcotados` is the bound that holds, and both of its terms are needed.
  The claim does not look at when the row is available either, so such a process skips the wait before a retry.
- A notice that was delivered and whose record fails is retried, because the record is inside the `try` of the delivery (98): it may be
  delivered again, or end as given up.
- With two processes and deliveries that always outlive the lease, a notice is delivered again and again and is neither published nor given
  up: only its owner writes the outcome, and by then it has another. Nothing looks at the attempts when a lease is given back.

## 6. Not modelled, and why

- Request-born works and split collection in finance: the same services with other guards; the order of a turno has the
  richest rules (deposit, total, balance, expiry, closing).
- Commission, ledger entries, amounts in cents, messages, evidence texts, profiles, views: data the properties do not
  tell apart.
- Web, mobile, infrastructure, scripts, migrations: no state of the domain beyond what the API decides.
- The answers to a reminder, and the preview of what a cancellation would cost: reads, and one field of a row.
- Platform jobs, identity verification, lodging and refresh rotation: independent of the flow modelled here; candidates for
  further modules.
- Authentication, permission checks and validation of requests: every action here is one its actor was allowed to ask.
- The dialogue of the assistant: an external model; what it does to the domain goes through the services modelled here.

## 7. Plan

Done: all the modules of section 2, the runs of section 3 and the theorems of section 4. Next, in order:

1. An abstract specification of a charge (owed, paid, released, reversed) that `CobroTurno` implements, with the refinement proved; the same for a payout
   (asked, in hand, paid, given back) and `Ganancias`, and for a notice and `NotificacionesOutbox`.
2. What the two doors of the agenda keep together and what they do not, as one abstract agenda that `AgendaMercado` implements.
3. The refund command and split collection in `CobroTurno`.
4. Platform jobs, identity verification and refresh rotation.
