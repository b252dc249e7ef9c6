---------------------------- MODULE EstadosTurno ----------------------------
(***************************************************************************)
(* The states of a turno and the changes of state the contract allows      *)
(* (packages/contracts/src/tus-turnos.ts).  A turno is REQUESTED; it is    *)
(* confirmed by the verified payment of its deposit, or by the acceptance  *)
(* itself when there is nothing to pay.                                    *)
(***************************************************************************)

\* A row of public."reservas" that does not exist yet.
SinFila == "sin_fila"

ESTADOS == {"pending", "awaiting_payment", "confirmed", "rejected", "expired",
            "cancelled", "cancelled-late", "no-show", "completed"}

\* The states that give the time back: the list of the contract and the
\* predicate of the exclusion constraint of the table.
LIBERAN == {"cancelled", "cancelled-late", "no-show", "rejected", "expired"}

\* The states a request waits in, with a date it runs out.
ESPERAN == {"pending", "awaiting_payment"}

TRANSICIONES ==
  [e \in ESTADOS |->
     CASE e = "pending" ->
            {"awaiting_payment", "confirmed", "rejected", "cancelled", "expired"}
       [] e = "awaiting_payment" -> {"confirmed", "cancelled", "expired"}
       [] e = "confirmed" -> {"completed", "cancelled", "cancelled-late", "no-show"}
       [] OTHER -> {}]

\* (Variant: the confirmation can be asked by hand.)
A_PEDIDO_Variante(e) == TRANSICIONES[e] \ {"expired", "awaiting_payment"}

\* What cambiarEstadoTurno lets a provider or the administration ask for:
\* acceptance, expiry and confirmation have their own way.
A_PEDIDO(e) == TRANSICIONES[e] \ {"expired", "confirmed", "awaiting_payment"}
=============================================================================
