---------------------------- MODULE MCCobroTurno ----------------------------
(***************************************************************************)
(* A small instance of CobroTurno.                                         *)
(***************************************************************************)
EXTENDS CobroTurno, TLC

Simetria == Permutations(PagosMP)

\* The checkout shown last decides nothing.
Vista == <<agenda, dinero, clave, pedido, mp>>

\* How many things happened to one turno besides paying it: bound MaxSobresaltos.
Sobresaltos ==
  LET caida == IF reserva \in {"cancelled", "expired"} THEN 1 ELSE 0
      cancelando == IF baja THEN 1 ELSE 0
  IN Cardinality({p \in PagosMP : mp[p].estado \in {"refunded", "charged_back"}})
     + Cardinality(cuarentena) + cambio.veces + caida + cancelando

\* How many attempts were made to pay it, with those: bound MaxTropiezos.
Hechos == Cardinality({i \in Intentos : intencion[i].estado # "none"})

MaxSobresaltos == 2
MaxTropiezos == 5
PocosSobresaltos == Sobresaltos <= MaxSobresaltos /\ Sobresaltos + Hechos <= MaxTropiezos
=============================================================================
