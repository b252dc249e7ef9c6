---------------------------- MODULE MCGanancias ----------------------------
(* Ganancias on a small instance: one payment and one adjustment; the      *)
(* calls are interchangeable.                                              *)
EXTENDS Ganancias, TLC

MCImporte ==
  [m \in Debidos |-> CASE m[1] = "earning" -> 3 [] m[1] = "fee" -> -1
                       [] m[1] = "reversal" -> -3 [] OTHER -> 2]

Simetria == Permutations(Hilos)
=============================================================================
