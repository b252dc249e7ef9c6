---------------------------- MODULE MCRecordatorios ----------------------------
(* Recordatorios on a small instance, with interchangeable processes.      *)
EXTENDS Recordatorios, TLC

Simetria == Permutations(Procesos)
=============================================================================
