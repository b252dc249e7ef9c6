-------------------------------- MODULE Sumas --------------------------------
(* Amounts added up, as a function of what is added.                       *)
EXTENDS Integers, FiniteSets, FiniteSetsExt

\* What f gives to the members of S, added up.
Suma(f, S) == MapThenSumSet(LAMBDA x : f[x], S)
=============================================================================
