----------------------------- MODULE SumasProofs -----------------------------
(***************************************************************************)
(* What Suma adds up, for any finite set and any integer amounts.          *)
(*                                                                         *)
(* The sum is defined by a recursion over the subsets of the set, which    *)
(* takes out a chosen member at a time.  Induction comes from the least    *)
(* number of a set of numbers (the naturals are well founded), stated for  *)
(* a SET of good cases, so that no lemma has an operator for a parameter.  *)
(***************************************************************************)
EXTENDS Sumas, FiniteSetTheorems, WellFoundedInduction, TLAPS

----------------------------------------------------------------------------
(* Induction.                                                              *)

\* A set of numbers that is not empty has a least one.
LEMMA HayMinimo ==
  ASSUME NEW T \in SUBSET Nat, T # {}
  PROVE  \E n \in T : \A m \in T : n <= m
<1>1. PICK n \in T : \A m \in T : ~ (<<m, n>> \in OpToRel(<, Nat))
  BY NatLessThanWellFounded, WFMin
<1>2. \A m \in T : ~ (m < n)
  BY <1>1 DEF OpToRel
<1>3. QED
  BY <1>2

\* A set of numbers with 0 and the successor of each has them all.
LEMMA InduccionNat ==
  ASSUME NEW P, 0 \in P, \A n \in Nat : n \in P => n + 1 \in P
  PROVE  \A n \in Nat : n \in P
<1> DEFINE T == {n \in Nat : n \notin P}
<1>1. CASE T = {}
  BY <1>1
<1>2. CASE T # {}
  <2>1. PICK n \in T : \A m \in T : n <= m
    BY <1>2, HayMinimo
  <2>2. n # 0 /\ n - 1 \in Nat
    BY <2>1
  <2>3. n - 1 \in P
    BY <2>1, <2>2
  <2>4. (n - 1) + 1 \in P
    BY <2>2, <2>3
  <2>5. QED
    BY <2>1, <2>4
<1>3. QED
  BY <1>1, <1>2

\* A collection of subsets with the empty one, and with each one whose parts of one member
\* less it has, has them all.
LEMMA InduccionFinita ==
  ASSUME NEW S, IsFiniteSet(S), NEW P, {} \in P,
         \A T \in SUBSET S : T # {} /\ (\A x \in T : T \ {x} \in P) => T \in P
  PROVE  \A T \in SUBSET S : T \in P
<1> DEFINE Malos == {n \in Nat : \E T \in SUBSET S : T \notin P /\ Cardinality(T) = n}
<1>1. SUFFICES ASSUME NEW R \in SUBSET S, R \notin P PROVE FALSE
  OBVIOUS
<1>2. \A T \in SUBSET S : IsFiniteSet(T) /\ Cardinality(T) \in Nat
  BY FS_Subset, FS_CardinalityType
<1>3. Cardinality(R) \in Malos
  BY <1>1, <1>2
<1>4. PICK n \in Malos : \A m \in Malos : n <= m
  <2>1. Malos \in SUBSET Nat /\ Malos # {}
    BY <1>3
  <2> HIDE DEF Malos
  <2>2. QED
    BY <2>1, HayMinimo
<1>5. PICK T \in SUBSET S : T \notin P /\ Cardinality(T) = n
  BY <1>4
<1>6. PICK x \in T : T \ {x} \notin P
  BY <1>5
<1>7. IsFiniteSet(T) /\ Cardinality(T \ {x}) = n - 1 /\ n \in Nat
  BY <1>2, <1>5, <1>6, FS_RemoveElement
<1>8. T \ {x} \in SUBSET S /\ Cardinality(T \ {x}) \in Nat
  BY <1>2
<1>9. n - 1 \in Malos
  BY <1>6, <1>7, <1>8
<1>10. QED
  BY <1>4, <1>7, <1>9
----------------------------------------------------------------------------
(* The recursion.                                                          *)

Uno(s) == CHOOSE x \in s : TRUE
Resto(s) == s \ {Uno(s)}

\* What the recursion gives to one subset, from what g gives to the smaller ones.
Paso(f, g, s) == IF s = {} THEN 0 ELSE f[Uno(s)] + g[Resto(s)]
Recorre(f, S) == CHOOSE g : g = [s \in SUBSET S |-> Paso(f, g, s)]

\* The sum is the value of a recursion over the subsets.
LEMMA SumaRecorre == ASSUME NEW f, NEW S PROVE Suma(f, S) = Recorre(f, S)[S]
BY DEF Suma, Recorre, Paso, Uno, Resto, MapThenSumSet, MapThenFoldSet

\* The member taken out is one of the set, and the rest is a part of it.
LEMMA UnoEsta == ASSUME NEW s, s # {} PROVE Uno(s) \in s /\ Resto(s) \in SUBSET s
BY DEF Uno, Resto

\* There is such a recursion: it is built one cardinality after another.
LEMMA HayRecorrido ==
  ASSUME NEW S, IsFiniteSet(S), NEW f
  PROVE  Recorre(f, S) = [s \in SUBSET S |-> Paso(f, Recorre(f, S), s)]
<1> DEFINE Hasta(g, n) == \A s \in SUBSET S : Cardinality(s) <= n => g[s] = Paso(f, g, s)
           P == {n \in Nat : \E g : g = [s \in SUBSET S |-> g[s]] /\ Hasta(g, n)}
<1>1. \A s \in SUBSET S : IsFiniteSet(s) /\ Cardinality(s) \in Nat
  BY FS_Subset, FS_CardinalityType
<1>2. \A s \in SUBSET S : s # {} => Resto(s) \in SUBSET S /\ Cardinality(Resto(s)) = Cardinality(s) - 1
  BY <1>1, UnoEsta, FS_RemoveElement DEF Resto
<1>3. 0 \in P
  <2> DEFINE g == [s \in SUBSET S |-> 0]
  <2>1. \A s \in SUBSET S : Cardinality(s) <= 0 => s = {}
    BY <1>1, FS_EmptySet
  <2>2. \A s \in SUBSET S : Cardinality(s) <= 0 => g[s] = Paso(f, g, s)
    BY <2>1 DEF Paso
  <2>3. QED
    BY <2>2
<1>4. ASSUME NEW n \in Nat, n \in P PROVE n + 1 \in P
  <2>1. PICK g : g = [s \in SUBSET S |-> g[s]] /\ Hasta(g, n)
    BY <1>4
  <2> DEFINE h == [s \in SUBSET S |-> IF Cardinality(s) <= n THEN g[s] ELSE Paso(f, g, s)]
  <2>2. ASSUME NEW s \in SUBSET S, Cardinality(s) <= n + 1 PROVE h[s] = Paso(f, h, s)
    <3>1. h[s] = Paso(f, g, s)
      BY <2>1
    <3>2. s # {} => h[Resto(s)] = g[Resto(s)]
      BY <1>1, <1>2, <2>2
    <3> HIDE DEF h
    <3>3. QED
      BY <3>1, <3>2 DEF Paso
  <2>3. h = [s \in SUBSET S |-> h[s]]
    OBVIOUS
  <2> HIDE DEF h
  <2>4. Hasta(h, n + 1)
    BY <2>2
  <2> HIDE DEF Hasta
  <2>5. \E k : k = [s \in SUBSET S |-> k[s]] /\ Hasta(k, n + 1)
    BY <2>3, <2>4
  <2>6. QED
    BY <2>5
<1>5. \A n \in Nat : n \in P
  <2> HIDE DEF P
  <2>1. QED
    BY <1>3, <1>4, InduccionNat
<1>6. PICK g : g = [s \in SUBSET S |-> g[s]] /\ Hasta(g, Cardinality(S))
  BY <1>1, <1>5
<1>7. \A s \in SUBSET S : Cardinality(s) <= Cardinality(S)
  BY FS_Subset
<1>8. \A s \in SUBSET S : g[s] = Paso(f, g, s)
  BY <1>6, <1>7
<1>9. g = [s \in SUBSET S |-> Paso(f, g, s)]
  BY <1>6, <1>8
<1>10. QED
  BY <1>9 DEF Recorre

\* The recursion over a bigger set gives the same to a smaller one.
LEMMA MismoRecorrido ==
  ASSUME NEW S, IsFiniteSet(S), NEW f, NEW T \in SUBSET S
  PROVE  Recorre(f, S)[T] = Suma(f, T)
<1> DEFINE P == {X \in SUBSET S : \A R \in SUBSET S : X \subseteq R => Recorre(f, R)[X] = Suma(f, X)}
<1>1. ASSUME NEW R \in SUBSET S, NEW X \in SUBSET R PROVE Recorre(f, R)[X] = Paso(f, Recorre(f, R), X)
  <2>1. Recorre(f, R) = [s \in SUBSET R |-> Paso(f, Recorre(f, R), s)]
    BY FS_Subset, HayRecorrido
  <2> DEFINE g == Recorre(f, R)
  <2> HIDE DEF g
  <2>2. g = [s \in SUBSET R |-> Paso(f, g, s)]
    BY <2>1 DEF g
  <2>3. g[X] = Paso(f, g, X)
    BY <2>2
  <2>4. QED
    BY <2>3 DEF g
<1>2. {} \in P
  <2>1. \A R \in SUBSET S : Recorre(f, R)[{}] = 0
    BY <1>1 DEF Paso
  <2>2. Suma(f, {}) = 0
    BY <2>1, SumaRecorre
  <2>3. QED
    BY <2>1, <2>2
<1>3. ASSUME NEW X \in SUBSET S, X # {}, \A x \in X : X \ {x} \in P PROVE X \in P
  <2>1. ASSUME NEW R \in SUBSET S, X \subseteq R PROVE Recorre(f, R)[X] = f[Uno(X)] + Suma(f, Resto(X))
    <3>1. Recorre(f, R)[X] = f[Uno(X)] + Recorre(f, R)[Resto(X)]
      BY <1>1, <1>3, <2>1 DEF Paso
    <3>2. Resto(X) \in P /\ Resto(X) \subseteq R
      BY <1>3, <2>1, UnoEsta DEF Resto
    <3>3. QED
      BY <3>1, <3>2
  <2>2. Suma(f, X) = f[Uno(X)] + Suma(f, Resto(X))
    BY <2>1, SumaRecorre
  <2>3. QED
    BY <2>1, <2>2
<1>4. \A X \in SUBSET S : X \in P
  <2> HIDE DEF P
  <2>1. QED
    BY <1>2, <1>3, InduccionFinita
<1>5. QED
  BY <1>4
----------------------------------------------------------------------------
(* What is added up.                                                       *)

\* Nothing adds up to 0.
LEMMA SumaVacia == ASSUME NEW f PROVE Suma(f, {}) = 0
<1>1. Recorre(f, {}) = [s \in SUBSET {} |-> Paso(f, Recorre(f, {}), s)]
  BY HayRecorrido, FS_EmptySet
<1> DEFINE g == Recorre(f, {})
<1> HIDE DEF g
<1>2. g = [s \in SUBSET {} |-> Paso(f, g, s)]
  BY <1>1 DEF g
<1>3. g[{}] = 0
  BY <1>2 DEF Paso
<1>4. QED
  BY <1>3, SumaRecorre DEF g

\* The chosen member, and the rest.
LEMMA SumaUno ==
  ASSUME NEW S, IsFiniteSet(S), S # {}, NEW f
  PROVE  Suma(f, S) = f[Uno(S)] + Suma(f, Resto(S))
<1>1. Recorre(f, S) = [s \in SUBSET S |-> Paso(f, Recorre(f, S), s)]
  BY HayRecorrido
<1> DEFINE g == Recorre(f, S)
<1> HIDE DEF g
<1>2. g = [s \in SUBSET S |-> Paso(f, g, s)]
  BY <1>1 DEF g
<1>3. g[S] = f[Uno(S)] + g[Resto(S)]
  BY <1>2 DEF Paso
<1>4. g[S] = Suma(f, S) /\ g[Resto(S)] = Suma(f, Resto(S))
  BY UnoEsta, SumaRecorre, MismoRecorrido DEF g
<1>5. QED
  BY <1>3, <1>4

\* Integers add up to an integer.
LEMMA SumaTipo ==
  ASSUME NEW S, IsFiniteSet(S), NEW f, \A x \in S : f[x] \in Int
  PROVE  Suma(f, S) \in Int
<1> DEFINE P == {X \in SUBSET S : Suma(f, X) \in Int}
<1>1. {} \in P
  BY SumaVacia
<1>2. ASSUME NEW X \in SUBSET S, X # {}, \A x \in X : X \ {x} \in P PROVE X \in P
  <2>1. Suma(f, X) = f[Uno(X)] + Suma(f, Resto(X))
    BY <1>2, FS_Subset, SumaUno
  <2>2. Uno(X) \in X /\ Resto(X) \in P
    BY <1>2, UnoEsta DEF Resto
  <2>3. QED
    BY <2>1, <2>2
<1>3. \A X \in SUBSET S : X \in P
  <2> HIDE DEF P
  <2>1. QED
    BY <1>1, <1>2, InduccionFinita
<1>4. QED
  BY <1>3

\* Naturals add up to a natural.
LEMMA SumaNat ==
  ASSUME NEW S, IsFiniteSet(S), NEW f, \A x \in S : f[x] \in Nat
  PROVE  Suma(f, S) \in Nat
<1> DEFINE P == {X \in SUBSET S : Suma(f, X) \in Nat}
<1>1. {} \in P
  BY SumaVacia
<1>2. ASSUME NEW X \in SUBSET S, X # {}, \A x \in X : X \ {x} \in P PROVE X \in P
  <2>1. Suma(f, X) = f[Uno(X)] + Suma(f, Resto(X))
    BY <1>2, FS_Subset, SumaUno
  <2>2. Uno(X) \in X /\ Resto(X) \in P
    BY <1>2, UnoEsta DEF Resto
  <2>3. QED
    BY <2>1, <2>2
<1>3. \A X \in SUBSET S : X \in P
  <2> HIDE DEF P
  <2>1. QED
    BY <1>1, <1>2, InduccionFinita
<1>4. QED
  BY <1>3

\* What is added up is all that matters.
LEMMA SumaIgual ==
  ASSUME NEW S, IsFiniteSet(S), NEW f, NEW g, \A x \in S : f[x] = g[x]
  PROVE  Suma(f, S) = Suma(g, S)
<1> DEFINE P == {X \in SUBSET S : Suma(f, X) = Suma(g, X)}
<1>1. {} \in P
  BY SumaVacia
<1>2. ASSUME NEW X \in SUBSET S, X # {}, \A x \in X : X \ {x} \in P PROVE X \in P
  <2>1. Suma(f, X) = f[Uno(X)] + Suma(f, Resto(X)) /\ Suma(g, X) = g[Uno(X)] + Suma(g, Resto(X))
    BY <1>2, FS_Subset, SumaUno
  <2>2. Uno(X) \in X /\ Resto(X) \in P
    BY <1>2, UnoEsta DEF Resto
  <2>3. QED
    BY <2>1, <2>2
<1>3. \A X \in SUBSET S : X \in P
  <2> HIDE DEF P
  <2>1. QED
    BY <1>1, <1>2, InduccionFinita
<1>4. QED
  BY <1>3

\* Any member may be taken out first.
LEMMA SumaQuitar ==
  ASSUME NEW S, IsFiniteSet(S), NEW f, \A x \in S : f[x] \in Int, NEW x \in S
  PROVE  Suma(f, S) = f[x] + Suma(f, S \ {x})
<1> DEFINE P == {X \in SUBSET S : \A y \in X : Suma(f, X) = f[y] + Suma(f, X \ {y})}
<1>1. {} \in P
  OBVIOUS
<1>2. ASSUME NEW X \in SUBSET S, X # {}, \A y \in X : X \ {y} \in P PROVE X \in P
  <2>1. SUFFICES ASSUME NEW y \in X PROVE Suma(f, X) = f[y] + Suma(f, X \ {y})
    OBVIOUS
  <2> DEFINE u == Uno(X)
  <2>2. u \in X /\ Suma(f, X) = f[u] + Suma(f, X \ {u})
    BY <1>2, FS_Subset, SumaUno, UnoEsta DEF Resto
  <2> HIDE DEF u
  <2>3. CASE y = u
    BY <2>2, <2>3
  <2>4. CASE y # u
    <3>1. X \ {u} \in P /\ X \ {y} \in P /\ y \in X \ {u} /\ u \in X \ {y}
      BY <1>2, <2>2, <2>4
    <3>2. Suma(f, X \ {u}) = f[y] + Suma(f, (X \ {u}) \ {y}) /\ Suma(f, X \ {y}) = f[u] + Suma(f, (X \ {y}) \ {u})
      BY <3>1
    <3>3. Suma(f, (X \ {u}) \ {y}) = Suma(f, (X \ {y}) \ {u})
      <4>1. (X \ {u}) \ {y} = (X \ {y}) \ {u}
        OBVIOUS
      <4>2. QED
        BY <4>1, Zenon
    <3>4. Suma(f, (X \ {y}) \ {u}) \in Int /\ f[u] \in Int /\ f[y] \in Int
      <4>1. (X \ {y}) \ {u} \in SUBSET S /\ \A z \in (X \ {y}) \ {u} : f[z] \in Int
        OBVIOUS
      <4>2. QED
        BY <2>2, <4>1, FS_Subset, SumaTipo
    <3>5. QED
      BY <2>2, <3>2, <3>3, <3>4
  <2>5. QED
    BY <2>3, <2>4
<1>3. \A X \in SUBSET S : X \in P
  <2> HIDE DEF P
  <2>1. QED
    BY <1>1, <1>2, InduccionFinita
<1>4. QED
  BY <1>3

\* A new member adds what it has.
LEMMA SumaAgregar ==
  ASSUME NEW S, IsFiniteSet(S), NEW x, x \notin S, NEW f, \A y \in S \cup {x} : f[y] \in Int
  PROVE  Suma(f, S \cup {x}) = Suma(f, S) + f[x]
<1>1. IsFiniteSet(S \cup {x}) /\ (S \cup {x}) \ {x} = S
  BY FS_AddElement
<1>2. Suma(f, S \cup {x}) = f[x] + Suma(f, (S \cup {x}) \ {x})
  BY <1>1, SumaQuitar
<1>3. Suma(f, S) \in Int /\ f[x] \in Int
  BY SumaTipo
<1>4. Suma(f, (S \cup {x}) \ {x}) = Suma(f, S)
  BY <1>1, Zenon
<1>5. QED
  BY <1>2, <1>3, <1>4

\* Two sets apart add up to the sum of both.
LEMMA SumaUnion ==
  ASSUME NEW S, IsFiniteSet(S), NEW T, IsFiniteSet(T), S \cap T = {}, NEW f, \A x \in S \cup T : f[x] \in Int
  PROVE  Suma(f, S \cup T) = Suma(f, S) + Suma(f, T)
<1> DEFINE P == {X \in SUBSET T : Suma(f, S \cup X) = Suma(f, S) + Suma(f, X)}
<1>1. {} \in P
  <2>1. Suma(f, {}) = 0 /\ Suma(f, S) \in Int /\ S \cup {} = S
    BY SumaVacia, SumaTipo
  <2>2. QED
    BY <2>1
<1>2. ASSUME NEW X \in SUBSET T, X # {}, \A x \in X : X \ {x} \in P PROVE X \in P
  <2>1. PICK x \in X : X \ {x} \in P
    BY <1>2
  <2>2. IsFiniteSet(X) /\ IsFiniteSet(S \cup X)
    BY FS_Subset, FS_Union
  <2>3. Suma(f, X) = f[x] + Suma(f, X \ {x})
    BY <2>2, SumaQuitar
  <2>4. Suma(f, S \cup X) = f[x] + Suma(f, (S \cup X) \ {x})
    BY <2>2, SumaQuitar
  <2>5. (S \cup X) \ {x} = S \cup (X \ {x})
    OBVIOUS
  <2>6. Suma(f, S \cup (X \ {x})) = Suma(f, S) + Suma(f, X \ {x})
    BY <2>1
  <2>7. f[x] \in Int /\ Suma(f, S) \in Int /\ Suma(f, X \ {x}) \in Int
    <3>1. IsFiniteSet(X \ {x}) /\ (\A z \in X \ {x} : f[z] \in Int) /\ \A z \in S : f[z] \in Int
      BY <2>2, FS_RemoveElement
    <3>2. QED
      BY <3>1, SumaTipo
  <2>8. Suma(f, (S \cup X) \ {x}) = Suma(f, S \cup (X \ {x}))
    BY <2>5, Zenon
  <2>9. Suma(f, S \cup X) = Suma(f, S) + Suma(f, X)
    BY <2>3, <2>4, <2>6, <2>7, <2>8
  <2>10. QED
    BY <2>9
<1>3. \A X \in SUBSET T : X \in P
  <2> HIDE DEF P
  <2>1. QED
    BY <1>1, <1>2, InduccionFinita
<1>4. QED
  BY <1>3
=============================================================================
