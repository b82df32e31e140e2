------------------------ MODULE PaperPositionProofs ------------------------
(***************************************************************************)
(* Proofs about PaperPosition, for every quantity, every set of exit       *)
(* configurations and scenarios, and every bound:                          *)
(*                                                                         *)
(*   - the arithmetic of the levels: computeInitialExitQtys and            *)
(*     computeRebalancedQtys distribute exactly the quantity given to them;*)
(*   - an inductive invariant, Inv, in parts: where the entry stands, what *)
(*     the levels of a group sum up to, how far the row and the monitor's  *)
(*     order lag behind the group, that every copy of the open quantity    *)
(*     together with what is recorded makes up the whole position, and     *)
(*     that the stop is not above the one the next target would set;       *)
(*   - from it the types, QuantitiesAgree, EveryUnitBooked, FirstExitWins  *)
(*     and StopNeverLoosens.                                               *)
(***************************************************************************)
EXTENDS PaperPosition, SequenceTheorems, FiniteSetTheorems, WellFoundedInduction, TLAPS
-----------------------------------------------------------------------------
(***************************************************************************)
(* Sums over finite sets.  SumFunctionOnSet is a recursive function over   *)
(* the subsets of its set; what it returns is proved by induction on the   *)
(* cardinality, from the fact that a nonempty set of naturals has a least  *)
(* element.                                                                *)
(***************************************************************************)

(***************************************************************************)
(* Every nonempty set of naturals has a least element.                     *)
(***************************************************************************)
LEMMA LeastNat ==
    ASSUME NEW T, T \subseteq Nat, T # {}
    PROVE  \E x \in T : \A y \in T : x <= y
<1> DEFINE R == OpToRel(<, Nat)
<1>1. IsWellFoundedOn(R, Nat)
  BY NatLessThanWellFounded
<1>2. PICK x \in T : \A y \in T : ~ (<<y, x>> \in R)
  <2> HIDE DEF R
  <2> QED BY <1>1, WFMin
<1>3. \A y \in T : ~(y < x)
  BY <1>2 DEF OpToRel
<1> QED BY <1>3

(***************************************************************************)
(* Induction over a set of naturals.                                       *)
(***************************************************************************)
LEMMA NatFamilyInduction ==
    ASSUME NEW T, 0 \in T, \A n \in Nat : n \in T => n + 1 \in T
    PROVE  \A n \in Nat : n \in T
<1> SUFFICES ASSUME Nat \ T # {} PROVE FALSE
  OBVIOUS
<1>1. PICK x \in Nat \ T : \A y \in Nat \ T : x <= y
  BY LeastNat
<1>2. x - 1 \in Nat /\ x - 1 \in T
  BY <1>1
<1>3. x - 1 + 1 = x
  BY <1>2
<1> QED BY <1>1, <1>2, <1>3

(***************************************************************************)
(* Induction over the subsets of a finite set, for a family of sets.       *)
(***************************************************************************)
LEMMA SubsetFamilyInduction ==
    ASSUME NEW S, IsFiniteSet(S), NEW C, {} \in C,
           \A U \in SUBSET S : \A x \in S \ U : U \in C => U \cup {x} \in C
    PROVE  S \in C
<1> DEFINE T == {n \in Nat : \A U \in SUBSET S : Cardinality(U) = n => U \in C}
<1>1. 0 \in T
  BY FS_EmptySet, FS_Subset
<1>2. ASSUME NEW n \in Nat, n \in T PROVE n + 1 \in T
  <2> SUFFICES ASSUME NEW U \in SUBSET S, Cardinality(U) = n + 1 PROVE U \in C
    OBVIOUS
  <2>1. IsFiniteSet(U)
    BY FS_Subset
  <2>2. U # {}
    BY <2>1, FS_EmptySet
  <2>3. PICK x : x \in U
    BY <2>2
  <2>4. Cardinality(U \ {x}) = n
    <3>1. Cardinality(U \ {x}) = Cardinality(U) - 1
      BY <2>1, <2>3, FS_RemoveElement
    <3> QED BY <3>1
  <2>5. U \ {x} \in C /\ U \ {x} \in SUBSET S /\ x \in S \ (U \ {x})
    BY <1>2, <2>3, <2>4
  <2>6. (U \ {x}) \cup {x} = U
    BY <2>3
  <2> QED BY <2>5, <2>6
<1> HIDE DEF T
<1>3. \A n \in Nat : n \in T
  BY <1>1, <1>2, NatFamilyInduction
<1>4. Cardinality(S) \in Nat
  BY FS_CardinalityType
<1> QED BY <1>3, <1>4 DEF T

\* The recursion of SumFunctionOnSet.
Chosen(s) == CHOOSE x \in s : TRUE
NextSum(f, F, s) == IF s = {} THEN 0 ELSE f[Chosen(s)] + F[s \ {Chosen(s)}]
Summing(f, F, S) == F = [s \in SUBSET S |-> NextSum(f, F, s)]

(***************************************************************************)
(* The function that SumFunctionOnSet defines by recursion exists.         *)
(***************************************************************************)
LEMMA SummingExists ==
    ASSUME NEW f, NEW S, IsFiniteSet(S)
    PROVE  \E F : Summing(f, F, S)
<1> DEFINE Upto(F, k) == \A s \in SUBSET S : Cardinality(s) <= k => F[s] = NextSum(f, F, s)
           T == {k \in Nat : \E F : F = [s \in SUBSET S |-> F[s]] /\ Upto(F, k)}
<1>0. \A s \in SUBSET S : IsFiniteSet(s) /\ Cardinality(s) \in Nat
  BY FS_Subset, FS_CardinalityType
<1>1. 0 \in T
  <2> DEFINE F == [s \in SUBSET S |-> 0]
  <2>1. \A s \in SUBSET S : Cardinality(s) <= 0 => s = {}
    BY <1>0, FS_EmptySet
  <2>2. Upto(F, 0)
    BY <2>1 DEF NextSum
  <2>3. F = [s \in SUBSET S |-> F[s]]
    OBVIOUS
  <2> HIDE DEF F
  <2> QED BY <2>2, <2>3
<1>2. ASSUME NEW k \in Nat, k \in T PROVE k + 1 \in T
  <2>1. PICK F : F = [s \in SUBSET S |-> F[s]] /\ Upto(F, k)
    BY <1>2
  <2> DEFINE G == [s \in SUBSET S |-> IF Cardinality(s) <= k THEN F[s] ELSE NextSum(f, F, s)]
  <2>2. ASSUME NEW s \in SUBSET S, Cardinality(s) <= k + 1 PROVE G[s] = NextSum(f, G, s)
    <3>1. CASE s = {}
      <4>1. Cardinality(s) = 0
        BY <3>1, FS_EmptySet
      <4> QED BY <4>1, <3>1, <2>1 DEF NextSum
    <3>2. CASE s # {}
      <4>1. Chosen(s) \in s
        BY <3>2 DEF Chosen
      <4>2. Cardinality(s \ {Chosen(s)}) = Cardinality(s) - 1
        BY <4>1, <1>0, FS_RemoveElement
      <4>3. Cardinality(s \ {Chosen(s)}) <= k /\ s \ {Chosen(s)} \in SUBSET S
        BY <4>2, <2>2, <1>0
      <4>4. G[s \ {Chosen(s)}] = F[s \ {Chosen(s)}]
        BY <4>3
      <4>5. NextSum(f, G, s) = NextSum(f, F, s)
        BY <4>4 DEF NextSum
      <4>6. G[s] = NextSum(f, F, s)
        BY <2>1
      <4> QED BY <4>5, <4>6
    <3> QED BY <3>1, <3>2
  <2>3. G = [s \in SUBSET S |-> G[s]]
    OBVIOUS
  <2> HIDE DEF G
  <2>4. Upto(G, k + 1)
    BY <2>2
  <2> HIDE DEF Upto
  <2> QED BY <2>3, <2>4
<1> HIDE DEF T
<1>3. \A n \in Nat : n \in T
  BY <1>1, <1>2, NatFamilyInduction
<1>4. Cardinality(S) \in T
  BY <1>3, <1>0
<1>5. PICK F : F = [s \in SUBSET S |-> F[s]] /\ Upto(F, Cardinality(S))
  BY <1>4 DEF T
<1>6. \A s \in SUBSET S : F[s] = NextSum(f, F, s)
  BY <1>5, FS_Subset
<1>7. F = [s \in SUBSET S |-> NextSum(f, F, s)]
  BY <1>5, <1>6
<1> QED BY <1>7 DEF Summing

(***************************************************************************)
(* Two such functions agree on every set that both are defined on.         *)
(***************************************************************************)
LEMMA SummingAgrees ==
    ASSUME NEW f, NEW S, NEW S2, NEW F, NEW G, IsFiniteSet(S2), S2 \subseteq S,
           Summing(f, F, S), Summing(f, G, S2)
    PROVE  F[S2] = G[S2]
<1> DEFINE T == {n \in Nat : \A s \in SUBSET S2 : Cardinality(s) = n => F[s] = G[s]}
<1>0. /\ \A s \in SUBSET S2 : /\ IsFiniteSet(s) /\ Cardinality(s) \in Nat
                              /\ F[s] = NextSum(f, F, s) /\ G[s] = NextSum(f, G, s)
  BY FS_Subset, FS_CardinalityType DEF Summing
<1>1. 0 \in T
  <2>1. \A s \in SUBSET S2 : Cardinality(s) = 0 => s = {}
    BY <1>0, FS_EmptySet
  <2> QED BY <1>0, <2>1 DEF NextSum
<1>2. ASSUME NEW n \in Nat, n \in T PROVE n + 1 \in T
  <2> SUFFICES ASSUME NEW s \in SUBSET S2, Cardinality(s) = n + 1 PROVE F[s] = G[s]
    OBVIOUS
  <2>1. s # {}
    BY FS_EmptySet
  <2>2. Chosen(s) \in s
    BY <2>1 DEF Chosen
  <2>3. Cardinality(s \ {Chosen(s)}) = n /\ s \ {Chosen(s)} \in SUBSET S2
    <3>1. Cardinality(s \ {Chosen(s)}) = Cardinality(s) - 1
      BY <2>2, <1>0, FS_RemoveElement
    <3> QED BY <3>1
  <2>4. F[s \ {Chosen(s)}] = G[s \ {Chosen(s)}]
    BY <1>2, <2>3
  <2> QED BY <1>0, <2>4 DEF NextSum
<1> HIDE DEF T
<1>3. \A n \in Nat : n \in T
  BY <1>1, <1>2, NatFamilyInduction
<1>4. Cardinality(S2) \in T /\ S2 \in SUBSET S2
  BY <1>3, <1>0
<1> QED BY <1>4 DEF T

LEMMA SumIs ==
    ASSUME NEW f, NEW S, IsFiniteSet(S)
    PROVE  \E F : Summing(f, F, S) /\ SumFunctionOnSet(f, S) = F[S]
<1> DEFINE K == CHOOSE F : Summing(f, F, S)
<1>1. Summing(f, K, S)
  BY SummingExists
<1>2. SumFunctionOnSet(f, S) = K[S]
  BY DEF SumFunctionOnSet, FoldFunctionOnSet, MapThenFoldSet, Summing, NextSum, Chosen
<1> HIDE DEF K
<1> QED BY <1>1, <1>2

LEMMA SumEmpty ==
    ASSUME NEW f
    PROVE  SumFunctionOnSet(f, {}) = 0
<1>1. PICK F : Summing(f, F, {}) /\ SumFunctionOnSet(f, {}) = F[{}]
  BY SumIs, FS_EmptySet
<1> QED BY <1>1 DEF Summing, NextSum

LEMMA SumChosen ==
    ASSUME NEW f, NEW S, IsFiniteSet(S), S # {}
    PROVE  /\ Chosen(S) \in S
           /\ SumFunctionOnSet(f, S) = f[Chosen(S)] + SumFunctionOnSet(f, S \ {Chosen(S)})
<1>1. Chosen(S) \in S
  BY DEF Chosen
<1> DEFINE S2 == S \ {Chosen(S)}
<1>2. IsFiniteSet(S2) /\ S2 \subseteq S
  BY FS_RemoveElement
<1>3. PICK F : Summing(f, F, S) /\ SumFunctionOnSet(f, S) = F[S]
  BY SumIs
<1>4. PICK G : Summing(f, G, S2) /\ SumFunctionOnSet(f, S2) = G[S2]
  BY <1>2, SumIs
<1>5. F[S2] = G[S2]
  BY <1>2, <1>3, <1>4, SummingAgrees
<1>6. F[S] = NextSum(f, F, S)
  BY <1>3 DEF Summing
<1> QED BY <1>1, <1>3, <1>4, <1>5, <1>6 DEF NextSum

(***************************************************************************)
(* The sum does not depend on the order: any element can be taken out.     *)
(***************************************************************************)
LEMMA SumRemove ==
    ASSUME NEW D, NEW f \in [D -> Int], NEW S \in SUBSET D, IsFiniteSet(S)
    PROVE  /\ SumFunctionOnSet(f, S) \in Int
           /\ \A x \in S : SumFunctionOnSet(f, S) = f[x] + SumFunctionOnSet(f, S \ {x})
<1> DEFINE Sum(s) == SumFunctionOnSet(f, s)
           Fine(s) == Sum(s) \in Int /\ \A x \in s : Sum(s) = f[x] + Sum(s \ {x})
           T == {n \in Nat : \A s \in SUBSET S : Cardinality(s) <= n => Fine(s)}
<1>0. \A s \in SUBSET S : IsFiniteSet(s) /\ Cardinality(s) \in Nat
  BY FS_Subset, FS_CardinalityType
<1>1. 0 \in T
  <2>1. \A s \in SUBSET S : Cardinality(s) <= 0 => s = {}
    BY <1>0, FS_EmptySet
  <2>2. Fine({})
    BY SumEmpty
  <2> HIDE DEF Fine
  <2> QED BY <2>1, <2>2
<1>2. ASSUME NEW n \in Nat, n \in T PROVE n + 1 \in T
  <2> SUFFICES ASSUME NEW s \in SUBSET S, Cardinality(s) <= n + 1, s # {} PROVE Fine(s)
    BY SumEmpty
  <2> DEFINE c == Chosen(s)
  <2>1. c \in s /\ Sum(s) = f[c] + Sum(s \ {c})
    BY <1>0, SumChosen
  <2> HIDE DEF c
  <2>2. \A x \in s : s \ {x} \in SUBSET S /\ Cardinality(s \ {x}) <= n
    BY <1>0, FS_RemoveElement
  <2>3. \A x \in s : \A y \in s \ {x} :
           (s \ {x}) \ {y} \in SUBSET S /\ Cardinality((s \ {x}) \ {y}) <= n
    <3> SUFFICES ASSUME NEW x \in s, NEW y \in s \ {x}
                 PROVE  Cardinality((s \ {x}) \ {y}) <= n
      OBVIOUS
    <3>1. IsFiniteSet(s \ {x}) /\ Cardinality(s \ {x}) \in Nat /\ Cardinality(s \ {x}) <= n
      BY <1>0, <2>2
    <3>2. Cardinality((s \ {x}) \ {y}) = Cardinality(s \ {x}) - 1
      BY <3>1, FS_RemoveElement
    <3> QED BY <3>1, <3>2
  <2> HIDE DEF Sum
  <2>4. \A x \in s : Fine(s \ {x}) /\ \A y \in s \ {x} : Fine((s \ {x}) \ {y})
    BY <1>2, <2>2, <2>3
  <2>5. \A x \in s : f[x] \in Int
    OBVIOUS
  <2>6. Sum(s) \in Int
    BY <2>1, <2>4, <2>5
  <2>7. ASSUME NEW x \in s, x # c PROVE Sum(s) = f[x] + Sum(s \ {x})
    <3>1. x \in s \ {c} /\ c \in s \ {x}
      BY <2>1, <2>7
    <3>2. Sum(s \ {c}) = f[x] + Sum((s \ {c}) \ {x})
      BY <2>4, <2>1, <3>1
    <3>3. Sum(s \ {x}) = f[c] + Sum((s \ {x}) \ {c})
      BY <2>4, <3>1
    <3>4. (s \ {x}) \ {c} = (s \ {c}) \ {x}
      OBVIOUS
    <3>5. Sum((s \ {c}) \ {x}) \in Int
      BY <2>4, <2>1, <3>1
    <3>6. Sum(s) = f[c] + (f[x] + Sum((s \ {c}) \ {x}))
      BY <2>1, <3>2
    <3>7. Sum(s \ {x}) = f[c] + Sum((s \ {c}) \ {x})
      BY <3>3, <3>4
    <3>8. f[c] \in Int /\ f[x] \in Int
      BY <2>5, <2>1
    <3> QED BY <3>5, <3>6, <3>7, <3>8
  <2> QED BY <2>1, <2>6, <2>7
<1> HIDE DEF T
<1>3. \A n \in Nat : n \in T
  BY <1>1, <1>2, NatFamilyInduction
<1>4. Cardinality(S) \in T /\ S \in SUBSET S
  BY <1>3, <1>0
<1>5. Fine(S)
  BY <1>0, <1>4 DEF T
<1> QED BY <1>5

LEMMA SumType ==
    ASSUME NEW D, NEW f \in [D -> Int], NEW S \in SUBSET D, IsFiniteSet(S)
    PROVE  SumFunctionOnSet(f, S) \in Int
BY SumRemove

LEMMA SumAdd ==
    ASSUME NEW D, NEW f \in [D -> Int], NEW S \in SUBSET D, IsFiniteSet(S), NEW x \in D \ S
    PROVE  SumFunctionOnSet(f, S \cup {x}) = f[x] + SumFunctionOnSet(f, S)
<1>1. IsFiniteSet(S \cup {x}) /\ S \cup {x} \in SUBSET D
  BY FS_AddElement
<1>2. SumFunctionOnSet(f, S \cup {x}) = f[x] + SumFunctionOnSet(f, (S \cup {x}) \ {x})
  BY <1>1, SumRemove
<1>3. (S \cup {x}) \ {x} = S
  OBVIOUS
<1> QED BY <1>2, <1>3
LEMMA SumNat ==
    ASSUME NEW D, NEW f \in [D -> Int], NEW S \in SUBSET D, IsFiniteSet(S), \A i \in S : f[i] >= 0
    PROVE  SumFunctionOnSet(f, S) >= 0
<1> DEFINE C == {U \in SUBSET S : SumFunctionOnSet(f, U) >= 0}
<1>0. \A U \in SUBSET S : IsFiniteSet(U) /\ Cardinality(U) \in Nat
  BY FS_Subset, FS_CardinalityType
<1>1. {} \in C
  BY SumEmpty
<1>2. ASSUME NEW U \in SUBSET S, NEW x \in S \ U, U \in C PROVE U \cup {x} \in C
  <2>1. SumFunctionOnSet(f, U \cup {x}) = f[x] + SumFunctionOnSet(f, U)
    BY <1>0, SumAdd
  <2>2. SumFunctionOnSet(f, U) \in Int /\ f[x] \in Int
    BY <1>0, SumType
  <2> QED BY <2>1, <2>2, <1>2
<1> HIDE DEF C
<1>3. S \in C
  BY <1>1, <1>2, SubsetFamilyInduction
<1> QED BY <1>3 DEF C

(***************************************************************************)
(* Functions that agree on a set have the same sum over it.                *)
(***************************************************************************)
LEMMA SumSame ==
    ASSUME NEW D, NEW f \in [D -> Int], NEW S \in SUBSET D, IsFiniteSet(S), NEW g \in [S -> Int],
           \A i \in S : f[i] = g[i]
    PROVE  SumFunctionOnSet(f, S) = SumFunctionOnSet(g, S)
<1> DEFINE C == {U \in SUBSET S : SumFunctionOnSet(f, U) = SumFunctionOnSet(g, U)}
<1>0. \A U \in SUBSET S : IsFiniteSet(U) /\ Cardinality(U) \in Nat
  BY FS_Subset, FS_CardinalityType
<1>1. {} \in C
  BY SumEmpty
<1>2. ASSUME NEW U \in SUBSET S, NEW x \in S \ U, U \in C PROVE U \cup {x} \in C
  <2>1. SumFunctionOnSet(f, U \cup {x}) = f[x] + SumFunctionOnSet(f, U)
    BY <1>0, SumAdd
  <2>2. SumFunctionOnSet(g, U \cup {x}) = g[x] + SumFunctionOnSet(g, U)
    BY <1>0, SumAdd
  <2> QED BY <2>1, <2>2, <1>2
<1> HIDE DEF C
<1>3. S \in C
  BY <1>1, <1>2, SubsetFamilyInduction
<1> QED BY <1>3 DEF C

(***************************************************************************)
(* The sum of a pointwise sum.                                             *)
(***************************************************************************)
LEMMA SumPlus ==
    ASSUME NEW S, IsFiniteSet(S), NEW f \in [S -> Int], NEW g \in [S -> Int], NEW h \in [S -> Int],
           \A i \in S : h[i] = f[i] + g[i]
    PROVE  SumFunctionOnSet(h, S) = SumFunctionOnSet(f, S) + SumFunctionOnSet(g, S)
<1> DEFINE C == {U \in SUBSET S : SumFunctionOnSet(h, U) = SumFunctionOnSet(f, U) + SumFunctionOnSet(g, U)}
<1>0. \A U \in SUBSET S : IsFiniteSet(U) /\ Cardinality(U) \in Nat
  BY FS_Subset, FS_CardinalityType
<1>1. {} \in C
  BY SumEmpty
<1>2. ASSUME NEW U \in SUBSET S, NEW x \in S \ U, U \in C PROVE U \cup {x} \in C
  <2>1. SumFunctionOnSet(f, U \cup {x}) = f[x] + SumFunctionOnSet(f, U)
    BY <1>0, SumAdd
  <2>2. SumFunctionOnSet(g, U \cup {x}) = g[x] + SumFunctionOnSet(g, U)
    BY <1>0, SumAdd
  <2>3. SumFunctionOnSet(h, U \cup {x}) = h[x] + SumFunctionOnSet(h, U)
    BY <1>0, SumAdd
  <2>4. /\ SumFunctionOnSet(f, U) \in Int /\ SumFunctionOnSet(g, U) \in Int
        /\ f[x] \in Int /\ g[x] \in Int /\ h[x] = f[x] + g[x]
    BY <1>0, SumType
  <2> QED BY <2>1, <2>2, <2>3, <2>4, <1>2
<1> HIDE DEF C
<1>3. S \in C
  BY <1>1, <1>2, SubsetFamilyInduction
<1> QED BY <1>3 DEF C

LEMMA TimesPlus ==
    ASSUME NEW a \in Int, NEW b \in Int, NEW c \in Int
    PROVE  a * (b + c) = a * b + a * c
OBVIOUS

(***************************************************************************)
(* The sum of a multiple.                                                  *)
(***************************************************************************)
LEMMA SumTimes ==
    ASSUME NEW S, IsFiniteSet(S), NEW f \in [S -> Int], NEW h \in [S -> Int], NEW k \in Int,
           \A i \in S : h[i] = k * f[i]
    PROVE  SumFunctionOnSet(h, S) = k * SumFunctionOnSet(f, S)
<1> DEFINE C == {U \in SUBSET S : SumFunctionOnSet(h, U) = k * SumFunctionOnSet(f, U)}
<1>0. \A U \in SUBSET S : IsFiniteSet(U) /\ Cardinality(U) \in Nat
  BY FS_Subset, FS_CardinalityType
<1>1. {} \in C
  BY SumEmpty
<1>2. ASSUME NEW U \in SUBSET S, NEW x \in S \ U, U \in C PROVE U \cup {x} \in C
  <2>1. SumFunctionOnSet(f, U \cup {x}) = f[x] + SumFunctionOnSet(f, U)
    BY <1>0, SumAdd
  <2>2. SumFunctionOnSet(h, U \cup {x}) = h[x] + SumFunctionOnSet(h, U)
    BY <1>0, SumAdd
  <2>3. SumFunctionOnSet(f, U) \in Int /\ f[x] \in Int
    BY <1>0, SumType
  <2>4. k * (f[x] + SumFunctionOnSet(f, U)) = k * f[x] + k * SumFunctionOnSet(f, U)
    BY <2>3, TimesPlus
  <2> QED BY <2>1, <2>2, <2>4, <1>2
<1> HIDE DEF C
<1>3. S \in C
  BY <1>1, <1>2, SubsetFamilyInduction
<1> QED BY <1>3 DEF C

(***************************************************************************)
(* The sum of values that are all below a bound.                           *)
(***************************************************************************)
LEMMA SumBelow ==
    ASSUME NEW S, IsFiniteSet(S), NEW f \in [S -> Int], NEW k \in Int,
           \A i \in S : f[i] < k
    PROVE  SumFunctionOnSet(f, S) + Cardinality(S) <= k * Cardinality(S)
<1> DEFINE C == {U \in SUBSET S : SumFunctionOnSet(f, U) + Cardinality(U) <= k * Cardinality(U)}
<1>0. \A U \in SUBSET S : IsFiniteSet(U) /\ Cardinality(U) \in Nat
  BY FS_Subset, FS_CardinalityType
<1>1. {} \in C
  BY SumEmpty, FS_EmptySet
<1>2. ASSUME NEW U \in SUBSET S, NEW x \in S \ U, U \in C PROVE U \cup {x} \in C
  <2>1. SumFunctionOnSet(f, U \cup {x}) = f[x] + SumFunctionOnSet(f, U)
    BY <1>0, SumAdd
  <2>2. Cardinality(U \cup {x}) = Cardinality(U) + 1
    BY <1>0, FS_AddElement
  <2>3. SumFunctionOnSet(f, U) \in Int /\ f[x] \in Int /\ f[x] < k
    BY <1>0, SumType
  <2>4. k * (Cardinality(U) + 1) = k * Cardinality(U) + k
    BY <1>0
  <2>5. k * Cardinality(U) \in Int
    BY <1>0
  <2> DEFINE m == k * Cardinality(U)
  <2>6. SumFunctionOnSet(f, U) + Cardinality(U) <= m
    BY <1>2
  <2>7. m \in Int /\ Cardinality(U) \in Nat
    BY <2>5, <1>0
  <2>8. k * Cardinality(U \cup {x}) = m + k
    BY <2>2, <2>4
  <2> HIDE DEF m
  <2>9. (f[x] + SumFunctionOnSet(f, U)) + (Cardinality(U) + 1) <= m + k
    BY <2>3, <2>6, <2>7
  <2>10. SumFunctionOnSet(f, U \cup {x}) + Cardinality(U \cup {x}) <= k * Cardinality(U \cup {x})
    BY <2>1, <2>2, <2>8, <2>9
  <2> QED BY <2>10
<1> HIDE DEF C
<1>3. S \in C
  BY <1>1, <1>2, SubsetFamilyInduction
<1> QED BY <1>3 DEF C

(***************************************************************************)
(* The sum of an indicator counts the elements that have it.               *)
(***************************************************************************)
LEMMA SumCount ==
    ASSUME NEW S, IsFiniteSet(S), NEW A, NEW f \in [S -> Int],
           \A i \in S : f[i] = IF i \in A THEN 1 ELSE 0
    PROVE  SumFunctionOnSet(f, S) = Cardinality(S \cap A)
<1> DEFINE C == {U \in SUBSET S : SumFunctionOnSet(f, U) = Cardinality(U \cap A)}
<1>0. \A U \in SUBSET S : IsFiniteSet(U) /\ Cardinality(U) \in Nat
  BY FS_Subset, FS_CardinalityType
<1>1. {} \in C
  <2>1. {} \cap A = {}
    OBVIOUS
  <2> QED BY <2>1, SumEmpty, FS_EmptySet
<1>2. ASSUME NEW U \in SUBSET S, NEW x \in S \ U, U \in C PROVE U \cup {x} \in C
  <2>1. SumFunctionOnSet(f, U \cup {x}) = f[x] + SumFunctionOnSet(f, U)
    BY <1>0, SumAdd
  <2>2. IsFiniteSet(U \cap A) /\ Cardinality(U \cap A) \in Nat /\ x \notin U \cap A
    BY <1>0, FS_Intersection, FS_CardinalityType
  <2>3. SumFunctionOnSet(f, U) = Cardinality(U \cap A)
    BY <1>2
  <2>6. f[x] = IF x \in A THEN 1 ELSE 0
    OBVIOUS
  <2>4. CASE x \in A
    <3>1. (U \cup {x}) \cap A = (U \cap A) \cup {x}
      BY <2>4
    <3>2. Cardinality((U \cap A) \cup {x}) = Cardinality(U \cap A) + 1
      BY <2>2, FS_AddElement
    <3>3. SumFunctionOnSet(f, U \cup {x}) = 1 + Cardinality(U \cap A)
      BY <2>1, <2>3, <2>4, <2>6
    <3>4. Cardinality((U \cup {x}) \cap A) = Cardinality(U \cap A) + 1
      BY <3>1, <3>2, Zenon
    <3>5. SumFunctionOnSet(f, U \cup {x}) = Cardinality((U \cup {x}) \cap A)
      BY <2>2, <3>3, <3>4
    <3> QED BY <3>5
  <2>5. CASE x \notin A
    <3>1. (U \cup {x}) \cap A = U \cap A
      BY <2>5
    <3>2. Cardinality((U \cup {x}) \cap A) = Cardinality(U \cap A)
      BY <3>1, Zenon
    <3>3. SumFunctionOnSet(f, U \cup {x}) = Cardinality((U \cup {x}) \cap A)
      BY <2>1, <2>2, <2>3, <2>5, <2>6, <3>2
    <3> QED BY <3>3
  <2> QED BY <2>4, <2>5
<1> HIDE DEF C
<1>3. S \in C
  BY <1>1, <1>2, SubsetFamilyInduction
<1> QED BY <1>3 DEF C

\* h is the pointwise sum of f and g.
PlusOf(S, h, f, g) ==
    /\ IsFiniteSet(S) /\ f \in [S -> Int] /\ g \in [S -> Int] /\ h \in [S -> Int]
    /\ \A i \in S : h[i] = f[i] + g[i]

LEMMA SumPlusOf ==
    ASSUME NEW S, NEW h, NEW f, NEW g, PlusOf(S, h, f, g)
    PROVE  SumFunctionOnSet(h, S) = SumFunctionOnSet(f, S) + SumFunctionOnSet(g, S)
BY SumPlus DEF PlusOf

(***************************************************************************)
(* No summand of a sum of naturals exceeds it.                             *)
(***************************************************************************)
LEMMA SumSummand ==
    ASSUME NEW D, NEW f \in [D -> Int], NEW S \in SUBSET D, IsFiniteSet(S),
           \A i \in S : f[i] >= 0, NEW x \in S
    PROVE  f[x] <= SumFunctionOnSet(f, S)
<1>1. SumFunctionOnSet(f, S) = f[x] + SumFunctionOnSet(f, S \ {x})
  BY SumRemove
<1>2. IsFiniteSet(S \ {x}) /\ S \ {x} \in SUBSET D /\ \A i \in S \ {x} : f[i] >= 0
  BY FS_RemoveElement
<1>3. SumFunctionOnSet(f, S \ {x}) >= 0 /\ SumFunctionOnSet(f, S \ {x}) \in Int
  BY <1>2, SumNat, SumType
<1>4. f[x] \in Int
  OBVIOUS
<1> QED BY <1>1, <1>3, <1>4

(***************************************************************************)
(* Ranks: in a finite set with a strict total order, exactly d elements    *)
(* have fewer than d elements before them.                                 *)
(***************************************************************************)
LEMMA FirstByRank ==
    ASSUME NEW S, IsFiniteSet(S), NEW R, NEW d \in Nat, d <= Cardinality(S),
           \A i \in S : <<i, i>> \notin R,
           \A i, j \in S : i # j => (<<i, j>> \in R \/ <<j, i>> \in R),
           \A i, j, k \in S : (<<i, j>> \in R /\ <<j, k>> \in R) => <<i, k>> \in R
    PROVE  Cardinality({i \in S : Cardinality({j \in S : <<j, i>> \in R}) < d}) = d
<1> DEFINE Before(i) == {j \in S : <<j, i>> \in R}
           n == Cardinality(S)
           rank == [i \in S |-> Cardinality(Before(i))]
           First == {i \in S : Cardinality(Before(i)) < d}
           low == [i \in First |-> rank[i]]
<1>1. n \in Nat
  BY FS_CardinalityType
<1>2. \A i \in S : IsFiniteSet(Before(i)) /\ Cardinality(Before(i)) \in Nat
  BY FS_Subset, FS_CardinalityType
<1>3. \A i \in S : Cardinality(Before(i)) < n
  <2> SUFFICES ASSUME NEW i \in S PROVE Cardinality(Before(i)) < n
    OBVIOUS
  <2>1. Before(i) \in SUBSET S /\ i \notin Before(i)
    OBVIOUS
  <2> HIDE DEF Before
  <2>2. Cardinality(Before(i)) <= n /\ (n = Cardinality(Before(i)) => S = Before(i))
    BY <2>1, FS_Subset
  <2> QED BY <1>1, <1>2, <2>1, <2>2
<1>4. \A i, j \in S : <<i, j>> \in R => rank[i] < rank[j]
  <2> SUFFICES ASSUME NEW i \in S, NEW j \in S, <<i, j>> \in R
               PROVE  Cardinality(Before(i)) < Cardinality(Before(j))
    OBVIOUS
  <2>1. Before(i) \in SUBSET Before(j) /\ i \in Before(j) /\ i \notin Before(i)
    OBVIOUS
  <2> HIDE DEF Before
  <2>2. /\ Cardinality(Before(i)) <= Cardinality(Before(j))
        /\ Cardinality(Before(j)) = Cardinality(Before(i)) => Before(j) = Before(i)
    BY <1>2, <2>1, FS_Subset
  <2> QED BY <1>2, <2>1, <2>2
<1>5. \A i, j \in S : rank[i] = rank[j] => i = j
  <2> SUFFICES ASSUME NEW i \in S, NEW j \in S, rank[i] = rank[j], i # j PROVE FALSE
    OBVIOUS
  <2>1. rank[i] \in Nat /\ rank[j] \in Nat
    BY <1>2
  <2> HIDE DEF rank
  <2>2. <<i, j>> \in R \/ <<j, i>> \in R
    OBVIOUS
  <2>3. rank[i] < rank[j] \/ rank[j] < rank[i]
    BY <1>4, <2>2
  <2> QED BY <2>1, <2>3
<1> HIDE DEF Before, n
<1>6. rank \in [S -> 0..n - 1]
  BY <1>1, <1>2, <1>3
<1>7. rank \in Injection(S, 0..n - 1)
  <2> HIDE DEF rank
  <2> QED BY <1>5, <1>6 DEF Injection, IsInjective
<1>8. IsFiniteSet(0..n - 1) /\ Cardinality(0..n - 1) = n
  BY <1>1, FS_Interval
<1>9. rank \in Surjection(S, 0..n - 1)
  <2> HIDE DEF rank
  <2> QED BY <1>7, <1>8, FS_Injection DEF n
<1>10. \A k \in 0..n - 1 : \E i \in S : rank[i] = k
  <2> HIDE DEF rank
  <2> QED BY <1>9 DEF Surjection
<1>11. d <= n
  BY DEF n
<1>12. low \in [First -> 0..d - 1]
  BY <1>2
<1>13. \A i, j \in First : low[i] = low[j] => i = j
  BY <1>5
<1>14. \A k \in 0..d - 1 : \E i \in First : low[i] = k
  BY <1>1, <1>10, <1>11
<1>15. low \in Bijection(First, 0..d - 1)
  <2> HIDE DEF low, First
  <2> QED BY <1>12, <1>13, <1>14 DEF Bijection, Injection, Surjection, IsInjective
<1>16. IsFiniteSet(First)
  BY FS_Subset
<1>17. Cardinality(0..d - 1) = d
  BY FS_Interval
<1>18. Cardinality(0..d - 1) = Cardinality(First)
  <2> HIDE DEF low, First
  <2>1. ExistsBijection(First, 0..d - 1)
    BY <1>15 DEF ExistsBijection
  <2> QED BY <2>1, <1>16, FS_Bijection
<1> QED BY <1>17, <1>18 DEF Before

-----------------------------------------------------------------------------
(***************************************************************************)
(* Quantities of the levels                                                *)
(***************************************************************************)

LEMMA DivMod ==
    ASSUME NEW a \in Nat, NEW b \in Nat \ {0}
    PROVE  a \div b \in Nat /\ a % b \in Nat /\ a % b < b /\ a = b * (a \div b) + (a % b)
<1>1. a \div b \in Int /\ a % b \in Int /\ 0 <= a % b /\ a % b < b
  OBVIOUS
<1>2. a \div b >= 0
  OBVIOUS
<1>3. a = b * (a \div b) + (a % b)
  OBVIOUS
<1> QED BY <1>1, <1>2, <1>3

LEMMA BoundedQuotient ==
    ASSUME NEW t \in Nat \ {0}, NEW q \in Int, NEW n \in Nat, 0 <= t * q, t * q < t * n
    PROVE  0 <= q /\ q < n
<1>1. ASSUME q <= -1 PROVE FALSE
  <2>1. t * q <= t * (-1)
    BY <1>1
  <2> QED BY <2>1
<1>2. ASSUME q >= n PROVE FALSE
  <2>1. t * q >= t * n
    BY <1>2
  <2>2. t * q \in Int /\ t * n \in Int
    OBVIOUS
  <2> QED BY <2>1, <2>2
<1> QED BY <1>1, <1>2

\* R * pct[i] divided by t is floor[i], and frac[i] remains.
SharesOf(S, D, pct, floor, frac, t, R) ==
    /\ IsFiniteSet(S) /\ S \in SUBSET D /\ pct \in [D -> Int]
    /\ floor \in [S -> Int] /\ frac \in [S -> Int] /\ t \in Int /\ R \in Int
    /\ \A i \in S : R * pct[i] = t * floor[i] + frac[i]

(***************************************************************************)
(* The shares of a quantity, each divided by the same total: the quotients *)
(* and the remainders add up.                                              *)
(***************************************************************************)
LEMMA ShareSum ==
    ASSUME NEW S, NEW D, NEW pct, NEW floor, NEW frac, NEW t, NEW R, SharesOf(S, D, pct, floor, frac, t, R)
    PROVE  R * SumFunctionOnSet(pct, S) = t * SumFunctionOnSet(floor, S) + SumFunctionOnSet(frac, S)
<1>0. /\ IsFiniteSet(S) /\ S \in SUBSET D /\ pct \in [D -> Int]
      /\ floor \in [S -> Int] /\ frac \in [S -> Int] /\ t \in Int /\ R \in Int
  BY DEF SharesOf
<1> DEFINE pa == [i \in S |-> pct[i]]
           share == [i \in S |-> R * pct[i]]
           floors == [i \in S |-> t * floor[i]]
<1>1. pa \in [S -> Int]
  BY <1>0
<1>2. share \in [S -> Int]
  BY <1>0
<1>3. floors \in [S -> Int]
  BY <1>0
<1>4. \A i \in S : pct[i] = pa[i]
  OBVIOUS
<1>5. \A i \in S : share[i] = R * pa[i]
  OBVIOUS
<1>6. \A i \in S : floors[i] = t * floor[i]
  OBVIOUS
<1>7. \A i \in S : share[i] = floors[i] + frac[i]
  BY DEF SharesOf
<1> HIDE DEF pa, share, floors
<1>8. SumFunctionOnSet(pct, S) = SumFunctionOnSet(pa, S)
  BY <1>0, <1>1, <1>4, SumSame
<1>9. SumFunctionOnSet(share, S) = R * SumFunctionOnSet(pa, S)
  BY <1>0, <1>1, <1>2, <1>5, SumTimes
<1>10. SumFunctionOnSet(floors, S) = t * SumFunctionOnSet(floor, S)
  BY <1>0, <1>3, <1>6, SumTimes
<1>11. SumFunctionOnSet(share, S) = SumFunctionOnSet(floors, S) + SumFunctionOnSet(frac, S)
  <2>1. PlusOf(S, share, floors, frac)
    BY <1>0, <1>2, <1>3, <1>7 DEF PlusOf
  <2> QED BY <2>1, SumPlusOf
<1> QED BY <1>8, <1>9, <1>10, <1>11

(***************************************************************************)
(* Adding one to some of the values, and taking one off them.              *)
(***************************************************************************)
LEMMA AddedSum ==
    ASSUME NEW S, IsFiniteSet(S), NEW A \in SUBSET S, NEW f \in [S -> Int], NEW g \in [S -> Int],
           \A i \in S : g[i] = IF i \in A THEN f[i] + 1 ELSE f[i]
    PROVE  SumFunctionOnSet(g, S) = SumFunctionOnSet(f, S) + Cardinality(A)
<1> DEFINE one == [i \in S |-> IF i \in A THEN 1 ELSE 0]
<1>1. one \in [S -> Int]
  OBVIOUS
<1>2. \A i \in S : one[i] = IF i \in A THEN 1 ELSE 0
  OBVIOUS
<1>3. \A i \in S : g[i] = f[i] + one[i]
  OBVIOUS
<1> HIDE DEF one
<1>4. SumFunctionOnSet(one, S) = Cardinality(S \cap A)
  BY <1>1, <1>2, SumCount
<1>5. S \cap A = A
  OBVIOUS
<1>6. Cardinality(S \cap A) = Cardinality(A)
  BY <1>5, Zenon
<1>7. SumFunctionOnSet(g, S) = SumFunctionOnSet(f, S) + SumFunctionOnSet(one, S)
  BY <1>1, <1>3, SumPlus
<1> QED BY <1>4, <1>6, <1>7

LEMMA RemovedSum ==
    ASSUME NEW S, IsFiniteSet(S), NEW A \in SUBSET S, NEW f \in [S -> Int], NEW g \in [S -> Int],
           \A i \in S : g[i] = IF i \in A THEN f[i] - 1 ELSE f[i]
    PROVE  SumFunctionOnSet(g, S) = SumFunctionOnSet(f, S) - Cardinality(A)
<1>1. \A i \in S : f[i] = IF i \in A THEN g[i] + 1 ELSE g[i]
  OBVIOUS
<1>2. SumFunctionOnSet(f, S) = SumFunctionOnSet(g, S) + Cardinality(A)
  BY <1>1, AddedSum
<1>3. Cardinality(A) \in Nat /\ SumFunctionOnSet(g, S) \in Int
  BY FS_Subset, FS_CardinalityType, SumType
<1> QED BY <1>2, <1>3

LEMMA PositiveSum ==
    ASSUME NEW D, NEW f \in [D -> Nat \ {0}], NEW S \in SUBSET D, IsFiniteSet(S), S # {}
    PROVE  SumFunctionOnSet(f, S) \in Nat \ {0}
<1>1. f \in [D -> Int] /\ \A i \in S : f[i] >= 0 /\ f[i] \in Nat \ {0}
  OBVIOUS
<1>2. PICK x : x \in S
  OBVIOUS
<1>3. f[x] <= SumFunctionOnSet(f, S)
  BY <1>1, <1>2, SumSummand
<1>4. SumFunctionOnSet(f, S) \in Int
  BY <1>1, SumType
<1>5. f[x] \in Nat \ {0}
  BY <1>1, <1>2
<1> QED BY <1>3, <1>4, <1>5

LEMMA FractionSum ==
    ASSUME NEW S, IsFiniteSet(S), S # {}, NEW t \in Int, NEW frac \in [S -> Int],
           \A i \in S : 0 <= frac[i] /\ frac[i] < t
    PROVE  /\ SumFunctionOnSet(frac, S) \in Int /\ 0 <= SumFunctionOnSet(frac, S)
           /\ SumFunctionOnSet(frac, S) < t * Cardinality(S)
<1>1. SumFunctionOnSet(frac, S) \in Int
  BY SumType
<1>2. 0 <= SumFunctionOnSet(frac, S)
  BY SumNat
<1>3. SumFunctionOnSet(frac, S) + Cardinality(S) <= t * Cardinality(S)
  BY SumBelow
<1>4. Cardinality(S) \in Nat /\ Cardinality(S) # 0
  BY FS_CardinalityType, FS_EmptySet
<1>5. t * Cardinality(S) \in Int
  BY <1>4
<1> QED BY <1>1, <1>2, <1>3, <1>4, <1>5

(***************************************************************************)
(* computeRebalancedQtys hands out exactly the remaining quantity, and     *)
(* nothing negative, whatever the shares are: rounding is corrected on as  *)
(* many levels as it is off by.                                            *)
(***************************************************************************)
LEMMA RebalancedSum ==
    ASSUME NEW D \in SUBSET Nat, NEW pct \in [D -> Nat \ {0}], NEW active \in SUBSET D,
           IsFiniteSet(active), active # {}, NEW R \in Nat
    PROVE  /\ computeRebalancedQtys(active, pct, R) \in [active -> Nat]
           /\ SumFunctionOnSet(computeRebalancedQtys(active, pct, R), active) = R
<1> DEFINE Sum(f) == SumFunctionOnSet(f, active)
           total == Sum(pct)
           floor == [i \in active |-> (R * pct[i]) \div total]
           frac == [i \in active |-> ((R * pct[i]) % total)]
           up == {i \in active : 2 * frac[i] >= total}
           rounded == [i \in active |-> (R * pct[i]) \div total + (IF i \in up THEN 1 ELSE 0)]
           diff == R - Sum(rounded)
           nearer(i) == {j \in active \ up : frac[j] > frac[i] \/ (frac[j] = frac[i] /\ j < i)}
           farther(i) == {j \in up : frac[j] < frac[i] \/ (frac[j] = frac[i] /\ j < i)}
           qtys == [i \in active |->
                       IF i \notin up /\ Cardinality(nearer(i)) < diff THEN rounded[i] + 1
                       ELSE IF i \in up /\ Cardinality(farther(i)) < -diff THEN rounded[i] - 1
                       ELSE rounded[i]]
           n == Cardinality(active)
           D0 == R - Sum(floor)
<1>1. computeRebalancedQtys(active, pct, R) = qtys
  BY DEF computeRebalancedQtys
<1>2. n \in Nat /\ active \subseteq Nat
  BY FS_CardinalityType
<1>3. total \in Nat \ {0}
  BY PositiveSum
<1> HIDE DEF total
<1>4. \A i \in active : R * pct[i] \in Nat
  OBVIOUS
<1>5. \A i \in active : /\ floor[i] \in Nat /\ frac[i] \in Nat /\ frac[i] < total
                        /\ R * pct[i] = total * floor[i] + frac[i]
  BY <1>3, <1>4, DivMod
<1>6. floor \in [active -> Int] /\ frac \in [active -> Int]
  BY <1>5
<1>7. /\ up \in SUBSET active /\ rounded \in [active -> Int]
      /\ \A i \in active : rounded[i] = floor[i] + (IF i \in up THEN 1 ELSE 0)
  BY <1>6
<1>8. qtys = [i \in active |-> qtys[i]]
  OBVIOUS
<1>9. /\ \A i \in active \ up : qtys[i] = IF Cardinality(nearer(i)) < diff THEN rounded[i] + 1 ELSE rounded[i]
      /\ \A i \in up : qtys[i] = IF Cardinality(farther(i)) < -diff THEN rounded[i] - 1 ELSE rounded[i]
  OBVIOUS
<1> HIDE DEF floor, frac, up, rounded, qtys
<1>10. R * total = total * Sum(floor) + Sum(frac)
  <2>1. active \in SUBSET D /\ pct \in [D -> Int] /\ R \in Int /\ total \in Int
    BY <1>3
  <2>2. SharesOf(active, D, pct, floor, frac, total, R)
    BY <2>1, <1>5, <1>6 DEF SharesOf
  <2>3. R * Sum(pct) = total * Sum(floor) + Sum(frac)
    BY <2>2, ShareSum
  <2> QED BY <2>3 DEF total
<1>11. Sum(frac) \in Int /\ 0 <= Sum(frac) /\ Sum(frac) < total * n
  <2>1. \A i \in active : 0 <= frac[i] /\ frac[i] < total
    BY <1>5
  <2>2. total \in Int
    BY <1>3
  <2> QED BY <2>1, <2>2, <1>6, FractionSum
<1>12. Sum(floor) \in Int
  BY <1>6, SumType
<1>13. Sum(frac) = total * D0
  <2> DEFINE sf == Sum(floor)
             ff == Sum(frac)
  <2>1. R * total = total * sf + ff /\ sf \in Int /\ ff \in Int
    BY <1>10, <1>11, <1>12
  <2> HIDE DEF sf, ff
  <2>2. total * (R - sf) = total * R - total * sf
    BY <1>3, <2>1
  <2>3. R * total = total * R /\ total * R \in Int /\ total * sf \in Int
    BY <1>3, <2>1
  <2>4. ff = total * (R - sf)
    BY <2>1, <2>2, <2>3
  <2> QED BY <2>4 DEF sf, ff
<1>14. D0 \in Int /\ 0 <= D0 /\ D0 < n
  <2>1. D0 \in Int
    BY <1>12
  <2>2. 0 <= total * D0 /\ total * D0 < total * n
    BY <1>11, <1>13
  <2> HIDE DEF D0, n
  <2> QED BY <1>2, <1>3, <2>1, <2>2, BoundedQuotient
<1>15. IsFiniteSet(up) /\ IsFiniteSet(active \ up) /\ Cardinality(up) \in Nat
  BY <1>7, FS_Subset, FS_CardinalityType
<1>16. Cardinality(active \ up) = n - Cardinality(up)
  <2>1. active \cap up = up
    BY <1>7
  <2> QED BY <2>1, FS_Difference
<1>17. Sum(rounded) = Sum(floor) + Cardinality(up)
  <2>1. \A i \in active : rounded[i] = IF i \in up THEN floor[i] + 1 ELSE floor[i]
    BY <1>6, <1>7
  <2> QED BY <2>1, <1>6, <1>7, AddedSum
<1>18. diff = D0 - Cardinality(up) /\ Sum(rounded) \in Int
  BY <1>12, <1>15, <1>17
<1>19. diff \in Int /\ diff < Cardinality(active \ up) /\ -diff <= Cardinality(up)
  <2> HIDE DEF D0, n, diff
  <2> QED BY <1>2, <1>14, <1>15, <1>16, <1>18
<1>20. Sum(rounded) + diff = R
  BY <1>18
<1> HIDE DEF diff
<1>21. \A i \in active : rounded[i] \in Nat /\ (i \in up => rounded[i] >= 1)
  BY <1>5, <1>7
<1>22. \A i \in active : /\ Cardinality(nearer(i)) \in Nat
                         /\ Cardinality(farther(i)) \in Nat
  <2> SUFFICES ASSUME NEW i \in active
               PROVE  IsFiniteSet(nearer(i)) /\ IsFiniteSet(farther(i))
    <3> HIDE DEF nearer, farther
    <3> QED BY FS_CardinalityType
  <2> QED BY <1>15, FS_Subset
<1>23. CASE diff >= 0
  <2> DEFINE Rel == {p \in active \X active :
                        frac[p[1]] > frac[p[2]] \/ (frac[p[1]] = frac[p[2]] /\ p[1] < p[2])}
             more == {i \in active \ up : Cardinality(nearer(i)) < diff}
  <2>1. \A i \in active \ up : nearer(i) = {j \in active \ up : <<j, i>> \in Rel}
    OBVIOUS
  <2>2. Cardinality({i \in active \ up : Cardinality({j \in active \ up : <<j, i>> \in Rel}) < diff}) = diff
    <3>1. \A i \in active : frac[i] \in Int /\ i \in Int
      BY <1>6, <1>2
    <3>2. \A i \in active \ up : <<i, i>> \notin Rel
      BY <3>1
    <3>3. \A i, j \in active \ up : i # j => (<<i, j>> \in Rel \/ <<j, i>> \in Rel)
      BY <3>1
    <3>4. \A i, j, k \in active \ up : (<<i, j>> \in Rel /\ <<j, k>> \in Rel) => <<i, k>> \in Rel
      BY <3>1
    <3>5. diff \in Nat /\ diff <= Cardinality(active \ up)
      BY <1>2, <1>15, <1>16, <1>19, <1>23
    <3> HIDE DEF Rel
    <3> QED BY <1>15, <3>2, <3>3, <3>4, <3>5, FirstByRank
  <2>3. more = {i \in active \ up : Cardinality({j \in active \ up : <<j, i>> \in Rel}) < diff}
    BY <2>1
  <2>4. Cardinality(more) = diff
    BY <2>2, <2>3
  <2>5. \A i \in active : qtys[i] = rounded[i] + (IF i \in more THEN 1 ELSE 0)
    <3> HIDE DEF nearer, farther
    <3>1. \A i \in up : ~(Cardinality(farther(i)) < -diff)
      BY <1>7, <1>19, <1>22, <1>23
    <3>2. \A i \in up : i \notin more /\ qtys[i] = rounded[i]
      BY <1>9, <3>1
    <3>3. \A i \in active \ up : i \in more <=> Cardinality(nearer(i)) < diff
      OBVIOUS
    <3>4. \A i \in active \ up : qtys[i] = rounded[i] + (IF i \in more THEN 1 ELSE 0)
      <4> HIDE DEF more
      <4> QED BY <1>9, <3>3, <1>21
    <3> QED BY <1>7, <1>21, <3>2, <3>4
  <2>6. more \in SUBSET active
    OBVIOUS
  <2> HIDE DEF Rel, nearer, farther, more
  <2>7. \A i \in active : qtys[i] \in Nat
    BY <2>5, <1>21
  <2>8. qtys \in [active -> Nat] /\ qtys \in [active -> Int]
    BY <2>7, <1>8
  <2>9. Sum(qtys) = Sum(rounded) + Cardinality(more)
    <3>1. \A i \in active : qtys[i] = IF i \in more THEN rounded[i] + 1 ELSE rounded[i]
      BY <1>7, <2>5
    <3> QED BY <1>7, <2>6, <2>8, <3>1, AddedSum
  <2> QED BY <1>1, <1>19, <1>20, <2>4, <2>8, <2>9
<1>24. CASE diff < 0
  <2> DEFINE Rel == {p \in active \X active :
                        frac[p[1]] < frac[p[2]] \/ (frac[p[1]] = frac[p[2]] /\ p[1] < p[2])}
             less == {i \in up : Cardinality(farther(i)) < -diff}
  <2>1. \A i \in up : farther(i) = {j \in up : <<j, i>> \in Rel}
    BY <1>7
  <2>2. Cardinality({i \in up : Cardinality({j \in up : <<j, i>> \in Rel}) < -diff}) = -diff
    <3>1. \A i \in up : i \in active /\ frac[i] \in Int /\ i \in Int
      BY <1>6, <1>7, <1>2
    <3>2. \A i \in up : <<i, i>> \notin Rel
      BY <3>1
    <3>3. \A i, j \in up : i # j => (<<i, j>> \in Rel \/ <<j, i>> \in Rel)
      BY <3>1
    <3>4. \A i, j, k \in up : (<<i, j>> \in Rel /\ <<j, k>> \in Rel) => <<i, k>> \in Rel
      BY <3>1
    <3>5. -diff \in Nat /\ -diff <= Cardinality(up)
      BY <1>19, <1>24
    <3> HIDE DEF Rel
    <3> QED BY <1>15, <3>2, <3>3, <3>4, <3>5, FirstByRank
  <2>3. less = {i \in up : Cardinality({j \in up : <<j, i>> \in Rel}) < -diff}
    BY <2>1
  <2>4. Cardinality(less) = -diff
    BY <2>2, <2>3
  <2>5. \A i \in active : qtys[i] = rounded[i] + (IF i \in less THEN -1 ELSE 0)
    <3> HIDE DEF nearer, farther
    <3>1. \A i \in active \ up : ~(Cardinality(nearer(i)) < diff)
      BY <1>19, <1>22, <1>24
    <3>2. \A i \in active \ up : i \notin less /\ qtys[i] = rounded[i]
      BY <1>9, <3>1
    <3>3. \A i \in up : i \in less <=> Cardinality(farther(i)) < -diff
      OBVIOUS
    <3>4. \A i \in up : qtys[i] = rounded[i] + (IF i \in less THEN -1 ELSE 0)
      <4> HIDE DEF less
      <4> QED BY <1>7, <1>9, <3>3, <1>21
    <3> QED BY <1>7, <1>21, <3>2, <3>4
  <2>6. less \in SUBSET active /\ less \subseteq up
    BY <1>7
  <2> HIDE DEF Rel, nearer, farther, less
  <2>7. \A i \in active : qtys[i] \in Nat
    BY <2>5, <2>6, <1>21
  <2>8. qtys \in [active -> Nat] /\ qtys \in [active -> Int]
    BY <2>7, <1>8
  <2>9. Sum(qtys) = Sum(rounded) - Cardinality(less)
    <3>1. \A i \in active : qtys[i] = IF i \in less THEN rounded[i] - 1 ELSE rounded[i]
      BY <1>7, <2>5
    <3> QED BY <1>7, <2>6, <2>8, <3>1, RemovedSum
  <2>10. Sum(qtys) = Sum(rounded) + diff
    BY <1>18, <1>19, <2>4, <2>9
  <2> QED BY <1>1, <1>20, <2>8, <2>10
<1> QED BY <1>19, <1>23, <1>24

\* The recursion of Assigned.
ShareOf(levels, filledQty, i) == (filledQty * levels[i].pct) \div 100
NextAssigned(levels, filledQty, A, i) ==
    IF i = 0 THEN 0
    ELSE IF i = Len(levels) THEN filledQty
    ELSE Min({filledQty, A[i - 1] + ShareOf(levels, filledQty, i)})
Assigning(levels, filledQty, A, n) == A = [i \in 0..n |-> NextAssigned(levels, filledQty, A, i)]

LEMMA NextAssignedDepends ==
    ASSUME NEW levels, NEW filledQty, NEW A, NEW B, NEW i, i # 0 => A[i - 1] = B[i - 1]
    PROVE  NextAssigned(levels, filledQty, A, i) = NextAssigned(levels, filledQty, B, i)
<1>1. CASE i = 0
  BY <1>1 DEF NextAssigned
<1>2. CASE i # 0
  <2>1. A[i - 1] = B[i - 1]
    BY <1>2
  <2> QED BY <1>2, <2>1, Zenon DEF NextAssigned
<1> QED BY <1>1, <1>2

LEMMA NextAssignedCases ==
    ASSUME NEW levels, NEW filledQty, NEW A, NEW i
    PROVE  /\ i = 0 => NextAssigned(levels, filledQty, A, i) = 0
           /\ (i # 0 /\ i = Len(levels)) => NextAssigned(levels, filledQty, A, i) = filledQty
           /\ (i # 0 /\ i # Len(levels)) => NextAssigned(levels, filledQty, A, i)
                  = Min({filledQty, A[i - 1] + ShareOf(levels, filledQty, i)})
BY Zenon DEF NextAssigned

LEMMA IntervalGrows ==
    ASSUME NEW k \in Nat
    PROVE  /\ 1..k + 1 = (1..k) \cup {k + 1}
           /\ k + 1 \notin 1..k
OBVIOUS

LEMMA AssigningExists ==
    ASSUME NEW levels, NEW filledQty, NEW n \in Nat
    PROVE  \E A : Assigning(levels, filledQty, A, n)
<1> DEFINE T == {k \in Nat : \E A : Assigning(levels, filledQty, A, k)}
<1>1. 0 \in T
  <2> DEFINE A == [i \in 0..0 |-> 0]
  <2>1. A = [i \in 0..0 |-> NextAssigned(levels, filledQty, A, i)]
    BY DEF NextAssigned
  <2> HIDE DEF A
  <2> QED BY <2>1 DEF Assigning
<1>2. ASSUME NEW k \in Nat, k \in T PROVE k + 1 \in T
  <2>1. PICK A : Assigning(levels, filledQty, A, k)
    BY <1>2
  <2> DEFINE B == [i \in 0..k + 1 |-> IF i <= k THEN A[i] ELSE NextAssigned(levels, filledQty, A, i)]
  <2>2. \A i \in 0..k : A[i] = NextAssigned(levels, filledQty, A, i)
    BY <2>1 DEF Assigning
  <2>3. \A i \in 0..k + 1 : NextAssigned(levels, filledQty, B, i) = NextAssigned(levels, filledQty, A, i)
    <3>1. \A i \in 0..k + 1 : i # 0 => B[i - 1] = A[i - 1]
      OBVIOUS
    <3> HIDE DEF B
    <3> QED BY <3>1, NextAssignedDepends
  <2>4. \A i \in 0..k + 1 : B[i] = NextAssigned(levels, filledQty, B, i)
    <3> HIDE DEF NextAssigned
    <3> QED BY <2>2, <2>3
  <2>5. B = [i \in 0..k + 1 |-> B[i]]
    OBVIOUS
  <2> HIDE DEF B
  <2>6. B = [i \in 0..k + 1 |-> NextAssigned(levels, filledQty, B, i)]
    BY <2>4, <2>5
  <2> QED BY <2>6 DEF Assigning
<1> HIDE DEF T
<1>3. \A k \in Nat : k \in T
  BY <1>1, <1>2, NatFamilyInduction
<1> QED BY <1>3 DEF T

LEMMA AssignedIs ==
    ASSUME NEW levels, NEW filledQty, Len(levels) \in Nat
    PROVE  Assigning(levels, filledQty, Assigned(levels, filledQty), Len(levels))
<1> DEFINE K == CHOOSE A : Assigning(levels, filledQty, A, Len(levels))
<1>1. Assigning(levels, filledQty, K, Len(levels))
  BY AssigningExists
<1>2. Assigned(levels, filledQty) = K
  BY DEF Assigned, Assigning, NextAssigned, ShareOf
<1> HIDE DEF K
<1> QED BY <1>1, <1>2

LEMMA MinOfTwo ==
    ASSUME NEW a \in Int, NEW b \in Int
    PROVE  Min({a, b}) = IF a <= b THEN a ELSE b
<1>1. \E x \in {a, b} : \A y \in {a, b} : x <= y
  OBVIOUS
<1>2. Min({a, b}) \in {a, b} /\ \A y \in {a, b} : Min({a, b}) <= y
  BY <1>1 DEF Min
<1> QED BY <1>2

LEMMA MaxOfTwo ==
    ASSUME NEW a \in Int, NEW b \in Int
    PROVE  Max({a, b}) = IF a >= b THEN a ELSE b
<1>1. \E x \in {a, b} : \A y \in {a, b} : x >= y
  OBVIOUS
<1>2. Max({a, b}) \in {a, b} /\ \A y \in {a, b} : Max({a, b}) >= y
  BY <1>1 DEF Max
<1> QED BY <1>2

LEMMA AssignedCases ==
    ASSUME NEW levels, NEW q, Len(levels) \in Nat
    PROVE  LET A == Assigned(levels, q)
           IN  /\ A = [i \in 0..Len(levels) |-> A[i]]
               /\ \A i \in 0..Len(levels) :
                     /\ i = 0 => A[i] = 0
                     /\ (i # 0 /\ i = Len(levels)) => A[i] = q
                     /\ (i # 0 /\ i # Len(levels)) => A[i] = Min({q, A[i - 1] + ShareOf(levels, q, i)})
<1> DEFINE A == Assigned(levels, q)
           n == Len(levels)
<1>1. A = [i \in 0..n |-> NextAssigned(levels, q, A, i)]
  BY AssignedIs DEF Assigning
<1> HIDE DEF A
<1>2. A = [i \in 0..n |-> A[i]] /\ \A i \in 0..n : A[i] = NextAssigned(levels, q, A, i)
  <2> HIDE DEF n
  <2> QED BY <1>1
<1>3. \A i \in 0..n : /\ i = 0 => A[i] = 0
                      /\ (i # 0 /\ i = n) => A[i] = q
                      /\ (i # 0 /\ i # n) => A[i] = Min({q, A[i - 1] + ShareOf(levels, q, i)})
  <2> SUFFICES ASSUME NEW i \in 0..n
               PROVE  /\ i = 0 => A[i] = 0
                      /\ (i # 0 /\ i = n) => A[i] = q
                      /\ (i # 0 /\ i # n) => A[i] = Min({q, A[i - 1] + ShareOf(levels, q, i)})
    OBVIOUS
  <2>1. A[i] = NextAssigned(levels, q, A, i)
    BY <1>2
  <2>2. i = 0 => NextAssigned(levels, q, A, i) = 0
    BY NextAssignedCases
  <2>3. (i # 0 /\ i = n) => NextAssigned(levels, q, A, i) = q
    BY SMT DEF NextAssigned
  <2>4. (i # 0 /\ i # n) => NextAssigned(levels, q, A, i) = Min({q, A[i - 1] + ShareOf(levels, q, i)})
    BY Zenon DEF NextAssigned
  <2> QED BY <2>1, <2>2, <2>3, <2>4
<1> QED BY <1>2, <1>3 DEF A

\* x can be added to the sum of f over S.
CanAdd(f, S, x) ==
    \E D : f \in [D -> Int] /\ S \in SUBSET D /\ IsFiniteSet(S) /\ x \in D \ S

LEMMA SumCanAdd ==
    ASSUME NEW f, NEW S, NEW x, CanAdd(f, S, x)
    PROVE  SumFunctionOnSet(f, S \cup {x}) = f[x] + SumFunctionOnSet(f, S)
<1>1. PICK D : f \in [D -> Int] /\ S \in SUBSET D /\ IsFiniteSet(S) /\ x \in D \ S
  BY DEF CanAdd
<1> QED BY <1>1, SumAdd

LEMMA IntervalSum ==
    ASSUME NEW n \in Nat, NEW f \in [1..n -> Int], NEW k \in Nat, k + 1 <= n
    PROVE  SumFunctionOnSet(f, 1..k + 1) = f[k + 1] + SumFunctionOnSet(f, 1..k)
<1> DEFINE U == 1..k
           x == k + 1
<1>1. U \in SUBSET (1..n) /\ x \in (1..n) \ U
  OBVIOUS
<1>2. IsFiniteSet(U)
  BY FS_Interval
<1>3. 1..k + 1 = U \cup {x}
  BY IntervalGrows
<1> HIDE DEF U, x
<1>4. CanAdd(f, U, x)
  BY <1>1, <1>2 DEF CanAdd
<1>5. SumFunctionOnSet(f, U \cup {x}) = f[x] + SumFunctionOnSet(f, U)
  BY <1>4, SumCanAdd
<1>6. SumFunctionOnSet(f, 1..k + 1) = SumFunctionOnSet(f, U \cup {x})
  BY <1>3, Zenon
<1> QED BY <1>5, <1>6 DEF U, x

LevelSeq == Seq([price : Nat, pct : 1..100])

LEMMA LevelType ==
    ASSUME NEW levels \in LevelSeq
    PROVE  /\ Len(levels) \in Nat /\ DOMAIN levels = 1..Len(levels)
           /\ \A i \in 1..Len(levels) : /\ levels[i] \in [price : Nat, pct : 1..100]
                                       /\ levels[i].price \in Nat /\ levels[i].pct \in 1..100
<1>1. Len(levels) \in Nat /\ DOMAIN levels = 1..Len(levels)
  BY LenProperties DEF LevelSeq
<1>2. \A i \in 1..Len(levels) : levels[i] \in [price : Nat, pct : 1..100]
  BY ElementOfSeq DEF LevelSeq
<1>3. \A l \in [price : Nat, pct : 1..100] : l.price \in Nat /\ l.pct \in 1..100
  OBVIOUS
<1> QED BY <1>1, <1>2, <1>3

(***************************************************************************)
(* Sums of differences telescope.                                          *)
(***************************************************************************)
LEMMA TelescopingSum ==
    ASSUME NEW n \in Nat, NEW A \in [0..n -> Int], NEW f \in [1..n -> Int],
           \A i \in 1..n : f[i] = A[i] - A[i - 1]
    PROVE  SumFunctionOnSet(f, 1..n) = A[n] - A[0]
<1> DEFINE T == {k \in Nat : k <= n => SumFunctionOnSet(f, 1..k) = A[k] - A[0]}
<1>1. 0 \in T
  <2>1. 1..0 = {}
    OBVIOUS
  <2>2. SumFunctionOnSet(f, 1..0) = 0
    BY <2>1, SumEmpty, Zenon
  <2> QED BY <2>2
<1>2. ASSUME NEW k \in Nat, k \in T PROVE k + 1 \in T
  <2> SUFFICES ASSUME k + 1 <= n PROVE SumFunctionOnSet(f, 1..k + 1) = A[k + 1] - A[0]
    OBVIOUS
  <2>2. k + 1 \in 1..n
    OBVIOUS
  <2>3. SumFunctionOnSet(f, 1..k + 1) = f[k + 1] + SumFunctionOnSet(f, 1..k)
    BY IntervalSum
  <2>4. SumFunctionOnSet(f, 1..k) = A[k] - A[0]
    BY <1>2
  <2>5. f[k + 1] = A[k + 1] - A[k]
    BY <2>2
  <2>6. A[k] \in Int /\ A[k + 1] \in Int /\ A[0] \in Int
    OBVIOUS
  <2> QED BY <2>3, <2>4, <2>5, <2>6
<1> HIDE DEF T
<1>3. \A k \in Nat : k \in T
  BY <1>1, <1>2, NatFamilyInduction
<1> QED BY <1>3 DEF T

(***************************************************************************)
(* computeInitialExitQtys hands out exactly the filled quantity.           *)
(***************************************************************************)
LEMMA InitialSum ==
    ASSUME NEW levels \in LevelSeq, NEW q \in Nat
    PROVE  /\ computeInitialExitQtys(levels, q) \in [1..Len(levels) -> 0..q]
           /\ levels # <<>> => SumFunctionOnSet(computeInitialExitQtys(levels, q), 1..Len(levels)) = q
<1> DEFINE n == Len(levels)
           A == Assigned(levels, q)
           c == computeInitialExitQtys(levels, q)
<1>1. n \in Nat /\ \A i \in 1..n : levels[i].pct \in 1..100
  BY LevelType
<1>3. c = [i \in 1..n |-> A[i] - A[i - 1]]
  BY DEF computeInitialExitQtys
<1> HIDE DEF A, c
<1>4. \A i \in 0..n : (i = 0 => A[i] = 0) /\ ((i # 0 /\ i = n) => A[i] = q)
  BY <1>1, AssignedCases DEF A
<1>0. \A i \in 0..n : (i # 0 /\ i # n) => A[i] = Min({q, A[i - 1] + ShareOf(levels, q, i)})
  BY <1>1, AssignedCases DEF A
<1>2. A = [i \in 0..n |-> A[i]]
  BY <1>1, AssignedCases DEF A
<1> HIDE DEF n
<1>5. ASSUME NEW i \in 1..n, A[i - 1] \in 0..q PROVE A[i] \in 0..q /\ A[i - 1] <= A[i]
  <2>1. CASE i = n
    <3>1. A[i] = q
      BY <1>1, <1>4, <2>1
    <3> QED BY <1>5, <3>1
  <2>2. CASE i # n
    <3> DEFINE more == ShareOf(levels, q, i)
    <3>1. more \in Nat
      <4>1. levels[i].pct \in Nat
        <5>1. levels[i].pct \in 1..100
          BY <1>1
        <5> QED BY <5>1
      <4>2. q * levels[i].pct \in Nat
        BY <4>1
      <4> QED BY <4>2, DivMod DEF ShareOf
    <3>2. A[i] = Min({q, A[i - 1] + more})
      BY <1>1, <1>0, <2>2
    <3> HIDE DEF more
    <3>3. A[i] = IF q <= A[i - 1] + more THEN q ELSE A[i - 1] + more
      BY <1>5, <3>1, <3>2, MinOfTwo
    <3> QED BY <1>5, <3>1, <3>3
  <2> QED BY <2>1, <2>2
<1>6. \A i \in 0..n : A[i] \in 0..q
  <2> DEFINE T == {k \in Nat : k <= n => A[k] \in 0..q}
  <2>1. 0 \in T
    <3>1. A[0] = 0
      BY <1>1, <1>4
    <3> QED BY <3>1
  <2>2. ASSUME NEW k \in Nat, k \in T PROVE k + 1 \in T
    <3> SUFFICES ASSUME k + 1 <= n PROVE A[k + 1] \in 0..q
      OBVIOUS
    <3>1. k + 1 \in 1..n /\ A[(k + 1) - 1] \in 0..q
      BY <2>2, <1>1
    <3> QED BY <3>1, <1>5
  <2> HIDE DEF T
  <2>3. \A k \in Nat : k \in T
    BY <2>1, <2>2, NatFamilyInduction
  <2> QED BY <2>3, <1>1 DEF T
<1>7. \A i \in 1..n : /\ A[i] \in 0..q /\ A[i - 1] \in 0..q
                      /\ c[i] = A[i] - A[i - 1] /\ c[i] \in 0..q
  <2> SUFFICES ASSUME NEW i \in 1..n
               PROVE  A[i] \in 0..q /\ A[i - 1] \in 0..q /\ c[i] = A[i] - A[i - 1] /\ c[i] \in 0..q
    OBVIOUS
  <2>1. A[i - 1] \in 0..q
    BY <1>1, <1>6
  <2>2. A[i] \in 0..q /\ A[i - 1] <= A[i]
    BY <1>5, <2>1
  <2> QED BY <1>3, <2>1, <2>2
<1>8. c \in [1..n -> 0..q]
  BY <1>3, <1>7
<1>9. ASSUME levels # <<>> PROVE SumFunctionOnSet(c, 1..n) = q
  <2>1. n > 0 /\ n \in Nat
    BY <1>1, <1>9, EmptySeq DEF LevelSeq, n
  <2>2. A[n] = q /\ A[0] = 0
    BY <2>1, <1>4
  <2>3. A \in [0..n -> Int]
    BY <1>2, <1>6
  <2>4. c \in [1..n -> Int] /\ \A i \in 1..n : c[i] = A[i] - A[i - 1]
    BY <1>7, <1>8
  <2> HIDE DEF n
  <2>5. SumFunctionOnSet(c, 1..n) = A[n] - A[0]
    BY <2>1, <2>3, <2>4, TelescopingSum
  <2> QED BY <2>2, <2>5
<1> QED BY <1>8, <1>9 DEF c, n

-----------------------------------------------------------------------------
(***************************************************************************)
(* The inductive invariant.                                                *)
(***************************************************************************)

\* ExecutePaperOrder and AddOrder are behind the entry.
Filled == entry > (IF config.route = "direct" THEN 2 ELSE 1)
Added == entry > (IF config.route = "direct" THEN 3 ELSE 2)
Busy == worker.pc # "idle"
Decremented == worker.pc \in {"partial", "row", "cache", "finish"}

\* The entry: nothing is watched before it was added, nothing is filled in
\* the manager before its route is done.
EntryInv ==
    /\ ~Filled => ~row.priced
    /\ ~Added => ~cached
    /\ (Filled /\ entry < 5) => order.qty = Quantity
    /\ (Filled /\ entry < 5 /\ failures = 0) => row.priced /\ row.filled = Quantity
    /\ group.filled => entry = 5
    /\ ~group.filled => /\ group.levels = NoGroup.levels /\ group.remaining = 0
                        /\ group.state # "COMPLETED" /\ ~Busy
    /\ row.priced => row.status # "RECEIVED"
    /\ (row.priced /\ row.status = "CANCELLED") => row.closed

\* The group: what a worker has taken off and not yet put back.
GroupInv ==
    /\ group.filled => /\ \A s \in Sides : DOMAIN group.levels[s] = 1..Len(config.levels[s])
                       /\ group.state # "NONE"
                       /\ group.remaining = 0 <=> group.state = "COMPLETED"
    /\ Busy => worker.level \in 1..Len(config.levels[worker.side])
    /\ Decremented => worker.remaining = group.remaining

\* What the active levels of a side sum up to.
Expected(s) ==
    group.remaining +
        (IF worker.pc = "decrement" /\ s = worker.side THEN -worker.qty
         ELSE IF worker.pc \in {"partial", "row", "cache"} /\ s # worker.side THEN worker.qty
         ELSE 0)

LevelInv ==
    \A s \in Sides :
        (/\ group.filled /\ config.levels[s] # <<>>
         /\ (worker.pc \in {"idle", "finish"} => group.remaining > 0))
        => LevelUnits(s) = Expected(s)

\* The row and the monitor's order lag behind the group by what the worker
\* has not yet written to them.
AgreeInv ==
    (failures = 0 /\ group.state = "ACTIVE" /\ group.filled) =>
        /\ row.filled = group.remaining + (IF worker.pc \in {"partial", "row"} THEN worker.qty ELSE 0)
        /\ cached => order.qty = group.remaining +
                        (IF worker.pc \in {"partial", "row", "cache"} THEN worker.qty ELSE 0)

\* A row is emptied after its group was cancelled.
CancelledInv ==
    /\ \A a \in Admins : admins[a].pc \in {"partial", "zero"} => group.filled /\ group.state # "ACTIVE"
    /\ closing.pc \in {"partial", "zero"} => group.filled /\ group.state # "ACTIVE"

\* Whoever works on the position was asked to.
AskedInv ==
    /\ \A a \in Admins : admins[a].pc # "idle" => a \in scenario
    /\ closing.pc # "idle" => "deactivation" \in scenario

\* An exit has closed the row before it drops the order.
ClosedInv ==
    \A s \in Sources : /\ exits[s].pc = "clean" => row.closed
                       /\ exits[s].pc = "abandon" => failures # 0

\* Whatever exits works on a position that the database knows as filled.
PricedInv ==
    failures = 0 =>
        /\ cached => row.priced
        /\ tick # 0 => row.priced
        /\ poll => row.priced
        /\ \A s \in Sources : exits[s].pc # "idle" => row.priced
        /\ \A a \in Admins : admins[a].pc \notin {"idle", "sweep"} => row.priced

\* Every copy of the open quantity is, with what is recorded, the whole
\* position.  Units in the hand of a worker will still be recorded unless
\* the process is restarted, and together with forced exits or a closing a
\* restart may lose units.
Forced == scenario \intersect {"user", "scheduler", "deactivation"} # {}
Sound == failures = 0 /\ ~MayLoseUnits
InHand == IF worker.pc = "partial" THEN worker.qty ELSE 0
Recorded == partial + (IF Forced THEN InHand ELSE 0)
Covers(qty) == qty + Recorded >= Quantity
CoversAll(qty) == qty + partial + InHand >= Quantity

RowCovered ==
    Sound => /\ row.priced => Covers(row.filled) /\ Covers(order.qty)
             /\ row.closed => Covers(row.booked)
GroupCovered == (Sound /\ group.filled) => CoversAll(group.remaining)
ExitsCovered ==
    Sound => \A s \in Sources :
        (exits[s].pc = "write" \/ (exits[s].pc = "cancel" /\ exits[s].own)) => Covers(exits[s].qty)
AdminsCovered ==
    Sound => \A a \in Admins :
        /\ (admins[a].pc \in {"claim", "cancel", "partial", "zero"} /\ admins[a].own) => Covers(admins[a].qty)
        /\ admins[a].pc = "partial" => CoversAll(admins[a].remaining)
        /\ admins[a].pc = "zero" => CoversAll(0)
ClosingCovered ==
    Sound => /\ closing.qty # 0 => Covers(closing.qty)
             /\ closing.pc = "partial" => CoversAll(closing.remaining)
             /\ closing.pc = "zero" => CoversAll(0)
DropCovered ==
    (Sound /\ row.priced /\ Added /\ ~cached) => (row.closed \/ Covers(0) \/ closing.pc # "idle")

\* The stop is not above the one that the next target would set.
StopInv ==
    /\ ~Added => order.stopLoss <= FillPrice
    /\ (cached /\ ~trail.on /\ entry < 5) => order.stopLoss <= FillPrice
    /\ (cached /\ ~trail.on) => \A i \in ActiveLevels("TP") : order.stopLoss <= computeNewSLAfterTP(i)
    /\ (Busy /\ worker.side = "TP") =>
          /\ (cached /\ ~trail.on) => order.stopLoss <= computeNewSLAfterTP(worker.level)
          /\ \A i \in ActiveLevels("TP") : worker.level < i

Parts ==
    /\ EntryInv /\ GroupInv /\ LevelInv /\ AgreeInv /\ CancelledInv /\ AskedInv /\ ClosedInv /\ PricedInv
    /\ RowCovered /\ GroupCovered /\ ExitsCovered /\ AdminsCovered /\ ClosingCovered /\ DropCovered /\ StopInv
Inv == TypeOK /\ Parts

-----------------------------------------------------------------------------
(***************************************************************************)
(* Types.                                                                  *)
(***************************************************************************)

RowSet == [status : {"RECEIVED", "FILLED", "CANCELLED"}, priced : BOOLEAN, closed : BOOLEAN,
           filled : Units, booked : Units, stopLoss : Nat]
OrderSet == [qty : Units, stopLoss : Nat, takeProfit : Nat]
TrailSet == [on : BOOLEAN, best : Nat, sl : Nat, dist : Nat]
LevelSet == [qty : Units, active : BOOLEAN]
GroupSet == [state : {"NONE", "ACTIVE", "COMPLETED", "CANCELLED"}, filled : BOOLEAN, remaining : Units,
             levels : [Sides -> Seq(LevelSet)]]
WorkerSet == [pc : {"idle", "decrement", "partial", "row", "cache", "finish"},
              side : Sides, level : Nat, qty : Units, remaining : Units]
ExitSet == [pc : {"idle", "cancel", "write", "clean", "abandon"}, own : BOOLEAN, qty : Units]
AdminSet == [pc : {"idle", "sweep", "claim", "cancel", "partial", "zero"},
             own : BOOLEAN, qty : Units, remaining : Units]
ClosingSet == [pc : {"idle", "fetch", "groups", "partial", "zero", "price", "cancel"},
               qty : Units, remaining : Units]
IsCase(sc, cf) == \E c \in Cases : sc = c.scenario /\ cf = c.config

TypeInv ==
    /\ IsCase(scenario, config) /\ entry \in 1..5
    /\ row \in RowSet /\ partial \in Nat /\ failures \in Nat /\ restarts \in Nat /\ requests \in [Actors -> Nat]
    /\ cached \in BOOLEAN /\ exiting \in BOOLEAN /\ poll \in BOOLEAN
    /\ order \in OrderSet /\ trail \in TrailSet /\ group \in GroupSet
    /\ jobs \subseteq Prices /\ tick \in Prices \union {0} /\ writes \subseteq Nat
    /\ worker \in WorkerSet /\ exits \in [Sources -> ExitSet] /\ admins \in [Admins -> AdminSet]
    /\ closing \in ClosingSet

LEMMA TypeIs == TypeOK <=> TypeInv
BY DEF TypeOK, TypeInv, IsCase, RowSet, OrderSet, TrailSet, LevelSet, GroupSet, WorkerSet, ExitSet, AdminSet, ClosingSet

LEMMA ConfigTypes ==
    ASSUME TypeInv
    PROVE  /\ config.route \in {"direct", "late", "plain"}
           /\ config.slMode \in {"FIXED", "TRAILING", "MULTI_LEVEL"}
           /\ config.stopLoss \in Nat /\ config.takeProfit \in Nat /\ config.storedSL \in Nat /\ config.storedTP \in Nat
           /\ config.stopLoss <= FillPrice /\ config.ownTime \in BOOLEAN
           /\ \A s \in Sides : config.levels[s] \in LevelSeq
           /\ scenario \subseteq Happenings
<1>1. PICK c \in Cases : scenario = c.scenario /\ config = c.config
  BY DEF TypeInv, IsCase
<1>2. c.config \in {x.config : x \in Cases}
  OBVIOUS
<1> QED BY <1>1, <1>2, ConfigAssumption, ScenarioAssumption DEF LevelSeq

LEMMA TargetPrices ==
    ASSUME TypeInv, NEW i \in 1..Len(config.levels["TP"])
    PROVE  /\ config.levels["TP"][i].price \in Nat /\ FillPrice <= config.levels["TP"][i].price
           /\ \A j \in 1..i : config.levels["TP"][j].price <= config.levels["TP"][i].price
<1>1. PICK c \in Cases : scenario = c.scenario /\ config = c.config
  BY DEF TypeInv, IsCase
<1>2. c.config \in {x.config : x \in Cases}
  OBVIOUS
<1>3. config.levels["TP"] \in LevelSeq
  BY ConfigTypes DEF Sides
<1>4. config.levels["TP"][i].price \in Nat
  BY <1>3, LevelType
<1>5. \A k \in 1..Len(c.config.levels["TP"]) :
               /\ FillPrice <= c.config.levels["TP"][k].price
               /\ \A j \in 1..k : c.config.levels["TP"][j].price <= c.config.levels["TP"][k].price
  BY <1>2, ConfigAssumption
<1> QED BY <1>1, <1>4, <1>5

LEMMA FieldTypes ==
    ASSUME TypeInv
    PROVE  /\ Quantity \in Nat /\ FillPrice \in Nat /\ Quantity > 0
           /\ row.filled \in 0..Quantity /\ row.booked \in 0..Quantity /\ row.priced \in BOOLEAN /\ row.closed \in BOOLEAN
           /\ row.status \in {"RECEIVED", "FILLED", "CANCELLED"} /\ row.stopLoss \in Nat
           /\ order.qty \in 0..Quantity /\ order.stopLoss \in Nat
           /\ group.remaining \in 0..Quantity /\ group.filled \in BOOLEAN
           /\ group.state \in {"NONE", "ACTIVE", "COMPLETED", "CANCELLED"}
           /\ worker.qty \in 0..Quantity /\ worker.remaining \in 0..Quantity /\ worker.side \in Sides /\ worker.level \in Nat
           /\ worker.pc \in {"idle", "decrement", "partial", "row", "cache", "finish"}
           /\ closing.qty \in 0..Quantity /\ closing.remaining \in 0..Quantity
           /\ \A s \in Sources : exits[s] \in ExitSet /\ exits[s].qty \in 0..Quantity /\ exits[s].own \in BOOLEAN
           /\ \A a \in Admins : admins[a] \in AdminSet /\ admins[a].qty \in 0..Quantity /\ admins[a].remaining \in 0..Quantity
           /\ \A a \in Admins : admins[a].own \in BOOLEAN
           /\ trail.on \in BOOLEAN /\ trail.sl \in Nat /\ trail.best \in Nat /\ trail.dist \in Nat
<1>1. Quantity \in Nat /\ FillPrice \in Nat /\ Quantity > 0
  BY QuantityAssumption, PriceAssumption
<1>2. row \in RowSet /\ order \in OrderSet /\ trail \in TrailSet
  BY DEF TypeInv
<1>3. group \in GroupSet /\ worker \in WorkerSet /\ closing \in ClosingSet
  BY DEF TypeInv
<1>4. /\ row.filled \in 0..Quantity /\ row.booked \in 0..Quantity /\ row.priced \in BOOLEAN /\ row.closed \in BOOLEAN
      /\ row.status \in {"RECEIVED", "FILLED", "CANCELLED"} /\ row.stopLoss \in Nat
  BY <1>2 DEF RowSet, Units
<1>5. order.qty \in 0..Quantity /\ order.stopLoss \in Nat
  BY <1>2 DEF OrderSet, Units
<1>6. trail.on \in BOOLEAN /\ trail.sl \in Nat /\ trail.best \in Nat /\ trail.dist \in Nat
  BY <1>2 DEF TrailSet
<1>7. /\ group.remaining \in 0..Quantity /\ group.filled \in BOOLEAN
      /\ group.state \in {"NONE", "ACTIVE", "COMPLETED", "CANCELLED"}
  BY <1>3 DEF GroupSet, Units
<1>8. /\ worker.qty \in 0..Quantity /\ worker.remaining \in 0..Quantity /\ worker.side \in Sides /\ worker.level \in Nat
      /\ worker.pc \in {"idle", "decrement", "partial", "row", "cache", "finish"}
  BY <1>3 DEF WorkerSet, Units
<1>9. closing.qty \in 0..Quantity /\ closing.remaining \in 0..Quantity
  BY <1>3 DEF ClosingSet, Units
<1>10. \A s \in Sources : exits[s] \in ExitSet /\ exits[s].qty \in 0..Quantity /\ exits[s].own \in BOOLEAN
  <2>1. \A s \in Sources : exits[s] \in ExitSet
    BY DEF TypeInv
  <2> QED BY <2>1 DEF ExitSet, Units
<1>11. \A a \in Admins : /\ admins[a] \in AdminSet /\ admins[a].qty \in 0..Quantity
                         /\ admins[a].remaining \in 0..Quantity /\ admins[a].own \in BOOLEAN
  <2>1. \A a \in Admins : admins[a] \in AdminSet
    BY DEF TypeInv
  <2> QED BY <2>1 DEF AdminSet, Units
<1> QED BY <1>1, <1>4, <1>5, <1>6, <1>7, <1>8, <1>9, <1>10, <1>11

LEMMA InitType == Init => TypeInv
<1> SUFFICES ASSUME Init PROVE TypeInv
  OBVIOUS
<1>1. IsCase(scenario, config)
  BY DEF Init, IsCase
<1>2. config.storedSL \in Nat
  <2>1. PICK c \in Cases : scenario = c.scenario /\ config = c.config
    BY DEF Init
  <2>2. c.config \in {x.config : x \in Cases}
    OBVIOUS
  <2> QED BY <2>1, <2>2, ConfigAssumption
<1>3. 0 \in Units
  BY QuantityAssumption DEF Units
<1>4. row \in RowSet
  BY <1>2, <1>3 DEF Init, RowSet
<1>5. order \in OrderSet /\ trail \in TrailSet
  BY <1>3 DEF Init, OrderSet, TrailSet, NoTrail
<1>6. group \in GroupSet
  <2>1. <<>> \in Seq(LevelSet)
    BY EmptySeq
  <2> QED BY <1>3, <2>1 DEF Init, GroupSet, NoGroup
<1>7. worker \in WorkerSet
  BY <1>3 DEF Init, WorkerSet, Idle, Sides
<1>8. exits \in [Sources -> ExitSet] /\ admins \in [Admins -> AdminSet] /\ closing \in ClosingSet
  BY <1>3 DEF Init, ExitSet, AdminSet, ClosingSet, NoExit, NoAdmin, NoClosing
<1>9. /\ entry \in 1..5 /\ partial \in Nat /\ failures \in Nat /\ restarts \in Nat /\ requests \in [Actors -> Nat]
      /\ cached \in BOOLEAN /\ exiting \in BOOLEAN /\ poll \in BOOLEAN
      /\ jobs \subseteq Prices /\ tick \in Prices \union {0} /\ writes \subseteq Nat
  <2>1. requests \in [Actors -> Nat]
    BY DEF Init
  <2>2. entry = 1 /\ partial = 0 /\ failures = 0 /\ restarts = 0
    BY DEF Init
  <2>3. cached = FALSE /\ exiting = FALSE /\ poll = FALSE
    BY DEF Init
  <2>4. jobs = {} /\ tick = 0 /\ writes = {}
    BY DEF Init
  <2>5. tick \in Prices \union {0}
    BY <2>4
  <2>6. jobs \subseteq Prices /\ writes \subseteq Nat
    BY <2>4
  <2>7. cached \in BOOLEAN /\ exiting \in BOOLEAN /\ poll \in BOOLEAN
    BY <2>3
  <2> QED BY <2>1, <2>2, <2>5, <2>6, <2>7
<1> QED BY <1>1, <1>4, <1>5, <1>6, <1>7, <1>8, <1>9 DEF TypeInv

(***************************************************************************)
(* The steps of the entry: which route takes which step where.             *)
(***************************************************************************)
LEMMA RouteSteps ==
    ASSUME TypeInv, NEW name, Step(name)
    PROVE  /\ entry \in 1..4 /\ entry' = entry + 1
           /\ \/ name = "register" /\ ((config.route = "direct" /\ entry = 1) \/ (config.route = "late" /\ entry = 3))
              \/ name = "fill" /\ ((config.route = "direct" /\ entry = 2) \/ (config.route \in {"late", "plain"} /\ entry = 1))
              \/ name = "add" /\ ((config.route = "direct" /\ entry = 3) \/ (config.route \in {"late", "plain"} /\ entry = 2))
              \/ name = "onfill" /\ config.route \in {"direct", "late"} /\ entry = 4
           /\ UNCHANGED <<scenario, config, tick, poll, exits, admins, closing, writes, requests, restarts>>
<1>1. config.route \in {"direct", "late", "plain"} /\ entry \in 1..5
  BY ConfigTypes DEF TypeInv
<1>2. ~(entry > Len(Route[config.route])) /\ Route[config.route][entry] = name /\ entry' = entry + 1
  BY DEF Step, EntryDone
<1>3. UNCHANGED <<scenario, config, tick, poll, exits, admins, closing, writes, requests, restarts>>
  BY DEF Step, feedVars
<1>4. CASE config.route = "direct"
  <2>1. Route[config.route] = <<"register", "fill", "add", "onfill">>
    BY <1>4 DEF Route
  <2>2. entry \in 1..4
    BY <1>1, <1>2, <2>1
  <2>4. /\ Route[config.route][1] = "register" /\ Route[config.route][2] = "fill"
        /\ Route[config.route][3] = "add" /\ Route[config.route][4] = "onfill"
    BY <2>1
  <2>3. \/ (entry = 1 /\ name = "register")
        \/ (entry = 2 /\ name = "fill")
        \/ (entry = 3 /\ name = "add")
        \/ (entry = 4 /\ name = "onfill")
    <3>1. entry = 1 \/ entry = 2 \/ entry = 3 \/ entry = 4
      BY <2>2
    <3>2. Route[config.route][entry] = name
      BY <1>2
    <3> QED BY <2>4, <3>1, <3>2, Zenon
  <2>5. entry' = entry + 1
    BY <1>2
  <2> QED BY <1>3, <1>4, <2>2, <2>3, <2>5
<1>5. CASE config.route = "late"
  <2>1. Route[config.route] = <<"fill", "add", "register", "onfill">>
    BY <1>5 DEF Route
  <2>2. entry \in 1..4
    BY <1>1, <1>2, <2>1
  <2>4. /\ Route[config.route][1] = "fill" /\ Route[config.route][2] = "add"
        /\ Route[config.route][3] = "register" /\ Route[config.route][4] = "onfill"
    BY <2>1
  <2>3. \/ (entry = 1 /\ name = "fill")
        \/ (entry = 2 /\ name = "add")
        \/ (entry = 3 /\ name = "register")
        \/ (entry = 4 /\ name = "onfill")
    <3>1. entry = 1 \/ entry = 2 \/ entry = 3 \/ entry = 4
      BY <2>2
    <3>2. Route[config.route][entry] = name
      BY <1>2
    <3> QED BY <2>4, <3>1, <3>2, Zenon
  <2> QED BY <1>2, <1>3, <1>5, <2>2, <2>3
<1>6. CASE config.route = "plain"
  <2>1. Route[config.route] = <<"fill", "add">>
    BY <1>6 DEF Route
  <2>2. entry \in 1..2
    BY <1>1, <1>2, <2>1
  <2> QED BY <1>2, <1>3, <1>6, <2>1, <2>2
<1> QED BY <1>1, <1>4, <1>5, <1>6

LEMMA RequestType ==
    ASSUME TypeInv, NEW actor \in Actors, Request(actor)
    PROVE  requests' \in [Actors -> Nat] /\ actor \in scenario
BY DEF TypeInv, Request

LEMMA ActorNames ==
    /\ "WSS" \in Sources /\ "REDIS" \in Sources /\ "user" \in Admins /\ "scheduler" \in Admins
    /\ Admins \subseteq Sources /\ Admins \subseteq Actors /\ "deactivation" \in Actors
    /\ "SL" \in Sides /\ "TP" \in Sides
BY DEF Sources, Admins, Actors, Sides

LEMMA StartExitType ==
    ASSUME TypeInv, NEW s \in Sources, NEW own \in BOOLEAN, NEW qty \in Units, StartExit(s, own, qty)
    PROVE  exits' \in [Sources -> ExitSet]
<1>1. [pc |-> "cancel", own |-> own, qty |-> qty] \in ExitSet
  BY DEF ExitSet
<1> QED BY <1>1 DEF TypeInv, StartExit

LEMMA ConstantTypes ==
    /\ NoExit \in ExitSet /\ NoAdmin \in AdminSet /\ NoClosing \in ClosingSet /\ NoGroup \in GroupSet
    /\ Idle \in WorkerSet /\ NoTrail \in TrailSet /\ 0 \in Units
    /\ \A own \in BOOLEAN, qty \in Units : Claiming(own, qty) \in AdminSet
    /\ [NoAdmin EXCEPT !.pc = "sweep"] \in AdminSet /\ [NoClosing EXCEPT !.pc = "fetch"] \in ClosingSet
    /\ [NoGroup EXCEPT !.state = "ACTIVE"] \in GroupSet
<1>1. 0 \in Units
  BY QuantityAssumption DEF Units
<1>2. NoExit \in ExitSet
  BY <1>1 DEF NoExit, ExitSet
<1>3. NoAdmin \in AdminSet /\ [NoAdmin EXCEPT !.pc = "sweep"] \in AdminSet
  BY <1>1 DEF NoAdmin, AdminSet
<1>4. NoClosing \in ClosingSet /\ [NoClosing EXCEPT !.pc = "fetch"] \in ClosingSet
  BY <1>1 DEF NoClosing, ClosingSet
<1>5. <<>> \in Seq(LevelSet)
  BY EmptySeq
<1>6. NoGroup \in GroupSet
  BY <1>1, <1>5 DEF NoGroup, GroupSet
<1>7. [NoGroup EXCEPT !.state = "ACTIVE"] \in GroupSet
  <2> HIDE DEF NoGroup
  <2> QED BY <1>6 DEF GroupSet
<1>8. Idle \in WorkerSet
  BY <1>1 DEF Idle, WorkerSet, Sides
<1>9. NoTrail \in TrailSet
  BY DEF NoTrail, TrailSet
<1>10. \A own \in BOOLEAN, qty \in Units : Claiming(own, qty) \in AdminSet
  BY <1>1 DEF Claiming, AdminSet
<1> QED BY <1>1, <1>2, <1>3, <1>4, <1>6, <1>7, <1>8, <1>9, <1>10

LEMMA TrailFromType ==
    ASSUME NEW sl \in Nat
    PROVE  TrailFrom(sl) \in TrailSet
<1>1. CASE config.slMode = "TRAILING" /\ sl > 0 /\ sl < FillPrice
  <2>1. FillPrice - sl \in Nat /\ FillPrice \in Nat
    BY <1>1, PriceAssumption
  <2> QED BY <1>1, <2>1 DEF TrailFrom, TrailSet
<1>2. CASE ~(config.slMode = "TRAILING" /\ sl > 0 /\ sl < FillPrice)
  BY <1>2, ConstantTypes DEF TrailFrom
<1> QED BY <1>1, <1>2

LEMMA NewStopType ==
    ASSUME TypeInv, NEW i \in 1..Len(config.levels["TP"])
    PROVE  computeNewSLAfterTP(i) \in Nat /\ FillPrice <= computeNewSLAfterTP(i)
<1>1. CASE i = 1
  BY <1>1, PriceAssumption DEF computeNewSLAfterTP
<1>2. CASE i # 1
  <2>1. Len(config.levels["TP"]) \in Nat
    BY ConfigTypes, LevelType DEF Sides
  <2>2. i - 1 \in 1..Len(config.levels["TP"])
    BY <1>2, <2>1
  <2>3. config.levels["TP"][i - 1].price \in Nat /\ FillPrice <= config.levels["TP"][i - 1].price
    BY <2>2, TargetPrices
  <2> QED BY <1>2, <2>3 DEF computeNewSLAfterTP
<1> QED BY <1>1, <1>2

LEMMA RegisterEntryType ==
    ASSUME TypeInv, RegisterEntry
    PROVE  TypeInv' /\ UNCHANGED <<scenario, config, row, partial, cached, order, trail, exiting, jobs, worker, tick, poll, exits, admins, closing, writes, failures, requests, restarts>>
<1>1. entry' \in 1..5
  BY RouteSteps DEF RegisterEntry
<1>2. group' \in GroupSet
  BY ConstantTypes DEF RegisterEntry
<1>3. UNCHANGED <<scenario, config, row, partial, cached, order, trail, exiting, jobs, worker, tick, poll, exits, admins, closing, writes, failures, requests, restarts>>
  BY DEF RegisterEntry, Step, dbVars, monitorVars, groupVars, feedVars
<1> QED BY <1>1, <1>2, <1>3 DEF TypeInv

LEMMA ExecutePaperOrderType ==
    ASSUME TypeInv, ExecutePaperOrder
    PROVE  TypeInv' /\ UNCHANGED <<scenario, config, partial, cached, trail, exiting, group, jobs, worker, tick, poll, exits, admins, closing, writes, requests, restarts>>
<1>1. entry' \in 1..5
  BY RouteSteps DEF ExecutePaperOrder
<1>2. row' \in RowSet
  <2>1. Quantity \in Units
    BY QuantityAssumption DEF Units
  <2>2. \A r \in RowSet : [r EXCEPT !.status = "FILLED", !.filled = Quantity, !.priced = TRUE] \in RowSet
    BY <2>1 DEF RowSet
  <2> QED BY <2>2 DEF ExecutePaperOrder, Write, TypeInv
<1>3. order' \in OrderSet
  <2>1. Quantity \in Units
    BY QuantityAssumption DEF Units
  <2>2. config.stopLoss \in Nat /\ config.takeProfit \in Nat
    BY ConfigTypes
  <2>3. order' = [qty |-> Quantity, stopLoss |-> config.stopLoss, takeProfit |-> config.takeProfit]
    BY DEF ExecutePaperOrder
  <2> QED BY <2>1, <2>2, <2>3 DEF OrderSet
<1>4. failures' \in Nat
  BY DEF TypeInv, ExecutePaperOrder, Step, EntryDone, Route, Write, Fail
<1>5. UNCHANGED <<scenario, config, partial, cached, trail, exiting, group, jobs, worker, tick, poll, exits, admins, closing, writes, requests, restarts>>
  BY DEF ExecutePaperOrder, Step, dbVars, monitorVars, groupVars, feedVars
<1> QED BY <1>1, <1>2, <1>3, <1>4, <1>5 DEF TypeInv

LEMMA AddOrderType ==
    ASSUME TypeInv, AddOrder
    PROVE  TypeInv' /\ UNCHANGED <<scenario, config, row, partial, order, exiting, group, jobs, worker, tick, poll, exits, admins, closing, writes, failures, requests, restarts>>
<1>1. entry' \in 1..5
  BY RouteSteps DEF AddOrder
<1>2. cached' \in BOOLEAN
  BY DEF TypeInv, AddOrder, Step, EntryDone, Route, TrailFrom, NoTrail
<1>3. trail' \in TrailSet
  BY FieldTypes, TrailFromType DEF AddOrder
<1>4. UNCHANGED <<scenario, config, row, partial, order, exiting, group, jobs, worker, tick, poll, exits, admins, closing, writes, failures, requests, restarts>>
  BY DEF AddOrder, Step, dbVars, monitorVars, groupVars, feedVars
<1> QED BY <1>1, <1>2, <1>3, <1>4 DEF TypeInv

LEMMA MonitorExitType ==
    ASSUME TypeInv, MonitorExit
    PROVE  TypeInv' /\ UNCHANGED <<scenario, config, entry, row, partial, cached, order, trail, group, worker, poll, admins, closing, writes, failures, requests, restarts>>
<1>1. tick' \in Prices \union {0}
  BY DEF TypeInv, MonitorExit, StartExit, Enqueue
<1>2. exiting' \in BOOLEAN
  BY DEF TypeInv, MonitorExit, StartExit, Enqueue
<1>3. exits' \in [Sources -> ExitSet]
  <2>1. StartExit("WSS", FALSE, 0) => exits' \in [Sources -> ExitSet]
    BY StartExitType, ActorNames, ConstantTypes
  <2> QED BY <2>1 DEF MonitorExit, TypeInv
<1>4. jobs' \subseteq Prices
  BY DEF TypeInv, MonitorExit, StartExit, Enqueue
<1>5. UNCHANGED <<scenario, config, entry, row, partial, cached, order, trail, group, worker, poll, admins, closing, writes, failures, requests, restarts>>
  BY DEF MonitorExit, dbVars, monitorVars, groupVars, feedVars
<1> QED BY <1>1, <1>2, <1>3, <1>4, <1>5 DEF TypeInv

LEMMA RedisSnapshotType ==
    ASSUME TypeInv, RedisSnapshot
    PROVE  TypeInv' /\ UNCHANGED <<scenario, config, entry, row, partial, cached, order, trail, exiting, group, jobs, worker, tick, exits, admins, closing, writes, failures, requests, restarts>>
<1>1. poll' \in BOOLEAN
  BY DEF TypeInv, RedisSnapshot
<1>2. UNCHANGED <<scenario, config, entry, row, partial, cached, order, trail, exiting, group, jobs, worker, tick, exits, admins, closing, writes, failures, requests, restarts>>
  BY DEF RedisSnapshot, dbVars, monitorVars, groupVars, feedVars
<1> QED BY <1>1, <1>2 DEF TypeInv

LEMMA checkRedisSLTPType ==
    ASSUME TypeInv, NEW p \in Prices, checkRedisSLTP(p)
    PROVE  TypeInv' /\ UNCHANGED <<scenario, config, entry, row, partial, cached, order, trail, group, jobs, worker, tick, admins, closing, writes, failures, requests, restarts>>
<1>1. poll' \in BOOLEAN
  BY DEF TypeInv, checkRedisSLTP, StartExit
<1>2. exiting' \in BOOLEAN
  BY DEF TypeInv, checkRedisSLTP, StartExit
<1>3. exits' \in [Sources -> ExitSet]
  <2>1. StartExit("REDIS", FALSE, 0) => exits' \in [Sources -> ExitSet]
    BY StartExitType, ActorNames, ConstantTypes
  <2> QED BY <2>1 DEF checkRedisSLTP, TypeInv
<1>4. UNCHANGED <<scenario, config, entry, row, partial, cached, order, trail, group, jobs, worker, tick, admins, closing, writes, failures, requests, restarts>>
  BY DEF checkRedisSLTP, dbVars, monitorVars, groupVars, feedVars
<1> QED BY <1>1, <1>2, <1>3, <1>4 DEF TypeInv

LEMMA UpdateTrailingSLType ==
    ASSUME TypeInv, NEW sl \in writes, UpdateTrailingSL(sl)
    PROVE  TypeInv' /\ UNCHANGED <<scenario, config, entry, partial, cached, order, trail, exiting, group, jobs, worker, tick, poll, exits, admins, closing, requests, restarts>>
<1>1. writes' \subseteq Nat
  BY DEF TypeInv, UpdateTrailingSL, Write, Fail
<1>2. row' \in RowSet
  BY DEF TypeInv, UpdateTrailingSL, Write, Fail, RowSet, Units
<1>3. failures' \in Nat
  BY DEF TypeInv, UpdateTrailingSL, Write, Fail
<1>4. UNCHANGED <<scenario, config, entry, partial, cached, order, trail, exiting, group, jobs, worker, tick, poll, exits, admins, closing, requests, restarts>>
  BY DEF UpdateTrailingSL, dbVars, monitorVars, groupVars, feedVars
<1> QED BY <1>1, <1>2, <1>3, <1>4 DEF TypeInv

LEMMA WorkerPartialExitType ==
    ASSUME TypeInv, WorkerPartialExit
    PROVE  TypeInv' /\ UNCHANGED <<scenario, config, entry, row, cached, order, trail, exiting, group, jobs, tick, poll, exits, admins, closing, writes, requests, restarts>>
<1>1. partial' \in Nat
  BY FieldTypes DEF TypeInv, WorkerPartialExit, recordPaperPartialExit, Fail
<1>2. failures' \in Nat
  BY DEF TypeInv, WorkerPartialExit, recordPaperPartialExit, Fail
<1>3. worker' \in WorkerSet
  BY DEF TypeInv, WorkerPartialExit, recordPaperPartialExit, Fail, WorkerSet, Units
<1>4. UNCHANGED <<scenario, config, entry, row, cached, order, trail, exiting, group, jobs, tick, poll, exits, admins, closing, writes, requests, restarts>>
  BY DEF WorkerPartialExit, workerFrame, dbVars, monitorVars, groupVars, feedVars
<1> QED BY <1>1, <1>2, <1>3, <1>4 DEF TypeInv

LEMMA WorkerUpdateFilledQtyType ==
    ASSUME TypeInv, WorkerUpdateFilledQty
    PROVE  TypeInv' /\ UNCHANGED <<scenario, config, entry, partial, cached, order, trail, exiting, group, jobs, tick, poll, exits, admins, closing, writes, requests, restarts>>
<1>1. row' \in RowSet
  BY FieldTypes DEF TypeInv, WorkerUpdateFilledQty, Write, Fail, RowSet, Units
<1>2. failures' \in Nat
  BY DEF TypeInv, WorkerUpdateFilledQty, Write, Fail
<1>3. worker' \in WorkerSet
  BY DEF TypeInv, WorkerUpdateFilledQty, Write, Fail, WorkerSet, Units
<1>4. UNCHANGED <<scenario, config, entry, partial, cached, order, trail, exiting, group, jobs, tick, poll, exits, admins, closing, writes, requests, restarts>>
  BY DEF WorkerUpdateFilledQty, workerFrame, dbVars, monitorVars, groupVars, feedVars
<1> QED BY <1>1, <1>2, <1>3, <1>4 DEF TypeInv

LEMMA WorkerFinishType ==
    ASSUME TypeInv, GroupInv, WorkerFinish
    PROVE  TypeInv' /\ UNCHANGED <<scenario, config, entry, row, partial, group, jobs, tick, poll, exits, admins, closing, writes, failures, requests, restarts>>
<1>1. order' \in OrderSet
  <2>1. CASE worker.side = "TP"
    <3>1. worker.level \in 1..Len(config.levels["TP"])
      BY <2>1 DEF GroupInv, Busy, WorkerFinish
    <3>2. computeNewSLAfterTP(worker.level) \in Nat
      BY <3>1, NewStopType
    <3> QED BY <3>2 DEF WorkerFinish, TypeInv, OrderSet
  <2>2. CASE worker.side # "TP"
    BY <2>2 DEF WorkerFinish, TypeInv
  <2> QED BY <2>1, <2>2
<1>2. cached' \in BOOLEAN
  BY DEF TypeInv, WorkerFinish, RemoveOrder, NoTrail, Idle, Sides
<1>3. trail' \in TrailSet
  BY ConstantTypes DEF WorkerFinish, RemoveOrder, TypeInv, workerFrame
<1>4. exiting' \in BOOLEAN
  BY DEF TypeInv, WorkerFinish, RemoveOrder, NoTrail, Idle, Sides
<1>5. worker' \in WorkerSet
  BY FieldTypes DEF TypeInv, WorkerFinish, RemoveOrder, NoTrail, Idle, Sides, WorkerSet, Units
<1>6. UNCHANGED <<scenario, config, entry, row, partial, group, jobs, tick, poll, exits, admins, closing, writes, failures, requests, restarts>>
  BY DEF WorkerFinish, workerFrame, dbVars, monitorVars, groupVars, feedVars
<1> QED BY <1>1, <1>2, <1>3, <1>4, <1>5, <1>6 DEF TypeInv

LEMMA ExitBeginType ==
    ASSUME TypeInv, NEW s \in Sources, ExitBegin(s)
    PROVE  TypeInv' /\ UNCHANGED <<scenario, config, entry, row, partial, cached, order, trail, exiting, jobs, worker, tick, poll, admins, closing, writes, failures, requests, restarts>>
<1>1. group' \in GroupSet
  BY DEF TypeInv, ExitBegin, GroupSet, Units
<1>2. exits' \in [Sources -> ExitSet]
  <2>1. exits[s] \in ExitSet /\ order.qty \in Units
    BY FieldTypes DEF Units
  <2>2. \A q \in Units : [exits EXCEPT ![s].pc = "write", ![s].qty = q] \in [Sources -> ExitSet]
    BY <2>1 DEF TypeInv, ExitSet
  <2>3. exits' = [exits EXCEPT ![s].pc = "write", ![s].qty = IF exits[s].own THEN exits[s].qty ELSE order.qty]
    BY DEF ExitBegin
  <2>4. exits[s].qty \in Units
    BY <2>1 DEF ExitSet
  <2> QED BY <2>1, <2>2, <2>3, <2>4
<1>3. UNCHANGED <<scenario, config, entry, row, partial, cached, order, trail, exiting, jobs, worker, tick, poll, admins, closing, writes, failures, requests, restarts>>
  BY DEF ExitBegin, exitFrame, dbVars, monitorVars, groupVars, feedVars
<1> QED BY <1>1, <1>2, <1>3 DEF TypeInv

LEMMA ExitWriteType ==
    ASSUME TypeInv, NEW s \in Sources, ExitWrite(s)
    PROVE  TypeInv' /\ UNCHANGED <<scenario, config, entry, partial, cached, order, trail, exiting, group, jobs, worker, tick, poll, admins, closing, writes, requests, restarts>>
<1>1. row' \in RowSet
  BY FieldTypes DEF TypeInv, ExitWrite, At, Closed, Fail, RowSet, Units
<1>2. failures' \in Nat
  BY DEF TypeInv, ExitWrite, At, Closed, Fail
<1>3. exits' \in [Sources -> ExitSet]
  BY DEF TypeInv, ExitWrite, At, Closed, Fail, ExitSet, Units
<1>4. UNCHANGED <<scenario, config, entry, partial, cached, order, trail, exiting, group, jobs, worker, tick, poll, admins, closing, writes, requests, restarts>>
  BY DEF ExitWrite, exitFrame, dbVars, monitorVars, groupVars, feedVars
<1> QED BY <1>1, <1>2, <1>3, <1>4 DEF TypeInv

LEMMA ExitCleanType ==
    ASSUME TypeInv, NEW s \in Sources, ExitClean(s)
    PROVE  TypeInv' /\ UNCHANGED <<scenario, config, entry, row, partial, order, group, jobs, worker, tick, poll, admins, closing, writes, failures, requests, restarts>>
<1>1. cached' \in BOOLEAN
  BY DEF TypeInv, ExitClean, NoTrail, NoExit
<1>2. trail' \in TrailSet
  BY DEF TypeInv, ExitClean, NoTrail, NoExit, TrailSet
<1>3. exiting' \in BOOLEAN
  BY DEF TypeInv, ExitClean, NoTrail, NoExit
<1>4. exits' \in [Sources -> ExitSet]
  BY FieldTypes DEF TypeInv, ExitClean, NoTrail, NoExit, ExitSet, Units
<1>5. UNCHANGED <<scenario, config, entry, row, partial, order, group, jobs, worker, tick, poll, admins, closing, writes, failures, requests, restarts>>
  BY DEF ExitClean, exitFrame, dbVars, monitorVars, groupVars, feedVars
<1> QED BY <1>1, <1>2, <1>3, <1>4, <1>5 DEF TypeInv

LEMMA ForceExitType ==
    ASSUME TypeInv, ForceExit
    PROVE  TypeInv' /\ UNCHANGED <<scenario, config, entry, row, partial, cached, order, trail, exiting, group, jobs, worker, tick, poll, exits, closing, writes, failures, restarts>>
<1>1. requests' \in [Actors -> Nat]
  <2>1. "user" \in Actors
    BY DEF Actors, Admins
  <2> QED BY <2>1, RequestType DEF ForceExit, Free
<1>2. admins' \in [Admins -> AdminSet]
  <2>1. row.filled \in Units
    BY FieldTypes DEF Units
  <2>2. Claiming(TRUE, row.filled) \in AdminSet
    BY <2>1, ConstantTypes
  <2>3. \A x \in AdminSet : [admins EXCEPT !["user"] = x] \in [Admins -> AdminSet]
    BY DEF TypeInv
  <2> QED BY <2>2, <2>3 DEF ForceExit
<1>3. UNCHANGED <<scenario, config, entry, row, partial, cached, order, trail, exiting, group, jobs, worker, tick, poll, exits, closing, writes, failures, restarts>>
  BY DEF ForceExit, adminFrame, dbVars, monitorVars, groupVars, feedVars
<1> QED BY <1>1, <1>2, <1>3 DEF TypeInv

LEMMA SquareOffAllType ==
    ASSUME TypeInv, SquareOffAll
    PROVE  TypeInv' /\ UNCHANGED <<scenario, config, entry, row, partial, cached, order, trail, exiting, group, jobs, worker, tick, poll, exits, closing, writes, failures, restarts>>
<1>1. requests' \in [Actors -> Nat]
  <2>1. "scheduler" \in Actors
    BY DEF Actors, Admins
  <2> QED BY <2>1, RequestType DEF SquareOffAll, Free
<1>2. admins' \in [Admins -> AdminSet]
  <2>1. Claiming(FALSE, 0) \in AdminSet /\ [NoAdmin EXCEPT !.pc = "sweep"] \in AdminSet
    BY ConstantTypes
  <2>2. \A x \in AdminSet : [admins EXCEPT !["scheduler"] = x] \in [Admins -> AdminSet]
    BY DEF TypeInv
  <2> QED BY <2>1, <2>2 DEF SquareOffAll
<1>3. UNCHANGED <<scenario, config, entry, row, partial, cached, order, trail, exiting, group, jobs, worker, tick, poll, exits, closing, writes, failures, restarts>>
  BY DEF SquareOffAll, adminFrame, dbVars, monitorVars, groupVars, feedVars
<1> QED BY <1>1, <1>2, <1>3 DEF TypeInv

LEMMA SquareOffSweepType ==
    ASSUME TypeInv, SquareOffSweep
    PROVE  TypeInv' /\ UNCHANGED <<scenario, config, entry, row, partial, cached, order, trail, exiting, group, jobs, worker, tick, poll, exits, closing, writes, requests, restarts>>
<1>1. admins' \in [Admins -> AdminSet]
  <2>1. Claiming(TRUE, row.filled) \in AdminSet /\ NoAdmin \in AdminSet
    BY FieldTypes, ConstantTypes DEF Units
  <2>2. \A x \in AdminSet : [admins EXCEPT !["scheduler"] = x] \in [Admins -> AdminSet]
    BY DEF TypeInv
  <2>3. [admins EXCEPT !["scheduler"].pc = "idle"] \in [Admins -> AdminSet]
    BY ActorNames DEF TypeInv, AdminSet
  <2> QED BY <2>1, <2>2, <2>3 DEF SquareOffSweep, Goto
<1>2. failures' \in Nat
  BY DEF TypeInv, SquareOffSweep, Claiming, NoAdmin, Goto, Fail
<1>3. UNCHANGED <<scenario, config, entry, row, partial, cached, order, trail, exiting, group, jobs, worker, tick, poll, exits, closing, writes, requests, restarts>>
  BY DEF SquareOffSweep, adminFrame, dbVars, monitorVars, groupVars, feedVars
<1> QED BY <1>1, <1>2, <1>3 DEF TypeInv

LEMMA ClaimExitType ==
    ASSUME TypeInv, NEW a \in Admins, ClaimExit(a)
    PROVE  TypeInv' /\ UNCHANGED <<scenario, config, entry, row, partial, cached, order, trail, group, jobs, worker, tick, poll, exits, closing, writes, failures, requests, restarts>>
<1>1. exiting' \in BOOLEAN
  BY DEF TypeInv, ClaimExit, Goto
<1>2. admins' \in [Admins -> AdminSet]
  BY DEF TypeInv, ClaimExit, Goto, AdminSet, Units
<1>3. UNCHANGED <<scenario, config, entry, row, partial, cached, order, trail, group, jobs, worker, tick, poll, exits, closing, writes, failures, requests, restarts>>
  BY DEF ClaimExit, adminFrame, dbVars, monitorVars, groupVars, feedVars
<1> QED BY <1>1, <1>2, <1>3 DEF TypeInv

LEMMA CancelGroupForExitType ==
    ASSUME TypeInv, NEW a \in Admins, CancelGroupForExit(a)
    PROVE  TypeInv' /\ UNCHANGED <<scenario, config, entry, row, partial, cached, order, trail, exiting, jobs, worker, tick, poll, closing, writes, failures, requests, restarts>>
<1>1. group' \in GroupSet
  BY DEF TypeInv, CancelGroupForExit, Release, StartExit, NoAdmin, GroupSet, Units
<1>2. admins' \in [Admins -> AdminSet]
  <2>1. NoAdmin \in AdminSet /\ group.remaining \in Units
    BY FieldTypes, ConstantTypes DEF Units
  <2>2. [admins EXCEPT ![a] = NoAdmin] \in [Admins -> AdminSet]
    BY <2>1 DEF TypeInv
  <2>3. [admins EXCEPT ![a].pc = "partial", ![a].remaining = group.remaining] \in [Admins -> AdminSet]
    BY <2>1 DEF TypeInv, AdminSet
  <2> QED BY <2>2, <2>3 DEF CancelGroupForExit, Release
<1>3. exits' \in [Sources -> ExitSet]
  <2>1. StartExit(a, admins[a].own, admins[a].qty) => exits' \in [Sources -> ExitSet]
    BY StartExitType, ActorNames, FieldTypes DEF Units
  <2> QED BY <2>1 DEF CancelGroupForExit, Release, TypeInv
<1>4. UNCHANGED <<scenario, config, entry, row, partial, cached, order, trail, exiting, jobs, worker, tick, poll, closing, writes, failures, requests, restarts>>
  BY DEF CancelGroupForExit, adminFrame, dbVars, monitorVars, groupVars, feedVars
<1> QED BY <1>1, <1>2, <1>3, <1>4 DEF TypeInv

LEMMA AdminPartialExitType ==
    ASSUME TypeInv, NEW a \in Admins, AdminPartialExit(a)
    PROVE  TypeInv' /\ UNCHANGED <<scenario, config, entry, row, cached, order, trail, exiting, group, jobs, worker, tick, poll, exits, closing, writes, requests, restarts>>
<1>1. partial' \in Nat
  BY FieldTypes DEF TypeInv, AdminPartialExit, recordPaperPartialExit, Fail, Goto
<1>2. failures' \in Nat
  BY DEF TypeInv, AdminPartialExit, recordPaperPartialExit, Fail, Goto
<1>3. admins' \in [Admins -> AdminSet]
  BY DEF TypeInv, AdminPartialExit, recordPaperPartialExit, Fail, Goto, AdminSet, Units
<1>4. UNCHANGED <<scenario, config, entry, row, cached, order, trail, exiting, group, jobs, worker, tick, poll, exits, closing, writes, requests, restarts>>
  BY DEF AdminPartialExit, adminFrame, dbVars, monitorVars, groupVars, feedVars
<1> QED BY <1>1, <1>2, <1>3, <1>4 DEF TypeInv

LEMMA AdminUpdateFilledQtyType ==
    ASSUME TypeInv, NEW a \in Admins, AdminUpdateFilledQty(a)
    PROVE  TypeInv' /\ UNCHANGED <<scenario, config, entry, partial, cached, order, trail, exiting, group, jobs, worker, tick, poll, closing, writes, requests, restarts>>
<1>1. row' \in RowSet
  BY FieldTypes DEF TypeInv, AdminUpdateFilledQty, Write, Fail, Release, StartExit, NoAdmin, RowSet, Units
<1>2. failures' \in Nat
  BY DEF TypeInv, AdminUpdateFilledQty, Write, Fail, Release, StartExit, NoAdmin
<1>3. admins' \in [Admins -> AdminSet]
  BY ConstantTypes DEF AdminUpdateFilledQty, Release, TypeInv
<1>4. exits' \in [Sources -> ExitSet]
  <2>1. StartExit(a, admins[a].own, admins[a].qty) => exits' \in [Sources -> ExitSet]
    BY StartExitType, ActorNames, FieldTypes DEF Units
  <2> QED BY <2>1 DEF AdminUpdateFilledQty, Release, TypeInv
<1>5. UNCHANGED <<scenario, config, entry, partial, cached, order, trail, exiting, group, jobs, worker, tick, poll, closing, writes, requests, restarts>>
  BY DEF AdminUpdateFilledQty, adminFrame, dbVars, monitorVars, groupVars, feedVars
<1> QED BY <1>1, <1>2, <1>3, <1>4, <1>5 DEF TypeInv

LEMMA StartClosingType ==
    ASSUME TypeInv, StartClosing
    PROVE  TypeInv' /\ UNCHANGED <<scenario, config, entry, row, partial, order, group, jobs, worker, tick, poll, exits, admins, writes, failures, restarts>>
<1>1. requests' \in [Actors -> Nat]
  <2>1. "deactivation" \in Actors
    BY DEF Actors
  <2> QED BY <2>1, RequestType DEF StartClosing
<1>2. closing' \in ClosingSet
  BY ConstantTypes DEF StartClosing
<1>3. cached' \in BOOLEAN
  BY DEF TypeInv, StartClosing, Request, NoClosing, RemoveOrder, NoTrail
<1>4. trail' \in TrailSet
  BY ConstantTypes DEF StartClosing, RemoveOrder, TypeInv
<1>5. exiting' \in BOOLEAN
  BY DEF TypeInv, StartClosing, Request, NoClosing, RemoveOrder, NoTrail
<1>6. UNCHANGED <<scenario, config, entry, row, partial, order, group, jobs, worker, tick, poll, exits, admins, writes, failures, restarts>>
  BY DEF StartClosing, closingFrame, monitorRest, dbVars, monitorVars, groupVars, feedVars
<1> QED BY <1>1, <1>2, <1>3, <1>4, <1>5, <1>6 DEF TypeInv

LEMMA ClosingFetchType ==
    ASSUME TypeInv, ClosingFetch
    PROVE  TypeInv' /\ UNCHANGED <<scenario, config, entry, row, partial, cached, order, trail, exiting, group, jobs, worker, tick, poll, exits, admins, writes, requests, restarts>>
<1>1. closing' \in ClosingSet
  <2>1. row.filled \in Units /\ 0 \in Units /\ NoClosing \in ClosingSet
    BY FieldTypes, ConstantTypes DEF Units
  <2>2. \A q \in Units : [closing EXCEPT !.pc = "groups", !.qty = q] \in ClosingSet
    BY DEF TypeInv, ClosingSet
  <2> QED BY <2>1, <2>2 DEF ClosingFetch
<1>2. failures' \in Nat
  BY DEF TypeInv, ClosingFetch, Fail, NoClosing
<1>3. UNCHANGED <<scenario, config, entry, row, partial, cached, order, trail, exiting, group, jobs, worker, tick, poll, exits, admins, writes, requests, restarts>>
  BY DEF ClosingFetch, closingFrame, monitorRest, dbVars, monitorVars, groupVars, feedVars
<1> QED BY <1>1, <1>2, <1>3 DEF TypeInv

LEMMA CancelGroupsByStrategyType ==
    ASSUME TypeInv, CancelGroupsByStrategy
    PROVE  TypeInv' /\ UNCHANGED <<scenario, config, entry, row, partial, cached, order, trail, exiting, jobs, worker, tick, poll, exits, admins, writes, failures, requests, restarts>>
<1>1. closing' \in ClosingSet
  BY FieldTypes DEF TypeInv, CancelGroupsByStrategy, ClosingSet, Units
<1>2. group' \in GroupSet
  BY DEF TypeInv, CancelGroupsByStrategy, GroupSet, Units
<1>3. UNCHANGED <<scenario, config, entry, row, partial, cached, order, trail, exiting, jobs, worker, tick, poll, exits, admins, writes, failures, requests, restarts>>
  BY DEF CancelGroupsByStrategy, closingFrame, monitorRest, dbVars, monitorVars, groupVars, feedVars
<1> QED BY <1>1, <1>2, <1>3 DEF TypeInv

LEMMA ClosingPartialExitType ==
    ASSUME TypeInv, ClosingPartialExit
    PROVE  TypeInv' /\ UNCHANGED <<scenario, config, entry, row, cached, order, trail, exiting, group, jobs, worker, tick, poll, exits, admins, writes, requests, restarts>>
<1>1. closing' \in ClosingSet
  BY DEF TypeInv, ClosingPartialExit, recordPaperPartialExit, Fail, ClosingSet, Units
<1>2. partial' \in Nat
  BY FieldTypes DEF TypeInv, ClosingPartialExit, recordPaperPartialExit, Fail
<1>3. failures' \in Nat
  BY DEF TypeInv, ClosingPartialExit, recordPaperPartialExit, Fail
<1>4. UNCHANGED <<scenario, config, entry, row, cached, order, trail, exiting, group, jobs, worker, tick, poll, exits, admins, writes, requests, restarts>>
  BY DEF ClosingPartialExit, closingFrame, monitorRest, dbVars, monitorVars, groupVars, feedVars
<1> QED BY <1>1, <1>2, <1>3, <1>4 DEF TypeInv

LEMMA ClosingUpdateFilledQtyType ==
    ASSUME TypeInv, ClosingUpdateFilledQty
    PROVE  TypeInv' /\ UNCHANGED <<scenario, config, entry, partial, cached, order, trail, exiting, group, jobs, worker, tick, poll, exits, admins, writes, requests, restarts>>
<1>1. closing' \in ClosingSet
  BY DEF TypeInv, ClosingUpdateFilledQty, Write, Fail, ClosingSet, Units
<1>2. row' \in RowSet
  BY FieldTypes DEF TypeInv, ClosingUpdateFilledQty, Write, Fail, RowSet, Units
<1>3. failures' \in Nat
  BY DEF TypeInv, ClosingUpdateFilledQty, Write, Fail
<1>4. UNCHANGED <<scenario, config, entry, partial, cached, order, trail, exiting, group, jobs, worker, tick, poll, exits, admins, writes, requests, restarts>>
  BY DEF ClosingUpdateFilledQty, closingFrame, monitorRest, dbVars, monitorVars, groupVars, feedVars
<1> QED BY <1>1, <1>2, <1>3, <1>4 DEF TypeInv

LEMMA UpdatePaperExitPriceType ==
    ASSUME TypeInv, UpdatePaperExitPrice
    PROVE  TypeInv' /\ UNCHANGED <<scenario, config, entry, partial, cached, order, trail, exiting, group, jobs, worker, tick, poll, exits, admins, writes, requests, restarts>>
<1>1. closing' \in ClosingSet
  BY DEF TypeInv, UpdatePaperExitPrice, Write, Fail, Closed, ClosingSet, Units
<1>2. row' \in RowSet
  BY FieldTypes DEF TypeInv, UpdatePaperExitPrice, Write, Fail, Closed, RowSet, Units
<1>3. failures' \in Nat
  BY DEF TypeInv, UpdatePaperExitPrice, Write, Fail, Closed
<1>4. UNCHANGED <<scenario, config, entry, partial, cached, order, trail, exiting, group, jobs, worker, tick, poll, exits, admins, writes, requests, restarts>>
  BY DEF UpdatePaperExitPrice, closingFrame, monitorRest, dbVars, monitorVars, groupVars, feedVars
<1> QED BY <1>1, <1>2, <1>3, <1>4 DEF TypeInv

LEMMA CancelAllOrdersByStrategyType ==
    ASSUME TypeInv, CancelAllOrdersByStrategy
    PROVE  TypeInv' /\ UNCHANGED <<scenario, config, entry, partial, cached, order, trail, exiting, group, jobs, worker, tick, poll, exits, admins, writes, requests, restarts>>
<1>1. closing' \in ClosingSet
  BY FieldTypes DEF TypeInv, CancelAllOrdersByStrategy, Write, Fail, Closed, NoClosing, ClosingSet, Units
<1>2. row' \in RowSet
  BY DEF TypeInv, CancelAllOrdersByStrategy, Write, Fail, Closed, NoClosing, RowSet, Units
<1>3. failures' \in Nat
  BY DEF TypeInv, CancelAllOrdersByStrategy, Write, Fail, Closed, NoClosing
<1>4. UNCHANGED <<scenario, config, entry, partial, cached, order, trail, exiting, group, jobs, worker, tick, poll, exits, admins, writes, requests, restarts>>
  BY DEF CancelAllOrdersByStrategy, closingFrame, monitorRest, dbVars, monitorVars, groupVars, feedVars
<1> QED BY <1>1, <1>2, <1>3, <1>4 DEF TypeInv

LEMMA RestartType ==
    ASSUME TypeInv, Restart
    PROVE  TypeInv' /\ UNCHANGED <<scenario, config, row, partial, failures, requests>>
<1>1. entry' \in 1..5
  BY DEF TypeInv, Restart, NoGroup, Idle, NoExit, NoAdmin, NoClosing, OpenRow, TrailFrom, NoTrail, Sides
<1>2. cached' \in BOOLEAN
  BY DEF TypeInv, Restart, NoGroup, Idle, NoExit, NoAdmin, NoClosing, OpenRow, TrailFrom, NoTrail, Sides
<1>3. order' \in OrderSet
  BY FieldTypes, ConfigTypes DEF TypeInv, Restart, NoGroup, Idle, NoExit, NoAdmin, NoClosing, OpenRow, TrailFrom, NoTrail, Sides, OrderSet, Units
<1>4. trail' \in TrailSet
  BY FieldTypes, TrailFromType, ConstantTypes DEF Restart
<1>5. exiting' \in BOOLEAN
  BY DEF TypeInv, Restart, NoGroup, Idle, NoExit, NoAdmin, NoClosing, OpenRow, TrailFrom, NoTrail, Sides
<1>6. group' \in GroupSet
  BY ConstantTypes DEF Restart
<1>7. jobs' \subseteq Prices
  BY DEF TypeInv, Restart, NoGroup, Idle, NoExit, NoAdmin, NoClosing, OpenRow, TrailFrom, NoTrail, Sides
<1>8. worker' \in WorkerSet
  BY ConstantTypes DEF Restart
<1>9. tick' \in Prices \union {0}
  BY DEF TypeInv, Restart, NoGroup, Idle, NoExit, NoAdmin, NoClosing, OpenRow, TrailFrom, NoTrail, Sides
<1>10. poll' \in BOOLEAN
  BY DEF TypeInv, Restart, NoGroup, Idle, NoExit, NoAdmin, NoClosing, OpenRow, TrailFrom, NoTrail, Sides
<1>11. writes' \subseteq Nat
  BY DEF TypeInv, Restart, NoGroup, Idle, NoExit, NoAdmin, NoClosing, OpenRow, TrailFrom, NoTrail, Sides
<1>12. exits' \in [Sources -> ExitSet]
  BY ConstantTypes DEF Restart
<1>13. admins' \in [Admins -> AdminSet]
  BY ConstantTypes DEF Restart
<1>14. closing' \in ClosingSet
  BY ConstantTypes DEF Restart
<1>15. restarts' \in Nat
  BY DEF TypeInv, Restart, NoGroup, Idle, NoExit, NoAdmin, NoClosing, OpenRow, TrailFrom, NoTrail, Sides
<1>16. UNCHANGED <<scenario, config, row, partial, failures, requests>>
  BY DEF Restart, dbVars, monitorVars, groupVars, feedVars
<1> QED BY <1>1, <1>2, <1>3, <1>4, <1>5, <1>6, <1>7, <1>8, <1>9, <1>10, <1>11, <1>12, <1>13, <1>14, <1>15, <1>16 DEF TypeInv

(***************************************************************************)
(* The hypotheses of the lemmas on sums, under a name.                     *)
(***************************************************************************)
Summable(f, D, S) == f \in [D -> Int] /\ S \in SUBSET D /\ IsFiniteSet(S)

LEMMA SummableSum ==
    ASSUME NEW f, NEW D, NEW S, Summable(f, D, S)
    PROVE  /\ SumFunctionOnSet(f, S) \in Int
           /\ \A x \in S : SumFunctionOnSet(f, S) = f[x] + SumFunctionOnSet(f, S \ {x})
<1>1. f \in [D -> Int] /\ S \in SUBSET D /\ IsFiniteSet(S)
  BY DEF Summable
<1> QED BY <1>1, SumRemove

LEMMA SummableNat ==
    ASSUME NEW f, NEW D, NEW S, Summable(f, D, S), \A i \in S : f[i] >= 0
    PROVE  SumFunctionOnSet(f, S) >= 0 /\ \A x \in S : f[x] <= SumFunctionOnSet(f, S)
<1>1. f \in [D -> Int] /\ S \in SUBSET D /\ IsFiniteSet(S)
  BY DEF Summable
<1>2. SumFunctionOnSet(f, S) >= 0
  BY <1>1, SumNat
<1>3. \A x \in S : f[x] <= SumFunctionOnSet(f, S)
  BY <1>1, SumSummand
<1> QED BY <1>2, <1>3

LEMMA SummableSame ==
    ASSUME NEW f, NEW D, NEW S, Summable(f, D, S), NEW g, g \in [S -> Int], \A i \in S : f[i] = g[i]
    PROVE  SumFunctionOnSet(f, S) = SumFunctionOnSet(g, S)
<1>1. f \in [D -> Int] /\ S \in SUBSET D /\ IsFiniteSet(S)
  BY DEF Summable
<1> QED BY <1>1, SumSame

(***************************************************************************)
(* The levels of one side, and what their active ones sum up to.           *)
(***************************************************************************)
QtyOf(ls) == [i \in DOMAIN ls |-> ls[i].qty]
ActiveOf(ls) == {i \in DOMAIN ls : ls[i].active}
LevelSum(ls) == SumFunctionOnSet(QtyOf(ls), ActiveOf(ls))

LEMMA UnitsOfSide ==
    ASSUME NEW s
    PROVE  LevelUnits(s) = LevelSum(group.levels[s]) /\ ActiveLevels(s) = ActiveOf(group.levels[s])
BY DEF LevelUnits, LevelSum, ActiveLevels, QtyOf, ActiveOf

LEMMA LevelsOfSide ==
    ASSUME TypeInv, NEW s \in Sides
    PROVE  group.levels[s] \in Seq(LevelSet)
<1>1. group.levels \in [Sides -> Seq(LevelSet)]
  BY DEF TypeInv, GroupSet
<1> QED BY <1>1

LEMMA SeqIs ==
    ASSUME NEW S, NEW n \in Nat, NEW f \in [1..n -> S]
    PROVE  f \in Seq(S)
OBVIOUS

LEMMA LevelFacts ==
    ASSUME NEW ls \in Seq(LevelSet)
    PROVE  /\ Len(ls) \in Nat /\ DOMAIN ls = 1..Len(ls) /\ DOMAIN ls \subseteq Nat
           /\ Summable(QtyOf(ls), DOMAIN ls, ActiveOf(ls))
           /\ \A i \in DOMAIN ls : ls[i] \in LevelSet
           /\ \A i \in DOMAIN ls : ls[i].qty \in Units /\ ls[i].qty \in Nat /\ ls[i].active \in BOOLEAN
           /\ \A i \in DOMAIN ls : QtyOf(ls)[i] = ls[i].qty
           /\ \A i : i \in ActiveOf(ls) <=> (i \in DOMAIN ls /\ ls[i].active)
<1>1. Len(ls) \in Nat /\ DOMAIN ls = 1..Len(ls)
  OBVIOUS
<1>2. IsFiniteSet(DOMAIN ls)
  BY <1>1, FS_Interval
<1>3. ActiveOf(ls) \subseteq DOMAIN ls
  BY DEF ActiveOf
<1>4. IsFiniteSet(ActiveOf(ls))
  BY <1>2, <1>3, FS_Subset
<1>5. \A i \in DOMAIN ls : ls[i] \in LevelSet
  <2>1. ls \in [1..Len(ls) -> LevelSet]
    OBVIOUS
  <2> QED BY <1>1, <2>1
<1>6. \A i \in DOMAIN ls : ls[i].qty \in Units /\ ls[i].active \in BOOLEAN
  BY <1>5 DEF LevelSet
<1>7. \A u \in Units : u \in Nat /\ u \in Int
  BY QuantityAssumption DEF Units
<1>8. QtyOf(ls) \in [DOMAIN ls -> Int]
  <2>1. \A i \in DOMAIN ls : ls[i].qty \in Int
    BY <1>6, <1>7
  <2> QED BY <2>1 DEF QtyOf
<1>9. DOMAIN ls \subseteq Nat
  BY <1>1
<1>10. \A i \in DOMAIN ls : ls[i].qty \in Nat
  BY <1>6, <1>7
<1>11. Summable(QtyOf(ls), DOMAIN ls, ActiveOf(ls))
  BY <1>3, <1>4, <1>8 DEF Summable
<1>12. /\ \A i \in DOMAIN ls : QtyOf(ls)[i] = ls[i].qty
       /\ \A i : i \in ActiveOf(ls) <=> (i \in DOMAIN ls /\ ls[i].active)
  BY DEF QtyOf, ActiveOf
<1> QED BY <1>1, <1>5, <1>6, <1>9, <1>10, <1>11, <1>12

LEMMA LevelSumNat ==
    ASSUME NEW ls \in Seq(LevelSet)
    PROVE  /\ LevelSum(ls) \in Nat
           /\ \A i \in DOMAIN ls : ls[i].active => ls[i].qty <= LevelSum(ls)
           /\ (ActiveOf(ls) = {}) => LevelSum(ls) = 0
<1>1. Summable(QtyOf(ls), DOMAIN ls, ActiveOf(ls))
  BY LevelFacts
<1>2. \A i \in ActiveOf(ls) : QtyOf(ls)[i] \in Nat
  BY LevelFacts
<1>3. \A i \in ActiveOf(ls) : QtyOf(ls)[i] >= 0
  BY <1>2
<1>4. LevelSum(ls) \in Int
  BY <1>1, SummableSum DEF LevelSum
<1>5. LevelSum(ls) >= 0 /\ \A i \in ActiveOf(ls) : QtyOf(ls)[i] <= LevelSum(ls)
  BY <1>1, <1>3, SummableNat DEF LevelSum
<1>6. \A i \in DOMAIN ls : ls[i].active => ls[i].qty <= LevelSum(ls)
  BY <1>5, LevelFacts
<1>7. (ActiveOf(ls) = {}) => LevelSum(ls) = 0
  BY SumEmpty DEF LevelSum
<1> QED BY <1>4, <1>5, <1>6, <1>7

LevelsHold(ls, A, g) ==
    ls \in Seq(LevelSet) /\ A = ActiveOf(ls) /\ g \in [A -> Int] /\ \A i \in A : ls[i].qty = g[i]

LEMMA LevelSumIs ==
    ASSUME NEW ls, NEW A, NEW g, LevelsHold(ls, A, g)
    PROVE  LevelSum(ls) = SumFunctionOnSet(g, A)
<1>1. ls \in Seq(LevelSet) /\ A = ActiveOf(ls) /\ g \in [A -> Int] /\ \A i \in A : ls[i].qty = g[i]
  BY DEF LevelsHold
<1>2. Summable(QtyOf(ls), DOMAIN ls, A)
  BY <1>1, LevelFacts
<1>3. \A i \in A : QtyOf(ls)[i] = g[i]
  BY <1>1, LevelFacts
<1>4. g \in [A -> Int]
  BY <1>1
<1>5. SumFunctionOnSet(QtyOf(ls), A) = SumFunctionOnSet(g, A)
  BY <1>2, <1>3, <1>4, SummableSame
<1> QED BY <1>1, <1>5 DEF LevelSum

\* OnEntryFill: the levels share the filled quantity.
Initially(levels, q) ==
    LET qtys == computeInitialExitQtys(levels, q)
    IN  [i \in DOMAIN qtys |-> [qty |-> qtys[i], active |-> TRUE]]

LEMMA InitialLevels ==
    ASSUME NEW levels \in LevelSeq, NEW q \in Units
    PROVE  /\ Initially(levels, q) \in Seq(LevelSet) /\ DOMAIN Initially(levels, q) = 1..Len(levels)
           /\ levels # <<>> => LevelSum(Initially(levels, q)) = q
<1> DEFINE qtys == computeInitialExitQtys(levels, q)
           n == Len(levels)
           ls == Initially(levels, q)
<1>1. n \in Nat /\ q \in Nat /\ 0..q \subseteq Units
  BY LevelType, QuantityAssumption DEF Units
<1>2. qtys \in [1..n -> 0..q]
  BY <1>1, InitialSum
<1>3. levels # <<>> => SumFunctionOnSet(qtys, 1..n) = q
  BY <1>1, InitialSum
<1>4. ls = [i \in DOMAIN qtys |-> [qty |-> qtys[i], active |-> TRUE]]
  BY DEF Initially
<1> HIDE DEF qtys, n, ls
<1>5. DOMAIN qtys = 1..n
  BY <1>2
<1>6. \A i \in 1..n : [qty |-> qtys[i], active |-> TRUE] \in LevelSet
  BY <1>1, <1>2 DEF LevelSet
<1>7. ls = [i \in 1..n |-> [qty |-> qtys[i], active |-> TRUE]]
  BY <1>4, <1>5
<1>8. ls \in [1..n -> LevelSet]
  BY <1>6, <1>7
<1>9. ls \in Seq(LevelSet)
  BY <1>1, <1>8, SeqIs
<1>10. DOMAIN ls = 1..n
  BY <1>7
<1>11. ActiveOf(ls) = 1..n
  BY <1>7 DEF ActiveOf
<1>12. \A i \in 1..n : ls[i].qty = qtys[i]
  BY <1>7
<1>13. qtys \in [1..n -> Int]
  BY <1>1, <1>2
<1>14. LevelsHold(ls, 1..n, qtys)
  BY <1>9, <1>11, <1>12, <1>13 DEF LevelsHold
<1>15. LevelSum(ls) = SumFunctionOnSet(qtys, 1..n)
  BY <1>14, LevelSumIs
<1> QED BY <1>3, <1>9, <1>10, <1>15 DEF n, ls

\* evaluateLevels: a level that is reached is switched off.
SwitchedOff(ls, k) == [ls EXCEPT ![k].active = FALSE]

LEMMA LevelOff ==
    ASSUME NEW ls \in Seq(LevelSet), NEW k \in ActiveOf(ls)
    PROVE  /\ SwitchedOff(ls, k) \in Seq(LevelSet) /\ DOMAIN SwitchedOff(ls, k) = DOMAIN ls
           /\ ActiveOf(SwitchedOff(ls, k)) = ActiveOf(ls) \ {k}
           /\ LevelSum(SwitchedOff(ls, k)) = LevelSum(ls) - ls[k].qty
<1> DEFINE off == SwitchedOff(ls, k)
           f == QtyOf(ls)
           A == ActiveOf(ls)
           B == A \ {k}
           g == [i \in B |-> ls[i].qty]
<1>1. Len(ls) \in Nat /\ DOMAIN ls = 1..Len(ls) /\ k \in DOMAIN ls /\ ls[k].active
  BY LevelFacts
<1>2. \A i \in DOMAIN ls : ls[i] \in LevelSet
  BY LevelFacts
<1>3. off = [i \in DOMAIN ls |-> IF i = k THEN [ls[k] EXCEPT !.active = FALSE] ELSE ls[i]]
  BY DEF SwitchedOff
<1>4. [ls[k] EXCEPT !.active = FALSE] \in LevelSet
  BY <1>1, <1>2 DEF LevelSet
<1>5. off \in [1..Len(ls) -> LevelSet]
  BY <1>1, <1>2, <1>3, <1>4
<1>6. off \in Seq(LevelSet)
  BY <1>1, <1>5, SeqIs
<1>7. DOMAIN off = DOMAIN ls
  BY <1>3
<1>8. \A i \in DOMAIN ls : off[i].active <=> (i # k /\ ls[i].active)
  BY <1>2, <1>3 DEF LevelSet
<1>9. ActiveOf(off) = B
  BY <1>7, <1>8 DEF ActiveOf
<1>10. \A i \in B : i \in DOMAIN ls /\ off[i].qty = ls[i].qty
  BY <1>3, LevelFacts
<1>11. \A i \in DOMAIN ls : ls[i].qty \in Nat
  BY LevelFacts
<1>12. g \in [B -> Int] /\ \A i \in B : off[i].qty = g[i]
  <2>1. \A i \in B : ls[i].qty \in Int
    BY <1>10, <1>11
  <2> QED BY <1>10, <2>1
<1>13. Summable(f, DOMAIN ls, A) /\ k \in A
  BY LevelFacts
<1>14. Summable(f, DOMAIN ls, B)
  BY <1>13, FS_Subset DEF Summable
<1>15. f[k] = ls[k].qty /\ \A i \in B : f[i] = g[i]
  BY <1>1, <1>10, LevelFacts
<1>16. LevelsHold(off, B, g)
  BY <1>6, <1>9, <1>12 DEF LevelsHold
<1>17. LevelSum(off) = SumFunctionOnSet(g, B)
  BY <1>16, LevelSumIs
<1>18. SumFunctionOnSet(f, B) = SumFunctionOnSet(g, B)
  <2> HIDE DEF f, A, B, g
  <2> QED BY <1>12, <1>14, <1>15, SummableSame
<1>19. SumFunctionOnSet(f, A) = f[k] + SumFunctionOnSet(f, B) /\ SumFunctionOnSet(f, B) \in Int
  <2>1. \A x \in A : SumFunctionOnSet(f, A) = f[x] + SumFunctionOnSet(f, A \ {x})
    <3> HIDE DEF f, A
    <3> QED BY <1>13, SummableSum
  <2>2. SumFunctionOnSet(f, B) \in Int
    <3> HIDE DEF f, B
    <3> QED BY <1>14, SummableSum
  <2> QED BY <2>1, <2>2
<1>20. LevelSum(ls) = SumFunctionOnSet(f, A)
  BY DEF LevelSum
<1>21. ls[k].qty \in Nat
  BY <1>1, <1>11
<1>22. LevelSum(off) = LevelSum(ls) - ls[k].qty
  <2> HIDE DEF f, A, B, g, off
  <2> QED BY <1>15, <1>17, <1>18, <1>19, <1>20, <1>21
<1> QED BY <1>6, <1>7, <1>9, <1>22

\* rebalanceAndModifyLevels: the active levels share what remains.
Shares(levels) == [i \in DOMAIN levels |-> levels[i].pct]
Rebalanced(ls, levels, R) ==
    [i \in DOMAIN ls |-> IF i \in ActiveOf(ls)
                         THEN [ls[i] EXCEPT !.qty = computeRebalancedQtys(ActiveOf(ls), Shares(levels), R)[i]]
                         ELSE ls[i]]
CanRebalance(D, pct, active, R) ==
    /\ D \in SUBSET Nat /\ pct \in [D -> Nat \ {0}] /\ active \in SUBSET D
    /\ IsFiniteSet(active) /\ active # {} /\ R \in Nat

LEMMA RebalancedQtys ==
    ASSUME NEW D, NEW pct, NEW active, NEW R, CanRebalance(D, pct, active, R)
    PROVE  /\ computeRebalancedQtys(active, pct, R) \in [active -> Nat]
           /\ \A i \in active : computeRebalancedQtys(active, pct, R)[i] \in 0..R
           /\ SumFunctionOnSet(computeRebalancedQtys(active, pct, R), active) = R
<1> DEFINE q == computeRebalancedQtys(active, pct, R)
<1>1. /\ D \in SUBSET Nat /\ pct \in [D -> Nat \ {0}] /\ active \in SUBSET D
      /\ IsFiniteSet(active) /\ active # {} /\ R \in Nat
  BY DEF CanRebalance
<1>2. q \in [active -> Nat] /\ SumFunctionOnSet(q, active) = R
  BY <1>1, RebalancedSum
<1> HIDE DEF q
<1>3. Summable(q, active, active) /\ \A i \in active : q[i] \in Nat
  BY <1>1, <1>2 DEF Summable
<1>4. \A i \in active : q[i] >= 0
  BY <1>3
<1>5. \A i \in active : q[i] <= SumFunctionOnSet(q, active)
  BY <1>3, <1>4, SummableNat
<1>6. \A i \in active : q[i] \in 0..R
  BY <1>1, <1>2, <1>3, <1>5
<1> QED BY <1>2, <1>6 DEF q

LEMMA Percentages == \A x \in 1..100 : x \in Nat /\ x # 0
OBVIOUS

LEMMA RebalancedLevels ==
    ASSUME NEW ls \in Seq(LevelSet), NEW levels \in LevelSeq, DOMAIN ls = DOMAIN levels, NEW R \in Units
    PROVE  /\ Rebalanced(ls, levels, R) \in Seq(LevelSet) /\ DOMAIN Rebalanced(ls, levels, R) = DOMAIN ls
           /\ ActiveOf(Rebalanced(ls, levels, R)) = ActiveOf(ls)
           /\ ActiveOf(ls) # {} => LevelSum(Rebalanced(ls, levels, R)) = R
<1> DEFINE A == ActiveOf(ls)
           new == Rebalanced(ls, levels, R)
           q == computeRebalancedQtys(A, Shares(levels), R)
           D == DOMAIN ls
<1>1. Len(ls) \in Nat /\ DOMAIN ls = 1..Len(ls)
  BY LevelFacts
<1>2. \A i \in DOMAIN ls : ls[i] \in LevelSet
  BY LevelFacts
<1>3. DOMAIN new = DOMAIN ls
  BY DEF Rebalanced
<1>4. CASE A = {}
  <2>2. \A i \in DOMAIN ls : new[i] = ls[i]
    BY <1>4 DEF Rebalanced
  <2>1. new \in [1..Len(ls) -> LevelSet]
    BY <1>1, <1>2, <1>4 DEF Rebalanced
  <2>3. ActiveOf(new) = A
    BY <1>3, <2>2 DEF ActiveOf
  <2>4. new \in Seq(LevelSet)
    BY <1>1, <2>1, SeqIs
  <2> QED BY <1>3, <1>4, <2>3, <2>4
<1>5. CASE A # {}
  <2>1. D \in SUBSET Nat /\ A \in SUBSET D /\ IsFiniteSet(A)
    BY LevelFacts DEF Summable
  <2>2. Shares(levels) \in [D -> Nat \ {0}]
    <3>1. DOMAIN levels = 1..Len(levels) /\ \A i \in 1..Len(levels) : levels[i].pct \in 1..100
      BY LevelType
    <3>2. \A x \in 1..100 : x \in Nat /\ x # 0
      BY Percentages
    <3>3. \A i \in DOMAIN levels : levels[i].pct \in Nat \ {0}
      BY <3>1, <3>2
    <3>4. DOMAIN levels = D
      OBVIOUS
    <3> HIDE DEF D
    <3> QED BY <3>3, <3>4 DEF Shares
  <2>3. R \in Nat /\ 0..R \subseteq Units
    BY QuantityAssumption DEF Units
  <2>4. CanRebalance(D, Shares(levels), A, R)
    BY <1>5, <2>1, <2>2, <2>3 DEF CanRebalance
  <2>5. new = [i \in D |-> IF i \in A THEN [ls[i] EXCEPT !.qty = q[i]] ELSE ls[i]]
    BY DEF Rebalanced
  <2>6. q \in [A -> Nat] /\ (\A i \in A : q[i] \in 0..R) /\ SumFunctionOnSet(q, A) = R
    <3> HIDE DEF A, D
    <3> QED BY <2>4, RebalancedQtys
  <2> HIDE DEF q, D, A, new
  <2>7. \A i \in A : [ls[i] EXCEPT !.qty = q[i]] \in LevelSet
    <3>1. \A i \in A : ls[i] \in LevelSet /\ q[i] \in Units
      BY <1>2, <2>1, <2>3, <2>6 DEF D
    <3> QED BY <3>1 DEF LevelSet
  <2>8. new \in [1..Len(ls) -> LevelSet]
    BY <1>1, <1>2, <2>5, <2>7 DEF D
  <2>9. new \in Seq(LevelSet)
    BY <1>1, <2>8, SeqIs
  <2>10. \A i \in D : new[i].active = ls[i].active
    <3>1. \A i \in D : ls[i] \in LevelSet
      BY <1>2 DEF D
    <3> QED BY <2>5, <3>1 DEF LevelSet
  <2>11. ActiveOf(new) = A
    BY <1>3, <2>10 DEF D, A, ActiveOf
  <2>12. \A i \in A : new[i].qty = q[i]
    <3>1. \A i \in A : new[i] = [ls[i] EXCEPT !.qty = q[i]] /\ ls[i] \in LevelSet
      BY <1>2, <2>1, <2>5 DEF D
    <3> QED BY <3>1 DEF LevelSet
  <2>13. q \in [A -> Int]
    BY <2>6
  <2>14. LevelsHold(new, A, q)
    BY <2>9, <2>11, <2>12, <2>13 DEF LevelsHold
  <2>15. LevelSum(new) = SumFunctionOnSet(q, A)
    BY <2>14, LevelSumIs
  <2>16. LevelSum(new) = R
    BY <2>6, <2>15
  <2> QED BY <1>3, <2>9, <2>11, <2>16 DEF A, new
<1> QED BY <1>4, <1>5

LEMMA UnitsOfSideNext ==
    ASSUME NEW s
    PROVE  LevelUnits(s)' = LevelSum(group'.levels[s]) /\ ActiveLevels(s)' = ActiveOf(group'.levels[s])
BY DEF LevelUnits, LevelSum, ActiveLevels, QtyOf, ActiveOf

(***************************************************************************)
(* What the steps on the group do to its levels.                           *)
(***************************************************************************)
Evaluated(s, k) ==
    /\ k \in ActiveOf(group.levels[s])
    /\ group' = [group EXCEPT !.levels = [group.levels EXCEPT ![s] = SwitchedOff(group.levels[s], k)]]
    /\ worker' = [pc |-> "decrement", side |-> s, level |-> k, qty |-> group.levels[s][k].qty, remaining |-> 0]
    /\ s = "TP" => \A i \in ActiveOf(group.levels["TP"]) : k <= i

LEMMA LevelsFilled ==
    ASSUME TypeInv, EntryInv, GroupInv, NEW s \in Sides
    PROVE  /\ group.filled => DOMAIN group.levels[s] = 1..Len(config.levels[s])
           /\ ~group.filled => DOMAIN group.levels[s] = {}
           /\ DOMAIN group.levels[s] \subseteq 1..Len(config.levels[s])
<1>1. group.filled => DOMAIN group.levels[s] = 1..Len(config.levels[s])
  BY DEF GroupInv
<1>2. ~group.filled => DOMAIN group.levels[s] = {}
  <2>1. ~group.filled => group.levels[s] = <<>>
    BY DEF EntryInv, NoGroup
  <2> QED BY <2>1
<1> QED BY <1>1, <1>2

LEMMA EvaluatedLevel ==
    ASSUME TypeInv, EntryInv, GroupInv, NEW p \in Prices, evaluateLevels(p)
    PROVE  \/ UNCHANGED <<group, worker>>
           \/ \E s \in Sides : \E k \in ActiveOf(group.levels[s]) : Evaluated(s, k)
<1> DEFINE side == IF Breached("SL", p) # {} THEN "SL" ELSE "TP"
           k == Min(Breached(side, p))
<1>1. CASE Breached(side, p) = {}
  BY <1>1 DEF evaluateLevels
<1>2. CASE Breached(side, p) # {}
  <2>1. side \in Sides
    BY DEF Sides
  <2>2. Breached(side, p) \subseteq ActiveOf(group.levels[side])
    BY UnitsOfSide DEF Breached
  <2>3. group.levels[side] \in Seq(LevelSet)
    BY <2>1, LevelsOfSide
  <2>4. Breached(side, p) \subseteq Nat
    <3> HIDE DEF side
    <3> QED BY <2>2, <2>3, LevelFacts
  <2>5. k \in Breached(side, p) /\ \A y \in Breached(side, p) : k <= y
    <3> HIDE DEF side
    <3>1. \E x \in Breached(side, p) : \A y \in Breached(side, p) : x <= y
      BY <1>2, <2>4, LeastNat
    <3> QED BY <3>1 DEF Min
  <2>6. k \in ActiveOf(group.levels[side])
    BY <2>2, <2>5
  <2>7. /\ group' = [group EXCEPT !.levels[side][k].active = FALSE]
        /\ worker' = [pc |-> "decrement", side |-> side, level |-> k, qty |-> group.levels[side][k].qty, remaining |-> 0]
    BY <1>2 DEF evaluateLevels
  <2>8. ASSUME side = "TP", NEW i \in ActiveOf(group.levels["TP"])
        PROVE  k <= i
    <3>1. "TP" \in Sides
      BY DEF Sides
    <3>2. i \in 1..Len(config.levels["TP"]) /\ k \in 1..Len(config.levels["TP"])
      <4> HIDE DEF side, k
      <4>1. group.levels["TP"] \in Seq(LevelSet) /\ k \in ActiveOf(group.levels["TP"])
        BY <2>3, <2>6, <2>8
      <4>2. i \in DOMAIN group.levels["TP"] /\ k \in DOMAIN group.levels["TP"]
        BY <2>8, <4>1 DEF ActiveOf
      <4> QED BY <3>1, <4>2, LevelsFilled
    <3>3. p >= config.levels["TP"][k].price
      BY <2>5, <2>8 DEF Breached
    <3>4. CASE i \in Breached("TP", p)
      BY <2>5, <2>8, <3>4
    <3>5. CASE i \notin Breached("TP", p)
      <4>1. ~(p >= config.levels["TP"][i].price)
        BY <3>5, UnitsOfSide DEF Breached
      <4> HIDE DEF k, side
      <4>2. config.levels["TP"][i].price \in Nat /\ config.levels["TP"][k].price \in Nat /\ p \in Nat
        BY <3>2, TargetPrices, PriceAssumption
      <4>3. i \in 1..k => config.levels["TP"][i].price <= config.levels["TP"][k].price
        BY <3>2, TargetPrices
      <4>4. Len(config.levels["TP"]) \in Nat
        BY ConfigTypes, LevelType, <3>1
      <4>5. i \notin 1..k
        BY <3>3, <4>1, <4>2, <4>3
      <4> QED BY <3>2, <4>4, <4>5
    <3> QED BY <3>4, <3>5
  <2>9. [group EXCEPT !.levels[side][k].active = FALSE]
          = [group EXCEPT !.levels = [group.levels EXCEPT ![side] = SwitchedOff(group.levels[side], k)]]
    <3> HIDE DEF side, k
    <3> QED BY DEF SwitchedOff
  <2>10. Evaluated(side, k)
    <3> HIDE DEF side, k
    <3> QED BY <2>6, <2>7, <2>8, <2>9 DEF Evaluated
  <2> HIDE DEF side, k
  <2> QED BY <2>1, <2>6, <2>10
<1> QED BY <1>1, <1>2

LEMMA EvaluatedEffect ==
    ASSUME TypeInv, NEW s \in Sides, NEW k \in ActiveOf(group.levels[s]), Evaluated(s, k)
    PROVE  /\ group'.state = group.state /\ group'.filled = group.filled /\ group'.remaining = group.remaining
           /\ group'.levels[s] = SwitchedOff(group.levels[s], k)
           /\ \A z \in Sides : z # s => group'.levels[z] = group.levels[z]
           /\ group' \in GroupSet /\ worker' \in WorkerSet
           /\ worker'.pc = "decrement" /\ worker'.side = s /\ worker'.level = k
           /\ worker'.qty = group.levels[s][k].qty /\ worker'.remaining = 0
<1>1. group \in GroupSet
  BY DEF TypeInv
<1>2. group.levels \in [Sides -> Seq(LevelSet)]
  BY <1>1 DEF GroupSet
<1>3. group.levels[s] \in Seq(LevelSet)
  BY <1>2
<1>4. SwitchedOff(group.levels[s], k) \in Seq(LevelSet)
  BY <1>3, LevelOff
<1>5. k \in DOMAIN group.levels[s] /\ k \in Nat /\ group.levels[s][k].qty \in Units
  BY <1>3, LevelFacts
<1>6. group' = [group EXCEPT !.levels = [group.levels EXCEPT ![s] = SwitchedOff(group.levels[s], k)]]
  BY DEF Evaluated
<1>7. [group.levels EXCEPT ![s] = SwitchedOff(group.levels[s], k)] \in [Sides -> Seq(LevelSet)]
  BY <1>2, <1>4
<1>8. group' \in GroupSet
  BY <1>1, <1>6, <1>7 DEF GroupSet
<1>9. group'.state = group.state /\ group'.filled = group.filled /\ group'.remaining = group.remaining
  BY <1>1, <1>6 DEF GroupSet
<1>10. group'.levels = [group.levels EXCEPT ![s] = SwitchedOff(group.levels[s], k)]
  BY <1>1, <1>6 DEF GroupSet
<1>11. /\ group'.levels[s] = SwitchedOff(group.levels[s], k)
       /\ \A z \in Sides : z # s => group'.levels[z] = group.levels[z]
  BY <1>2, <1>10
<1>12. worker' = [pc |-> "decrement", side |-> s, level |-> k, qty |-> group.levels[s][k].qty, remaining |-> 0]
  BY DEF Evaluated
<1>13. worker' \in WorkerSet
  BY <1>5, <1>12, ConstantTypes DEF WorkerSet
<1> QED BY <1>8, <1>9, <1>11, <1>12, <1>13

LEMMA runEvalJobType ==
    ASSUME TypeInv, EntryInv, GroupInv, NEW p \in Prices, runEvalJob(p)
    PROVE  TypeInv' /\ UNCHANGED <<scenario, config, entry, row, partial, cached, order, trail, exiting, tick, poll, exits, admins, closing, writes, failures, requests, restarts>>
<1>1. jobs' \subseteq Prices
  BY DEF runEvalJob, TypeInv
<1>2. group' \in GroupSet /\ worker' \in WorkerSet
  <2>1. CASE UNCHANGED <<group, worker>>
    BY <2>1 DEF TypeInv
  <2>2. CASE evaluateLevels(p)
    <3>1. CASE UNCHANGED <<group, worker>>
      BY <3>1 DEF TypeInv
    <3>2. ASSUME NEW s \in Sides, NEW k \in ActiveOf(group.levels[s]), Evaluated(s, k)
          PROVE  group' \in GroupSet /\ worker' \in WorkerSet
      BY <3>2, EvaluatedEffect
    <3> QED BY <2>2, <3>1, <3>2, EvaluatedLevel
  <2> QED BY <2>1, <2>2 DEF runEvalJob
<1>3. UNCHANGED <<scenario, config, entry, row, partial, cached, order, trail, exiting, tick, poll, exits, admins, closing, writes, failures, requests, restarts>>
  BY DEF runEvalJob, workerFrame, dbVars, monitorVars, feedVars
<1> QED BY <1>1, <1>2, <1>3 DEF TypeInv

LEMMA FilledEffect ==
    ASSUME TypeInv, OnEntryFill, group.state = "ACTIVE"
    PROVE  /\ group' \in GroupSet /\ group'.state = group.state /\ group'.filled = TRUE /\ group'.remaining = order.qty
           /\ \A s \in Sides : group'.levels[s] = Initially(config.levels[s], order.qty)
<1>1. group \in GroupSet /\ order.qty \in Units
  BY FieldTypes DEF TypeInv, Units
<1>2. group' = [group EXCEPT !.filled = TRUE, !.remaining = order.qty,
                             !.levels = [s \in Sides |-> Initially(config.levels[s], order.qty)]]
  BY DEF OnEntryFill, Initially
<1>3. \A s \in Sides : Initially(config.levels[s], order.qty) \in Seq(LevelSet)
  <2> TAKE s \in Sides
  <2>1. config.levels[s] \in LevelSeq
    BY ConfigTypes
  <2> QED BY <1>1, <2>1, InitialLevels
<1>4. [s \in Sides |-> Initially(config.levels[s], order.qty)] \in [Sides -> Seq(LevelSet)]
  BY <1>3
<1>5. group' \in GroupSet
  BY <1>1, <1>2, <1>4 DEF GroupSet
<1>6. /\ group'.state = group.state /\ group'.filled = TRUE /\ group'.remaining = order.qty
      /\ group'.levels = [s \in Sides |-> Initially(config.levels[s], order.qty)]
  BY <1>1, <1>2 DEF GroupSet
<1> QED BY <1>5, <1>6

LEMMA OnEntryFillType ==
    ASSUME TypeInv, OnEntryFill
    PROVE  TypeInv' /\ UNCHANGED <<scenario, config, row, partial, cached, order, trail, exiting, jobs, worker, tick, poll, exits, admins, closing, writes, failures, requests, restarts>>
<1>1. entry' \in 1..5
  BY RouteSteps DEF OnEntryFill
<1>2. group' \in GroupSet
  <2>1. CASE group.state = "ACTIVE"
    BY <2>1, FilledEffect
  <2>2. CASE group.state # "ACTIVE"
    BY <2>2 DEF OnEntryFill, TypeInv
  <2> QED BY <2>1, <2>2
<1>3. UNCHANGED <<scenario, config, row, partial, cached, order, trail, exiting, jobs, worker, tick, poll, exits, admins, closing, writes, failures, requests, restarts>>
  BY DEF OnEntryFill, Step, dbVars, monitorVars, groupVars, feedVars
<1> QED BY <1>1, <1>2, <1>3 DEF TypeInv

LEMMA TrailingStep ==
    ASSUME TypeInv, NEW p \in Prices
    PROVE  /\ advanceTrailingSL(p) \in TrailSet
           /\ advanceTrailingSL(p).sl \in Nat /\ advanceTrailingSL(p).sl >= trail.sl
           /\ advanceTrailingSL(p).on = trail.on
<1>1. trail \in TrailSet /\ p \in Nat
  BY PriceAssumption DEF TypeInv
<1>2. trail.sl \in Nat /\ trail.best \in Nat /\ trail.dist \in Nat
  BY <1>1 DEF TrailSet
<1>3. CASE trail.on /\ p > trail.best
  <2> DEFINE m == Max({trail.sl, p - trail.dist})
  <2>1. m = IF trail.sl >= p - trail.dist THEN trail.sl ELSE p - trail.dist
    BY <1>1, <1>2, MaxOfTwo
  <2>2. m \in Nat /\ m >= trail.sl
    BY <1>1, <1>2, <2>1
  <2>3. advanceTrailingSL(p) = [trail EXCEPT !.best = p, !.sl = m]
    BY <1>3 DEF advanceTrailingSL
  <2> HIDE DEF m
  <2> QED BY <1>1, <2>2, <2>3 DEF TrailSet
<1>4. CASE ~(trail.on /\ p > trail.best)
  BY <1>1, <1>2, <1>4 DEF advanceTrailingSL
<1> QED BY <1>3, <1>4

LEMMA OnPriceUpdateType ==
    ASSUME TypeInv, NEW p \in Prices, OnPriceUpdate(p)
    PROVE  TypeInv' /\ UNCHANGED <<scenario, config, entry, row, partial, cached, exiting, group, worker, poll, exits, admins, closing, failures, requests, restarts>>
<1>1. advanceTrailingSL(p) \in TrailSet /\ advanceTrailingSL(p).sl \in Nat
  BY TrailingStep
<1>2. \A q \in Prices : Enqueue(q) => jobs' \subseteq Prices
  BY DEF Enqueue, TypeInv
<1>3. jobs' \subseteq Prices
  BY <1>2 DEF OnPriceUpdate, TypeInv
<1>4. trail' \in TrailSet
  BY <1>1 DEF OnPriceUpdate, TypeInv
<1>5. writes' \subseteq Nat
  BY <1>1 DEF OnPriceUpdate, TypeInv
<1>6. tick' \in Prices \union {0}
  BY DEF OnPriceUpdate, TypeInv
<1>7. order' \in OrderSet
  <2>1. \A x \in Nat : [order EXCEPT !.stopLoss = x] \in OrderSet
    BY DEF TypeInv, OrderSet
  <2>2. order \in OrderSet
    BY DEF TypeInv
  <2> QED BY <1>1, <2>1, <2>2 DEF OnPriceUpdate
<1>8. UNCHANGED <<scenario, config, entry, row, partial, cached, exiting, group, worker, poll, exits, admins, closing, failures, requests, restarts>>
  BY DEF OnPriceUpdate, dbVars
<1> QED BY <1>3, <1>4, <1>5, <1>6, <1>7, <1>8 DEF TypeInv

\* What a worker takes off is not more than what is left.
LEMMA WorkerQuantity ==
    ASSUME TypeInv, EntryInv, GroupInv, LevelInv, worker.pc = "decrement"
    PROVE  group.filled /\ worker.qty <= group.remaining /\ group.remaining - worker.qty \in Units
<1>1. group.filled
  BY DEF EntryInv, Busy
<1>2. worker.side \in Sides /\ worker.level \in 1..Len(config.levels[worker.side])
  BY FieldTypes DEF GroupInv, Busy
<1>3. config.levels[worker.side] # <<>>
  BY <1>2
<1>4. LevelUnits(worker.side) = Expected(worker.side)
  BY <1>1, <1>2, <1>3 DEF LevelInv
<1>5. Expected(worker.side) = group.remaining - worker.qty
  BY FieldTypes DEF Expected
<1>6. LevelUnits(worker.side) \in Nat
  BY <1>2, LevelsOfSide, UnitsOfSide, LevelSumNat
<1> QED BY <1>1, <1>4, <1>5, <1>6, FieldTypes DEF Units

LEMMA recordPaperExitType ==
    ASSUME TypeInv, EntryInv, GroupInv, LevelInv, recordPaperExit
    PROVE  TypeInv' /\ UNCHANGED <<scenario, config, entry, row, partial, cached, order, trail, exiting, jobs, tick, poll, exits, admins, closing, writes, failures, requests, restarts>>
<1>1. Remaining \in Units
  BY WorkerQuantity DEF recordPaperExit, Remaining
<1>2. group \in GroupSet /\ worker \in WorkerSet
  BY DEF TypeInv
<1>3. group' \in GroupSet
  BY <1>1, <1>2 DEF recordPaperExit, GroupSet
<1>4. worker' \in WorkerSet
  BY <1>1, <1>2 DEF recordPaperExit, WorkerSet
<1>5. UNCHANGED <<scenario, config, entry, row, partial, cached, order, trail, exiting, jobs, tick, poll, exits, admins, closing, writes, failures, requests, restarts>>
  BY DEF recordPaperExit, workerFrame, dbVars, monitorVars, feedVars
<1> QED BY <1>3, <1>4, <1>5 DEF TypeInv

OtherSide(s) == CHOOSE z \in Sides : z # s

LEMMA OtherSideIs ==
    ASSUME NEW s \in Sides
    PROVE  OtherSide(s) \in Sides /\ OtherSide(s) # s /\ \A z \in Sides : z = s \/ z = OtherSide(s)
<1>1. \E z \in Sides : z # s
  BY DEF Sides
<1>2. OtherSide(s) \in Sides /\ OtherSide(s) # s
  BY <1>1 DEF OtherSide
<1> QED BY <1>2 DEF Sides

LEMMA RebalancedEffect ==
    ASSUME TypeInv, EntryInv, GroupInv, WorkerUpdateCache, worker.remaining > 0
    PROVE  LET o == OtherSide(worker.side)
           IN  /\ group' \in GroupSet
               /\ group'.state = group.state /\ group'.filled = group.filled /\ group'.remaining = group.remaining
               /\ group'.levels[o] = Rebalanced(group.levels[o], config.levels[o], worker.remaining)
               /\ group'.levels[worker.side] = group.levels[worker.side]
<1> DEFINE o == OtherSide(worker.side)
           new == Rebalanced(group.levels[o], config.levels[o], worker.remaining)
<1>1. worker.side \in Sides /\ worker.remaining \in Units /\ group \in GroupSet
  BY FieldTypes DEF TypeInv, Units
<1>2. o \in Sides /\ o # worker.side
  BY <1>1, OtherSideIs
<1>3. group.filled
  BY DEF EntryInv, Busy, WorkerUpdateCache
<1>4. group.levels \in [Sides -> Seq(LevelSet)] /\ group.levels[o] \in Seq(LevelSet)
  BY <1>1, <1>2 DEF GroupSet
<1>5. config.levels[o] \in LevelSeq /\ DOMAIN config.levels[o] = 1..Len(config.levels[o])
  BY <1>2, ConfigTypes, LevelType
<1>6. DOMAIN group.levels[o] = DOMAIN config.levels[o]
  BY <1>2, <1>3, <1>5, LevelsFilled
<1>7. new \in Seq(LevelSet)
  <2> HIDE DEF o
  <2> QED BY <1>1, <1>4, <1>5, <1>6, RebalancedLevels
<1>8. group' = rebalanceAndModifyLevels(o, worker.remaining)
  BY DEF WorkerUpdateCache, OtherSide
<1> HIDE DEF o
<1>9. ActiveLevels(o) = ActiveOf(group.levels[o])
  BY UnitsOfSide
<1>10. [i \in DOMAIN config.levels[o] |-> config.levels[o][i].pct] = Shares(config.levels[o])
  BY DEF Shares
<1>11. group' = [group EXCEPT !.levels[o] = new]
  <2>1. group' = [group EXCEPT !.levels[o] =
            [i \in DOMAIN @ |-> IF i \in ActiveLevels(o)
                                THEN [@[i] EXCEPT !.qty = computeRebalancedQtys(ActiveLevels(o), Shares(config.levels[o]), worker.remaining)[i]]
                                ELSE @[i]]]
    BY <1>8, <1>10 DEF rebalanceAndModifyLevels
  <2> QED BY <1>9, <2>1 DEF Rebalanced
<1> HIDE DEF new
<1>12. group'.levels = [group.levels EXCEPT ![o] = new]
  BY <1>1, <1>11 DEF GroupSet
<1>13. [group.levels EXCEPT ![o] = new] \in [Sides -> Seq(LevelSet)]
  BY <1>2, <1>4, <1>7
<1>14. group' \in GroupSet
  BY <1>1, <1>11, <1>13 DEF GroupSet
<1>15. group'.state = group.state /\ group'.filled = group.filled /\ group'.remaining = group.remaining
  BY <1>1, <1>11 DEF GroupSet
<1>16. group'.levels[o] = new /\ group'.levels[worker.side] = group.levels[worker.side]
  BY <1>1, <1>2, <1>4, <1>12
<1> QED BY <1>14, <1>15, <1>16 DEF o, new

LEMMA WorkerUpdateCacheType ==
    ASSUME TypeInv, EntryInv, GroupInv, WorkerUpdateCache
    PROVE  TypeInv' /\ UNCHANGED <<scenario, config, entry, row, partial, cached, trail, exiting, jobs, tick, poll, exits, admins, closing, writes, failures, requests, restarts>>
<1>1. group' \in GroupSet
  <2>1. CASE worker.remaining > 0
    BY <2>1, RebalancedEffect
  <2>2. CASE ~(worker.remaining > 0)
    BY <2>2 DEF WorkerUpdateCache, TypeInv
  <2> QED BY <2>1, <2>2
<1>2. worker \in WorkerSet /\ worker.remaining \in Units /\ order \in OrderSet
  BY FieldTypes DEF TypeInv, Units
<1>3. order' \in OrderSet
  BY <1>2 DEF WorkerUpdateCache, OrderSet
<1>4. worker' \in WorkerSet
  BY <1>2 DEF WorkerUpdateCache, WorkerSet
<1>5. UNCHANGED <<scenario, config, entry, row, partial, cached, trail, exiting, jobs, tick, poll, exits, admins, closing, writes, failures, requests, restarts>>
  BY DEF WorkerUpdateCache, workerFrame, dbVars, feedVars
<1> QED BY <1>1, <1>3, <1>4, <1>5 DEF TypeInv

(***************************************************************************)
(* A step that leaves the variables of a part alone leaves the part alone; *)
(* what covers the position goes on covering it while the recorded units   *)
(* do not get fewer.                                                       *)
(***************************************************************************)
LEMMA EntrySame ==
    ASSUME EntryInv, UNCHANGED <<entry, config, row, cached, order, failures, group, worker>>
    PROVE  EntryInv'
BY DEF EntryInv, Filled, Added, Busy

LEMMA GroupSame ==
    ASSUME GroupInv, UNCHANGED <<group, config, worker>>
    PROVE  GroupInv'
BY DEF GroupInv, Busy, Decremented

LEMMA LevelSame ==
    ASSUME LevelInv, UNCHANGED <<group, config, worker>>
    PROVE  LevelInv'
<1>1. \A s \in Sides : LevelUnits(s)' = LevelUnits(s)
  BY UnitsOfSide, UnitsOfSideNext
<1> QED BY <1>1 DEF LevelInv, Expected

LEMMA AgreeSame ==
    ASSUME AgreeInv, UNCHANGED <<failures, group, row, worker, cached, order>>
    PROVE  AgreeInv'
BY DEF AgreeInv

LEMMA CancelledSame ==
    ASSUME CancelledInv, UNCHANGED <<admins, closing, group>>
    PROVE  CancelledInv'
BY DEF CancelledInv

LEMMA AskedSame ==
    ASSUME AskedInv, UNCHANGED <<admins, closing, scenario>>
    PROVE  AskedInv'
BY DEF AskedInv

LEMMA ClosedSame ==
    ASSUME ClosedInv, UNCHANGED <<exits, row, failures>>
    PROVE  ClosedInv'
BY DEF ClosedInv

LEMMA PricedSame ==
    ASSUME PricedInv, UNCHANGED <<failures, cached, row, tick, poll, exits, admins>>
    PROVE  PricedInv'
BY DEF PricedInv

LEMMA StopSame ==
    ASSUME StopInv, UNCHANGED <<entry, config, order, cached, trail, group, worker>>
    PROVE  StopInv'
<1>1. ActiveLevels("TP")' = ActiveLevels("TP")
  BY DEF ActiveLevels
<1>2. \A i : computeNewSLAfterTP(i)' = computeNewSLAfterTP(i)
  BY DEF computeNewSLAfterTP
<1>3. (Added' <=> Added) /\ (Busy' <=> Busy)
  BY DEF Added, Busy
<1> QED BY <1>1, <1>2, <1>3 DEF StopInv

\* The units that are recorded or will be.
Everything == partial + InHand
Grows ==
    /\ Sound' => Sound
    /\ Sound' => (Recorded' >= Recorded /\ Everything' >= Everything)

LEMMA HandSums ==
    ASSUME NEW p \in Nat, NEW h \in Nat, NEW forced \in BOOLEAN, NEW r, NEW e,
           r = p + (IF forced THEN h ELSE 0), e = p + h
    PROVE  /\ r \in Nat /\ e \in Nat /\ e >= r /\ (forced => e = r) /\ r >= p
           /\ (h = 0 => e = p /\ r = p)
OBVIOUS

LEMMA HandTypes ==
    ASSUME TypeInv
    PROVE  /\ InHand \in Nat /\ partial \in Nat /\ Recorded \in Nat /\ Everything \in Nat /\ Quantity \in Nat
           /\ Everything >= Recorded /\ (Forced => Everything = Recorded) /\ Recorded >= partial
           /\ (InHand = 0 => Everything = partial /\ Recorded = partial)
<1>1. worker.qty \in Nat /\ partial \in Nat /\ Quantity \in Nat
  BY FieldTypes DEF TypeInv
<1>2. InHand \in Nat
  BY <1>1 DEF InHand
<1> QED BY <1>1, <1>2 DEF Recorded, Everything

LEMMA HandTypesNext ==
    ASSUME TypeInv'
    PROVE  /\ InHand' \in Nat /\ partial' \in Nat /\ Recorded' \in Nat /\ Everything' \in Nat /\ Quantity \in Nat
           /\ Everything' >= Recorded' /\ (Forced' => Everything' = Recorded') /\ Recorded' >= partial'
           /\ (InHand' = 0 => Everything' = partial' /\ Recorded' = partial')
<1>1. worker'.qty \in Nat /\ partial' \in Nat /\ Quantity \in Nat
  <2>1. worker' \in WorkerSet /\ partial' \in Nat
    BY DEF TypeInv
  <2> QED BY <2>1, QuantityAssumption DEF WorkerSet, Units
<1>2. InHand' \in Nat
  BY <1>1 DEF InHand
<1>3. Recorded' = partial' + (IF Forced' THEN InHand' ELSE 0) /\ Everything' = partial' + InHand'
  BY DEF Recorded, Everything
<1>4. Forced' \in BOOLEAN
  BY DEF Forced
<1> QED BY <1>1, <1>2, <1>3, <1>4, HandSums

LEMMA CoversIs ==
    ASSUME TypeInv, NEW q \in Nat
    PROVE  (Covers(q) <=> q + Recorded >= Quantity) /\ (CoversAll(q) <=> q + Everything >= Quantity)
<1>1. InHand \in Nat /\ partial \in Nat /\ Quantity \in Nat
  BY HandTypes
<1> QED BY <1>1 DEF Covers, CoversAll, Everything

LEMMA SumGrows ==
    ASSUME NEW q \in Nat, NEW r \in Nat, NEW r2 \in Nat, NEW Q \in Nat, r2 >= r, q + r >= Q
    PROVE  q + r2 >= Q
OBVIOUS

LEMMA SumOfThree ==
    ASSUME NEW q \in Nat, NEW p \in Nat, NEW h \in Nat
    PROVE  q + (p + h) = q + p + h
OBVIOUS

LEMMA StillCovers ==
    ASSUME TypeInv, TypeInv', Grows, Sound', NEW q \in Nat
    PROVE  /\ Covers(q) => q + Recorded' >= Quantity
           /\ CoversAll(q) => q + partial' + InHand' >= Quantity
<1>1. /\ Recorded \in Nat /\ Recorded' \in Nat /\ Everything \in Nat /\ Everything' \in Nat /\ Quantity \in Nat
      /\ partial' \in Nat /\ InHand' \in Nat
  BY HandTypes, HandTypesNext
<1>2. Recorded' >= Recorded /\ Everything' >= Everything
  BY DEF Grows
<1>3. q + Recorded >= Quantity => q + Recorded' >= Quantity
  BY <1>1, <1>2, SumGrows
<1>4. q + Everything >= Quantity => q + Everything' >= Quantity
  BY <1>1, <1>2, SumGrows
<1>5. q + Everything' = q + partial' + InHand'
  <2>1. q + (partial' + InHand') = q + partial' + InHand'
    BY <1>1, SumOfThree
  <2> QED BY <2>1 DEF Everything
<1>6. (Covers(q) => q + Recorded >= Quantity) /\ (CoversAll(q) => q + Everything >= Quantity)
  BY CoversIs
<1>7. CoversAll(q) => q + partial' + InHand' >= Quantity
  BY <1>4, <1>5, <1>6, Zenon
<1> QED BY <1>3, <1>6, <1>7

LEMMA GrowsSame ==
    ASSUME TypeInv, UNCHANGED <<scenario, restarts, partial, worker>>, failures' = 0 => failures = 0
    PROVE  Grows
<1>1. Sound' => Sound
  BY DEF Sound, MayLoseUnits
<1>2. Recorded' = Recorded /\ Everything' = Everything
  BY DEF Recorded, Everything, InHand, Forced
<1> QED BY <1>1, <1>2, HandTypes DEF Grows

LEMMA RowCoveredSame ==
    ASSUME TypeInv, TypeInv', RowCovered, Grows,
           /\ row'.priced = row.priced /\ row'.filled = row.filled /\ row'.closed = row.closed /\ row'.booked = row.booked
           /\ order'.qty = order.qty
    PROVE  RowCovered'
<1> SUFFICES ASSUME Sound' PROVE /\ row'.priced => Covers(row.filled)' /\ Covers(order.qty)'
                                 /\ row'.closed => Covers(row.booked)'
  BY DEF RowCovered
<1>1. Sound
  BY DEF Grows
<1>2. row.filled \in Nat /\ order.qty \in Nat /\ row.booked \in Nat
  BY FieldTypes
<1>3. row.priced => row.filled + Recorded' >= Quantity
  BY <1>1, <1>2, StillCovers DEF RowCovered
<1>4. row.priced => order.qty + Recorded' >= Quantity
  BY <1>1, <1>2, StillCovers DEF RowCovered
<1>5. row.closed => row.booked + Recorded' >= Quantity
  BY <1>1, <1>2, StillCovers DEF RowCovered
<1> QED BY <1>3, <1>4, <1>5 DEF Covers

LEMMA GroupCoveredSame ==
    ASSUME TypeInv, TypeInv', GroupCovered, Grows, group'.filled = group.filled, group'.remaining = group.remaining
    PROVE  GroupCovered'
<1> SUFFICES ASSUME Sound', group'.filled PROVE CoversAll(group.remaining)'
  BY DEF GroupCovered
<1>1. Sound /\ group.remaining \in Nat
  BY FieldTypes DEF Grows
<1>2. CoversAll(group.remaining)
  BY <1>1 DEF GroupCovered
<1>3. group.remaining + partial' + InHand' >= Quantity
  BY <1>1, <1>2, StillCovers
<1> QED BY <1>3 DEF CoversAll

LEMMA ExitsCoveredSame ==
    ASSUME TypeInv, TypeInv', ExitsCovered, Grows, UNCHANGED exits
    PROVE  ExitsCovered'
<1> SUFFICES ASSUME Sound', NEW s \in Sources, exits[s].pc = "write" \/ (exits[s].pc = "cancel" /\ exits[s].own)
             PROVE  exits[s].qty + Recorded' >= Quantity
  BY DEF ExitsCovered, Covers
<1>1. Sound /\ exits[s].qty \in Nat
  BY FieldTypes DEF Grows
<1>2. Covers(exits[s].qty)
  BY <1>1 DEF ExitsCovered
<1> QED BY <1>1, <1>2, StillCovers

LEMMA AdminsCoveredSame ==
    ASSUME TypeInv, TypeInv', AdminsCovered, Grows, UNCHANGED admins
    PROVE  AdminsCovered'
<1> SUFFICES ASSUME Sound', NEW a \in Admins
             PROVE  /\ (admins[a].pc \in {"claim", "cancel", "partial", "zero"} /\ admins[a].own) => admins[a].qty + Recorded' >= Quantity
                    /\ admins[a].pc = "partial" => admins[a].remaining + partial' + InHand' >= Quantity
                    /\ admins[a].pc = "zero" => 0 + partial' + InHand' >= Quantity
  BY DEF AdminsCovered, Covers, CoversAll
<1>1. Sound /\ admins[a].qty \in Nat /\ admins[a].remaining \in Nat /\ 0 \in Nat
  BY FieldTypes DEF Grows
<1>2. (admins[a].pc \in {"claim", "cancel", "partial", "zero"} /\ admins[a].own) => admins[a].qty + Recorded' >= Quantity
  BY <1>1, StillCovers DEF AdminsCovered
<1>3. admins[a].pc = "partial" => admins[a].remaining + partial' + InHand' >= Quantity
  BY <1>1, StillCovers DEF AdminsCovered
<1>4. admins[a].pc = "zero" => 0 + partial' + InHand' >= Quantity
  BY <1>1, StillCovers DEF AdminsCovered
<1> QED BY <1>2, <1>3, <1>4

LEMMA ClosingCoveredSame ==
    ASSUME TypeInv, TypeInv', ClosingCovered, Grows, UNCHANGED closing
    PROVE  ClosingCovered'
<1> SUFFICES ASSUME Sound'
             PROVE  /\ closing.qty # 0 => closing.qty + Recorded' >= Quantity
                    /\ closing.pc = "partial" => closing.remaining + partial' + InHand' >= Quantity
                    /\ closing.pc = "zero" => 0 + partial' + InHand' >= Quantity
  BY DEF ClosingCovered, Covers, CoversAll
<1>1. Sound /\ closing.qty \in Nat /\ closing.remaining \in Nat /\ 0 \in Nat
  BY FieldTypes DEF Grows
<1>2. closing.qty # 0 => closing.qty + Recorded' >= Quantity
  BY <1>1, StillCovers DEF ClosingCovered
<1>3. closing.pc = "partial" => closing.remaining + partial' + InHand' >= Quantity
  BY <1>1, StillCovers DEF ClosingCovered
<1>4. closing.pc = "zero" => 0 + partial' + InHand' >= Quantity
  BY <1>1, StillCovers DEF ClosingCovered
<1> QED BY <1>2, <1>3, <1>4

LEMMA DropCoveredSame ==
    ASSUME TypeInv, TypeInv', DropCovered, Grows, Added' => Added, row'.priced => row.priced, row.closed => row'.closed,
           cached => cached', closing.pc # "idle" => (closing'.pc # "idle" \/ ~Sound')
    PROVE  DropCovered'
<1> SUFFICES ASSUME Sound', row'.priced, Added', ~cached', ~row'.closed, closing'.pc = "idle"
             PROVE  0 + Recorded' >= Quantity
  BY DEF DropCovered, Covers
<1>1. Sound /\ 0 \in Nat
  BY DEF Grows
<1>2. Covers(0)
  BY <1>1 DEF DropCovered
<1> QED BY <1>1, <1>2, StillCovers

(***************************************************************************)
(* Where the entry stands.                                                 *)
(***************************************************************************)
LEMMA EntryPlaces ==
    ASSUME TypeInv, NEW name, Step(name)
    PROVE  /\ entry # 5 /\ entry < 5
           /\ name = "register" => (Filled' <=> Filled) /\ (Added' <=> Added) /\ entry' < 5
           /\ name = "fill" => ~Filled /\ Filled' /\ ~Added /\ ~Added' /\ entry' < 5
           /\ name = "add" => Filled /\ Filled' /\ ~Added /\ Added' /\ entry' < 5
           /\ name = "onfill" => Filled /\ Filled' /\ Added /\ Added' /\ entry' = 5
<1>1. /\ entry \in 1..4 /\ entry' = entry + 1 /\ config' = config
      /\ \/ name = "register" /\ ((config.route = "direct" /\ entry = 1) \/ (config.route = "late" /\ entry = 3))
         \/ name = "fill" /\ ((config.route = "direct" /\ entry = 2) \/ (config.route \in {"late", "plain"} /\ entry = 1))
         \/ name = "add" /\ ((config.route = "direct" /\ entry = 3) \/ (config.route \in {"late", "plain"} /\ entry = 2))
         \/ name = "onfill" /\ config.route \in {"direct", "late"} /\ entry = 4
  BY RouteSteps
<1>2. CASE name = "register" /\ ((config.route = "direct" /\ entry = 1) \/ (config.route = "late" /\ entry = 3))
  BY <1>1, <1>2 DEF Filled, Added
<1>3. CASE name = "fill" /\ ((config.route = "direct" /\ entry = 2) \/ (config.route \in {"late", "plain"} /\ entry = 1))
  BY <1>1, <1>3 DEF Filled, Added
<1>4. CASE name = "add" /\ ((config.route = "direct" /\ entry = 3) \/ (config.route \in {"late", "plain"} /\ entry = 2))
  BY <1>1, <1>4 DEF Filled, Added
<1>5. CASE name = "onfill" /\ config.route \in {"direct", "late"} /\ entry = 4
  BY <1>1, <1>5 DEF Filled, Added
<1> QED BY <1>1, <1>2, <1>3, <1>4, <1>5

LEMMA PlaceSame ==
    ASSUME UNCHANGED <<entry, config>>
    PROVE  (Filled' <=> Filled) /\ (Added' <=> Added)
BY DEF Filled, Added

LEMMA PlaceAtEnd ==
    /\ entry = 5 => Filled /\ Added
    /\ entry' = 5 => Filled' /\ Added'
BY DEF Filled, Added

LEMMA NoLevels ==
    ASSUME TypeInv, EntryInv, ~group.filled
    PROVE  /\ \A s \in Sides : group.levels[s] = <<>>
           /\ ActiveLevels("TP") = {} /\ worker.pc = "idle" /\ group.remaining = 0 /\ ~Busy
<1>1. \A s \in Sides : group.levels[s] = <<>>
  BY DEF EntryInv, NoGroup
<1>2. ActiveLevels("TP") = {}
  BY <1>1 DEF ActiveLevels, Sides
<1> QED BY <1>1, <1>2 DEF EntryInv, Busy

LEMMA BeforeFill ==
    ASSUME TypeInv, Parts, entry # 5
    PROVE  /\ ~group.filled /\ worker.pc = "idle" /\ ActiveLevels("TP") = {}
           /\ \A a \in Admins : admins[a].pc \notin {"partial", "zero"}
           /\ closing.pc \notin {"partial", "zero"}
<1>1. EntryInv /\ CancelledInv
  BY DEF Parts
<1>2. ~group.filled
  BY <1>1 DEF EntryInv
<1> QED BY <1>1, <1>2, NoLevels DEF CancelledInv

LEMMA WhenBusy ==
    ASSUME TypeInv, Parts, worker.pc # "idle"
    PROVE  group.filled /\ entry = 5 /\ Filled /\ Added
<1>1. EntryInv
  BY DEF Parts
<1>2. group.filled
  BY <1>1 DEF EntryInv, Busy
<1>3. entry = 5
  BY <1>1, <1>2 DEF EntryInv
<1> QED BY <1>2, <1>3, PlaceAtEnd

LEMMA NewStopMonotone ==
    ASSUME TypeInv, NEW i \in 1..Len(config.levels["TP"]), NEW j \in 1..Len(config.levels["TP"]), i <= j
    PROVE  computeNewSLAfterTP(i) <= computeNewSLAfterTP(j)
<1>1. Len(config.levels["TP"]) \in Nat
  BY ConfigTypes, LevelType DEF Sides
<1>2. CASE i = 1
  BY <1>2, NewStopType DEF computeNewSLAfterTP
<1>3. CASE i # 1
  <2>1. i - 1 \in 1..Len(config.levels["TP"]) /\ j - 1 \in 1..Len(config.levels["TP"]) /\ i - 1 \in 1..(j - 1) /\ j # 1
    BY <1>1, <1>3
  <2>2. config.levels["TP"][i - 1].price <= config.levels["TP"][j - 1].price
    BY <2>1, TargetPrices
  <2> QED BY <1>3, <2>1, <2>2 DEF computeNewSLAfterTP
<1> QED BY <1>2, <1>3

LEMMA NoLevelsNext ==
    ASSUME group'.filled = FALSE, group'.levels = NoGroup.levels
    PROVE  ActiveLevels("TP")' = {}
<1>1. group'.levels["TP"] = <<>>
  BY DEF NoGroup, Sides
<1> QED BY <1>1 DEF ActiveLevels

(***************************************************************************)
(* One exit, or one admin, takes a step.                                   *)
(***************************************************************************)
LEMMA ExitsStep ==
    ASSUME TypeInv, TypeInv', ExitsCovered, Grows, NEW s \in Sources,
           \A z \in Sources : z # s => exits'[z] = exits[z],
           (Sound' /\ (exits'[s].pc = "write" \/ (exits'[s].pc = "cancel" /\ exits'[s].own)))
               => exits'[s].qty + Recorded' >= Quantity
    PROVE  ExitsCovered'
<1> SUFFICES ASSUME Sound', NEW z \in Sources, exits'[z].pc = "write" \/ (exits'[z].pc = "cancel" /\ exits'[z].own)
             PROVE  exits'[z].qty + Recorded' >= Quantity
  BY DEF ExitsCovered, Covers
<1>1. CASE z = s
  BY <1>1
<1>2. CASE z # s
  <2>1. Sound /\ exits[z].qty \in Nat /\ exits'[z] = exits[z]
    BY <1>2, FieldTypes DEF Grows
  <2>2. Covers(exits[z].qty)
    BY <2>1 DEF ExitsCovered
  <2>3. exits[z].qty + Recorded' >= Quantity
    BY <2>1, <2>2, StillCovers
  <2> QED BY <2>1, <2>3
<1> QED BY <1>1, <1>2

LEMMA AdminsStep ==
    ASSUME TypeInv, TypeInv', AdminsCovered, Grows, NEW a \in Admins,
           \A z \in Admins : z # a => admins'[z] = admins[z],
           Sound' => /\ (admins'[a].pc \in {"claim", "cancel", "partial", "zero"} /\ admins'[a].own)
                            => admins'[a].qty + Recorded' >= Quantity
                     /\ admins'[a].pc = "partial" => admins'[a].remaining + partial' + InHand' >= Quantity
                     /\ admins'[a].pc = "zero" => 0 + partial' + InHand' >= Quantity
    PROVE  AdminsCovered'
<1> SUFFICES ASSUME Sound', NEW z \in Admins
             PROVE  /\ (admins'[z].pc \in {"claim", "cancel", "partial", "zero"} /\ admins'[z].own)
                          => admins'[z].qty + Recorded' >= Quantity
                    /\ admins'[z].pc = "partial" => admins'[z].remaining + partial' + InHand' >= Quantity
                    /\ admins'[z].pc = "zero" => 0 + partial' + InHand' >= Quantity
  BY DEF AdminsCovered, Covers, CoversAll
<1>1. CASE z = a
  BY <1>1
<1>2. CASE z # a
  <2>1. Sound /\ admins[z].qty \in Nat /\ admins[z].remaining \in Nat /\ 0 \in Nat /\ admins'[z] = admins[z]
    BY <1>2, FieldTypes DEF Grows
  <2>2. (admins[z].pc \in {"claim", "cancel", "partial", "zero"} /\ admins[z].own) => admins[z].qty + Recorded' >= Quantity
    BY <2>1, StillCovers DEF AdminsCovered
  <2>3. admins[z].pc = "partial" => admins[z].remaining + partial' + InHand' >= Quantity
    BY <2>1, StillCovers DEF AdminsCovered
  <2>4. admins[z].pc = "zero" => 0 + partial' + InHand' >= Quantity
    BY <2>1, StillCovers DEF AdminsCovered
  <2> QED BY <2>1, <2>2, <2>3, <2>4
<1> QED BY <1>1, <1>2

LEMMA SumAtLeast ==
    ASSUME NEW q \in Nat, NEW r \in Nat, NEW h \in Nat
    PROVE  q + r >= q /\ q + r + h >= q /\ r + q >= q
OBVIOUS

(***************************************************************************)
(* A group is cancelled.                                                   *)
(***************************************************************************)
LEMMA GroupCancelled ==
    ASSUME TypeInv, EntryInv, GroupInv, LevelInv, AgreeInv, StopInv,
           group'.filled = group.filled, group'.remaining = group.remaining, group'.levels = group.levels,
           group'.state = group.state \/ (group.state = "ACTIVE" /\ group'.state = "CANCELLED"),
           UNCHANGED <<entry, config, row, cached, order, trail, failures, worker>>
    PROVE  EntryInv' /\ GroupInv' /\ LevelInv' /\ AgreeInv' /\ StopInv'
<1>1. EntryInv'
  BY PlaceSame DEF EntryInv, Busy
<1>2. GroupInv'
  BY DEF GroupInv, Busy, Decremented
<1>3. LevelInv'
  <2>1. \A s \in Sides : LevelUnits(s)' = LevelUnits(s) /\ Expected(s)' = Expected(s)
    BY UnitsOfSide, UnitsOfSideNext DEF Expected
  <2> QED BY <2>1 DEF LevelInv
<1>4. AgreeInv'
  BY DEF AgreeInv
<1>5. StopInv'
  <2>1. ActiveLevels("TP")' = ActiveLevels("TP") /\ \A i : computeNewSLAfterTP(i)' = computeNewSLAfterTP(i)
    BY DEF ActiveLevels, computeNewSLAfterTP
  <2>2. (Added' <=> Added) /\ (Busy' <=> Busy)
    BY DEF Added, Busy
  <2> QED BY <2>1, <2>2 DEF StopInv
<1> QED BY <1>1, <1>2, <1>3, <1>4, <1>5

\* The monitor drops the order.
LEMMA OrderDropped ==
    ASSUME TypeInv, EntryInv, AgreeInv, PricedInv, StopInv, ~cached',
           UNCHANGED <<entry, config, row, order, failures, group, worker, tick, poll, admins>>,
           \A s \in Sources : exits'[s] = exits[s] \/ exits'[s].pc = "idle"
    PROVE  EntryInv' /\ AgreeInv' /\ PricedInv' /\ StopInv'
<1>1. EntryInv'
  BY PlaceSame DEF EntryInv, Busy
<1>2. AgreeInv'
  BY DEF AgreeInv
<1>3. PricedInv'
  BY DEF PricedInv
<1>4. StopInv'
  <2>1. ActiveLevels("TP")' = ActiveLevels("TP")
    BY DEF ActiveLevels
  <2>2. (Added' <=> Added) /\ (Busy' <=> Busy)
    BY DEF Added, Busy
  <2> QED BY <2>1, <2>2 DEF StopInv
<1> QED BY <1>1, <1>2, <1>3, <1>4

LEMMA RedisSnapshotKeeps ==
    ASSUME TypeInv, Parts, RedisSnapshot
    PROVE  TypeInv' /\ Parts'
<1>1. /\ EntryInv /\ GroupInv /\ LevelInv /\ AgreeInv /\ CancelledInv /\ AskedInv /\ ClosedInv /\ PricedInv
      /\ RowCovered /\ GroupCovered /\ ExitsCovered /\ AdminsCovered /\ ClosingCovered /\ DropCovered /\ StopInv
  BY DEF Parts
<1>2. TypeInv' /\ UNCHANGED <<scenario, config, entry, row, partial, cached, order, trail, exiting, group, jobs, worker, tick, exits, admins, closing, writes, failures, requests, restarts>>
  BY <1>1, RedisSnapshotType
<1>3. cached
  BY DEF RedisSnapshot
<1>4. Grows
  BY <1>1, <1>2, <1>3, GrowsSame
<1>5. EntryInv'
  BY <1>1, <1>2, EntrySame
<1>6. GroupInv'
  BY <1>1, <1>2, GroupSame
<1>7. LevelInv'
  BY <1>1, <1>2, LevelSame
<1>8. AgreeInv'
  BY <1>1, <1>2, AgreeSame
<1>9. CancelledInv'
  BY <1>1, <1>2, CancelledSame
<1>10. AskedInv'
  BY <1>1, <1>2, AskedSame
<1>11. ClosedInv'
  BY <1>1, <1>2, ClosedSame
<1>12. PricedInv'
  BY <1>1, <1>2, <1>3 DEF PricedInv
<1>13. RowCovered'
  BY <1>1, <1>2, <1>4, RowCoveredSame
<1>14. GroupCovered'
  BY <1>1, <1>2, <1>4, GroupCoveredSame
<1>15. ExitsCovered'
  BY <1>1, <1>2, <1>4, ExitsCoveredSame
<1>16. AdminsCovered'
  BY <1>1, <1>2, <1>4, AdminsCoveredSame
<1>17. ClosingCovered'
  BY <1>1, <1>2, <1>4, ClosingCoveredSame
<1>18. DropCovered'
  BY <1>1, <1>2, <1>4, PlaceSame, DropCoveredSame
<1>19. StopInv'
  BY <1>1, <1>2, StopSame
<1> QED BY <1>2, <1>5, <1>6, <1>7, <1>8, <1>9, <1>10, <1>11, <1>12, <1>13, <1>14, <1>15, <1>16, <1>17, <1>18, <1>19 DEF Parts

LEMMA UpdateTrailingSLKeeps ==
    ASSUME TypeInv, Parts, NEW sl \in writes, UpdateTrailingSL(sl)
    PROVE  TypeInv' /\ Parts'
<1>1. /\ EntryInv /\ GroupInv /\ LevelInv /\ AgreeInv /\ CancelledInv /\ AskedInv /\ ClosedInv /\ PricedInv
      /\ RowCovered /\ GroupCovered /\ ExitsCovered /\ AdminsCovered /\ ClosingCovered /\ DropCovered /\ StopInv
  BY DEF Parts
<1>2. TypeInv' /\ UNCHANGED <<scenario, config, entry, partial, cached, order, trail, exiting, group, jobs, worker, tick, poll, exits, admins, closing, requests, restarts>>
  BY <1>1, UpdateTrailingSLType
<1>3. /\ row'.status = row.status /\ row'.priced = row.priced /\ row'.closed = row.closed /\ row'.filled = row.filled /\ row'.booked = row.booked
      /\ failures' = 0 => failures = 0
  BY DEF UpdateTrailingSL, Write, Fail, TypeInv, RowSet
<1>4. Grows
  BY <1>1, <1>2, <1>3, GrowsSame
<1>5. EntryInv'
  BY <1>1, <1>2, <1>3, PlaceSame DEF EntryInv, Busy
<1>6. GroupInv'
  BY <1>1, <1>2, GroupSame
<1>7. LevelInv'
  BY <1>1, <1>2, LevelSame
<1>8. AgreeInv'
  BY <1>1, <1>2, <1>3 DEF AgreeInv
<1>9. CancelledInv'
  BY <1>1, <1>2, CancelledSame
<1>10. AskedInv'
  BY <1>1, <1>2, AskedSame
<1>11. ClosedInv'
  BY <1>1, <1>2, <1>3 DEF ClosedInv
<1>12. PricedInv'
  BY <1>1, <1>2, <1>3 DEF PricedInv
<1>13. RowCovered'
  BY <1>1, <1>2, <1>3, <1>4, RowCoveredSame
<1>14. GroupCovered'
  BY <1>1, <1>2, <1>4, GroupCoveredSame
<1>15. ExitsCovered'
  BY <1>1, <1>2, <1>4, ExitsCoveredSame
<1>16. AdminsCovered'
  BY <1>1, <1>2, <1>4, AdminsCoveredSame
<1>17. ClosingCovered'
  BY <1>1, <1>2, <1>4, ClosingCoveredSame
<1>18. DropCovered'
  BY <1>1, <1>2, <1>3, <1>4, PlaceSame, DropCoveredSame
<1>19. StopInv'
  BY <1>1, <1>2, StopSame
<1> QED BY <1>2, <1>5, <1>6, <1>7, <1>8, <1>9, <1>10, <1>11, <1>12, <1>13, <1>14, <1>15, <1>16, <1>17, <1>18, <1>19 DEF Parts

LEMMA MonitorExitKeeps ==
    ASSUME TypeInv, Parts, MonitorExit
    PROVE  TypeInv' /\ Parts'
<1>1. /\ EntryInv /\ GroupInv /\ LevelInv /\ AgreeInv /\ CancelledInv /\ AskedInv /\ ClosedInv /\ PricedInv
      /\ RowCovered /\ GroupCovered /\ ExitsCovered /\ AdminsCovered /\ ClosingCovered /\ DropCovered /\ StopInv
  BY DEF Parts
<1>2. TypeInv' /\ UNCHANGED <<scenario, config, entry, row, partial, cached, order, trail, group, worker, poll, admins, closing, writes, failures, requests, restarts>>
  BY <1>1, MonitorExitType
<1>3. /\ tick # 0 /\ exits'["WSS"].pc = "cancel" /\ ~exits'["WSS"].own /\ "WSS" \in Sources
      /\ \A z \in Sources : z # "WSS" => exits'[z] = exits[z]
      /\ tick' = 0
  BY ActorNames DEF MonitorExit, StartExit, TypeInv
<1>4. Grows
  BY <1>1, <1>2, <1>3, GrowsSame
<1>5. EntryInv'
  BY <1>1, <1>2, EntrySame
<1>6. GroupInv'
  BY <1>1, <1>2, GroupSame
<1>7. LevelInv'
  BY <1>1, <1>2, LevelSame
<1>8. AgreeInv'
  BY <1>1, <1>2, AgreeSame
<1>9. CancelledInv'
  BY <1>1, <1>2, CancelledSame
<1>10. AskedInv'
  BY <1>1, <1>2, AskedSame
<1>11. ClosedInv'
  BY <1>1, <1>2, <1>3 DEF ClosedInv
<1>12. PricedInv'
  BY <1>1, <1>2, <1>3 DEF PricedInv
<1>13. RowCovered'
  BY <1>1, <1>2, <1>4, RowCoveredSame
<1>14. GroupCovered'
  BY <1>1, <1>2, <1>4, GroupCoveredSame
<1>15. ExitsCovered'
  BY <1>1, <1>2, <1>3, <1>4, ExitsStep
<1>16. AdminsCovered'
  BY <1>1, <1>2, <1>4, AdminsCoveredSame
<1>17. ClosingCovered'
  BY <1>1, <1>2, <1>4, ClosingCoveredSame
<1>18. DropCovered'
  BY <1>1, <1>2, <1>4, PlaceSame, DropCoveredSame
<1>19. StopInv'
  BY <1>1, <1>2, StopSame
<1> QED BY <1>2, <1>5, <1>6, <1>7, <1>8, <1>9, <1>10, <1>11, <1>12, <1>13, <1>14, <1>15, <1>16, <1>17, <1>18, <1>19 DEF Parts

LEMMA checkRedisSLTPKeeps ==
    ASSUME TypeInv, Parts, NEW p \in Prices, checkRedisSLTP(p)
    PROVE  TypeInv' /\ Parts'
<1>1. /\ EntryInv /\ GroupInv /\ LevelInv /\ AgreeInv /\ CancelledInv /\ AskedInv /\ ClosedInv /\ PricedInv
      /\ RowCovered /\ GroupCovered /\ ExitsCovered /\ AdminsCovered /\ ClosingCovered /\ DropCovered /\ StopInv
  BY DEF Parts
<1>2. TypeInv' /\ UNCHANGED <<scenario, config, entry, row, partial, cached, order, trail, group, jobs, worker, tick, admins, closing, writes, failures, requests, restarts>>
  BY <1>1, checkRedisSLTPType
<1>3. /\ poll /\ ~poll' /\ "REDIS" \in Sources
      /\ (exits' = exits \/ (exits'["REDIS"].pc = "cancel" /\ ~exits'["REDIS"].own))
      /\ \A z \in Sources : z # "REDIS" => exits'[z] = exits[z]
  BY ActorNames DEF checkRedisSLTP, StartExit, TypeInv
<1>4. Grows
  BY <1>1, <1>2, <1>3, GrowsSame
<1>5. EntryInv'
  BY <1>1, <1>2, EntrySame
<1>6. GroupInv'
  BY <1>1, <1>2, GroupSame
<1>7. LevelInv'
  BY <1>1, <1>2, LevelSame
<1>8. AgreeInv'
  BY <1>1, <1>2, AgreeSame
<1>9. CancelledInv'
  BY <1>1, <1>2, CancelledSame
<1>10. AskedInv'
  BY <1>1, <1>2, AskedSame
<1>11. ClosedInv'
  BY <1>1, <1>2, <1>3 DEF ClosedInv
<1>12. PricedInv'
  BY <1>1, <1>2, <1>3 DEF PricedInv
<1>13. RowCovered'
  BY <1>1, <1>2, <1>4, RowCoveredSame
<1>14. GroupCovered'
  BY <1>1, <1>2, <1>4, GroupCoveredSame
<1>15. ExitsCovered'
  <2>1. CASE exits' = exits
    BY <1>1, <1>2, <1>3, <1>4, <2>1, ExitsCoveredSame
  <2>2. CASE exits'["REDIS"].pc = "cancel" /\ ~exits'["REDIS"].own
    BY <1>1, <1>2, <1>3, <1>4, <2>2, ExitsStep
  <2> QED BY <1>3, <2>1, <2>2
<1>16. AdminsCovered'
  BY <1>1, <1>2, <1>4, AdminsCoveredSame
<1>17. ClosingCovered'
  BY <1>1, <1>2, <1>4, ClosingCoveredSame
<1>18. DropCovered'
  BY <1>1, <1>2, <1>4, PlaceSame, DropCoveredSame
<1>19. StopInv'
  BY <1>1, <1>2, StopSame
<1> QED BY <1>2, <1>5, <1>6, <1>7, <1>8, <1>9, <1>10, <1>11, <1>12, <1>13, <1>14, <1>15, <1>16, <1>17, <1>18, <1>19 DEF Parts

LEMMA OnPriceUpdateKeeps ==
    ASSUME TypeInv, Parts, NEW p \in Prices, OnPriceUpdate(p)
    PROVE  TypeInv' /\ Parts'
<1>1. /\ EntryInv /\ GroupInv /\ LevelInv /\ AgreeInv /\ CancelledInv /\ AskedInv /\ ClosedInv /\ PricedInv
      /\ RowCovered /\ GroupCovered /\ ExitsCovered /\ AdminsCovered /\ ClosingCovered /\ DropCovered /\ StopInv
  BY DEF Parts
<1>2. TypeInv' /\ UNCHANGED <<scenario, config, entry, row, partial, cached, exiting, group, worker, poll, exits, admins, closing, failures, requests, restarts>>
  BY <1>1, OnPriceUpdateType
<1>3. advanceTrailingSL(p).on = trail.on
  BY TrailingStep
<1>4. /\ order'.qty = order.qty /\ trail'.on = trail.on
      /\ order' # order => (cached /\ trail.on)
      /\ tick' # 0 => cached
  <2>1. order \in OrderSet /\ tick = 0
    BY DEF TypeInv, OnPriceUpdate
  <2>2. advanceTrailingSL(p).sl # trail.sl => trail.on
    BY DEF advanceTrailingSL
  <2>3. \A x : [order EXCEPT !.stopLoss = x].qty = order.qty
    BY <2>1 DEF OrderSet
  <2>4. order'.qty = order.qty
    BY <2>3 DEF OnPriceUpdate
  <2>5. trail'.on = trail.on
    BY <1>3 DEF OnPriceUpdate
  <2>6. order' # order => (cached /\ trail.on)
    BY <2>2 DEF OnPriceUpdate
  <2>7. tick' # 0 => cached
    BY <2>1 DEF OnPriceUpdate
  <2> QED BY <2>4, <2>5, <2>6, <2>7
<1>5. Grows
  BY <1>1, <1>2, <1>3, <1>4, GrowsSame
<1>6. EntryInv'
  BY <1>1, <1>2, <1>3, <1>4, PlaceSame DEF EntryInv, Busy
<1>7. GroupInv'
  BY <1>1, <1>2, GroupSame
<1>8. LevelInv'
  BY <1>1, <1>2, LevelSame
<1>9. AgreeInv'
  BY <1>1, <1>2, <1>3, <1>4 DEF AgreeInv
<1>10. CancelledInv'
  BY <1>1, <1>2, CancelledSame
<1>11. AskedInv'
  BY <1>1, <1>2, AskedSame
<1>12. ClosedInv'
  BY <1>1, <1>2, ClosedSame
<1>13. PricedInv'
  BY <1>1, <1>2, <1>3, <1>4 DEF PricedInv
<1>14. RowCovered'
  BY <1>1, <1>2, <1>3, <1>4, <1>5, RowCoveredSame
<1>15. GroupCovered'
  BY <1>1, <1>2, <1>5, GroupCoveredSame
<1>16. ExitsCovered'
  BY <1>1, <1>2, <1>5, ExitsCoveredSame
<1>17. AdminsCovered'
  BY <1>1, <1>2, <1>5, AdminsCoveredSame
<1>18. ClosingCovered'
  BY <1>1, <1>2, <1>5, ClosingCoveredSame
<1>19. DropCovered'
  BY <1>1, <1>2, <1>5, PlaceSame, DropCoveredSame
<1>20. StopInv'
  <2>1. ActiveLevels("TP")' = ActiveLevels("TP")
    BY <1>2 DEF ActiveLevels
  <2>2. \A i : computeNewSLAfterTP(i)' = computeNewSLAfterTP(i)
    BY <1>2 DEF computeNewSLAfterTP
  <2>3. (Added' <=> Added) /\ (Busy' <=> Busy)
    BY <1>2 DEF Added, Busy
  <2>4. ~Added => ~cached
    BY <1>1 DEF EntryInv
  <2>5. CASE order' = order
    BY <1>1, <1>2, <1>3, <1>4, <2>1, <2>2, <2>3, <2>5 DEF StopInv
  <2>6. CASE order' # order
    BY <1>1, <1>2, <1>3, <1>4, <2>1, <2>2, <2>3, <2>4, <2>6 DEF StopInv
  <2> QED BY <2>5, <2>6
<1> QED BY <1>2, <1>6, <1>7, <1>8, <1>9, <1>10, <1>11, <1>12, <1>13, <1>14, <1>15, <1>16, <1>17, <1>18, <1>19, <1>20 DEF Parts

LEMMA RegisterEntryKeeps ==
    ASSUME TypeInv, Parts, RegisterEntry
    PROVE  TypeInv' /\ Parts'
<1>1. /\ EntryInv /\ GroupInv /\ LevelInv /\ AgreeInv /\ CancelledInv /\ AskedInv /\ ClosedInv /\ PricedInv
      /\ RowCovered /\ GroupCovered /\ ExitsCovered /\ AdminsCovered /\ ClosingCovered /\ DropCovered /\ StopInv
  BY DEF Parts
<1>2. TypeInv' /\ UNCHANGED <<scenario, config, row, partial, cached, order, trail, exiting, jobs, worker, tick, poll, exits, admins, closing, writes, failures, requests, restarts>>
  BY <1>1, RegisterEntryType
<1>3. /\ (Filled' <=> Filled) /\ (Added' <=> Added) /\ entry # 5 /\ entry < 5 /\ entry' < 5
      /\ group'.state = "ACTIVE" /\ group'.filled = FALSE /\ group'.remaining = 0 /\ group'.levels = NoGroup.levels
  <2>1. group' = [NoGroup EXCEPT !.state = "ACTIVE"] /\ Step("register")
    BY DEF RegisterEntry
  <2>2. /\ group'.state = "ACTIVE" /\ group'.filled = FALSE /\ group'.remaining = 0 /\ group'.levels = NoGroup.levels
    BY <2>1 DEF NoGroup
  <2> QED BY <2>1, <2>2, EntryPlaces
<1>4. /\ ~group.filled /\ worker.pc = "idle" /\ ActiveLevels("TP") = {} /\ ActiveLevels("TP")' = {}
      /\ \A a \in Admins : admins[a].pc \notin {"partial", "zero"}
      /\ closing.pc \notin {"partial", "zero"}
  BY <1>3, BeforeFill, NoLevelsNext
<1>5. Grows
  BY <1>1, <1>2, <1>3, <1>4, GrowsSame
<1>6. EntryInv'
  BY <1>1, <1>2, <1>3, <1>4 DEF EntryInv, Busy
<1>7. GroupInv'
  BY <1>1, <1>2, <1>3, <1>4 DEF GroupInv, Busy, Decremented
<1>8. LevelInv'
  BY <1>1, <1>2, <1>3, <1>4 DEF LevelInv
<1>9. AgreeInv'
  BY <1>1, <1>2, <1>3, <1>4 DEF AgreeInv
<1>10. CancelledInv'
  BY <1>1, <1>2, <1>3, <1>4 DEF CancelledInv
<1>11. AskedInv'
  BY <1>1, <1>2, AskedSame
<1>12. ClosedInv'
  BY <1>1, <1>2, ClosedSame
<1>13. PricedInv'
  BY <1>1, <1>2, PricedSame
<1>14. RowCovered'
  BY <1>1, <1>2, <1>5, RowCoveredSame
<1>15. GroupCovered'
  BY <1>1, <1>2, <1>3, <1>4 DEF GroupCovered
<1>16. ExitsCovered'
  BY <1>1, <1>2, <1>5, ExitsCoveredSame
<1>17. AdminsCovered'
  BY <1>1, <1>2, <1>5, AdminsCoveredSame
<1>18. ClosingCovered'
  BY <1>1, <1>2, <1>5, ClosingCoveredSame
<1>19. DropCovered'
  BY <1>1, <1>2, <1>3, <1>4, <1>5, DropCoveredSame
<1>20. StopInv'
  BY <1>1, <1>2, <1>3, <1>4 DEF StopInv, Busy
<1> QED BY <1>2, <1>6, <1>7, <1>8, <1>9, <1>10, <1>11, <1>12, <1>13, <1>14, <1>15, <1>16, <1>17, <1>18, <1>19, <1>20 DEF Parts

LEMMA ExecutePaperOrderKeeps ==
    ASSUME TypeInv, Parts, ExecutePaperOrder
    PROVE  TypeInv' /\ Parts'
<1>1. /\ EntryInv /\ GroupInv /\ LevelInv /\ AgreeInv /\ CancelledInv /\ AskedInv /\ ClosedInv /\ PricedInv
      /\ RowCovered /\ GroupCovered /\ ExitsCovered /\ AdminsCovered /\ ClosingCovered /\ DropCovered /\ StopInv
  BY DEF Parts
<1>2. TypeInv' /\ UNCHANGED <<scenario, config, partial, cached, trail, exiting, group, jobs, worker, tick, poll, exits, admins, closing, writes, requests, restarts>>
  BY <1>1, ExecutePaperOrderType
<1>3. /\ ~Filled /\ Filled' /\ ~Added /\ ~Added' /\ entry # 5 /\ entry' < 5
      /\ order'.qty = Quantity /\ order'.stopLoss = config.stopLoss
  <2>1. Step("fill") /\ order' = [qty |-> Quantity, stopLoss |-> config.stopLoss, takeProfit |-> config.takeProfit]
    BY DEF ExecutePaperOrder
  <2> QED BY <2>1, EntryPlaces
<1>4. /\ row'.closed = row.closed /\ row'.booked = row.booked
      /\ failures' = 0 => failures = 0 /\ row'.priced /\ row'.filled = Quantity /\ row'.status = "FILLED"
      /\ row'.priced => row'.status = "FILLED"
      /\ failures # 0 => failures' # 0
  <2>1. row \in RowSet /\ failures \in Nat /\ ~row.priced
    BY <1>1, <1>3 DEF TypeInv, EntryInv
  <2>2. CASE row' = [row EXCEPT !.status = "FILLED", !.filled = Quantity, !.priced = TRUE] /\ UNCHANGED failures
    BY <2>1, <2>2 DEF RowSet
  <2>3. CASE Fail /\ UNCHANGED row
    BY <2>1, <2>3 DEF Fail
  <2> QED BY <2>2, <2>3 DEF ExecutePaperOrder, Write
<1>5. /\ ~group.filled /\ worker.pc = "idle" /\ ActiveLevels("TP") = {} /\ ActiveLevels("TP")' = {} /\ ~cached
  <2>1. ~group.filled /\ worker.pc = "idle" /\ ActiveLevels("TP") = {} /\ ~cached
    BY <1>1, <1>3, BeforeFill DEF EntryInv
  <2>2. ActiveLevels("TP")' = ActiveLevels("TP")
    BY <1>2 DEF ActiveLevels
  <2> QED BY <2>1, <2>2
<1>6. Grows
  BY <1>1, <1>2, <1>3, <1>4, <1>5, GrowsSame
<1>7. EntryInv'
  BY <1>1, <1>2, <1>3, <1>4, <1>5 DEF EntryInv, Busy
<1>8. GroupInv'
  BY <1>1, <1>2, GroupSame
<1>9. LevelInv'
  BY <1>1, <1>2, LevelSame
<1>10. AgreeInv'
  BY <1>1, <1>2, <1>3, <1>4, <1>5 DEF AgreeInv
<1>11. CancelledInv'
  BY <1>1, <1>2, CancelledSame
<1>12. AskedInv'
  BY <1>1, <1>2, AskedSame
<1>13. ClosedInv'
  BY <1>1, <1>2, <1>3, <1>4, <1>5 DEF ClosedInv
<1>14. PricedInv'
  BY <1>1, <1>2, <1>3, <1>4, <1>5 DEF PricedInv
<1>15. RowCovered'
  <2> SUFFICES ASSUME Sound'
               PROVE  /\ Quantity + Recorded' >= Quantity
                      /\ row'.closed => row'.booked + Recorded' >= Quantity
    BY <1>1, <1>2, <1>3, <1>4, <1>5 DEF RowCovered, Covers, Sound
  <2>1. Sound /\ row.booked \in Nat /\ Recorded' \in Nat /\ Quantity \in Nat
    BY <1>1, <1>2, <1>3, <1>4, <1>5, <1>6, FieldTypes, HandTypesNext DEF Grows
  <2>2. row.closed => row.booked + Recorded' >= Quantity
    BY <1>1, <1>2, <1>3, <1>4, <1>5, <1>6, <2>1, StillCovers DEF RowCovered
  <2>3. Quantity + Recorded' >= Quantity
    BY <2>1, SumAtLeast
  <2> QED BY <1>1, <1>2, <1>3, <1>4, <1>5, <2>2, <2>3
<1>16. GroupCovered'
  BY <1>1, <1>2, <1>6, GroupCoveredSame
<1>17. ExitsCovered'
  BY <1>1, <1>2, <1>6, ExitsCoveredSame
<1>18. AdminsCovered'
  BY <1>1, <1>2, <1>6, AdminsCoveredSame
<1>19. ClosingCovered'
  BY <1>1, <1>2, <1>6, ClosingCoveredSame
<1>20. DropCovered'
  BY <1>1, <1>2, <1>3, <1>4, <1>5 DEF DropCovered
<1>21. StopInv'
  BY <1>1, <1>2, <1>3, <1>4, <1>5, ConfigTypes DEF StopInv, Busy
<1> QED BY <1>2, <1>7, <1>8, <1>9, <1>10, <1>11, <1>12, <1>13, <1>14, <1>15, <1>16, <1>17, <1>18, <1>19, <1>20, <1>21 DEF Parts

LEMMA AddOrderKeeps ==
    ASSUME TypeInv, Parts, AddOrder
    PROVE  TypeInv' /\ Parts'
<1>1. /\ EntryInv /\ GroupInv /\ LevelInv /\ AgreeInv /\ CancelledInv /\ AskedInv /\ ClosedInv /\ PricedInv
      /\ RowCovered /\ GroupCovered /\ ExitsCovered /\ AdminsCovered /\ ClosingCovered /\ DropCovered /\ StopInv
  BY DEF Parts
<1>2. TypeInv' /\ UNCHANGED <<scenario, config, row, partial, order, exiting, group, jobs, worker, tick, poll, exits, admins, closing, writes, failures, requests, restarts>>
  BY <1>1, AddOrderType
<1>3. /\ Filled /\ Filled' /\ ~Added /\ Added' /\ entry # 5 /\ entry < 5 /\ entry' < 5 /\ cached'
  <2>1. Step("add") /\ cached'
    BY DEF AddOrder
  <2> QED BY <2>1, EntryPlaces
<1>4. /\ ~group.filled /\ worker.pc = "idle" /\ ActiveLevels("TP") = {} /\ ActiveLevels("TP")' = {}
  <2>1. ~group.filled /\ worker.pc = "idle" /\ ActiveLevels("TP") = {}
    BY <1>1, <1>3, BeforeFill DEF EntryInv
  <2>2. ActiveLevels("TP")' = ActiveLevels("TP")
    BY <1>2 DEF ActiveLevels
  <2> QED BY <2>1, <2>2
<1>5. Grows
  BY <1>1, <1>2, <1>3, <1>4, GrowsSame
<1>6. EntryInv'
  BY <1>1, <1>2, <1>3, <1>4 DEF EntryInv, Busy
<1>7. GroupInv'
  BY <1>1, <1>2, GroupSame
<1>8. LevelInv'
  BY <1>1, <1>2, LevelSame
<1>9. AgreeInv'
  BY <1>1, <1>2, <1>3, <1>4 DEF AgreeInv
<1>10. CancelledInv'
  BY <1>1, <1>2, CancelledSame
<1>11. AskedInv'
  BY <1>1, <1>2, AskedSame
<1>12. ClosedInv'
  BY <1>1, <1>2, ClosedSame
<1>13. PricedInv'
  BY <1>1, <1>2, <1>3, <1>4 DEF PricedInv, EntryInv
<1>14. RowCovered'
  BY <1>1, <1>2, <1>5, RowCoveredSame
<1>15. GroupCovered'
  BY <1>1, <1>2, <1>5, GroupCoveredSame
<1>16. ExitsCovered'
  BY <1>1, <1>2, <1>5, ExitsCoveredSame
<1>17. AdminsCovered'
  BY <1>1, <1>2, <1>5, AdminsCoveredSame
<1>18. ClosingCovered'
  BY <1>1, <1>2, <1>5, ClosingCoveredSame
<1>19. DropCovered'
  BY <1>1, <1>2, <1>3, <1>4 DEF DropCovered
<1>20. StopInv'
  BY <1>1, <1>2, <1>3, <1>4 DEF StopInv, Busy
<1> QED BY <1>2, <1>6, <1>7, <1>8, <1>9, <1>10, <1>11, <1>12, <1>13, <1>14, <1>15, <1>16, <1>17, <1>18, <1>19, <1>20 DEF Parts

LEMMA OnEntryFillKeeps ==
    ASSUME TypeInv, Parts, OnEntryFill
    PROVE  TypeInv' /\ Parts'
<1>1. /\ EntryInv /\ GroupInv /\ LevelInv /\ AgreeInv /\ CancelledInv /\ AskedInv /\ ClosedInv /\ PricedInv
      /\ RowCovered /\ GroupCovered /\ ExitsCovered /\ AdminsCovered /\ ClosingCovered /\ DropCovered /\ StopInv
  BY DEF Parts
<1>2. TypeInv' /\ UNCHANGED <<scenario, config, row, partial, cached, order, trail, exiting, jobs, worker, tick, poll, exits, admins, closing, writes, failures, requests, restarts>>
  BY <1>1, OnEntryFillType
<1>3. /\ Filled /\ Filled' /\ Added /\ Added' /\ entry # 5 /\ entry < 5 /\ entry' = 5
  <2>1. Step("onfill")
    BY DEF OnEntryFill
  <2> QED BY <2>1, EntryPlaces
<1>4. /\ ~group.filled /\ worker.pc = "idle" /\ ActiveLevels("TP") = {}
      /\ \A a \in Admins : admins[a].pc \notin {"partial", "zero"}
      /\ closing.pc \notin {"partial", "zero"}
  BY <1>3, BeforeFill
<1>5. order.qty = Quantity /\ Quantity \in Nat /\ Quantity # 0 /\ Quantity \in Units
  BY <1>1, <1>3, QuantityAssumption DEF EntryInv, Units
<1>6. \/ group' = group
      \/ /\ group'.filled /\ group'.state = "ACTIVE" /\ group'.remaining = Quantity
         /\ \A s \in Sides : group'.levels[s] = Initially(config.levels[s], Quantity)
  <2>1. CASE group.state = "ACTIVE"
    BY <1>5, <2>1, FilledEffect
  <2>2. CASE group.state # "ACTIVE"
    BY <2>2 DEF OnEntryFill
  <2> QED BY <2>1, <2>2
<1>7. Grows
  BY <1>1, <1>2, <1>3, <1>4, <1>5, <1>6, GrowsSame
<1>8. EntryInv'
  <2>1. CASE group' = group
    BY <1>1, <1>2, <1>3, <1>4, <1>5, <1>6, <2>1 DEF EntryInv, Busy
  <2>2. CASE /\ group'.filled /\ group'.state = "ACTIVE" /\ group'.remaining = Quantity
             /\ \A s \in Sides : group'.levels[s] = Initially(config.levels[s], Quantity)
    BY <1>1, <1>2, <1>3, <1>4, <1>5, <1>6, <2>2 DEF EntryInv, Busy
  <2> QED BY <1>6, <2>1, <2>2
<1>9. GroupInv'
  <2>1. CASE group' = group
    BY <1>1, <1>2, <1>3, <1>4, <1>5, <1>6, <2>1, GroupSame
  <2>2. CASE /\ group'.filled /\ group'.state = "ACTIVE" /\ group'.remaining = Quantity
             /\ \A s \in Sides : group'.levels[s] = Initially(config.levels[s], Quantity)
    <3>1. \A s \in Sides : DOMAIN group'.levels[s] = 1..Len(config.levels[s])
      BY <1>5, <2>2, ConfigTypes, InitialLevels
    <3> QED BY <1>1, <1>2, <1>3, <1>4, <1>5, <1>6, <2>2, <3>1 DEF GroupInv, Busy, Decremented
  <2> QED BY <1>6, <2>1, <2>2
<1>10. LevelInv'
  <2>1. CASE group' = group
    BY <1>1, <1>2, <1>3, <1>4, <1>5, <1>6, <2>1, LevelSame
  <2>2. CASE /\ group'.filled /\ group'.state = "ACTIVE" /\ group'.remaining = Quantity
             /\ \A s \in Sides : group'.levels[s] = Initially(config.levels[s], Quantity)
    <3> SUFFICES ASSUME NEW s \in Sides, config.levels[s] # <<>> PROVE LevelUnits(s)' = Quantity
      BY <1>1, <1>2, <1>3, <1>4, <1>5, <1>6, <2>2 DEF LevelInv, Expected
    <3>1. config.levels[s] \in LevelSeq
      BY ConfigTypes
    <3>2. LevelSum(Initially(config.levels[s], Quantity)) = Quantity
      BY <1>5, <3>1, InitialLevels
    <3> QED BY <2>2, <3>2, UnitsOfSideNext
  <2> QED BY <1>6, <2>1, <2>2
<1>11. AgreeInv'
  <2>1. CASE group' = group
    BY <1>1, <1>2, <1>3, <1>4, <1>5, <1>6, <2>1, AgreeSame
  <2>2. CASE /\ group'.filled /\ group'.state = "ACTIVE" /\ group'.remaining = Quantity
             /\ \A s \in Sides : group'.levels[s] = Initially(config.levels[s], Quantity)
    BY <1>1, <1>2, <1>3, <1>4, <1>5, <1>6, <2>2 DEF AgreeInv, EntryInv
  <2> QED BY <1>6, <2>1, <2>2
<1>12. CancelledInv'
  BY <1>1, <1>2, <1>3, <1>4, <1>5, <1>6 DEF CancelledInv
<1>13. AskedInv'
  BY <1>1, <1>2, AskedSame
<1>14. ClosedInv'
  BY <1>1, <1>2, ClosedSame
<1>15. PricedInv'
  BY <1>1, <1>2, PricedSame
<1>16. RowCovered'
  BY <1>1, <1>2, <1>7, RowCoveredSame
<1>17. GroupCovered'
  <2>1. CASE group' = group
    BY <1>1, <1>2, <1>3, <1>4, <1>5, <1>6, <1>7, <2>1, GroupCoveredSame
  <2>2. CASE /\ group'.filled /\ group'.state = "ACTIVE" /\ group'.remaining = Quantity
             /\ \A s \in Sides : group'.levels[s] = Initially(config.levels[s], Quantity)
    <3>1. Quantity + partial' + InHand' >= Quantity
      BY <1>1, <1>2, <1>3, <1>4, <1>5, <1>6, HandTypesNext, SumAtLeast
    <3> QED BY <2>2, <3>1 DEF GroupCovered, CoversAll
  <2> QED BY <1>6, <2>1, <2>2
<1>18. ExitsCovered'
  BY <1>1, <1>2, <1>7, ExitsCoveredSame
<1>19. AdminsCovered'
  BY <1>1, <1>2, <1>7, AdminsCoveredSame
<1>20. ClosingCovered'
  BY <1>1, <1>2, <1>7, ClosingCoveredSame
<1>21. DropCovered'
  BY <1>1, <1>2, <1>3, <1>4, <1>5, <1>6, <1>7, DropCoveredSame
<1>22. StopInv'
  <2>1. \A i : computeNewSLAfterTP(i)' = computeNewSLAfterTP(i)
    BY <1>2 DEF computeNewSLAfterTP
  <2>2. \A i \in ActiveLevels("TP")' : i \in 1..Len(config.levels["TP"])
    <3>1. CASE group' = group
      BY <1>4, <3>1 DEF ActiveLevels
    <3>2. CASE /\ group'.filled /\ group'.state = "ACTIVE" /\ group'.remaining = Quantity
               /\ \A s \in Sides : group'.levels[s] = Initially(config.levels[s], Quantity)
      <4>1. "TP" \in Sides /\ config.levels["TP"] \in LevelSeq
        BY ActorNames, ConfigTypes
      <4>2. DOMAIN group'.levels["TP"] = 1..Len(config.levels["TP"])
        BY <1>5, <3>2, <4>1, InitialLevels
      <4> QED BY <4>2 DEF ActiveLevels
    <3> QED BY <1>6, <3>1, <3>2
  <2>3. (cached /\ ~trail.on) => order.stopLoss <= FillPrice
    BY <1>1, <1>2, <1>3, <1>4, <1>5, <1>6 DEF StopInv
  <2>4. \A i \in 1..Len(config.levels["TP"]) : (cached /\ ~trail.on) => order.stopLoss <= computeNewSLAfterTP(i)
    <3> TAKE i \in 1..Len(config.levels["TP"])
    <3>1. computeNewSLAfterTP(i) \in Nat /\ FillPrice <= computeNewSLAfterTP(i) /\ order.stopLoss \in Nat /\ FillPrice \in Nat
      BY NewStopType, FieldTypes
    <3> QED BY <2>3, <3>1
  <2>5. ~Busy' /\ ~(entry' < 5)
    BY <1>1, <1>2, <1>3, <1>4, <1>5, <1>6 DEF Busy
  <2> QED BY <1>1, <1>2, <1>3, <1>4, <1>5, <1>6, <2>1, <2>2, <2>4, <2>5 DEF StopInv
<1> QED BY <1>2, <1>8, <1>9, <1>10, <1>11, <1>12, <1>13, <1>14, <1>15, <1>16, <1>17, <1>18, <1>19, <1>20, <1>21, <1>22 DEF Parts

LEMMA EvalSkipKeeps ==
    ASSUME TypeInv, Parts, NEW p \in Prices, runEvalJob(p), UNCHANGED <<group, worker>>
    PROVE  TypeInv' /\ Parts'
<1>1. /\ EntryInv /\ GroupInv /\ LevelInv /\ AgreeInv /\ CancelledInv /\ AskedInv /\ ClosedInv /\ PricedInv
      /\ RowCovered /\ GroupCovered /\ ExitsCovered /\ AdminsCovered /\ ClosingCovered /\ DropCovered /\ StopInv
  BY DEF Parts
<1>2. TypeInv' /\ UNCHANGED <<scenario, config, entry, row, partial, cached, order, trail, exiting, group, worker, tick, poll, exits, admins, closing, writes, failures, requests, restarts>>
  BY <1>1, runEvalJobType
<1>3. Grows
  BY <1>1, <1>2, GrowsSame
<1>4. EntryInv'
  BY <1>1, <1>2, EntrySame
<1>5. GroupInv'
  BY <1>1, <1>2, GroupSame
<1>6. LevelInv'
  BY <1>1, <1>2, LevelSame
<1>7. AgreeInv'
  BY <1>1, <1>2, AgreeSame
<1>8. CancelledInv'
  BY <1>1, <1>2, CancelledSame
<1>9. AskedInv'
  BY <1>1, <1>2, AskedSame
<1>10. ClosedInv'
  BY <1>1, <1>2, ClosedSame
<1>11. PricedInv'
  BY <1>1, <1>2, PricedSame
<1>12. RowCovered'
  BY <1>1, <1>2, <1>3, RowCoveredSame
<1>13. GroupCovered'
  BY <1>1, <1>2, <1>3, GroupCoveredSame
<1>14. ExitsCovered'
  BY <1>1, <1>2, <1>3, ExitsCoveredSame
<1>15. AdminsCovered'
  BY <1>1, <1>2, <1>3, AdminsCoveredSame
<1>16. ClosingCovered'
  BY <1>1, <1>2, <1>3, ClosingCoveredSame
<1>17. DropCovered'
  BY <1>1, <1>2, <1>3, PlaceSame, DropCoveredSame
<1>18. StopInv'
  BY <1>1, <1>2, StopSame
<1> QED BY <1>2, <1>4, <1>5, <1>6, <1>7, <1>8, <1>9, <1>10, <1>11, <1>12, <1>13, <1>14, <1>15, <1>16, <1>17, <1>18 DEF Parts

LEMMA EvaluateKeeps ==
    ASSUME TypeInv, Parts, NEW s \in Sides, NEW k \in ActiveOf(group.levels[s]), Evaluated(s, k),
           worker.pc = "idle", group.state = "ACTIVE", TypeInv',
           UNCHANGED <<scenario, config, entry, row, partial, cached, order, trail, exiting, tick, poll, exits, admins, closing, writes, failures, requests, restarts>>
    PROVE  TypeInv' /\ Parts'
<1>1. /\ EntryInv /\ GroupInv /\ LevelInv /\ AgreeInv /\ CancelledInv /\ AskedInv /\ ClosedInv /\ PricedInv
      /\ RowCovered /\ GroupCovered /\ ExitsCovered /\ AdminsCovered /\ ClosingCovered /\ DropCovered /\ StopInv
  BY DEF Parts
<1>2. TypeInv' /\ UNCHANGED <<scenario, config, entry, row, partial, cached, order, trail, exiting, tick, poll, exits, admins, closing, writes, failures, requests, restarts>>
  OBVIOUS
<1>3. /\ group'.state = group.state /\ group'.filled = group.filled /\ group'.remaining = group.remaining
      /\ group'.levels[s] = SwitchedOff(group.levels[s], k)
      /\ \A z \in Sides : z # s => group'.levels[z] = group.levels[z]
      /\ worker'.pc = "decrement" /\ worker'.side = s /\ worker'.level = k
      /\ worker'.qty = group.levels[s][k].qty
  BY EvaluatedEffect
<1>4. /\ group.levels[s] \in Seq(LevelSet) /\ k \in DOMAIN group.levels[s] /\ group.filled
      /\ k \in 1..Len(config.levels[s])
  <2>1. group.levels[s] \in Seq(LevelSet)
    BY LevelsOfSide
  <2>2. k \in DOMAIN group.levels[s]
    BY <2>1, LevelFacts
  <2> QED BY <1>1, <2>1, <2>2, LevelsFilled
<1>5. /\ DOMAIN group'.levels[s] = DOMAIN group.levels[s]
      /\ ActiveOf(group'.levels[s]) = ActiveOf(group.levels[s]) \ {k}
      /\ LevelSum(group'.levels[s]) = LevelSum(group.levels[s]) - group.levels[s][k].qty
  BY <1>3, <1>4, LevelOff
<1>6. group.remaining \in Nat /\ group.remaining > 0 /\ entry = 5
  <2>1. group.remaining \in Nat /\ group.remaining # 0 /\ entry = 5
    BY <1>1, <1>4, FieldTypes DEF GroupInv, EntryInv
  <2> QED BY <2>1
<1>7. Grows
  <2>1. Sound' => Sound
    BY <1>2 DEF Sound, MayLoseUnits
  <2>2. InHand' = 0 /\ InHand = 0
    BY <1>3 DEF InHand
  <2>3. Recorded' = Recorded /\ Everything' = Everything
    BY <1>2, <2>2 DEF Recorded, Everything, Forced
  <2> QED BY <2>1, <2>3, HandTypes DEF Grows
<1>8. EntryInv'
  BY <1>1, <1>2, <1>3, <1>4, <1>5, <1>6, PlaceSame DEF EntryInv, Busy
<1>9. GroupInv'
  <2>1. \A z \in Sides : DOMAIN group'.levels[z] = 1..Len(config.levels[z])
    BY <1>1, <1>3, <1>4, <1>5, LevelsFilled
  <2> QED BY <1>1, <1>2, <1>3, <1>4, <1>5, <1>6, <2>1 DEF GroupInv, Busy, Decremented
<1>10. LevelInv'
  <2> SUFFICES ASSUME NEW z \in Sides, config.levels[z] # <<>> PROVE LevelUnits(z)' = Expected(z)'
    BY <1>2 DEF LevelInv
  <2>1. LevelUnits(z) = group.remaining
    BY <1>1, <1>2, <1>3, <1>4, <1>5, <1>6 DEF LevelInv, Expected
  <2>2. CASE z = s
    <3>1. Expected(z)' = group.remaining + (-group.levels[s][k].qty)
      BY <1>3, <2>2 DEF Expected
    <3>2. group.levels[s][k].qty \in Nat
      BY <1>4, LevelFacts
    <3>3. LevelUnits(z)' = group.remaining - group.levels[s][k].qty
      BY <1>5, <2>1, <2>2, UnitsOfSide, UnitsOfSideNext
    <3> QED BY <1>6, <3>1, <3>2, <3>3
  <2>3. CASE z # s
    <3>1. Expected(z)' = group.remaining
      BY <1>3, <1>6, <2>3 DEF Expected
    <3>2. LevelUnits(z)' = LevelUnits(z)
      BY <1>3, <2>3, UnitsOfSide, UnitsOfSideNext
    <3> QED BY <2>1, <3>1, <3>2
  <2> QED BY <2>2, <2>3
<1>11. AgreeInv'
  BY <1>1, <1>2, <1>3, <1>4, <1>5, <1>6 DEF AgreeInv
<1>12. CancelledInv'
  BY <1>1, <1>2, <1>3, <1>4, <1>5, <1>6 DEF CancelledInv
<1>13. AskedInv'
  BY <1>1, <1>2, AskedSame
<1>14. ClosedInv'
  BY <1>1, <1>2, ClosedSame
<1>15. PricedInv'
  BY <1>1, <1>2, PricedSame
<1>16. RowCovered'
  BY <1>1, <1>2, <1>7, RowCoveredSame
<1>17. GroupCovered'
  BY <1>1, <1>2, <1>3, <1>4, <1>5, <1>6, <1>7, GroupCoveredSame
<1>18. ExitsCovered'
  BY <1>1, <1>2, <1>7, ExitsCoveredSame
<1>19. AdminsCovered'
  BY <1>1, <1>2, <1>7, AdminsCoveredSame
<1>20. ClosingCovered'
  BY <1>1, <1>2, <1>7, ClosingCoveredSame
<1>21. DropCovered'
  BY <1>1, <1>2, <1>7, PlaceSame, DropCoveredSame
<1>22. StopInv'
  <2>1. \A i : computeNewSLAfterTP(i)' = computeNewSLAfterTP(i)
    BY <1>2 DEF computeNewSLAfterTP
  <2>2. "TP" \in Sides /\ Added /\ Added' /\ ~(entry' < 5)
    BY <1>2, <1>6, ActorNames, PlaceAtEnd
  <2>3. \A i \in ActiveLevels("TP")' : i \in ActiveLevels("TP") /\ (s = "TP" => i # k)
    <3>1. CASE s = "TP"
      BY <1>5, <3>1, UnitsOfSide, UnitsOfSideNext
    <3>2. CASE s # "TP"
      BY <1>3, <2>2, <3>2, UnitsOfSide, UnitsOfSideNext
    <3> QED BY <3>1, <3>2
  <2>4. s = "TP" => k \in ActiveLevels("TP")
    BY UnitsOfSide
  <2>5. s = "TP" => \A i \in ActiveLevels("TP")' : k < i
    <3> SUFFICES ASSUME s = "TP", NEW i \in ActiveLevels("TP")' PROVE k < i
      OBVIOUS
    <3>1. k <= i /\ i # k
      BY <2>3, UnitsOfSide DEF Evaluated
    <3>2. i \in Nat /\ k \in Nat
      BY <1>4, <2>3, UnitsOfSide, LevelFacts
    <3> QED BY <3>1, <3>2
  <2>6. (cached /\ ~trail.on) => \A i \in ActiveLevels("TP") : order.stopLoss <= computeNewSLAfterTP(i)
    BY <1>1 DEF StopInv
  <2> QED BY <1>2, <1>3, <2>1, <2>2, <2>3, <2>4, <2>5, <2>6 DEF StopInv
<1> QED BY <1>2, <1>8, <1>9, <1>10, <1>11, <1>12, <1>13, <1>14, <1>15, <1>16, <1>17, <1>18, <1>19, <1>20, <1>21, <1>22 DEF Parts

LEMMA runEvalJobKeeps ==
    ASSUME TypeInv, Parts, NEW p \in Prices, runEvalJob(p)
    PROVE  TypeInv' /\ Parts'
<1>1. EntryInv /\ GroupInv
  BY DEF Parts
<1>2. TypeInv' /\ UNCHANGED <<scenario, config, entry, row, partial, cached, order, trail, exiting, tick, poll, exits, admins, closing, writes, failures, requests, restarts>>
  BY <1>1, runEvalJobType
<1>3. CASE UNCHANGED <<group, worker>>
  BY <1>3, EvalSkipKeeps
<1>4. CASE worker.pc = "idle" /\ group.state = "ACTIVE" /\ evaluateLevels(p)
  <2>1. ASSUME NEW s \in Sides, NEW k \in ActiveOf(group.levels[s]), Evaluated(s, k)
        PROVE  TypeInv' /\ Parts'
    BY <1>2, <1>4, <2>1, EvaluateKeeps
  <2> QED BY <1>1, <1>3, <1>4, <2>1, EvaluatedLevel
<1> QED BY <1>3, <1>4 DEF runEvalJob

LEMMA recordPaperExitKeeps ==
    ASSUME TypeInv, Parts, recordPaperExit
    PROVE  TypeInv' /\ Parts'
<1>1. /\ EntryInv /\ GroupInv /\ LevelInv /\ AgreeInv /\ CancelledInv /\ AskedInv /\ ClosedInv /\ PricedInv
      /\ RowCovered /\ GroupCovered /\ ExitsCovered /\ AdminsCovered /\ ClosingCovered /\ DropCovered /\ StopInv
  BY DEF Parts
<1>2. TypeInv' /\ UNCHANGED <<scenario, config, entry, row, partial, cached, order, trail, exiting, jobs, tick, poll, exits, admins, closing, writes, failures, requests, restarts>>
  BY <1>1, recordPaperExitType
<1>3. /\ worker.pc = "decrement" /\ group.filled /\ worker.qty <= group.remaining /\ entry = 5
  <2>1. worker.pc = "decrement"
    BY DEF recordPaperExit
  <2> QED BY <1>1, <2>1, WorkerQuantity, WhenBusy
<1>4. /\ worker.qty \in Nat /\ group.remaining \in Nat /\ worker.side \in Sides
  BY FieldTypes
<1>5. /\ group'.filled = group.filled /\ group'.levels = group.levels /\ group'.remaining = group.remaining - worker.qty
      /\ group.remaining - worker.qty <= 0 => group'.state = "COMPLETED"
      /\ ~(group.remaining - worker.qty <= 0) => group'.state = group.state
      /\ worker'.pc = "partial" /\ worker'.side = worker.side /\ worker'.level = worker.level
      /\ worker'.qty = worker.qty /\ worker'.remaining = group.remaining - worker.qty
  <2>1. group \in GroupSet /\ worker \in WorkerSet
    BY DEF TypeInv
  <2> QED BY <2>1 DEF recordPaperExit, Remaining, GroupSet, WorkerSet
<1>6. Grows
  <2>1. Sound' => Sound
    BY <1>2 DEF Sound, MayLoseUnits
  <2>2. InHand' = worker.qty /\ InHand = 0
    BY <1>3, <1>5 DEF InHand
  <2>3. Recorded' = partial + (IF Forced THEN worker.qty ELSE 0) /\ Everything' = partial + worker.qty
    BY <1>2, <2>2 DEF Recorded, Everything, Forced
  <2>4. Recorded = partial /\ Everything = partial /\ partial \in Nat
    BY <2>2, HandTypes
  <2>5. Recorded' >= Recorded /\ Everything' >= Everything
    BY <1>4, <2>3, <2>4
  <2> QED BY <2>1, <2>5 DEF Grows
<1>7. EntryInv'
  BY <1>1, <1>2, <1>3, <1>4, <1>5, PlaceAtEnd DEF EntryInv, Busy
<1>8. GroupInv'
  <2>1. (group'.remaining = 0 <=> group'.state = "COMPLETED") /\ group'.state # "NONE"
    BY <1>1, <1>2, <1>3, <1>4, <1>5 DEF GroupInv
  <2> QED BY <1>1, <1>2, <1>3, <1>4, <1>5, <2>1 DEF GroupInv, Busy, Decremented
<1>9. LevelInv'
  <2> SUFFICES ASSUME NEW z \in Sides, config.levels[z] # <<>> PROVE LevelUnits(z)' = Expected(z)'
    BY <1>2 DEF LevelInv
  <2>1. LevelUnits(z) = Expected(z)
    BY <1>1, <1>2, <1>3, <1>4, <1>5 DEF LevelInv
  <2>2. Expected(z)' = Expected(z)
    BY <1>3, <1>4, <1>5 DEF Expected
  <2>3. LevelUnits(z)' = LevelUnits(z)
    BY <1>5, UnitsOfSide, UnitsOfSideNext
  <2> QED BY <2>1, <2>2, <2>3
<1>10. AgreeInv'
  BY <1>1, <1>2, <1>3, <1>4, <1>5 DEF AgreeInv
<1>11. CancelledInv'
  BY <1>1, <1>2, <1>3, <1>4, <1>5 DEF CancelledInv
<1>12. AskedInv'
  BY <1>1, <1>2, AskedSame
<1>13. ClosedInv'
  BY <1>1, <1>2, ClosedSame
<1>14. PricedInv'
  BY <1>1, <1>2, PricedSame
<1>15. RowCovered'
  BY <1>1, <1>2, <1>6, RowCoveredSame
<1>16. GroupCovered'
  <2> SUFFICES ASSUME Sound' PROVE (group.remaining - worker.qty) + partial' + InHand' >= Quantity
    BY <1>5 DEF GroupCovered, CoversAll
  <2>1. InHand' = worker.qty /\ InHand = 0 /\ partial' = partial /\ partial \in Nat /\ Quantity \in Nat
    BY <1>2, <1>3, <1>5, HandTypes DEF InHand
  <2>2. group.remaining + partial + 0 >= Quantity
    BY <1>1, <1>3, <1>6, <2>1 DEF GroupCovered, CoversAll, Grows
  <2>3. (group.remaining - worker.qty) + partial + worker.qty >= Quantity
    BY <1>4, <2>1, <2>2
  <2> QED BY <2>1, <2>3
<1>17. ExitsCovered'
  BY <1>1, <1>2, <1>6, ExitsCoveredSame
<1>18. AdminsCovered'
  BY <1>1, <1>2, <1>6, AdminsCoveredSame
<1>19. ClosingCovered'
  BY <1>1, <1>2, <1>6, ClosingCoveredSame
<1>20. DropCovered'
  BY <1>1, <1>2, <1>6, PlaceSame, DropCoveredSame
<1>21. StopInv'
  <2>1. ActiveLevels("TP")' = ActiveLevels("TP") /\ \A i : computeNewSLAfterTP(i)' = computeNewSLAfterTP(i)
    BY <1>2, <1>5 DEF ActiveLevels, computeNewSLAfterTP
  <2>2. (Added' <=> Added) /\ Busy' /\ Busy
    BY <1>2, <1>3, <1>5 DEF Added, Busy
  <2> QED BY <1>1, <1>2, <1>5, <2>1, <2>2 DEF StopInv
<1> QED BY <1>2, <1>7, <1>8, <1>9, <1>10, <1>11, <1>12, <1>13, <1>14, <1>15, <1>16, <1>17, <1>18, <1>19, <1>20, <1>21 DEF Parts

LEMMA WorkerPartialExitKeeps ==
    ASSUME TypeInv, Parts, WorkerPartialExit
    PROVE  TypeInv' /\ Parts'
<1>1. /\ EntryInv /\ GroupInv /\ LevelInv /\ AgreeInv /\ CancelledInv /\ AskedInv /\ ClosedInv /\ PricedInv
      /\ RowCovered /\ GroupCovered /\ ExitsCovered /\ AdminsCovered /\ ClosingCovered /\ DropCovered /\ StopInv
  BY DEF Parts
<1>2. TypeInv' /\ UNCHANGED <<scenario, config, entry, row, cached, order, trail, exiting, group, jobs, tick, poll, exits, admins, closing, writes, requests, restarts>>
  BY <1>1, WorkerPartialExitType
<1>3. /\ worker.pc = "partial" /\ group.filled /\ entry = 5 /\ worker.qty \in Nat
  <2>1. worker.pc = "partial"
    BY DEF WorkerPartialExit
  <2> QED BY <2>1, WhenBusy, FieldTypes
<1>4. /\ worker'.pc = "row" /\ worker'.side = worker.side /\ worker'.level = worker.level
      /\ worker'.qty = worker.qty /\ worker'.remaining = worker.remaining
  <2>1. worker \in WorkerSet
    BY DEF TypeInv
  <2> QED BY <2>1 DEF WorkerPartialExit, WorkerSet
<1>5. /\ failures' = 0 => failures = 0 /\ partial' = partial + worker.qty
      /\ failures # 0 => failures' # 0
  <2>1. failures \in Nat /\ partial \in Nat
    BY DEF TypeInv
  <2>2. recordPaperPartialExit(worker.qty)
    BY DEF WorkerPartialExit
  <2> QED BY <1>3, <2>1, <2>2 DEF recordPaperPartialExit, Fail
<1>6. Grows
  <2>1. Sound' => (Sound /\ partial' = partial + worker.qty)
    BY <1>2, <1>5 DEF Sound, MayLoseUnits
  <2>2. InHand' = 0 /\ InHand = worker.qty
    BY <1>3, <1>4 DEF InHand
  <2>3. Recorded = partial + (IF Forced THEN worker.qty ELSE 0) /\ Everything = partial + worker.qty /\ partial \in Nat
    BY <2>2, HandTypes DEF Recorded, Everything
  <2>4. Recorded' = partial' /\ Everything' = partial'
    BY <1>2, <2>2, HandTypesNext
  <2>5. Sound' => (Recorded' >= Recorded /\ Everything' >= Everything)
    BY <1>3, <2>1, <2>3, <2>4
  <2> QED BY <2>1, <2>5 DEF Grows
<1>7. EntryInv'
  BY <1>1, <1>2, <1>3, <1>4, <1>5, PlaceSame, PlaceAtEnd DEF EntryInv, Busy
<1>8. GroupInv'
  BY <1>1, <1>2, <1>3, <1>4, <1>5 DEF GroupInv, Busy, Decremented
<1>9. LevelInv'
  <2> SUFFICES ASSUME NEW z \in Sides, config.levels[z] # <<>> PROVE LevelUnits(z)' = Expected(z)'
    BY <1>2 DEF LevelInv
  <2>1. LevelUnits(z) = Expected(z)
    BY <1>1, <1>2, <1>3, <1>4, <1>5 DEF LevelInv
  <2>2. Expected(z)' = Expected(z)
    BY <1>2, <1>3, <1>4 DEF Expected
  <2>3. LevelUnits(z)' = LevelUnits(z)
    BY <1>2, UnitsOfSide, UnitsOfSideNext
  <2> QED BY <2>1, <2>2, <2>3
<1>10. AgreeInv'
  BY <1>1, <1>2, <1>3, <1>4, <1>5 DEF AgreeInv
<1>11. CancelledInv'
  BY <1>1, <1>2, CancelledSame
<1>12. AskedInv'
  BY <1>1, <1>2, AskedSame
<1>13. ClosedInv'
  BY <1>1, <1>2, <1>3, <1>4, <1>5 DEF ClosedInv
<1>14. PricedInv'
  BY <1>1, <1>2, <1>3, <1>4, <1>5 DEF PricedInv
<1>15. RowCovered'
  BY <1>1, <1>2, <1>6, RowCoveredSame
<1>16. GroupCovered'
  BY <1>1, <1>2, <1>6, GroupCoveredSame
<1>17. ExitsCovered'
  BY <1>1, <1>2, <1>6, ExitsCoveredSame
<1>18. AdminsCovered'
  BY <1>1, <1>2, <1>6, AdminsCoveredSame
<1>19. ClosingCovered'
  BY <1>1, <1>2, <1>6, ClosingCoveredSame
<1>20. DropCovered'
  BY <1>1, <1>2, <1>6, PlaceSame, DropCoveredSame
<1>21. StopInv'
  <2>1. ActiveLevels("TP")' = ActiveLevels("TP") /\ \A i : computeNewSLAfterTP(i)' = computeNewSLAfterTP(i)
    BY <1>2 DEF ActiveLevels, computeNewSLAfterTP
  <2>2. (Added' <=> Added) /\ Busy' /\ Busy
    BY <1>2, <1>3, <1>4 DEF Added, Busy
  <2> QED BY <1>1, <1>2, <1>4, <2>1, <2>2 DEF StopInv
<1> QED BY <1>2, <1>7, <1>8, <1>9, <1>10, <1>11, <1>12, <1>13, <1>14, <1>15, <1>16, <1>17, <1>18, <1>19, <1>20, <1>21 DEF Parts

LEMMA WorkerUpdateFilledQtyKeeps ==
    ASSUME TypeInv, Parts, WorkerUpdateFilledQty
    PROVE  TypeInv' /\ Parts'
<1>1. /\ EntryInv /\ GroupInv /\ LevelInv /\ AgreeInv /\ CancelledInv /\ AskedInv /\ ClosedInv /\ PricedInv
      /\ RowCovered /\ GroupCovered /\ ExitsCovered /\ AdminsCovered /\ ClosingCovered /\ DropCovered /\ StopInv
  BY DEF Parts
<1>2. TypeInv' /\ UNCHANGED <<scenario, config, entry, partial, cached, order, trail, exiting, group, jobs, tick, poll, exits, admins, closing, writes, requests, restarts>>
  BY <1>1, WorkerUpdateFilledQtyType
<1>3. /\ worker.pc = "row" /\ group.filled /\ entry = 5 /\ worker.remaining = group.remaining
  <2>1. worker.pc = "row"
    BY DEF WorkerUpdateFilledQty
  <2> QED BY <1>1, <2>1, WhenBusy DEF GroupInv, Decremented
<1>4. /\ worker'.pc = "cache" /\ worker'.side = worker.side /\ worker'.level = worker.level
      /\ worker'.qty = worker.qty /\ worker'.remaining = worker.remaining
  <2>1. worker \in WorkerSet
    BY DEF TypeInv
  <2> QED BY <2>1 DEF WorkerUpdateFilledQty, WorkerSet
<1>5. /\ row'.status = row.status /\ row'.priced = row.priced /\ row'.closed = row.closed /\ row'.booked = row.booked
      /\ failures' = 0 => failures = 0 /\ row'.filled = worker.remaining
      /\ failures # 0 => failures' # 0
  <2>1. row \in RowSet /\ failures \in Nat
    BY DEF TypeInv
  <2>2. CASE row' = [row EXCEPT !.filled = worker.remaining] /\ UNCHANGED failures
    BY <2>1, <2>2 DEF RowSet
  <2>3. CASE Fail /\ UNCHANGED row
    BY <2>1, <2>3 DEF Fail
  <2> QED BY <2>2, <2>3 DEF WorkerUpdateFilledQty, Write
<1>6. Grows
  <2>1. Sound' => Sound
    BY <1>2, <1>5 DEF Sound, MayLoseUnits
  <2>2. InHand' = 0 /\ InHand = 0
    BY <1>3, <1>4 DEF InHand
  <2>3. Recorded' = Recorded /\ Everything' = Everything
    BY <1>2, <2>2 DEF Recorded, Everything, Forced
  <2> QED BY <2>1, <2>3, HandTypes DEF Grows
<1>7. EntryInv'
  BY <1>1, <1>2, <1>3, <1>4, <1>5, PlaceSame, PlaceAtEnd DEF EntryInv, Busy
<1>8. GroupInv'
  BY <1>1, <1>2, <1>3, <1>4, <1>5 DEF GroupInv, Busy, Decremented
<1>9. LevelInv'
  <2> SUFFICES ASSUME NEW z \in Sides, config.levels[z] # <<>> PROVE LevelUnits(z)' = Expected(z)'
    BY <1>2 DEF LevelInv
  <2>1. LevelUnits(z) = Expected(z)
    BY <1>1, <1>2, <1>3, <1>4, <1>5 DEF LevelInv
  <2>2. Expected(z)' = Expected(z)
    BY <1>2, <1>3, <1>4 DEF Expected
  <2>3. LevelUnits(z)' = LevelUnits(z)
    BY <1>2, UnitsOfSide, UnitsOfSideNext
  <2> QED BY <2>1, <2>2, <2>3
<1>10. AgreeInv'
  BY <1>1, <1>2, <1>3, <1>4, <1>5, FieldTypes DEF AgreeInv
<1>11. CancelledInv'
  BY <1>1, <1>2, CancelledSame
<1>12. AskedInv'
  BY <1>1, <1>2, AskedSame
<1>13. ClosedInv'
  BY <1>1, <1>2, <1>3, <1>4, <1>5 DEF ClosedInv
<1>14. PricedInv'
  BY <1>1, <1>2, <1>3, <1>4, <1>5 DEF PricedInv
<1>15. RowCovered'
  <2> SUFFICES ASSUME Sound'
               PROVE  /\ row.priced => (group.remaining + Recorded' >= Quantity /\ order.qty + Recorded' >= Quantity)
                      /\ row.closed => row.booked + Recorded' >= Quantity
    BY <1>1, <1>2, <1>3, <1>4, <1>5 DEF RowCovered, Covers, Sound
  <2>1. Sound /\ row.booked \in Nat /\ order.qty \in Nat /\ group.remaining \in Nat
    BY <1>6, FieldTypes DEF Grows
  <2>2. row.closed => row.booked + Recorded' >= Quantity
    BY <1>1, <1>2, <1>3, <1>4, <1>5, <1>6, <2>1, StillCovers DEF RowCovered
  <2>3. row.priced => order.qty + Recorded' >= Quantity
    BY <1>1, <1>2, <1>3, <1>4, <1>5, <1>6, <2>1, StillCovers DEF RowCovered
  <2>4. Covers(group.remaining)
    <3>1. CoversAll(group.remaining)
      BY <1>1, <1>3, <2>1 DEF GroupCovered
    <3>2. InHand = 0
      BY <1>3 DEF InHand
    <3>3. Everything = Recorded
      BY <3>2, HandTypes
    <3> QED BY <2>1, <3>1, <3>3, CoversIs
  <2>5. group.remaining + Recorded' >= Quantity
    BY <1>1, <1>2, <1>3, <1>4, <1>5, <1>6, <2>1, <2>4, StillCovers
  <2> QED BY <2>2, <2>3, <2>5
<1>16. GroupCovered'
  BY <1>1, <1>2, <1>6, GroupCoveredSame
<1>17. ExitsCovered'
  BY <1>1, <1>2, <1>6, ExitsCoveredSame
<1>18. AdminsCovered'
  BY <1>1, <1>2, <1>6, AdminsCoveredSame
<1>19. ClosingCovered'
  BY <1>1, <1>2, <1>6, ClosingCoveredSame
<1>20. DropCovered'
  BY <1>1, <1>2, <1>3, <1>4, <1>5, <1>6, PlaceSame, DropCoveredSame
<1>21. StopInv'
  <2>1. ActiveLevels("TP")' = ActiveLevels("TP") /\ \A i : computeNewSLAfterTP(i)' = computeNewSLAfterTP(i)
    BY <1>2 DEF ActiveLevels, computeNewSLAfterTP
  <2>2. (Added' <=> Added) /\ Busy' /\ Busy
    BY <1>2, <1>3, <1>4 DEF Added, Busy
  <2> QED BY <1>1, <1>2, <1>4, <2>1, <2>2 DEF StopInv
<1> QED BY <1>2, <1>7, <1>8, <1>9, <1>10, <1>11, <1>12, <1>13, <1>14, <1>15, <1>16, <1>17, <1>18, <1>19, <1>20, <1>21 DEF Parts

LEMMA WorkerUpdateCacheKeeps ==
    ASSUME TypeInv, Parts, WorkerUpdateCache
    PROVE  TypeInv' /\ Parts'
<1>1. /\ EntryInv /\ GroupInv /\ LevelInv /\ AgreeInv /\ CancelledInv /\ AskedInv /\ ClosedInv /\ PricedInv
      /\ RowCovered /\ GroupCovered /\ ExitsCovered /\ AdminsCovered /\ ClosingCovered /\ DropCovered /\ StopInv
  BY DEF Parts
<1>2. TypeInv' /\ UNCHANGED <<scenario, config, entry, row, partial, cached, trail, exiting, jobs, tick, poll, exits, admins, closing, writes, failures, requests, restarts>>
  BY <1>1, WorkerUpdateCacheType
<1>3. /\ worker.pc = "cache" /\ group.filled /\ entry = 5 /\ worker.remaining = group.remaining
      /\ worker.side \in Sides /\ worker.qty \in Nat /\ group.remaining \in Nat
  <2>1. worker.pc = "cache"
    BY DEF WorkerUpdateCache
  <2> QED BY <1>1, <2>1, WhenBusy, FieldTypes DEF GroupInv, Decremented
<1>4. /\ worker'.pc = "finish" /\ worker'.side = worker.side /\ worker'.level = worker.level
      /\ worker'.qty = worker.qty /\ worker'.remaining = worker.remaining
  <2>1. worker \in WorkerSet
    BY DEF TypeInv
  <2> QED BY <2>1 DEF WorkerUpdateCache, WorkerSet
<1>5. /\ order'.stopLoss = order.stopLoss
      /\ cached => order'.qty = group.remaining
      /\ ~cached => order'.qty = order.qty
  <2>1. order \in OrderSet
    BY DEF TypeInv
  <2> QED BY <1>3, <2>1 DEF WorkerUpdateCache, OrderSet
<1>6. /\ group'.state = group.state /\ group'.filled = group.filled /\ group'.remaining = group.remaining
      /\ \A z \in Sides : /\ DOMAIN group'.levels[z] = DOMAIN group.levels[z]
                          /\ ActiveOf(group'.levels[z]) = ActiveOf(group.levels[z])
                          /\ (group.remaining > 0 /\ config.levels[z] # <<>>) => LevelSum(group'.levels[z]) = group.remaining
  <2>1. CASE ~(group.remaining > 0)
    BY <1>3, <2>1 DEF WorkerUpdateCache
  <2>2. CASE group.remaining > 0
    <3> DEFINE o == OtherSide(worker.side)
    <3>1. o \in Sides /\ o # worker.side /\ \A z \in Sides : z = o \/ z = worker.side
      BY <1>3, OtherSideIs DEF Sides
    <3>2. /\ group'.state = group.state /\ group'.filled = group.filled /\ group'.remaining = group.remaining
          /\ group'.levels[o] = Rebalanced(group.levels[o], config.levels[o], group.remaining)
          /\ group'.levels[worker.side] = group.levels[worker.side]
      BY <1>1, <1>3, <2>2, RebalancedEffect
    <3> HIDE DEF o
    <3>3. group.levels[o] \in Seq(LevelSet) /\ config.levels[o] \in LevelSeq
      BY <3>1, LevelsOfSide, ConfigTypes
    <3>4. DOMAIN group.levels[o] = DOMAIN config.levels[o]
      BY <1>1, <1>3, <3>1, <3>3, LevelsFilled, LevelType
    <3>5. group.remaining \in Units
      BY FieldTypes DEF Units
    <3>6. /\ DOMAIN group'.levels[o] = DOMAIN group.levels[o]
          /\ ActiveOf(group'.levels[o]) = ActiveOf(group.levels[o])
          /\ ActiveOf(group.levels[o]) # {} => LevelSum(group'.levels[o]) = group.remaining
      BY <3>2, <3>3, <3>4, <3>5, RebalancedLevels
    <3>7. config.levels[o] # <<>> => ActiveOf(group.levels[o]) # {}
      <4> SUFFICES ASSUME config.levels[o] # <<>>, ActiveOf(group.levels[o]) = {} PROVE FALSE
        OBVIOUS
      <4>1. LevelUnits(o) = group.remaining + worker.qty
        BY <1>1, <1>3, <3>1 DEF LevelInv, Expected
      <4>2. LevelUnits(o) = 0
        BY <3>3, LevelSumNat, UnitsOfSide
      <4> QED BY <1>3, <2>2, <4>1, <4>2
    <3>8. config.levels[worker.side] # <<>> => LevelSum(group'.levels[worker.side]) = group.remaining
      <4> SUFFICES ASSUME config.levels[worker.side] # <<>> PROVE LevelUnits(worker.side) = group.remaining
        BY <3>2, UnitsOfSide
      <4>1. LevelUnits(worker.side) = Expected(worker.side)
        BY <1>1, <1>3 DEF LevelInv
      <4> QED BY <1>3, <4>1 DEF Expected
    <3> QED BY <3>1, <3>2, <3>6, <3>7, <3>8
  <2> QED BY <2>1, <2>2
<1>7. Grows
  <2>1. Sound' => Sound
    BY <1>2 DEF Sound, MayLoseUnits
  <2>2. InHand' = 0 /\ InHand = 0
    BY <1>3, <1>4 DEF InHand
  <2>3. Recorded' = Recorded /\ Everything' = Everything
    BY <1>2, <2>2 DEF Recorded, Everything, Forced
  <2> QED BY <2>1, <2>3, HandTypes DEF Grows
<1>8. EntryInv'
  BY <1>1, <1>2, <1>3, <1>4, <1>5, <1>6, PlaceSame, PlaceAtEnd DEF EntryInv, Busy
<1>9. GroupInv'
  BY <1>1, <1>2, <1>3, <1>4, <1>5, <1>6 DEF GroupInv, Busy, Decremented
<1>10. LevelInv'
  <2> SUFFICES ASSUME NEW z \in Sides, config.levels[z] # <<>>, group.remaining > 0 PROVE LevelUnits(z)' = group.remaining
    <3>1. group.remaining = group'.remaining + 0
      BY <1>3, <1>6
    <3> QED BY <1>2, <1>3, <1>4, <1>6, <3>1 DEF LevelInv, Expected
  <2> QED BY <1>6, UnitsOfSideNext
<1>11. AgreeInv'
  BY <1>1, <1>2, <1>3, <1>4, <1>5, <1>6 DEF AgreeInv
<1>12. CancelledInv'
  BY <1>1, <1>2, <1>3, <1>4, <1>5, <1>6 DEF CancelledInv
<1>13. AskedInv'
  BY <1>1, <1>2, AskedSame
<1>14. ClosedInv'
  BY <1>1, <1>2, ClosedSame
<1>15. PricedInv'
  BY <1>1, <1>2, PricedSame
<1>16. RowCovered'
  <2> SUFFICES ASSUME Sound'
               PROVE  /\ row.priced => (row.filled + Recorded' >= Quantity /\ order'.qty + Recorded' >= Quantity)
                      /\ row.closed => row.booked + Recorded' >= Quantity
    BY <1>1, <1>2, <1>3, <1>4, <1>5, <1>6 DEF RowCovered, Covers, Sound
  <2>1. Sound /\ row.booked \in Nat /\ order.qty \in Nat /\ group.remaining \in Nat /\ row.filled \in Nat
    BY <1>7, FieldTypes DEF Grows
  <2>2. row.closed => row.booked + Recorded' >= Quantity
    BY <1>1, <1>2, <1>3, <1>4, <1>5, <1>6, <1>7, <2>1, StillCovers DEF RowCovered
  <2>3. row.priced => (order.qty + Recorded' >= Quantity /\ row.filled + Recorded' >= Quantity)
    BY <1>1, <1>2, <1>3, <1>4, <1>5, <1>6, <1>7, <2>1, StillCovers DEF RowCovered
  <2>4. Covers(group.remaining)
    <3>1. CoversAll(group.remaining)
      BY <1>1, <1>3, <2>1 DEF GroupCovered
    <3>2. InHand = 0
      BY <1>3 DEF InHand
    <3>3. Everything = Recorded
      BY <3>2, HandTypes
    <3> QED BY <2>1, <3>1, <3>3, CoversIs
  <2>5. group.remaining + Recorded' >= Quantity
    BY <1>1, <1>2, <1>3, <1>4, <1>5, <1>6, <1>7, <2>1, <2>4, StillCovers
  <2>6. order'.qty = group.remaining \/ order'.qty = order.qty
    BY <1>5
  <2> QED BY <2>2, <2>3, <2>5, <2>6
<1>17. GroupCovered'
  BY <1>1, <1>2, <1>3, <1>4, <1>5, <1>6, <1>7, GroupCoveredSame
<1>18. ExitsCovered'
  BY <1>1, <1>2, <1>7, ExitsCoveredSame
<1>19. AdminsCovered'
  BY <1>1, <1>2, <1>7, AdminsCoveredSame
<1>20. ClosingCovered'
  BY <1>1, <1>2, <1>7, ClosingCoveredSame
<1>21. DropCovered'
  BY <1>1, <1>2, <1>7, PlaceSame, DropCoveredSame
<1>22. StopInv'
  <2>1. ActiveLevels("TP")' = ActiveLevels("TP") /\ \A i : computeNewSLAfterTP(i)' = computeNewSLAfterTP(i)
    BY <1>2, <1>6, ActorNames, UnitsOfSide DEF ActiveLevels, ActiveOf, computeNewSLAfterTP
  <2>2. (Added' <=> Added) /\ Busy' /\ Busy
    BY <1>2, <1>3, <1>4 DEF Added, Busy
  <2> QED BY <1>1, <1>2, <1>4, <1>5, <2>1, <2>2 DEF StopInv
<1> QED BY <1>2, <1>8, <1>9, <1>10, <1>11, <1>12, <1>13, <1>14, <1>15, <1>16, <1>17, <1>18, <1>19, <1>20, <1>21, <1>22 DEF Parts

LEMMA WorkerFinishKeeps ==
    ASSUME TypeInv, Parts, WorkerFinish
    PROVE  TypeInv' /\ Parts'
<1>1. /\ EntryInv /\ GroupInv /\ LevelInv /\ AgreeInv /\ CancelledInv /\ AskedInv /\ ClosedInv /\ PricedInv
      /\ RowCovered /\ GroupCovered /\ ExitsCovered /\ AdminsCovered /\ ClosingCovered /\ DropCovered /\ StopInv
  BY DEF Parts
<1>2. TypeInv' /\ UNCHANGED <<scenario, config, entry, row, partial, group, jobs, tick, poll, exits, admins, closing, writes, failures, requests, restarts>>
  BY <1>1, WorkerFinishType
<1>3. /\ worker.pc = "finish" /\ group.filled /\ entry = 5 /\ worker.remaining = group.remaining
      /\ worker.side \in Sides /\ group.remaining \in Nat /\ Filled /\ Added /\ Filled' /\ Added' /\ entry' = 5
      /\ worker.level \in 1..Len(config.levels[worker.side])
  <2>1. worker.pc = "finish"
    BY DEF WorkerFinish
  <2> QED BY <1>1, <1>2, <2>1, WhenBusy, FieldTypes, PlaceAtEnd DEF GroupInv, Decremented, Busy
<1>4. worker'.pc = "idle" /\ ~Busy' /\ Busy
  BY <1>3 DEF WorkerFinish, Idle, Busy
<1>5. /\ order'.qty = order.qty
      /\ order'.stopLoss # order.stopLoss => (cached /\ worker.side = "TP" /\ order'.stopLoss = computeNewSLAfterTP(worker.level))
      /\ cached' # cached => (group.remaining = 0 /\ cached' = FALSE)
      /\ cached' => cached /\ trail' = trail
  <2>1. order \in OrderSet
    BY DEF TypeInv
  <2> QED BY <1>3, <2>1 DEF WorkerFinish, RemoveOrder, OrderSet
<1>6. Grows
  <2>1. Sound' => Sound
    BY <1>2 DEF Sound, MayLoseUnits
  <2>2. InHand' = 0 /\ InHand = 0
    BY <1>3, <1>4 DEF InHand
  <2>3. Recorded' = Recorded /\ Everything' = Everything
    BY <1>2, <2>2 DEF Recorded, Everything, Forced
  <2> QED BY <2>1, <2>3, HandTypes DEF Grows
<1>7. EntryInv'
  BY <1>1, <1>2, <1>3, <1>4, <1>5 DEF EntryInv
<1>8. GroupInv'
  BY <1>1, <1>2, <1>3, <1>4, <1>5 DEF GroupInv, Decremented
<1>9. LevelInv'
  <2> SUFFICES ASSUME NEW z \in Sides, config.levels[z] # <<>>, group.remaining > 0 PROVE LevelUnits(z)' = Expected(z)'
    BY <1>2, <1>4 DEF LevelInv
  <2>1. LevelUnits(z) = Expected(z)
    BY <1>1, <1>2, <1>3, <1>4, <1>5 DEF LevelInv
  <2>2. Expected(z)' = Expected(z)
    BY <1>2, <1>3, <1>4 DEF Expected
  <2>3. LevelUnits(z)' = LevelUnits(z)
    BY <1>2, UnitsOfSide, UnitsOfSideNext
  <2> QED BY <2>1, <2>2, <2>3
<1>10. AgreeInv'
  BY <1>1, <1>2, <1>3, <1>4, <1>5 DEF AgreeInv
<1>11. CancelledInv'
  BY <1>1, <1>2, CancelledSame
<1>12. AskedInv'
  BY <1>1, <1>2, AskedSame
<1>13. ClosedInv'
  BY <1>1, <1>2, ClosedSame
<1>14. PricedInv'
  BY <1>1, <1>2, <1>3, <1>4, <1>5 DEF PricedInv
<1>15. RowCovered'
  BY <1>1, <1>2, <1>3, <1>4, <1>5, <1>6, RowCoveredSame
<1>16. GroupCovered'
  BY <1>1, <1>2, <1>6, GroupCoveredSame
<1>17. ExitsCovered'
  BY <1>1, <1>2, <1>6, ExitsCoveredSame
<1>18. AdminsCovered'
  BY <1>1, <1>2, <1>6, AdminsCoveredSame
<1>19. ClosingCovered'
  BY <1>1, <1>2, <1>6, ClosingCoveredSame
<1>20. DropCovered'
  <2>1. CASE cached => cached'
    BY <1>1, <1>2, <1>3, <1>4, <1>5, <1>6, <2>1, DropCoveredSame
  <2>2. CASE cached /\ ~cached'
    <3> SUFFICES ASSUME Sound' PROVE 0 + Recorded' >= Quantity
      BY DEF DropCovered, Covers
    <3>1. Sound /\ group.remaining = 0
      BY <1>1, <1>2, <1>3, <1>4, <1>5, <1>6, <2>2 DEF Grows
    <3>2. CoversAll(0)
      BY <1>1, <1>3, <3>1 DEF GroupCovered
    <3>3. Everything = Recorded
      BY <1>3, HandTypes DEF InHand
    <3>4. Covers(0)
      BY <3>2, <3>3, CoversIs
    <3> QED BY <1>1, <1>2, <1>3, <1>4, <1>5, <1>6, <3>1, <3>4, StillCovers
  <2> QED BY <2>1, <2>2
<1>21. StopInv'
  <2>1. ActiveLevels("TP")' = ActiveLevels("TP") /\ \A i : computeNewSLAfterTP(i)' = computeNewSLAfterTP(i)
    BY <1>2 DEF ActiveLevels, computeNewSLAfterTP
  <2> SUFFICES ASSUME cached', ~trail'.on, NEW i \in ActiveLevels("TP") PROVE order'.stopLoss <= computeNewSLAfterTP(i)
    BY <1>3, <1>4, <2>1 DEF StopInv
  <2>2. cached /\ ~trail.on
    BY <1>5
  <2>3. CASE order'.stopLoss = order.stopLoss
    BY <1>1, <2>2, <2>3 DEF StopInv
  <2>4. CASE order'.stopLoss # order.stopLoss
    <3>1. worker.side = "TP" /\ order'.stopLoss = computeNewSLAfterTP(worker.level)
      BY <1>5, <2>4
    <3>2. worker.level < i
      BY <1>1, <1>4, <3>1 DEF StopInv
    <3>3. "TP" \in Sides /\ group.levels["TP"] \in Seq(LevelSet)
      BY ActorNames, LevelsOfSide
    <3>4. i \in DOMAIN group.levels["TP"]
      BY <3>3, UnitsOfSide, LevelFacts
    <3>5. i \in 1..Len(config.levels["TP"])
      BY <1>1, <1>3, <3>3, <3>4, LevelsFilled
    <3>6. worker.level \in 1..Len(config.levels["TP"]) /\ worker.level <= i
      BY <1>3, <3>1, <3>2, <3>5
    <3> QED BY <3>1, <3>5, <3>6, NewStopMonotone
  <2> QED BY <2>3, <2>4
<1> QED BY <1>2, <1>7, <1>8, <1>9, <1>10, <1>11, <1>12, <1>13, <1>14, <1>15, <1>16, <1>17, <1>18, <1>19, <1>20, <1>21 DEF Parts

LEMMA ExitBeginKeeps ==
    ASSUME TypeInv, Parts, NEW s \in Sources, ExitBegin(s)
    PROVE  TypeInv' /\ Parts'
<1>1. /\ EntryInv /\ GroupInv /\ LevelInv /\ AgreeInv /\ CancelledInv /\ AskedInv /\ ClosedInv /\ PricedInv
      /\ RowCovered /\ GroupCovered /\ ExitsCovered /\ AdminsCovered /\ ClosingCovered /\ DropCovered /\ StopInv
  BY DEF Parts
<1>2. TypeInv' /\ UNCHANGED <<scenario, config, entry, row, partial, cached, order, trail, exiting, jobs, worker, tick, poll, admins, closing, writes, failures, requests, restarts>>
  BY <1>1, ExitBeginType
<1>3. /\ exits[s].pc = "cancel" /\ exits'[s].pc = "write" /\ exits'[s].own = exits[s].own
      /\ exits[s].own => exits'[s].qty = exits[s].qty
      /\ ~exits[s].own => exits'[s].qty = order.qty
      /\ \A z \in Sources : z # s => exits'[z] = exits[z]
  <2>1. exits \in [Sources -> ExitSet] /\ exits[s] \in ExitSet
    BY DEF TypeInv
  <2> QED BY <2>1 DEF ExitBegin, ExitSet
<1>4. /\ group'.filled = group.filled /\ group'.remaining = group.remaining /\ group'.levels = group.levels
      /\ group'.state = group.state \/ (group.state = "ACTIVE" /\ group'.state = "CANCELLED")
  <2>1. group \in GroupSet
    BY DEF TypeInv
  <2> QED BY <2>1 DEF ExitBegin, GroupSet
<1>5. Grows
  BY <1>1, <1>2, <1>3, <1>4, GrowsSame
<1>6. EntryInv'
  BY <1>1, <1>2, <1>3, <1>4, GroupCancelled
<1>7. GroupInv'
  BY <1>1, <1>2, <1>3, <1>4, GroupCancelled
<1>8. LevelInv'
  BY <1>1, <1>2, <1>3, <1>4, GroupCancelled
<1>9. AgreeInv'
  BY <1>1, <1>2, <1>3, <1>4, GroupCancelled
<1>10. CancelledInv'
  BY <1>1, <1>2, <1>3, <1>4 DEF CancelledInv
<1>11. AskedInv'
  BY <1>1, <1>2, AskedSame
<1>12. ClosedInv'
  BY <1>1, <1>2, <1>3, <1>4 DEF ClosedInv
<1>13. PricedInv'
  BY <1>1, <1>2, <1>3, <1>4 DEF PricedInv
<1>14. RowCovered'
  BY <1>1, <1>2, <1>5, RowCoveredSame
<1>15. GroupCovered'
  BY <1>1, <1>2, <1>3, <1>4, <1>5, GroupCoveredSame
<1>16. ExitsCovered'
  <2>1. ASSUME Sound' PROVE exits'[s].qty + Recorded' >= Quantity
    <3>1. Sound /\ exits[s].qty \in Nat /\ order.qty \in Nat /\ exits[s].own \in BOOLEAN
      BY <1>5, <2>1, FieldTypes DEF Grows
    <3>2. CASE exits[s].own
      <4>1. Covers(exits[s].qty)
        BY <1>1, <1>3, <3>1, <3>2 DEF ExitsCovered
      <4> QED BY <1>2, <1>3, <1>5, <2>1, <3>1, <3>2, <4>1, StillCovers
    <3>3. CASE ~exits[s].own
      <4>1. row.priced
        BY <1>1, <1>3, <3>1 DEF PricedInv, Sound
      <4>2. Covers(order.qty)
        BY <1>1, <3>1, <4>1 DEF RowCovered
      <4> QED BY <1>2, <1>3, <1>5, <2>1, <3>1, <3>3, <4>2, StillCovers
    <3> QED BY <3>2, <3>3
  <2> QED BY <1>1, <1>2, <1>3, <1>4, <1>5, <2>1, ExitsStep
<1>17. AdminsCovered'
  BY <1>1, <1>2, <1>5, AdminsCoveredSame
<1>18. ClosingCovered'
  BY <1>1, <1>2, <1>5, ClosingCoveredSame
<1>19. DropCovered'
  BY <1>1, <1>2, <1>5, PlaceSame, DropCoveredSame
<1>20. StopInv'
  BY <1>1, <1>2, <1>3, <1>4, GroupCancelled
<1> QED BY <1>2, <1>6, <1>7, <1>8, <1>9, <1>10, <1>11, <1>12, <1>13, <1>14, <1>15, <1>16, <1>17, <1>18, <1>19, <1>20 DEF Parts

LEMMA ExitWriteKeeps ==
    ASSUME TypeInv, Parts, NEW s \in Sources, ExitWrite(s)
    PROVE  TypeInv' /\ Parts'
<1>1. /\ EntryInv /\ GroupInv /\ LevelInv /\ AgreeInv /\ CancelledInv /\ AskedInv /\ ClosedInv /\ PricedInv
      /\ RowCovered /\ GroupCovered /\ ExitsCovered /\ AdminsCovered /\ ClosingCovered /\ DropCovered /\ StopInv
  BY DEF Parts
<1>2. TypeInv' /\ UNCHANGED <<scenario, config, entry, partial, cached, order, trail, exiting, group, jobs, worker, tick, poll, admins, closing, writes, requests, restarts>>
  BY <1>1, ExitWriteType
<1>3. /\ exits[s].pc = "write" /\ exits'[s].pc \in {"clean", "abandon"}
      /\ \A z \in Sources : z # s => exits'[z] = exits[z]
  <2>1. exits \in [Sources -> ExitSet] /\ exits[s] \in ExitSet
    BY DEF TypeInv
  <2> QED BY <2>1 DEF ExitWrite, At, ExitSet
<1>4. /\ row'.priced = row.priced /\ row'.filled = row.filled
      /\ row.closed => row'.closed /\ row'.booked = row.booked
      /\ (row'.closed /\ ~row.closed) => row'.booked = exits[s].qty
      /\ row'.status = row.status \/ (row'.status = "CANCELLED" /\ row'.closed)
      /\ exits'[s].pc = "clean" => row'.closed
      /\ exits'[s].pc = "abandon" => failures' # 0
      /\ failures # 0 => failures' # 0
  <2>1. row \in RowSet /\ failures \in Nat /\ exits \in [Sources -> ExitSet] /\ exits[s] \in ExitSet
    BY DEF TypeInv
  <2>2. CASE At(s, "write", "clean") /\ row' = row /\ row.closed /\ UNCHANGED failures
    BY <2>1, <2>2 DEF At, ExitSet
  <2>3. CASE At(s, "write", "clean") /\ ~row.closed /\ row' = [Closed(exits[s].qty) EXCEPT !.status = "CANCELLED"] /\ UNCHANGED failures
    BY <2>1, <2>3 DEF At, ExitSet, Closed, RowSet
  <2>4. CASE At(s, "write", "abandon") /\ Fail /\ UNCHANGED row
    BY <2>1, <2>4 DEF At, ExitSet, Fail
  <2> QED BY <2>2, <2>3, <2>4 DEF ExitWrite
<1>5. Grows
  BY <1>1, <1>2, <1>3, <1>4, GrowsSame
<1>6. EntryInv'
  BY <1>1, <1>2, <1>3, <1>4, PlaceSame DEF EntryInv, Busy
<1>7. GroupInv'
  BY <1>1, <1>2, GroupSame
<1>8. LevelInv'
  BY <1>1, <1>2, LevelSame
<1>9. AgreeInv'
  BY <1>1, <1>2, <1>3, <1>4 DEF AgreeInv
<1>10. CancelledInv'
  BY <1>1, <1>2, CancelledSame
<1>11. AskedInv'
  BY <1>1, <1>2, AskedSame
<1>12. ClosedInv'
  BY <1>1, <1>2, <1>3, <1>4 DEF ClosedInv
<1>13. PricedInv'
  BY <1>1, <1>2, <1>3, <1>4 DEF PricedInv
<1>14. RowCovered'
  <2> SUFFICES ASSUME Sound'
               PROVE  /\ row.priced => (row.filled + Recorded' >= Quantity /\ order.qty + Recorded' >= Quantity)
                      /\ row'.closed => row'.booked + Recorded' >= Quantity
    BY <1>1, <1>2, <1>3, <1>4 DEF RowCovered, Covers, Sound
  <2>1. Sound /\ row.booked \in Nat /\ order.qty \in Nat /\ row.filled \in Nat /\ exits[s].qty \in Nat
    BY <1>5, FieldTypes DEF Grows
  <2>2. row.closed => row.booked + Recorded' >= Quantity
    BY <1>1, <1>2, <1>3, <1>4, <1>5, <2>1, StillCovers DEF RowCovered
  <2>3. row.priced => (order.qty + Recorded' >= Quantity /\ row.filled + Recorded' >= Quantity)
    BY <1>1, <1>2, <1>3, <1>4, <1>5, <2>1, StillCovers DEF RowCovered
  <2>4. Covers(exits[s].qty)
    BY <1>1, <1>3, <2>1 DEF ExitsCovered
  <2>5. exits[s].qty + Recorded' >= Quantity
    BY <1>1, <1>2, <1>3, <1>4, <1>5, <2>1, <2>4, StillCovers
  <2>6. row'.closed => ((row.closed /\ row'.booked = row.booked) \/ row'.booked = exits[s].qty)
    BY <1>4
  <2> QED BY <2>2, <2>3, <2>5, <2>6
<1>15. GroupCovered'
  BY <1>1, <1>2, <1>5, GroupCoveredSame
<1>16. ExitsCovered'
  BY <1>1, <1>2, <1>3, <1>4, <1>5, ExitsStep
<1>17. AdminsCovered'
  BY <1>1, <1>2, <1>5, AdminsCoveredSame
<1>18. ClosingCovered'
  BY <1>1, <1>2, <1>5, ClosingCoveredSame
<1>19. DropCovered'
  BY <1>1, <1>2, <1>3, <1>4, <1>5, PlaceSame, DropCoveredSame
<1>20. StopInv'
  BY <1>1, <1>2, StopSame
<1> QED BY <1>2, <1>6, <1>7, <1>8, <1>9, <1>10, <1>11, <1>12, <1>13, <1>14, <1>15, <1>16, <1>17, <1>18, <1>19, <1>20 DEF Parts

LEMMA ExitCleanKeeps ==
    ASSUME TypeInv, Parts, NEW s \in Sources, ExitClean(s)
    PROVE  TypeInv' /\ Parts'
<1>1. /\ EntryInv /\ GroupInv /\ LevelInv /\ AgreeInv /\ CancelledInv /\ AskedInv /\ ClosedInv /\ PricedInv
      /\ RowCovered /\ GroupCovered /\ ExitsCovered /\ AdminsCovered /\ ClosingCovered /\ DropCovered /\ StopInv
  BY DEF Parts
<1>2. TypeInv' /\ UNCHANGED <<scenario, config, entry, row, partial, order, group, jobs, worker, tick, poll, admins, closing, writes, failures, requests, restarts>>
  BY <1>1, ExitCleanType
<1>3. /\ exits[s].pc \in {"clean", "abandon"} /\ exits'[s].pc = "idle" /\ ~cached'
      /\ \A z \in Sources : z # s => exits'[z] = exits[z]
  <2>1. exits \in [Sources -> ExitSet]
    BY DEF TypeInv
  <2> QED BY <2>1 DEF ExitClean, NoExit
<1>4. \A z \in Sources : exits'[z] = exits[z] \/ exits'[z].pc = "idle"
  BY <1>3
<1>5. Grows
  BY <1>1, <1>2, <1>3, <1>4, GrowsSame
<1>6. EntryInv'
  BY <1>1, <1>2, <1>3, <1>4, OrderDropped
<1>7. GroupInv'
  BY <1>1, <1>2, GroupSame
<1>8. LevelInv'
  BY <1>1, <1>2, LevelSame
<1>9. AgreeInv'
  BY <1>1, <1>2, <1>3, <1>4, OrderDropped
<1>10. CancelledInv'
  BY <1>1, <1>2, CancelledSame
<1>11. AskedInv'
  BY <1>1, <1>2, AskedSame
<1>12. ClosedInv'
  BY <1>1, <1>2, <1>3, <1>4 DEF ClosedInv
<1>13. PricedInv'
  BY <1>1, <1>2, <1>3, <1>4, OrderDropped
<1>14. RowCovered'
  BY <1>1, <1>2, <1>5, RowCoveredSame
<1>15. GroupCovered'
  BY <1>1, <1>2, <1>5, GroupCoveredSame
<1>16. ExitsCovered'
  BY <1>1, <1>2, <1>3, <1>4, <1>5, ExitsStep
<1>17. AdminsCovered'
  BY <1>1, <1>2, <1>5, AdminsCoveredSame
<1>18. ClosingCovered'
  BY <1>1, <1>2, <1>5, ClosingCoveredSame
<1>19. DropCovered'
  <2>1. exits[s].pc = "clean" => row.closed
    BY <1>1 DEF ClosedInv
  <2>2. exits[s].pc = "abandon" => ~Sound'
    BY <1>1, <1>2 DEF ClosedInv, Sound
  <2> QED BY <1>2, <1>3, <2>1, <2>2 DEF DropCovered
<1>20. StopInv'
  BY <1>1, <1>2, <1>3, <1>4, OrderDropped
<1> QED BY <1>2, <1>6, <1>7, <1>8, <1>9, <1>10, <1>11, <1>12, <1>13, <1>14, <1>15, <1>16, <1>17, <1>18, <1>19, <1>20 DEF Parts

LEMMA ForceExitKeeps ==
    ASSUME TypeInv, Parts, ForceExit
    PROVE  TypeInv' /\ Parts'
<1>1. /\ EntryInv /\ GroupInv /\ LevelInv /\ AgreeInv /\ CancelledInv /\ AskedInv /\ ClosedInv /\ PricedInv
      /\ RowCovered /\ GroupCovered /\ ExitsCovered /\ AdminsCovered /\ ClosingCovered /\ DropCovered /\ StopInv
  BY DEF Parts
<1>2. TypeInv' /\ UNCHANGED <<scenario, config, entry, row, partial, cached, order, trail, exiting, group, jobs, worker, tick, poll, exits, closing, writes, failures, restarts>>
  BY <1>1, ForceExitType
<1>3. /\ "user" \in Admins /\ "user" \in scenario /\ row.priced
      /\ admins'["user"].pc = "claim" /\ admins'["user"].own /\ admins'["user"].qty = row.filled
      /\ \A z \in Admins : z # "user" => admins'[z] = admins[z]
  <2>1. admins \in [Admins -> AdminSet] /\ admins["user"] \in AdminSet
    BY ActorNames DEF TypeInv
  <2> QED BY <2>1, ActorNames DEF ForceExit, Free, Request, OpenRow, ExitableRow, Claiming
<1>4. Grows
  BY <1>1, <1>2, <1>3, GrowsSame
<1>5. EntryInv'
  BY <1>1, <1>2, EntrySame
<1>6. GroupInv'
  BY <1>1, <1>2, GroupSame
<1>7. LevelInv'
  BY <1>1, <1>2, LevelSame
<1>8. AgreeInv'
  BY <1>1, <1>2, AgreeSame
<1>9. CancelledInv'
  BY <1>1, <1>2, <1>3 DEF CancelledInv
<1>10. AskedInv'
  BY <1>1, <1>2, <1>3 DEF AskedInv
<1>11. ClosedInv'
  BY <1>1, <1>2, ClosedSame
<1>12. PricedInv'
  BY <1>1, <1>2, <1>3 DEF PricedInv
<1>13. RowCovered'
  BY <1>1, <1>2, <1>4, RowCoveredSame
<1>14. GroupCovered'
  BY <1>1, <1>2, <1>4, GroupCoveredSame
<1>15. ExitsCovered'
  BY <1>1, <1>2, <1>4, ExitsCoveredSame
<1>16. AdminsCovered'
  <2>1. ASSUME Sound' PROVE row.filled + Recorded' >= Quantity
    <3>1. Sound /\ row.filled \in Nat /\ Covers(row.filled)
      BY <1>1, <1>3, <1>4, <2>1, FieldTypes DEF Grows, RowCovered
    <3> QED BY <1>2, <1>4, <2>1, <3>1, StillCovers
  <2> QED BY <1>1, <1>2, <1>3, <1>4, <2>1, AdminsStep
<1>17. ClosingCovered'
  BY <1>1, <1>2, <1>4, ClosingCoveredSame
<1>18. DropCovered'
  BY <1>1, <1>2, <1>4, PlaceSame, DropCoveredSame
<1>19. StopInv'
  BY <1>1, <1>2, StopSame
<1> QED BY <1>2, <1>5, <1>6, <1>7, <1>8, <1>9, <1>10, <1>11, <1>12, <1>13, <1>14, <1>15, <1>16, <1>17, <1>18, <1>19 DEF Parts

LEMMA SquareOffAllKeeps ==
    ASSUME TypeInv, Parts, SquareOffAll
    PROVE  TypeInv' /\ Parts'
<1>1. /\ EntryInv /\ GroupInv /\ LevelInv /\ AgreeInv /\ CancelledInv /\ AskedInv /\ ClosedInv /\ PricedInv
      /\ RowCovered /\ GroupCovered /\ ExitsCovered /\ AdminsCovered /\ ClosingCovered /\ DropCovered /\ StopInv
  BY DEF Parts
<1>2. TypeInv' /\ UNCHANGED <<scenario, config, entry, row, partial, cached, order, trail, exiting, group, jobs, worker, tick, poll, exits, closing, writes, failures, restarts>>
  BY <1>1, SquareOffAllType
<1>3. /\ "scheduler" \in Admins /\ "scheduler" \in scenario
      /\ admins'["scheduler"].pc \in {"claim", "sweep"} /\ ~admins'["scheduler"].own
      /\ admins'["scheduler"].pc = "claim" => cached
      /\ \A z \in Admins : z # "scheduler" => admins'[z] = admins[z]
  <2>1. admins \in [Admins -> AdminSet] /\ admins["scheduler"] \in AdminSet
    BY ActorNames DEF TypeInv
  <2>2. "scheduler" \in scenario /\ "scheduler" \in Admins
    BY ActorNames DEF SquareOffAll, Free, Request
  <2>3. CASE cached /\ admins' = [admins EXCEPT !["scheduler"] = Claiming(FALSE, 0)]
    BY <2>1, <2>2, <2>3 DEF Claiming
  <2>4. CASE admins' = [admins EXCEPT !["scheduler"] = [NoAdmin EXCEPT !.pc = "sweep"]]
    BY <2>1, <2>2, <2>4 DEF NoAdmin
  <2> QED BY <2>3, <2>4 DEF SquareOffAll
<1>4. Grows
  BY <1>1, <1>2, <1>3, GrowsSame
<1>5. EntryInv'
  BY <1>1, <1>2, EntrySame
<1>6. GroupInv'
  BY <1>1, <1>2, GroupSame
<1>7. LevelInv'
  BY <1>1, <1>2, LevelSame
<1>8. AgreeInv'
  BY <1>1, <1>2, AgreeSame
<1>9. CancelledInv'
  BY <1>1, <1>2, <1>3 DEF CancelledInv
<1>10. AskedInv'
  BY <1>1, <1>2, <1>3 DEF AskedInv
<1>11. ClosedInv'
  BY <1>1, <1>2, ClosedSame
<1>12. PricedInv'
  BY <1>1, <1>2, <1>3 DEF PricedInv
<1>13. RowCovered'
  BY <1>1, <1>2, <1>4, RowCoveredSame
<1>14. GroupCovered'
  BY <1>1, <1>2, <1>4, GroupCoveredSame
<1>15. ExitsCovered'
  BY <1>1, <1>2, <1>4, ExitsCoveredSame
<1>16. AdminsCovered'
  BY <1>1, <1>2, <1>3, <1>4, AdminsStep
<1>17. ClosingCovered'
  BY <1>1, <1>2, <1>4, ClosingCoveredSame
<1>18. DropCovered'
  BY <1>1, <1>2, <1>4, PlaceSame, DropCoveredSame
<1>19. StopInv'
  BY <1>1, <1>2, StopSame
<1> QED BY <1>2, <1>5, <1>6, <1>7, <1>8, <1>9, <1>10, <1>11, <1>12, <1>13, <1>14, <1>15, <1>16, <1>17, <1>18, <1>19 DEF Parts

LEMMA SquareOffSweepKeeps ==
    ASSUME TypeInv, Parts, SquareOffSweep
    PROVE  TypeInv' /\ Parts'
<1>1. /\ EntryInv /\ GroupInv /\ LevelInv /\ AgreeInv /\ CancelledInv /\ AskedInv /\ ClosedInv /\ PricedInv
      /\ RowCovered /\ GroupCovered /\ ExitsCovered /\ AdminsCovered /\ ClosingCovered /\ DropCovered /\ StopInv
  BY DEF Parts
<1>2. TypeInv' /\ UNCHANGED <<scenario, config, entry, row, partial, cached, order, trail, exiting, group, jobs, worker, tick, poll, exits, closing, writes, requests, restarts>>
  BY <1>1, SquareOffSweepType
<1>3. /\ "scheduler" \in Admins /\ admins["scheduler"].pc = "sweep"
      /\ admins'["scheduler"].pc \in {"claim", "idle"}
      /\ admins'["scheduler"].pc = "claim" => (row.priced /\ admins'["scheduler"].qty = row.filled)
      /\ \A z \in Admins : z # "scheduler" => admins'[z] = admins[z]
      /\ failures # 0 => failures' # 0
  <2>1. admins \in [Admins -> AdminSet] /\ admins["scheduler"] \in AdminSet
    BY ActorNames DEF TypeInv
  <2>2. "scheduler" \in Admins /\ admins["scheduler"].pc = "sweep" /\ failures \in Nat
    BY ActorNames DEF SquareOffSweep, TypeInv
  <2>3. CASE OpenRow /\ admins' = [admins EXCEPT !["scheduler"] = Claiming(TRUE, row.filled)] /\ UNCHANGED failures
    BY <2>1, <2>2, <2>3 DEF Claiming, OpenRow
  <2>4. CASE admins' = [admins EXCEPT !["scheduler"] = NoAdmin] /\ UNCHANGED failures
    BY <2>1, <2>2, <2>4 DEF NoAdmin
  <2>5. CASE Fail /\ Goto("scheduler", "idle")
    BY <2>1, <2>2, <2>5 DEF Fail, Goto, AdminSet
  <2> QED BY <2>3, <2>4, <2>5 DEF SquareOffSweep
<1>4. Grows
  BY <1>1, <1>2, <1>3, GrowsSame
<1>5. EntryInv'
  BY <1>1, <1>2, <1>3, PlaceSame DEF EntryInv, Busy
<1>6. GroupInv'
  BY <1>1, <1>2, GroupSame
<1>7. LevelInv'
  BY <1>1, <1>2, LevelSame
<1>8. AgreeInv'
  BY <1>1, <1>2, <1>3 DEF AgreeInv
<1>9. CancelledInv'
  BY <1>1, <1>2, <1>3 DEF CancelledInv
<1>10. AskedInv'
  BY <1>1, <1>2, <1>3 DEF AskedInv
<1>11. ClosedInv'
  BY <1>1, <1>2, <1>3 DEF ClosedInv
<1>12. PricedInv'
  BY <1>1, <1>2, <1>3 DEF PricedInv
<1>13. RowCovered'
  BY <1>1, <1>2, <1>4, RowCoveredSame
<1>14. GroupCovered'
  BY <1>1, <1>2, <1>4, GroupCoveredSame
<1>15. ExitsCovered'
  BY <1>1, <1>2, <1>4, ExitsCoveredSame
<1>16. AdminsCovered'
  <2>1. ASSUME Sound', row.priced PROVE row.filled + Recorded' >= Quantity
    <3>1. Sound /\ row.filled \in Nat /\ Covers(row.filled)
      BY <1>1, <1>4, <2>1, FieldTypes DEF Grows, RowCovered
    <3> QED BY <1>2, <1>4, <2>1, <3>1, StillCovers
  <2> QED BY <1>1, <1>2, <1>3, <1>4, <2>1, AdminsStep
<1>17. ClosingCovered'
  BY <1>1, <1>2, <1>4, ClosingCoveredSame
<1>18. DropCovered'
  BY <1>1, <1>2, <1>4, PlaceSame, DropCoveredSame
<1>19. StopInv'
  BY <1>1, <1>2, StopSame
<1> QED BY <1>2, <1>5, <1>6, <1>7, <1>8, <1>9, <1>10, <1>11, <1>12, <1>13, <1>14, <1>15, <1>16, <1>17, <1>18, <1>19 DEF Parts

LEMMA ClaimExitKeeps ==
    ASSUME TypeInv, Parts, NEW a \in Admins, ClaimExit(a)
    PROVE  TypeInv' /\ Parts'
<1>1. /\ EntryInv /\ GroupInv /\ LevelInv /\ AgreeInv /\ CancelledInv /\ AskedInv /\ ClosedInv /\ PricedInv
      /\ RowCovered /\ GroupCovered /\ ExitsCovered /\ AdminsCovered /\ ClosingCovered /\ DropCovered /\ StopInv
  BY DEF Parts
<1>2. TypeInv' /\ UNCHANGED <<scenario, config, entry, row, partial, cached, order, trail, group, jobs, worker, tick, poll, exits, closing, writes, failures, requests, restarts>>
  BY <1>1, ClaimExitType
<1>3. /\ admins[a].pc = "claim" /\ admins'[a].pc \in {"cancel", "idle"}
      /\ admins'[a].own = admins[a].own /\ admins'[a].qty = admins[a].qty
      /\ \A z \in Admins : z # a => admins'[z] = admins[z]
  <2>1. admins \in [Admins -> AdminSet] /\ admins[a] \in AdminSet
    BY ActorNames DEF TypeInv
  <2> QED BY <2>1 DEF ClaimExit, Goto, AdminSet
<1>4. Grows
  BY <1>1, <1>2, <1>3, GrowsSame
<1>5. EntryInv'
  BY <1>1, <1>2, EntrySame
<1>6. GroupInv'
  BY <1>1, <1>2, GroupSame
<1>7. LevelInv'
  BY <1>1, <1>2, LevelSame
<1>8. AgreeInv'
  BY <1>1, <1>2, AgreeSame
<1>9. CancelledInv'
  BY <1>1, <1>2, <1>3 DEF CancelledInv
<1>10. AskedInv'
  BY <1>1, <1>2, <1>3 DEF AskedInv
<1>11. ClosedInv'
  BY <1>1, <1>2, ClosedSame
<1>12. PricedInv'
  BY <1>1, <1>2, <1>3 DEF PricedInv
<1>13. RowCovered'
  BY <1>1, <1>2, <1>4, RowCoveredSame
<1>14. GroupCovered'
  BY <1>1, <1>2, <1>4, GroupCoveredSame
<1>15. ExitsCovered'
  BY <1>1, <1>2, <1>4, ExitsCoveredSame
<1>16. AdminsCovered'
  <2>1. ASSUME Sound', admins[a].own PROVE admins[a].qty + Recorded' >= Quantity
    <3>1. Sound /\ admins[a].qty \in Nat /\ Covers(admins[a].qty)
      BY <1>1, <1>3, <1>4, <2>1, FieldTypes DEF Grows, AdminsCovered
    <3> QED BY <1>2, <1>4, <2>1, <3>1, StillCovers
  <2> QED BY <1>1, <1>2, <1>3, <1>4, <2>1, AdminsStep
<1>17. ClosingCovered'
  BY <1>1, <1>2, <1>4, ClosingCoveredSame
<1>18. DropCovered'
  BY <1>1, <1>2, <1>4, PlaceSame, DropCoveredSame
<1>19. StopInv'
  BY <1>1, <1>2, StopSame
<1> QED BY <1>2, <1>5, <1>6, <1>7, <1>8, <1>9, <1>10, <1>11, <1>12, <1>13, <1>14, <1>15, <1>16, <1>17, <1>18, <1>19 DEF Parts

LEMMA CancelGroupForExitKeeps ==
    ASSUME TypeInv, Parts, NEW a \in Admins, CancelGroupForExit(a)
    PROVE  TypeInv' /\ Parts'
<1>1. /\ EntryInv /\ GroupInv /\ LevelInv /\ AgreeInv /\ CancelledInv /\ AskedInv /\ ClosedInv /\ PricedInv
      /\ RowCovered /\ GroupCovered /\ ExitsCovered /\ AdminsCovered /\ ClosingCovered /\ DropCovered /\ StopInv
  BY DEF Parts
<1>2. TypeInv' /\ UNCHANGED <<scenario, config, entry, row, partial, cached, order, trail, exiting, jobs, worker, tick, poll, closing, writes, failures, requests, restarts>>
  BY <1>1, CancelGroupForExitType
<1>3. /\ admins[a].pc = "cancel" /\ a \in Sources
      /\ \A z \in Admins : z # a => admins'[z] = admins[z]
      /\ \A z \in Sources : z # a => exits'[z] = exits[z]
      /\ \/ /\ admins'[a].pc = "partial" /\ admins'[a].own = admins[a].own /\ admins'[a].qty = admins[a].qty
            /\ admins'[a].remaining = group.remaining /\ exits' = exits
            /\ group.remaining # 0 /\ group'.state = "CANCELLED"
         \/ admins'[a].pc = "idle" /\ exits'[a].pc = "cancel" /\ exits'[a].own = admins[a].own /\ exits'[a].qty = admins[a].qty
  <2>1. admins \in [Admins -> AdminSet] /\ admins[a] \in AdminSet
    BY ActorNames DEF TypeInv
  <2>2. a \in Sources /\ exits \in [Sources -> ExitSet] /\ group \in GroupSet /\ admins[a].pc = "cancel"
    BY ActorNames DEF TypeInv, CancelGroupForExit
  <2>3. CASE /\ admins' = [admins EXCEPT ![a].pc = "partial", ![a].remaining = group.remaining] /\ UNCHANGED exits
             /\ group.remaining > 0 /\ group' = [group EXCEPT !.state = "CANCELLED"]
    <3>1. group.remaining # 0 /\ group'.state = "CANCELLED"
      BY <2>2, <2>3, FieldTypes DEF GroupSet
    <3>2. admins'[a] = [admins[a] EXCEPT !.pc = "partial", !.remaining = group.remaining]
      BY <2>1, <2>3
    <3>3. /\ admins'[a].pc = "partial" /\ admins'[a].own = admins[a].own /\ admins'[a].qty = admins[a].qty
          /\ admins'[a].remaining = group.remaining
      BY <2>1, <3>2 DEF AdminSet
    <3>4. \A z \in Admins : z # a => admins'[z] = admins[z]
      BY <2>1, <2>3
    <3> QED BY <2>2, <2>3, <3>1, <3>3, <3>4
  <2>4. CASE Release(a)
    BY <2>1, <2>2, <2>4 DEF Release, StartExit, NoAdmin
  <2> QED BY <2>3, <2>4 DEF CancelGroupForExit
<1>4. /\ group'.filled = group.filled /\ group'.remaining = group.remaining /\ group'.levels = group.levels
      /\ group'.state = group.state \/ (group.state = "ACTIVE" /\ group'.state = "CANCELLED")
  <2>1. group \in GroupSet
    BY DEF TypeInv
  <2> QED BY <2>1 DEF CancelGroupForExit, GroupSet
<1>5. admins'[a].pc = "partial" => group.filled
  BY <1>1, <1>3 DEF EntryInv
<1>6. Grows
  BY <1>1, <1>2, <1>3, <1>4, <1>5, GrowsSame
<1>7. EntryInv'
  BY <1>1, <1>2, <1>3, <1>4, <1>5, GroupCancelled
<1>8. GroupInv'
  BY <1>1, <1>2, <1>3, <1>4, <1>5, GroupCancelled
<1>9. LevelInv'
  BY <1>1, <1>2, <1>3, <1>4, <1>5, GroupCancelled
<1>10. AgreeInv'
  BY <1>1, <1>2, <1>3, <1>4, <1>5, GroupCancelled
<1>11. CancelledInv'
  BY <1>1, <1>2, <1>3, <1>4, <1>5 DEF CancelledInv
<1>12. AskedInv'
  BY <1>1, <1>2, <1>3, <1>4, <1>5 DEF AskedInv
<1>13. ClosedInv'
  BY <1>1, <1>2, <1>3, <1>4, <1>5 DEF ClosedInv
<1>14. PricedInv'
  BY <1>1, <1>2, <1>3, <1>4, <1>5 DEF PricedInv
<1>15. RowCovered'
  BY <1>1, <1>2, <1>6, RowCoveredSame
<1>16. GroupCovered'
  BY <1>1, <1>2, <1>3, <1>4, <1>5, <1>6, GroupCoveredSame
<1>17. ExitsCovered'
  <2>1. ASSUME Sound', admins[a].own PROVE admins[a].qty + Recorded' >= Quantity
    <3>1. Sound /\ admins[a].qty \in Nat /\ Covers(admins[a].qty)
      BY <1>1, <1>3, <1>6, <2>1, FieldTypes DEF Grows, AdminsCovered
    <3> QED BY <1>2, <1>6, <2>1, <3>1, StillCovers
  <2>2. CASE exits' = exits
    BY <1>1, <1>2, <1>3, <1>4, <1>5, <1>6, <2>2, ExitsCoveredSame
  <2>3. CASE admins'[a].pc = "idle" /\ exits'[a].pc = "cancel" /\ exits'[a].own = admins[a].own /\ exits'[a].qty = admins[a].qty
    BY <1>1, <1>2, <1>3, <1>4, <1>5, <1>6, <2>1, <2>3, ExitsStep
  <2> QED BY <1>3, <2>2, <2>3
<1>18. AdminsCovered'
  <2>1. ASSUME Sound', admins[a].own PROVE admins[a].qty + Recorded' >= Quantity
    <3>1. Sound /\ admins[a].qty \in Nat /\ Covers(admins[a].qty)
      BY <1>1, <1>3, <1>6, <2>1, FieldTypes DEF Grows, AdminsCovered
    <3> QED BY <1>2, <1>6, <2>1, <3>1, StillCovers
  <2>2. ASSUME Sound', group.filled PROVE group.remaining + partial' + InHand' >= Quantity
    <3>1. Sound /\ group.remaining \in Nat /\ CoversAll(group.remaining)
      BY <1>1, <1>6, <2>2, FieldTypes DEF Grows, GroupCovered
    <3> QED BY <1>2, <1>6, <2>2, <3>1, StillCovers
  <2> QED BY <1>1, <1>2, <1>3, <1>4, <1>5, <1>6, <2>1, <2>2, AdminsStep
<1>19. ClosingCovered'
  BY <1>1, <1>2, <1>6, ClosingCoveredSame
<1>20. DropCovered'
  BY <1>1, <1>2, <1>6, PlaceSame, DropCoveredSame
<1>21. StopInv'
  BY <1>1, <1>2, <1>3, <1>4, <1>5, GroupCancelled
<1> QED BY <1>2, <1>7, <1>8, <1>9, <1>10, <1>11, <1>12, <1>13, <1>14, <1>15, <1>16, <1>17, <1>18, <1>19, <1>20, <1>21 DEF Parts

LEMMA AdminPartialExitKeeps ==
    ASSUME TypeInv, Parts, NEW a \in Admins, AdminPartialExit(a)
    PROVE  TypeInv' /\ Parts'
<1>1. /\ EntryInv /\ GroupInv /\ LevelInv /\ AgreeInv /\ CancelledInv /\ AskedInv /\ ClosedInv /\ PricedInv
      /\ RowCovered /\ GroupCovered /\ ExitsCovered /\ AdminsCovered /\ ClosingCovered /\ DropCovered /\ StopInv
  BY DEF Parts
<1>2. TypeInv' /\ UNCHANGED <<scenario, config, entry, row, cached, order, trail, exiting, group, jobs, worker, tick, poll, exits, closing, writes, requests, restarts>>
  BY <1>1, AdminPartialExitType
<1>3. /\ admins[a].pc = "partial" /\ admins'[a].pc = "zero" /\ admins'[a].own = admins[a].own /\ admins'[a].qty = admins[a].qty
      /\ \A z \in Admins : z # a => admins'[z] = admins[z]
      /\ admins[a].remaining \in Nat
  <2>1. admins \in [Admins -> AdminSet] /\ admins[a] \in AdminSet
    BY ActorNames DEF TypeInv
  <2> QED BY <2>1, FieldTypes DEF AdminPartialExit, Goto, AdminSet
<1>4. /\ failures' = 0 => failures = 0 /\ partial' = partial + admins[a].remaining
      /\ failures # 0 => failures' # 0
  <2>1. failures \in Nat /\ partial \in Nat
    BY DEF TypeInv
  <2>2. recordPaperPartialExit(admins[a].remaining)
    BY DEF AdminPartialExit
  <2> QED BY <1>3, <2>1, <2>2 DEF recordPaperPartialExit, Fail
<1>5. Grows
  <2>1. Sound' => (Sound /\ partial' = partial + admins[a].remaining)
    BY <1>2, <1>4 DEF Sound, MayLoseUnits
  <2>2. InHand' = InHand /\ (Forced' <=> Forced)
    BY <1>2 DEF InHand, Forced
  <2>3. InHand \in Nat /\ partial \in Nat /\ admins[a].remaining \in Nat
    BY <1>3, HandTypes
  <2>4. Sound' => (Recorded' >= Recorded /\ Everything' >= Everything)
    BY <2>1, <2>2, <2>3 DEF Recorded, Everything
  <2> QED BY <2>1, <2>4 DEF Grows
<1>6. EntryInv'
  BY <1>1, <1>2, <1>3, <1>4, PlaceSame DEF EntryInv, Busy
<1>7. GroupInv'
  BY <1>1, <1>2, GroupSame
<1>8. LevelInv'
  BY <1>1, <1>2, LevelSame
<1>9. AgreeInv'
  BY <1>1, <1>2, <1>3, <1>4 DEF AgreeInv
<1>10. CancelledInv'
  BY <1>1, <1>2, <1>3, <1>4 DEF CancelledInv
<1>11. AskedInv'
  BY <1>1, <1>2, <1>3, <1>4 DEF AskedInv
<1>12. ClosedInv'
  BY <1>1, <1>2, <1>3, <1>4 DEF ClosedInv
<1>13. PricedInv'
  BY <1>1, <1>2, <1>3, <1>4 DEF PricedInv
<1>14. RowCovered'
  BY <1>1, <1>2, <1>5, RowCoveredSame
<1>15. GroupCovered'
  BY <1>1, <1>2, <1>5, GroupCoveredSame
<1>16. ExitsCovered'
  BY <1>1, <1>2, <1>5, ExitsCoveredSame
<1>17. AdminsCovered'
  <2>1. ASSUME Sound', admins[a].own PROVE admins[a].qty + Recorded' >= Quantity
    <3>1. Sound /\ admins[a].qty \in Nat /\ Covers(admins[a].qty)
      BY <1>1, <1>3, <1>5, <2>1, FieldTypes DEF Grows, AdminsCovered
    <3> QED BY <1>2, <1>5, <2>1, <3>1, StillCovers
  <2>2. ASSUME Sound' PROVE 0 + partial' + InHand' >= Quantity
    <3>1. Sound /\ partial' = partial + admins[a].remaining /\ InHand' = InHand
      BY <1>2, <1>4, <1>5, <2>2 DEF Grows, Sound, InHand
    <3>2. admins[a].remaining + partial + InHand >= Quantity
      BY <1>1, <1>3, <3>1 DEF AdminsCovered, CoversAll
    <3>3. admins[a].remaining \in Nat /\ partial \in Nat /\ InHand \in Nat /\ Quantity \in Nat
      BY <1>3, HandTypes
    <3>4. 0 + (partial + admins[a].remaining) + InHand >= Quantity
      BY <3>2, <3>3
    <3> QED BY <3>1, <3>4
  <2> QED BY <1>1, <1>2, <1>3, <1>4, <1>5, <2>1, <2>2, AdminsStep
<1>18. ClosingCovered'
  BY <1>1, <1>2, <1>5, ClosingCoveredSame
<1>19. DropCovered'
  BY <1>1, <1>2, <1>5, PlaceSame, DropCoveredSame
<1>20. StopInv'
  BY <1>1, <1>2, StopSame
<1> QED BY <1>2, <1>6, <1>7, <1>8, <1>9, <1>10, <1>11, <1>12, <1>13, <1>14, <1>15, <1>16, <1>17, <1>18, <1>19, <1>20 DEF Parts

LEMMA AdminUpdateFilledQtyKeeps ==
    ASSUME TypeInv, Parts, NEW a \in Admins, AdminUpdateFilledQty(a)
    PROVE  TypeInv' /\ Parts'
<1>1. /\ EntryInv /\ GroupInv /\ LevelInv /\ AgreeInv /\ CancelledInv /\ AskedInv /\ ClosedInv /\ PricedInv
      /\ RowCovered /\ GroupCovered /\ ExitsCovered /\ AdminsCovered /\ ClosingCovered /\ DropCovered /\ StopInv
  BY DEF Parts
<1>2. TypeInv' /\ UNCHANGED <<scenario, config, entry, partial, cached, order, trail, exiting, group, jobs, worker, tick, poll, closing, writes, requests, restarts>>
  BY <1>1, AdminUpdateFilledQtyType
<1>3. /\ admins[a].pc = "zero" /\ a \in Sources
      /\ admins'[a].pc = "idle" /\ exits'[a].pc = "cancel" /\ exits'[a].own = admins[a].own /\ exits'[a].qty = admins[a].qty
      /\ \A z \in Admins : z # a => admins'[z] = admins[z]
      /\ \A z \in Sources : z # a => exits'[z] = exits[z]
  <2>1. admins \in [Admins -> AdminSet] /\ admins[a] \in AdminSet
    BY ActorNames DEF TypeInv
  <2>2. a \in Sources /\ exits \in [Sources -> ExitSet]
    BY ActorNames DEF TypeInv
  <2> QED BY <2>1, <2>2 DEF AdminUpdateFilledQty, Release, StartExit, NoAdmin
<1>4. /\ row'.status = row.status /\ row'.priced = row.priced /\ row'.closed = row.closed /\ row'.booked = row.booked
      /\ row'.filled = row.filled \/ row'.filled = 0
      /\ failures # 0 => failures' # 0
  <2>1. row \in RowSet /\ failures \in Nat
    BY DEF TypeInv
  <2>2. CASE row' = [row EXCEPT !.filled = 0] /\ UNCHANGED failures
    BY <2>1, <2>2 DEF RowSet
  <2>3. CASE Fail /\ UNCHANGED row
    BY <2>1, <2>3 DEF Fail
  <2> QED BY <2>2, <2>3 DEF AdminUpdateFilledQty, Write
<1>5. group.filled /\ group.state # "ACTIVE" /\ entry = 5 /\ Forced
  <2>1. group.filled /\ group.state # "ACTIVE" /\ entry = 5
    BY <1>1, <1>3 DEF CancelledInv, EntryInv
  <2>2. a \in scenario
    BY <1>1, <1>3 DEF AskedInv
  <2> QED BY <2>1, <2>2 DEF Forced, Admins
<1>6. Grows
  BY <1>1, <1>2, <1>3, <1>4, <1>5, GrowsSame
<1>7. EntryInv'
  BY <1>1, <1>2, <1>3, <1>4, <1>5, PlaceSame DEF EntryInv, Busy
<1>8. GroupInv'
  BY <1>1, <1>2, GroupSame
<1>9. LevelInv'
  BY <1>1, <1>2, LevelSame
<1>10. AgreeInv'
  BY <1>1, <1>2, <1>3, <1>4, <1>5 DEF AgreeInv
<1>11. CancelledInv'
  BY <1>1, <1>2, <1>3, <1>4, <1>5 DEF CancelledInv
<1>12. AskedInv'
  BY <1>1, <1>2, <1>3, <1>4, <1>5 DEF AskedInv
<1>13. ClosedInv'
  BY <1>1, <1>2, <1>3, <1>4, <1>5 DEF ClosedInv
<1>14. PricedInv'
  BY <1>1, <1>2, <1>3, <1>4, <1>5 DEF PricedInv
<1>15. RowCovered'
  <2> SUFFICES ASSUME Sound'
               PROVE  /\ row.priced => (row'.filled + Recorded' >= Quantity /\ order.qty + Recorded' >= Quantity)
                      /\ row.closed => row.booked + Recorded' >= Quantity
    BY <1>1, <1>2, <1>3, <1>4, <1>5 DEF RowCovered, Covers, Sound
  <2>1. Sound /\ row.booked \in Nat /\ order.qty \in Nat /\ row.filled \in Nat
    BY <1>6, FieldTypes DEF Grows
  <2>2. row.closed => row.booked + Recorded' >= Quantity
    BY <1>1, <1>2, <1>3, <1>4, <1>5, <1>6, <2>1, StillCovers DEF RowCovered
  <2>3. row.priced => (order.qty + Recorded' >= Quantity /\ row.filled + Recorded' >= Quantity)
    BY <1>1, <1>2, <1>3, <1>4, <1>5, <1>6, <2>1, StillCovers DEF RowCovered
  <2>4. Covers(0)
    <3>1. CoversAll(0)
      BY <1>1, <1>3, <2>1 DEF AdminsCovered
    <3>2. Everything = Recorded
      BY <1>5, HandTypes
    <3> QED BY <3>1, <3>2, CoversIs
  <2>5. 0 + Recorded' >= Quantity
    BY <1>1, <1>2, <1>3, <1>4, <1>5, <1>6, <2>1, <2>4, StillCovers
  <2> QED BY <1>4, <2>2, <2>3, <2>5
<1>16. GroupCovered'
  BY <1>1, <1>2, <1>6, GroupCoveredSame
<1>17. ExitsCovered'
  <2>1. ASSUME Sound', admins[a].own PROVE admins[a].qty + Recorded' >= Quantity
    <3>1. Sound /\ admins[a].qty \in Nat /\ Covers(admins[a].qty)
      BY <1>1, <1>3, <1>6, <2>1, FieldTypes DEF Grows, AdminsCovered
    <3> QED BY <1>2, <1>6, <2>1, <3>1, StillCovers
  <2> QED BY <1>1, <1>2, <1>3, <1>4, <1>5, <1>6, <2>1, ExitsStep
<1>18. AdminsCovered'
  BY <1>1, <1>2, <1>3, <1>4, <1>5, <1>6, AdminsStep
<1>19. ClosingCovered'
  BY <1>1, <1>2, <1>6, ClosingCoveredSame
<1>20. DropCovered'
  BY <1>1, <1>2, <1>3, <1>4, <1>5, <1>6, PlaceSame, DropCoveredSame
<1>21. StopInv'
  BY <1>1, <1>2, StopSame
<1> QED BY <1>2, <1>7, <1>8, <1>9, <1>10, <1>11, <1>12, <1>13, <1>14, <1>15, <1>16, <1>17, <1>18, <1>19, <1>20, <1>21 DEF Parts

LEMMA StartClosingKeeps ==
    ASSUME TypeInv, Parts, StartClosing
    PROVE  TypeInv' /\ Parts'
<1>1. /\ EntryInv /\ GroupInv /\ LevelInv /\ AgreeInv /\ CancelledInv /\ AskedInv /\ ClosedInv /\ PricedInv
      /\ RowCovered /\ GroupCovered /\ ExitsCovered /\ AdminsCovered /\ ClosingCovered /\ DropCovered /\ StopInv
  BY DEF Parts
<1>2. TypeInv' /\ UNCHANGED <<scenario, config, entry, row, partial, order, group, jobs, worker, tick, poll, exits, admins, writes, failures, restarts>>
  BY <1>1, StartClosingType
<1>3. /\ "deactivation" \in scenario /\ closing'.pc = "fetch" /\ closing'.qty = 0 /\ ~cached'
  BY DEF StartClosing, Request, NoClosing, RemoveOrder
<1>4. \A z \in Sources : exits'[z] = exits[z] \/ exits'[z].pc = "idle"
  BY <1>2
<1>5. Grows
  BY <1>1, <1>2, <1>3, <1>4, GrowsSame
<1>6. EntryInv'
  BY <1>1, <1>2, <1>3, <1>4, OrderDropped
<1>7. GroupInv'
  BY <1>1, <1>2, GroupSame
<1>8. LevelInv'
  BY <1>1, <1>2, LevelSame
<1>9. AgreeInv'
  BY <1>1, <1>2, <1>3, <1>4, OrderDropped
<1>10. CancelledInv'
  BY <1>1, <1>2, <1>3, <1>4 DEF CancelledInv
<1>11. AskedInv'
  BY <1>1, <1>2, <1>3, <1>4 DEF AskedInv
<1>12. ClosedInv'
  BY <1>1, <1>2, ClosedSame
<1>13. PricedInv'
  BY <1>1, <1>2, <1>3, <1>4, OrderDropped
<1>14. RowCovered'
  BY <1>1, <1>2, <1>5, RowCoveredSame
<1>15. GroupCovered'
  BY <1>1, <1>2, <1>5, GroupCoveredSame
<1>16. ExitsCovered'
  BY <1>1, <1>2, <1>5, ExitsCoveredSame
<1>17. AdminsCovered'
  BY <1>1, <1>2, <1>5, AdminsCoveredSame
<1>18. ClosingCovered'
  BY <1>1, <1>2, <1>3, <1>4 DEF ClosingCovered
<1>19. DropCovered'
  BY <1>1, <1>2, <1>3, <1>4 DEF DropCovered
<1>20. StopInv'
  BY <1>1, <1>2, <1>3, <1>4, OrderDropped
<1> QED BY <1>2, <1>6, <1>7, <1>8, <1>9, <1>10, <1>11, <1>12, <1>13, <1>14, <1>15, <1>16, <1>17, <1>18, <1>19, <1>20 DEF Parts

LEMMA ClosingFetchKeeps ==
    ASSUME TypeInv, Parts, ClosingFetch
    PROVE  TypeInv' /\ Parts'
<1>1. /\ EntryInv /\ GroupInv /\ LevelInv /\ AgreeInv /\ CancelledInv /\ AskedInv /\ ClosedInv /\ PricedInv
      /\ RowCovered /\ GroupCovered /\ ExitsCovered /\ AdminsCovered /\ ClosingCovered /\ DropCovered /\ StopInv
  BY DEF Parts
<1>2. TypeInv' /\ UNCHANGED <<scenario, config, entry, row, partial, cached, order, trail, exiting, group, jobs, worker, tick, poll, exits, admins, writes, requests, restarts>>
  BY <1>1, ClosingFetchType
<1>3. /\ closing.pc = "fetch" /\ closing'.pc \in {"groups", "idle"}
      /\ closing'.qty # 0 => (row.priced /\ closing'.qty = row.filled)
      /\ closing'.pc = "idle" => failures' # 0
      /\ failures # 0 => failures' # 0
  <2>1. closing \in ClosingSet
    BY DEF TypeInv
  <2>2. failures \in Nat /\ closing.pc = "fetch"
    BY DEF TypeInv, ClosingFetch
  <2>3. CASE closing' = [closing EXCEPT !.pc = "groups",
                                        !.qty = IF row.status # "CANCELLED" /\ row.priced THEN row.filled ELSE 0] /\ UNCHANGED failures
    BY <2>1, <2>2, <2>3 DEF ClosingSet
  <2>4. CASE Fail /\ closing' = NoClosing
    BY <2>2, <2>4 DEF Fail, NoClosing
  <2> QED BY <2>3, <2>4 DEF ClosingFetch
<1>4. Grows
  BY <1>1, <1>2, <1>3, GrowsSame
<1>5. EntryInv'
  BY <1>1, <1>2, <1>3, PlaceSame DEF EntryInv, Busy
<1>6. GroupInv'
  BY <1>1, <1>2, GroupSame
<1>7. LevelInv'
  BY <1>1, <1>2, LevelSame
<1>8. AgreeInv'
  BY <1>1, <1>2, <1>3 DEF AgreeInv
<1>9. CancelledInv'
  BY <1>1, <1>2, <1>3 DEF CancelledInv
<1>10. AskedInv'
  BY <1>1, <1>2, <1>3 DEF AskedInv
<1>11. ClosedInv'
  BY <1>1, <1>2, <1>3 DEF ClosedInv
<1>12. PricedInv'
  BY <1>1, <1>2, <1>3 DEF PricedInv
<1>13. RowCovered'
  BY <1>1, <1>2, <1>4, RowCoveredSame
<1>14. GroupCovered'
  BY <1>1, <1>2, <1>4, GroupCoveredSame
<1>15. ExitsCovered'
  BY <1>1, <1>2, <1>4, ExitsCoveredSame
<1>16. AdminsCovered'
  BY <1>1, <1>2, <1>4, AdminsCoveredSame
<1>17. ClosingCovered'
  <2>1. ASSUME Sound', row.priced PROVE row.filled + Recorded' >= Quantity
    <3>1. Sound /\ row.filled \in Nat /\ Covers(row.filled)
      BY <1>1, <1>4, <2>1, FieldTypes DEF Grows, RowCovered
    <3> QED BY <1>2, <1>4, <2>1, <3>1, StillCovers
  <2> QED BY <1>1, <1>2, <1>3, <2>1 DEF ClosingCovered, Covers
<1>18. DropCovered'
  <2>1. closing'.pc = "idle" => ~Sound'
    BY <1>3 DEF Sound
  <2> QED BY <1>1, <1>2, <1>3, <1>4, <2>1, PlaceSame, DropCoveredSame
<1>19. StopInv'
  BY <1>1, <1>2, StopSame
<1> QED BY <1>2, <1>5, <1>6, <1>7, <1>8, <1>9, <1>10, <1>11, <1>12, <1>13, <1>14, <1>15, <1>16, <1>17, <1>18, <1>19 DEF Parts

LEMMA CancelGroupsByStrategyKeeps ==
    ASSUME TypeInv, Parts, CancelGroupsByStrategy
    PROVE  TypeInv' /\ Parts'
<1>1. /\ EntryInv /\ GroupInv /\ LevelInv /\ AgreeInv /\ CancelledInv /\ AskedInv /\ ClosedInv /\ PricedInv
      /\ RowCovered /\ GroupCovered /\ ExitsCovered /\ AdminsCovered /\ ClosingCovered /\ DropCovered /\ StopInv
  BY DEF Parts
<1>2. TypeInv' /\ UNCHANGED <<scenario, config, entry, row, partial, cached, order, trail, exiting, jobs, worker, tick, poll, exits, admins, writes, failures, requests, restarts>>
  BY <1>1, CancelGroupsByStrategyType
<1>3. /\ closing.pc = "groups" /\ closing'.pc \in {"partial", "price"} /\ closing'.qty = closing.qty
      /\ closing'.remaining = group.remaining
      /\ closing'.pc = "partial" => (group.remaining # 0 /\ group'.state = "CANCELLED")
  <2>1. closing \in ClosingSet
    BY DEF TypeInv
  <2>2. group \in GroupSet /\ group.remaining \in Nat
    BY FieldTypes DEF TypeInv
  <2>3. PICK ltp \in BOOLEAN : closing' = [closing EXCEPT
               !.pc = IF group.state = "ACTIVE" /\ group.remaining > 0 /\ ltp THEN "partial" ELSE "price",
               !.remaining = group.remaining]
    BY DEF CancelGroupsByStrategy
  <2> QED BY <2>1, <2>2, <2>3 DEF CancelGroupsByStrategy, ClosingSet, GroupSet
<1>4. /\ group'.filled = group.filled /\ group'.remaining = group.remaining /\ group'.levels = group.levels
      /\ group'.state = group.state \/ (group.state = "ACTIVE" /\ group'.state = "CANCELLED")
  <2>1. group \in GroupSet
    BY DEF TypeInv
  <2> QED BY <2>1 DEF CancelGroupsByStrategy, GroupSet
<1>5. closing'.pc = "partial" => group.filled
  BY <1>1, <1>3 DEF EntryInv
<1>6. Grows
  BY <1>1, <1>2, <1>3, <1>4, <1>5, GrowsSame
<1>7. EntryInv'
  BY <1>1, <1>2, <1>3, <1>4, <1>5, GroupCancelled
<1>8. GroupInv'
  BY <1>1, <1>2, <1>3, <1>4, <1>5, GroupCancelled
<1>9. LevelInv'
  BY <1>1, <1>2, <1>3, <1>4, <1>5, GroupCancelled
<1>10. AgreeInv'
  BY <1>1, <1>2, <1>3, <1>4, <1>5, GroupCancelled
<1>11. CancelledInv'
  BY <1>1, <1>2, <1>3, <1>4, <1>5 DEF CancelledInv
<1>12. AskedInv'
  BY <1>1, <1>2, <1>3, <1>4, <1>5 DEF AskedInv
<1>13. ClosedInv'
  BY <1>1, <1>2, ClosedSame
<1>14. PricedInv'
  BY <1>1, <1>2, PricedSame
<1>15. RowCovered'
  BY <1>1, <1>2, <1>6, RowCoveredSame
<1>16. GroupCovered'
  BY <1>1, <1>2, <1>3, <1>4, <1>5, <1>6, GroupCoveredSame
<1>17. ExitsCovered'
  BY <1>1, <1>2, <1>6, ExitsCoveredSame
<1>18. AdminsCovered'
  BY <1>1, <1>2, <1>6, AdminsCoveredSame
<1>19. ClosingCovered'
  <2>1. ASSUME Sound', closing.qty # 0 PROVE closing.qty + Recorded' >= Quantity
    <3>1. Sound /\ closing.qty \in Nat /\ Covers(closing.qty)
      BY <1>1, <1>6, <2>1, FieldTypes DEF Grows, ClosingCovered
    <3> QED BY <1>2, <1>6, <2>1, <3>1, StillCovers
  <2>2. ASSUME Sound', group.filled PROVE group.remaining + partial' + InHand' >= Quantity
    <3>1. Sound /\ group.remaining \in Nat /\ CoversAll(group.remaining)
      BY <1>1, <1>6, <2>2, FieldTypes DEF Grows, GroupCovered
    <3> QED BY <1>2, <1>6, <2>2, <3>1, StillCovers
  <2> QED BY <1>1, <1>2, <1>3, <1>4, <1>5, <2>1, <2>2 DEF ClosingCovered, Covers, CoversAll
<1>20. DropCovered'
  BY <1>1, <1>2, <1>3, <1>4, <1>5, <1>6, PlaceSame, DropCoveredSame
<1>21. StopInv'
  BY <1>1, <1>2, <1>3, <1>4, <1>5, GroupCancelled
<1> QED BY <1>2, <1>7, <1>8, <1>9, <1>10, <1>11, <1>12, <1>13, <1>14, <1>15, <1>16, <1>17, <1>18, <1>19, <1>20, <1>21 DEF Parts

LEMMA ClosingPartialExitKeeps ==
    ASSUME TypeInv, Parts, ClosingPartialExit
    PROVE  TypeInv' /\ Parts'
<1>1. /\ EntryInv /\ GroupInv /\ LevelInv /\ AgreeInv /\ CancelledInv /\ AskedInv /\ ClosedInv /\ PricedInv
      /\ RowCovered /\ GroupCovered /\ ExitsCovered /\ AdminsCovered /\ ClosingCovered /\ DropCovered /\ StopInv
  BY DEF Parts
<1>2. TypeInv' /\ UNCHANGED <<scenario, config, entry, row, cached, order, trail, exiting, group, jobs, worker, tick, poll, exits, admins, writes, requests, restarts>>
  BY <1>1, ClosingPartialExitType
<1>3. /\ closing.pc = "partial" /\ closing'.pc = "zero" /\ closing'.qty = closing.qty
      /\ closing.remaining \in Nat
  <2>1. closing \in ClosingSet
    BY DEF TypeInv
  <2> QED BY <2>1, FieldTypes DEF ClosingPartialExit, ClosingSet
<1>4. /\ failures' = 0 => failures = 0 /\ partial' = partial + closing.remaining
      /\ failures # 0 => failures' # 0
  <2>1. failures \in Nat /\ partial \in Nat
    BY DEF TypeInv
  <2>2. recordPaperPartialExit(closing.remaining)
    BY DEF ClosingPartialExit
  <2> QED BY <1>3, <2>1, <2>2 DEF recordPaperPartialExit, Fail
<1>5. Grows
  <2>1. Sound' => (Sound /\ partial' = partial + closing.remaining)
    BY <1>2, <1>4 DEF Sound, MayLoseUnits
  <2>2. InHand' = InHand /\ (Forced' <=> Forced)
    BY <1>2 DEF InHand, Forced
  <2>3. InHand \in Nat /\ partial \in Nat /\ closing.remaining \in Nat
    BY <1>3, HandTypes
  <2>4. Sound' => (Recorded' >= Recorded /\ Everything' >= Everything)
    BY <2>1, <2>2, <2>3 DEF Recorded, Everything
  <2> QED BY <2>1, <2>4 DEF Grows
<1>6. EntryInv'
  BY <1>1, <1>2, <1>3, <1>4, PlaceSame DEF EntryInv, Busy
<1>7. GroupInv'
  BY <1>1, <1>2, GroupSame
<1>8. LevelInv'
  BY <1>1, <1>2, LevelSame
<1>9. AgreeInv'
  BY <1>1, <1>2, <1>3, <1>4 DEF AgreeInv
<1>10. CancelledInv'
  BY <1>1, <1>2, <1>3, <1>4 DEF CancelledInv
<1>11. AskedInv'
  BY <1>1, <1>2, <1>3, <1>4 DEF AskedInv
<1>12. ClosedInv'
  BY <1>1, <1>2, <1>3, <1>4 DEF ClosedInv
<1>13. PricedInv'
  BY <1>1, <1>2, <1>3, <1>4 DEF PricedInv
<1>14. RowCovered'
  BY <1>1, <1>2, <1>5, RowCoveredSame
<1>15. GroupCovered'
  BY <1>1, <1>2, <1>5, GroupCoveredSame
<1>16. ExitsCovered'
  BY <1>1, <1>2, <1>5, ExitsCoveredSame
<1>17. AdminsCovered'
  BY <1>1, <1>2, <1>5, AdminsCoveredSame
<1>18. ClosingCovered'
  <2>1. ASSUME Sound', closing.qty # 0 PROVE closing.qty + Recorded' >= Quantity
    <3>1. Sound /\ closing.qty \in Nat /\ Covers(closing.qty)
      BY <1>1, <1>5, <2>1, FieldTypes DEF Grows, ClosingCovered
    <3> QED BY <1>2, <1>5, <2>1, <3>1, StillCovers
  <2>2. ASSUME Sound' PROVE 0 + partial' + InHand' >= Quantity
    <3>1. Sound /\ partial' = partial + closing.remaining /\ InHand' = InHand
      BY <1>2, <1>4, <1>5, <2>2 DEF Grows, Sound, InHand
    <3>2. closing.remaining + partial + InHand >= Quantity
      BY <1>1, <1>3, <3>1 DEF ClosingCovered, CoversAll
    <3>3. closing.remaining \in Nat /\ partial \in Nat /\ InHand \in Nat /\ Quantity \in Nat
      BY <1>3, HandTypes
    <3>4. 0 + (partial + closing.remaining) + InHand >= Quantity
      BY <3>2, <3>3
    <3> QED BY <3>1, <3>4
  <2> QED BY <1>1, <1>2, <1>3, <1>4, <2>1, <2>2 DEF ClosingCovered, Covers, CoversAll
<1>19. DropCovered'
  BY <1>1, <1>2, <1>3, <1>4, <1>5, PlaceSame, DropCoveredSame
<1>20. StopInv'
  BY <1>1, <1>2, StopSame
<1> QED BY <1>2, <1>6, <1>7, <1>8, <1>9, <1>10, <1>11, <1>12, <1>13, <1>14, <1>15, <1>16, <1>17, <1>18, <1>19, <1>20 DEF Parts

LEMMA ClosingUpdateFilledQtyKeeps ==
    ASSUME TypeInv, Parts, ClosingUpdateFilledQty
    PROVE  TypeInv' /\ Parts'
<1>1. /\ EntryInv /\ GroupInv /\ LevelInv /\ AgreeInv /\ CancelledInv /\ AskedInv /\ ClosedInv /\ PricedInv
      /\ RowCovered /\ GroupCovered /\ ExitsCovered /\ AdminsCovered /\ ClosingCovered /\ DropCovered /\ StopInv
  BY DEF Parts
<1>2. TypeInv' /\ UNCHANGED <<scenario, config, entry, partial, cached, order, trail, exiting, group, jobs, worker, tick, poll, exits, admins, writes, requests, restarts>>
  BY <1>1, ClosingUpdateFilledQtyType
<1>3. /\ closing.pc = "zero" /\ closing'.pc = "price" /\ closing'.qty = closing.qty
  <2>1. closing \in ClosingSet
    BY DEF TypeInv
  <2> QED BY <2>1 DEF ClosingUpdateFilledQty, ClosingSet
<1>4. /\ row'.status = row.status /\ row'.priced = row.priced /\ row'.closed = row.closed /\ row'.booked = row.booked
      /\ row'.filled = row.filled \/ row'.filled = 0
      /\ failures # 0 => failures' # 0
  <2>1. row \in RowSet /\ failures \in Nat
    BY DEF TypeInv
  <2>2. CASE row' = [row EXCEPT !.filled = 0] /\ UNCHANGED failures
    BY <2>1, <2>2 DEF RowSet
  <2>3. CASE Fail /\ UNCHANGED row
    BY <2>1, <2>3 DEF Fail
  <2> QED BY <2>2, <2>3 DEF ClosingUpdateFilledQty, Write
<1>5. group.filled /\ group.state # "ACTIVE" /\ entry = 5 /\ Forced
  <2>1. group.filled /\ group.state # "ACTIVE" /\ entry = 5
    BY <1>1, <1>3 DEF CancelledInv, EntryInv
  <2>2. "deactivation" \in scenario
    BY <1>1, <1>3 DEF AskedInv
  <2> QED BY <2>1, <2>2 DEF Forced
<1>6. Grows
  BY <1>1, <1>2, <1>3, <1>4, <1>5, GrowsSame
<1>7. EntryInv'
  BY <1>1, <1>2, <1>3, <1>4, <1>5, PlaceSame DEF EntryInv, Busy
<1>8. GroupInv'
  BY <1>1, <1>2, GroupSame
<1>9. LevelInv'
  BY <1>1, <1>2, LevelSame
<1>10. AgreeInv'
  BY <1>1, <1>2, <1>3, <1>4, <1>5 DEF AgreeInv
<1>11. CancelledInv'
  BY <1>1, <1>2, <1>3, <1>4, <1>5 DEF CancelledInv
<1>12. AskedInv'
  BY <1>1, <1>2, <1>3, <1>4, <1>5 DEF AskedInv
<1>13. ClosedInv'
  BY <1>1, <1>2, <1>3, <1>4, <1>5 DEF ClosedInv
<1>14. PricedInv'
  BY <1>1, <1>2, <1>3, <1>4, <1>5 DEF PricedInv
<1>15. RowCovered'
  <2> SUFFICES ASSUME Sound'
               PROVE  /\ row.priced => (row'.filled + Recorded' >= Quantity /\ order.qty + Recorded' >= Quantity)
                      /\ row.closed => row.booked + Recorded' >= Quantity
    BY <1>1, <1>2, <1>3, <1>4, <1>5 DEF RowCovered, Covers, Sound
  <2>1. Sound /\ row.booked \in Nat /\ order.qty \in Nat /\ row.filled \in Nat
    BY <1>6, FieldTypes DEF Grows
  <2>2. row.closed => row.booked + Recorded' >= Quantity
    BY <1>1, <1>2, <1>3, <1>4, <1>5, <1>6, <2>1, StillCovers DEF RowCovered
  <2>3. row.priced => (order.qty + Recorded' >= Quantity /\ row.filled + Recorded' >= Quantity)
    BY <1>1, <1>2, <1>3, <1>4, <1>5, <1>6, <2>1, StillCovers DEF RowCovered
  <2>4. Covers(0)
    <3>1. CoversAll(0)
      BY <1>1, <1>3, <2>1 DEF ClosingCovered
    <3>2. Everything = Recorded
      BY <1>5, HandTypes
    <3> QED BY <3>1, <3>2, CoversIs
  <2>5. 0 + Recorded' >= Quantity
    BY <1>1, <1>2, <1>3, <1>4, <1>5, <1>6, <2>1, <2>4, StillCovers
  <2> QED BY <1>4, <2>2, <2>3, <2>5
<1>16. GroupCovered'
  BY <1>1, <1>2, <1>6, GroupCoveredSame
<1>17. ExitsCovered'
  BY <1>1, <1>2, <1>6, ExitsCoveredSame
<1>18. AdminsCovered'
  BY <1>1, <1>2, <1>6, AdminsCoveredSame
<1>19. ClosingCovered'
  <2>1. ASSUME Sound', closing.qty # 0 PROVE closing.qty + Recorded' >= Quantity
    <3>1. Sound /\ closing.qty \in Nat /\ Covers(closing.qty)
      BY <1>1, <1>6, <2>1, FieldTypes DEF Grows, ClosingCovered
    <3> QED BY <1>2, <1>6, <2>1, <3>1, StillCovers
  <2> QED BY <1>1, <1>2, <1>3, <1>4, <1>5, <2>1 DEF ClosingCovered, Covers
<1>20. DropCovered'
  BY <1>1, <1>2, <1>3, <1>4, <1>5, <1>6, PlaceSame, DropCoveredSame
<1>21. StopInv'
  BY <1>1, <1>2, StopSame
<1> QED BY <1>2, <1>7, <1>8, <1>9, <1>10, <1>11, <1>12, <1>13, <1>14, <1>15, <1>16, <1>17, <1>18, <1>19, <1>20, <1>21 DEF Parts

LEMMA UpdatePaperExitPriceKeeps ==
    ASSUME TypeInv, Parts, UpdatePaperExitPrice
    PROVE  TypeInv' /\ Parts'
<1>1. /\ EntryInv /\ GroupInv /\ LevelInv /\ AgreeInv /\ CancelledInv /\ AskedInv /\ ClosedInv /\ PricedInv
      /\ RowCovered /\ GroupCovered /\ ExitsCovered /\ AdminsCovered /\ ClosingCovered /\ DropCovered /\ StopInv
  BY DEF Parts
<1>2. TypeInv' /\ UNCHANGED <<scenario, config, entry, partial, cached, order, trail, exiting, group, jobs, worker, tick, poll, exits, admins, writes, requests, restarts>>
  BY <1>1, UpdatePaperExitPriceType
<1>3. /\ closing.pc = "price" /\ closing'.pc = "cancel" /\ closing'.qty = closing.qty
  <2>1. closing \in ClosingSet
    BY DEF TypeInv
  <2> QED BY <2>1 DEF UpdatePaperExitPrice, ClosingSet
<1>4. /\ row'.priced = row.priced /\ row'.filled = row.filled /\ row'.status = row.status
      /\ row.closed => row'.closed /\ row'.booked = row.booked
      /\ (row'.closed /\ ~row.closed) => (row'.booked = closing.qty /\ closing.qty # 0)
      /\ failures # 0 => failures' # 0
  <2>1. row \in RowSet /\ failures \in Nat
    BY DEF TypeInv
  <2>2. CASE row' = row /\ UNCHANGED failures
    BY <2>2
  <2>3. CASE closing.qty # 0 /\ ~row.closed /\ row' = Closed(closing.qty) /\ UNCHANGED failures
    BY <2>1, <2>3 DEF Closed, RowSet
  <2>4. CASE Fail /\ UNCHANGED row
    BY <2>1, <2>4 DEF Fail
  <2> QED BY <2>2, <2>3, <2>4 DEF UpdatePaperExitPrice, Write
<1>5. Grows
  BY <1>1, <1>2, <1>3, <1>4, GrowsSame
<1>6. EntryInv'
  BY <1>1, <1>2, <1>3, <1>4, PlaceSame DEF EntryInv, Busy
<1>7. GroupInv'
  BY <1>1, <1>2, GroupSame
<1>8. LevelInv'
  BY <1>1, <1>2, LevelSame
<1>9. AgreeInv'
  BY <1>1, <1>2, <1>3, <1>4 DEF AgreeInv
<1>10. CancelledInv'
  BY <1>1, <1>2, <1>3, <1>4 DEF CancelledInv
<1>11. AskedInv'
  BY <1>1, <1>2, <1>3, <1>4 DEF AskedInv
<1>12. ClosedInv'
  BY <1>1, <1>2, <1>3, <1>4 DEF ClosedInv
<1>13. PricedInv'
  BY <1>1, <1>2, <1>3, <1>4 DEF PricedInv
<1>14. RowCovered'
  <2> SUFFICES ASSUME Sound'
               PROVE  /\ row.priced => (row.filled + Recorded' >= Quantity /\ order.qty + Recorded' >= Quantity)
                      /\ row'.closed => row'.booked + Recorded' >= Quantity
    BY <1>1, <1>2, <1>3, <1>4 DEF RowCovered, Covers, Sound
  <2>1. Sound /\ row.booked \in Nat /\ order.qty \in Nat /\ row.filled \in Nat /\ closing.qty \in Nat
    BY <1>5, FieldTypes DEF Grows
  <2>2. row.closed => row.booked + Recorded' >= Quantity
    BY <1>1, <1>2, <1>3, <1>4, <1>5, <2>1, StillCovers DEF RowCovered
  <2>3. row.priced => (order.qty + Recorded' >= Quantity /\ row.filled + Recorded' >= Quantity)
    BY <1>1, <1>2, <1>3, <1>4, <1>5, <2>1, StillCovers DEF RowCovered
  <2>4. (row'.closed /\ ~row.closed) => Covers(closing.qty)
    BY <1>1, <1>3, <1>4, <2>1 DEF ClosingCovered
  <2>5. (row'.closed /\ ~row.closed) => closing.qty + Recorded' >= Quantity
    BY <1>1, <1>2, <1>3, <1>4, <1>5, <2>1, <2>4, StillCovers
  <2>6. row'.closed => ((row.closed /\ row'.booked = row.booked) \/ (~row.closed /\ row'.booked = closing.qty))
    BY <1>4
  <2> QED BY <2>2, <2>3, <2>5, <2>6
<1>15. GroupCovered'
  BY <1>1, <1>2, <1>5, GroupCoveredSame
<1>16. ExitsCovered'
  BY <1>1, <1>2, <1>5, ExitsCoveredSame
<1>17. AdminsCovered'
  BY <1>1, <1>2, <1>5, AdminsCoveredSame
<1>18. ClosingCovered'
  <2>1. ASSUME Sound', closing.qty # 0 PROVE closing.qty + Recorded' >= Quantity
    <3>1. Sound /\ closing.qty \in Nat /\ Covers(closing.qty)
      BY <1>1, <1>5, <2>1, FieldTypes DEF Grows, ClosingCovered
    <3> QED BY <1>2, <1>5, <2>1, <3>1, StillCovers
  <2> QED BY <1>1, <1>2, <1>3, <1>4, <2>1 DEF ClosingCovered, Covers
<1>19. DropCovered'
  BY <1>1, <1>2, <1>3, <1>4, <1>5, PlaceSame, DropCoveredSame
<1>20. StopInv'
  BY <1>1, <1>2, StopSame
<1> QED BY <1>2, <1>6, <1>7, <1>8, <1>9, <1>10, <1>11, <1>12, <1>13, <1>14, <1>15, <1>16, <1>17, <1>18, <1>19, <1>20 DEF Parts

LEMMA CancelAllOrdersByStrategyKeeps ==
    ASSUME TypeInv, Parts, CancelAllOrdersByStrategy
    PROVE  TypeInv' /\ Parts'
<1>1. /\ EntryInv /\ GroupInv /\ LevelInv /\ AgreeInv /\ CancelledInv /\ AskedInv /\ ClosedInv /\ PricedInv
      /\ RowCovered /\ GroupCovered /\ ExitsCovered /\ AdminsCovered /\ ClosingCovered /\ DropCovered /\ StopInv
  BY DEF Parts
<1>2. TypeInv' /\ UNCHANGED <<scenario, config, entry, partial, cached, order, trail, exiting, group, jobs, worker, tick, poll, exits, admins, writes, requests, restarts>>
  BY <1>1, CancelAllOrdersByStrategyType
<1>3. /\ closing.pc = "cancel" /\ closing'.pc = "idle" /\ closing'.qty = 0
  BY DEF CancelAllOrdersByStrategy, NoClosing
<1>4. /\ row'.priced = row.priced /\ row'.filled = row.filled
      /\ row.closed => row'.closed /\ row'.booked = row.booked
      /\ (row'.closed /\ ~row.closed) => (row'.booked = row.filled /\ row.priced)
      /\ row'.status = row.status \/ (row'.status = "CANCELLED" /\ (row.priced => row'.closed))
      /\ failures' = 0 => failures = 0 /\ (row.priced => row'.closed)
      /\ failures # 0 => failures' # 0
  <2>1. row \in RowSet /\ failures \in Nat /\ ((row.priced /\ row.status = "CANCELLED") => row.closed)
    BY <1>1 DEF TypeInv, EntryInv
  <2>2. CASE row.status = "CANCELLED" /\ row' = row /\ UNCHANGED failures
    BY <2>1, <2>2
  <2>3. CASE row.priced /\ ~row.closed /\ row' = [Closed(row.filled) EXCEPT !.status = "CANCELLED"] /\ UNCHANGED failures
    BY <2>1, <2>3 DEF Closed, RowSet
  <2>4. CASE ~(row.priced /\ ~row.closed) /\ row' = [row EXCEPT !.status = "CANCELLED"] /\ UNCHANGED failures
    BY <2>1, <2>4 DEF RowSet
  <2>5. CASE Fail /\ UNCHANGED row
    BY <2>1, <2>5 DEF Fail
  <2> QED BY <2>2, <2>3, <2>4, <2>5 DEF CancelAllOrdersByStrategy, Write
<1>5. Grows
  BY <1>1, <1>2, <1>3, <1>4, GrowsSame
<1>6. EntryInv'
  BY <1>1, <1>2, <1>3, <1>4, PlaceSame DEF EntryInv, Busy
<1>7. GroupInv'
  BY <1>1, <1>2, GroupSame
<1>8. LevelInv'
  BY <1>1, <1>2, LevelSame
<1>9. AgreeInv'
  BY <1>1, <1>2, <1>3, <1>4 DEF AgreeInv
<1>10. CancelledInv'
  BY <1>1, <1>2, <1>3, <1>4 DEF CancelledInv
<1>11. AskedInv'
  BY <1>1, <1>2, <1>3, <1>4 DEF AskedInv
<1>12. ClosedInv'
  BY <1>1, <1>2, <1>3, <1>4 DEF ClosedInv
<1>13. PricedInv'
  BY <1>1, <1>2, <1>3, <1>4 DEF PricedInv
<1>14. RowCovered'
  <2> SUFFICES ASSUME Sound'
               PROVE  /\ row.priced => (row.filled + Recorded' >= Quantity /\ order.qty + Recorded' >= Quantity)
                      /\ row'.closed => row'.booked + Recorded' >= Quantity
    BY <1>1, <1>2, <1>3, <1>4 DEF RowCovered, Covers, Sound
  <2>1. Sound /\ row.booked \in Nat /\ order.qty \in Nat /\ row.filled \in Nat /\ closing.qty \in Nat
    BY <1>5, FieldTypes DEF Grows
  <2>2. row.closed => row.booked + Recorded' >= Quantity
    BY <1>1, <1>2, <1>3, <1>4, <1>5, <2>1, StillCovers DEF RowCovered
  <2>3. row.priced => (order.qty + Recorded' >= Quantity /\ row.filled + Recorded' >= Quantity)
    BY <1>1, <1>2, <1>3, <1>4, <1>5, <2>1, StillCovers DEF RowCovered
  <2>4. (row'.closed /\ ~row.closed) => Covers(row.filled)
    BY <1>1, <1>3, <1>4, <2>1 DEF RowCovered
  <2>5. (row'.closed /\ ~row.closed) => row.filled + Recorded' >= Quantity
    BY <1>1, <1>2, <1>3, <1>4, <1>5, <2>1, <2>4, StillCovers
  <2>6. row'.closed => ((row.closed /\ row'.booked = row.booked) \/ (~row.closed /\ row'.booked = row.filled))
    BY <1>4
  <2> QED BY <2>2, <2>3, <2>5, <2>6
<1>15. GroupCovered'
  BY <1>1, <1>2, <1>5, GroupCoveredSame
<1>16. ExitsCovered'
  BY <1>1, <1>2, <1>5, ExitsCoveredSame
<1>17. AdminsCovered'
  BY <1>1, <1>2, <1>5, AdminsCoveredSame
<1>18. ClosingCovered'
  BY <1>1, <1>2, <1>3, <1>4 DEF ClosingCovered
<1>19. DropCovered'
  BY <1>1, <1>2, <1>3, <1>4 DEF DropCovered, Sound
<1>20. StopInv'
  BY <1>1, <1>2, StopSame
<1> QED BY <1>2, <1>6, <1>7, <1>8, <1>9, <1>10, <1>11, <1>12, <1>13, <1>14, <1>15, <1>16, <1>17, <1>18, <1>19, <1>20 DEF Parts

\* After a restart only exits that prices trigger can have been in progress,
\* or the books are not sound any more.
LEMMA RestartKeeps ==
    ASSUME TypeInv, Parts, Restart
    PROVE  TypeInv' /\ Parts'
<1>1. EntryInv /\ RowCovered
  BY DEF Parts
<1>2. TypeInv' /\ UNCHANGED <<scenario, config, row, partial, failures, requests>>
  BY RestartType
<1>3. /\ entry' = 5 /\ Filled' /\ Added' /\ (cached' <=> OpenRow) /\ order'.qty = row.filled
      /\ tick' = 0 /\ ~poll' /\ restarts' = restarts + 1
  BY PlaceAtEnd DEF Restart
<1>4. /\ group'.filled = FALSE /\ group'.levels = NoGroup.levels /\ group'.remaining = 0 /\ group'.state = "NONE"
      /\ worker'.pc = "idle" /\ ~Busy' /\ ActiveLevels("TP")' = {}
  <2>1. group' = NoGroup /\ worker' = Idle
    BY DEF Restart
  <2>2. group'.filled = FALSE /\ group'.levels = NoGroup.levels /\ group'.remaining = 0 /\ group'.state = "NONE"
    BY <2>1 DEF NoGroup
  <2>3. worker'.pc = "idle" /\ ~Busy'
    BY <2>1 DEF Idle, Busy
  <2> QED BY <2>2, <2>3, NoLevelsNext
<1>5. /\ \A s \in Sources : exits'[s].pc = "idle"
      /\ \A a \in Admins : admins'[a].pc = "idle"
      /\ closing'.pc = "idle" /\ closing'.qty = 0
  BY DEF Restart, NoExit, NoAdmin, NoClosing
<1>6. Sound' => /\ Sound
                /\ Recorded' = partial /\ Recorded = partial
  <2> SUFFICES ASSUME Sound' PROVE Sound /\ Recorded' = partial /\ Recorded = partial
    OBVIOUS
  <2>1. restarts \in Nat
    BY DEF TypeInv
  <2>2. ~Forced /\ ~Forced'
    BY <1>2, <1>3, <2>1 DEF Sound, MayLoseUnits, Forced
  <2>3. Sound
    BY <1>2, <2>2 DEF Sound, MayLoseUnits, Forced
  <2>4. partial + 0 = partial
    BY HandTypes
  <2> QED BY <1>2, <2>2, <2>3, <2>4 DEF Recorded
<1>7. row.priced /\ ~OpenRow => row.closed \/ row.filled = 0
  BY <1>1, FieldTypes DEF EntryInv, OpenRow
<1>8. EntryInv'
  BY <1>1, <1>2, <1>3, <1>4 DEF EntryInv
<1>9. GroupInv'
  BY <1>4 DEF GroupInv, Decremented
<1>10. LevelInv' /\ AgreeInv'
  BY <1>4 DEF LevelInv, AgreeInv
<1>11. CancelledInv' /\ AskedInv' /\ ClosedInv'
  BY <1>5 DEF CancelledInv, AskedInv, ClosedInv
<1>12. PricedInv'
  BY <1>2, <1>3, <1>5 DEF PricedInv, OpenRow
<1>13. RowCovered'
  <2> SUFFICES ASSUME Sound'
               PROVE  /\ row.priced => row.filled + Recorded' >= Quantity
                      /\ row.closed => row.booked + Recorded' >= Quantity
    BY <1>2, <1>3 DEF RowCovered, Covers
  <2> QED BY <1>1, <1>6 DEF RowCovered, Covers
<1>14. GroupCovered' /\ ExitsCovered' /\ AdminsCovered' /\ ClosingCovered'
  BY <1>4, <1>5 DEF GroupCovered, ExitsCovered, AdminsCovered, ClosingCovered
<1>15. DropCovered'
  <2> SUFFICES ASSUME Sound', row.priced, ~OpenRow, ~row.closed PROVE 0 + Recorded' >= Quantity
    BY <1>2, <1>3 DEF DropCovered, Covers
  <2>1. row.filled = 0
    BY <1>7
  <2> QED BY <1>1, <1>6, <2>1 DEF RowCovered, Covers
<1>16. StopInv'
  BY <1>3, <1>4 DEF StopInv
<1> QED BY <1>2, <1>8, <1>9, <1>10, <1>11, <1>12, <1>13, <1>14, <1>15, <1>16 DEF Parts

LEMMA InitKeeps == Init => TypeInv /\ Parts
<1> SUFFICES ASSUME Init PROVE Parts
  BY InitType
<1>1. TypeInv
  BY InitType
<1>2. /\ entry = 1 /\ ~Filled /\ ~Added /\ ~cached /\ row.priced = FALSE /\ row.closed = FALSE /\ row.status = "RECEIVED"
      /\ tick = 0 /\ ~poll /\ order.stopLoss = 0
  BY DEF Init, Filled, Added
<1>3. /\ group.filled = FALSE /\ group.levels = NoGroup.levels /\ group.remaining = 0 /\ group.state = "NONE"
      /\ worker.pc = "idle" /\ ~Busy
  BY DEF Init, NoGroup, Idle, Busy
<1>4. /\ \A s \in Sources : exits[s].pc = "idle"
      /\ \A a \in Admins : admins[a].pc = "idle"
      /\ closing.pc = "idle" /\ closing.qty = 0
  BY DEF Init, NoExit, NoAdmin, NoClosing
<1>5. EntryInv
  BY <1>2, <1>3 DEF EntryInv
<1>6. ActiveLevels("TP") = {}
  BY <1>1, <1>3, <1>5, NoLevels
<1>7. GroupInv /\ LevelInv /\ AgreeInv
  BY <1>3 DEF GroupInv, LevelInv, AgreeInv, Decremented
<1>8. CancelledInv /\ AskedInv /\ ClosedInv /\ PricedInv
  BY <1>2, <1>4 DEF CancelledInv, AskedInv, ClosedInv, PricedInv
<1>9. RowCovered /\ GroupCovered /\ ExitsCovered /\ AdminsCovered /\ ClosingCovered /\ DropCovered
  BY <1>2, <1>3, <1>4 DEF RowCovered, GroupCovered, ExitsCovered, AdminsCovered, ClosingCovered, DropCovered
<1>10. StopInv
  <2>1. order.stopLoss <= FillPrice
    BY <1>1, <1>2, FieldTypes
  <2> QED BY <1>2, <1>3, <1>6, <2>1 DEF StopInv
<1> QED BY <1>5, <1>7, <1>8, <1>9, <1>10 DEF Parts

LEMMA StutterKeeps ==
    ASSUME TypeInv, Parts, UNCHANGED vars
    PROVE  TypeInv' /\ Parts'
<1>1. UNCHANGED <<scenario, config, entry, row, partial, cached, order, trail, exiting, group, jobs, worker, tick, poll,
                  exits, admins, closing, writes, failures, requests, restarts>>
  BY DEF vars, dbVars, monitorVars, groupVars, feedVars
<1>2. TypeInv'
  BY <1>1 DEF TypeInv, IsCase
<1>3. Grows
  BY <1>1, GrowsSame
<1>4. EntryInv' /\ GroupInv' /\ LevelInv' /\ AgreeInv' /\ CancelledInv' /\ AskedInv' /\ ClosedInv' /\ PricedInv' /\ StopInv'
  BY <1>1, EntrySame, GroupSame, LevelSame, AgreeSame, CancelledSame, AskedSame, ClosedSame, PricedSame, StopSame DEF Parts
<1>5. RowCovered' /\ GroupCovered' /\ ExitsCovered' /\ AdminsCovered' /\ ClosingCovered'
  BY <1>1, <1>2, <1>3, RowCoveredSame, GroupCoveredSame, ExitsCoveredSame, AdminsCoveredSame, ClosingCoveredSame DEF Parts
<1>6. DropCovered'
  BY <1>1, <1>2, <1>3, PlaceSame, DropCoveredSame DEF Parts
<1> QED BY <1>2, <1>4, <1>5, <1>6 DEF Parts

(***************************************************************************)
(* Every step preserves the invariant.                                     *)
(***************************************************************************)
LEMMA NextKeeps ==
    ASSUME TypeInv, Parts, Next
    PROVE  TypeInv' /\ Parts'
<1>1. CASE RegisterEntry
  BY <1>1, RegisterEntryKeeps
<1>2. CASE ExecutePaperOrder
  BY <1>2, ExecutePaperOrderKeeps
<1>3. CASE AddOrder
  BY <1>3, AddOrderKeeps
<1>4. CASE OnEntryFill
  BY <1>4, OnEntryFillKeeps
<1>5. ASSUME NEW p \in Prices, OnPriceUpdate(p) PROVE TypeInv' /\ Parts'
  BY <1>5, OnPriceUpdateKeeps
<1>6. ASSUME NEW p \in Prices, checkRedisSLTP(p) PROVE TypeInv' /\ Parts'
  BY <1>6, checkRedisSLTPKeeps
<1>7. ASSUME NEW p \in Prices, runEvalJob(p) PROVE TypeInv' /\ Parts'
  BY <1>7, runEvalJobKeeps
<1>8. CASE MonitorExit
  BY <1>8, MonitorExitKeeps
<1>9. CASE RedisSnapshot
  BY <1>9, RedisSnapshotKeeps
<1>10. ASSUME NEW sl \in writes, UpdateTrailingSL(sl) PROVE TypeInv' /\ Parts'
  BY <1>10, UpdateTrailingSLKeeps
<1>11. CASE recordPaperExit
  BY <1>11, recordPaperExitKeeps
<1>12. CASE WorkerPartialExit
  BY <1>12, WorkerPartialExitKeeps
<1>13. CASE WorkerUpdateFilledQty
  BY <1>13, WorkerUpdateFilledQtyKeeps
<1>14. CASE WorkerUpdateCache
  BY <1>14, WorkerUpdateCacheKeeps
<1>15. CASE WorkerFinish
  BY <1>15, WorkerFinishKeeps
<1>16. ASSUME NEW s \in Sources, ExitBegin(s) PROVE TypeInv' /\ Parts'
  BY <1>16, ExitBeginKeeps
<1>17. ASSUME NEW s \in Sources, ExitWrite(s) PROVE TypeInv' /\ Parts'
  BY <1>17, ExitWriteKeeps
<1>18. ASSUME NEW s \in Sources, ExitClean(s) PROVE TypeInv' /\ Parts'
  BY <1>18, ExitCleanKeeps
<1>19. CASE ForceExit
  BY <1>19, ForceExitKeeps
<1>20. CASE SquareOffAll
  BY <1>20, SquareOffAllKeeps
<1>21. CASE SquareOffSweep
  BY <1>21, SquareOffSweepKeeps
<1>22. ASSUME NEW a \in Admins, ClaimExit(a) PROVE TypeInv' /\ Parts'
  BY <1>22, ClaimExitKeeps
<1>23. ASSUME NEW a \in Admins, CancelGroupForExit(a) PROVE TypeInv' /\ Parts'
  BY <1>23, CancelGroupForExitKeeps
<1>24. ASSUME NEW a \in Admins, AdminPartialExit(a) PROVE TypeInv' /\ Parts'
  BY <1>24, AdminPartialExitKeeps
<1>25. ASSUME NEW a \in Admins, AdminUpdateFilledQty(a) PROVE TypeInv' /\ Parts'
  BY <1>25, AdminUpdateFilledQtyKeeps
<1>26. CASE StartClosing
  BY <1>26, StartClosingKeeps
<1>27. CASE ClosingFetch
  BY <1>27, ClosingFetchKeeps
<1>28. CASE CancelGroupsByStrategy
  BY <1>28, CancelGroupsByStrategyKeeps
<1>29. CASE ClosingPartialExit
  BY <1>29, ClosingPartialExitKeeps
<1>30. CASE ClosingUpdateFilledQty
  BY <1>30, ClosingUpdateFilledQtyKeeps
<1>31. CASE UpdatePaperExitPrice
  BY <1>31, UpdatePaperExitPriceKeeps
<1>32. CASE CancelAllOrdersByStrategy
  BY <1>32, CancelAllOrdersByStrategyKeeps
<1>33. CASE Restart
  BY <1>33, RestartKeeps
<1> QED
  BY <1>1, <1>2, <1>3, <1>4, <1>5, <1>6, <1>7, <1>8, <1>9, <1>10, <1>11, <1>12, <1>13, <1>14,
     <1>15, <1>16, <1>17, <1>18, <1>19, <1>20, <1>21, <1>22, <1>23, <1>24, <1>25, <1>26, <1>27, <1>28,
     <1>29, <1>30, <1>31, <1>32, <1>33
  DEF Next, Entry, WorkerStep, exitPosition, AdminStep, closeStrategyPositions

LEMMA TypeIsNext == TypeInv' => TypeOK'
BY DEF TypeOK, TypeInv, IsCase, RowSet, OrderSet, TrailSet, LevelSet, GroupSet, WorkerSet, ExitSet, AdminSet, ClosingSet

LEMMA InvStep == Inv /\ [Next]_vars => Inv'
<1> SUFFICES ASSUME Inv, [Next]_vars PROVE Inv'
  OBVIOUS
<1>1. TypeInv /\ Parts
  BY TypeIs DEF Inv
<1>2. TypeInv' /\ Parts'
  BY <1>1, NextKeeps, StutterKeeps
<1>3. TypeOK'
  BY <1>2, TypeIsNext
<1> QED BY <1>2, <1>3 DEF Inv

LEMMA Invariance == Spec => []Inv
<1>1. Init => Inv
  BY InitKeeps, TypeIs DEF Inv
<1> QED BY <1>1, InvStep, PTL DEF Spec

-----------------------------------------------------------------------------
(***************************************************************************)
(* The theorems.                                                           *)
(***************************************************************************)

\* Every copy of the open quantity that the executor, the monitor, the manager,
\* the exits and the closing hold stays between nothing and the whole
\* position, and the shares of the levels stay within it.
THEOREM PaperTypes == Spec => []TypeOK
BY Invariance, PTL DEF Inv

\* Between two steps of recordPaperExit the levels of a side sum up to the
\* remaining quantity, and manager, row and monitor agree on it, whatever the
\* shares of the levels are and however they round.
THEOREM LevelsAndCopiesAgree == Spec => []QuantitiesAgree
<1>1. Inv => QuantitiesAgree
  <2> SUFFICES ASSUME Inv, group.state = "ACTIVE", group.filled, worker.pc = "idle"
               PROVE  /\ \A s \in Sides : config.levels[s] # <<>> => LevelUnits(s) = group.remaining
                      /\ failures = 0 => /\ row.filled = group.remaining
                                         /\ cached => order.qty = group.remaining
    BY DEF QuantitiesAgree
  <2>1. TypeInv /\ GroupInv /\ LevelInv /\ AgreeInv
    BY TypeIs DEF Inv, Parts
  <2>2. group.remaining \in Nat /\ group.remaining > 0
    BY <2>1, FieldTypes DEF GroupInv
  <2>3. \A s \in Sides : config.levels[s] # <<>> => LevelUnits(s) = group.remaining
    <3> SUFFICES ASSUME NEW s \in Sides, config.levels[s] # <<>> PROVE LevelUnits(s) = group.remaining
      OBVIOUS
    <3>1. LevelUnits(s) = Expected(s)
      BY <2>1, <2>2 DEF LevelInv
    <3> QED BY <2>2, <3>1 DEF Expected
  <2>4. failures = 0 => (row.filled = group.remaining /\ (cached => order.qty = group.remaining))
    BY <2>1, <2>2 DEF AgreeInv
  <2> QED BY <2>3, <2>4
<1> QED BY <1>1, Invariance, PTL

\* When the monitor has dropped a filled position and nothing is in progress,
\* every unit stands in a row of a partial exit or in the exit of the entry's
\* row: exitPosition, the worker, forced exits and closeStrategyPositions lose
\* none between them.
THEOREM NoUnitDisappears == Spec => []EveryUnitBooked
<1>1. Inv => EveryUnitBooked
  <2> SUFFICES ASSUME Inv, Quiet, row.priced, ~cached, failures = 0, ~MayLoseUnits PROVE Booked >= Quantity
    BY DEF EveryUnitBooked
  <2>1. TypeInv /\ RowCovered /\ DropCovered
    BY TypeIs DEF Inv, Parts
  <2>2. Added
    <3>1. entry > Len(Route[config.route]) /\ config.route \in {"direct", "late", "plain"} /\ entry \in Nat
      BY <2>1, ConfigTypes DEF Quiet, EntryDone, TypeInv
    <3>2. CASE config.route = "direct"
      BY <3>1, <3>2 DEF Route, Added
    <3>3. CASE config.route = "late"
      BY <3>1, <3>3 DEF Route, Added
    <3>4. CASE config.route = "plain"
      BY <3>1, <3>4 DEF Route, Added
    <3> QED BY <3>1, <3>2, <3>3, <3>4
  <2>3. Recorded = partial /\ partial \in Nat /\ row.booked \in Nat /\ Quantity \in Nat
    BY <2>1, HandTypes, FieldTypes DEF Quiet, InHand
  <2>4. row.closed \/ Covers(0)
    BY <2>1, <2>2 DEF DropCovered, Sound, Quiet
  <2>5. CASE row.closed
    BY <2>1, <2>3, <2>5 DEF RowCovered, Sound, Covers, Booked
  <2>6. CASE ~row.closed
    BY <2>3, <2>4, <2>6 DEF Covers, Booked
  <2> QED BY <2>5, <2>6
<1> QED BY <1>1, Invariance, PTL

LEMMA ExitIsKept ==
    ASSUME TypeInv, Next
    PROVE  row.closed => row'.closed /\ row'.booked = row.booked
<1>0. row \in RowSet
  BY DEF TypeInv
<1>1. CASE RegisterEntry
  BY <1>1 DEF RegisterEntry, Step, workerFrame, exitFrame, adminFrame, closingFrame, dbVars, monitorVars, groupVars, feedVars, monitorRest
<1>2. CASE ExecutePaperOrder
  BY <1>2, <1>0 DEF ExecutePaperOrder, Write, RowSet
<1>3. CASE AddOrder
  BY <1>3 DEF AddOrder, Step, workerFrame, exitFrame, adminFrame, closingFrame, dbVars, monitorVars, groupVars, feedVars, monitorRest
<1>4. CASE OnEntryFill
  BY <1>4 DEF OnEntryFill, Step, workerFrame, exitFrame, adminFrame, closingFrame, dbVars, monitorVars, groupVars, feedVars, monitorRest
<1>5. ASSUME NEW p \in Prices, OnPriceUpdate(p) PROVE row.closed => row'.closed /\ row'.booked = row.booked
  BY <1>5 DEF OnPriceUpdate, Step, workerFrame, exitFrame, adminFrame, closingFrame, dbVars, monitorVars, groupVars, feedVars, monitorRest
<1>6. ASSUME NEW p \in Prices, checkRedisSLTP(p) PROVE row.closed => row'.closed /\ row'.booked = row.booked
  BY <1>6 DEF checkRedisSLTP, Step, workerFrame, exitFrame, adminFrame, closingFrame, dbVars, monitorVars, groupVars, feedVars, monitorRest
<1>7. ASSUME NEW p \in Prices, runEvalJob(p) PROVE row.closed => row'.closed /\ row'.booked = row.booked
  BY <1>7 DEF runEvalJob, Step, workerFrame, exitFrame, adminFrame, closingFrame, dbVars, monitorVars, groupVars, feedVars, monitorRest
<1>8. CASE MonitorExit
  BY <1>8 DEF MonitorExit, Step, workerFrame, exitFrame, adminFrame, closingFrame, dbVars, monitorVars, groupVars, feedVars, monitorRest
<1>9. CASE RedisSnapshot
  BY <1>9 DEF RedisSnapshot, Step, workerFrame, exitFrame, adminFrame, closingFrame, dbVars, monitorVars, groupVars, feedVars, monitorRest
<1>10. ASSUME NEW sl \in writes, UpdateTrailingSL(sl) PROVE row.closed => row'.closed /\ row'.booked = row.booked
  BY <1>10, <1>0 DEF UpdateTrailingSL, Write, RowSet
<1>11. CASE recordPaperExit
  BY <1>11 DEF recordPaperExit, Step, workerFrame, exitFrame, adminFrame, closingFrame, dbVars, monitorVars, groupVars, feedVars, monitorRest
<1>12. CASE WorkerPartialExit
  BY <1>12 DEF WorkerPartialExit, Step, workerFrame, exitFrame, adminFrame, closingFrame, dbVars, monitorVars, groupVars, feedVars, monitorRest
<1>13. CASE WorkerUpdateFilledQty
  BY <1>13, <1>0 DEF WorkerUpdateFilledQty, Write, RowSet
<1>14. CASE WorkerUpdateCache
  BY <1>14 DEF WorkerUpdateCache, Step, workerFrame, exitFrame, adminFrame, closingFrame, dbVars, monitorVars, groupVars, feedVars, monitorRest
<1>15. CASE WorkerFinish
  BY <1>15 DEF WorkerFinish, Step, workerFrame, exitFrame, adminFrame, closingFrame, dbVars, monitorVars, groupVars, feedVars, monitorRest
<1>16. ASSUME NEW s \in Sources, ExitBegin(s) PROVE row.closed => row'.closed /\ row'.booked = row.booked
  BY <1>16 DEF ExitBegin, Step, workerFrame, exitFrame, adminFrame, closingFrame, dbVars, monitorVars, groupVars, feedVars, monitorRest
<1>17. ASSUME NEW s \in Sources, ExitWrite(s) PROVE row.closed => row'.closed /\ row'.booked = row.booked
  BY <1>17, <1>0 DEF ExitWrite, Write, RowSet, Closed
<1>18. ASSUME NEW s \in Sources, ExitClean(s) PROVE row.closed => row'.closed /\ row'.booked = row.booked
  BY <1>18 DEF ExitClean, Step, workerFrame, exitFrame, adminFrame, closingFrame, dbVars, monitorVars, groupVars, feedVars, monitorRest
<1>19. CASE ForceExit
  BY <1>19 DEF ForceExit, Step, workerFrame, exitFrame, adminFrame, closingFrame, dbVars, monitorVars, groupVars, feedVars, monitorRest
<1>20. CASE SquareOffAll
  BY <1>20 DEF SquareOffAll, Step, workerFrame, exitFrame, adminFrame, closingFrame, dbVars, monitorVars, groupVars, feedVars, monitorRest
<1>21. CASE SquareOffSweep
  BY <1>21 DEF SquareOffSweep, Step, workerFrame, exitFrame, adminFrame, closingFrame, dbVars, monitorVars, groupVars, feedVars, monitorRest
<1>22. ASSUME NEW a \in Admins, ClaimExit(a) PROVE row.closed => row'.closed /\ row'.booked = row.booked
  BY <1>22 DEF ClaimExit, Step, workerFrame, exitFrame, adminFrame, closingFrame, dbVars, monitorVars, groupVars, feedVars, monitorRest
<1>23. ASSUME NEW a \in Admins, CancelGroupForExit(a) PROVE row.closed => row'.closed /\ row'.booked = row.booked
  BY <1>23 DEF CancelGroupForExit, Step, workerFrame, exitFrame, adminFrame, closingFrame, dbVars, monitorVars, groupVars, feedVars, monitorRest
<1>24. ASSUME NEW a \in Admins, AdminPartialExit(a) PROVE row.closed => row'.closed /\ row'.booked = row.booked
  BY <1>24 DEF AdminPartialExit, Step, workerFrame, exitFrame, adminFrame, closingFrame, dbVars, monitorVars, groupVars, feedVars, monitorRest
<1>25. ASSUME NEW a \in Admins, AdminUpdateFilledQty(a) PROVE row.closed => row'.closed /\ row'.booked = row.booked
  BY <1>25, <1>0 DEF AdminUpdateFilledQty, Write, RowSet
<1>26. CASE StartClosing
  BY <1>26 DEF StartClosing, Step, workerFrame, exitFrame, adminFrame, closingFrame, dbVars, monitorVars, groupVars, feedVars, monitorRest
<1>27. CASE ClosingFetch
  BY <1>27 DEF ClosingFetch, Step, workerFrame, exitFrame, adminFrame, closingFrame, dbVars, monitorVars, groupVars, feedVars, monitorRest
<1>28. CASE CancelGroupsByStrategy
  BY <1>28 DEF CancelGroupsByStrategy, Step, workerFrame, exitFrame, adminFrame, closingFrame, dbVars, monitorVars, groupVars, feedVars, monitorRest
<1>29. CASE ClosingPartialExit
  BY <1>29 DEF ClosingPartialExit, Step, workerFrame, exitFrame, adminFrame, closingFrame, dbVars, monitorVars, groupVars, feedVars, monitorRest
<1>30. CASE ClosingUpdateFilledQty
  BY <1>30, <1>0 DEF ClosingUpdateFilledQty, Write, RowSet
<1>31. CASE UpdatePaperExitPrice
  BY <1>31, <1>0 DEF UpdatePaperExitPrice, Write, RowSet, Closed
<1>32. CASE CancelAllOrdersByStrategy
  BY <1>32, <1>0 DEF CancelAllOrdersByStrategy, Write, RowSet, Closed
<1>33. CASE Restart
  BY <1>33 DEF Restart, Step, workerFrame, exitFrame, adminFrame, closingFrame, dbVars, monitorVars, groupVars, feedVars, monitorRest
<1> QED
  BY <1>1, <1>2, <1>3, <1>4, <1>5, <1>6, <1>7, <1>8, <1>9, <1>10, <1>11, <1>12, <1>13, <1>14,
     <1>15, <1>16, <1>17, <1>18, <1>19, <1>20, <1>21, <1>22, <1>23, <1>24, <1>25, <1>26, <1>27, <1>28,
     <1>29, <1>30, <1>31, <1>32, <1>33
  DEF Next, Entry, WorkerStep, exitPosition, AdminStep, closeStrategyPositions

\* The guard paper_exit_price IS NULL of UpdatePaperTradeExit and
\* UpdatePaperExitPrice, and the one of CancelAllOrdersByStrategy, keep the
\* exit that the entry's row has.
THEOREM FirstExitStays == Spec => FirstExitWins
<1>1. Inv /\ [Next]_vars => [row.closed => row'.closed /\ row'.booked = row.booked]_vars
  BY TypeIs, ExitIsKept DEF Inv
<1> QED BY <1>1, Invariance, PTL DEF Spec, FirstExitWins

LEMMA StopStep ==
    ASSUME TypeInv, Parts, Next, cached, cached', restarts' = restarts
    PROVE  effectiveSL' >= effectiveSL
<1>0. /\ EntryInv /\ GroupInv /\ StopInv /\ order \in OrderSet /\ order.stopLoss \in Nat /\ trail.sl \in Nat
      /\ restarts \in Nat
  BY DEF Parts, TypeInv, OrderSet, TrailSet
<1>1. CASE RegisterEntry
  BY <1>0, <1>1 DEF RegisterEntry, effectiveSL, Step, workerFrame, exitFrame, adminFrame, closingFrame, dbVars, monitorVars, groupVars, feedVars, monitorRest
<1>2. CASE ExecutePaperOrder
  <2>1. Step("fill")
    BY <1>2 DEF ExecutePaperOrder
  <2>2. ~Added /\ ~cached
    BY <1>0, <2>1, EntryPlaces DEF EntryInv
  <2> QED BY <2>2
<1>3. CASE AddOrder
  <2>1. Step("add")
    BY <1>3 DEF AddOrder
  <2>2. ~Added /\ ~cached
    BY <1>0, <2>1, EntryPlaces DEF EntryInv
  <2> QED BY <2>2
<1>4. CASE OnEntryFill
  BY <1>0, <1>4 DEF OnEntryFill, effectiveSL, Step, workerFrame, exitFrame, adminFrame, closingFrame, dbVars, monitorVars, groupVars, feedVars, monitorRest
<1>5. ASSUME NEW p \in Prices, OnPriceUpdate(p) PROVE effectiveSL' >= effectiveSL
  <2>1. advanceTrailingSL(p).sl >= trail.sl /\ advanceTrailingSL(p).on = trail.on
    BY TrailingStep
  <2>2. CASE cached /\ Watched /\ trail.on
    BY <1>5, <2>1, <2>2 DEF OnPriceUpdate, effectiveSL
  <2>3. CASE cached /\ Watched /\ ~trail.on
    <3>1. advanceTrailingSL(p) = trail
      BY <2>3 DEF advanceTrailingSL
    <3> QED BY <1>0, <1>5, <2>3, <3>1 DEF OnPriceUpdate, effectiveSL
  <2>4. CASE ~(cached /\ Watched)
    BY <1>0, <1>5, <2>4 DEF OnPriceUpdate, effectiveSL
  <2> QED BY <2>2, <2>3, <2>4
<1>6. ASSUME NEW p \in Prices, checkRedisSLTP(p) PROVE effectiveSL' >= effectiveSL
  BY <1>0, <1>6 DEF checkRedisSLTP, effectiveSL, Step, workerFrame, exitFrame, adminFrame, closingFrame, dbVars, monitorVars, groupVars, feedVars, monitorRest
<1>7. ASSUME NEW p \in Prices, runEvalJob(p) PROVE effectiveSL' >= effectiveSL
  BY <1>0, <1>7 DEF runEvalJob, effectiveSL, Step, workerFrame, exitFrame, adminFrame, closingFrame, dbVars, monitorVars, groupVars, feedVars, monitorRest
<1>8. CASE MonitorExit
  BY <1>0, <1>8 DEF MonitorExit, effectiveSL, Step, workerFrame, exitFrame, adminFrame, closingFrame, dbVars, monitorVars, groupVars, feedVars, monitorRest
<1>9. CASE RedisSnapshot
  BY <1>0, <1>9 DEF RedisSnapshot, effectiveSL, Step, workerFrame, exitFrame, adminFrame, closingFrame, dbVars, monitorVars, groupVars, feedVars, monitorRest
<1>10. ASSUME NEW sl \in writes, UpdateTrailingSL(sl) PROVE effectiveSL' >= effectiveSL
  BY <1>0, <1>10 DEF UpdateTrailingSL, effectiveSL, Step, workerFrame, exitFrame, adminFrame, closingFrame, dbVars, monitorVars, groupVars, feedVars, monitorRest
<1>11. CASE recordPaperExit
  BY <1>0, <1>11 DEF recordPaperExit, effectiveSL, Step, workerFrame, exitFrame, adminFrame, closingFrame, dbVars, monitorVars, groupVars, feedVars, monitorRest
<1>12. CASE WorkerPartialExit
  BY <1>0, <1>12 DEF WorkerPartialExit, effectiveSL, Step, workerFrame, exitFrame, adminFrame, closingFrame, dbVars, monitorVars, groupVars, feedVars, monitorRest
<1>13. CASE WorkerUpdateFilledQty
  BY <1>0, <1>13 DEF WorkerUpdateFilledQty, effectiveSL, Step, workerFrame, exitFrame, adminFrame, closingFrame, dbVars, monitorVars, groupVars, feedVars, monitorRest
<1>14. CASE WorkerUpdateCache
  <2>1. order'.stopLoss = order.stopLoss /\ trail' = trail
    BY <1>0, <1>14 DEF WorkerUpdateCache, OrderSet
  <2> QED BY <1>0, <2>1 DEF effectiveSL
<1>15. CASE WorkerFinish
  <2>1. worker.pc = "finish" /\ Busy
    BY <1>15 DEF WorkerFinish, Busy
  <2>2. trail' = trail
    BY <1>15 DEF WorkerFinish, RemoveOrder
  <2>3. CASE trail.on
    BY <1>0, <2>2, <2>3 DEF effectiveSL
  <2>4. CASE ~trail.on /\ order' = order
    BY <1>0, <2>2, <2>4 DEF effectiveSL
  <2>5. CASE ~trail.on /\ order' # order
    <3>1. worker.side = "TP" /\ order'.stopLoss = computeNewSLAfterTP(worker.level)
      BY <1>0, <1>15, <2>5 DEF WorkerFinish, OrderSet
    <3>2. order.stopLoss <= computeNewSLAfterTP(worker.level)
      BY <1>0, <2>1, <2>5, <3>1 DEF StopInv
    <3>3. worker.level \in 1..Len(config.levels["TP"])
      BY <1>0, <2>1, <3>1 DEF GroupInv
    <3>4. computeNewSLAfterTP(worker.level) \in Nat
      BY <3>3, NewStopType
    <3>5. computeNewSLAfterTP(worker.level) >= order.stopLoss
      BY <1>0, <3>2, <3>4
    <3> QED BY <2>2, <2>5, <3>1, <3>5 DEF effectiveSL
  <2> QED BY <2>3, <2>4, <2>5
<1>16. ASSUME NEW s \in Sources, ExitBegin(s) PROVE effectiveSL' >= effectiveSL
  BY <1>0, <1>16 DEF ExitBegin, effectiveSL, Step, workerFrame, exitFrame, adminFrame, closingFrame, dbVars, monitorVars, groupVars, feedVars, monitorRest
<1>17. ASSUME NEW s \in Sources, ExitWrite(s) PROVE effectiveSL' >= effectiveSL
  BY <1>0, <1>17 DEF ExitWrite, effectiveSL, Step, workerFrame, exitFrame, adminFrame, closingFrame, dbVars, monitorVars, groupVars, feedVars, monitorRest
<1>18. ASSUME NEW s \in Sources, ExitClean(s) PROVE effectiveSL' >= effectiveSL
  BY <1>18 DEF ExitClean
<1>19. CASE ForceExit
  BY <1>0, <1>19 DEF ForceExit, effectiveSL, Step, workerFrame, exitFrame, adminFrame, closingFrame, dbVars, monitorVars, groupVars, feedVars, monitorRest
<1>20. CASE SquareOffAll
  BY <1>0, <1>20 DEF SquareOffAll, effectiveSL, Step, workerFrame, exitFrame, adminFrame, closingFrame, dbVars, monitorVars, groupVars, feedVars, monitorRest
<1>21. CASE SquareOffSweep
  BY <1>0, <1>21 DEF SquareOffSweep, effectiveSL, Step, workerFrame, exitFrame, adminFrame, closingFrame, dbVars, monitorVars, groupVars, feedVars, monitorRest
<1>22. ASSUME NEW a \in Admins, ClaimExit(a) PROVE effectiveSL' >= effectiveSL
  BY <1>0, <1>22 DEF ClaimExit, effectiveSL, Step, workerFrame, exitFrame, adminFrame, closingFrame, dbVars, monitorVars, groupVars, feedVars, monitorRest
<1>23. ASSUME NEW a \in Admins, CancelGroupForExit(a) PROVE effectiveSL' >= effectiveSL
  BY <1>0, <1>23 DEF CancelGroupForExit, effectiveSL, Step, workerFrame, exitFrame, adminFrame, closingFrame, dbVars, monitorVars, groupVars, feedVars, monitorRest
<1>24. ASSUME NEW a \in Admins, AdminPartialExit(a) PROVE effectiveSL' >= effectiveSL
  BY <1>0, <1>24 DEF AdminPartialExit, effectiveSL, Step, workerFrame, exitFrame, adminFrame, closingFrame, dbVars, monitorVars, groupVars, feedVars, monitorRest
<1>25. ASSUME NEW a \in Admins, AdminUpdateFilledQty(a) PROVE effectiveSL' >= effectiveSL
  BY <1>0, <1>25 DEF AdminUpdateFilledQty, effectiveSL, Step, workerFrame, exitFrame, adminFrame, closingFrame, dbVars, monitorVars, groupVars, feedVars, monitorRest
<1>26. CASE StartClosing
  BY <1>26 DEF StartClosing, RemoveOrder
<1>27. CASE ClosingFetch
  BY <1>0, <1>27 DEF ClosingFetch, effectiveSL, Step, workerFrame, exitFrame, adminFrame, closingFrame, dbVars, monitorVars, groupVars, feedVars, monitorRest
<1>28. CASE CancelGroupsByStrategy
  BY <1>0, <1>28 DEF CancelGroupsByStrategy, effectiveSL, Step, workerFrame, exitFrame, adminFrame, closingFrame, dbVars, monitorVars, groupVars, feedVars, monitorRest
<1>29. CASE ClosingPartialExit
  BY <1>0, <1>29 DEF ClosingPartialExit, effectiveSL, Step, workerFrame, exitFrame, adminFrame, closingFrame, dbVars, monitorVars, groupVars, feedVars, monitorRest
<1>30. CASE ClosingUpdateFilledQty
  BY <1>0, <1>30 DEF ClosingUpdateFilledQty, effectiveSL, Step, workerFrame, exitFrame, adminFrame, closingFrame, dbVars, monitorVars, groupVars, feedVars, monitorRest
<1>31. CASE UpdatePaperExitPrice
  BY <1>0, <1>31 DEF UpdatePaperExitPrice, effectiveSL, Step, workerFrame, exitFrame, adminFrame, closingFrame, dbVars, monitorVars, groupVars, feedVars, monitorRest
<1>32. CASE CancelAllOrdersByStrategy
  BY <1>0, <1>32 DEF CancelAllOrdersByStrategy, effectiveSL, Step, workerFrame, exitFrame, adminFrame, closingFrame, dbVars, monitorVars, groupVars, feedVars, monitorRest
<1>33. CASE Restart
  BY <1>0, <1>33 DEF Restart
<1> QED
  BY <1>1, <1>2, <1>3, <1>4, <1>5, <1>6, <1>7, <1>8, <1>9, <1>10, <1>11, <1>12, <1>13, <1>14,
     <1>15, <1>16, <1>17, <1>18, <1>19, <1>20, <1>21, <1>22, <1>23, <1>24, <1>25, <1>26, <1>27, <1>28,
     <1>29, <1>30, <1>31, <1>32, <1>33
  DEF Next, Entry, WorkerStep, exitPosition, AdminStep, closeStrategyPositions

\* Within a process advanceTrailingSL and UpdateCachedOrderSL after a target
\* never move the stop of a tracked position away from the market.
THEOREM PaperStopOnlyTightens == Spec => StopNeverLoosens
<1>1. Inv /\ [Next]_vars => [(cached /\ cached' /\ restarts' = restarts) => effectiveSL' >= effectiveSL]_vars
  BY TypeIs, StopStep DEF Inv
<1> QED BY <1>1, Invariance, PTL DEF Spec, StopNeverLoosens

=============================================================================
