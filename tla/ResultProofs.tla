------------------------------ MODULE ResultProofs ------------------------------
(***************************************************************************)
(* Proofs about what a run's span trees and its Result are made into: the  *)
(* folded tier, the failure groups and the funnels (TraceTiers), the       *)
(* series and the thinned samples (RunTiers), and what is judged of them   *)
(* (Verdict).                                                              *)
(***************************************************************************)
EXTENDS TraceTiers, Verdict, FiniteSetTheorems, SequenceTheorems, WellFoundedInduction, TLAPS

-------------------------------------------------------------------------------
(* Finite sets and sums over them. *)

(* A set that holds 0, and with every number its successor, holds them all. *)
LEMMA AllNumbers ==
  ASSUME NEW S, 0 \in S, \A n \in Nat : n \in S => n + 1 \in S
  PROVE  Nat \subseteq S
<1>1. SUFFICES ASSUME Nat \ S # {} PROVE FALSE
  OBVIOUS
<1>2. PICK n \in Nat \ S : \A m \in Nat \ S : <<m, n>> \notin OpToRel(<, Nat)
  BY <1>1, NatLessThanWellFounded, WFMin
<1>3. n - 1 \in Nat
  <2>1. n # 0 /\ n \in Nat
    BY <1>2
  <2>2. QED BY <2>1
<1>4. <<n - 1, n>> \in OpToRel(<, Nat)
  BY <1>2, <1>3 DEF OpToRel
<1>5. n - 1 \in S
  BY <1>2, <1>3, <1>4
<1>6. (n - 1) + 1 = n
  <2>1. n \in Nat
    BY <1>2
  <2>2. QED BY <2>1
<1>7. QED BY <1>2, <1>3, <1>5, <1>6

(* What holds of the empty set and is kept when one element joins holds of *)
(* every finite set.                                                       *)
LEMMA FiniteGrow ==
  ASSUME NEW S, IsFiniteSet(S), NEW M, {} \in M,
         \A T \in SUBSET S : \A x \in S \ T : T \in M => T \cup {x} \in M
  PROVE  S \in M
<1> DEFINE Sizes == {n \in Nat : \A T \in SUBSET S : Cardinality(T) = n => T \in M}
<1>1. \A T \in SUBSET S : IsFiniteSet(T) /\ Cardinality(T) \in Nat
  BY FS_Subset, FS_CardinalityType
<1>2. 0 \in Sizes
  BY <1>1, FS_EmptySet
<1>3. ASSUME NEW n \in Nat, n \in Sizes PROVE n + 1 \in Sizes
  <2>1. SUFFICES ASSUME NEW T \in SUBSET S, Cardinality(T) = n + 1 PROVE T \in M
    OBVIOUS
  <2>2. T # {}
    <3>1. Cardinality({}) = 0
      BY FS_EmptySet
    <3>2. QED BY <2>1, <3>1
  <2>3. PICK x : x \in T
    BY <2>2
  <2>4. Cardinality(T \ {x}) = n
    <3>1. IsFiniteSet(T)
      BY <1>1
    <3>2. Cardinality(T \ {x}) = Cardinality(T) - 1
      BY <2>3, <3>1, FS_RemoveElement
    <3>3. QED BY <2>1, <3>2
  <2>5. T \ {x} \in M
    BY <1>3, <2>4
  <2>6. (T \ {x}) \cup {x} = T /\ x \in S \ (T \ {x}) /\ T \ {x} \in SUBSET S
    BY <2>3
  <2>7. (T \ {x}) \cup {x} \in M
    BY <2>5, <2>6
  <2>8. QED BY <2>6, <2>7
<1>4. Nat \subseteq Sizes
  <2> HIDE DEF Sizes
  <2>1. QED BY <1>2, <1>3, AllNumbers
<1>5. QED BY <1>1, <1>4

(* A finite set that is not empty has one of the greatest and one of the   *)
(* least value.                                                            *)
LEMMA Greatest ==
  ASSUME NEW S, IsFiniteSet(S), S # {}, NEW f, \A x \in S : f[x] \in Int
  PROVE  \E x \in S : \A y \in S : f[y] =< f[x]
<1> DEFINE M == {T \in SUBSET S : T # {} => \E x \in T : \A y \in T : f[y] =< f[x]}
<1>1. {} \in M
  OBVIOUS
<1>2. ASSUME NEW T \in SUBSET S, NEW e \in S \ T, T \in M PROVE T \cup {e} \in M
  <2>1. SUFFICES \E x \in T \cup {e} : \A y \in T \cup {e} : f[y] =< f[x]
    OBVIOUS
  <2>2. CASE T = {}
    BY <2>2
  <2>3. CASE T # {}
    <3>1. PICK x \in T : \A y \in T : f[y] =< f[x]
      BY <1>2, <2>3
    <3>2. CASE f[e] =< f[x]
      BY <3>1, <3>2
    <3>3. CASE ~(f[e] =< f[x])
      <4>1. f[e] =< f[e] /\ \A y \in T : f[y] =< f[e]
        BY <3>1, <3>3
      <4>2. QED BY <4>1
    <3>4. QED BY <3>2, <3>3
  <2>4. QED BY <2>2, <2>3
<1>3. S \in M
  <2> HIDE DEF M
  <2>1. QED BY <1>1, <1>2, FiniteGrow
<1>4. QED BY <1>3

LEMMA Least ==
  ASSUME NEW S, IsFiniteSet(S), S # {}, NEW f, \A x \in S : f[x] \in Int
  PROVE  \E x \in S : \A y \in S : f[x] =< f[y]
<1> DEFINE g == [x \in S |-> - f[x]]
<1>1. \A x \in S : g[x] \in Int /\ g[x] = - f[x]
  OBVIOUS
<1>2. \E x \in S : \A y \in S : g[y] =< g[x]
  <2> HIDE DEF g
  <2>1. QED BY <1>1, Greatest
<1>3. QED BY <1>1, <1>2

LEMMA LeastNumber ==
  ASSUME NEW S \in SUBSET Int, IsFiniteSet(S), S # {}
  PROVE  \E x \in S : \A y \in S : x =< y
<1> DEFINE g == [x \in S |-> x]
<1>1. \A x \in S : g[x] \in Int /\ g[x] = x
  OBVIOUS
<1>2. \E x \in S : \A y \in S : g[x] =< g[y]
  <2> HIDE DEF g
  <2>1. QED BY <1>1, Least
<1>3. QED BY <1>1, <1>2

Sum(f, S) == SumFunctionOnSet(f, S)

(* The recursion of a sum over subsets of U. *)
Summing(f, U, g) ==
  g = [s \in SUBSET U |-> IF s = {} THEN 0
                          ELSE f[CHOOSE x \in s : TRUE] + g[s \ {CHOOSE x \in s : TRUE}]]

LEMMA SumIsRecursion ==
  ASSUME NEW f, NEW S
  PROVE  Sum(f, S) = (CHOOSE g : Summing(f, S, g))[S]
BY DEF Sum, Summing, SumFunctionOnSet, FoldFunctionOnSet, MapThenFoldSet

(* One of the elements of a set that is not empty. *)
LEMMA ChosenIn ==
  ASSUME NEW s, s # {}
  PROVE  (CHOOSE x \in s : TRUE) \in s
OBVIOUS

LEMMA SummingExists ==
  ASSUME NEW f, NEW U, IsFiniteSet(U)
  PROVE  \E g : Summing(f, U, g)
<1> DEFINE One(s) == CHOOSE x \in s : TRUE
           Small(n) == {s \in SUBSET U : Cardinality(s) =< n}
           Upto(n, g) == g = [s \in Small(n) |-> IF s = {} THEN 0 ELSE f[One(s)] + g[s \ {One(s)}]]
           Sizes == {n \in Nat : \E g : Upto(n, g)}
<1>0. \A T \in SUBSET U : IsFiniteSet(T) /\ Cardinality(T) \in Nat /\ Cardinality(T) =< Cardinality(U)
  BY FS_Subset, FS_CardinalityType
<1>1. 0 \in Sizes
  <2> DEFINE g == [s \in Small(0) |-> IF s = {} THEN 0 ELSE 0]
  <2>1. \A s \in Small(0) : s = {}
    BY <1>0, FS_EmptySet
  <2>2. g = [s \in Small(0) |-> IF s = {} THEN 0 ELSE f[One(s)] + g[s \ {One(s)}]]
    <3> HIDE DEF Small, One
    <3>1. QED BY <2>1
  <2>3. Upto(0, g)
    BY <2>2
  <2>4. QED BY <2>3
<1>2. ASSUME NEW n \in Nat, n \in Sizes PROVE n + 1 \in Sizes
  <2>1. PICK g : Upto(n, g)
    BY <1>2
  <2> DEFINE h == [s \in Small(n + 1) |-> IF s = {} THEN 0 ELSE f[One(s)] + g[s \ {One(s)}]]
  <2>2. \A s \in Small(n) : s \in Small(n + 1)
    BY <1>0
  <2>3. \A s \in Small(n) : h[s] = g[s]
    <3>1. \A s \in Small(n) : g[s] = IF s = {} THEN 0 ELSE f[One(s)] + g[s \ {One(s)}]
      <4> HIDE DEF Small, One
      <4>1. QED BY <2>1
    <3>2. QED
      <4> HIDE DEF Small, One
      <4>1. QED BY <2>2, <3>1
  <2>4. \A s \in Small(n + 1) : s # {} => s \ {One(s)} \in Small(n)
    <3>1. SUFFICES ASSUME NEW s \in Small(n + 1), s # {} PROVE s \ {One(s)} \in Small(n)
      OBVIOUS
    <3>2. One(s) \in s
      BY <3>1, ChosenIn
    <3>3. Cardinality(s \ {One(s)}) = Cardinality(s) - 1
      <4> HIDE DEF One
      <4>1. QED BY <1>0, <3>2, FS_RemoveElement
    <3>4. Cardinality(s) \in Nat /\ Cardinality(s) =< n + 1
      BY <1>0
    <3>5. QED BY <3>3, <3>4
  <2>5. \A s \in Small(n + 1) : h[s] = IF s = {} THEN 0 ELSE f[One(s)] + h[s \ {One(s)}]
    <3> HIDE DEF Small, One
    <3>1. QED BY <2>3, <2>4
  <2>6. Upto(n + 1, h)
    <3>1. h = [s \in Small(n + 1) |-> h[s]]
      <4> HIDE DEF Small, One
      <4>1. QED OBVIOUS
    <3> HIDE DEF h, Small, One
    <3>2. QED BY <2>5, <3>1
  <2> HIDE DEF h, Upto
  <2>7. QED BY <2>6
<1>3. Nat \subseteq Sizes
  <2> HIDE DEF Sizes
  <2>1. QED BY <1>1, <1>2, AllNumbers
<1>4. Cardinality(U) \in Nat
  BY <1>0
<1>5. PICK g : Upto(Cardinality(U), g)
  BY <1>3, <1>4
<1>6. Small(Cardinality(U)) = SUBSET U
  BY <1>0
<1>7. Summing(f, U, g)
  BY <1>5, <1>6 DEF Summing
<1>8. QED BY <1>7

LEMMA SummingAgree ==
  ASSUME NEW f, NEW U, NEW V, NEW g, NEW h, Summing(f, U, g), Summing(f, V, h),
         NEW S, IsFiniteSet(S), S \subseteq U, S \subseteq V
  PROVE  g[S] = h[S]
<1> DEFINE One(s) == CHOOSE x \in s : TRUE
           Sizes == {n \in Nat : \A T \in SUBSET S : Cardinality(T) = n => g[T] = h[T]}
<1>0. \A T \in SUBSET S : IsFiniteSet(T) /\ Cardinality(T) \in Nat
  BY FS_Subset, FS_CardinalityType
<1>1. /\ \A s \in SUBSET U : g[s] = IF s = {} THEN 0 ELSE f[One(s)] + g[s \ {One(s)}]
      /\ \A s \in SUBSET V : h[s] = IF s = {} THEN 0 ELSE f[One(s)] + h[s \ {One(s)}]
  BY DEF Summing
<1>2. \A s \in SUBSET S : /\ g[s] = IF s = {} THEN 0 ELSE f[One(s)] + g[s \ {One(s)}]
                          /\ h[s] = IF s = {} THEN 0 ELSE f[One(s)] + h[s \ {One(s)}]
  <2> HIDE DEF One
  <2>1. QED BY <1>1
<1>3. 0 \in Sizes
  <2>1. SUFFICES ASSUME NEW T \in SUBSET S, Cardinality(T) = 0 PROVE g[T] = h[T]
    OBVIOUS
  <2>2. T = {}
    BY <1>0, <2>1, FS_EmptySet
  <2>3. QED BY <1>2, <2>2
<1>4. ASSUME NEW n \in Nat, n \in Sizes PROVE n + 1 \in Sizes
  <2>1. SUFFICES ASSUME NEW T \in SUBSET S, Cardinality(T) = n + 1 PROVE g[T] = h[T]
    OBVIOUS
  <2>2. T # {}
    <3>1. Cardinality({}) = 0
      BY FS_EmptySet
    <3>2. QED BY <2>1, <3>1
  <2>3. One(T) \in T
    BY <2>2, ChosenIn
  <2>4. Cardinality(T \ {One(T)}) = n
    <3>1. IsFiniteSet(T)
      BY <1>0
    <3> HIDE DEF One
    <3>2. Cardinality(T \ {One(T)}) = Cardinality(T) - 1
      BY <2>3, <3>1, FS_RemoveElement
    <3>3. QED BY <2>1, <3>2
  <2>5. g[T \ {One(T)}] = h[T \ {One(T)}]
    <3> HIDE DEF One
    <3>1. QED BY <1>4, <2>4
  <2>6. QED
    <3> HIDE DEF One
    <3>1. QED BY <1>2, <2>2, <2>5
<1>5. Nat \subseteq Sizes
  <2> HIDE DEF Sizes
  <2>1. QED BY <1>3, <1>4, AllNumbers
<1>6. QED BY <1>0, <1>5

LEMMA SumEmpty ==
  ASSUME NEW f
  PROVE  Sum(f, {}) = 0
<1> DEFINE g == CHOOSE h : Summing(f, {}, h)
<1>1. Summing(f, {}, g)
  BY SummingExists, FS_EmptySet
<1>2. Sum(f, {}) = g[{}]
  BY SumIsRecursion
<1>3. g[{}] = 0
  <2> HIDE DEF g
  <2>1. QED BY <1>1 DEF Summing
<1>4. QED BY <1>2, <1>3

LEMMA SumChosen ==
  ASSUME NEW f, NEW S, IsFiniteSet(S), S # {}
  PROVE  Sum(f, S) = f[CHOOSE x \in S : TRUE] + Sum(f, S \ {CHOOSE x \in S : TRUE})
<1> DEFINE One == CHOOSE x \in S : TRUE
           R == S \ {One}
           g == CHOOSE k : Summing(f, S, k)
           h == CHOOSE k : Summing(f, R, k)
<1>1. IsFiniteSet(R) /\ R \subseteq S
  <2> HIDE DEF One
  <2>1. QED BY FS_RemoveElement
<1>2. Summing(f, S, g) /\ Summing(f, R, h)
  <2> HIDE DEF R
  <2>1. QED BY <1>1, SummingExists
<1>3. Sum(f, S) = g[S] /\ Sum(f, R) = h[R]
  <2> HIDE DEF R
  <2>1. QED BY SumIsRecursion
<1>4. g[S] = f[One] + g[R]
  <2> HIDE DEF g
  <2>1. QED BY <1>2 DEF Summing
<1>5. g[R] = h[R]
  <2> HIDE DEF g, h, R
  <2>1. QED BY <1>1, <1>2, SummingAgree
<1>6. QED
  <2>1. Sum(f, S) = f[One] + Sum(f, R)
    <3> HIDE DEF g, h, R, One
    <3>1. QED BY <1>3, <1>4, <1>5
  <2>2. QED BY <2>1

LEMMA SumNat ==
  ASSUME NEW f, NEW S, IsFiniteSet(S), \A x \in S : f[x] \in Nat
  PROVE  Sum(f, S) \in Nat
<1> DEFINE Sizes == {n \in Nat : \A T \in SUBSET S : Cardinality(T) = n => Sum(f, T) \in Nat}
<1>0. \A T \in SUBSET S : IsFiniteSet(T) /\ Cardinality(T) \in Nat
  BY FS_Subset, FS_CardinalityType
<1>1. 0 \in Sizes
  <2>1. SUFFICES ASSUME NEW T \in SUBSET S, Cardinality(T) = 0 PROVE Sum(f, T) \in Nat
    OBVIOUS
  <2>2. T = {}
    BY <1>0, <2>1, FS_EmptySet
  <2>3. QED BY <2>2, SumEmpty
<1>2. ASSUME NEW n \in Nat, n \in Sizes PROVE n + 1 \in Sizes
  <2>1. SUFFICES ASSUME NEW T \in SUBSET S, Cardinality(T) = n + 1 PROVE Sum(f, T) \in Nat
    OBVIOUS
  <2> DEFINE One == CHOOSE x \in T : TRUE
  <2>2. T # {}
    <3>1. Cardinality({}) = 0
      BY FS_EmptySet
    <3>2. QED BY <2>1, <3>1
  <2>3. One \in T
    BY <2>2, ChosenIn
  <2>4. IsFiniteSet(T)
    BY <1>0
  <2>5. Sum(f, T) = f[One] + Sum(f, T \ {One})
    BY <2>2, <2>4, SumChosen
  <2>6. Cardinality(T \ {One}) = n
    <3> HIDE DEF One
    <3>1. Cardinality(T \ {One}) = Cardinality(T) - 1
      BY <2>3, <2>4, FS_RemoveElement
    <3>2. QED BY <2>1, <3>1
  <2>7. Sum(f, T \ {One}) \in Nat /\ f[One] \in Nat
    <3> HIDE DEF One
    <3>1. QED BY <1>2, <2>3, <2>6
  <2>8. QED
    <3> HIDE DEF One
    <3>1. QED BY <2>5, <2>7
<1>3. Nat \subseteq Sizes
  <2> HIDE DEF Sizes
  <2>1. QED BY <1>1, <1>2, AllNumbers
<1>4. QED BY <1>0, <1>3

(* Any element may be taken out first. *)
LEMMA SumRemove ==
  ASSUME NEW f, NEW S, IsFiniteSet(S), \A x \in S : f[x] \in Nat, NEW e \in S
  PROVE  Sum(f, S) = f[e] + Sum(f, S \ {e})
<1> DEFINE Sizes == {n \in Nat : \A T \in SUBSET S : Cardinality(T) = n =>
                       \A x \in T : Sum(f, T) = f[x] + Sum(f, T \ {x})}
<1>0. \A T \in SUBSET S : /\ IsFiniteSet(T) /\ Cardinality(T) \in Nat /\ Sum(f, T) \in Nat
  BY FS_Subset, FS_CardinalityType, SumNat
<1>1. 0 \in Sizes
  BY <1>0, FS_EmptySet
<1>2. ASSUME NEW n \in Nat, n \in Sizes PROVE n + 1 \in Sizes
  <2>1. SUFFICES ASSUME NEW T \in SUBSET S, Cardinality(T) = n + 1, NEW x \in T
                 PROVE  Sum(f, T) = f[x] + Sum(f, T \ {x})
    OBVIOUS
  <2> DEFINE One == CHOOSE y \in T : TRUE
  <2>2. T # {} /\ IsFiniteSet(T)
    BY <1>0
  <2>3. One \in T
    BY <2>2, ChosenIn
  <2>4. Sum(f, T) = f[One] + Sum(f, T \ {One})
    BY <2>2, SumChosen
  <2>5. CASE x = One
    BY <2>4, <2>5
  <2>6. CASE x # One
    <3> HIDE DEF One
    <3>1. Cardinality(T \ {One}) = n /\ Cardinality(T \ {x}) = n
      <4>1. Cardinality(T \ {One}) = Cardinality(T) - 1 /\ Cardinality(T \ {x}) = Cardinality(T) - 1
        BY <2>2, <2>3, FS_RemoveElement
      <4>2. QED BY <2>1, <4>1
    <3>2. Sum(f, T \ {One}) = f[x] + Sum(f, (T \ {One}) \ {x})
      BY <1>2, <2>6, <3>1
    <3>3. Sum(f, T \ {x}) = f[One] + Sum(f, (T \ {x}) \ {One})
      BY <1>2, <2>3, <2>6, <3>1
    <3>4. (T \ {One}) \ {x} = (T \ {x}) \ {One} /\ (T \ {x}) \ {One} \in SUBSET S
      OBVIOUS
    <3>5. f[x] \in Nat /\ f[One] \in Nat /\ Sum(f, (T \ {x}) \ {One}) \in Nat
      BY <1>0, <2>3, <3>4
    <3>6. QED BY <2>4, <3>2, <3>3, <3>4, <3>5
  <2>7. QED BY <2>5, <2>6
<1>3. Nat \subseteq Sizes
  <2> HIDE DEF Sizes
  <2>1. QED BY <1>1, <1>2, AllNumbers
<1>4. S \in SUBSET S
  OBVIOUS
<1>5. QED BY <1>0, <1>3, <1>4

LEMMA SumAdd ==
  ASSUME NEW f, NEW S, IsFiniteSet(S), \A x \in S : f[x] \in Nat, NEW e, e \notin S, f[e] \in Nat
  PROVE  Sum(f, S \cup {e}) = f[e] + Sum(f, S)
<1> DEFINE T == S \cup {e}
<1>1. IsFiniteSet(T) /\ (\A x \in T : f[x] \in Nat) /\ e \in T
  BY FS_AddElement
<1>2. T \ {e} = S
  OBVIOUS
<1>3. Sum(f, T) = f[e] + Sum(f, T \ {e})
  <2> HIDE DEF T
  <2>1. QED BY <1>1, SumRemove
<1>4. QED BY <1>2, <1>3

(* Where two functions are equal, so are their sums; and where one is      *)
(* nowhere the larger one, neither is its sum.                             *)
LEMMA SumSame ==
  ASSUME NEW f, NEW g, NEW S, IsFiniteSet(S), \A x \in S : f[x] \in Nat /\ f[x] = g[x]
  PROVE  Sum(f, S) = Sum(g, S)
<1> DEFINE M == {T \in SUBSET S : Sum(f, T) = Sum(g, T)}
<1>1. {} \in M
  BY SumEmpty
<1>2. ASSUME NEW T \in SUBSET S, NEW x \in S \ T, T \in M PROVE T \cup {x} \in M
  <2>1. IsFiniteSet(T)
    BY FS_Subset
  <2>2. Sum(f, T \cup {x}) = f[x] + Sum(f, T) /\ Sum(g, T \cup {x}) = g[x] + Sum(g, T)
    BY <2>1, SumAdd
  <2>3. QED BY <1>2, <2>2
<1>3. S \in M
  <2> HIDE DEF M
  <2>1. QED BY <1>1, <1>2, FiniteGrow
<1>4. QED BY <1>3

LEMMA SumLess ==
  ASSUME NEW f, NEW g, NEW S, IsFiniteSet(S),
         \A x \in S : f[x] \in Nat /\ g[x] \in Nat /\ f[x] =< g[x]
  PROVE  Sum(f, S) =< Sum(g, S)
<1> DEFINE M == {T \in SUBSET S : Sum(f, T) =< Sum(g, T)}
<1>1. {} \in M
  BY SumEmpty
<1>2. ASSUME NEW T \in SUBSET S, NEW x \in S \ T, T \in M PROVE T \cup {x} \in M
  <2>1. IsFiniteSet(T)
    BY FS_Subset
  <2>2. Sum(f, T \cup {x}) = f[x] + Sum(f, T) /\ Sum(g, T \cup {x}) = g[x] + Sum(g, T)
    BY <2>1, SumAdd
  <2>3. Sum(f, T) \in Nat /\ Sum(g, T) \in Nat
    BY <2>1, SumNat
  <2>4. f[x] \in Nat /\ g[x] \in Nat /\ f[x] =< g[x] /\ Sum(f, T) =< Sum(g, T)
    BY <1>2
  <2>5. Sum(f, T \cup {x}) =< Sum(g, T \cup {x})
    BY <2>2, <2>3, <2>4
  <2>6. QED BY <2>5
<1>3. S \in M
  <2> HIDE DEF M
  <2>1. QED BY <1>1, <1>2, FiniteGrow
<1>4. QED BY <1>3

LEMMA SumPlus ==
  ASSUME NEW f, NEW g, NEW h, NEW S, IsFiniteSet(S),
         \A x \in S : f[x] \in Nat /\ g[x] \in Nat /\ h[x] = f[x] + g[x]
  PROVE  Sum(h, S) = Sum(f, S) + Sum(g, S)
<1> DEFINE M == {T \in SUBSET S : Sum(h, T) = Sum(f, T) + Sum(g, T)}
<1>1. {} \in M
  <2>1. Sum(h, {}) = 0 /\ Sum(f, {}) = 0 /\ Sum(g, {}) = 0
    BY SumEmpty
  <2>2. QED BY <2>1
<1>2. ASSUME NEW T \in SUBSET S, NEW x \in S \ T, T \in M PROVE T \cup {x} \in M
  <2>1. IsFiniteSet(T) /\ \A y \in T \cup {x} : h[y] \in Nat
    BY FS_Subset
  <2>2. /\ Sum(f, T \cup {x}) = f[x] + Sum(f, T) /\ Sum(g, T \cup {x}) = g[x] + Sum(g, T)
        /\ Sum(h, T \cup {x}) = h[x] + Sum(h, T)
    BY <2>1, SumAdd
  <2>3. Sum(f, T) \in Nat /\ Sum(g, T) \in Nat
    BY <2>1, SumNat
  <2>4. f[x] \in Nat /\ g[x] \in Nat /\ h[x] = f[x] + g[x] /\ Sum(h, T) = Sum(f, T) + Sum(g, T)
    BY <1>2
  <2>5. Sum(h, T \cup {x}) = Sum(f, T \cup {x}) + Sum(g, T \cup {x})
    BY <2>2, <2>3, <2>4
  <2>6. QED BY <2>5
<1>3. S \in M
  <2> HIDE DEF M
  <2>1. QED BY <1>1, <1>2, FiniteGrow
<1>4. QED BY <1>3

(* A sum of ones and zeroes counts the ones. *)
LEMMA SumCounts ==
  ASSUME NEW f, NEW S, IsFiniteSet(S), NEW A, \A x \in S : f[x] = IF x \in A THEN 1 ELSE 0
  PROVE  Sum(f, S) = Cardinality(S \cap A)
<1> DEFINE M == {T \in SUBSET S : Sum(f, T) = Cardinality(T \cap A)}
<1>1. {} \in M
  BY SumEmpty, FS_EmptySet
<1>2. ASSUME NEW T \in SUBSET S, NEW x \in S \ T, T \in M PROVE T \cup {x} \in M
  <2>1. IsFiniteSet(T) /\ IsFiniteSet(T \cap A) /\ \A y \in T \cup {x} : f[y] \in Nat
    BY FS_Subset
  <2>2. Sum(f, T \cup {x}) = f[x] + Sum(f, T)
    BY <2>1, SumAdd
  <2>3. Cardinality(T \cap A) \in Nat
    BY <2>1, FS_CardinalityType
  <2>4. CASE x \in A
    <3>1. (T \cup {x}) \cap A = (T \cap A) \cup {x}
      BY <2>4
    <3>2. Cardinality((T \cap A) \cup {x}) = Cardinality(T \cap A) + 1
      BY <2>1, FS_AddElement
    <3>3. f[x] = 1 /\ Sum(f, T) = Cardinality(T \cap A)
      BY <1>2, <2>4
    <3> DEFINE s == Sum(f, T \cup {x})
               c == Cardinality((T \cup {x}) \cap A)
    <3>4. s = f[x] + Sum(f, T) /\ c = Cardinality(T \cap A) + 1
      BY <2>2, <3>1, <3>2
    <3>5. s = c
      <4> HIDE DEF s, c
      <4>1. QED BY <2>3, <3>3, <3>4
    <3>6. QED BY <3>5
  <2>5. CASE x \notin A
    <3>1. (T \cup {x}) \cap A = T \cap A
      BY <2>5
    <3>2. f[x] = 0 /\ Sum(f, T) = Cardinality(T \cap A)
      BY <1>2, <2>5
    <3> DEFINE s == Sum(f, T \cup {x})
               c == Cardinality((T \cup {x}) \cap A)
    <3>3. s = f[x] + Sum(f, T) /\ c = Cardinality(T \cap A)
      BY <2>2, <3>1
    <3>4. s = c
      <4> HIDE DEF s, c
      <4>1. QED BY <2>3, <3>2, <3>3
    <3>5. QED BY <3>4
  <2>6. QED BY <2>4, <2>5
<1>3. S \in M
  <2> HIDE DEF M
  <2>1. QED BY <1>1, <1>2, FiniteGrow
<1>4. QED BY <1>3

LEMMA SumZero ==
  ASSUME NEW f, NEW S, IsFiniteSet(S), \A x \in S : f[x] = 0
  PROVE  Sum(f, S) = 0
<1>1. \A x \in S : f[x] = IF x \in {} THEN 1 ELSE 0
  OBVIOUS
<1>2. Sum(f, S) = Cardinality(S \cap {})
  BY <1>1, SumCounts
<1>3. S \cap {} = {}
  OBVIOUS
<1>4. QED BY <1>2, <1>3, FS_EmptySet

Part(S, key, k) == {x \in S : key[x] = k}

(* A sum over a set that a key divides is the sum over the keys of the     *)
(* sums over its parts.                                                    *)
LEMMA SumParts ==
  ASSUME NEW f, NEW S, IsFiniteSet(S), \A x \in S : f[x] \in Nat,
         NEW K, IsFiniteSet(K), NEW key, \A x \in S : key[x] \in K,
         NEW g, \A k \in K : g[k] = Sum(f, Part(S, key, k))
  PROVE  Sum(f, S) = Sum(g, K)
<1> DEFINE M == {T \in SUBSET K : Sum(f, {x \in S : key[x] \in T}) = Sum(g, T)}
           In(T) == {x \in S : key[x] \in T}
           Of(k) == {x \in S : key[x] = k}
<1>0. \A T \in SUBSET S : IsFiniteSet(T) /\ Sum(f, T) \in Nat
  BY FS_Subset, SumNat
<1>1. \A T1, T2 \in SUBSET S : T1 \cap T2 = {} => Sum(f, T1 \cup T2) = Sum(f, T1) + Sum(f, T2)
  <2>1. SUFFICES ASSUME NEW T1 \in SUBSET S, NEW T2 \in SUBSET S, T1 \cap T2 = {}
                 PROVE  Sum(f, T1 \cup T2) = Sum(f, T1) + Sum(f, T2)
    OBVIOUS
  <2> DEFINE L == {T \in SUBSET T2 : Sum(f, T1 \cup T) = Sum(f, T1) + Sum(f, T)}
  <2>2. {} \in L
    <3>1. T1 \cup {} = T1 /\ Sum(f, {}) = 0 /\ Sum(f, T1) \in Nat
      BY <1>0, SumEmpty
    <3>2. QED BY <3>1
  <2>3. ASSUME NEW T \in SUBSET T2, NEW x \in T2 \ T, T \in L PROVE T \cup {x} \in L
    <3>1. IsFiniteSet(T) /\ IsFiniteSet(T1 \cup T) /\ x \notin T1 \cup T /\ f[x] \in Nat
      <4>1. T \in SUBSET S /\ T1 \cup T \in SUBSET S
        OBVIOUS
      <4>2. QED BY <1>0, <2>1, <4>1
    <3>2. Sum(f, (T1 \cup T) \cup {x}) = f[x] + Sum(f, T1 \cup T)
      BY <3>1, SumAdd
    <3>3. Sum(f, T \cup {x}) = f[x] + Sum(f, T)
      BY <3>1, SumAdd
    <3>4. (T1 \cup T) \cup {x} = T1 \cup (T \cup {x})
      OBVIOUS
    <3>5. Sum(f, T1) \in Nat /\ Sum(f, T) \in Nat /\ Sum(f, T1 \cup T) = Sum(f, T1) + Sum(f, T)
      BY <1>0, <2>3
    <3> DEFINE s == Sum(f, T1 \cup (T \cup {x}))
               t == Sum(f, T \cup {x})
               u == Sum(f, T1 \cup T)
    <3>6. s = f[x] + u /\ t = f[x] + Sum(f, T) /\ u = Sum(f, T1) + Sum(f, T)
      BY <3>2, <3>3, <3>4, <3>5
    <3>7. s = Sum(f, T1) + t
      <4> HIDE DEF s, t, u
      <4>1. QED BY <3>1, <3>5, <3>6
    <3>8. QED BY <3>7
  <2>4. T2 \in L
    <3>1. IsFiniteSet(T2)
      BY <1>0
    <3> HIDE DEF L
    <3>2. QED BY <2>2, <2>3, <3>1, FiniteGrow
  <2>5. QED BY <2>4
<1>3. \A k \in K : g[k] = Sum(f, Of(k))
  BY DEF Part
<1>4. {} \in M
  <2>1. In({}) = {}
    OBVIOUS
  <2>2. QED BY <2>1, SumEmpty
<1>5. ASSUME NEW T \in SUBSET K, NEW k \in K \ T, T \in M PROVE T \cup {k} \in M
  <2>1. In(T \cup {k}) = In(T) \cup Of(k) /\ In(T) \cap Of(k) = {}
    OBVIOUS
  <2>2. Sum(f, In(T \cup {k})) = Sum(f, In(T)) + Sum(f, Of(k))
    <3>1. In(T) \in SUBSET S /\ Of(k) \in SUBSET S
      OBVIOUS
    <3> HIDE DEF In, Of
    <3>2. QED BY <1>1, <2>1, <3>1
  <2>3. IsFiniteSet(T) /\ \A l \in K : g[l] \in Nat
    <3>1. IsFiniteSet(T)
      BY <1>0, FS_Subset
    <3>2. \A l \in K : Of(l) \in SUBSET S
      OBVIOUS
    <3> HIDE DEF Of
    <3>3. \A l \in K : g[l] \in Nat
      BY <1>0, <1>3, <3>2
    <3>4. QED BY <3>1, <3>3
  <2>4. Sum(g, T \cup {k}) = g[k] + Sum(g, T)
    BY <2>3, SumAdd
  <2>5. Sum(f, In(T)) \in Nat /\ g[k] \in Nat /\ g[k] = Sum(f, Of(k)) /\ Sum(f, In(T)) = Sum(g, T)
    BY <1>0, <1>3, <1>5, <2>3
  <2>6. Sum(f, In(T \cup {k})) = Sum(g, T \cup {k})
    BY <2>2, <2>4, <2>5
  <2>7. QED BY <2>6
<1>6. K \in M
  <2> HIDE DEF M
  <2>1. QED BY <1>4, <1>5, FiniteGrow
<1>7. In(K) = S
  OBVIOUS
<1>8. QED BY <1>6, <1>7

Column(h, S, k) == [x \in S |-> h[x][k]]

(* A sum of sums may be taken in either order. *)
LEMMA SumSwap ==
  ASSUME NEW S, IsFiniteSet(S), NEW K, IsFiniteSet(K), NEW h,
         \A x \in S : \A k \in K : h[x][k] \in Nat,
         NEW row, \A x \in S : row[x] = Sum(h[x], K),
         NEW col, \A k \in K : col[k] = Sum(Column(h, S, k), S)
  PROVE  Sum(row, S) = Sum(col, K)
<1> DEFINE Row(T) == [x \in S |-> Sum(h[x], T)]
           Col(k) == [x \in S |-> h[x][k]]
           M == {T \in SUBSET K : Sum(Row(T), S) = Sum(col, T)}
<1>0. \A T \in SUBSET K : IsFiniteSet(T) /\ \A x \in S : Sum(h[x], T) \in Nat
  BY FS_Subset, SumNat
<1>1. {} \in M
  <2> DEFINE r == Row({})
  <2>1. \A x \in S : r[x] = 0
    BY SumEmpty
  <2>2. Sum(r, S) = 0 /\ Sum(col, {}) = 0
    <3> HIDE DEF r
    <3>1. QED BY <2>1, SumZero, SumEmpty
  <2>3. QED BY <2>2
<1>2. ASSUME NEW T \in SUBSET K, NEW k \in K \ T, T \in M PROVE T \cup {k} \in M
  <2> DEFINE q == Row(T)
             r == Row(T \cup {k})
             c == Col(k)
  <2>1. \A x \in S : c[x] \in Nat /\ q[x] \in Nat /\ r[x] = c[x] + q[x]
    <3>1. SUFFICES ASSUME NEW x \in S PROVE c[x] \in Nat /\ q[x] \in Nat /\ r[x] = c[x] + q[x]
      OBVIOUS
    <3>2. Sum(h[x], T \cup {k}) = h[x][k] + Sum(h[x], T)
      BY <1>0, SumAdd
    <3>3. QED BY <1>0, <3>2
  <2>2. Sum(r, S) = Sum(c, S) + Sum(q, S)
    <3> HIDE DEF q, r, c
    <3>1. QED BY <2>1, SumPlus
  <2>3. \A l \in K : col[l] \in Nat
    <3>1. SUFFICES ASSUME NEW l \in K PROVE Sum(Col(l), S) \in Nat
      BY DEF Column
    <3>2. \A x \in S : Col(l)[x] \in Nat
      OBVIOUS
    <3> HIDE DEF Col
    <3>3. QED BY <3>2, SumNat
  <2>4. Sum(col, T \cup {k}) = col[k] + Sum(col, T)
    BY <1>0, <2>3, SumAdd
  <2>5. Sum(q, S) = Sum(col, T) /\ Sum(c, S) = col[k]
    BY <1>2 DEF Column
  <2>6. Sum(r, S) = Sum(col, T \cup {k})
    <3> HIDE DEF q, r, c
    <3>1. QED BY <2>2, <2>4, <2>5
  <2>7. QED BY <2>6
<1>3. K \in M
  <2> HIDE DEF M
  <2>1. QED BY <1>1, <1>2, FiniteGrow
<1>4. Sum(row, S) = Sum(Row(K), S)
  <2> DEFINE r == Row(K)
  <2>1. \A x \in S : row[x] \in Nat /\ row[x] = r[x]
    BY <1>0
  <2> HIDE DEF r
  <2>2. Sum(row, S) = Sum(r, S)
    BY <2>1, SumSame
  <2>3. QED BY <2>2 DEF r
<1>5. QED BY <1>3, <1>4

(* The sum over a part is no more than the whole. *)
LEMMA SumPartial ==
  ASSUME NEW f, NEW T, IsFiniteSet(T), \A x \in T : f[x] \in Nat, NEW S \in SUBSET T
  PROVE  Sum(f, S) =< Sum(f, T)
<1> DEFINE R == T \ S
           M == {Q \in SUBSET R : Sum(f, S) =< Sum(f, S \cup Q)}
<1>0. \A Q \in SUBSET T : IsFiniteSet(Q) /\ Sum(f, Q) \in Nat
  BY FS_Subset, SumNat
<1>1. {} \in M
  <2>1. S \cup {} = S /\ Sum(f, S) \in Nat
    BY <1>0
  <2>2. QED BY <2>1
<1>2. ASSUME NEW Q \in SUBSET R, NEW x \in R \ Q, Q \in M PROVE Q \cup {x} \in M
  <2>1. S \cup (Q \cup {x}) = (S \cup Q) \cup {x} /\ S \cup Q \in SUBSET T /\ x \notin S \cup Q /\ f[x] \in Nat
    OBVIOUS
  <2> DEFINE u == Sum(f, S \cup Q)
             v == Sum(f, S \cup (Q \cup {x}))
  <2>2. v = f[x] + u
    BY <1>0, <2>1, SumAdd
  <2>3. u \in Nat /\ Sum(f, S) \in Nat /\ Sum(f, S) =< u /\ f[x] \in Nat
    BY <1>0, <1>2, <2>1
  <2>4. Sum(f, S) =< v
    <3> HIDE DEF u, v
    <3>1. QED BY <2>2, <2>3
  <2>5. QED BY <2>4
<1>3. R \in M
  <2>1. IsFiniteSet(R)
    BY <1>0
  <2> HIDE DEF M, R
  <2>2. QED BY <1>1, <1>2, <2>1, FiniteGrow
<1>4. S \cup R = T
  OBVIOUS
<1>5. QED BY <1>3, <1>4

(* A sum of which one summand grew. *)
LEMMA SumBump ==
  ASSUME NEW f, NEW g, NEW S, IsFiniteSet(S), NEW e \in S, NEW d \in Nat,
         \A x \in S : f[x] \in Nat /\ g[x] = IF x = e THEN f[x] + d ELSE f[x]
  PROVE  Sum(g, S) = Sum(f, S) + d
<1> DEFINE R == S \ {e}
<1>1. IsFiniteSet(R) /\ \A x \in R : f[x] \in Nat /\ f[x] = g[x]
  BY FS_RemoveElement
<1>2. Sum(f, R) = Sum(g, R) /\ Sum(f, R) \in Nat
  <2> HIDE DEF R
  <2>1. QED BY <1>1, SumSame, SumNat
<1>3. Sum(f, S) = f[e] + Sum(f, R) /\ Sum(g, S) = g[e] + Sum(g, R)
  BY SumRemove
<1>4. f[e] \in Nat /\ g[e] = f[e] + d
  OBVIOUS
<1>5. QED
  <2> HIDE DEF R
  <2>1. QED BY <1>2, <1>3, <1>4

-------------------------------------------------------------------------------
(* What the accumulators are. *)

Totals  == [count : Nat, total : Nat, self : Nat]
Measure == {"count", "total", "self"}

(* An accumulator of any trees. *)
IsFold(a) == IsFiniteSet(DOMAIN a) /\ a \in [DOMAIN a -> Totals]

LEMMA TotalsAre ==
  /\ Nothing \in Totals /\ \A m \in Measure : Nothing[m] = 0
  /\ \A a \in Totals : \A m \in Measure : a[m] \in Nat
  /\ \A a, b \in Totals : Plus(a, b) \in Totals /\ \A m \in Measure : Plus(a, b)[m] = a[m] + b[m]
<1>1. Nothing \in Totals /\ \A m \in Measure : Nothing[m] = 0
  <2>1. Nothing["count"] = 0 /\ Nothing["total"] = 0 /\ Nothing["self"] = 0 /\ Nothing \in Totals
    BY DEF Nothing, Totals
  <2>2. QED BY <2>1 DEF Measure
<1>2. \A a \in Totals : \A m \in Measure : a[m] \in Nat
  <2>1. \A a \in Totals : a["count"] \in Nat /\ a["total"] \in Nat /\ a["self"] \in Nat
    BY DEF Totals
  <2>2. QED BY <2>1 DEF Measure
<1>3. ASSUME NEW a \in Totals, NEW b \in Totals
      PROVE  Plus(a, b) \in Totals /\ \A m \in Measure : Plus(a, b)[m] = a[m] + b[m]
  <2>1. /\ Plus(a, b)["count"] = a["count"] + b["count"] /\ Plus(a, b)["total"] = a["total"] + b["total"]
        /\ Plus(a, b)["self"] = a["self"] + b["self"]
    BY DEF Plus
  <2>2. Plus(a, b) \in Totals
    BY DEF Plus, Totals
  <2>3. \A m \in Measure : Plus(a, b)[m] = a[m] + b[m]
    BY <2>1 DEF Measure
  <2>4. QED BY <2>2, <2>3
<1>4. QED BY <1>1, <1>2, <1>3

LEMMA AtIs ==
  ASSUME NEW a, IsFold(a), NEW n
  PROVE  At(a, n) \in Totals
BY TotalsAre DEF At, IsFold

LEMMA JoinIs ==
  ASSUME NEW a, NEW b, IsFold(a), IsFold(b)
  PROVE  /\ IsFold(Join(a, b)) /\ DOMAIN Join(a, b) = DOMAIN a \cup DOMAIN b
         /\ \A n \in DOMAIN Join(a, b) : Join(a, b)[n] = Plus(At(a, n), At(b, n))
<1>1. DOMAIN Join(a, b) = DOMAIN a \cup DOMAIN b
  BY DEF Join
<1>2. \A n \in DOMAIN Join(a, b) : Join(a, b)[n] = Plus(At(a, n), At(b, n)) /\ Join(a, b)[n] \in Totals
  <2>1. TAKE n \in DOMAIN Join(a, b)
  <2>2. Join(a, b)[n] = Plus(At(a, n), At(b, n))
    BY DEF Join
  <2>3. QED BY <2>2, AtIs, TotalsAre
<1>3. IsFold(Join(a, b))
  <2>1. IsFiniteSet(DOMAIN a \cup DOMAIN b)
    BY FS_Union DEF IsFold
  <2>2. Join(a, b) = [n \in DOMAIN Join(a, b) |-> Join(a, b)[n]]
    BY DEF Join
  <2>3. QED BY <1>1, <1>2, <2>1, <2>2 DEF IsFold
<1>4. QED BY <1>1, <1>2, <1>3

LEMMA JoinAt ==
  ASSUME NEW a, NEW b, IsFold(a), IsFold(b), NEW n, NEW m \in Measure
  PROVE  At(Join(a, b), n)[m] = At(a, n)[m] + At(b, n)[m]
<1>1. CASE n \in DOMAIN a \cup DOMAIN b
  <2>1. At(Join(a, b), n) = Plus(At(a, n), At(b, n))
    BY <1>1, JoinIs DEF At
  <2>2. QED BY <2>1, AtIs, TotalsAre
<1>2. CASE n \notin DOMAIN a \cup DOMAIN b
  <2>1. At(Join(a, b), n) = Nothing /\ At(a, n) = Nothing /\ At(b, n) = Nothing
    BY <1>2, JoinIs DEF At
  <2>2. Nothing[m] = 0
    BY TotalsAre
  <2>3. QED BY <2>1, <2>2
<1>3. QED BY <1>1, <1>2

DurationOf(tr) == [p \in DOMAIN tr |-> tr[p].duration]
SelfOf(tr)     == [p \in DOMAIN tr |-> SelfTime(tr, p)]

LEMMA DurationsAre ==
  ASSUME NEW tr, IsTree(tr), NEW S \in SUBSET DOMAIN tr
  PROVE  Durations(tr, S) = Sum(DurationOf(tr), S) /\ Durations(tr, S) \in Nat /\ IsFiniteSet(S)
<1> DEFINE f == [p \in S |-> tr[p].duration]
           g == DurationOf(tr)
<1>1. IsFiniteSet(S)
  BY FS_Subset DEF IsTree
<1>2. \A p \in S : f[p] \in Nat /\ f[p] = g[p]
  BY DEF IsTree, DurationOf
<1>3. Durations(tr, S) = Sum(f, S)
  <2>1. DOMAIN f = S
    OBVIOUS
  <2>2. QED BY <2>1 DEF Durations, SumFunction, Sum
<1> HIDE DEF f, g
<1>4. Sum(f, S) = Sum(g, S) /\ Sum(f, S) \in Nat
  BY <1>1, <1>2, SumSame, SumNat
<1>5. QED BY <1>1, <1>3, <1>4 DEF g

LEMMA SelfTimeIs ==
  ASSUME NEW tr, IsTree(tr), NEW p \in DOMAIN tr
  PROVE  /\ SelfTime(tr, p) \in Nat /\ SelfTime(tr, p) =< tr[p].duration
         /\ tr[p].duration =< SelfTime(tr, p) + Durations(tr, Children(tr, p))
<1>1. Durations(tr, Children(tr, p)) \in Nat
  BY DurationsAre DEF Children
<1>2. tr[p].duration \in Nat
  BY DEF IsTree
<1>3. QED BY <1>1, <1>2 DEF SelfTime

LEMMA FoldOfIs ==
  ASSUME NEW tr, IsTree(tr)
  PROVE  /\ IsFold(FoldOf(tr)) /\ DOMAIN FoldOf(tr) = {NamePath(tr, p) : p \in DOMAIN tr}
         /\ \A n : /\ At(FoldOf(tr), n).count = Cardinality(SpansAt(tr, n))
                   /\ At(FoldOf(tr), n).total = Durations(tr, SpansAt(tr, n))
                   /\ At(FoldOf(tr), n).self = Sum(SelfOf(tr), SpansAt(tr, n))
<1> DEFINE names == {NamePath(tr, p) : p \in DOMAIN tr}
           selfAt(n) == [p \in SpansAt(tr, n) |-> SelfTime(tr, p)]
           three(n) == [count |-> Cardinality(SpansAt(tr, n)), total |-> Durations(tr, SpansAt(tr, n)),
                        self |-> SumFunction(selfAt(n))]
<1>1. DOMAIN FoldOf(tr) = names /\ \A n \in names : FoldOf(tr)[n] = three(n)
  BY DEF FoldOf
<1>2. IsFiniteSet(names)
  <2>1. IsFiniteSet(DOMAIN tr)
    BY DEF IsTree
  <2> DEFINE byPath == [p \in DOMAIN tr |-> NamePath(tr, p)]
  <2>2. byPath \in Surjection(DOMAIN tr, names)
    BY DEF Surjection
  <2> HIDE DEF byPath, names
  <2>3. QED BY <2>1, <2>2, FS_Surjection
<1>3. ASSUME NEW n
      PROVE  /\ SumFunction(selfAt(n)) = Sum(SelfOf(tr), SpansAt(tr, n))
             /\ SumFunction(selfAt(n)) \in Nat /\ Durations(tr, SpansAt(tr, n)) \in Nat
             /\ Cardinality(SpansAt(tr, n)) \in Nat
  <2> DEFINE f == selfAt(n)
             g == SelfOf(tr)
             S == SpansAt(tr, n)
  <2>1. S \in SUBSET DOMAIN tr
    BY DEF SpansAt
  <2>2. IsFiniteSet(S) /\ Durations(tr, S) \in Nat
    <3> HIDE DEF S
    <3>1. QED BY <2>1, DurationsAre
  <2>3. \A p \in S : f[p] \in Nat /\ f[p] = g[p]
    BY <2>1, SelfTimeIs DEF SelfOf
  <2>4. SumFunction(f) = Sum(f, S)
    <3>1. DOMAIN f = S
      OBVIOUS
    <3>2. QED BY <3>1 DEF SumFunction, Sum
  <2>5. Sum(f, S) = Sum(g, S) /\ Sum(f, S) \in Nat
    <3> HIDE DEF f, g, S
    <3>1. QED BY <2>2, <2>3, SumSame, SumNat
  <2>6. Cardinality(S) \in Nat
    <3> HIDE DEF S
    <3>1. QED BY <2>2, FS_CardinalityType
  <2>7. QED BY <2>2, <2>4, <2>5, <2>6
<1>4. \A n : three(n) \in Totals
  BY <1>3 DEF Totals
<1>5. IsFold(FoldOf(tr))
  <2>1. FoldOf(tr) = [n \in DOMAIN FoldOf(tr) |-> FoldOf(tr)[n]]
    BY DEF FoldOf
  <2> HIDE DEF three, names
  <2>2. QED BY <1>1, <1>2, <1>4, <2>1 DEF IsFold
<1>6. ASSUME NEW n
      PROVE  /\ At(FoldOf(tr), n).count = Cardinality(SpansAt(tr, n))
             /\ At(FoldOf(tr), n).total = Durations(tr, SpansAt(tr, n))
             /\ At(FoldOf(tr), n).self = Sum(SelfOf(tr), SpansAt(tr, n))
  <2>1. CASE n \in names
    <3>1. At(FoldOf(tr), n) = three(n)
      <4> HIDE DEF three, names
      <4>1. QED BY <1>1, <2>1 DEF At
    <3>2. QED BY <1>3, <3>1
  <2>2. CASE n \notin names
    <3>1. SpansAt(tr, n) = {}
      BY <2>2 DEF SpansAt
    <3>2. At(FoldOf(tr), n) = Nothing
      <4> HIDE DEF three, names
      <4>1. QED BY <1>1, <2>2 DEF At
    <3>3. Durations(tr, {}) = 0 /\ Sum(SelfOf(tr), {}) = 0 /\ Cardinality({}) = 0
      BY SumEmpty, DurationsAre, FS_EmptySet
    <3>4. QED BY <3>1, <3>2, <3>3 DEF Nothing
  <2>3. QED BY <2>1, <2>2
<1>7. QED BY <1>1, <1>5, <1>6

-------------------------------------------------------------------------------
(* The two sides of the books: what the accumulators hold of a path, and   *)
(* what the trees of the run come to.                                      *)

Paths == UNION {DOMAIN FoldOf(tr) : tr \in Trees}

Known == DOMAIN runFold \cup UNION {DOMAIN folds[f] : f \in Folder}

HeldBy(n, m)  == [f \in Folder |-> At(folds[f], n)[m]]
Held(n, m)    == At(runFold, n)[m] + Sum(HeldBy(n, m), Folder)
Of(n, m)      == [tr \in Trees |-> At(FoldOf(tr), n)[m]]
Each(s, of)   == [i \in DOMAIN s |-> of[s[i]]]
OverAll(s, of) == Sum(Each(s, of), DOMAIN s)

BooksTypes ==
  /\ recorded \in Seq(Trees) /\ keptTrees \subseteq DOMAIN recorded
  /\ IsFold(runFold)
  /\ folds = [f \in Folder |-> folds[f]] /\ \A f \in Folder : IsFold(folds[f])
BooksKnow == Known = UNION {DOMAIN FoldOf(recorded[i]) : i \in DOMAIN recorded}
BooksBalance == \A n \in Paths : \A m \in Measure : Held(n, m) = OverAll(recorded, Of(n, m))

Books == BooksTypes /\ BooksKnow /\ BooksBalance

LEMMA OverAllIs ==
  ASSUME NEW s \in Seq(Trees), NEW of, \A tr \in Trees : of[tr] \in Nat
  PROVE  /\ OverAll(s, of) \in Nat /\ IsFiniteSet(DOMAIN s) /\ \A i \in DOMAIN s : Each(s, of)[i] \in Nat
         /\ \A tr \in Trees : OverAll(Append(s, tr), of) = OverAll(s, of) + of[tr]
<1>1. DOMAIN s = 1 .. Len(s) /\ Len(s) \in Nat /\ \A i \in DOMAIN s : s[i] \in Trees
  BY LenProperties, ElementOfSeq
<1>2. IsFiniteSet(DOMAIN s)
  BY <1>1, FS_Interval
<1>3. \A i \in DOMAIN s : Each(s, of)[i] \in Nat
  BY <1>1 DEF Each
<1>4. OverAll(s, of) \in Nat
  BY <1>2, <1>3, SumNat DEF OverAll
<1>5. ASSUME NEW tr \in Trees PROVE OverAll(Append(s, tr), of) = OverAll(s, of) + of[tr]
  <2> DEFINE t == Append(s, tr)
             f == Each(s, of)
             g == Each(t, of)
             D == DOMAIN s
             e == Len(s) + 1
  <2>1. DOMAIN t = D \cup {e} /\ e \notin D
    <3>1. DOMAIN t = 1 .. Len(s) + 1
      BY AppendProperties, LenProperties
    <3>2. QED BY <1>1, <3>1
  <2>2. g[e] = of[tr] /\ \A i \in D : g[i] = f[i]
    <3>1. t[e] = tr /\ \A i \in D : t[i] = s[i]
      BY <1>1, AppendProperties
    <3>2. QED BY <2>1, <3>1 DEF Each
  <2>3. \A i \in D : g[i] \in Nat
    BY <1>3, <2>2
  <2>4. of[tr] \in Nat
    OBVIOUS
  <2> HIDE DEF t, f, g, D, e
  <2>5. IsFiniteSet(D)
    BY <1>2 DEF D
  <2>6. Sum(g, D \cup {e}) = g[e] + Sum(g, D)
    BY <2>1, <2>2, <2>3, <2>4, <2>5, SumAdd
  <2>7. Sum(g, D) = Sum(f, D) /\ Sum(g, D) \in Nat
    BY <2>2, <2>3, <2>5, SumSame, SumNat
  <2>8. Sum(g, DOMAIN t) = Sum(f, D) + of[tr]
    BY <2>1, <2>2, <2>4, <2>6, <2>7
  <2>9. QED BY <2>8 DEF t, f, g, D, OverAll
<1>6. QED BY <1>2, <1>3, <1>4, <1>5

LEMMA TreeFolds ==
  /\ \A tr \in Trees : IsTree(tr) /\ IsFold(FoldOf(tr))
  /\ \A n : \A m \in Measure : \A tr \in Trees : Of(n, m)[tr] = At(FoldOf(tr), n)[m] /\ Of(n, m)[tr] \in Nat
<1>1. \A tr \in Trees : IsTree(tr) /\ IsFold(FoldOf(tr))
  BY TreesAssumption, FoldOfIs
<1>2. ASSUME NEW n, NEW m \in Measure, NEW tr \in Trees
      PROVE  Of(n, m)[tr] = At(FoldOf(tr), n)[m] /\ Of(n, m)[tr] \in Nat
  BY <1>1, AtIs, TotalsAre DEF Of
<1>3. QED BY <1>1, <1>2

LEMMA OfIs ==
  ASSUME NEW s \in Seq(Trees), NEW i \in DOMAIN s, NEW n, NEW m \in Measure
  PROVE  Each(s, Of(n, m))[i] = At(FoldOf(s[i]), n)[m] /\ Each(s, Of(n, m))[i] \in Nat
<1>1. s[i] \in Trees
  BY LenProperties, ElementOfSeq
<1>2. Each(s, Of(n, m))[i] = Of(n, m)[s[i]]
  BY DEF Each
<1>3. QED BY <1>1, <1>2, TreeFolds

LEMMA NoneFold == IsFold(<<>>) /\ DOMAIN <<>> = {} /\ \A n : At(<<>>, n) = Nothing
<1>1. DOMAIN <<>> = {}
  OBVIOUS
<1>2. <<>> \in [{} -> Totals]
  BY <1>1, EmptySeq
<1>3. QED BY <1>1, <1>2, FS_EmptySet DEF IsFold, At

LEMMA HeldIs ==
  ASSUME BooksTypes, NEW n, NEW m \in Measure
  PROVE  /\ At(runFold, n)[m] \in Nat /\ Sum(HeldBy(n, m), Folder) \in Nat
         /\ \A f \in Folder : HeldBy(n, m)[f] \in Nat /\ HeldBy(n, m)[f] = At(folds[f], n)[m]
<1>1. IsFiniteSet(Folder)
  BY TreesAssumption
<1>2. IsFold(runFold) /\ \A f \in Folder : IsFold(folds[f])
  BY DEF BooksTypes
<1>3. \A f \in Folder : HeldBy(n, m)[f] \in Nat /\ HeldBy(n, m)[f] = At(folds[f], n)[m]
  BY <1>2, AtIs, TotalsAre DEF HeldBy
<1>4. At(runFold, n)[m] \in Nat
  BY <1>2, AtIs, TotalsAre
<1>5. QED BY <1>1, <1>3, <1>4, SumNat

LEMMA BooksOpen == TiersInit => Books
<1> SUFFICES ASSUME TiersInit PROVE Books
  OBVIOUS
<1>1. /\ recorded = <<>> /\ keptTrees = {} /\ runFold = <<>> /\ folds = [f \in Folder |-> <<>>]
      /\ \A f \in Folder : folds[f] = <<>>
  BY DEF TiersInit
<1>2. BooksTypes
  BY <1>1, NoneFold, EmptySeq DEF BooksTypes
<1>3. BooksKnow
  BY <1>1, NoneFold DEF BooksKnow, Known
<1>4. ASSUME NEW n \in Paths, NEW m \in Measure PROVE Held(n, m) = OverAll(recorded, Of(n, m))
  <2>1. At(runFold, n)[m] = 0
    BY <1>1, NoneFold, TotalsAre
  <2>2. \A f \in Folder : HeldBy(n, m)[f] = 0
    BY <1>1, NoneFold, TotalsAre DEF HeldBy
  <2>3. Sum(HeldBy(n, m), Folder) = 0
    BY <2>2, SumZero, TreesAssumption
  <2>4. OverAll(recorded, Of(n, m)) = 0
    <3>1. DOMAIN recorded = {}
      BY <1>1
    <3>2. QED BY <3>1, SumEmpty DEF OverAll
  <2>5. QED BY <2>1, <2>3, <2>4 DEF Held
<1>5. QED BY <1>2, <1>3, <1>4 DEF Books, BooksBalance

LEMMA BooksRecord ==
  ASSUME Books, NEW f \in Folder, Record(f)
  PROVE  Books'
<1>1. PICK tr \in Trees :
        /\ recorded' = Append(recorded, tr)
        /\ folds' = [folds EXCEPT ![f] = Join(folds[f], FoldOf(tr))]
        /\ keptTrees' \in {keptTrees, keptTrees \cup {Len(recorded) + 1}}
  BY DEF Record
<1>2. runFold' = runFold
  BY DEF Record
<1>3. /\ recorded \in Seq(Trees) /\ keptTrees \subseteq DOMAIN recorded /\ IsFold(runFold)
      /\ folds = [g \in Folder |-> folds[g]] /\ \A g \in Folder : IsFold(folds[g])
  BY DEF Books, BooksTypes
<1>4. IsTree(tr) /\ IsFold(FoldOf(tr))
  BY TreeFolds
<1>5. /\ folds' = [g \in Folder |-> folds'[g]]
      /\ \A g \in Folder : folds'[g] = IF g = f THEN Join(folds[f], FoldOf(tr)) ELSE folds[g]
  BY <1>1, <1>3
<1>6. /\ DOMAIN recorded = 1 .. Len(recorded) /\ Len(recorded) \in Nat
      /\ DOMAIN recorded' = DOMAIN recorded \cup {Len(recorded) + 1}
      /\ recorded' \in Seq(Trees) /\ recorded'[Len(recorded) + 1] = tr
      /\ \A i \in DOMAIN recorded : recorded'[i] = recorded[i]
  <2>1. DOMAIN recorded = 1 .. Len(recorded) /\ Len(recorded) \in Nat
    BY <1>3, LenProperties
  <2>2. recorded' \in Seq(Trees) /\ DOMAIN recorded' = 1 .. Len(recorded) + 1
    BY <1>1, <1>3, AppendProperties, LenProperties
  <2>3. recorded'[Len(recorded) + 1] = tr /\ \A i \in DOMAIN recorded : recorded'[i] = recorded[i]
    BY <1>1, <1>3, <2>1, AppendProperties
  <2>4. QED BY <2>1, <2>2, <2>3
<1>7. BooksTypes'
  <2>1. keptTrees' \subseteq DOMAIN recorded'
    BY <1>1, <1>3, <1>6
  <2>2. \A g \in Folder : IsFold(folds'[g])
    <3>1. IsFold(Join(folds[f], FoldOf(tr)))
      BY <1>3, <1>4, JoinIs
    <3>2. QED BY <1>3, <1>5, <3>1
  <2>3. QED BY <1>2, <1>3, <1>5, <1>6, <2>1, <2>2 DEF BooksTypes
<1>8. BooksKnow'
  <2>1. Known' = Known \cup DOMAIN FoldOf(tr)
    <3>1. DOMAIN folds'[f] = DOMAIN folds[f] \cup DOMAIN FoldOf(tr)
      BY <1>3, <1>4, <1>5, JoinIs
    <3>2. \A g \in Folder : g # f => DOMAIN folds'[g] = DOMAIN folds[g]
      BY <1>5
    <3>3. QED BY <1>2, <3>1, <3>2 DEF Known
  <2>2. UNION {DOMAIN FoldOf(recorded'[i]) : i \in DOMAIN recorded'}
          = (UNION {DOMAIN FoldOf(recorded[i]) : i \in DOMAIN recorded}) \cup DOMAIN FoldOf(tr)
    BY <1>6
  <2>3. QED BY <2>1, <2>2 DEF Books, BooksKnow
<1>9. ASSUME NEW n \in Paths, NEW m \in Measure PROVE Held(n, m)' = OverAll(recorded', Of(n, m))
  <2> DEFINE d == At(FoldOf(tr), n)[m]
             h == HeldBy(n, m)
             k == HeldBy(n, m)'
             r == At(runFold, n)[m]
  <2>1. d \in Nat /\ Of(n, m)[tr] = d
    BY TreeFolds
  <2>2. r \in Nat /\ Sum(h, Folder) \in Nat /\ \A g \in Folder : h[g] \in Nat /\ h[g] = At(folds[g], n)[m]
    BY HeldIs DEF Books
  <2>3. \A g \in Folder : k[g] = IF g = f THEN h[g] + d ELSE h[g]
    <3>1. \A g \in Folder : k[g] = At(folds'[g], n)[m]
      BY DEF HeldBy
    <3>2. At(folds'[f], n)[m] = At(folds[f], n)[m] + d
      <4>1. At(Join(folds[f], FoldOf(tr)), n)[m] = At(folds[f], n)[m] + At(FoldOf(tr), n)[m]
        BY <1>3, <1>4, JoinAt
      <4>2. folds'[f] = Join(folds[f], FoldOf(tr))
        BY <1>5
      <4>3. QED BY <4>1, <4>2
    <3>3. \A g \in Folder : g # f => folds'[g] = folds[g]
      BY <1>5
    <3> HIDE DEF d, h, k
    <3>4. QED BY <2>2, <3>1, <3>2, <3>3
  <2>4. Sum(k, Folder) = Sum(h, Folder) + d
    <3>1. IsFiniteSet(Folder)
      BY TreesAssumption
    <3> HIDE DEF d, h, k
    <3>2. QED BY <2>1, <2>2, <2>3, <3>1, SumBump
  <2>5. OverAll(recorded', Of(n, m)) = OverAll(recorded, Of(n, m)) + d
    <3>1. \A t \in Trees : Of(n, m)[t] \in Nat
      BY TreeFolds
    <3>2. OverAll(Append(recorded, tr), Of(n, m)) = OverAll(recorded, Of(n, m)) + Of(n, m)[tr]
      BY <1>3, <3>1, OverAllIs
    <3>3. QED BY <1>1, <2>1, <3>2
  <2>6. Held(n, m) = r + Sum(h, Folder) /\ Held(n, m)' = r + Sum(k, Folder)
    BY <1>2 DEF Held
  <2>7. Held(n, m) = OverAll(recorded, Of(n, m))
    BY DEF Books, BooksBalance
  <2> HIDE DEF d, h, k, r
  <2>8. QED BY <2>1, <2>2, <2>4, <2>5, <2>6, <2>7
<1>10. QED BY <1>7, <1>8, <1>9 DEF Books, BooksBalance, Paths

LEMMA BooksMerge ==
  ASSUME Books, NEW f \in Folder, MergeFold(f)
  PROVE  Books'
<1>1. /\ runFold' = Join(runFold, folds[f]) /\ folds' = [folds EXCEPT ![f] = <<>>]
      /\ recorded' = recorded /\ keptTrees' = keptTrees
  BY DEF MergeFold
<1>3. /\ recorded \in Seq(Trees) /\ keptTrees \subseteq DOMAIN recorded /\ IsFold(runFold)
      /\ folds = [g \in Folder |-> folds[g]] /\ \A g \in Folder : IsFold(folds[g])
  BY DEF Books, BooksTypes
<1>5. /\ folds' = [g \in Folder |-> folds'[g]]
      /\ \A g \in Folder : folds'[g] = IF g = f THEN <<>> ELSE folds[g]
  BY <1>1, <1>3
<1>7. BooksTypes'
  <2>1. IsFold(runFold')
    BY <1>1, <1>3, JoinIs
  <2>2. \A g \in Folder : IsFold(folds'[g])
    BY <1>3, <1>5, NoneFold
  <2>3. QED BY <1>1, <1>3, <1>5, <2>1, <2>2 DEF BooksTypes
<1>8. BooksKnow'
  <2>1. Known' = Known
    <3>1. DOMAIN runFold' = DOMAIN runFold \cup DOMAIN folds[f]
      BY <1>1, <1>3, JoinIs
    <3>2. DOMAIN folds'[f] = {}
      BY <1>5, NoneFold
    <3>3. \A g \in Folder : g # f => DOMAIN folds'[g] = DOMAIN folds[g]
      BY <1>5
    <3>4. QED BY <3>1, <3>2, <3>3 DEF Known
  <2>2. QED BY <1>1, <2>1 DEF Books, BooksKnow
<1>9. ASSUME NEW n \in Paths, NEW m \in Measure PROVE Held(n, m)' = OverAll(recorded', Of(n, m))
  <2> DEFINE d == At(folds[f], n)[m]
             h == HeldBy(n, m)
             k == HeldBy(n, m)'
             r == At(runFold, n)[m]
             q == At(runFold', n)[m]
  <2>2. r \in Nat /\ Sum(h, Folder) \in Nat /\ \A g \in Folder : h[g] \in Nat /\ h[g] = At(folds[g], n)[m]
    BY HeldIs DEF Books
  <2>1. d \in Nat
    BY <2>2
  <2>3. \A g \in Folder : k[g] \in Nat /\ h[g] = IF g = f THEN k[g] + d ELSE k[g]
    <3>1. \A g \in Folder : k[g] = At(folds'[g], n)[m]
      BY DEF HeldBy
    <3>2. At(folds'[f], n)[m] = 0
      BY <1>5, NoneFold, TotalsAre
    <3>3. \A g \in Folder : g # f => folds'[g] = folds[g]
      BY <1>5
    <3>4. h[f] = d
      BY <2>2
    <3> HIDE DEF d, h, k
    <3>5. QED BY <2>1, <2>2, <3>1, <3>2, <3>3, <3>4
  <2>4. Sum(h, Folder) = Sum(k, Folder) + d /\ Sum(k, Folder) \in Nat
    <3>1. IsFiniteSet(Folder)
      BY TreesAssumption
    <3> HIDE DEF d, h, k
    <3>2. QED BY <2>1, <2>2, <2>3, <3>1, SumBump, SumNat
  <2>5. q = r + d
    <3>1. At(Join(runFold, folds[f]), n)[m] = At(runFold, n)[m] + At(folds[f], n)[m]
      BY <1>3, JoinAt
    <3>2. QED BY <1>1, <3>1
  <2>6. Held(n, m) = r + Sum(h, Folder) /\ Held(n, m)' = q + Sum(k, Folder)
    BY DEF Held
  <2>7. Held(n, m) = OverAll(recorded, Of(n, m)) /\ recorded' = recorded
    BY <1>1 DEF Books, BooksBalance
  <2> HIDE DEF d, h, k, r, q
  <2>8. QED BY <2>1, <2>2, <2>4, <2>5, <2>6, <2>7
<1>10. QED BY <1>7, <1>8, <1>9 DEF Books, BooksBalance, Paths

(* However the trees of a run are spread over the goroutines that fold     *)
(* them and whenever these merge, what the accumulators hold of a path is  *)
(* what the run's trees come to (Folded.Add, Folded.Merge).                *)
THEOREM TiersBalance == TiersSpec => []Books
<1>1. ASSUME Books, [TiersNext]_tierVars PROVE Books'
  <2>1. CASE TiersNext
    BY <1>1, <2>1, BooksRecord, BooksMerge DEF TiersNext
  <2>2. CASE UNCHANGED tierVars
    <3>1. recorded' = recorded /\ keptTrees' = keptTrees /\ folds' = folds /\ runFold' = runFold
      BY <2>2 DEF tierVars
    <3>2. BooksTypes'
      BY <1>1, <3>1 DEF Books, BooksTypes
    <3>3. BooksKnow'
      <4>1. Known' = Known
        BY <3>1 DEF Known
      <4>2. QED BY <1>1, <3>1, <4>1 DEF Books, BooksKnow
    <3>4. BooksBalance'
      BY <1>1, <3>1 DEF Books, BooksBalance, Held, HeldBy
    <3>5. QED BY <3>2, <3>3, <3>4 DEF Books
  <2>3. QED BY <1>1, <2>1, <2>2
<1>2. QED BY <1>1, BooksOpen, PTL DEF TiersSpec

-------------------------------------------------------------------------------
(* What holds of one tree: the time of the spans at a path is covered by   *)
(* their own and by that of the spans one level below.                     *)

IsBelow(n, c) == Len(c) = Len(n) + 1 /\ SubSeq(c, 1, Len(n)) = n

LEMMA PrefixIs ==
  ASSUME NEW q, q \in Seq(Nat), NEW k \in 0 .. Len(q)
  PROVE  SubSeq(q, 1, k) \in Seq(Nat) /\ Len(SubSeq(q, 1, k)) = k
         /\ \A i \in 0 .. k : SubSeq(SubSeq(q, 1, k), 1, i) = SubSeq(q, 1, i)
<1>1. SubSeq(q, 1, k) \in Seq(Nat) /\ Len(SubSeq(q, 1, k)) = k /\ \A j \in 1 .. k : SubSeq(q, 1, k)[j] = q[j]
  OBVIOUS
<1>2. ASSUME NEW i \in 0 .. k PROVE SubSeq(SubSeq(q, 1, k), 1, i) = SubSeq(q, 1, i)
  <2> DEFINE s == SubSeq(q, 1, k)
  <2>1. SubSeq(s, 1, i) \in Seq(Nat) /\ Len(SubSeq(s, 1, i)) = i /\ \A j \in 1 .. i : SubSeq(s, 1, i)[j] = s[j]
    <3>1. s \in Seq(Nat) /\ Len(s) = k /\ k \in Nat
      BY <1>1
    <3> HIDE DEF s
    <3>2. QED BY <3>1
  <2>2. SubSeq(q, 1, i) \in Seq(Nat) /\ Len(SubSeq(q, 1, i)) = i /\ \A j \in 1 .. i : SubSeq(q, 1, i)[j] = q[j]
    OBVIOUS
  <2>3. QED
    <3> DEFINE a == SubSeq(s, 1, i)
               b == SubSeq(q, 1, i)
    <3>1. a \in Seq(Nat) /\ b \in Seq(Nat) /\ Len(a) = Len(b) /\ \A j \in 1 .. Len(a) : a[j] = b[j]
      <4> HIDE DEF a, b
      <4>1. \A j \in 1 .. i : j \in 1 .. k
        OBVIOUS
      <4>2. QED BY <1>1, <2>1, <2>2, <4>1 DEF a, b, s
    <3> HIDE DEF a, b
    <3>2. a = b
      BY <3>1, SeqEqual
    <3>3. QED BY <3>2 DEF a, b
<1>3. QED BY <1>1, <1>2

LEMMA NamesOfChild ==
  ASSUME NEW tr, IsTree(tr), NEW p \in DOMAIN tr, NEW q \in Children(tr, p)
  PROVE  IsBelow(NamePath(tr, p), NamePath(tr, q)) /\ SubSeq(q, 1, Len(q) - 1) = p
<1>1. p \in Seq(Nat) /\ q \in Seq(Nat) /\ Len(p) \in Nat /\ Len(q) = Len(p) + 1 /\ SubSeq(q, 1, Len(p)) = p
  BY DEF IsTree, Children
<1> DEFINE n == NamePath(tr, p)
           c == NamePath(tr, q)
           N == Len(p) + 1
<1>2. n = [i \in 1 .. N |-> n[i]] /\ c = [i \in 1 .. N + 1 |-> c[i]] /\ N \in Nat
  BY <1>1 DEF NamePath
<1>3. \A i \in 1 .. N : n[i] = c[i]
  <2>1. TAKE i \in 1 .. N
  <2>2. n[i] = tr[SubSeq(p, 1, i - 1)].name /\ c[i] = tr[SubSeq(q, 1, i - 1)].name
    BY <1>1 DEF NamePath
  <2>3. SubSeq(p, 1, i - 1) = SubSeq(q, 1, i - 1)
    <3>1. Len(p) \in 0 .. Len(q) /\ i - 1 \in 0 .. Len(p)
      BY <1>1
    <3>2. QED BY <1>1, <3>1, PrefixIs
  <2>4. QED BY <2>2, <2>3
<1> HIDE DEF n, c, N
<1>4. Len(n) = N /\ Len(c) = N + 1
  BY <1>2
<1>5. SubSeq(c, 1, N) = n
  BY <1>2, <1>3
<1>6. SubSeq(q, 1, Len(q) - 1) = p
  <2>1. Len(q) - 1 = Len(p)
    BY <1>1
  <2>2. QED BY <1>1, <2>1
<1>7. QED BY <1>4, <1>5, <1>6 DEF n, c, IsBelow

LEMMA TreeCovers ==
  ASSUME NEW tr, IsTree(tr), NEW n, NEW C, IsFiniteSet(C),
         \A q \in DOMAIN tr : IsBelow(n, NamePath(tr, q)) => NamePath(tr, q) \in C,
         NEW below, \A c \in C : below[c] = At(FoldOf(tr), c).total
  PROVE  /\ At(FoldOf(tr), n).total =< At(FoldOf(tr), n).self + Sum(below, C)
         /\ At(FoldOf(tr), n).self =< At(FoldOf(tr), n).total
         /\ At(FoldOf(tr), n).self \in Nat /\ At(FoldOf(tr), n).total \in Nat
<1> DEFINE S == SpansAt(tr, n)
           D == DurationOf(tr)
           E == SelfOf(tr)
           K == [p \in S |-> Durations(tr, Children(tr, p))]
           G == [p \in S |-> E[p] + K[p]]
           U == {q \in DOMAIN tr : \E p \in S : q \in Children(tr, p)}
           V == {q \in DOMAIN tr : NamePath(tr, q) \in C}
           key == [q \in U |-> SubSeq(q, 1, Len(q) - 1)]
           path == [q \in V |-> NamePath(tr, q)]
<1>1. S \subseteq DOMAIN tr /\ IsFiniteSet(DOMAIN tr) /\ IsFiniteSet(S) /\ IsFiniteSet(U) /\ IsFiniteSet(V)
  <2>1. S \subseteq DOMAIN tr /\ U \subseteq DOMAIN tr /\ V \subseteq DOMAIN tr /\ IsFiniteSet(DOMAIN tr)
    BY DEF SpansAt, IsTree
  <2> HIDE DEF S, U, V
  <2>2. QED BY <2>1, FS_Subset
<1>2. \A p \in DOMAIN tr : D[p] \in Nat /\ E[p] \in Nat /\ E[p] =< D[p] /\ D[p] = tr[p].duration
  BY SelfTimeIs DEF IsTree, DurationOf, SelfOf
<1>3. \A p \in S : /\ K[p] \in Nat /\ K[p] = Sum(D, Children(tr, p)) /\ G[p] = E[p] + K[p] /\ D[p] =< G[p]
  <2>1. TAKE p \in S
  <2>2. p \in DOMAIN tr /\ Children(tr, p) \subseteq DOMAIN tr
    BY <1>1 DEF Children
  <2>3. K[p] = Durations(tr, Children(tr, p)) /\ G[p] = E[p] + K[p] /\ E[p] = SelfTime(tr, p) /\ D[p] = tr[p].duration
    BY <2>2 DEF SelfOf, DurationOf
  <2> HIDE DEF D, E, K, G, S
  <2>4. Durations(tr, Children(tr, p)) = Sum(DurationOf(tr), Children(tr, p)) /\ Durations(tr, Children(tr, p)) \in Nat
    BY <2>2, DurationsAre
  <2>5. D[p] =< E[p] + K[p]
    BY <2>2, <2>3, SelfTimeIs
  <2>6. QED BY <2>3, <2>4, <2>5 DEF D
<1>4. Sum(D, S) =< Sum(E, S) + Sum(K, S) /\ Sum(E, S) =< Sum(D, S) /\ Sum(E, S) \in Nat /\ Sum(D, S) \in Nat /\ Sum(K, S) \in Nat
  <2> HIDE DEF D, E, K, G, S, U, V
  <2>1. \A p \in S : D[p] \in Nat /\ E[p] \in Nat /\ K[p] \in Nat /\ E[p] =< D[p] /\ G[p] = E[p] + K[p]
    BY <1>1, <1>2, <1>3
  <2>2. \A p \in S : G[p] \in Nat /\ D[p] =< G[p]
    BY <1>3, <2>1
  <2>3. Sum(D, S) =< Sum(G, S) /\ Sum(E, S) =< Sum(D, S)
    BY <1>1, <2>1, <2>2, SumLess
  <2>4. Sum(G, S) = Sum(E, S) + Sum(K, S)
    BY <1>1, <2>1, SumPlus
  <2>5. Sum(E, S) \in Nat /\ Sum(D, S) \in Nat /\ Sum(K, S) \in Nat
    BY <1>1, <2>1, SumNat
  <2>6. QED BY <2>3, <2>4, <2>5
<1>5. \A p \in S : \A q \in Children(tr, p) : q \in U /\ key[q] = p /\ NamePath(tr, q) \in C
  <2>1. SUFFICES ASSUME NEW p \in S, NEW q \in Children(tr, p) PROVE q \in U /\ key[q] = p /\ NamePath(tr, q) \in C
    OBVIOUS
  <2>2. p \in DOMAIN tr /\ NamePath(tr, p) = n /\ q \in DOMAIN tr
    BY DEF SpansAt, Children
  <2>3. IsBelow(n, NamePath(tr, q)) /\ SubSeq(q, 1, Len(q) - 1) = p
    BY <2>2, NamesOfChild
  <2>4. q \in U
    BY <2>2
  <2>5. key[q] = p
    BY <2>3, <2>4
  <2>6. QED BY <2>2, <2>3, <2>4, <2>5
<1>6. \A q \in U : key[q] \in S
  BY <1>5
<1>7. \A p \in S : Part(U, key, p) = Children(tr, p)
  <2>1. TAKE p \in S
  <2>2. \A q \in U : q \in Children(tr, key[q])
    BY <1>5
  <2>3. \A q \in Children(tr, p) : q \in U /\ key[q] = p
    BY <1>5
  <2> HIDE DEF key, U
  <2>4. QED BY <2>2, <2>3 DEF Part
<1>8. Sum(D, U) = Sum(K, S)
  <2>1. \A q \in U : D[q] \in Nat
    BY <1>2
  <2>2. \A p \in S : K[p] = Sum(D, Part(U, key, p))
    <3> HIDE DEF D, K, S, U, key
    <3>1. QED BY <1>3, <1>7
  <2> HIDE DEF D, K, S, U, key
  <2>3. QED BY <1>1, <1>6, <2>1, <2>2, SumParts
<1>9. U \subseteq V
  BY <1>5
<1>10. Sum(D, U) =< Sum(D, V) /\ Sum(D, V) \in Nat
  <2>1. \A q \in V : D[q] \in Nat
    BY <1>2
  <2> HIDE DEF D, U, V
  <2>2. QED BY <1>1, <1>9, <2>1, SumPartial, SumNat
<1>11. Sum(D, V) = Sum(below, C)
  <2>1. \A q \in V : D[q] \in Nat /\ path[q] \in C
    BY <1>2
  <2>2. \A c \in C : below[c] = Sum(D, Part(V, path, c))
    <3>1. TAKE c \in C
    <3>2. Part(V, path, c) = SpansAt(tr, c)
      BY DEF SpansAt, Part
    <3>3. SpansAt(tr, c) \subseteq DOMAIN tr
      BY DEF SpansAt
    <3>4. below[c] = Durations(tr, SpansAt(tr, c))
      BY FoldOfIs
    <3>5. Durations(tr, SpansAt(tr, c)) = Sum(DurationOf(tr), SpansAt(tr, c))
      BY <3>3, DurationsAre
    <3>6. QED BY <3>2, <3>4, <3>5
  <2> HIDE DEF D, V, path
  <2>3. QED BY <1>1, <2>1, <2>2, SumParts
<1>12. At(FoldOf(tr), n).total = Sum(D, S) /\ At(FoldOf(tr), n).self = Sum(E, S)
  <2>1. At(FoldOf(tr), n).total = Durations(tr, SpansAt(tr, n)) /\ At(FoldOf(tr), n).self = Sum(SelfOf(tr), SpansAt(tr, n))
    BY FoldOfIs
  <2>2. Durations(tr, SpansAt(tr, n)) = Sum(DurationOf(tr), SpansAt(tr, n))
    BY <1>1, DurationsAre
  <2>3. QED BY <2>1, <2>2
<1>13. QED
  <2> HIDE DEF D, E, K, G, S, U, V, key, path
  <2>1. QED BY <1>4, <1>8, <1>10, <1>11, <1>12

-------------------------------------------------------------------------------
(* The folded tier. *)

LEMMA AllFoldsAre ==
  ASSUME Books
  PROVE  /\ DOMAIN AllFolds = Known /\ IsFiniteSet(Known) /\ Known \subseteq Paths
         /\ \A n \in Known : \A m \in Measure : AllFolds[n][m] = OverAll(recorded, Of(n, m))
<1>1. DOMAIN AllFolds = Known
  BY DEF AllFolds, Known
<1>2. recorded \in Seq(Trees) /\ DOMAIN recorded = 1 .. Len(recorded) /\ Len(recorded) \in Nat
  BY LenProperties DEF Books, BooksTypes
<1>3. \A i \in DOMAIN recorded : recorded[i] \in Trees
  BY <1>2, ElementOfSeq
<1>4. Known \subseteq Paths
  BY <1>3 DEF Books, BooksKnow, Paths
<1>5. IsFiniteSet(Known)
  <2> DEFINE own == {DOMAIN folds[f] : f \in Folder}
  <2>1. IsFiniteSet(Folder) /\ IsFold(runFold) /\ \A f \in Folder : IsFold(folds[f])
    BY TreesAssumption DEF Books, BooksTypes
  <2>2. IsFiniteSet(own)
    <3> DEFINE g == [f \in Folder |-> DOMAIN folds[f]]
    <3>1. g \in Surjection(Folder, own)
      BY DEF Surjection
    <3> HIDE DEF g, own
    <3>2. QED BY <2>1, <3>1, FS_Surjection
  <2>3. \A D \in own : IsFiniteSet(D)
    BY <2>1 DEF IsFold
  <2>4. IsFiniteSet(UNION own)
    <3> HIDE DEF own
    <3>1. QED BY <2>2, <2>3, FS_UNION
  <2>5. IsFiniteSet(DOMAIN runFold)
    BY <2>1 DEF IsFold
  <2>6. Known = DOMAIN runFold \cup UNION own
    BY DEF Known
  <2> HIDE DEF own
  <2>7. QED BY <2>4, <2>5, <2>6, FS_Union
<1>6. ASSUME NEW n \in Known PROVE \A m \in Measure : AllFolds[n][m] = OverAll(recorded, Of(n, m))
  <2> DEFINE all(m) == At(runFold, n)[m] + SumFunction([f \in Folder |-> At(folds[f], n)[m]])
  <2>1. AllFolds[n] = [count |-> all("count"), total |-> all("total"), self |-> all("self")]
    BY DEF AllFolds, Known
  <2>2. \A m \in Measure : AllFolds[n][m] = all(m)
    <3> DEFINE c == all("count")
               t == all("total")
               s == all("self")
    <3> HIDE DEF c, t, s
    <3>1. AllFolds[n] = [count |-> c, total |-> t, self |-> s]
      BY <2>1 DEF c, t, s
    <3>2. AllFolds[n]["count"] = c /\ AllFolds[n]["total"] = t /\ AllFolds[n]["self"] = s
      BY <3>1
    <3>3. AllFolds[n]["count"] = all("count") /\ AllFolds[n]["total"] = all("total") /\ AllFolds[n]["self"] = all("self")
      BY <3>2 DEF c, t, s
    <3> HIDE DEF all
    <3>4. QED BY <3>3 DEF Measure
  <2>3. \A m \in Measure : all(m) = Held(n, m)
    <3>1. TAKE m \in Measure
    <3>2. SumFunction(HeldBy(n, m)) = Sum(HeldBy(n, m), Folder)
      <4>1. DOMAIN HeldBy(n, m) = Folder
        BY DEF HeldBy
      <4>2. QED BY <4>1 DEF SumFunction, Sum
    <3>3. QED BY <3>2 DEF HeldBy, Held
  <2> HIDE DEF all
  <2>4. QED BY <1>4, <2>2, <2>3 DEF Books, BooksBalance
<1>7. QED BY <1>1, <1>4, <1>5, <1>6

LEMMA FoldsHold ==
  ASSUME Books
  PROVE  FoldsAgree
<1> DEFINE R == DOMAIN recorded
           tot(n) == Each(recorded, Of(n, "total"))
           own(n) == Each(recorded, Of(n, "self"))
           cnt(n) == Each(recorded, Of(n, "count"))
<1>1. /\ recorded \in Seq(Trees) /\ R = 1 .. Len(recorded) /\ Len(recorded) \in Nat /\ IsFiniteSet(R)
      /\ \A i \in R : recorded[i] \in Trees /\ IsTree(recorded[i])
  <2>1. recorded \in Seq(Trees) /\ R = 1 .. Len(recorded) /\ Len(recorded) \in Nat
    BY LenProperties DEF Books, BooksTypes
  <2>2. IsFiniteSet(R)
    BY <2>1, FS_Interval
  <2>3. QED BY <2>1, <2>2, ElementOfSeq, TreeFolds
<1>2. \A n : /\ \A i \in R : /\ tot(n)[i] = At(FoldOf(recorded[i]), n).total /\ own(n)[i] = At(FoldOf(recorded[i]), n).self
                             /\ cnt(n)[i] = At(FoldOf(recorded[i]), n).count
                             /\ tot(n)[i] \in Nat /\ own(n)[i] \in Nat /\ cnt(n)[i] \in Nat
  <2>1. TAKE n
  <2>2. ASSUME NEW i \in R
        PROVE  /\ tot(n)[i] = At(FoldOf(recorded[i]), n).total /\ tot(n)[i] \in Nat
               /\ own(n)[i] = At(FoldOf(recorded[i]), n).self /\ own(n)[i] \in Nat
               /\ cnt(n)[i] = At(FoldOf(recorded[i]), n).count /\ cnt(n)[i] \in Nat
    <3>1. "count" \in Measure /\ "total" \in Measure /\ "self" \in Measure
      BY DEF Measure
    <3>2. tot(n)[i] = At(FoldOf(recorded[i]), n)["total"] /\ tot(n)[i] \in Nat
      BY <1>1, <3>1, OfIs
    <3>3. own(n)[i] = At(FoldOf(recorded[i]), n)["self"] /\ own(n)[i] \in Nat
      BY <1>1, <3>1, OfIs
    <3>4. cnt(n)[i] = At(FoldOf(recorded[i]), n)["count"] /\ cnt(n)[i] \in Nat
      BY <1>1, <3>1, OfIs
    <3>5. QED BY <3>2, <3>3, <3>4
  <2>3. QED
    <3> HIDE DEF tot, own, cnt
    <3>1. QED BY <2>2
<1>3. /\ DOMAIN AllFolds = Known /\ IsFiniteSet(Known)
      /\ \A n \in Known : /\ AllFolds[n].count = Sum(cnt(n), R) /\ AllFolds[n].total = Sum(tot(n), R)
                          /\ AllFolds[n].self = Sum(own(n), R)
  <2>1. \A n \in Known : \A m \in Measure : AllFolds[n][m] = Sum(Each(recorded, Of(n, m)), R)
    BY AllFoldsAre DEF OverAll
  <2>2. QED BY <2>1, AllFoldsAre DEF Measure
<1>4. ASSUME NEW n \in Known
      PROVE  AllFolds[n].count = SumFunction([i \in R |-> Cardinality(SpansAt(recorded[i], n))])
  <2> DEFINE f == [i \in R |-> Cardinality(SpansAt(recorded[i], n))]
             g == cnt(n)
  <2>1. ASSUME NEW i \in R PROVE g[i] \in Nat /\ g[i] = f[i]
    <3>1. At(FoldOf(recorded[i]), n).count = Cardinality(SpansAt(recorded[i], n))
      BY <1>1, FoldOfIs
    <3>2. f[i] = Cardinality(SpansAt(recorded[i], n))
      OBVIOUS
    <3> HIDE DEF f, cnt
    <3>3. g[i] \in Nat /\ g[i] = At(FoldOf(recorded[i]), n).count
      BY <1>2
    <3>4. QED BY <3>1, <3>2, <3>3
  <2>2. SumFunction(f) = Sum(f, R)
    <3>1. DOMAIN f = R
      OBVIOUS
    <3>2. QED BY <3>1 DEF SumFunction, Sum
  <2>3. Sum(g, R) = Sum(f, R)
    <3> HIDE DEF f, g, R
    <3>1. QED BY <1>1, <2>1, SumSame
  <2>4. QED BY <1>3, <2>2, <2>3
<1>5. ASSUME NEW n \in Known
      PROVE  AllFolds[n].total = SumFunction([i \in R |-> Durations(recorded[i], SpansAt(recorded[i], n))])
  <2> DEFINE f == [i \in R |-> Durations(recorded[i], SpansAt(recorded[i], n))]
             g == tot(n)
  <2>1. \A i \in R : g[i] \in Nat /\ g[i] = f[i]
    <3>1. TAKE i \in R
    <3>2. At(FoldOf(recorded[i]), n).total = Durations(recorded[i], SpansAt(recorded[i], n))
      BY <1>1, FoldOfIs
    <3>3. g[i] = At(FoldOf(recorded[i]), n).total /\ g[i] \in Nat
      <4> HIDE DEF tot, own, cnt
      <4>1. QED BY <1>2
    <3>4. QED BY <3>2, <3>3
  <2>2. SumFunction(f) = Sum(f, R)
    <3>1. DOMAIN f = R
      OBVIOUS
    <3>2. QED BY <3>1 DEF SumFunction, Sum
  <2>3. Sum(g, R) = Sum(f, R)
    <3> HIDE DEF f, g, R
    <3>1. QED BY <1>1, <2>1, SumSame
  <2>4. QED BY <1>3, <2>2, <2>3
<1>6. \A i \in R : \A p \in DOMAIN recorded[i] : NamePath(recorded[i], p) \in DOMAIN AllFolds
  <2>1. SUFFICES ASSUME NEW i \in R, NEW p \in DOMAIN recorded[i] PROVE NamePath(recorded[i], p) \in Known
    BY <1>3
  <2>2. DOMAIN FoldOf(recorded[i]) = {NamePath(recorded[i], q) : q \in DOMAIN recorded[i]}
    BY <1>1, FoldOfIs
  <2>3. QED BY <2>2 DEF Books, BooksKnow
<1>7. ASSUME NEW n \in Known
      PROVE  /\ AllFolds[n].self \in 0 .. AllFolds[n].total
             /\ AllFolds[n].total =< AllFolds[n].self + SumFunction([c \in Children(AllFolds, n) |-> AllFolds[c].total])
  <2> DEFINE C == Children(AllFolds, n)
             h == [i \in R |-> [c \in C |-> At(FoldOf(recorded[i]), c).total]]
             row == [i \in R |-> Sum(h[i], C)]
             col == [c \in C |-> AllFolds[c].total]
             both == [i \in R |-> own(n)[i] + row[i]]
  <2>1. C \subseteq Known /\ IsFiniteSet(C)
    <3>1. C \subseteq Known
      BY <1>3 DEF Children
    <3> HIDE DEF C
    <3>2. QED BY <1>3, <3>1, FS_Subset
  <2>2. \A i \in R : /\ tot(n)[i] =< both[i] /\ both[i] = own(n)[i] + row[i] /\ both[i] \in Nat /\ row[i] \in Nat
                     /\ own(n)[i] =< tot(n)[i] /\ row[i] = Sum(h[i], C)
                     /\ \A c \in C : h[i][c] \in Nat /\ h[i][c] = tot(c)[i]
    <3>1. TAKE i \in R
    <3> DEFINE tr == recorded[i]
               below == h[i]
    <3>2. IsTree(tr) /\ \A c \in C : below[c] = At(FoldOf(tr), c).total
      BY <1>1
    <3>3. \A q \in DOMAIN tr : IsBelow(n, NamePath(tr, q)) => NamePath(tr, q) \in C
      BY <1>6 DEF IsBelow, Children
    <3>4. /\ At(FoldOf(tr), n).total =< At(FoldOf(tr), n).self + Sum(below, C)
          /\ At(FoldOf(tr), n).self =< At(FoldOf(tr), n).total
      <4> HIDE DEF tr, below, C
      <4>1. QED BY <2>1, <3>2, <3>3, TreeCovers
    <3>5. \A c \in C : below[c] \in Nat /\ below[c] = tot(c)[i]
      <4> HIDE DEF C, tot, own, cnt, R
      <4>1. QED BY <1>2, <3>2 DEF R
    <3>6. Sum(below, C) \in Nat
      <4> HIDE DEF below, C
      <4>1. QED BY <2>1, <3>5, SumNat
    <3>7. row[i] = Sum(below, C) /\ both[i] = own(n)[i] + row[i]
      OBVIOUS
    <3>8. tot(n)[i] = At(FoldOf(tr), n).total /\ own(n)[i] = At(FoldOf(tr), n).self /\ own(n)[i] \in Nat
      <4> HIDE DEF tot, own, cnt
      <4>1. QED BY <1>2
    <3>9. tot(n)[i] =< both[i] /\ own(n)[i] =< tot(n)[i] /\ both[i] \in Nat /\ row[i] \in Nat
      <4> HIDE DEF tot, own, row, both, below, h, C
      <4>1. QED BY <3>4, <3>6, <3>7, <3>8
    <3>10. row[i] = Sum(h[i], C) /\ \A c \in C : h[i][c] \in Nat /\ h[i][c] = tot(c)[i]
      <4> HIDE DEF tot, own, row, both, h, C, R
      <4>1. QED BY <3>5, <3>7
    <3>11. QED
      <4> HIDE DEF tot, own, row, both, h, C, R
      <4>1. QED BY <3>7, <3>9, <3>10
  <2>3. \A c \in C : col[c] = Sum(Column(h, R, c), R)
    <3>1. TAKE c \in C
    <3> DEFINE f == Column(h, R, c)
               g == tot(c)
    <3>2. \A i \in R : f[i] = h[i][c]
      BY DEF Column
    <3>3. \A i \in R : f[i] \in Nat /\ f[i] = g[i]
      <4> HIDE DEF f, h, C, tot, own, row, both
      <4>1. QED BY <2>2, <3>2
    <3>4. Sum(f, R) = Sum(g, R)
      <4> HIDE DEF f, g, R
      <4>1. QED BY <1>1, <3>3, SumSame
    <3>5. col[c] = Sum(g, R)
      BY <1>3, <2>1
    <3>6. QED BY <3>4, <3>5
  <2>4. Sum(row, R) = Sum(col, C)
    <3>1. /\ \A i \in R : \A c \in C : h[i][c] \in Nat
          /\ \A i \in R : row[i] = Sum(h[i], C)
      <4> HIDE DEF h, row, col, C, R, tot, own, both
      <4>1. QED BY <2>2
    <3>2. IsFiniteSet(R) /\ IsFiniteSet(C)
      BY <1>1, <2>1
    <3> HIDE DEF h, row, col, C, R, tot, own, both
    <3>3. QED BY <2>3, <3>1, <3>2, SumSwap
  <2>5. /\ Sum(tot(n), R) =< Sum(both, R) /\ Sum(both, R) = Sum(own(n), R) + Sum(row, R)
        /\ Sum(own(n), R) =< Sum(tot(n), R) /\ Sum(own(n), R) \in Nat /\ Sum(tot(n), R) \in Nat
    <3> DEFINE t == tot(n)
               o == own(n)
    <3>1. \A i \in R : t[i] \in Nat /\ o[i] \in Nat /\ t[i] =< both[i] /\ both[i] = o[i] + row[i] /\ both[i] \in Nat
                       /\ row[i] \in Nat /\ o[i] =< t[i]
      <4> HIDE DEF h, row, col, C, R, tot, own, cnt, both
      <4>1. QED BY <1>2, <2>2
    <3>2. QED
      <4> HIDE DEF h, row, col, C, R, tot, own, both, t, o
      <4>1. Sum(t, R) =< Sum(both, R)
        BY <1>1, <3>1, SumLess
      <4>2. Sum(o, R) =< Sum(t, R)
        BY <1>1, <3>1, SumLess
      <4>3. Sum(both, R) = Sum(o, R) + Sum(row, R)
        BY <1>1, <3>1, SumPlus
      <4>4. Sum(o, R) \in Nat /\ Sum(t, R) \in Nat
        BY <1>1, <3>1, SumNat
      <4>5. QED BY <4>1, <4>2, <4>3, <4>4 DEF t, o
  <2>6. SumFunction(col) = Sum(col, C)
    <3>1. DOMAIN col = C
      OBVIOUS
    <3>2. QED BY <3>1 DEF SumFunction, Sum
  <2>7. QED
    <3>1. AllFolds[n].self \in 0 .. AllFolds[n].total /\ AllFolds[n].total =< AllFolds[n].self + SumFunction(col)
      <4> HIDE DEF h, row, col, C, R, tot, own, cnt, both
      <4>1. QED BY <1>3, <2>4, <2>5, <2>6
    <3>2. QED BY <3>1
<1>8. QED
  <2> HIDE DEF tot, own, cnt
  <2>1. QED BY <1>3, <1>4, <1>5, <1>6, <1>7 DEF FoldsAgree

-------------------------------------------------------------------------------
(* The failure groups and the funnels. *)

LEMMA FindingsIn ==
  ASSUME NEW tr, IsTree(tr)
  PROVE  Findings(tr) \subseteq FailingPaths(tr) /\ (FailingPaths(tr) # {} => Findings(tr) # {})
<1>1. Findings(tr) \subseteq FailingPaths(tr)
  BY DEF Findings
<1>2. ASSUME FailingPaths(tr) # {} PROVE Findings(tr) # {}
  <2> DEFINE F == FailingPaths(tr)
             f == [p \in F |-> Len(p)]
  <2>1. F \subseteq DOMAIN tr /\ F \subseteq Seq(Nat)
    BY DEF FailingPaths, IsTree
  <2>2. IsFiniteSet(F)
    <3> HIDE DEF F
    <3>1. QED BY <2>1, FS_Subset DEF IsTree
  <2>3. \A p \in F : f[p] \in Int /\ f[p] = Len(p)
    BY <2>1
  <2>4. PICK p \in F : \A q \in F : f[q] =< f[p]
    <3>1. F # {}
      BY <1>2
    <3> HIDE DEF F, f
    <3>2. QED BY <2>2, <2>3, <3>1, Greatest
  <2>5. \A q \in F : ~ (Len(q) > Len(p))
    BY <2>3, <2>4
  <2>6. p \in Findings(tr)
    BY <2>5 DEF Findings
  <2>7. QED BY <2>6
<1>3. QED BY <1>1, <1>2

Finders(k) == {i \in keptTrees : \E p \in Findings(recorded[i]) : Key(recorded[i], p) = k}
FewestOf(S, n) == {i \in S : Cardinality({j \in S : j < i}) < n}

LEMMA GroupsAre ==
  /\ DOMAIN Groups = UNION {{Key(recorded[i], p) : p \in Findings(recorded[i])} : i \in keptTrees}
  /\ \A k \in DOMAIN Groups : /\ Groups[k].count = Cardinality(Finders(k))
                              /\ Groups[k].runs = FewestOf(Finders(k), RunsPerGroup)
BY DEF Groups, Finders, FewestOf

LEMMA GroupsHold ==
  ASSUME Books
  PROVE  GroupsHonest
<1>1. /\ keptTrees \subseteq Nat /\ IsFiniteSet(keptTrees)
      /\ \A i \in keptTrees : IsTree(recorded[i])
  <2>1. /\ recorded \in Seq(Trees) /\ DOMAIN recorded = 1 .. Len(recorded) /\ Len(recorded) \in Nat
        /\ keptTrees \subseteq DOMAIN recorded
    BY LenProperties DEF Books, BooksTypes
  <2>2. IsFiniteSet(DOMAIN recorded)
    BY <2>1, FS_Interval
  <2>3. IsFiniteSet(keptTrees)
    BY <2>1, <2>2, FS_Subset
  <2>4. QED BY <2>1, <2>3, ElementOfSeq, TreeFolds
<1>2. \A k : /\ Finders(k) \subseteq keptTrees /\ IsFiniteSet(Finders(k)) /\ Cardinality(Finders(k)) \in Nat
             /\ \A i \in Finders(k) : FailingPaths(recorded[i]) # {}
  <2>1. TAKE k
  <2>2. Finders(k) \subseteq keptTrees
    BY DEF Finders
  <2>3. IsFiniteSet(Finders(k)) /\ Cardinality(Finders(k)) \in Nat
    BY <1>1, <2>2, FS_Subset, FS_CardinalityType
  <2>4. \A i \in Finders(k) : FailingPaths(recorded[i]) # {}
    BY <1>1, FindingsIn DEF Finders
  <2>5. QED BY <2>2, <2>3, <2>4
<1>3. \A k \in DOMAIN Groups : Groups[k].runs \subseteq Finders(k) /\ Finders(k) # {}
  <2>1. TAKE k \in DOMAIN Groups
  <2>2. Groups[k].runs \subseteq Finders(k)
    BY GroupsAre DEF FewestOf
  <2>3. Finders(k) # {}
    BY GroupsAre DEF Finders
  <2>4. QED BY <2>2, <2>3
<1>4. ASSUME NEW i \in keptTrees, FailingPaths(recorded[i]) = {}
      PROVE  \A k \in DOMAIN Groups : i \notin Groups[k].runs
  BY <1>2, <1>3, <1>4
<1>5. ASSUME NEW i \in keptTrees, FailingPaths(recorded[i]) # {}
      PROVE  \E p \in Findings(recorded[i]) :
               \/ i \in Groups[Key(recorded[i], p)].runs
               \/ Groups[Key(recorded[i], p)].count > RunsPerGroup
  <2>1. PICK p \in Findings(recorded[i]) : TRUE
    BY <1>1, <1>5, FindingsIn
  <2> DEFINE k == Key(recorded[i], p)
             S == Finders(k)
             less == {j \in S : j < i}
  <2>2. k \in DOMAIN Groups /\ i \in S
    BY GroupsAre DEF Finders
  <2>3. Groups[k].count = Cardinality(S) /\ Groups[k].runs = FewestOf(S, RunsPerGroup)
    <3> HIDE DEF k
    <3>1. QED BY <2>2, GroupsAre
  <2>4. less \subseteq S \ {i} /\ IsFiniteSet(S) /\ Cardinality(S) \in Nat
    <3>1. \A j \in S : j \in Nat
      BY <1>1, <1>2
    <3> HIDE DEF k
    <3>2. QED BY <1>1, <1>2, <3>1
  <2>5. Cardinality(S \ {i}) = Cardinality(S) - 1 /\ IsFiniteSet(S \ {i})
    <3> HIDE DEF S, k
    <3>1. QED BY <2>2, <2>4, FS_RemoveElement
  <2>6. Cardinality(less) =< Cardinality(S \ {i}) /\ Cardinality(less) \in Nat
    <3> HIDE DEF S, k, less
    <3>1. QED BY <2>4, <2>5, FS_Subset, FS_CardinalityType
  <2>7. RunsPerGroup \in Nat
    BY TreesAssumption
  <2>8. i \in FewestOf(S, RunsPerGroup) \/ ~ (Cardinality(less) < RunsPerGroup)
    BY <2>2 DEF FewestOf
  <2>9. i \in Groups[k].runs \/ Groups[k].count > RunsPerGroup
    <3> HIDE DEF S, k, less
    <3>1. QED BY <2>3, <2>4, <2>5, <2>6, <2>7, <2>8
  <2>10. QED BY <2>9
<1>6. ASSUME NEW k \in DOMAIN Groups
      PROVE  Groups[k].count \in 1 .. Cardinality({i \in keptTrees : FailingPaths(recorded[i]) # {}})
  <2> DEFINE T == {i \in keptTrees : FailingPaths(recorded[i]) # {}}
             S == Finders(k)
  <2>1. S \subseteq T /\ IsFiniteSet(T) /\ IsFiniteSet(S) /\ S # {}
    <3>1. T \subseteq keptTrees /\ S \subseteq T
      BY <1>2
    <3> HIDE DEF T
    <3>2. QED BY <1>1, <1>2, <1>3, <3>1, FS_Subset
  <2>2. Cardinality(S) =< Cardinality(T) /\ Cardinality(S) \in Nat /\ Cardinality(T) \in Nat /\ Cardinality(S) # 0
    <3> HIDE DEF S, T
    <3>1. QED BY <2>1, FS_Subset, FS_CardinalityType, FS_EmptySet
  <2>3. Groups[k].count = Cardinality(S)
    BY GroupsAre
  <2> HIDE DEF S, T
  <2>4. Groups[k].count \in 1 .. Cardinality(T)
    BY <2>2, <2>3
  <2>5. QED BY <2>4 DEF T
<1>7. ASSUME NEW k \in DOMAIN Groups, k[2] # "throttled", NEW i \in Groups[k].runs
      PROVE  \E p \in FailingPaths(recorded[i]) : recorded[i][p].outcome = "failed"
  <2>1. PICK p \in Findings(recorded[i]) : Key(recorded[i], p) = k
    BY <1>3 DEF Finders
  <2>2. Cause(recorded[i], p) # "throttled"
    BY <1>7, <2>1 DEF Key
  <2>3. recorded[i][p].outcome # "throttled"
    BY <2>2 DEF Cause
  <2>4. p \in FailingPaths(recorded[i]) /\ Fails(recorded[i][p])
    BY DEF Findings, FailingPaths
  <2>5. QED BY <2>3, <2>4 DEF Fails
<1>8. \A i \in keptTrees : \A p, q \in Findings(recorded[i]) : Len(p) < Len(q) => SubSeq(q, 1, Len(p)) # p
  <2>1. SUFFICES ASSUME NEW i \in keptTrees, NEW p \in Findings(recorded[i]), NEW q \in Findings(recorded[i]),
                        Len(p) < Len(q), SubSeq(q, 1, Len(p)) = p
                 PROVE  FALSE
    OBVIOUS
  <2>2. p \in Seq(Nat) /\ q \in Seq(Nat) /\ q \in FailingPaths(recorded[i])
    BY <1>1 DEF Findings, FailingPaths, IsTree
  <2>3. Len(q) > Len(p)
    BY <2>1, <2>2
  <2>4. QED BY <2>1, <2>2, <2>3 DEF Findings
<1>9. QED BY <1>4, <1>5, <1>6, <1>7, <1>8 DEF GroupsHonest

LEMMA StepsAre ==
  ASSUME NEW tr, IsTree(tr)
  PROVE  /\ DOMAIN Steps(tr) = 1 .. Len(Steps(tr)) /\ Len(Steps(tr)) \in Nat
         /\ Len(Steps(tr)) = Cardinality(Children(tr, <<>>))
         /\ \A s \in DOMAIN Steps(tr) : /\ <<s>> \in DOMAIN tr /\ Steps(tr)[s] = tr[<<s>>].name
                                        /\ NamePath(tr, <<s>>) = <<tr[<<>>].name, Steps(tr)[s]>>
<1> DEFINE N == Cardinality(Children(tr, <<>>))
<1>1. N \in Nat
  <2>1. Children(tr, <<>>) \subseteq DOMAIN tr /\ IsFiniteSet(DOMAIN tr)
    BY DEF Children, IsTree
  <2>2. QED BY <2>1, FS_Subset, FS_CardinalityType
<1>2. Steps(tr) = [s \in 1 .. N |-> tr[<<s>>].name]
  BY DEF Steps
<1>3. Children(tr, <<>>) = {<<s>> : s \in 1 .. N} /\ Children(tr, <<>>) \subseteq DOMAIN tr
  BY DEF IsTree, Children
<1> HIDE DEF N
<1>4. DOMAIN Steps(tr) = 1 .. N /\ Len(Steps(tr)) = N /\ \A s \in 1 .. N : Steps(tr)[s] = tr[<<s>>].name
  BY <1>1, <1>2
<1>5. \A s \in 1 .. N : <<s>> \in DOMAIN tr
  BY <1>3
<1>6. ASSUME NEW s \in 1 .. N PROVE NamePath(tr, <<s>>) = <<tr[<<>>].name, tr[<<s>>].name>>
  <2>1. NamePath(tr, <<s>>) = [i \in 1 .. 2 |-> tr[SubSeq(<<s>>, 1, i - 1)].name]
    <3>1. Len(<<s>>) + 1 = 2
      OBVIOUS
    <3>2. QED BY <3>1 DEF NamePath
  <2>2. SubSeq(<<s>>, 1, 0) = <<>> /\ SubSeq(<<s>>, 1, 1) = <<s>>
    <3> DEFINE q == <<s>>
    <3>1. s \in Nat
      BY <1>1
    <3>2. q \in Seq(Nat) /\ Len(q) = 1
      BY <3>1
    <3> HIDE DEF q
    <3>3. SubSeq(q, 1, 0) = <<>>
      BY <3>2
    <3>4. SubSeq(q, 1, Len(q)) = q
      BY <3>2, SubSeqFull
    <3>5. QED BY <3>2, <3>3, <3>4 DEF q
  <2> DEFINE c == NamePath(tr, <<s>>)
             a == tr[<<>>].name
             b == tr[<<s>>].name
  <2>3. c[1] = a /\ c[2] = b /\ c = [i \in 1 .. 2 |-> c[i]]
    <3>1. c[1] = tr[SubSeq(<<s>>, 1, 1 - 1)].name /\ c[2] = tr[SubSeq(<<s>>, 1, 2 - 1)].name
      BY <2>1
    <3>2. 1 - 1 = 0 /\ 2 - 1 = 1
      OBVIOUS
    <3>3. c[1] = a /\ c[2] = b
      BY <2>2, <3>1, <3>2
    <3>4. c = [i \in 1 .. 2 |-> c[i]]
      <4> DEFINE h(i) == tr[SubSeq(<<s>>, 1, i - 1)].name
      <4> HIDE DEF h
      <4>1. c = [i \in 1 .. 2 |-> h(i)]
        BY <2>1 DEF h
      <4> HIDE DEF c
      <4>2. QED BY <4>1
    <3>5. QED BY <3>3, <3>4
  <2> HIDE DEF c, a, b
  <2>4. c = <<a, b>>
    BY <2>3
  <2>5. QED BY <2>4 DEF c, a, b
<1>7. QED BY <1>1, <1>4, <1>5, <1>6 DEF N

LEMMA ReachedOnce ==
  ASSUME NEW tr \in Trees, NEW other \in Trees, NEW s \in DOMAIN Steps(other),
         NEW n, n = <<other[<<>>].name, Steps(other)[s]>>
  PROVE  Cardinality(SpansAt(tr, n)) =
           IF tr[<<>>].name = other[<<>>].name /\ Len(Steps(tr)) >= s THEN 1 ELSE 0
<1>1. IsTree(tr) /\ IsTree(other) /\ SameFlow(tr, other)
  BY TreesAssumption
<1>2. n[1] = other[<<>>].name /\ n[2] = Steps(other)[s] /\ Len(n) = 2
  OBVIOUS
<1>3. s \in Nat \ {0}
  BY <1>1, StepsAre
<1>4. ASSUME NEW p \in SpansAt(tr, n)
      PROVE  p = <<s>> /\ tr[<<>>].name = other[<<>>].name /\ Len(Steps(tr)) >= s
  <2>1. p \in DOMAIN tr /\ p \in Seq(Nat) /\ NamePath(tr, p) = n
    BY <1>1, <1>4 DEF SpansAt, IsTree
  <2>2. Len(p) = 1
    <3>1. Len(p) \in Nat /\ NamePath(tr, p) = [i \in 1 .. Len(p) + 1 |-> tr[SubSeq(p, 1, i - 1)].name]
      BY <2>1 DEF NamePath
    <3>2. Len(NamePath(tr, p)) = Len(p) + 1
      <4> DEFINE c == NamePath(tr, p)
      <4>1. DOMAIN c = 1 .. Len(p) + 1 /\ c = [i \in 1 .. Len(p) + 1 |-> c[i]]
        BY <3>1
      <4> HIDE DEF c
      <4>2. Len(c) = Len(p) + 1
        BY <3>1, <4>1
      <4>3. QED BY <4>2 DEF c
    <3>3. Len(p) \in Nat /\ Len(n) = Len(p) + 1
      BY <2>1, <3>1, <3>2
    <3>4. Len(n) = 2
      BY <1>2
    <3> DEFINE k == Len(p)
               l == Len(n)
    <3>5. k \in Nat /\ l = k + 1 /\ l = 2
      BY <3>3, <3>4
    <3> HIDE DEF k, l
    <3>6. k = 1
      BY <3>5
    <3>7. QED BY <3>6 DEF k
  <2>3. SubSeq(p, 1, 0) = <<>>
    BY <2>1, <2>2
  <2>4. p \in Children(tr, <<>>)
    <3>1. Len(<<>>) = 0
      OBVIOUS
    <3>2. Len(p) = Len(<<>>) + 1 /\ SubSeq(p, 1, Len(<<>>)) = <<>>
      BY <2>2, <2>3, <3>1
    <3>3. QED BY <2>1, <3>2 DEF Children
  <2>5. PICK i \in DOMAIN Steps(tr) : p = <<i>>
    BY <1>1, <2>4, StepsAre DEF IsTree
  <2>6. n = <<tr[<<>>].name, Steps(tr)[i]>>
    BY <1>1, <2>1, <2>5, StepsAre
  <2>7. n[1] = tr[<<>>].name /\ n[2] = Steps(tr)[i]
    BY <2>6
  <2>8. i = s
    BY <1>1, <1>2, <2>7 DEF SameFlow
  <2>9. Len(Steps(tr)) >= s
    BY <1>1, <2>5, <2>8, StepsAre
  <2>10. QED BY <1>2, <2>5, <2>7, <2>8, <2>9
<1>5. ASSUME tr[<<>>].name = other[<<>>].name, Len(Steps(tr)) >= s PROVE <<s>> \in SpansAt(tr, n)
  <2>1. s \in DOMAIN Steps(tr)
    BY <1>1, <1>3, <1>5, StepsAre
  <2>2. Steps(tr)[s] = Steps(other)[s]
    BY <1>1, <1>5, <2>1 DEF SameFlow
  <2>3. NamePath(tr, <<s>>) = <<tr[<<>>].name, Steps(tr)[s]>> /\ <<s>> \in DOMAIN tr
    BY <1>1, <2>1, StepsAre
  <2>4. NamePath(tr, <<s>>) = n
    BY <1>5, <2>2, <2>3
  <2>5. QED BY <2>3, <2>4 DEF SpansAt
<1>6. CASE tr[<<>>].name = other[<<>>].name /\ Len(Steps(tr)) >= s
  <2>1. SpansAt(tr, n) = {<<s>>}
    BY <1>4, <1>5, <1>6
  <2>2. QED BY <1>6, <2>1, FS_Singleton
<1>7. CASE ~ (tr[<<>>].name = other[<<>>].name /\ Len(Steps(tr)) >= s)
  <2>1. SpansAt(tr, n) = {}
    BY <1>4, <1>7
  <2>2. QED BY <1>7, <2>1, FS_EmptySet
<1>8. QED BY <1>6, <1>7

LEMMA FunnelHolds ==
  ASSUME Books
  PROVE  FunnelHonest
<1> SUFFICES ASSUME \A f \in Folder : folds[f] = <<>>,
                    NEW flow, NEW s \in DOMAIN Funnel(flow)
             PROVE  Funnel(flow)[s] = Cardinality({i \in {i \in DOMAIN recorded : recorded[i][<<>>].name = flow} :
                                                     Len(Steps(recorded[i])) >= s})
  BY DEF FunnelHonest
<1> DEFINE R == DOMAIN recorded
           kept == {i \in keptTrees : recorded[i][<<>>].name = flow}
           longest == {i \in kept : \A j \in kept : Len(Steps(recorded[j])) =< Len(Steps(recorded[i]))}
           first == CHOOSE i \in longest : \A j \in longest : i =< j
           stages == [i \in DOMAIN StepOrder(flow) |-> At(runFold, <<flow, StepOrder(flow)[i]>>).count]
<1>1. /\ recorded \in Seq(Trees) /\ R = 1 .. Len(recorded) /\ Len(recorded) \in Nat /\ IsFiniteSet(R)
      /\ keptTrees \subseteq R /\ \A i \in R : recorded[i] \in Trees /\ IsTree(recorded[i])
  <2>1. recorded \in Seq(Trees) /\ R = 1 .. Len(recorded) /\ Len(recorded) \in Nat /\ keptTrees \subseteq R
    BY LenProperties DEF Books, BooksTypes
  <2>2. IsFiniteSet(R)
    <3>1. IsFiniteSet(1 .. Len(recorded))
      BY <2>1, FS_Interval
    <3>2. QED BY <2>1, <3>1
  <2>3. QED BY <2>1, <2>2, ElementOfSeq, TreeFolds
<1>2. Funnel(flow) = stages /\ s \in DOMAIN StepOrder(flow)
  <2>1. Funnel(flow) = stages \/ Funnel(flow) = <<>>
    BY DEF Funnel
  <2>2. Funnel(flow) # <<>>
    OBVIOUS
  <2>3. Funnel(flow) = stages
    BY <2>1, <2>2
  <2>4. QED BY <2>3
<1>3. kept # {}
  <2>1. StepOrder(flow) = IF kept = {} THEN <<>> ELSE Steps(recorded[first])
    BY DEF StepOrder
  <2> HIDE DEF kept, first
  <2>2. kept = {} => DOMAIN StepOrder(flow) = {}
    BY <2>1
  <2>3. QED BY <1>2, <2>2
<1>4. first \in kept
  <2>1. IsFiniteSet(kept) /\ kept \subseteq R
    <3>1. kept \subseteq R
      BY <1>1
    <3> HIDE DEF kept
    <3>2. QED BY <1>1, <3>1, FS_Subset
  <2> DEFINE long == [i \in kept |-> Len(Steps(recorded[i]))]
  <2>2. \A i \in kept : long[i] \in Int
    BY <1>1, <2>1, StepsAre
  <2>3. \E i \in kept : \A j \in kept : long[j] =< long[i]
    <3> HIDE DEF kept, long
    <3>1. QED BY <1>3, <2>1, <2>2, Greatest
  <2>4. longest # {}
    <3> HIDE DEF kept
    <3>1. QED BY <2>3
  <2>5. longest \subseteq kept
    OBVIOUS
  <2>6. IsFiniteSet(longest) /\ longest \in SUBSET Int
    <3> HIDE DEF kept, longest
    <3>1. QED BY <1>1, <2>1, <2>5, FS_Subset
  <2>7. \E i \in longest : \A j \in longest : i =< j
    <3> HIDE DEF longest
    <3>1. QED BY <2>4, <2>6, LeastNumber
  <2> HIDE DEF longest, kept
  <2>8. first \in longest
    BY <2>7
  <2>9. QED BY <2>5, <2>8
<1>5. StepOrder(flow) = Steps(recorded[first])
  BY <1>3 DEF StepOrder
<1> DEFINE other == recorded[first]
           n == <<flow, Steps(other)[s]>>
           A == {i \in R : recorded[i][<<>>].name = flow /\ Len(Steps(recorded[i])) >= s}
<1> HIDE DEF first
<1>6. other \in Trees /\ other[<<>>].name = flow /\ s \in DOMAIN Steps(other) /\ n = <<other[<<>>].name, Steps(other)[s]>>
  BY <1>1, <1>2, <1>4, <1>5
<1>7. Funnel(flow)[s] = At(runFold, n).count
  BY <1>2, <1>5
<1>8. n \in Paths
  <2>1. IsTree(other)
    BY <1>6, TreesAssumption
  <2> HIDE DEF other, n
  <2>2. NamePath(other, <<s>>) = n /\ <<s>> \in DOMAIN other
    BY <1>6, <2>1, StepsAre
  <2>3. n \in DOMAIN FoldOf(other)
    BY <2>1, <2>2, FoldOfIs
  <2>4. QED BY <1>6, <2>3 DEF Paths
<1>9. At(runFold, n)["count"] = OverAll(recorded, Of(n, "count"))
  <2>1. "count" \in Measure
    BY DEF Measure
  <2> HIDE DEF n
  <2>2. Held(n, "count") = OverAll(recorded, Of(n, "count"))
    BY <1>8, <2>1 DEF Books, BooksBalance
  <2>3. \A f \in Folder : HeldBy(n, "count")[f] = 0
    BY <2>1, NoneFold, TotalsAre DEF HeldBy
  <2>4. Sum(HeldBy(n, "count"), Folder) = 0
    BY <2>3, SumZero, TreesAssumption
  <2>5. At(runFold, n)["count"] \in Nat
    BY <2>1, HeldIs DEF Books
  <2>6. QED BY <2>2, <2>4, <2>5 DEF Held
<1>10. OverAll(recorded, Of(n, "count")) = Cardinality(R \cap A)
  <2> DEFINE f == Each(recorded, Of(n, "count"))
  <2>1. ASSUME NEW i \in R PROVE f[i] = IF i \in A THEN 1 ELSE 0
    <3>1. "count" \in Measure
      BY DEF Measure
    <3>2. f[i] = At(FoldOf(recorded[i]), n)["count"]
      BY <1>1, <3>1, OfIs
    <3>3. At(FoldOf(recorded[i]), n).count = Cardinality(SpansAt(recorded[i], n))
      BY <1>1, FoldOfIs
    <3>4. Cardinality(SpansAt(recorded[i], n)) =
            IF recorded[i][<<>>].name = other[<<>>].name /\ Len(Steps(recorded[i])) >= s THEN 1 ELSE 0
      <4> HIDE DEF other, n
      <4>1. QED BY <1>1, <1>6, ReachedOnce
    <3>5. (i \in A) = (recorded[i][<<>>].name = other[<<>>].name /\ Len(Steps(recorded[i])) >= s)
      BY <1>6
    <3>6. QED BY <3>2, <3>3, <3>4, <3>5
  <2>2. Sum(f, R) = Cardinality(R \cap A)
    <3> HIDE DEF f, R, A
    <3>1. QED BY <1>1, <2>1, SumCounts
  <2>3. QED BY <2>2 DEF OverAll
<1>11. R \cap A = {i \in {i \in DOMAIN recorded : recorded[i][<<>>].name = flow} : Len(Steps(recorded[i])) >= s}
  OBVIOUS
<1>12. QED BY <1>7, <1>9, <1>10, <1>11

(* However the span trees of a run reach its accumulators, the folded      *)
(* tier counts each of their spans once and covers its time; the failure   *)
(* groups hold the failing traces and no passing one; and once all is      *)
(* merged a funnel loses between two stages the flow-runs that ended there *)
(* (Folded.Add, Merge, FailureGroups, Funnels).                            *)
THEOREM TiersAreHonest == TiersSpec => []TiersHonest
<1>1. Books => TiersHonest
  BY FoldsHold, GroupsHold, FunnelHolds DEF TiersHonest
<1>2. QED BY <1>1, TiersBalance, PTL

-------------------------------------------------------------------------------
(* Division. *)

LEMMA DivMod ==
  ASSUME NEW a \in Nat, NEW b \in Nat \ {0}
  PROVE  a = b * (a \div b) + (a % b) /\ a % b \in 0 .. b - 1 /\ a \div b \in Nat
OBVIOUS

LEMMA MulMono ==
  ASSUME NEW a \in Nat, NEW b \in Nat, NEW w \in Nat, a =< b
  PROVE  w * a =< w * b /\ w * a \in Nat /\ w * b \in Nat
<1>1. PICK d \in Nat : b = a + d
  <2>1. b - a \in Nat /\ b = a + (b - a)
    OBVIOUS
  <2>2. QED BY <2>1
<1>2. w * b = w * a + w * d /\ w * d \in Nat /\ w * a \in Nat
  BY <1>1
<1>3. QED BY <1>2

(* The quotient is the only number whose multiple lies within the divisor. *)
LEMMA DivBounds ==
  ASSUME NEW a \in Nat, NEW b \in Nat \ {0}
  PROVE  /\ a \div b \in Nat /\ b * (a \div b) \in Nat /\ b * (a \div b) =< a /\ a < b * (a \div b) + b
         /\ \A q \in Nat : (a \div b = q) = (b * q =< a /\ a < b * q + b)
         /\ \A q \in Nat : (q =< a \div b) = (b * q =< a)
<1> DEFINE d == a \div b
           r == a % b
<1>0. a = b * d + r /\ r \in 0 .. b - 1 /\ d \in Nat
  BY DivMod
<1> HIDE DEF d, r
<1>1. a = b * d + r /\ r \in 0 .. b - 1 /\ d \in Nat /\ b * d \in Nat
  BY <1>0
<1>2. b * d =< a /\ a < b * d + b
  <2> DEFINE m == b * d
  <2>1. a = m + r /\ r \in 0 .. b - 1 /\ m \in Nat
    BY <1>1
  <2> HIDE DEF m
  <2>2. m =< a /\ a < m + b
    BY <2>1
  <2>3. QED BY <2>2 DEF m
<1>3. ASSUME NEW q \in Nat, q < d PROVE b * q + b =< b * d
  <2>1. q + 1 \in Nat /\ q + 1 =< d
    BY <1>1, <1>3
  <2>2. b * (q + 1) =< b * d
    BY <1>1, <2>1, MulMono
  <2>3. b * (q + 1) = b * q + b
    OBVIOUS
  <2>4. QED BY <2>2, <2>3
<1>4. ASSUME NEW q \in Nat, q > d PROVE b * d + b =< b * q
  <2>1. d + 1 \in Nat /\ d + 1 =< q
    BY <1>1, <1>4
  <2>2. b * (d + 1) =< b * q
    BY <1>1, <2>1, MulMono
  <2>3. b * (d + 1) = b * d + b
    BY <1>1
  <2>4. QED BY <2>2, <2>3
<1>5. ASSUME NEW q \in Nat
      PROVE  /\ (d = q) = (b * q =< a /\ a < b * q + b)
             /\ (q =< d) = (b * q =< a)
  <2> DEFINE m == b * d
             n == b * q
  <2>1. /\ q < d => n + b =< m
        /\ q > d => m + b =< n
        /\ q = d => m = n
        /\ m =< a /\ a < m + b /\ m \in Nat /\ n \in Nat
    BY <1>1, <1>2, <1>3, <1>4
  <2> HIDE DEF m, n
  <2>2. (d = q) = (n =< a /\ a < n + b)
    BY <1>1, <2>1
  <2>3. (q =< d) = (n =< a)
    BY <1>1, <2>1
  <2>4. QED BY <2>2, <2>3 DEF m, n
<1>6. QED BY <1>1, <1>2, <1>5 DEF d

LEMMA DivMono ==
  ASSUME NEW a \in Nat, NEW c \in Nat, NEW b \in Nat \ {0}, a =< c
  PROVE  a \div b =< c \div b
<1>1. a \div b \in Nat /\ b * (a \div b) \in Nat /\ b * (a \div b) =< a
  BY DivBounds
<1>2. b * (a \div b) =< c
  BY <1>1
<1>3. QED BY <1>1, <1>2, DivBounds

(* What is divided without a remainder is a multiple, and so is the        *)
(* difference of two such.                                                 *)
LEMMA Multiples ==
  ASSUME NEW a \in Nat, NEW c \in Nat, NEW b \in Nat \ {0}, a % b = 0, c % b = 0, a =< c
  PROVE  /\ a = b * (a \div b) /\ c = b * (c \div b)
         /\ (c - a) % b = 0
<1> DEFINE p == a \div b
           q == c \div b
<1>1. a = b * p /\ c = b * q /\ p \in Nat /\ q \in Nat
  BY DivMod
<1>2. p =< q
  BY DivMono
<1> HIDE DEF p, q
<1>3. PICK d \in Nat : q = p + d
  <2>1. q - p \in Nat /\ q = p + (q - p)
    BY <1>1, <1>2
  <2>2. QED BY <2>1
<1>4. c = b * p + b * d /\ b * d \in Nat /\ b * p \in Nat
  BY <1>1, <1>3
<1>5. c - a = b * d
  BY <1>1, <1>4
<1>6. (b * d) % b = 0
  <2> DEFINE e == b * d
             f == e \div b
             r == e % b
  <2>1. e \in Nat
    BY <1>4
  <2>2. e = b * f + r /\ r \in 0 .. b - 1 /\ f \in Nat
    BY <2>1, DivMod
  <2>3. f = d
    <3>1. b * d =< e /\ e < b * d + b
      BY <1>4
    <3> HIDE DEF e
    <3>2. QED BY <2>1, <3>1, DivBounds
  <2>4. e = b * d + r
    BY <2>2, <2>3
  <2> HIDE DEF r, f
  <2>5. r = 0
    BY <1>4, <2>2, <2>4
  <2>6. QED BY <2>5 DEF r
<1>7. QED BY <1>1, <1>5, <1>6 DEF p, q

-------------------------------------------------------------------------------
(* The latency at a place. *)

(* A part of a Result's samples, all of them with a latency. *)
IsPart(samples, part) == IsFiniteSet(part) /\ \A i \in part : Latency(samples[i]) \in Nat

AtPlace(samples, part, r, x) ==
  /\ x \in Latencies(samples, part)
  /\ Cardinality(Below(samples, part, x)) =< r
  /\ r < Cardinality(UpTo(samples, part, x))

LEMMA PartsOf ==
  ASSUME NEW samples, NEW part, IsPart(samples, part)
  PROVE  /\ Cardinality(part) \in Nat /\ (part # {} => Cardinality(part) # 0)
         /\ Latencies(samples, part) \subseteq Nat
         /\ \A S \in SUBSET part : IsFiniteSet(S) /\ Cardinality(S) \in Nat /\ Cardinality(S) =< Cardinality(part)
         /\ \A S, T \in SUBSET part : S \subseteq T => Cardinality(S) =< Cardinality(T)
         /\ \A x : Below(samples, part, x) \in SUBSET part /\ UpTo(samples, part, x) \in SUBSET part
<1>1. IsFiniteSet(part)
  BY DEF IsPart
<1>2. \A S \in SUBSET part : IsFiniteSet(S) /\ Cardinality(S) \in Nat /\ Cardinality(S) =< Cardinality(part)
  BY <1>1, FS_Subset, FS_CardinalityType
<1>3. \A S, T \in SUBSET part : S \subseteq T => Cardinality(S) =< Cardinality(T)
  BY <1>2, FS_Subset
<1>4. Cardinality(part) \in Nat /\ (part # {} => Cardinality(part) # 0)
  BY <1>1, FS_CardinalityType, FS_EmptySet
<1>5. Latencies(samples, part) \subseteq Nat
  BY DEF IsPart, Latencies
<1>6. QED BY <1>2, <1>3, <1>4, <1>5 DEF Below, UpTo

LEMMA PlaceExists ==
  ASSUME NEW samples, NEW part, IsPart(samples, part), NEW r \in Nat, r < Cardinality(part)
  PROVE  \E x : AtPlace(samples, part, r, x)
<1> DEFINE L == [i \in part |-> Latency(samples[i])]
           G == {i \in part : r < Cardinality(UpTo(samples, part, L[i]))}
<1>1. IsFiniteSet(part) /\ \A i \in part : L[i] \in Int /\ L[i] = Latency(samples[i]) /\ L[i] \in Latencies(samples, part)
  BY DEF IsPart, Latencies
<1>2. part # {}
  BY FS_EmptySet
<1>3. \A S \in SUBSET part : IsFiniteSet(S)
  BY <1>1, FS_Subset
<1>4. G # {}
  <2>1. PICK i \in part : \A j \in part : L[j] =< L[i]
    <3> HIDE DEF L
    <3>1. QED BY <1>1, <1>2, Greatest
  <2>2. UpTo(samples, part, L[i]) = part
    <3>1. \A j \in part : Latency(samples[j]) =< L[i]
      BY <2>1, <1>1
    <3> HIDE DEF L
    <3>2. QED BY <3>1 DEF UpTo
  <2> HIDE DEF L
  <2>3. i \in G
    BY <2>2
  <2>4. QED BY <2>3
<1>5. PICK i \in G : \A j \in G : L[i] =< L[j]
  <2>1. G \in SUBSET part
    OBVIOUS
  <2> HIDE DEF G, L
  <2>2. QED BY <1>1, <1>3, <1>4, <2>1, Least
<1> DEFINE B == Below(samples, part, L[i])
<1>6. Cardinality(B) =< r
  <2>1. CASE B = {}
    <3>1. Cardinality(B) = 0
      BY <2>1, FS_EmptySet
    <3>2. QED BY <3>1
  <2>2. CASE B # {}
    <3>1. B \in SUBSET part
      BY DEF Below
    <3>2. PICK j \in B : \A k \in B : L[k] =< L[j]
      <4> HIDE DEF B, L
      <4>1. QED BY <1>1, <1>3, <2>2, <3>1, Greatest
    <3>3. L[j] < L[i] /\ j \in part
      BY <1>1, <3>1 DEF Below
    <3>4. B \subseteq UpTo(samples, part, L[j])
      BY <1>1, <3>1, <3>2 DEF UpTo
    <3>5. j \notin G
      <4> HIDE DEF L, G, B
      <4>1. SUFFICES ASSUME j \in G PROVE FALSE
        OBVIOUS
      <4>2. L[i] =< L[j] /\ i \in part
        BY <1>5, <4>1 DEF G
      <4>3. QED BY <1>1, <3>3, <4>2
    <3>6. ~ (r < Cardinality(UpTo(samples, part, L[j])))
      <4> HIDE DEF L, B
      <4>1. QED BY <3>3, <3>5
    <3>7. Cardinality(UpTo(samples, part, L[j])) \in Nat /\ Cardinality(B) \in Nat
          /\ Cardinality(B) =< Cardinality(UpTo(samples, part, L[j]))
      <4> HIDE DEF L, B
      <4>1. QED BY <3>1, <3>4, PartsOf
    <3> HIDE DEF L, B, G
    <3>8. QED BY <3>6, <3>7
  <2>3. QED BY <2>1, <2>2
<1>7. AtPlace(samples, part, r, L[i])
  <2>1. i \in part /\ r < Cardinality(UpTo(samples, part, L[i]))
    <3> HIDE DEF L
    <3>1. QED BY <1>5
  <2> HIDE DEF L, G
  <2>2. QED BY <1>1, <1>6, <2>1 DEF AtPlace
<1>8. QED BY <1>7

LEMMA RankIs ==
  ASSUME NEW part, Cardinality(part) \in Nat \ {0}, NEW pct \in 0 .. 100
  PROVE  /\ Rank(part, pct) \in Nat /\ Rank(part, pct) < Cardinality(part)
         /\ \A other \in pct .. 100 : Rank(part, pct) =< Rank(part, other)
<1> DEFINE n == Cardinality(part) - 1
<1>1. n \in Nat
  OBVIOUS
<1>2. ASSUME NEW p \in 0 .. 100 PROVE p * n \in Nat /\ Rank(part, p) = (p * n) \div 100
  BY <1>1 DEF Rank
<1> HIDE DEF n
<1>3. ASSUME NEW p \in 0 .. 100, NEW q \in p .. 100 PROVE p * n =< q * n
  <2>1. n * p =< n * q
    BY <1>1, MulMono
  <2>2. QED BY <1>1, <2>1
<1>4. Rank(part, pct) \in Nat /\ Rank(part, pct) =< n
  <2>1. pct * n =< 100 * n
    BY <1>3
  <2>2. (pct * n) \div 100 \in Nat /\ (pct * n) \div 100 =< n
    <3> DEFINE a == pct * n
               b == 100 * n
    <3>1. a \in Nat /\ b = 100 * n /\ a =< b
      BY <1>1, <1>2, <2>1
    <3> HIDE DEF a, b
    <3>2. a \div 100 \in Nat /\ a \div 100 =< n
      BY <1>1, <3>1
    <3>3. QED BY <3>2 DEF a
  <2>3. QED BY <1>2, <2>2
<1>5. \A other \in pct .. 100 : Rank(part, pct) =< Rank(part, other)
  <2>1. TAKE other \in pct .. 100
  <2>2. pct * n =< other * n /\ pct * n \in Nat /\ other * n \in Nat /\ other \in 0 .. 100
    BY <1>2, <1>3
  <2>3. (pct * n) \div 100 =< (other * n) \div 100
    BY <2>2, DivMono
  <2>4. QED BY <1>2, <2>2, <2>3
<1>6. Rank(part, pct) < Cardinality(part)
  BY <1>1, <1>4 DEF n
<1>7. QED BY <1>4, <1>5, <1>6

LEMMA PercentileIs ==
  ASSUME NEW samples, NEW part, IsPart(samples, part), part # {}, NEW pct \in 0 .. 100
  PROVE  /\ AtPlace(samples, part, Rank(part, pct), Percentile(samples, part, pct))
         /\ Percentile(samples, part, pct) \in Nat
         /\ \A other \in pct .. 100 : Percentile(samples, part, pct) =< Percentile(samples, part, other)
<1>1. Cardinality(part) \in Nat \ {0}
  BY PartsOf
<1>2. ASSUME NEW p \in 0 .. 100
      PROVE  AtPlace(samples, part, Rank(part, p), Percentile(samples, part, p))
  <2>1. Rank(part, p) \in Nat /\ Rank(part, p) < Cardinality(part)
    BY <1>1, RankIs
  <2>2. \E x : AtPlace(samples, part, Rank(part, p), x)
    BY <2>1, PlaceExists
  <2>3. Percentile(samples, part, p) = CHOOSE x \in Latencies(samples, part) :
                                         /\ Cardinality(Below(samples, part, x)) =< Rank(part, p)
                                         /\ Rank(part, p) < Cardinality(UpTo(samples, part, x))
    BY DEF Percentile
  <2>4. QED BY <2>2, <2>3 DEF AtPlace
<1>3. ASSUME NEW p \in 0 .. 100 PROVE Percentile(samples, part, p) \in Nat
  BY <1>2, PartsOf DEF AtPlace
<1>4. ASSUME NEW other \in pct .. 100
      PROVE  Percentile(samples, part, pct) =< Percentile(samples, part, other)
  <2> DEFINE x == Percentile(samples, part, pct)
             y == Percentile(samples, part, other)
             U == UpTo(samples, part, y)
             B == Below(samples, part, x)
  <2>1. SUFFICES ASSUME ~ (x =< y) PROVE FALSE
    OBVIOUS
  <2>2. other \in 0 .. 100
    OBVIOUS
  <2>3. x \in Nat /\ y \in Nat /\ Cardinality(B) =< Rank(part, pct) /\ Rank(part, other) < Cardinality(U)
    BY <1>2, <1>3, <2>2 DEF AtPlace
  <2>4. U \subseteq B
    <3>1. \A i \in part : Latency(samples[i]) \in Nat
      BY DEF IsPart
    <3> HIDE DEF x, y
    <3>2. QED BY <2>1, <2>3, <3>1 DEF UpTo, Below
  <2>5. Cardinality(U) =< Cardinality(B) /\ Cardinality(U) \in Nat /\ Cardinality(B) \in Nat
    <3> HIDE DEF x, y
    <3>1. U \in SUBSET part /\ B \in SUBSET part
      BY PartsOf
    <3> HIDE DEF U, B
    <3>2. QED BY <2>4, <3>1, PartsOf
  <2>6. Rank(part, pct) =< Rank(part, other) /\ Rank(part, pct) \in Nat /\ Rank(part, other) \in Nat
    BY <1>1, <2>2, RankIs
  <2> HIDE DEF x, y, U, B
  <2>7. QED BY <2>3, <2>5, <2>6
<1>5. QED BY <1>2, <1>3, <1>4
-------------------------------------------------------------------------------
(* The series. *)

LEMMA SamplesAre ==
  ASSUME NEW r \in Results
  PROVE  /\ r.duration \in Nat /\ Len(r.samples) \in Nat /\ DOMAIN r.samples = 1 .. Len(r.samples)
         /\ IsFiniteSet(DOMAIN r.samples) /\ Cardinality(DOMAIN r.samples) = Len(r.samples)
         /\ \A i \in DOMAIN r.samples : r.samples[i].at \in Nat /\ Latency(r.samples[i]) \in Nat
         /\ \A part \in SUBSET DOMAIN r.samples : IsPart(r.samples, part)
         /\ (r.samples = <<>>) = (DOMAIN r.samples = {})
<1>1. /\ r.duration \in Nat /\ r.samples \in Seq(Range(r.samples))
      /\ \A i \in DOMAIN r.samples : IsSample(r.samples[i])
  BY JudgeAssumption
<1>2. Len(r.samples) \in Nat /\ DOMAIN r.samples = 1 .. Len(r.samples)
  BY <1>1, LenProperties
<1>3. IsFiniteSet(DOMAIN r.samples) /\ Cardinality(DOMAIN r.samples) = Len(r.samples)
  <2>1. IsFiniteSet(1 .. Len(r.samples)) /\ Cardinality(1 .. Len(r.samples)) = Len(r.samples)
    BY <1>2, FS_Interval
  <2>2. QED BY <1>2, <2>1
<1>4. \A i \in DOMAIN r.samples : r.samples[i].at \in Nat /\ Latency(r.samples[i]) \in Nat
  BY <1>1 DEF IsSample, Latency
<1>5. \A part \in SUBSET DOMAIN r.samples : IsPart(r.samples, part)
  BY <1>3, <1>4, FS_Subset DEF IsPart
<1>6. (r.samples = <<>>) = (DOMAIN r.samples = {})
  <2>1. r.samples = <<>> => DOMAIN r.samples = {}
    OBVIOUS
  <2>2. DOMAIN r.samples = {} => Len(r.samples) = 0
    <3>1. Len(r.samples) # 0 => 1 \in 1 .. Len(r.samples)
      BY <1>2
    <3>2. QED BY <1>2, <3>1
  <2>3. Len(r.samples) = 0 => r.samples = <<>>
    BY <1>1, EmptySeq
  <2>4. QED BY <2>1, <2>2, <2>3
<1>7. QED BY <1>1, <1>2, <1>3, <1>4, <1>5, <1>6

LEMMA EndIs ==
  ASSUME NEW r \in Results
  PROVE  EndOf(r) \in Nat /\ r.duration =< EndOf(r) /\ \A i \in DOMAIN r.samples : r.samples[i].at =< EndOf(r)
<1> DEFINE D == DOMAIN r.samples
           ats == {r.samples[i].at : i \in D} \cup {r.duration}
           f == [i \in D |-> r.samples[i].at]
<1>1. r.duration \in Nat /\ IsFiniteSet(D) /\ \A i \in D : f[i] \in Int /\ f[i] = r.samples[i].at /\ r.samples[i].at \in Nat
  BY SamplesAre
<1>2. \E m \in ats : \A a \in ats : a =< m
  <2>1. CASE D = {}
    BY <1>1, <2>1
  <2>2. CASE D # {}
    <3>1. PICK i \in D : \A j \in D : f[j] =< f[i]
      <4> HIDE DEF D, f
      <4>1. QED BY <1>1, <2>2, Greatest
    <3>2. f[i] = r.samples[i].at /\ \A j \in D : r.samples[j].at =< f[i]
      BY <1>1, <3>1
    <3>3. CASE r.duration =< f[i]
      BY <1>1, <3>2, <3>3
    <3>4. CASE ~ (r.duration =< f[i])
      <4>1. r.duration =< r.duration /\ \A j \in D : r.samples[j].at =< r.duration
        <5> HIDE DEF f
        <5>1. QED BY <1>1, <3>2, <3>4
      <4>2. QED BY <4>1
    <3>5. QED BY <3>3, <3>4
  <2>3. QED BY <2>1, <2>2
<1>3. EndOf(r) = CHOOSE m \in ats : \A a \in ats : a =< m
  BY DEF EndOf
<1>4. EndOf(r) \in ats /\ \A a \in ats : a =< EndOf(r)
  BY <1>2, <1>3
<1>5. QED BY <1>1, <1>4

LEMMA WidthIs ==
  ASSUME NEW total \in Nat
  PROVE  /\ BucketWidth(total) \in Nat \ {0}
         /\ total \div Last(Ladder) =< MaxPoints => total \div BucketWidth(total) =< MaxPoints
<1> DEFINE fits == {i \in DOMAIN Ladder : total \div Ladder[i] =< MaxPoints}
<1>1. /\ Ladder \in Seq(Nat \ {0}) /\ DOMAIN Ladder = 1 .. Len(Ladder) /\ Len(Ladder) \in Nat \ {0}
      /\ Last(Ladder) = Ladder[Len(Ladder)]
      /\ \A i \in DOMAIN Ladder : Ladder[i] \in Nat \ {0}
  <2>1. Ladder \in Seq(Nat \ {0}) /\ Ladder # <<>>
    BY TiersAssumption
  <2>2. DOMAIN Ladder = 1 .. Len(Ladder) /\ Len(Ladder) \in Nat
    BY <2>1, LenProperties
  <2>3. Len(Ladder) # 0
    BY <2>1, EmptySeq
  <2>4. \A i \in DOMAIN Ladder : Ladder[i] \in Nat \ {0}
    BY <2>1, ElementOfSeq, <2>2
  <2>5. QED BY <2>1, <2>2, <2>3, <2>4 DEF Last
<1>2. CASE fits = {}
  <2>1. BucketWidth(total) = Last(Ladder)
    BY <1>2 DEF BucketWidth
  <2>2. QED BY <1>1, <2>1
<1>3. CASE fits # {}
  <2> DEFINE i == CHOOSE i \in fits : \A j \in fits : i =< j
  <2>1. fits \subseteq DOMAIN Ladder /\ fits \in SUBSET Int /\ IsFiniteSet(fits)
    <3>1. IsFiniteSet(1 .. Len(Ladder))
      BY <1>1, FS_Interval
    <3>2. fits \subseteq 1 .. Len(Ladder)
      BY <1>1
    <3> HIDE DEF fits
    <3>3. IsFiniteSet(fits)
      BY <3>1, <3>2, FS_Subset
    <3>4. QED BY <1>1, <3>2, <3>3
  <2>2. i \in fits
    <3>1. \E x \in fits : \A j \in fits : x =< j
      <4> HIDE DEF fits
      <4>1. QED BY <1>3, <2>1, LeastNumber
    <3> HIDE DEF fits
    <3>2. QED BY <3>1
  <2>3. BucketWidth(total) = Ladder[i]
    BY <1>3 DEF BucketWidth
  <2> HIDE DEF i
  <2>4. QED BY <1>1, <2>2, <2>3
<1>4. QED BY <1>2, <1>3

(* Every sample is in one bucket of the grid. *)
LEMMA GridIs ==
  ASSUME NEW r \in Results
  PROVE  LET W == BucketWidth(EndOf(r)) IN
         /\ W \in Nat \ {0} /\ Points(r) \in Nat \ {0} /\ Points(r) = EndOf(r) \div W + 1
         /\ \A k \in DOMAIN r.samples : BucketOf(r, r.samples[k]) \in 0 .. Points(r) - 1
         /\ \A k \in DOMAIN r.samples : \A i \in Nat :
              /\ (BucketOf(r, r.samples[k]) = i) = (W * i =< r.samples[k].at /\ r.samples[k].at < W * i + W)
              /\ (i =< BucketOf(r, r.samples[k])) = (W * i =< r.samples[k].at)
<1> DEFINE W == BucketWidth(EndOf(r))
<1>1. EndOf(r) \in Nat /\ W \in Nat \ {0}
  BY EndIs, WidthIs
<1> HIDE DEF W
<1>2. EndOf(r) \div W \in Nat /\ Points(r) = EndOf(r) \div W + 1
  BY <1>1, DivBounds DEF Points, W
<1>3. ASSUME NEW k \in DOMAIN r.samples
      PROVE  /\ BucketOf(r, r.samples[k]) \in 0 .. Points(r) - 1
             /\ \A i \in Nat :
                  /\ (BucketOf(r, r.samples[k]) = i) = (W * i =< r.samples[k].at /\ r.samples[k].at < W * i + W)
                  /\ (i =< BucketOf(r, r.samples[k])) = (W * i =< r.samples[k].at)
  <2> DEFINE at == r.samples[k].at
  <2>1. at \in Nat /\ at =< EndOf(r)
    BY SamplesAre, EndIs
  <2>2. BucketOf(r, r.samples[k]) = at \div W
    BY DEF BucketOf, W
  <2> HIDE DEF at
  <2>3. at \div W \in Nat /\ at \div W =< EndOf(r) \div W
    BY <1>1, <2>1, DivBounds, DivMono
  <2>4. \A i \in Nat : /\ (at \div W = i) = (W * i =< at /\ at < W * i + W)
                       /\ (i =< at \div W) = (W * i =< at)
    BY <1>1, <2>1, DivBounds
  <2>5. QED BY <1>2, <2>2, <2>3, <2>4 DEF at
<1>4. QED BY <1>1, <1>2, <1>3 DEF W

(* However many of them are asked about, the buckets hold them all once.   *)
LEMMA BucketsHold ==
  ASSUME NEW r \in Results, NEW X \in SUBSET DOMAIN r.samples,
         NEW g, \A i \in 1 .. Points(r) : g[i] = Cardinality(X \cap Bucket(r, i - 1))
  PROVE  Sum(g, 1 .. Points(r)) = Cardinality(X)
<1> DEFINE D == DOMAIN r.samples
           P == 1 .. Points(r)
           one == [k \in D |-> 1]
           key == [k \in X |-> BucketOf(r, r.samples[k]) + 1]
<1>1. IsFiniteSet(D) /\ IsFiniteSet(X) /\ \A T \in SUBSET X : IsFiniteSet(T)
  BY SamplesAre, FS_Subset
<1>2. \A T \in SUBSET X : Sum(one, T) = Cardinality(T)
  <2>1. TAKE T \in SUBSET X
  <2>2. \A k \in T : one[k] = IF k \in X THEN 1 ELSE 0
    OBVIOUS
  <2>3. T \cap X = T /\ IsFiniteSet(T)
    BY <1>1
  <2> HIDE DEF one
  <2>4. Sum(one, T) = Cardinality(T \cap X)
    BY <2>2, <2>3, SumCounts
  <2>5. QED BY <2>3, <2>4
<1>3. \A k \in X : key[k] \in P /\ one[k] \in Nat
  <2>1. \A k \in X : BucketOf(r, r.samples[k]) \in 0 .. Points(r) - 1 /\ Points(r) \in Nat
    BY GridIs
  <2>2. QED BY <2>1
<1>4. \A i \in P : Part(X, key, i) = X \cap Bucket(r, i - 1)
  <2>1. TAKE i \in P
  <2>2. \A k \in X : BucketOf(r, r.samples[k]) \in Int
    BY GridIs
  <2>3. \A k \in X : (key[k] = i) = (BucketOf(r, r.samples[k]) = i - 1)
    <3>1. i \in Int
      BY GridIs
    <3>2. QED BY <2>2, <3>1
  <2>4. QED BY <2>3 DEF Part, Bucket
<1>5. \A i \in P : g[i] = Sum(one, Part(X, key, i))
  <2>1. TAKE i \in P
  <2>2. Part(X, key, i) \in SUBSET X
    BY DEF Part
  <2>3. g[i] = Cardinality(X \cap Bucket(r, i - 1))
    OBVIOUS
  <2> HIDE DEF one, key, P
  <2>4. QED BY <1>2, <1>4, <2>2, <2>3
<1>6. IsFiniteSet(P)
  BY GridIs, FS_Interval
<1>7. Sum(one, X) = Sum(g, P)
  <2> HIDE DEF one, key, P
  <2>1. QED BY <1>1, <1>3, <1>5, <1>6, SumParts
<1>8. Sum(one, X) = Cardinality(X)
  <2> HIDE DEF one
  <2>1. QED BY <1>2
<1>9. QED BY <1>7, <1>8

LEMMA SummaryIs ==
  ASSUME NEW samples, NEW at, NEW b
  PROVE  /\ Summary(samples, at, b).at = at
         /\ Summary(samples, at, b).flowRuns = Cardinality(b)
         /\ Summary(samples, at, b).failed = Cardinality(Failed(samples) \cap b)
         /\ Summary(samples, at, b).throttled = Cardinality(Throttled(samples) \cap b)
         /\ Summary(samples, at, b).p50 = Percentile(samples, b, 50)
         /\ Summary(samples, at, b).p95 = Percentile(samples, b, 95)
         /\ Summary(samples, at, b).p99 = Percentile(samples, b, 99)
BY DEF Summary

LEMMA SumOfFunction ==
  ASSUME NEW g
  PROVE  SumFunction(g) = Sum(g, DOMAIN g)
BY DEF SumFunction, Sum

LEMMA SeriesHolds ==
  ASSUME NEW r \in Results
  PROVE  SeriesWhole(r)
<1> DEFINE D == DOMAIN r.samples
           W == BucketWidth(EndOf(r))
           N == Points(r)
           points == BuildSeries(r)
           own(i) == {k \in D : /\ points[i].at =< r.samples[k].at
                                /\ i < Len(points) => r.samples[k].at < points[i + 1].at}
<1>1. CASE r.samples = <<>>
  <2>1. points = <<>> /\ DOMAIN points = {} /\ Len(points) = 0
    BY <1>1 DEF BuildSeries
  <2>2. D = {} /\ Len(r.samples) = 0
    BY <1>1
  <2>3. Cardinality(Failed(r.samples)) = 0 /\ Cardinality(Throttled(r.samples)) = 0
    <3>1. Failed(r.samples) = {} /\ Throttled(r.samples) = {}
      BY <2>2 DEF Failed, Throttled
    <3>2. QED BY <3>1, FS_EmptySet
  <2>4. ASSUME NEW f, DOMAIN f = {} PROVE SumFunction(f) = 0
    BY <2>4, SumEmpty DEF SumFunction, Sum
  <2>5. MaxPoints \in Nat
    BY TiersAssumption
  <2> HIDE DEF points
  <2>6. /\ SumFunction([i \in DOMAIN points |-> points[i].flowRuns]) = 0
        /\ SumFunction([i \in DOMAIN points |-> points[i].failed]) = 0
        /\ SumFunction([i \in DOMAIN points |-> points[i].throttled]) = 0
    BY <2>1, <2>4
  <2>7. Len(points) =< MaxPoints + 1
    BY <2>1, <2>5
  <2>8. QED BY <2>1, <2>2, <2>3, <2>6, <2>7 DEF SeriesWhole, points
<1>2. CASE r.samples # <<>>
  <2>1. /\ points = [i \in 1 .. N |-> Summary(r.samples, (i - 1) * W, Bucket(r, i - 1))]
        /\ W \in Nat \ {0} /\ N \in Nat \ {0} /\ N = EndOf(r) \div W + 1
    BY <1>2, GridIs DEF BuildSeries
  <2>2. /\ DOMAIN points = 1 .. N /\ Len(points) = N
        /\ \A i \in 1 .. N : points[i] = Summary(r.samples, (i - 1) * W, Bucket(r, i - 1))
    <3> HIDE DEF points, N, W
    <3>1. QED BY <2>1
  <2> HIDE DEF points
  <2>2a. \A i \in 1 .. N :
           /\ points[i].at = (i - 1) * W
           /\ points[i].flowRuns = Cardinality(Bucket(r, i - 1))
           /\ points[i].failed = Cardinality(Failed(r.samples) \cap Bucket(r, i - 1))
           /\ points[i].throttled = Cardinality(Throttled(r.samples) \cap Bucket(r, i - 1))
           /\ points[i].p50 = Percentile(r.samples, Bucket(r, i - 1), 50)
           /\ points[i].p95 = Percentile(r.samples, Bucket(r, i - 1), 95)
           /\ points[i].p99 = Percentile(r.samples, Bucket(r, i - 1), 99)
    <3>1. TAKE i \in 1 .. N
    <3> DEFINE at == (i - 1) * W
               b == Bucket(r, i - 1)
               point == points[i]
    <3>2. point = Summary(r.samples, at, b)
      BY <2>2
    <3> HIDE DEF at, b, point
    <3>3. /\ point.at = at /\ point.flowRuns = Cardinality(b)
          /\ point.failed = Cardinality(Failed(r.samples) \cap b)
          /\ point.throttled = Cardinality(Throttled(r.samples) \cap b)
          /\ point.p50 = Percentile(r.samples, b, 50) /\ point.p95 = Percentile(r.samples, b, 95)
          /\ point.p99 = Percentile(r.samples, b, 99)
      BY <3>2, SummaryIs
    <3>4. QED BY <3>3 DEF at, b, point
  <2>3. ASSUME NEW X \in SUBSET D, NEW g, DOMAIN g = 1 .. N,
               \A i \in 1 .. N : g[i] = Cardinality(X \cap Bucket(r, i - 1))
        PROVE  SumFunction(g) = Cardinality(X)
    <3>1. Sum(g, 1 .. N) = Cardinality(X)
      BY <2>3, BucketsHold
    <3>2. SumFunction(g) = Sum(g, 1 .. N)
      <4> HIDE DEF N
      <4>1. QED BY <2>3, SumOfFunction
    <3>3. QED BY <3>1, <3>2
  <2>4. SumFunction([i \in DOMAIN points |-> points[i].flowRuns]) = Len(r.samples)
    <3> DEFINE g == [i \in DOMAIN points |-> points[i].flowRuns]
    <3>1. DOMAIN g = 1 .. N /\ \A i \in 1 .. N : g[i] = Cardinality(Bucket(r, i - 1))
      <4> HIDE DEF N, W
      <4>1. QED BY <2>2, <2>2a
    <3>2. \A i \in 1 .. N : Bucket(r, i - 1) = D \cap Bucket(r, i - 1)
      BY DEF Bucket
    <3> HIDE DEF g
    <3>3. \A i \in 1 .. N : g[i] = Cardinality(D \cap Bucket(r, i - 1))
      BY <3>1, <3>2
    <3>4. SumFunction(g) = Cardinality(D)
      BY <2>3, <3>1, <3>3
    <3>5. QED BY <3>4, SamplesAre DEF g
  <2>5. SumFunction([i \in DOMAIN points |-> points[i].failed]) = Cardinality(Failed(r.samples))
    <3> DEFINE g == [i \in DOMAIN points |-> points[i].failed]
    <3>1. DOMAIN g = 1 .. N /\ \A i \in 1 .. N : g[i] = Cardinality(Failed(r.samples) \cap Bucket(r, i - 1))
      <4> HIDE DEF N, W
      <4>1. QED BY <2>2, <2>2a
    <3>2. Failed(r.samples) \in SUBSET D
      BY DEF Failed
    <3> HIDE DEF g
    <3>3. QED BY <2>3, <3>1, <3>2 DEF g
  <2>6. SumFunction([i \in DOMAIN points |-> points[i].throttled]) = Cardinality(Throttled(r.samples))
    <3> DEFINE g == [i \in DOMAIN points |-> points[i].throttled]
    <3>1. DOMAIN g = 1 .. N /\ \A i \in 1 .. N : g[i] = Cardinality(Throttled(r.samples) \cap Bucket(r, i - 1))
      <4> HIDE DEF N, W
      <4>1. QED BY <2>2, <2>2a
    <3>2. Throttled(r.samples) \in SUBSET D
      BY DEF Throttled
    <3> HIDE DEF g
    <3>3. QED BY <2>3, <3>1, <3>2 DEF g
  <2>7. EndOf(r) \div Last(Ladder) =< MaxPoints => Len(points) =< MaxPoints + 1
    <3>1. SUFFICES ASSUME EndOf(r) \div Last(Ladder) =< MaxPoints PROVE Len(points) =< MaxPoints + 1
      OBVIOUS
    <3>2. EndOf(r) \div W =< MaxPoints /\ EndOf(r) \div W \in Nat /\ MaxPoints \in Nat
      BY <2>1, <3>1, EndIs, WidthIs, DivBounds, TiersAssumption
    <3>3. QED BY <2>1, <2>2, <3>2
  <2>8. ASSUME NEW i \in 1 .. N
        PROVE  own(i) = Bucket(r, i - 1)
    <3> DEFINE b(k) == BucketOf(r, r.samples[k])
               at(k) == r.samples[k].at
    <3>1. i \in Nat /\ i - 1 \in Nat /\ (i < N => i + 1 \in 1 .. N)
      BY <2>1
    <3>2. points[i].at = W * (i - 1) /\ (i < N => points[i + 1].at = W * (i - 1) + W)
      <4> HIDE DEF N, W
      <4>1. points[i].at = (i - 1) * W
        BY <2>2a
      <4>2. i < N => points[i + 1].at = ((i + 1) - 1) * W
        BY <2>2a, <3>1
      <4>3. (i - 1) * W = W * (i - 1) /\ ((i + 1) - 1) * W = W * (i - 1) + W
        <5> HIDE DEF W
        <5>1. QED BY <2>1, <3>1
      <4>4. QED BY <4>1, <4>2, <4>3
    <3>3. \A k \in D : /\ b(k) \in 0 .. N - 1 /\ at(k) \in Nat
                       /\ (b(k) = i - 1) = (W * (i - 1) =< at(k) /\ at(k) < W * (i - 1) + W)
                       /\ (i - 1 =< b(k)) = (W * (i - 1) =< at(k))
      <4>1. \A k \in D : at(k) \in Nat
        BY SamplesAre
      <4>2. \A k \in D : b(k) \in 0 .. N - 1
        BY GridIs
      <4>3. \A k \in D : \A m \in Nat : /\ (b(k) = m) = (W * m =< at(k) /\ at(k) < W * m + W)
                                       /\ (m =< b(k)) = (W * m =< at(k))
        BY GridIs
      <4> HIDE DEF b, at, D, N, W
      <4>4. QED BY <3>1, <4>1, <4>2, <4>3
    <3>4. ASSUME NEW k \in D PROVE (k \in own(i)) = (b(k) = i - 1)
      <4> DEFINE low == W * (i - 1)
      <4>1. (k \in own(i)) = (points[i].at =< at(k) /\ (i < N => at(k) < points[i + 1].at))
        BY <2>2
      <4>2. (k \in own(i)) = (low =< at(k) /\ (i < N => at(k) < low + W))
        BY <3>2, <4>1
      <4>3. /\ b(k) \in 0 .. N - 1 /\ (b(k) = i - 1) = (low =< at(k) /\ at(k) < low + W)
            /\ (i - 1 =< b(k)) = (low =< at(k))
        BY <3>3
      <4> HIDE DEF low, b, at, own, N, W
      <4>4. CASE i < N
        BY <4>2, <4>3, <4>4
      <4>5. CASE ~ (i < N)
        <5>1. i = N
          BY <2>1, <4>5
        <5>2. (b(k) = i - 1) = (i - 1 =< b(k))
          BY <2>1, <4>3, <5>1
        <5>3. QED BY <4>2, <4>3, <4>5, <5>2
      <4>6. QED BY <4>4, <4>5
    <3>5. QED BY <3>4 DEF Bucket
  <2>9. ASSUME NEW i \in 1 .. N, Latencies(r.samples, own(i)) # {}
        PROVE  /\ {points[i].p50, points[i].p95, points[i].p99} \subseteq Latencies(r.samples, own(i))
               /\ points[i].p50 =< points[i].p95 /\ points[i].p95 =< points[i].p99
    <3> DEFINE b == Bucket(r, i - 1)
    <3>1. own(i) = b /\ b \in SUBSET D /\ b # {}
      <4>1. own(i) = b
        BY <2>8
      <4>2. own(i) # {}
        <5>1. own(i) = {} => Latencies(r.samples, own(i)) = {}
          BY DEF Latencies
        <5>2. QED BY <2>9, <5>1
      <4>3. QED BY <4>1, <4>2 DEF Bucket
    <3>2. /\ points[i].p50 = Percentile(r.samples, b, 50) /\ points[i].p95 = Percentile(r.samples, b, 95)
          /\ points[i].p99 = Percentile(r.samples, b, 99)
      <4> HIDE DEF N, W
      <4>1. QED BY <2>2a
    <3>3. IsPart(r.samples, b)
      BY <3>1, SamplesAre
    <3> HIDE DEF b, own
    <3>4. \A p \in 0 .. 100 : /\ Percentile(r.samples, b, p) \in Latencies(r.samples, b)
                              /\ \A q \in p .. 100 : Percentile(r.samples, b, p) =< Percentile(r.samples, b, q)
      BY <3>1, <3>3, PercentileIs DEF AtPlace
    <3>5. 50 \in 0 .. 100 /\ 95 \in 0 .. 100 /\ 99 \in 0 .. 100 /\ 95 \in 50 .. 100 /\ 99 \in 95 .. 100
      OBVIOUS
    <3> DEFINE p(n) == Percentile(r.samples, b, n)
               all == Latencies(r.samples, b)
    <3>6. p(50) \in all /\ p(95) \in all /\ p(99) \in all /\ p(50) =< p(95) /\ p(95) =< p(99)
      BY <3>4, <3>5
    <3> HIDE DEF p, all
    <3>7. {p(50), p(95), p(99)} \subseteq all
      BY <3>6
    <3>8. all = Latencies(r.samples, own(i))
      BY <3>1 DEF all
    <3>9. points[i].p50 = p(50) /\ points[i].p95 = p(95) /\ points[i].p99 = p(99)
      BY <3>2 DEF p
    <3>10. QED BY <3>6, <3>7, <3>8, <3>9
  <2>10. \A i \in DOMAIN points :
           LET mine == Latencies(r.samples, {k \in DOMAIN r.samples :
                         /\ points[i].at =< r.samples[k].at
                         /\ i < Len(points) => r.samples[k].at < points[i + 1].at})
           IN mine # {} =>
                /\ {points[i].p50, points[i].p95, points[i].p99} \subseteq mine
                /\ points[i].p50 =< points[i].p95 /\ points[i].p95 =< points[i].p99
    BY <2>2, <2>9
  <2>11. QED BY <2>4, <2>5, <2>6, <2>7, <2>10 DEF SeriesWhole, points
<1>3. QED BY <1>1, <1>2

-------------------------------------------------------------------------------
(* The thinned samples. *)

(* The parts of a finite set, counted. *)
LEMMA Counting ==
  ASSUME NEW S, IsFiniteSet(S)
  PROVE  /\ Cardinality(S) \in Nat
         /\ \A A \in SUBSET S : IsFiniteSet(A) /\ Cardinality(A) \in Nat /\ Cardinality(A) =< Cardinality(S)
                                /\ Cardinality(S \ A) = Cardinality(S) - Cardinality(A)
         /\ \A A, B \in SUBSET S : A \subseteq B => Cardinality(A) =< Cardinality(B)
         /\ \A A, B \in SUBSET S : A \cap B = {} => Cardinality(A \cup B) = Cardinality(A) + Cardinality(B)
<1>1. \A A \in SUBSET S : IsFiniteSet(A) /\ Cardinality(A) \in Nat /\ Cardinality(A) =< Cardinality(S)
  BY FS_Subset, FS_CardinalityType
<1>2. ASSUME NEW A \in SUBSET S PROVE Cardinality(S \ A) = Cardinality(S) - Cardinality(A)
  <2>1. S \cap A = A
    OBVIOUS
  <2>2. QED BY <2>1, FS_Difference
<1>3. \A A, B \in SUBSET S : A \subseteq B => Cardinality(A) =< Cardinality(B)
  BY <1>1, FS_Subset
<1>4. ASSUME NEW A \in SUBSET S, NEW B \in SUBSET S, A \cap B = {}
      PROVE  Cardinality(A \cup B) = Cardinality(A) + Cardinality(B)
  <2>1. Cardinality(A \cup B) = Cardinality(A) + Cardinality(B) - Cardinality({})
    BY <1>1, <1>4, FS_Union
  <2>2. Cardinality({}) = 0 /\ Cardinality(A) \in Nat /\ Cardinality(B) \in Nat
    BY <1>1, FS_EmptySet
  <2>3. QED BY <2>1, <2>2
<1>5. QED BY <1>1, <1>2, <1>3, <1>4, FS_CardinalityType

Before(S, i) == {j \in S : j < i}

(* A number's place in a finite set of numbers. *)
LEMMA PlacesAre ==
  ASSUME NEW S \in SUBSET Nat, IsFiniteSet(S)
  PROVE  /\ \A i : Before(S, i) \in SUBSET S /\ Cardinality(Before(S, i)) \in Nat
         /\ \A i \in S : Cardinality(Before(S, i)) < Cardinality(S)
         /\ \A i, j \in S : i < j =>
              /\ Cardinality(Before(S, i)) < Cardinality(Before(S, j))
              /\ Cardinality({k \in S : i =< k /\ k < j}) = Cardinality(Before(S, j)) - Cardinality(Before(S, i))
<1>1. \A i : Before(S, i) \in SUBSET S /\ Cardinality(Before(S, i)) \in Nat
  BY Counting DEF Before
<1>2. ASSUME NEW i \in S PROVE Cardinality(Before(S, i)) < Cardinality(S)
  <2>1. Before(S, i) \in SUBSET (S \ {i})
    BY DEF Before
  <2>2. IsFiniteSet(S \ {i}) /\ Cardinality(S \ {i}) = Cardinality(S) - 1 /\ Cardinality(S) \in Nat
    BY FS_RemoveElement, FS_CardinalityType
  <2>3. Cardinality(Before(S, i)) =< Cardinality(S \ {i}) /\ Cardinality(Before(S, i)) \in Nat
    BY <1>1, <2>1, <2>2, FS_Subset
  <2>4. QED BY <2>2, <2>3
<1>3. ASSUME NEW i \in S, NEW j \in S, i < j
      PROVE  /\ Cardinality(Before(S, i)) < Cardinality(Before(S, j))
             /\ Cardinality({k \in S : i =< k /\ k < j}) = Cardinality(Before(S, j)) - Cardinality(Before(S, i))
  <2> DEFINE A == Before(S, i)
             B == {k \in S : i =< k /\ k < j}
             C == Before(S, j)
  <2>1. A \in SUBSET S /\ B \in SUBSET S /\ A \cap B = {} /\ C = A \cup B /\ i \in B
    <3>1. \A k \in S : (k < j) = (k < i \/ (i =< k /\ k < j)) /\ ~ (k < i /\ i =< k)
      BY <1>3
    <3>2. A \in SUBSET S /\ B \in SUBSET S /\ i \in B
      BY <1>3 DEF Before
    <3>3. A \cap B = {}
      BY <3>1 DEF Before
    <3>4. C = A \cup B
      BY <3>1 DEF Before
    <3>5. QED BY <3>2, <3>3, <3>4
  <2> HIDE DEF A, B, C
  <2>2. Cardinality(C) = Cardinality(A) + Cardinality(B) /\ Cardinality(A) \in Nat /\ Cardinality(B) \in Nat
    <3>1. /\ \A X \in SUBSET S : Cardinality(X) \in Nat
          /\ \A X, Y \in SUBSET S : X \cap Y = {} => Cardinality(X \cup Y) = Cardinality(X) + Cardinality(Y)
      BY Counting
    <3>2. QED BY <2>1, <3>1
  <2>3. Cardinality(B) # 0
    BY <2>1, Counting, FS_EmptySet
  <2>4. Cardinality(A) < Cardinality(C) /\ Cardinality(B) = Cardinality(C) - Cardinality(A)
    BY <2>2, <2>3
  <2>5. QED BY <2>4 DEF A, B, C
<1>4. QED BY <1>1, <1>2, <1>3

(* At most as many as there is room for have a place the stride divides.   *)
LEMMA EveryNth ==
  ASSUME NEW S \in SUBSET Nat, IsFiniteSet(S), NEW budget \in Nat \ {0}, budget < Cardinality(S)
  PROVE  LET w == CeilDiv(Cardinality(S), budget) IN
         /\ w \in Nat \ {0}
         /\ Cardinality({i \in S : Cardinality(Before(S, i)) % w = 0}) =< budget
<1> DEFINE a == Cardinality(S)
           w == CeilDiv(a, budget)
           T == {i \in S : Cardinality(Before(S, i)) % w = 0}
           R == 0 .. budget - 1
           place(i) == Cardinality(Before(S, i))
           f == [i \in T |-> place(i) \div w]
<1>1. a \in Nat /\ \A i \in S : place(i) \in Nat /\ place(i) < a
  BY PlacesAre, FS_CardinalityType
<1>2. w \in Nat \ {0} /\ a =< w * budget
  <2> DEFINE c == a + budget - 1
  <2>1. c \in Nat /\ w = c \div budget /\ budget =< c /\ a = c - budget + 1
    BY <1>1 DEF CeilDiv
  <2> HIDE DEF c, w, a
  <2>2. /\ c \div budget \in Nat /\ budget * (c \div budget) \in Nat
        /\ c < budget * (c \div budget) + budget
        /\ \A q \in Nat : (q =< c \div budget) = (budget * q =< c)
    BY <2>1, DivBounds
  <2>3. 1 =< c \div budget
    <3>1. budget * 1 =< c /\ 1 \in Nat
      BY <2>1
    <3>2. QED BY <2>2, <3>1
  <2>4. a =< budget * (c \div budget)
    <3> DEFINE m == budget * (c \div budget)
    <3>1. c \in Nat /\ c < m + budget /\ m \in Nat /\ a = c - budget + 1
      BY <2>1, <2>2
    <3> HIDE DEF m
    <3>2. a =< m
      BY <3>1
    <3>3. QED BY <3>2 DEF m
  <2>5. budget * w = w * budget /\ w = c \div budget
    BY <2>1, <2>2
  <2>6. QED BY <2>2, <2>3, <2>4, <2>5
<1> HIDE DEF a, w
<1>3. ASSUME NEW i \in T PROVE f[i] \in R /\ place(i) = w * f[i] /\ i \in S
  <2> DEFINE p == place(i)
  <2>1. i \in S /\ p \in Nat /\ p < a /\ p % w = 0
    BY <1>1
  <2>2. f[i] = p \div w
    OBVIOUS
  <2> HIDE DEF p, f
  <2>3. p \div w \in Nat /\ (budget =< p \div w) = (w * budget =< p) /\ p = w * (p \div w)
    BY <1>2, <2>1, DivBounds, Multiples
  <2>4. ~ (w * budget =< p)
    <3> DEFINE m == w * budget
    <3>1. m \in Nat /\ a =< m
      BY <1>2
    <3> HIDE DEF m
    <3>2. ~ (m =< p)
      BY <1>1, <2>1, <3>1
    <3>3. QED BY <3>2 DEF m
  <2>5. f[i] \in R
    BY <2>2, <2>3, <2>4
  <2>6. QED BY <2>1, <2>2, <2>3, <2>5 DEF p
<1>4. f \in Injection(T, R)
  <2>1. \A i \in T : f[i] \in R
    BY <1>3
  <2>2. ASSUME NEW i \in T, NEW j \in T, f[i] = f[j] PROVE i = j
    <3>1. place(i) = place(j) /\ i \in S /\ j \in S
      <4> HIDE DEF f, place
      <4>1. QED BY <1>3, <2>2
    <3>2. CASE i < j
      <4>1. place(i) < place(j) /\ place(i) \in Nat
        BY <3>1, <3>2, PlacesAre
      <4>2. QED BY <3>1, <4>1
    <3>3. CASE j < i
      <4>1. place(j) < place(i) /\ place(i) \in Nat
        BY <3>1, <3>3, PlacesAre
      <4>2. QED BY <3>1, <4>1
    <3>4. i \in Nat /\ j \in Nat
      BY <3>1
    <3>5. QED BY <3>2, <3>3, <3>4
  <2>3. f \in [T -> R]
    BY <2>1
  <2> HIDE DEF f, T, R
  <2>4. QED BY <2>2, <2>3 DEF Injection, IsInjective
<1>5. IsFiniteSet(R) /\ Cardinality(R) = budget
  BY FS_Interval
<1>6. Cardinality(T) =< budget
  <2> HIDE DEF f, T, R
  <2>1. QED BY <1>4, <1>5, FS_Injection
<1>7. QED BY <1>2, <1>6 DEF a, w

LEMMA StrideIs ==
  ASSUME NEW r \in Results
  PROVE  LET S      == Successes(r.samples)
             D      == DOMAIN r.samples
             A      == {i \in D : Wanted(r.samples, i)}
         IN /\ S \in SUBSET D /\ Stride(r.samples) \in Nat \ {0}
            /\ D \ S \subseteq A
            /\ \A i \in S : (i \in A) = (Cardinality(Before(S, i)) % Stride(r.samples) = 0)
            /\ Cardinality(D \ S) < Ceiling => Cardinality(A) =< Ceiling
            /\ Len(r.samples) =< Ceiling => A = D
<1> DEFINE S == Successes(r.samples)
           D == DOMAIN r.samples
           w == Stride(r.samples)
           A == {i \in D : Wanted(r.samples, i)}
           T == {i \in S : Cardinality(Before(S, i)) % w = 0}
           s == Cardinality(S)
           n == Len(r.samples)
           budget == Ceiling - (n - s)
<1>1. /\ n \in Nat /\ D = 1 .. n /\ IsFiniteSet(D) /\ Cardinality(D) = n /\ S \in SUBSET D /\ Ceiling \in Nat \ {0}
  BY SamplesAre, TiersAssumption DEF Successes
<1>2. IsFiniteSet(S) /\ s \in Nat /\ s =< n /\ Cardinality(D \ S) = n - s /\ S \in SUBSET Nat
  <2> HIDE DEF S, D, n
  <2>1. IsFiniteSet(S) /\ Cardinality(S) \in Nat /\ Cardinality(S) =< Cardinality(D)
    BY <1>1, FS_Subset, FS_CardinalityType
  <2>2. D \cap S = S
    BY <1>1
  <2>3. Cardinality(D \ S) = Cardinality(D) - Cardinality(D \cap S)
    BY <1>1, FS_Difference
  <2>4. S \in SUBSET Nat
    BY <1>1
  <2>5. QED BY <1>1, <2>1, <2>2, <2>3, <2>4
<1>3. /\ budget >= s => w = 1
      /\ budget < s /\ budget =< 0 => w = s + 1
      /\ budget < s /\ budget > 0 => w = CeilDiv(s, budget)
  <2> DEFINE stride(b, t) == CASE b >= t -> 1 [] b < t /\ b =< 0 -> t + 1 [] b < t /\ b > 0 -> CeilDiv(t, b)
  <2>1. w = stride(budget, s)
    BY DEF Stride
  <2>2. budget \in Int /\ s \in Nat
    BY <1>1, <1>2
  <2> HIDE DEF w, s, n, budget
  <2>3. QED BY <2>1, <2>2
<1>4. \A i \in D \ S : i \in A
  BY DEF Wanted, Successes
<1>5. \A i \in S : (i \in A) = (Cardinality(Before(S, i)) % w = 0)
  <2>1. TAKE i \in S
  <2>2. i \in D /\ ~ Notable(r.samples[i])
    BY DEF Successes
  <2>3. SuccessesBefore(r.samples, i) = Cardinality(Before(S, i))
    BY DEF SuccessesBefore, Before
  <2> HIDE DEF w
  <2>4. Wanted(r.samples, i) = (Cardinality(Before(S, i)) % w = 0)
    <3> HIDE DEF S
    <3>1. QED BY <2>2, <2>3 DEF Wanted, w
  <2>5. CASE Wanted(r.samples, i)
    <3>1. i \in A
      BY <2>2, <2>5
    <3> HIDE DEF A, S
    <3>2. QED BY <2>4, <2>5, <3>1
  <2>6. CASE ~ Wanted(r.samples, i)
    <3>1. i \notin A
      BY <2>6
    <3> HIDE DEF A, S
    <3>2. Cardinality(Before(S, i)) % w # 0
      <4> DEFINE p == Cardinality(Before(S, i)) % w
      <4>1. Wanted(r.samples, i) = (p = 0)
        BY <2>4
      <4> HIDE DEF p
      <4>2. p # 0
        BY <2>6, <4>1
      <4>3. QED BY <4>2 DEF p
    <3>3. QED BY <3>1, <3>2
  <2> HIDE DEF A, S
  <2>7. QED BY <2>5, <2>6
<1> HIDE DEF S, D, w, A
<1>6. A \in SUBSET D
  BY DEF A
<1>6a. /\ budget = Ceiling - (n - s) /\ budget \in Int
      /\ s \in Nat /\ n \in Nat /\ s =< n /\ Ceiling \in Nat \ {0} /\ n - s \in Nat
  BY <1>1, <1>2
<1> HIDE DEF s, n, budget
<1>7. w \in Nat \ {0} /\ (budget > 0 => Cardinality(T) =< budget \/ w = 1)
  <2>1. CASE budget >= s
    BY <1>3, <2>1
  <2>2. CASE budget < s /\ budget =< 0
    <3>1. w = s + 1 /\ ~ (budget > 0)
      BY <1>3, <1>6a, <2>2
    <3>2. w \in Nat \ {0}
      BY <1>6a, <3>1
    <3>3. QED BY <3>1, <3>2
  <2>3. CASE budget < s /\ budget > 0
    <3>1. w = CeilDiv(s, budget)
      BY <1>3, <2>3
    <3>2. budget \in Nat \ {0}
      BY <1>6a, <2>3
    <3>3. w \in Nat \ {0} /\ Cardinality(T) =< budget
      BY <1>2, <2>3, <3>1, <3>2, EveryNth DEF s
    <3>4. QED BY <3>3
  <2>4. QED BY <1>6a, <2>1, <2>2, <2>3
<1>8. w = 1 => A = D
  <2>1. SUFFICES ASSUME w = 1, NEW i \in D PROVE i \in A
    BY <1>6
  <2>2. CASE i \in S
    <3> DEFINE p == Cardinality(Before(S, i))
    <3>1. p \in Nat
      BY <1>2, PlacesAre
    <3> HIDE DEF p
    <3>2. p % 1 = 0
      BY <3>1
    <3>3. QED BY <1>5, <2>1, <2>2, <3>2 DEF p
  <2>3. QED BY <1>4, <2>2
<1>9. ASSUME Cardinality(D \ S) < Ceiling PROVE Cardinality(A) =< Ceiling
  <2>1. budget \in Nat \ {0} /\ n - s + budget = Ceiling
    <3>1. n - s < Ceiling
      BY <1>2, <1>9
    <3>2. QED BY <1>6a, <3>1
  <2>2. CASE w = 1 /\ ~ (Cardinality(T) =< budget)
    <3>1. budget >= s
      <4>1. T \in SUBSET S
        OBVIOUS
      <4>2. CASE budget < s
        <5>1. w = CeilDiv(s, budget) /\ budget > 0
          BY <1>3, <1>6a, <2>1, <4>2
        <5>2. Cardinality(T) =< budget
          BY <1>2, <2>1, <4>2, <5>1, EveryNth DEF s
        <5>3. QED BY <2>2, <5>2
      <4>3. QED BY <1>6a, <4>2
    <3>2. n =< Ceiling /\ Cardinality(A) = n
      <4>1. A = D
        BY <1>8, <2>2
      <4>2. Cardinality(A) = n
        BY <1>1, <4>1
      <4>3. n =< Ceiling
        BY <1>6a, <2>1, <3>1
      <4>4. QED BY <4>2, <4>3
    <3>3. QED BY <3>2
  <2>3. CASE Cardinality(T) =< budget
    <3>1. A = (D \ S) \cup T /\ (D \ S) \cap T = {} /\ D \ S \in SUBSET D /\ T \in SUBSET D
      BY <1>1, <1>4, <1>5, <1>6
    <3> HIDE DEF T
    <3> DEFINE N == D \ S
    <3>2. IsFiniteSet(N) /\ IsFiniteSet(T) /\ A = N \cup T /\ N \cap T = {}
      BY <1>1, <3>1, FS_Subset
    <3>3. Cardinality(N) = n - s
      BY <1>2
    <3> HIDE DEF N
    <3>4. Cardinality(N \cup T) = Cardinality(N) + Cardinality(T) - Cardinality(N \cap T)
      BY <3>2, FS_Union
    <3>5. Cardinality(N \cap T) = 0 /\ Cardinality(T) \in Nat
      BY <3>2, FS_EmptySet, FS_CardinalityType
    <3>6. Cardinality(A) = n - s + Cardinality(T)
      BY <1>6a, <3>2, <3>3, <3>4, <3>5
    <3>7. QED BY <1>6a, <2>1, <2>3, <3>5, <3>6
  <2>4. QED
    <3>1. w = 1 \/ Cardinality(T) =< budget
      <4>1. budget > 0
        BY <2>1
      <4>2. QED BY <1>7, <4>1
    <3>2. QED BY <2>2, <2>3, <3>1
<1>10. ASSUME n =< Ceiling PROVE A = D
  <2>1. budget >= s
    BY <1>6a, <1>10
  <2>2. QED BY <1>3, <1>8, <2>1
<1>11. QED BY <1>1, <1>4, <1>5, <1>7, <1>9, <1>10 DEF S, D, w, A, n

(* What is thinned, of all that is wanted, by its place. *)
LEMMA KeptIs ==
  ASSUME NEW r \in Results
  PROVE  LET A == {i \in DOMAIN r.samples : Wanted(r.samples, i)} IN
         Kept(r.samples) = {i \in A : Cardinality(Before(A, i)) < Ceiling}
<1> DEFINE A == {i \in DOMAIN r.samples : Wanted(r.samples, i)}
<1>1. \A i : Before(A, i) = {j \in DOMAIN r.samples : j < i /\ Wanted(r.samples, j)}
  BY DEF Before
<1>2. QED BY <1>1 DEF Kept

LEMMA ThinningHolds ==
  ASSUME NEW r \in Results
  PROVE  ThinnedFairly(r.samples)
<1> DEFINE S == Successes(r.samples)
           D == DOMAIN r.samples
           w == Stride(r.samples)
           A == {i \in D : Wanted(r.samples, i)}
           K == Kept(r.samples)
           n == Len(r.samples)
<1>1. /\ n \in Nat /\ IsFiniteSet(D) /\ Cardinality(D) = n /\ Ceiling \in Nat \ {0} /\ D \in SUBSET Nat
  BY SamplesAre, TiersAssumption
<1>2. /\ S \in SUBSET D /\ w \in Nat \ {0} /\ D \ S \subseteq A
      /\ \A i \in S : (i \in A) = (Cardinality(Before(S, i)) % w = 0)
      /\ Cardinality(D \ S) < Ceiling => Cardinality(A) =< Ceiling
      /\ n =< Ceiling => A = D
  BY StrideIs
<1>3. K = {i \in A : Cardinality(Before(A, i)) < Ceiling} /\ A \in SUBSET D
  BY KeptIs
<1> HIDE DEF S, D, w, A, K
<1>4. IsFiniteSet(A) /\ A \in SUBSET Nat /\ Cardinality(A) \in Nat /\ K \in SUBSET A /\ IsFiniteSet(K)
  BY <1>1, <1>3, Counting
<1>5. \A i \in A : Cardinality(Before(A, i)) \in Nat /\ Cardinality(Before(A, i)) < Cardinality(A)
  BY <1>4, PlacesAre
<1>6. Cardinality(K) =< Ceiling
  <2>1. CASE K = {}
    BY <1>1, <2>1, FS_EmptySet
  <2>2. CASE K # {}
    <3> DEFINE f == [i \in K |-> i]
    <3>1. PICK e \in K : \A i \in K : f[i] =< f[e]
      <4>1. \A i \in K : f[i] \in Int
        BY <1>4
      <4> HIDE DEF f
      <4>2. QED BY <1>4, <2>2, <4>1, Greatest
    <3>2. \A i \in K : i =< e /\ i \in Nat /\ e \in Nat
      BY <1>4, <3>1
    <3>3. K \ {e} \subseteq Before(A, e)
      BY <1>4, <3>2 DEF Before
    <3>4. Cardinality(K \ {e}) =< Cardinality(Before(A, e))
      <4>1. Before(A, e) \in SUBSET A /\ K \ {e} \in SUBSET A
        BY <1>4 DEF Before
      <4>2. QED BY <1>4, <3>3, <4>1, Counting
    <3>5. Cardinality(K \ {e}) = Cardinality(K) - 1 /\ Cardinality(K) \in Nat
      BY <1>4, FS_RemoveElement, FS_CardinalityType
    <3>6. Cardinality(Before(A, e)) < Ceiling /\ Cardinality(Before(A, e)) \in Nat
      BY <1>3, <1>5
    <3>7. QED BY <1>1, <3>4, <3>5, <3>6
  <2>3. QED BY <2>1, <2>2
<1>7. Cardinality(A) =< Ceiling => K = A
  <2>1. SUFFICES ASSUME Cardinality(A) =< Ceiling, NEW i \in A PROVE i \in K
    BY <1>4
  <2>2. Cardinality(Before(A, i)) < Ceiling
    BY <1>1, <1>4, <1>5, <2>1
  <2>3. QED BY <1>3, <2>2
<1>8. Cardinality(D \ S) < Ceiling => D \ S \subseteq K
  BY <1>2, <1>7
<1>9. n =< Ceiling => K = D
  <2>1. SUFFICES ASSUME n =< Ceiling PROVE K = D
    OBVIOUS
  <2>2. A = D
    BY <1>2, <2>1
  <2>3. Cardinality(A) =< Ceiling
    BY <1>1, <2>1, <2>2
  <2>4. QED BY <1>7, <2>2, <2>3
<1>10. ASSUME NEW i \in S \cap K, NEW j \in S \cap K, i < j
       PROVE  Cardinality({k \in S : i =< k /\ k < j}) % w = 0
  <2> DEFINE a == Cardinality(Before(S, i))
             c == Cardinality(Before(S, j))
             m == Cardinality({k \in S : i =< k /\ k < j})
  <2>1. S \in SUBSET Nat /\ IsFiniteSet(S)
    BY <1>1, <1>2, Counting
  <2>2. a \in Nat /\ c \in Nat /\ a < c /\ m = c - a
    BY <1>10, <2>1, PlacesAre
  <2>3. a % w = 0 /\ c % w = 0
    BY <1>2, <1>4, <1>10
  <2> HIDE DEF a, c, m
  <2>4. a =< c /\ w \in Nat \ {0}
    BY <1>2, <2>2
  <2>4a. (c - a) % w = 0
    BY <2>2, <2>3, <2>4, Multiples
  <2>5. m % w = 0
    BY <2>2, <2>4a
  <2>6. QED BY <2>5 DEF m
<1>11. BuildSamples(r.samples).kept = K /\ BuildSamples(r.samples).everyNth = w
  BY DEF BuildSamples, K, w
<1>12. QED
  <2>1. /\ Cardinality(BuildSamples(r.samples).kept) =< Ceiling
        /\ Cardinality(D \ S) < Ceiling => D \ S \subseteq BuildSamples(r.samples).kept
        /\ n =< Ceiling => BuildSamples(r.samples).kept = D
    BY <1>6, <1>8, <1>9, <1>11
  <2>2. \A i \in S \cap BuildSamples(r.samples).kept : \A j \in S \cap BuildSamples(r.samples).kept :
          i < j => Cardinality({k \in S : i =< k /\ k < j}) % BuildSamples(r.samples).everyNth = 0
    BY <1>10, <1>11
  <2>3. QED BY <2>1, <2>2 DEF ThinnedFairly, S, D

-------------------------------------------------------------------------------
(* The verdict. *)

(* A percentile is at its limit or beyond exactly when more samples are    *)
(* than its place leaves behind.                                           *)
LEMMA PercentileGate ==
  ASSUME NEW r \in Results, r.samples # <<>>, NEW limit \in Nat, NEW pct \in 0 .. 100
  PROVE  Percentile(r.samples, DOMAIN r.samples, pct) < limit
           <=> Slow(r.samples, limit) < AtOrAbove(pct, Len(r.samples))
<1> DEFINE D    == DOMAIN r.samples
           n    == Len(r.samples)
           P    == Percentile(r.samples, D, pct)
           F    == Below(r.samples, D, limit)
           L    == {i \in D : Latency(r.samples[i]) >= limit}
           rank == Rank(D, pct)
<1>1. /\ n \in Nat /\ D = 1 .. n /\ IsFiniteSet(D) /\ Cardinality(D) = n /\ D # {} /\ IsPart(r.samples, D)
      /\ \A i \in D : Latency(r.samples[i]) \in Nat
  BY SamplesAre
<1>2. AtPlace(r.samples, D, rank, P) /\ P \in Nat
  BY <1>1, PercentileIs
<1>3. n \in Nat \ {0}
  BY <1>1, FS_EmptySet
<1>4. rank \in Nat /\ rank = (pct * (n - 1)) \div 100
  <2>1. rank \in Nat
    BY <1>1, <1>3, RankIs
  <2>2. QED BY <1>1, <2>1 DEF Rank
<1>5. L = D \ F /\ F \in SUBSET D
  BY <1>1 DEF Below
<1>6. /\ Below(r.samples, D, P) \in SUBSET D /\ UpTo(r.samples, D, P) \in SUBSET D
      /\ Cardinality(Below(r.samples, D, P)) =< rank /\ rank < Cardinality(UpTo(r.samples, D, P))
  BY <1>2 DEF AtPlace, Below, UpTo
<1>7. Cardinality(F) \in Nat /\ Cardinality(L) = n - Cardinality(F)
  <2> HIDE DEF F, L, D, n
  <2>1. QED BY <1>1, <1>5, Counting
<1>8. ASSUME P < limit PROVE rank < Cardinality(F)
  <2>1. UpTo(r.samples, D, P) \subseteq F
    BY <1>1, <1>2, <1>8 DEF UpTo, Below
  <2> HIDE DEF F, D, P
  <2>2. Cardinality(UpTo(r.samples, D, P)) =< Cardinality(F) /\ Cardinality(UpTo(r.samples, D, P)) \in Nat
    BY <1>1, <1>5, <1>6, <2>1, Counting
  <2> HIDE DEF rank, L, n
  <2>3. QED BY <1>4, <1>6, <1>7, <2>2
<1>9. ASSUME limit =< P PROVE Cardinality(F) =< rank
  <2>1. F \subseteq Below(r.samples, D, P)
    BY <1>1, <1>2, <1>9 DEF Below
  <2> HIDE DEF F, D, P
  <2>2. Cardinality(F) =< Cardinality(Below(r.samples, D, P)) /\ Cardinality(Below(r.samples, D, P)) \in Nat
    BY <1>1, <1>5, <1>6, <2>1, Counting
  <2> HIDE DEF rank, L, n
  <2>3. QED BY <1>4, <1>6, <1>7, <2>2
<1> HIDE DEF F, L, D, n, P, rank
<1>10. (P < limit) = (Cardinality(L) < n - rank)
  <2>1. n \in Nat /\ P \in Nat /\ rank \in Nat /\ Cardinality(F) \in Nat /\ Cardinality(L) = n - Cardinality(F)
    BY <1>1, <1>2, <1>4, <1>7
  <2>2. (rank < Cardinality(F)) = (Cardinality(L) < n - rank)
    BY <2>1
  <2>3. CASE P < limit
    BY <1>8, <2>2, <2>3
  <2>4. CASE limit =< P
    BY <1>9, <2>1, <2>2, <2>4
  <2>5. QED BY <2>1, <2>3, <2>4
<1>11. Slow(r.samples, limit) = Cardinality(L)
  BY <1>1 DEF Slow, L, D
<1>12. AtOrAbove(pct, n) = n - rank
  BY <1>4 DEF AtOrAbove
<1>13. QED BY <1>10, <1>11, <1>12 DEF D, n, P

(* The share of what is counted can only have risen if some of the late    *)
(* flow-runs are counted.                                                  *)
LEMMA RiseNeeds ==
  ASSUME NEW counted, NEW early, IsFiniteSet(early), NEW late, IsFiniteSet(late),
         NEW x \in Nat, Rise(counted, early, late) > x
  PROVE  counted \cap late # {}
<1> SUFFICES ASSUME counted \cap late = {} PROVE FALSE
  OBVIOUS
<1> DEFINE a == Cardinality(early)
           b == Cardinality(late)
           c == Cardinality(counted \cap early)
<1>1. a \in Nat /\ b \in Nat /\ c \in Nat
  <2>1. IsFiniteSet(counted \cap early)
    BY FS_Subset
  <2>2. QED BY <2>1, FS_CardinalityType
<1>2. Cardinality(counted \cap late) = 0
  BY FS_EmptySet
<1>3. Rise(counted, early, late) = 100 * (0 * a - c * b)
  BY <1>2 DEF Rise
<1> HIDE DEF a, b, c
<1>4. c * b \in Nat /\ 0 * a = 0
  BY <1>1
<1>5. QED BY <1>3, <1>4

(* The flow-runs of a Result on either side of a moment. *)
LEMMA HalvesAre ==
  ASSUME NEW r \in Results, NEW at \in Nat
  PROVE  LET early == BeganBefore(r.samples, at)
             late  == BeganFrom(r.samples, at)
         IN /\ early \in SUBSET DOMAIN r.samples /\ late \in SUBSET DOMAIN r.samples
            /\ IsFiniteSet(early) /\ IsFiniteSet(late)
            /\ IsPart(r.samples, early) /\ IsPart(r.samples, late)
            /\ \A i \in early : \A j \in late : r.samples[i].at < r.samples[j].at
<1> DEFINE early == BeganBefore(r.samples, at)
           late  == BeganFrom(r.samples, at)
<1>1. early \in SUBSET DOMAIN r.samples /\ late \in SUBSET DOMAIN r.samples
  BY DEF BeganBefore, BeganFrom
<1>2. IsPart(r.samples, early) /\ IsPart(r.samples, late)
  BY <1>1, SamplesAre
<1>3. \A i \in early : \A j \in late : r.samples[i].at < r.samples[j].at
  <2>1. \A i \in DOMAIN r.samples : r.samples[i].at \in Nat
    BY SamplesAre
  <2>2. QED BY <2>1 DEF BeganBefore, BeganFrom
<1>4. QED BY <1>1, <1>2, <1>3 DEF IsPart

(* What a soak's trend is evidence of. *)
Worse(samples) ==
  \E early, late \in DOMAIN samples :
    /\ samples[early].at < samples[late].at
    /\ \/ Latency(samples[late]) > Latency(samples[early])
       \/ Notable(samples[late])

LEMMA TrendsHold ==
  ASSUME NEW r \in Results, NEW t \in Trends(r)
  PROVE  Worse(r.samples)
<1> DEFINE at    == r.duration \div 2
           early == BeganBefore(r.samples, at)
           late  == BeganFrom(r.samples, at)
           e95   == Percentile(r.samples, early, 95)
           l95   == Percentile(r.samples, late, 95)
<1>1. at \in Nat /\ CreepLimit \in Nat /\ DriftLimit \in Nat
  <2>1. r.duration \in Nat
    BY SamplesAre
  <2>2. QED BY <2>1, DivBounds, JudgeAssumption
<1>2. /\ t \in {"p95", "error_rate", "throttle_rate"} /\ early # {} /\ late # {}
      /\ t = "p95" => e95 > 0 /\ 100 * l95 > (100 + CreepLimit) * e95
      /\ t # "p95" => Rise(Counted(r.samples, t), early, late) > DriftLimit * Cardinality(early) * Cardinality(late)
  <2> HIDE DEF early, late, e95, l95
  <2>1. Trends(r) = {u \in {"p95", "error_rate", "throttle_rate"} :
          /\ early # {} /\ late # {}
          /\ IF u = "p95" THEN e95 > 0 /\ 100 * l95 > (100 + CreepLimit) * e95
             ELSE Rise(Counted(r.samples, u), early, late) > DriftLimit * Cardinality(early) * Cardinality(late)}
    BY DEF Trends, early, late, e95, l95
  <2>2. QED BY <2>1
<1> HIDE DEF at
<1>3. /\ early \in SUBSET DOMAIN r.samples /\ late \in SUBSET DOMAIN r.samples
      /\ IsFiniteSet(early) /\ IsFiniteSet(late)
      /\ IsPart(r.samples, early) /\ IsPart(r.samples, late)
      /\ \A i \in early : \A j \in late : r.samples[i].at < r.samples[j].at
  BY <1>1, HalvesAre
<1> HIDE DEF early, late
<1>4. CASE t = "p95"
  <2>1. AtPlace(r.samples, early, Rank(early, 95), e95) /\ e95 \in Nat
    <3>1. early # {} /\ IsPart(r.samples, early) /\ 95 \in 0 .. 100
      BY <1>2, <1>3
    <3>2. QED BY <3>1, PercentileIs
  <2>2. AtPlace(r.samples, late, Rank(late, 95), l95) /\ l95 \in Nat
    <3>1. late # {} /\ IsPart(r.samples, late) /\ 95 \in 0 .. 100
      BY <1>2, <1>3
    <3>2. QED BY <3>1, PercentileIs
  <2>3. l95 > e95
    <3> HIDE DEF e95, l95
    <3>1. 100 * l95 > 100 * e95
      <4>1. (100 + CreepLimit) * e95 = 100 * e95 + CreepLimit * e95 /\ CreepLimit * e95 \in Nat
        BY <1>1, <2>1
      <4>2. QED BY <1>2, <1>4, <2>1, <2>2, <4>1
    <3>2. QED BY <2>1, <2>2, <3>1
  <2>4. PICK i \in early : Latency(r.samples[i]) = e95
    BY <2>1 DEF AtPlace, Latencies
  <2>5. PICK j \in late : Latency(r.samples[j]) = l95
    BY <2>2 DEF AtPlace, Latencies
  <2>6. i \in DOMAIN r.samples /\ j \in DOMAIN r.samples /\ r.samples[i].at < r.samples[j].at
    BY <1>3
  <2>7. QED BY <2>3, <2>4, <2>5, <2>6 DEF Worse
<1>5. CASE t # "p95"
  <2> DEFINE counted == Counted(r.samples, t)
             x       == DriftLimit * Cardinality(early) * Cardinality(late)
  <2>1. x \in Nat
    <3>1. Cardinality(early) \in Nat /\ Cardinality(late) \in Nat
      BY <1>3, FS_CardinalityType
    <3>2. QED BY <1>1, <3>1
  <2>2. Rise(counted, early, late) > x
    BY <1>2, <1>5
  <2> HIDE DEF counted, x
  <2>3. PICK j \in late : j \in counted
    BY <1>3, <2>1, <2>2, RiseNeeds
  <2>4. Notable(r.samples[j])
    BY <2>3 DEF counted, Counted, Failed, Throttled, Notable
  <2>5. PICK i \in early : TRUE
    BY <1>2
  <2>6. i \in DOMAIN r.samples /\ j \in DOMAIN r.samples /\ r.samples[i].at < r.samples[j].at
    BY <1>3
  <2>7. QED BY <2>4, <2>6 DEF Worse
<1>6. QED BY <1>4, <1>5

(* A latency metric lies under x exactly when the flow-runs say so.        *)
LEMMA LatencyGate ==
  ASSUME NEW r \in Results, r.samples # <<>>, NEW x \in Nat,
         NEW g, g.agg \in {"p", "avg", "max", "min"}, g.agg = "p" => g.pct \in 0 .. 100
  PROVE  /\ LatencyAgg(r.samples, DOMAIN r.samples, g) \in Nat
         /\ LatencyAgg(r.samples, DOMAIN r.samples, g) < x <=> Under(g, r.samples, x)
<1> DEFINE D   == DOMAIN r.samples
           n   == Len(r.samples)
           A   == LatencyAgg(r.samples, D, g)
           L   == {i \in D : Latency(r.samples[i]) >= x}
           lat == [i \in D |-> Latency(r.samples[i])]
           all == Latencies(r.samples, D)
<1>1. /\ n \in Nat /\ D = 1 .. n /\ IsFiniteSet(D) /\ Cardinality(D) = n /\ D # {} /\ IsPart(r.samples, D)
      /\ \A i \in D : lat[i] = Latency(r.samples[i]) /\ lat[i] \in Nat
      /\ DOMAIN lat = D
  BY SamplesAre
<1>2. n \in Nat \ {0}
  BY <1>1, FS_EmptySet
<1>3. all = {lat[i] : i \in D}
  BY <1>1 DEF Latencies
<1>4. /\ L \in SUBSET D /\ Cardinality(L) \in Nat
      /\ \A i \in D : i \in L <=> lat[i] >= x
      /\ Cardinality(L) = 0 <=> L = {}
      /\ Cardinality(L) < n <=> L # D
  <2>1. L \in SUBSET D /\ \A i \in D : i \in L <=> lat[i] >= x
    BY <1>1
  <2> HIDE DEF L, D, n
  <2>2. /\ IsFiniteSet(L) /\ Cardinality(L) \in Nat
        /\ IsFiniteSet(D \ L) /\ Cardinality(D \ L) = n - Cardinality(L) /\ Cardinality(D \ L) \in Nat
    <3>1. IsFiniteSet(D) /\ L \in SUBSET D /\ D \ L \in SUBSET D /\ Cardinality(D) = n
      BY <1>1, <2>1
    <3>2. IsFiniteSet(L) /\ IsFiniteSet(D \ L)
      BY <3>1, FS_Subset
    <3>3. Cardinality(L) \in Nat /\ Cardinality(D \ L) \in Nat
      BY <3>2, FS_CardinalityType
    <3>4. Cardinality(D \ L) = Cardinality(D) - Cardinality(L)
      BY <3>1, Counting
    <3>5. QED BY <3>1, <3>2, <3>3, <3>4
  <2>3. (Cardinality(L) = 0 <=> L = {}) /\ (Cardinality(D \ L) = 0 <=> D \ L = {})
    BY <2>2, FS_EmptySet
  <2>4. D \ L = {} <=> L = D
    BY <2>1
  <2> DEFINE c == Cardinality(L)
             e == Cardinality(D \ L)
  <2>5. n \in Nat /\ c \in Nat /\ e \in Nat /\ e = n - c
    BY <1>1, <2>2
  <2>6. c < n <=> e # 0
    <3> HIDE DEF c, e
    <3>1. QED BY <2>5
  <2>7. Cardinality(L) < n <=> L # D
    BY <2>3, <2>4, <2>6
  <2>8. QED BY <2>1, <2>2, <2>3, <2>7
<1>5. CASE g.agg = "p"
  <2>1. A = Percentile(r.samples, D, g.pct)
    BY <1>1, <1>5 DEF LatencyAgg
  <2>2. Percentile(r.samples, D, g.pct) \in Nat
    BY <1>1, <1>5, PercentileIs
  <2> DEFINE pct == g.pct
  <2>3. pct \in 0 .. 100
    BY <1>5
  <2>4. Under(g, r.samples, x) <=> Slow(r.samples, x) < AtOrAbove(pct, n)
    BY <1>5 DEF Under
  <2> HIDE DEF A, L, pct
  <2>5. Percentile(r.samples, D, pct) < x <=> Slow(r.samples, x) < AtOrAbove(pct, n)
    BY <2>3, PercentileGate
  <2>6. Percentile(r.samples, D, pct) < x <=> Under(g, r.samples, x)
    <3> HIDE DEF D, n
    <3>1. QED BY <2>4, <2>5
  <2>7. A = Percentile(r.samples, D, pct)
    BY <2>1 DEF pct
  <2> HIDE DEF D, n
  <2>8. A \in Nat /\ (A < x <=> Under(g, r.samples, x))
    BY <2>2, <2>6, <2>7, <2>1
  <2>9. QED BY <2>8 DEF A, D
<1>6. CASE g.agg = "max"
  <2>1. A = CHOOSE m \in all : \A y \in all : y =< m
    BY <1>1, <1>6 DEF LatencyAgg
  <2>2. \E i \in D : \A j \in D : lat[j] =< lat[i]
    <3>1. IsFiniteSet(D) /\ D # {} /\ \A i \in D : lat[i] \in Int
      BY <1>1
    <3> HIDE DEF D, lat
    <3>2. QED BY <3>1, Greatest
  <2>3. \E m \in all : \A y \in all : y =< m
    <3> HIDE DEF D, lat, all
    <3>1. QED BY <1>3, <2>2
  <2>4. A \in all /\ \A y \in all : y =< A
    <3> HIDE DEF A, all
    <3>1. QED BY <2>1, <2>3
  <2>5. Under(g, r.samples, x) <=> Cardinality(L) = 0
    BY <1>6 DEF Under, Slow
  <2> HIDE DEF D, n, A, L, lat, all
  <2>6. A \in Nat /\ (\E i \in D : A = lat[i]) /\ \A i \in D : lat[i] =< A
    BY <1>1, <1>3, <2>4
  <2>7. A < x <=> L = {}
    BY <1>1, <1>4, <2>6
  <2>8. QED BY <1>4, <2>5, <2>6, <2>7 DEF A, D
<1>7. CASE g.agg = "min"
  <2>1. A = CHOOSE m \in all : \A y \in all : m =< y
    BY <1>1, <1>7 DEF LatencyAgg
  <2>2. \E i \in D : \A j \in D : lat[i] =< lat[j]
    <3>1. IsFiniteSet(D) /\ D # {} /\ \A i \in D : lat[i] \in Int
      BY <1>1
    <3> HIDE DEF D, lat
    <3>2. QED BY <3>1, Least
  <2>3. \E m \in all : \A y \in all : m =< y
    <3> HIDE DEF D, lat, all
    <3>1. QED BY <1>3, <2>2
  <2>4. A \in all /\ \A y \in all : A =< y
    <3> HIDE DEF A, all
    <3>1. QED BY <2>1, <2>3
  <2>5. Under(g, r.samples, x) <=> Cardinality(L) < n
    BY <1>7 DEF Under, Slow
  <2> HIDE DEF D, n, A, L, lat, all
  <2>6. A \in Nat /\ (\E i \in D : A = lat[i]) /\ \A i \in D : A =< lat[i]
    BY <1>1, <1>3, <2>4
  <2>7. L # D <=> \E i \in D : i \notin L
    BY <1>4
  <2>8. A < x <=> \E i \in D : i \notin L
    BY <1>1, <1>4, <2>6
  <2>9. QED BY <1>4, <2>5, <2>6, <2>7, <2>8 DEF A, D
<1>8. CASE g.agg = "avg"
  <2> DEFINE s == SumFunction(lat)
  <2>1. A = s \div n
    BY <1>1, <1>8 DEF LatencyAgg
  <2>2. s \in Nat
    <3>1. s = Sum(lat, D)
      BY <1>1, SumOfFunction
    <3> HIDE DEF D, lat, s
    <3>2. QED BY <1>1, <3>1, SumNat
  <2>3. Under(g, r.samples, x) <=> s < x * n
    BY <1>8 DEF Under
  <2> HIDE DEF D, n, A, L, lat, s
  <2>4. /\ s \div n \in Nat
        /\ (x =< s \div n) = (n * x =< s)
    BY <1>2, <2>2, DivBounds
  <2>5. n * x \in Nat /\ n * x = x * n
    BY <1>2
  <2>6. A < x <=> s < x * n
    BY <2>1, <2>2, <2>4, <2>5
  <2>7. QED BY <2>1, <2>3, <2>4, <2>6 DEF A, D
<1>9. QED BY <1>5, <1>6, <1>7, <1>8

(* The gates of one Result. *)
LEMMA GatesHold ==
  ASSUME NEW r \in Results, NEW declared \in Gates, NEW g \in declared
  PROVE  Holds(g, r.samples, DOMAIN r.samples) <=> Passes(g, r.samples)
<1> DEFINE n == Len(r.samples)
           D == DOMAIN r.samples
           v == Sides(g, r.samples, D)
<1>1. /\ n \in Nat /\ D = 1 .. n /\ IsFiniteSet(D) /\ Cardinality(D) = n /\ (r.samples = <<>>) = (D = {})
      /\ g.limit \in Nat /\ (g.agg = "p" => g.pct \in 0 .. 100)
      /\ g.op \in {"<", "<=", ">", ">="}
      /\ g.kind = "latency" => g.agg \in {"p", "avg", "max", "min"}
  BY SamplesAre, JudgeAssumption
<1>2. Holds(g, r.samples, D) <=> Compared(g.op, v[1], v[2])
  BY DEF Holds
<1>3. CASE r.samples = <<>>
  <2>1. D = {}
    BY <1>1, <1>3
  <2>2. v[1] = 0 /\ v[2] = g.limit
    <3>1. CASE g.kind = "latency"
      BY <2>1, <3>1 DEF Sides, LatencyAgg
    <3>2. CASE g.kind # "latency"
      <4>1. v = <<100 * Cardinality(Counted(r.samples, g.kind) \cap D), g.limit * 1>>
        BY <2>1, <3>2 DEF Sides
      <4>2. Counted(r.samples, g.kind) \cap D = {} /\ Cardinality({}) = 0
        BY <2>1, FS_EmptySet
      <4>3. 100 * Cardinality(Counted(r.samples, g.kind) \cap D) = 0
        BY <4>2
      <4>4. g.limit * 1 = g.limit
        BY <1>1
      <4> DEFINE a == 100 * Cardinality(Counted(r.samples, g.kind) \cap D)
                 b == g.limit * 1
      <4>5. v = <<a, b>>
        BY <4>1
      <4>6. a = 0 /\ b = g.limit
        BY <4>3, <4>4
      <4> HIDE DEF a, b, v
      <4>7. QED BY <4>5, <4>6
    <3>3. QED BY <3>1, <3>2
  <2>3. Passes(g, r.samples) <=> Compared(g.op, 0, g.limit)
    BY <1>3 DEF Passes
  <2> HIDE DEF D, v
  <2>4. QED BY <1>2, <2>2, <2>3 DEF D
<1>4. CASE r.samples # <<>> /\ g.kind # "latency"
  <2>1. D # {}
    BY <1>1, <1>4
  <2>2. Counted(r.samples, g.kind) \cap D = Counted(r.samples, g.kind)
    BY DEF Counted, Failed, Throttled
  <2>3. v[1] = 100 * Cardinality(Counted(r.samples, g.kind)) /\ v[2] = g.limit * n
    <3>1. v = <<100 * Cardinality(Counted(r.samples, g.kind) \cap D), g.limit * Cardinality(D)>>
      BY <1>4, <2>1 DEF Sides
    <3>2. v = <<100 * Cardinality(Counted(r.samples, g.kind)), g.limit * n>>
      BY <1>1, <2>2, <3>1
    <3> HIDE DEF v
    <3>3. QED BY <3>2
  <2>4. Passes(g, r.samples) <=> Compared(g.op, 100 * Cardinality(Counted(r.samples, g.kind)), g.limit * n)
    BY <1>4 DEF Passes
  <2> HIDE DEF D, v
  <2>5. QED BY <1>2, <2>3, <2>4 DEF D
<1>5. CASE r.samples # <<>> /\ g.kind = "latency"
  <2> DEFINE A == LatencyAgg(r.samples, D, g)
  <2>1. v[1] = A /\ v[2] = g.limit
    BY <1>5 DEF Sides
  <2>2. \A x \in Nat : A \in Nat /\ (A < x <=> Under(g, r.samples, x))
    <3>1. SUFFICES ASSUME NEW x \in Nat PROVE A \in Nat /\ (A < x <=> Under(g, r.samples, x))
      OBVIOUS
    <3>2. g.agg \in {"p", "avg", "max", "min"} /\ (g.agg = "p" => g.pct \in 0 .. 100)
      BY <1>1, <1>5
    <3>3. QED BY <1>5, <3>2, LatencyGate
  <2> DEFINE under == Under(g, r.samples, g.limit)
             upto  == Under(g, r.samples, g.limit + 1)
             passes == Passes(g, r.samples)
  <2>3. /\ g.op = "<"  => (passes <=> under)
        /\ g.op = "<=" => (passes <=> upto)
        /\ g.op = ">"  => (passes <=> ~ upto)
        /\ g.op = ">=" => (passes <=> ~ under)
    BY <1>5 DEF Passes
  <2>4. A \in Nat /\ (A < g.limit <=> under) /\ (A < g.limit + 1 <=> upto)
    BY <1>1, <2>2
  <2>5. /\ Compared("<", A, g.limit) <=> A < g.limit
        /\ Compared("<=", A, g.limit) <=> A < g.limit + 1
        /\ Compared(">", A, g.limit) <=> ~ (A < g.limit + 1)
        /\ Compared(">=", A, g.limit) <=> ~ (A < g.limit)
    <3> HIDE DEF A
    <3>1. QED BY <1>1, <2>4 DEF Compared
  <2> HIDE DEF A, D, v, under, upto, passes
  <2>6. Holds(g, r.samples, D) <=> Compared(g.op, A, g.limit)
    BY <1>2, <2>1
  <2>7. Compared(g.op, A, g.limit) <=> passes
    <3>1. CASE g.op = "<"
      BY <2>3, <2>4, <2>5, <3>1
    <3>2. CASE g.op = "<="
      BY <2>3, <2>4, <2>5, <3>2
    <3>3. CASE g.op = ">"
      BY <2>3, <2>4, <2>5, <3>3
    <3>4. CASE g.op = ">="
      BY <2>3, <2>4, <2>5, <3>4
    <3>5. QED BY <1>1, <3>1, <3>2, <3>3, <3>4
  <2>8. QED BY <2>6, <2>7 DEF D, passes
<1>6. QED BY <1>3, <1>4, <1>5

(* A knee lies in the run. *)
LEMMA OnsetIs ==
  ASSUME NEW r \in Results, NEW breached
  PROVE  Onset(r, breached) \in 0 .. EndOf(r)
<1> DEFINE width == BucketWidth(EndOf(r))
           broke == {i \in 0 .. Points(r) - 1 :
                       /\ Cardinality(Bucket(r, i)) >= MinBucketRuns
                       /\ \E g \in breached : ~ Holds(g, r.samples, Bucket(r, i))}
           E     == EndOf(r)
           first == CHOOSE i \in broke : \A j \in broke : i =< j
<1>1. E \in Nat /\ width \in Nat \ {0} /\ Points(r) \in Nat \ {0} /\ Points(r) = E \div width + 1
  BY EndIs, GridIs
<1>2. Onset(r, breached) = IF broke = {} THEN E \div 2 ELSE width * first
  BY DEF Onset
<1>3. broke \in SUBSET (0 .. Points(r) - 1)
  OBVIOUS
<1> HIDE DEF broke, width, E
<1>4. CASE broke = {}
  <2>1. E \div 2 \in 0 .. E
    BY <1>1, DivBounds
  <2>2. QED BY <1>2, <1>4, <2>1 DEF E
<1>5. CASE broke # {}
  <2>1. broke \in SUBSET Int /\ IsFiniteSet(broke)
    <3>1. Points(r) - 1 \in Int
      BY <1>1
    <3>2. IsFiniteSet(0 .. Points(r) - 1)
      BY <3>1, FS_Interval
    <3>3. IsFiniteSet(broke)
      BY <1>3, <3>2, FS_Subset
    <3>4. 0 .. Points(r) - 1 \subseteq Int
      OBVIOUS
    <3>5. QED BY <1>3, <3>3, <3>4
  <2>2. first \in broke
    BY <1>5, <2>1, LeastNumber
  <2> HIDE DEF first
  <2>3. first \in Nat /\ first =< E \div width /\ E \div width \in Nat
    BY <1>1, <1>3, <2>2, DivBounds
  <2>4. width * first \in Nat /\ width * first =< width * (E \div width)
    BY <1>1, <2>3, MulMono
  <2>5. width * (E \div width) =< E /\ width * (E \div width) \in Nat
    BY <1>1, DivBounds
  <2> HIDE DEF width
  <2>6. width * first \in 0 .. E
    BY <1>1, <2>4, <2>5
  <2>7. QED BY <1>2, <1>5, <2>6 DEF E
<1>6. QED BY <1>4, <1>5

(* A series that is split has two samples on either side. *)
LEMMA SplitIs ==
  ASSUME NEW agent \in AgentSeries, NEW at, Split(agent, at) # 0
  PROVE  Len(agent) >= 4
<1> DEFINE early == Cardinality(BeganBefore(agent, at))
           n     == Len(agent)
           split == IF early < 2 \/ n - early < 2 THEN n \div 2 ELSE early
<1>1. n \in Nat /\ DOMAIN agent = 1 .. n
  BY JudgeAssumption
<1>2. early \in Nat
  <2>1. BeganBefore(agent, at) \in SUBSET (1 .. n)
    BY <1>1 DEF BeganBefore
  <2>2. IsFiniteSet(1 .. n)
    BY <1>1, FS_Interval
  <2>3. IsFiniteSet(BeganBefore(agent, at))
    BY <2>1, <2>2, FS_Subset
  <2>4. QED BY <2>3, FS_CardinalityType
<1>3. Split(agent, at) = IF n < 3 \/ split < 2 \/ n - split < 2 THEN 0 ELSE split
  BY DEF Split
<1> HIDE DEF early, n
<1>4. split \in Nat
  BY <1>1, <1>2, DivBounds
<1> HIDE DEF split
<1>5. ~ (split < 2) /\ ~ (n - split < 2)
  BY <1>3
<1>6. QED BY <1>1, <1>4, <1>5 DEF n

LEMMA ClassIs ==
  ASSUME NEW tb \in BOOLEAN, NEW qb \in BOOLEAN, NEW rose \in BOOLEAN, NEW rising \in BOOLEAN
  PROVE  LET c == Class(tb, qb, rose, rising) IN
         /\ c \in {"throttled", "degraded", "inconclusive"}
         /\ c = "degraded" => qb /\ rising
         /\ c = "throttled" => tb /\ rose /\ ~ rising
BY DEF Class

(* What the class of a knee is evidence of, whatever broke and whatever    *)
(* the agent gave.                                                         *)
LEMMA KneeIs ==
  ASSUME NEW r \in Results, NEW breached, NEW agent \in AgentSeries
  PROVE  LET k == ClassifyKnee(r, breached, agent) IN
         /\ (k # NoKnee) = (breached # {} /\ r.samples # <<>>)
         /\ k.at \in 0 .. EndOf(r)
         /\ k.class \in {"degraded", "throttled"} =>
              /\ Len(agent) >= 4
              /\ BeganBefore(r.samples, k.at) # {} /\ BeganFrom(r.samples, k.at) # {}
              /\ (k.class = "degraded") = Rising(agent, k.at)
         /\ k.class = "degraded" => \E g \in breached : g.kind # "throttle_rate"
         /\ k.class = "throttled" =>
              /\ \E g \in breached : g.kind = "throttle_rate"
              /\ Throttled(r.samples) \cap BeganFrom(r.samples, k.at) # {}
<1> DEFINE k      == ClassifyKnee(r, breached, agent)
           onset  == Onset(r, breached)
           both(t) == BeganBefore(r.samples, t) # {} /\ BeganFrom(r.samples, t) # {}
           at     == IF both(onset) THEN onset ELSE r.duration \div 2
           pre    == BeganBefore(r.samples, at)
           post   == BeganFrom(r.samples, at)
           tb     == \E g \in breached : g.kind = "throttle_rate"
           qb     == \E g \in breached : g.kind # "throttle_rate"
           rose   == Rise(Throttled(r.samples), pre, post) > 0
           rising == Rising(agent, at)
           class  == IF ~ both(at) \/ Split(agent, at) = 0 THEN "inconclusive"
                     ELSE Class(tb, qb, rose, rising)
<1>1. EndOf(r) \in Nat /\ r.duration \in Nat /\ r.duration =< EndOf(r) /\ onset \in 0 .. EndOf(r)
  BY EndIs, SamplesAre, OnsetIs
<1>2. at \in 0 .. EndOf(r)
  <2> HIDE DEF onset
  <2>1. r.duration \div 2 \in 0 .. EndOf(r)
    <3>1. r.duration \div 2 \in Nat /\ 2 * (r.duration \div 2) =< r.duration
      BY <1>1, DivBounds
    <3>2. QED BY <1>1, <3>1
  <2>2. QED BY <1>1, <2>1
<1>3. CASE breached = {} \/ r.samples = <<>>
  <2>1. k = NoKnee
    BY <1>3 DEF ClassifyKnee
  <2>2. NoKnee.at = 0 /\ NoKnee.class = "none"
    BY DEF NoKnee
  <2> HIDE DEF k
  <2>3. QED BY <1>1, <1>3, <2>1, <2>2 DEF k
<1>4. CASE breached # {} /\ r.samples # <<>>
  <2>1. k = [at |-> at, vus |-> VUsAt(r.metrics, at), class |-> class]
    BY <1>4 DEF ClassifyKnee
  <2>2. k.at = at /\ k.class = class
    <3> HIDE DEF at, class, k
    <3>1. QED BY <2>1
  <2>3. tb \in BOOLEAN /\ qb \in BOOLEAN /\ rose \in BOOLEAN /\ rising \in BOOLEAN
    <3>1. rising \in BOOLEAN
      <4> HIDE DEF at
      <4>1. QED BY DEF Rising
    <3>2. QED BY <3>1
  <2>4. /\ IsFiniteSet(pre) /\ IsFiniteSet(post)
    <3> HIDE DEF at
    <3>1. at \in Nat
      BY <1>2
    <3>2. QED BY <3>1, HalvesAre
  <2>5. rose => Throttled(r.samples) \cap post # {}
    <3> HIDE DEF pre, post
    <3>1. 0 \in Nat
      OBVIOUS
    <3>2. QED BY <2>4, <3>1, RiseNeeds
  <2> HIDE DEF rose, rising, tb, qb, k, pre, post
  <2>6. class = "inconclusive" \/ (both(at) /\ Split(agent, at) # 0 /\ class = Class(tb, qb, rose, rising))
    <3> HIDE DEF at
    <3>1. QED
      OBVIOUS
  <2>7. /\ Class(tb, qb, rose, rising) \in {"throttled", "degraded", "inconclusive"}
        /\ Class(tb, qb, rose, rising) = "degraded" => qb /\ rising
        /\ Class(tb, qb, rose, rising) = "throttled" => tb /\ rose /\ ~ rising
    BY <2>3, ClassIs
  <2> HIDE DEF class
  <2>8. /\ class \in {"throttled", "degraded", "inconclusive"}
        /\ class = "degraded" => qb /\ rising
        /\ class = "throttled" => tb /\ rose /\ ~ rising
    BY <2>6, <2>7
  <2>9. class \in {"throttled", "degraded"} => both(at) /\ Split(agent, at) # 0
    <3> HIDE DEF at
    <3>1. QED BY <2>6
  <2>10. class \in {"throttled", "degraded"} => Len(agent) >= 4
    <3> HIDE DEF at, both
    <3>1. QED BY <2>9, SplitIs
  <2>11. (class \in {"throttled", "degraded"}) => ((class = "degraded") = rising)
    BY <2>3, <2>8
  <2>12. k # NoKnee
    BY <2>2, <2>8 DEF NoKnee
  <2> HIDE DEF at
  <2>13. class \in {"degraded", "throttled"} =>
              /\ Len(agent) >= 4
              /\ BeganBefore(r.samples, at) # {} /\ BeganFrom(r.samples, at) # {}
              /\ (class = "degraded") = Rising(agent, at)
    BY <2>9, <2>10, <2>11 DEF rising
  <2>14. /\ class = "degraded" => \E g \in breached : g.kind # "throttle_rate"
         /\ class = "throttled" =>
              /\ \E g \in breached : g.kind = "throttle_rate"
              /\ Throttled(r.samples) \cap BeganFrom(r.samples, at) # {}
    BY <2>5, <2>8 DEF tb, qb, post
  <2>15. (k # NoKnee) = (breached # {} /\ r.samples # <<>>)
    BY <1>4, <2>12
  <2> HIDE DEF onset, both
  <2>16. QED BY <1>2, <2>2, <2>13, <2>14, <2>15 DEF k
<1>5. QED BY <1>3, <1>4

(* What the three steps leave behind: everything is what the functions of  *)
(* the collector make of one Result and one set of gates.                  *)
JudgedOf ==
  /\ res \in Results
  /\ stage \in {"returned", "evaluated", "classified"}
  /\ stage # "returned" =>
       /\ gates \in Gates
       /\ broken = {g \in gates : ~ Holds(g, res.samples, DOMAIN res.samples)}
       /\ trends = IF mode = "soak" THEN Trends(res) ELSE {}
  /\ stage = "classified" =>
       /\ series \in AgentSeries
       /\ knee = IF mode = "stress" THEN ClassifyKnee(res, broken, series) ELSE NoKnee

LEMMA JudgedStep ==
  ASSUME JudgedOf, [VerdictNext]_verdictVars
  PROVE  JudgedOf'
<1>1. CASE Evaluate
  BY <1>1 DEF JudgedOf, Evaluate
<1>2. CASE Classify
  BY <1>2 DEF JudgedOf, Classify
<1>3. CASE UNCHANGED verdictVars
  BY <1>3 DEF JudgedOf, verdictVars
<1>4. QED BY <1>1, <1>2, <1>3 DEF VerdictNext

LEMMA JudgedImplies ==
  ASSUME JudgedOf
  PROVE  ResultJudged
<1> USE DEF JudgedOf
<1>1. TiersWhole
  BY SeriesHolds, ThinningHolds DEF TiersWhole
<1>2. VerdictTruthful
  <2> SUFFICES ASSUME stage # "returned" PROVE VerdictTruthful
    BY DEF VerdictTruthful
  <2>1. ASSUME NEW g \in gates
        PROVE  g \in broken <=> ~ Passes(g, res.samples)
    <3>1. g \in broken <=> ~ Holds(g, res.samples, DOMAIN res.samples)
      BY <2>1
    <3>2. Holds(g, res.samples, DOMAIN res.samples) <=> Passes(g, res.samples)
      BY <2>1, GatesHold
    <3>3. QED BY <3>1, <3>2
  <2>2. ASSUME NEW t \in trends
        PROVE  /\ mode = "soak"
               /\ \E early, late \in DOMAIN res.samples :
                    /\ res.samples[early].at < res.samples[late].at
                    /\ \/ Latency(res.samples[late]) > Latency(res.samples[early])
                       \/ Notable(res.samples[late])
    <3>1. mode = "soak" /\ t \in Trends(res)
      BY <2>2
    <3>2. Worse(res.samples)
      BY <3>1, TrendsHold
    <3>3. QED BY <3>1, <3>2 DEF Worse
  <2>3. QED BY <2>1, <2>2 DEF VerdictTruthful
<1>3. KneeHasEvidence
  <2> SUFFICES ASSUME stage = "classified" PROVE KneeHasEvidence
    BY DEF KneeHasEvidence
  <2>1. series \in AgentSeries /\ res \in Results
    OBVIOUS
  <2>2. CASE mode = "stress"
    <3>1. knee = ClassifyKnee(res, broken, series)
      BY <2>2
    <3> HIDE DEF JudgedOf
    <3>2. /\ (knee # NoKnee) = (broken # {} /\ res.samples # <<>>)
          /\ knee.at \in 0 .. EndOf(res)
          /\ knee.class \in {"degraded", "throttled"} =>
               /\ Len(series) >= 4
               /\ BeganBefore(res.samples, knee.at) # {} /\ BeganFrom(res.samples, knee.at) # {}
               /\ (knee.class = "degraded") = Rising(series, knee.at)
          /\ knee.class = "degraded" => \E g \in broken : g.kind # "throttle_rate"
          /\ knee.class = "throttled" =>
               /\ \E g \in broken : g.kind = "throttle_rate"
               /\ Throttled(res.samples) \cap BeganFrom(res.samples, knee.at) # {}
      BY <2>1, <3>1, KneeIs
    <3>3. QED BY <2>2, <3>2 DEF KneeHasEvidence
  <2>3. CASE mode # "stress"
    <3>1. knee = NoKnee
      BY <2>3
    <3>2. NoKnee.at = 0 /\ NoKnee.class = "none"
      BY DEF NoKnee
    <3>3. EndOf(res) \in Nat
      BY <2>1, EndIs
    <3> HIDE DEF JudgedOf
    <3>4. QED BY <2>3, <3>1, <3>2, <3>3 DEF KneeHasEvidence
  <2>4. QED BY <2>2, <2>3
<1>4. QED BY <1>1, <1>2, <1>3 DEF ResultJudged

(* The tiers, the verdict and the knee of a run agree with the Result they *)
(* are made of, whatever Results a pool returns, whatever a profile's      *)
(* gates and whatever the agent gives (executeLoad, EvaluateThresholds,    *)
(* EvaluateTrends, ClassifyKnee, BuildSeries, BuildSamples).               *)
THEOREM ResultsAreJudged == VerdictSpec => []ResultJudged
<1>1. VerdictInit => JudgedOf
  BY DEF VerdictInit, JudgedOf
<1>2. JudgedOf /\ [VerdictNext]_verdictVars => JudgedOf'
  BY JudgedStep
<1>3. JudgedOf => ResultJudged
  BY JudgedImplies
<1>4. QED BY <1>1, <1>2, <1>3, PTL DEF VerdictSpec

===============================================================================
