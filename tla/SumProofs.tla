----------------------------- MODULE SumProofs -----------------------------
(***************************************************************************)
(* Sums of functions over finite sets, as SumFunction of the community     *)
(* modules defines them: what they are, and how they change.               *)
(***************************************************************************)
EXTENDS Integers, FiniteSets, Functions, FiniteSetTheorems, WellFoundedInduction, TLAPS

(* The sum of f over a finite set is the number of its units, pairs          *)
(* of an element and a number up to its value: both satisfy the recursion    *)
(* that defines the sum, and a smallest set where they differed would have   *)
(* an element without which they differed already.                           *)
Layer(f, x) == {x} \X (1..f[x])
Units(f, S) == UNION {Layer(f, x) : x \in S}

(* An element has as many units as its value says. *)
LEMMA LayerSize ==
  ASSUME NEW f, NEW x, f[x] \in Nat
  PROVE  IsFiniteSet(Layer(f, x)) /\ Cardinality(Layer(f, x)) = f[x]
<1>1. IsFiniteSet({x}) /\ Cardinality({x}) = 1
  BY FS_Singleton
<1>2. IsFiniteSet(1..f[x]) /\ Cardinality(1..f[x]) = f[x]
  BY FS_Interval, SMTT(30)
<1>3. /\ IsFiniteSet({x} \X (1..f[x]))
      /\ Cardinality({x} \X (1..f[x])) = Cardinality({x}) * Cardinality(1..f[x])
  BY <1>1, <1>2, FS_Product
<1>4. \A n \in Nat : 1 * n = n
  OBVIOUS
<1> QED  BY <1>1, <1>2, <1>3, <1>4 DEF Layer

(* Finitely many elements have finitely many units. *)
LEMMA UnitsFinite ==
  ASSUME NEW S, IsFiniteSet(S), NEW f, \A x \in S : f[x] \in Nat
  PROVE  IsFiniteSet(Units(f, S))
<1> DEFINE T == {Layer(f, x) : x \in S}
           g == [x \in S |-> Layer(f, x)]
<1>1. g \in Surjection(S, T)
  BY DEF Surjection
<1>2. IsFiniteSet(T)
  BY <1>1, FS_Surjection
<1>3. \A t \in T : IsFiniteSet(t)
  BY LayerSize
<1> HIDE DEF T
<1>4. IsFiniteSet(UNION T)
  BY <1>2, <1>3, FS_UNION
<1> QED  BY <1>4 DEF T, Units

(* The units of a set are those of one element and those of the others.     *)
LEMMA UnitsRemove ==
  ASSUME NEW S, IsFiniteSet(S), NEW f, \A x \in S : f[x] \in Nat, NEW y \in S
  PROVE  Cardinality(Units(f, S)) = f[y] + Cardinality(Units(f, S \ {y}))
<1>1. Units(f, S) = Layer(f, y) \cup Units(f, S \ {y})
  BY DEF Units
<1>2. Layer(f, y) \cap Units(f, S \ {y}) = {}
  BY DEF Units, Layer
<1>3. IsFiniteSet(S \ {y})
  BY FS_Subset
<1>4. IsFiniteSet(Units(f, S \ {y}))
  BY <1>3, UnitsFinite
<1>5. IsFiniteSet(Layer(f, y)) /\ Cardinality(Layer(f, y)) = f[y]
  BY LayerSize
<1>6. /\ Cardinality(Units(f, S \ {y})) \in Nat
      /\ Cardinality({}) = 0
  BY <1>4, FS_CardinalityType, FS_EmptySet
<1>7. Cardinality(Units(f, S)) = Cardinality(Layer(f, y)) + Cardinality(Units(f,
S \ {y})) - Cardinality({})
  <2> DEFINE A == Layer(f, y)
             B == Units(f, S \ {y})
  <2>1. IsFiniteSet(A) /\ IsFiniteSet(B) /\ A \cap B = {} /\ Units(f, S) = A \cup B
    BY <1>1, <1>2, <1>4, <1>5
  <2> HIDE DEF A, B
  <2>2. Cardinality(A \cup B) = Cardinality(A) + Cardinality(B) - Cardinality(A \cap B)
    BY <2>1, FS_Union
  <2>3. Cardinality(Units(f, S)) = Cardinality(A) + Cardinality(B) - Cardinality({})
    BY <2>1, <2>2
  <2> QED  BY <2>3 DEF A, B
<1>8. \A m, n \in Nat : m + n - 0 = m + n
  OBVIOUS
<1> QED  BY <1>5, <1>6, <1>7, <1>8

(* One step of the recursion. *)
Rest(f, iter, s) ==
  IF s = {} THEN 0 ELSE f[CHOOSE x \in s : TRUE] + iter[s \ {CHOOSE x \in s : TRUE}]

(* The sum is what the recursion over the subsets yields for the whole set.  *)
LEMMA Unfold ==
  ASSUME NEW f, NEW S
  PROVE  SumFunctionOnSet(f, S) = (CHOOSE iter : iter = [s \in SUBSET S |-> Rest(f, iter, s)])[S]
  BY DEF SumFunctionOnSet, FoldFunctionOnSet, MapThenFoldSet, Rest

(* The sum of a function is the number of its units. *)
LEMMA SumIsUnits ==
  ASSUME NEW S, IsFiniteSet(S), NEW f, \A x \in S : f[x] \in Nat
  PROVE  SumFunctionOnSet(f, S) = Cardinality(Units(f, S))
<1> DEFINE Solves(iter) == iter = [s \in SUBSET S |-> Rest(f, iter, s)]
           count == [s \in SUBSET S |-> Cardinality(Units(f, s))]
<1>1. ASSUME NEW s \in SUBSET S,
       s # {} PROVE count[s] = f[CHOOSE x \in s : TRUE] + count[s \ {CHOOSE x \in s : TRUE}]
  <2>1. (CHOOSE x \in s : TRUE) \in s
    BY <1>1
  <2>2. IsFiniteSet(s)
    BY FS_Subset
  <2>3. PICK y \in s : y = (CHOOSE x \in s : TRUE)
    BY <2>1
  <2>4. Cardinality(Units(f, s)) = f[y] + Cardinality(Units(f, s \ {y}))
    BY <2>2, UnitsRemove
  <2> QED  BY <2>3, <2>4
<1>2. count[{}] = 0
  BY FS_EmptySet DEF Units
<1>3. Solves(count)
  <2>1. \A s \in SUBSET S : count[s] = Rest(f, count, s)
    <3> HIDE DEF count
    <3> QED  BY <1>1, <1>2 DEF Rest
  <2> QED  BY <2>1
<1>4. PICK sum : Solves(sum) /\ SumFunctionOnSet(f, S) = sum[S]
  <2> HIDE DEF count
  <2> DEFINE sum == CHOOSE iter : Solves(iter)
  <2>1. Solves(sum)
    <3> HIDE DEF Solves
    <3> QED  BY <1>3
  <2>2. SumFunctionOnSet(f, S) = sum[S]
    BY Unfold
  <2> HIDE DEF sum
  <2> QED  BY <2>1, <2>2
<1>5. \A s \in SUBSET S : sum[s] = Rest(f, sum, s)
  BY <1>4
<1> DEFINE Wrong == {s \in SUBSET S : sum[s] # count[s]}
<1>6. ASSUME Wrong # {} PROVE FALSE
  <2>1. IsWellFoundedOn(StrictSubsetOrdering(S), SUBSET S)
    BY FS_StrictSubsetOrderingWellFounded, FS_FiniteSubsetsOfFinite
  <2>2. PICK s \in Wrong : \A r \in Wrong : <<r, s>> \notin StrictSubsetOrdering(S)
    <3> HIDE DEF Wrong
    <3>1. Wrong \subseteq SUBSET S
      BY DEF Wrong
    <3> QED  BY <1>6, <2>1, <3>1, WFMin
  <2> HIDE DEF count
  <2>3. s # {}
    BY <1>2, <1>5 DEF Rest
  <2>4. PICK y \in s : y = (CHOOSE x \in s : TRUE)
    BY <2>3
  <2>5. s \ {y} \notin Wrong
    <3>1. <<s \ {y}, s>> \in StrictSubsetOrdering(S)
      BY DEF StrictSubsetOrdering
    <3> QED  BY <2>2, <3>1
  <2>6. sum[s \ {y}] = count[s \ {y}]
    BY <2>5
  <2>7. sum[s] = f[y] + sum[s \ {y}]
    BY <1>5, <2>3, <2>4 DEF Rest
  <2>8. count[s] = f[y] + count[s \ {y}]
    BY <1>1, <2>3, <2>4
  <2> QED  BY <2>2, <2>6, <2>7, <2>8
<1> QED  BY <1>4, <1>6

(* The sum of a function over a finite domain is a natural number. *)
LEMMA SumType ==
  ASSUME NEW D, IsFiniteSet(D), NEW f \in [D -> Nat]
  PROVE  SumFunction(f) = Cardinality(Units(f, D)) /\ SumFunction(f) \in Nat
<1>1. SumFunctionOnSet(f, D) = Cardinality(Units(f, D))
  BY SumIsUnits
<1>2. IsFiniteSet(Units(f, D))
  BY UnitsFinite
<1> QED  BY <1>1, <1>2, FS_CardinalityType DEF SumFunction

(* Nothing adds up to nothing. *)
LEMMA SumOfZeros ==
  ASSUME NEW D, IsFiniteSet(D), NEW f \in [D -> Nat], \A x \in D : f[x] = 0
  PROVE  SumFunction(f) = 0
<1>1. Units(f, D) = {}
  BY DEF Units, Layer
<1> QED  BY <1>1, SumType, FS_EmptySet

(* Larger values have no smaller sum. *)
LEMMA SumGrows ==
  ASSUME NEW D, IsFiniteSet(D), NEW f \in [D -> Nat], NEW g \in [D -> Nat],
         \A x \in D : f[x] <= g[x]
  PROVE  SumFunction(f) <= SumFunction(g)
<1>1. Units(f, D) \subseteq Units(g, D)
  <2>1. \A x \in D : 1..f[x] \subseteq 1..g[x]
    OBVIOUS
  <2> QED  BY <2>1 DEF Units, Layer
<1>2. IsFiniteSet(Units(g, D))
  BY UnitsFinite
<1> QED  BY <1>1, <1>2, SumType, FS_Subset

(* What one entry changes by, the sum changes by. *)
LEMMA SumChange ==
  ASSUME NEW D, IsFiniteSet(D), NEW f \in [D -> Nat], NEW g \in [D -> Nat], NEW y \in D,
         \A x \in D \ {y} : g[x] = f[x]
  PROVE  SumFunction(g) = SumFunction(f) + g[y] - f[y]
<1>1. Units(f, D \ {y}) = Units(g, D \ {y})
  BY DEF Units, Layer
<1>2. /\ SumFunction(f) = f[y] + Cardinality(Units(f, D \ {y}))
      /\ SumFunction(g) = g[y] + Cardinality(Units(g, D \ {y}))
  BY SumType, UnitsRemove
<1>3. Cardinality(Units(f, D \ {y})) \in Nat
  BY UnitsFinite, FS_CardinalityType, FS_Subset
<1> QED  BY <1>1, <1>2, <1>3

=============================================================================
