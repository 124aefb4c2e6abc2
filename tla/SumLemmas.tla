----------------------------- MODULE SumLemmas -----------------------------
(***************************************************************************)
(* Sums over finite sets, as SumFunctionOnSet of the module Functions adds *)
(* them up.  The pages count and average rows and days with it, and the    *)
(* collector's bytes are such a sum.                                       *)
(*                                                                         *)
(* What needs induction gets it from a least counterexample: the least     *)
(* number of a set, the smallest of a collection of finite sets.           *)
(***************************************************************************)
EXTENDS Integers, FiniteSets, Functions, FiniteSetTheorems, WellFoundedInduction, TLAPS

\* Every set of numbers has a least one.
LEMMA LeastNumber ==
  ASSUME NEW S \in SUBSET Nat, S # {}
  PROVE  \E n \in S : \A m \in S : n <= m
<1> DEFINE R == {p \in Nat \X Nat : p[1] < p[2]}
<1>1. IsWellFoundedOn(R, Nat)
  BY NatLessThanWellFounded, Zenon DEF OpToRel
<1> HIDE DEF R
<1>2. PICK n \in S : \A m \in S : ~(<<m, n>> \in R)
  BY <1>1, WFMin
<1>3. ASSUME NEW m \in S PROVE n <= m
  <2>1. m \in Nat /\ n \in Nat
    OBVIOUS
  <2>2. <<m, n>> \notin R
    BY <1>2
  <2>3. ~(m < n)
    BY <2>1, <2>2 DEF R
  <2>4. QED
    BY <2>1, <2>3
<1>4. QED
  BY <1>3

\* Of finite sets one is smallest, and no set with an element less is among them.
LEMMA SmallestSet ==
  ASSUME NEW Bad, Bad # {}, \A S \in Bad : IsFiniteSet(S)
  PROVE  \E S \in Bad : /\ IsFiniteSet(S)
                        /\ \A x \in S : S \ {x} \notin Bad
                        /\ \A T \in Bad : Cardinality(S) <= Cardinality(T)
<1> DEFINE sizes == {Cardinality(S) : S \in Bad}
<1>1. sizes \in SUBSET Nat /\ sizes # {}
  BY FS_CardinalityType
<1> HIDE DEF sizes
<1>2. PICK n \in sizes : \A m \in sizes : n <= m
  BY <1>1, LeastNumber
<1>3. PICK S \in Bad : n = Cardinality(S)
  BY <1>2 DEF sizes
<1>4. \A T \in Bad : Cardinality(S) <= Cardinality(T)
  BY <1>2, <1>3 DEF sizes
<1>5. ASSUME NEW x \in S PROVE S \ {x} \notin Bad
  <2>1. Cardinality(S \ {x}) = Cardinality(S) - 1 /\ Cardinality(S) \in Nat
    BY FS_RemoveElement, FS_CardinalityType
  <2>2. QED
    BY <1>4, <2>1
<1>6. QED
  BY <1>3, <1>4, <1>5
-----------------------------------------------------------------------------
(* The equation of the fold: the sum over a set is the value at a chosen   *)
(* element and the sum over the others.                                    *)
IsSumsOver(g, f, D) ==
    g = [T \in D |-> IF T = {} THEN 0
                     ELSE LET x == CHOOSE y \in T : TRUE IN f[x] + g[T \ {x}]]

SmallSubsets(S, n) == {T \in SUBSET S : Cardinality(T) <= n}

\* Some function satisfies the equation, one size of sets after the other,
LEMMA SumsOverExist ==
  ASSUME NEW f, NEW S, IsFiniteSet(S)
  PROVE  \E g : IsSumsOver(g, f, SUBSET S)
<1> DEFINE Bad == {n \in Nat : ~\E g : IsSumsOver(g, f, SmallSubsets(S, n))}
<1>1. Bad = {}
  <2>1. SUFFICES ASSUME Bad # {} PROVE FALSE
    OBVIOUS
  <2>2. PICK n \in Bad : \A m \in Bad : n <= m
    <3>1. Bad \in SUBSET Nat
      OBVIOUS
    <3> HIDE DEF Bad
    <3>2. QED
      BY <2>1, <3>1, LeastNumber
  <2>3. \A T \in SUBSET S : IsFiniteSet(T) /\ Cardinality(T) \in Nat
    BY FS_Subset, FS_CardinalityType
  <2>4. CASE n = 0
    <3>1. SmallSubsets(S, 0) = {{}}
      <4>1. \A T \in SUBSET S : Cardinality(T) <= 0 <=> T = {}
        BY <2>3, FS_EmptySet
      <4>2. QED
        BY <4>1 DEF SmallSubsets
    <3>2. IsSumsOver([T \in {{}} |-> 0], f, SmallSubsets(S, 0))
      BY <3>1 DEF IsSumsOver
    <3>3. QED
      BY <2>4, <3>2
  <2>5. CASE n # 0
    <3>1. n - 1 \in Nat /\ ~(n <= n - 1)
      BY <2>5
    <3>2. PICK g : IsSumsOver(g, f, SmallSubsets(S, n - 1))
      BY <2>2, <3>1
    <3> DEFINE rest(T) == T \ {CHOOSE y \in T : TRUE}
               h == [T \in SmallSubsets(S, n) |->
                       IF T = {} THEN 0 ELSE f[CHOOSE y \in T : TRUE] + g[rest(T)]]
    <3>3. ASSUME NEW T \in SmallSubsets(S, n)
          PROVE  T # {} => g[rest(T)] = h[rest(T)]
      <4>1. SUFFICES ASSUME T # {} PROVE g[rest(T)] = h[rest(T)]
        OBVIOUS
      <4>2. (CHOOSE y \in T : TRUE) \in T
        BY <4>1
      <4>3. IsFiniteSet(T) /\ Cardinality(T) \in Nat /\ T \in SUBSET S /\ Cardinality(T) <= n
        BY <2>3 DEF SmallSubsets
      <4>4. Cardinality(rest(T)) = Cardinality(T) - 1
        BY <4>2, <4>3, FS_RemoveElement
      <4>5. rest(T) \in SmallSubsets(S, n - 1) /\ rest(T) \in SmallSubsets(S, n)
        BY <4>3, <4>4 DEF SmallSubsets
      <4>6. QED
        BY <3>2, <4>5 DEF IsSumsOver
    <3>4. IsSumsOver(h, f, SmallSubsets(S, n))
      <4>1. ASSUME NEW T \in SmallSubsets(S, n)
            PROVE  h[T] = IF T = {} THEN 0
                          ELSE LET x == CHOOSE y \in T : TRUE IN f[x] + h[T \ {x}]
        <5>1. h[T] = IF T = {} THEN 0 ELSE f[CHOOSE y \in T : TRUE] + g[rest(T)]
          OBVIOUS
        <5> HIDE DEF h
        <5>2. QED
          BY <3>3, <5>1
      <4> HIDE DEF h
      <4>2. h = [T \in SmallSubsets(S, n) |-> h[T]]
        BY DEF h
      <4>3. QED
        BY <4>1, <4>2 DEF IsSumsOver
    <3>5. QED
      BY <2>2, <3>4
  <2>6. QED
    BY <2>4, <2>5
<1>2. Cardinality(S) \in Nat /\ SmallSubsets(S, Cardinality(S)) = SUBSET S
  BY FS_Subset, FS_CardinalityType DEF SmallSubsets
<1>3. \E g : IsSumsOver(g, f, SmallSubsets(S, Cardinality(S)))
  BY <1>1, <1>2
<1>4. QED
  BY <1>2, <1>3

\* and what it gives for a set does not depend on the sets around it.
LEMMA SumsOverAgree ==
  ASSUME NEW f, NEW S, IsFiniteSet(S), NEW T \in SUBSET S, NEW g, NEW h,
         IsSumsOver(g, f, SUBSET S), IsSumsOver(h, f, SUBSET T)
  PROVE  g[T] = h[T]
<1> DEFINE Bad == {U \in SUBSET T : g[U] # h[U]}
<1>1. SUFFICES ASSUME Bad # {} PROVE FALSE
  OBVIOUS
<1>2. PICK U \in Bad : \A x \in U : U \ {x} \notin Bad
  <2>1. \A U \in Bad : IsFiniteSet(U)
    BY FS_Subset
  <2> HIDE DEF Bad
  <2>2. QED
    BY <1>1, <2>1, SmallestSet
<1>3. U \in SUBSET S /\ U \in SUBSET T /\ g[U] # h[U]
  OBVIOUS
<1>4. CASE U = {}
  BY <1>3, <1>4 DEF IsSumsOver
<1>5. CASE U # {}
  <2> DEFINE x == CHOOSE y \in U : TRUE
  <2>1. x \in U
    BY <1>5
  <2>2. g[U \ {x}] = h[U \ {x}]
    BY <1>2, <2>1
  <2>3. g[U] = f[x] + g[U \ {x}] /\ h[U] = f[x] + h[U \ {x}]
    BY <1>3, <1>5 DEF IsSumsOver
  <2>4. QED
    BY <1>3, <2>2, <2>3
<1>6. QED
  BY <1>4, <1>5

\* So the fold computes what the equation says.
LEMMA SumIsSum ==
  ASSUME NEW f, NEW S, IsFiniteSet(S)
  PROVE  \E g : IsSumsOver(g, f, SUBSET S) /\ SumFunctionOnSet(f, S) = g[S]
<1>1. SumFunctionOnSet(f, S) = (CHOOSE g : IsSumsOver(g, f, SUBSET S))[S]
  BY DEF SumFunctionOnSet, FoldFunctionOnSet, MapThenFoldSet, IsSumsOver
<1>2. \E g : IsSumsOver(g, f, SUBSET S)
  BY SumsOverExist
<1>3. QED
  BY <1>1, <1>2

\* The sum over no element is 0,
LEMMA SumOfNone == ASSUME NEW f PROVE SumFunctionOnSet(f, {}) = 0
<1>1. PICK g : IsSumsOver(g, f, SUBSET {}) /\ SumFunctionOnSet(f, {}) = g[{}]
  BY SumIsSum, FS_EmptySet
<1>2. QED
  BY <1>1 DEF IsSumsOver

\* and the chosen element may be taken out of any other.
LEMMA SumUnfolds ==
  ASSUME NEW f, NEW S, IsFiniteSet(S), S # {}
  PROVE  LET x == CHOOSE y \in S : TRUE
         IN  SumFunctionOnSet(f, S) = f[x] + SumFunctionOnSet(f, S \ {x})
<1> DEFINE x == CHOOSE y \in S : TRUE
           R == S \ {x}
<1>1. PICK g : IsSumsOver(g, f, SUBSET S) /\ SumFunctionOnSet(f, S) = g[S]
  BY SumIsSum
<1>2. g[S] = f[x] + g[R]
  BY <1>1 DEF IsSumsOver
<1>3. IsFiniteSet(R) /\ R \in SUBSET S
  BY FS_Subset
<1> HIDE DEF R
<1>4. PICK h : IsSumsOver(h, f, SUBSET R) /\ SumFunctionOnSet(f, R) = h[R]
  BY <1>3, SumIsSum
<1>5. g[R] = h[R]
  BY <1>1, <1>3, <1>4, SumsOverAgree
<1>6. SumFunctionOnSet(f, S) = f[x] + SumFunctionOnSet(f, R)
  BY <1>1, <1>2, <1>4, <1>5
<1>7. QED
  BY <1>6 DEF R

(* A sum of integers is an integer, *)
LEMMA SumIsInt ==
  ASSUME NEW f, NEW S, IsFiniteSet(S), \A x \in S : f[x] \in Int
  PROVE  SumFunctionOnSet(f, S) \in Int
<1> DEFINE Bad == {T \in SUBSET S : SumFunctionOnSet(f, T) \notin Int}
<1>1. SUFFICES ASSUME Bad # {} PROVE FALSE
  OBVIOUS
<1>2. PICK T \in Bad : \A x \in T : T \ {x} \notin Bad
  <2>1. \A T \in Bad : IsFiniteSet(T)
    BY FS_Subset
  <2> HIDE DEF Bad
  <2>2. QED
    BY <1>1, <2>1, SmallestSet
<1>3. T \in SUBSET S /\ IsFiniteSet(T) /\ SumFunctionOnSet(f, T) \notin Int
  BY FS_Subset
<1>4. T # {}
  BY <1>3, SumOfNone
<1> DEFINE x == CHOOSE y \in T : TRUE
<1>5. x \in T /\ f[x] \in Int
  BY <1>3, <1>4
<1>6. SumFunctionOnSet(f, T \ {x}) \in Int
  BY <1>2, <1>3, <1>5
<1>7. SumFunctionOnSet(f, T) = f[x] + SumFunctionOnSet(f, T \ {x})
  BY <1>3, <1>4, SumUnfolds
<1>8. QED
  BY <1>3, <1>5, <1>6, <1>7

(* any of its elements may be taken out of it, *)
LEMMA SumTakesOut ==
  ASSUME NEW f, NEW S, IsFiniteSet(S), \A x \in S : f[x] \in Int, NEW a \in S
  PROVE  SumFunctionOnSet(f, S) = f[a] + SumFunctionOnSet(f, S \ {a})
<1> DEFINE Splits(T, x) == SumFunctionOnSet(f, T) = f[x] + SumFunctionOnSet(f, T \ {x})
           Bad == {T \in SUBSET S : ~\A x \in T : Splits(T, x)}
<1>1. SUFFICES ASSUME Bad # {} PROVE FALSE
  OBVIOUS
<1>2. PICK T \in Bad : \A x \in T : T \ {x} \notin Bad
  <2>1. \A T \in Bad : IsFiniteSet(T)
    BY FS_Subset
  <2> HIDE DEF Bad
  <2>2. QED
    BY <1>1, <2>1, SmallestSet
<1>3. T \in SUBSET S /\ IsFiniteSet(T)
  BY FS_Subset
<1>4. PICK b \in T : ~Splits(T, b)
  OBVIOUS
<1> DEFINE c == CHOOSE y \in T : TRUE
<1>5. c \in T /\ f[c] \in Int /\ f[b] \in Int
  BY <1>3
<1>6. Splits(T, c)
  BY <1>3, <1>4, SumUnfolds
<1>7. c # b
  BY <1>4, <1>6
<1> HIDE DEF c
<1>8. T \ {c} \in SUBSET S /\ T \ {b} \in SUBSET S
  BY <1>3
<1>9. Splits(T \ {c}, b) /\ Splits(T \ {b}, c)
  BY <1>2, <1>5, <1>7, <1>8
<1> DEFINE both == (T \ {c}) \ {b}
<1>10. (T \ {b}) \ {c} = both
  OBVIOUS
<1>11. SumFunctionOnSet(f, both) \in Int
  <2>1. IsFiniteSet(both) /\ \A x \in both : f[x] \in Int
    BY <1>3, FS_Subset
  <2> HIDE DEF both
  <2>2. QED
    BY <2>1, SumIsInt
<1>12. QED
  <2>1. SumFunctionOnSet(f, T) = f[c] + (f[b] + SumFunctionOnSet(f, both))
    BY <1>6, <1>9
  <2>2. SumFunctionOnSet(f, T \ {b}) = f[c] + SumFunctionOnSet(f, both)
    BY <1>9, <1>10
  <2> HIDE DEF both
  <2>3. SumFunctionOnSet(f, T) = f[b] + SumFunctionOnSet(f, T \ {b})
    BY <1>5, <1>11, <2>1, <2>2
  <2>4. QED
    BY <1>4, <2>3
(* and what is not in it may be put in. *)
LEMMA SumPutsIn ==
  ASSUME NEW f, NEW S, IsFiniteSet(S), \A x \in S : f[x] \in Int,
         NEW a, a \notin S, f[a] \in Int
  PROVE  SumFunctionOnSet(f, S \cup {a}) = f[a] + SumFunctionOnSet(f, S)
<1> DEFINE T == S \cup {a}
<1>1. IsFiniteSet(T) /\ a \in T /\ T \ {a} = S /\ \A x \in T : f[x] \in Int
  BY FS_AddElement
<1> HIDE DEF T
<1>2. SumFunctionOnSet(f, T) = f[a] + SumFunctionOnSet(f, T \ {a})
  BY <1>1, SumTakesOut
<1>3. QED
  BY <1>1, <1>2 DEF T

(* A sum depends on what it adds up, *)
LEMMA SumAgrees ==
  ASSUME NEW f, NEW g, NEW S, IsFiniteSet(S),
         \A x \in S : f[x] \in Int /\ f[x] = g[x]
  PROVE  SumFunctionOnSet(f, S) = SumFunctionOnSet(g, S)
<1> DEFINE Bad == {T \in SUBSET S : SumFunctionOnSet(f, T) # SumFunctionOnSet(g, T)}
<1>1. SUFFICES ASSUME Bad # {} PROVE FALSE
  OBVIOUS
<1>2. PICK T \in Bad : \A x \in T : T \ {x} \notin Bad
  <2>1. \A T \in Bad : IsFiniteSet(T)
    BY FS_Subset
  <2> HIDE DEF Bad
  <2>2. QED
    BY <1>1, <2>1, SmallestSet
<1>3. T \in SUBSET S /\ IsFiniteSet(T)
  BY FS_Subset
<1>4. PICK a : a \in T
  BY SumOfNone
<1>5. \A x \in T : f[x] \in Int /\ g[x] \in Int
  BY <1>3
<1>6. /\ SumFunctionOnSet(f, T) = f[a] + SumFunctionOnSet(f, T \ {a})
      /\ SumFunctionOnSet(g, T) = g[a] + SumFunctionOnSet(g, T \ {a})
  BY <1>3, <1>4, <1>5, SumTakesOut
<1>7. SumFunctionOnSet(f, T \ {a}) = SumFunctionOnSet(g, T \ {a}) /\ f[a] = g[a]
  BY <1>2, <1>3, <1>4
<1>8. QED
  BY <1>6, <1>7

(* changes by as much as one of the values it adds up, *)
LEMMA SumChanges ==
  ASSUME NEW f, NEW g, NEW S, IsFiniteSet(S), NEW a \in S,
         \A x \in S : f[x] \in Int /\ g[x] \in Int,
         \A x \in S \ {a} : f[x] = g[x]
  PROVE  SumFunctionOnSet(g, S) = SumFunctionOnSet(f, S) - f[a] + g[a]
<1> DEFINE R == S \ {a}
<1>1. IsFiniteSet(R) /\ \A x \in R : f[x] \in Int /\ f[x] = g[x]
  BY FS_RemoveElement
<1>2. /\ SumFunctionOnSet(f, S) = f[a] + SumFunctionOnSet(f, R)
      /\ SumFunctionOnSet(g, S) = g[a] + SumFunctionOnSet(g, R)
  BY SumTakesOut
<1> HIDE DEF R
<1>3. SumFunctionOnSet(f, R) = SumFunctionOnSet(g, R) /\ SumFunctionOnSet(f, R) \in Int
  BY <1>1, SumAgrees, SumIsInt
<1>4. QED
  BY <1>2, <1>3

(* is natural when they are, *)
LEMMA SumIsNat ==
  ASSUME NEW f, NEW S, IsFiniteSet(S), \A x \in S : f[x] \in Nat
  PROVE  SumFunctionOnSet(f, S) \in Nat
<1> DEFINE Bad == {T \in SUBSET S : SumFunctionOnSet(f, T) \notin Nat}
<1>1. SUFFICES ASSUME Bad # {} PROVE FALSE
  OBVIOUS
<1>2. PICK T \in Bad : \A x \in T : T \ {x} \notin Bad
  <2>1. \A T \in Bad : IsFiniteSet(T)
    BY FS_Subset
  <2> HIDE DEF Bad
  <2>2. QED
    BY <1>1, <2>1, SmallestSet
<1>3. T \in SUBSET S /\ IsFiniteSet(T) /\ SumFunctionOnSet(f, T) \notin Nat
  BY FS_Subset
<1>4. PICK a : a \in T
  BY <1>3, SumOfNone
<1>5. \A x \in T : f[x] \in Int
  BY <1>3
<1>6. SumFunctionOnSet(f, T) = f[a] + SumFunctionOnSet(f, T \ {a})
  BY <1>3, <1>4, <1>5, SumTakesOut
<1>7. SumFunctionOnSet(f, T \ {a}) \in Nat /\ f[a] \in Nat
  BY <1>2, <1>3, <1>4
<1>8. QED
  BY <1>3, <1>6, <1>7

(* and that over two sets apart is the sum of both. *)
LEMMA SumOfBoth ==
  ASSUME NEW f, NEW A, NEW B, IsFiniteSet(A), IsFiniteSet(B), A \cap B = {},
         \A x \in A \cup B : f[x] \in Int
  PROVE  SumFunctionOnSet(f, A \cup B) = SumFunctionOnSet(f, A) + SumFunctionOnSet(f, B)
<1> DEFINE Bad == {T \in SUBSET B : SumFunctionOnSet(f, A \cup T)
                                     # SumFunctionOnSet(f, A) + SumFunctionOnSet(f, T)}
<1>0. SumFunctionOnSet(f, A) \in Int
  BY SumIsInt
<1>1. SUFFICES ASSUME Bad # {} PROVE FALSE
  OBVIOUS
<1>2. PICK T \in Bad : \A x \in T : T \ {x} \notin Bad
  <2>1. \A T \in Bad : IsFiniteSet(T)
    BY FS_Subset
  <2> HIDE DEF Bad
  <2>2. QED
    BY <1>1, <2>1, SmallestSet
<1>3. /\ T \in SUBSET B /\ IsFiniteSet(T)
      /\ SumFunctionOnSet(f, A \cup T) # SumFunctionOnSet(f, A) + SumFunctionOnSet(f, T)
  BY FS_Subset
<1>4. PICK a : a \in T
  <2>1. CASE T = {}
    <3>1. A \cup T = A /\ SumFunctionOnSet(f, T) = 0
      BY <2>1, SumOfNone
    <3>2. QED
      BY <1>0, <1>3, <3>1
  <2>2. QED
    BY <2>1
<1> DEFINE R == T \ {a}
           U == A \cup T
<1>5. IsFiniteSet(U) /\ IsFiniteSet(R) /\ U \ {a} = A \cup R /\ a \in U
  <2>1. IsFiniteSet(U) /\ IsFiniteSet(R)
    BY <1>3, FS_Union, FS_RemoveElement
  <2>2. a \in B /\ a \notin A
    BY <1>3, <1>4
  <2>3. QED
    BY <1>4, <2>1, <2>2
<1>6. (\A x \in U : f[x] \in Int) /\ (\A x \in T : f[x] \in Int) /\ \A x \in R : f[x] \in Int
  BY <1>3
<1>7. SumFunctionOnSet(f, A \cup R) = SumFunctionOnSet(f, A) + SumFunctionOnSet(f, R)
  BY <1>2, <1>3, <1>4
<1>8. SumFunctionOnSet(f, T) = f[a] + SumFunctionOnSet(f, R)
  BY <1>3, <1>4, <1>6, SumTakesOut
<1> HIDE DEF U
<1>9. SumFunctionOnSet(f, U) = f[a] + SumFunctionOnSet(f, A \cup R)
  BY <1>5, <1>6, SumTakesOut
<1> HIDE DEF R
<1>10. SumFunctionOnSet(f, R) \in Int /\ f[a] \in Int
  BY <1>4, <1>5, <1>6, SumIsInt
<1>11. SumFunctionOnSet(f, U) = SumFunctionOnSet(f, A) + SumFunctionOnSet(f, T)
  BY <1>0, <1>7, <1>8, <1>9, <1>10
<1>12. QED
  BY <1>3, <1>11 DEF U
-----------------------------------------------------------------------------
(* Adding up class by class adds up everything. *)
LEMMA SumByClass ==
  ASSUME NEW f, NEW p, NEW S, NEW D, IsFiniteSet(S), IsFiniteSet(D),
         \A x \in S : f[x] \in Int /\ p[x] \in D
  PROVE  SumFunctionOnSet(f, S)
           = SumFunctionOnSet([d \in D |-> SumFunctionOnSet(f, {x \in S : p[x] = d})], D)
<1> DEFINE In(E) == {x \in S : p[x] \in E}
           Of(d) == {x \in S : p[x] = d}
           g == [d \in D |-> SumFunctionOnSet(f, Of(d))]
           Bad == {E \in SUBSET D : SumFunctionOnSet(f, In(E)) # SumFunctionOnSet(g, E)}
<1>0. \A T \in SUBSET S : IsFiniteSet(T) /\ (\A x \in T : f[x] \in Int)
                          /\ SumFunctionOnSet(f, T) \in Int
  <2>1. ASSUME NEW T \in SUBSET S
        PROVE  IsFiniteSet(T) /\ \A x \in T : f[x] \in Int
    BY FS_Subset
  <2>2. ASSUME NEW T \in SUBSET S PROVE SumFunctionOnSet(f, T) \in Int
    BY <2>1, SumIsInt
  <2>3. QED
    BY <2>1, <2>2
<1>1. Bad = {}
  <2>1. SUFFICES ASSUME Bad # {} PROVE FALSE
    OBVIOUS
  <2>2. PICK E \in Bad : \A d \in E : E \ {d} \notin Bad
    <3>1. \A E \in Bad : IsFiniteSet(E)
      BY FS_Subset
    <3> HIDE DEF Bad
    <3>2. QED
      BY <2>1, <3>1, SmallestSet
  <2>3. /\ E \in SUBSET D /\ IsFiniteSet(E)
        /\ SumFunctionOnSet(f, In(E)) # SumFunctionOnSet(g, E)
    BY FS_Subset
  <2>4. PICK d : d \in E
    <3>1. E = {} => In(E) = {}
      OBVIOUS
    <3> HIDE DEF In, g
    <3>2. QED
      BY <2>3, <3>1, SumOfNone
  <2>5. SumFunctionOnSet(f, In(E \ {d})) = SumFunctionOnSet(g, E \ {d})
    BY <2>2, <2>3, <2>4
  <2>6. In(E) = In(E \ {d}) \cup Of(d) /\ In(E \ {d}) \cap Of(d) = {}
    BY <2>4
  <2>7. In(E \ {d}) \in SUBSET S /\ Of(d) \in SUBSET S
    OBVIOUS
  <2>8. g[d] = SumFunctionOnSet(f, Of(d))
    BY <2>3, <2>4
  <2>9. \A e \in E : g[e] \in Int
    <3>1. \A e \in E : g[e] = SumFunctionOnSet(f, Of(e)) /\ Of(e) \in SUBSET S
      BY <2>3
    <3> HIDE DEF g, Of
    <3>2. QED
      BY <1>0, <3>1
  <2> HIDE DEF g, In, Of
  <2>10. SumFunctionOnSet(f, In(E)) = SumFunctionOnSet(f, In(E \ {d})) + g[d]
    <3> DEFINE A == In(E \ {d})
               B == Of(d)
    <3>1. /\ IsFiniteSet(A) /\ IsFiniteSet(B) /\ A \cap B = {}
          /\ \A x \in A \cup B : f[x] \in Int
      BY <1>0, <2>6, <2>7
    <3> HIDE DEF A, B
    <3>2. SumFunctionOnSet(f, A \cup B) = SumFunctionOnSet(f, A) + SumFunctionOnSet(f, B)
      BY <3>1, SumOfBoth
    <3>3. QED
      BY <2>6, <2>8, <3>2 DEF A, B
  <2>11. SumFunctionOnSet(g, E) = g[d] + SumFunctionOnSet(g, E \ {d})
    BY <2>3, <2>4, <2>9, SumTakesOut
  <2>12. SumFunctionOnSet(f, In(E \ {d})) \in Int /\ g[d] \in Int
    BY <1>0, <2>4, <2>7, <2>9
  <2>13. QED
    BY <2>3, <2>5, <2>10, <2>11, <2>12
<1>2. In(D) = S /\ D \in SUBSET D
  OBVIOUS
<1>3. SumFunctionOnSet(f, In(D)) = SumFunctionOnSet(g, D)
  BY <1>1, <1>2
<1>4. QED
  BY <1>2, <1>3

\* Counting is adding ones.
LEMMA CardinalityIsSum ==
  ASSUME NEW f, NEW S, IsFiniteSet(S), \A x \in S : f[x] = 1
  PROVE  SumFunctionOnSet(f, S) = Cardinality(S)
<1> DEFINE Bad == {T \in SUBSET S : SumFunctionOnSet(f, T) # Cardinality(T)}
<1>1. SUFFICES ASSUME Bad # {} PROVE FALSE
  OBVIOUS
<1>2. PICK T \in Bad : \A x \in T : T \ {x} \notin Bad
  <2>1. \A T \in Bad : IsFiniteSet(T)
    BY FS_Subset
  <2> HIDE DEF Bad
  <2>2. QED
    BY <1>1, <2>1, SmallestSet
<1>3. T \in SUBSET S /\ IsFiniteSet(T) /\ SumFunctionOnSet(f, T) # Cardinality(T)
  BY FS_Subset
<1>4. PICK a : a \in T
  BY <1>3, SumOfNone, FS_EmptySet
<1>5. \A x \in T : f[x] \in Int
  BY <1>3
<1>6. SumFunctionOnSet(f, T) = f[a] + SumFunctionOnSet(f, T \ {a}) /\ f[a] = 1
  BY <1>3, <1>4, <1>5, SumTakesOut
<1>7. SumFunctionOnSet(f, T \ {a}) = Cardinality(T \ {a})
  BY <1>2, <1>3, <1>4
<1>8. Cardinality(T \ {a}) = Cardinality(T) - 1 /\ Cardinality(T) \in Nat
  BY <1>3, <1>4, FS_RemoveElement, FS_CardinalityType
<1>9. QED
  BY <1>3, <1>6, <1>7, <1>8

(* Counting class by class counts everything. *)
LEMMA CountByClass ==
  ASSUME NEW p, NEW S, NEW D, IsFiniteSet(S), IsFiniteSet(D), \A x \in S : p[x] \in D
  PROVE  Cardinality(S)
           = SumFunctionOnSet([d \in D |-> Cardinality({x \in S : p[x] = d})], D)
<1> DEFINE one == [x \in S |-> 1]
           Of(d) == {x \in S : p[x] = d}
           sums == [d \in D |-> SumFunctionOnSet(one, Of(d))]
           counts == [d \in D |-> Cardinality(Of(d))]
<1>1. \A x \in S : one[x] = 1 /\ one[x] \in Int
  OBVIOUS
<1> HIDE DEF one
<1>2. ASSUME NEW d \in D
      PROVE  SumFunctionOnSet(one, Of(d)) = Cardinality(Of(d)) /\ Cardinality(Of(d)) \in Nat
  <2>1. IsFiniteSet(Of(d)) /\ \A x \in Of(d) : one[x] = 1
    BY <1>1, FS_Subset
  <2> HIDE DEF Of
  <2>2. QED
    BY <2>1, CardinalityIsSum, FS_CardinalityType
<1>3. SumFunctionOnSet(one, S) = SumFunctionOnSet(sums, D)
  BY <1>1, SumByClass
<1>4. \A d \in D : sums[d] \in Int /\ sums[d] = counts[d]
  BY <1>2
<1> HIDE DEF sums, counts
<1>5. SumFunctionOnSet(sums, D) = SumFunctionOnSet(counts, D)
  BY <1>4, SumAgrees
<1>6. SumFunctionOnSet(one, S) = Cardinality(S)
  BY <1>1, CardinalityIsSum
<1>7. QED
  BY <1>3, <1>5, <1>6 DEF counts
-----------------------------------------------------------------------------
\* The values of a function on a finite set are finitely many,
LEMMA ImageIsFinite ==
  ASSUME NEW f, NEW S, IsFiniteSet(S)
  PROVE  /\ IsFiniteSet({f[x] : x \in S})
         /\ (\A x, y \in S : f[x] = f[y] => x = y) =>
              Cardinality({f[x] : x \in S}) = Cardinality(S)
<1> DEFINE T == {f[x] : x \in S}
           g == [x \in S |-> f[x]]
<1>1. g \in [S -> T] /\ \A t \in T : \E x \in S : g[x] = t
  OBVIOUS
<1>2. g \in Surjection(S, T)
  BY <1>1, Zenon DEF Surjection
<1>3. (\A x, y \in S : f[x] = f[y] => x = y) => g \in Injection(S, T)
  <2>1. SUFFICES ASSUME \A x, y \in S : f[x] = f[y] => x = y PROVE IsInjective(g)
    BY <1>1 DEF Injection
  <2>2. QED
    BY <2>1 DEF IsInjective
<1> HIDE DEF g, T
<1>4. IsFiniteSet(T) /\ (Cardinality(T) = Cardinality(S) <=> g \in Injection(S, T))
  BY <1>2, FS_Surjection
<1>5. QED
  BY <1>3, <1>4 DEF T

\* and adding up over the values of an injection is adding up over its domain.
LEMMA SumOfImage ==
  ASSUME NEW f, NEW p, NEW S, IsFiniteSet(S), \A x, y \in S : p[x] = p[y] => x = y,
         \A x \in S : f[p[x]] \in Int
  PROVE  SumFunctionOnSet(f, {p[x] : x \in S}) = SumFunctionOnSet([x \in S |-> f[p[x]]], S)
<1> DEFINE g == [x \in S |-> f[p[x]]]
           im(T) == {p[x] : x \in T}
           Bad == {T \in SUBSET S : SumFunctionOnSet(f, im(T)) # SumFunctionOnSet(g, T)}
<1>1. SUFFICES ASSUME Bad # {} PROVE FALSE
  OBVIOUS
<1>2. PICK T \in Bad : \A x \in T : T \ {x} \notin Bad
  <2>1. \A T \in Bad : IsFiniteSet(T)
    BY FS_Subset
  <2> HIDE DEF Bad
  <2>2. QED
    BY <1>1, <2>1, SmallestSet
<1>3. T \in SUBSET S /\ IsFiniteSet(T) /\ SumFunctionOnSet(f, im(T)) # SumFunctionOnSet(g, T)
  BY FS_Subset
<1>4. PICK a : a \in T
  <2>1. T = {} => im(T) = {}
    OBVIOUS
  <2> HIDE DEF im, g
  <2>2. QED
    BY <1>3, <2>1, SumOfNone
<1>5. SumFunctionOnSet(f, im(T \ {a})) = SumFunctionOnSet(g, T \ {a})
  BY <1>2, <1>3, <1>4
<1>6. im(T) \ {p[a]} = im(T \ {a}) /\ p[a] \in im(T)
  BY <1>3, <1>4
<1>7. (\A x \in T : g[x] \in Int) /\ (\A y \in im(T) : f[y] \in Int) /\ g[a] = f[p[a]]
  BY <1>3, <1>4
<1>8. IsFiniteSet(im(T))
  BY <1>3, ImageIsFinite
<1> HIDE DEF g, im, Bad
<1>9. SumFunctionOnSet(g, T) = g[a] + SumFunctionOnSet(g, T \ {a})
  BY <1>3, <1>4, <1>7, SumTakesOut
<1>10. SumFunctionOnSet(f, im(T)) = f[p[a]] + SumFunctionOnSet(f, im(T) \ {p[a]})
  BY <1>6, <1>7, <1>8, SumTakesOut
<1>11. QED
  BY <1>3, <1>5, <1>6, <1>7, <1>9, <1>10
-----------------------------------------------------------------------------
\* A quotient is the number of times that the divisor fits.
LEMMA Quotient ==
  ASSUME NEW a \in Int, NEW b \in Int, b >= 1
  PROVE  /\ a \div b \in Int
         /\ b * (a \div b) <= a /\ a < b * (a \div b) + b
<1>1. a \div b \in Int
  OBVIOUS
<1>2. b * (a \div b) <= a /\ a < b * (a \div b) + b
  OBVIOUS
<1>3. QED
  BY <1>1, <1>2
=============================================================================
