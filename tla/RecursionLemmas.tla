-------------------------- MODULE RecursionLemmas --------------------------
(***************************************************************************)
(* What a recursive function and a fold compute, whatever their step does. *)
(* A proof about a definition of the parser takes an instance of this      *)
(* module in which Step is one step of that definition.                    *)
(***************************************************************************)
EXTENDS Integers, Sequences, TLAPS

(* Step(c, x, y): in a recursive function, its value at y when x is the    *)
(* function; in a fold, the result after y when x is the one before. The   *)
(* first argument is whatever else the step depends on.                    *)
CONSTANT Step(_, _, _)

(* What all of it rests on: SumLemmas!LeastNumber says that this holds.  It *)
(* is a hypothesis here, and no library is loaded, because every instance   *)
(* brings whatever this module has into each obligation of a proof.         *)
LeastNumbers == \A S \in SUBSET Nat : S # {} => \E n \in S : \A m \in S : n <= m

\* A function on S that is what the step makes of it.
Solves(c, f, S) == f = [v \in S |-> Step(c, f, v)]

\* The step looks at nothing but values that are less deep.
Descends(c, S, depth) ==
    \A v \in S : \A f, g :
        (\A w \in S : depth[w] < depth[v] => f[w] = g[w]) => Step(c, f, v) = Step(c, g, v)

Shallow(S, depth, n) == {v \in S : depth[v] < n}

\* Two solutions agree where both are defined.
LEMMA SolutionsAgree ==
  ASSUME LeastNumbers, NEW c, NEW S, NEW depth, \A v \in S : depth[v] \in Nat,
         Descends(c, S, depth),
         NEW m \in Nat, NEW n \in Nat, NEW f, NEW g,
         Solves(c, f, Shallow(S, depth, m)), Solves(c, g, Shallow(S, depth, n)),
         NEW v \in S, depth[v] < m, depth[v] < n
  PROVE  f[v] = g[v]
<1> DEFINE bad == {d \in Nat : \E w \in S : /\ depth[w] = d /\ d < m /\ d < n
                                            /\ f[w] # g[w]}
<1>1. bad = {}
  <2>1. SUFFICES ASSUME bad # {} PROVE FALSE
    OBVIOUS
  <2>2. PICK d \in bad : \A e \in bad : d <= e
    <3>1. bad \in SUBSET Nat
      OBVIOUS
    <3> HIDE DEF bad
    <3>2. QED
      BY <2>1, <3>1 DEF LeastNumbers
  <2>3. PICK w \in S : depth[w] = d /\ d < m /\ d < n /\ f[w] # g[w]
    OBVIOUS
  <2>4. f[w] = Step(c, f, w) /\ g[w] = Step(c, g, w)
    BY <2>3 DEF Solves, Shallow
  <2>5. ASSUME NEW u \in S, depth[u] < depth[w] PROVE f[u] = g[u]
    <3>1. depth[u] \in Nat /\ depth[u] < m /\ depth[u] < n /\ ~(d <= depth[u])
      BY <2>3, <2>5
    <3>2. depth[u] \notin bad
      BY <2>2, <3>1
    <3>3. QED
      BY <3>1, <3>2
  <2>6. Step(c, f, w) = Step(c, g, w)
    BY <2>5 DEF Descends
  <2>7. QED
    BY <2>3, <2>4, <2>6
<1>2. QED
  BY <1>1

\* There is a solution, one depth after the other,
LEMMA ShallowSolution ==
  ASSUME LeastNumbers, NEW c, NEW S, NEW depth, \A v \in S : depth[v] \in Nat,
         Descends(c, S, depth), NEW n \in Nat
  PROVE  \E f : Solves(c, f, Shallow(S, depth, n))
<1> DEFINE bad == {k \in Nat : ~\E f : Solves(c, f, Shallow(S, depth, k))}
<1>1. bad = {}
  <2>1. SUFFICES ASSUME bad # {} PROVE FALSE
    OBVIOUS
  <2>2. PICK k \in bad : \A e \in bad : k <= e
    <3>1. bad \in SUBSET Nat
      OBVIOUS
    <3> HIDE DEF bad
    <3>2. QED
      BY <2>1, <3>1 DEF LeastNumbers
  <2>3. CASE k = 0
    <3>1. Shallow(S, depth, 0) = {}
      BY DEF Shallow
    <3>2. Solves(c, [v \in {} |-> 0], {})
      BY DEF Solves
    <3>3. QED
      BY <2>2, <2>3, <3>1, <3>2
  <2>4. CASE k # 0
    <3>1. k - 1 \in Nat /\ k - 1 \notin bad
      <4>1. k - 1 \in Nat /\ ~(k <= k - 1)
        BY <2>4
      <4>2. QED
        BY <2>2, <4>1
    <3>2. PICK f : Solves(c, f, Shallow(S, depth, k - 1))
      BY <3>1
    <3> DEFINE g == [v \in Shallow(S, depth, k) |-> Step(c, f, v)]
    <3>3. ASSUME NEW v \in Shallow(S, depth, k) PROVE g[v] = Step(c, g, v)
      <4>1. v \in S /\ depth[v] < k
        BY DEF Shallow
      <4>2. ASSUME NEW w \in S, depth[w] < depth[v] PROVE f[w] = g[w]
        <5>1. depth[w] < k - 1 /\ depth[w] < k
          BY <4>1, <4>2
        <5>2. f[w] = Step(c, f, w)
          BY <3>2, <5>1 DEF Solves, Shallow
        <5>3. QED
          BY <5>1, <5>2 DEF Shallow
      <4>3. Step(c, f, v) = Step(c, g, v)
        <5> HIDE DEF g
        <5>1. QED
          BY <4>1, <4>2 DEF Descends
      <4>4. g[v] = Step(c, f, v)
        OBVIOUS
      <4>5. QED
        BY <4>3, <4>4
    <3>4. Solves(c, g, Shallow(S, depth, k))
      <4>1. g = [v \in Shallow(S, depth, k) |-> g[v]]
        OBVIOUS
      <4> HIDE DEF g
      <4>2. QED
        BY <3>3, <4>1 DEF Solves
    <3>5. QED
      BY <2>2, <3>4
  <2>5. QED
    BY <2>3, <2>4
<1>2. QED
  BY <1>1

\* and so the recursive function that is chosen solves the equation.
LEMMA RecursionSolves ==
  ASSUME LeastNumbers, NEW c, NEW S, NEW depth, \A v \in S : depth[v] \in Nat,
         Descends(c, S, depth)
  PROVE  LET h == CHOOSE f : Solves(c, f, S) IN Solves(c, h, S)
<1> DEFINE part(n) == CHOOSE f : Solves(c, f, Shallow(S, depth, n))
           h == [v \in S |-> part(depth[v] + 1)[v]]
<1>1. ASSUME NEW n \in Nat PROVE Solves(c, part(n), Shallow(S, depth, n))
  BY ShallowSolution
<1>2. ASSUME NEW v \in S PROVE h[v] = Step(c, h, v)
  <2> DEFINE f == part(depth[v] + 1)
  <2>1. depth[v] \in Nat /\ depth[v] + 1 \in Nat /\ depth[v] < depth[v] + 1
    OBVIOUS
  <2>2. Solves(c, f, Shallow(S, depth, depth[v] + 1))
    BY <1>1, <2>1
  <2>3. h[v] = f[v]
    OBVIOUS
  <2>4. f[v] = Step(c, f, v)
    BY <2>1, <2>2 DEF Solves, Shallow
  <2>5. ASSUME NEW w \in S, depth[w] < depth[v] PROVE f[w] = h[w]
    <3>1. depth[w] \in Nat /\ depth[w] + 1 \in Nat /\ depth[w] < depth[w] + 1
          /\ depth[w] < depth[v] + 1
      BY <2>1, <2>5
    <3>2. Solves(c, part(depth[w] + 1), Shallow(S, depth, depth[w] + 1))
      BY <1>1, <3>1
    <3>3. h[w] = part(depth[w] + 1)[w]
      OBVIOUS
    <3> HIDE DEF part, h
    <3>4. f[w] = part(depth[w] + 1)[w]
      BY <2>1, <2>2, <3>1, <3>2, SolutionsAgree
    <3>5. QED
      BY <3>3, <3>4
  <2>6. Step(c, f, v) = Step(c, h, v)
    <3> HIDE DEF f, h
    <3>1. QED
      BY <2>5 DEF Descends
  <2>7. QED
    BY <2>3, <2>4, <2>6
<1>3. Solves(c, h, S)
  <2>1. h = [v \in S |-> h[v]]
    OBVIOUS
  <2> HIDE DEF h
  <2>2. QED
    BY <1>2, <2>1 DEF Solves
<1>4. QED
  BY <1>3

\* What a step keeps of what is less deep holds of all a recursive function finds.
LEMMA SolutionKeeps ==
  ASSUME LeastNumbers, NEW c, NEW S, NEW depth, \A v \in S : depth[v] \in Nat,
         NEW f, Solves(c, f, S), NEW T,
         \A v \in S : (\A w \in S : depth[w] < depth[v] => f[w] \in T)
                      => Step(c, f, v) \in T
  PROVE  \A v \in S : f[v] \in T
<1> DEFINE bad == {d \in Nat : \E w \in S : depth[w] = d /\ f[w] \notin T}
<1>1. bad = {}
  <2>1. SUFFICES ASSUME bad # {} PROVE FALSE
    OBVIOUS
  <2>2. PICK d \in bad : \A e \in bad : d <= e
    <3>1. bad \in SUBSET Nat
      OBVIOUS
    <3> HIDE DEF bad
    <3>2. QED
      BY <2>1, <3>1 DEF LeastNumbers
  <2>3. PICK w \in S : depth[w] = d /\ f[w] \notin T
    OBVIOUS
  <2>4. ASSUME NEW u \in S, depth[u] < depth[w] PROVE f[u] \in T
    <3>1. depth[u] \in Nat /\ ~(d <= depth[u])
      BY <2>3, <2>4
    <3>2. depth[u] \notin bad
      BY <2>2, <3>1
    <3>3. QED
      BY <3>1, <3>2
  <2>5. f[w] = Step(c, f, w)
    BY DEF Solves
  <2>6. QED
    BY <2>3, <2>4, <2>5
<1>2. QED
  BY <1>1
-----------------------------------------------------------------------------
(* Folds over sequences. *)

Greatest(T) == CHOOSE x \in T : \A y \in T : x >= y

\* The greatest of some positions is one of them.
LEMMA GreatestPosition ==
  ASSUME LeastNumbers, NEW n \in Nat, NEW T \in SUBSET (1..n), T # {}
  PROVE  Greatest(T) \in T /\ \A t \in T : t <= Greatest(T)
<1> DEFINE gaps == {n - t : t \in T}
<1>1. gaps \in SUBSET Nat /\ gaps # {}
  OBVIOUS
<1> HIDE DEF gaps
<1>2. PICK d \in gaps : \A e \in gaps : d <= e
  BY <1>1 DEF LeastNumbers
<1>3. PICK t \in T : d = n - t
  BY <1>2 DEF gaps
<1>4. ASSUME NEW u \in T PROVE t >= u
  <2>1. n - u \in gaps
    BY DEF gaps
  <2>2. QED
    BY <1>2, <1>3, <2>1
<1>5. Greatest(T) \in T /\ \A y \in T : Greatest(T) >= y
  BY <1>3, <1>4 DEF Greatest
<1>6. QED
  BY <1>5

LEMMA LastPosition ==
  ASSUME LeastNumbers, NEW k \in Nat, k # 0
  PROVE  Greatest(1..k) = k
<1>1. Greatest(1..k) \in 1..k /\ \A t \in 1..k : t <= Greatest(1..k)
  <2>1. (1..k) \in SUBSET (1..k) /\ (1..k) # {}
    OBVIOUS
  <2>2. QED
    BY <2>1, GreatestPosition
<1>2. QED
  BY <1>1

\* The equation of the library's fold over sets of positions.
IsFold(c, base, seq, g, D) ==
    g = [T \in D |-> IF T = {} THEN base
                     ELSE LET x == Greatest(T) IN Step(c, g[T \ {x}], seq[x])]

\* FoldLeft of the community modules.
Fold(c, base, seq) ==
    (CHOOSE g : IsFold(c, base, seq, g, SUBSET DOMAIN seq))[DOMAIN seq]

\* Some function satisfies the equation, for the positions up to one after the other.
LEMMA FoldExists ==
  ASSUME LeastNumbers, NEW c, NEW base, NEW seq, NEW n \in Nat
  PROVE  \E g : IsFold(c, base, seq, g, SUBSET (1..n))
<1> DEFINE bad == {k \in Nat : ~\E g : IsFold(c, base, seq, g, SUBSET (1..k))}
<1>1. bad = {}
  <2>1. SUFFICES ASSUME bad # {} PROVE FALSE
    OBVIOUS
  <2>2. PICK k \in bad : \A m \in bad : k <= m
    <3>1. bad \in SUBSET Nat
      OBVIOUS
    <3> HIDE DEF bad
    <3>2. QED
      BY <2>1, <3>1 DEF LeastNumbers
  <2>3. CASE k = 0
    <3>1. SUBSET (1..0) = {{}}
      OBVIOUS
    <3>2. IsFold(c, base, seq, [T \in {{}} |-> base], SUBSET (1..0))
      BY <3>1 DEF IsFold
    <3>3. QED
      BY <2>3, <3>2
  <2>4. CASE k # 0
    <3>1. k \in Nat /\ k - 1 \in Nat /\ ~(k <= k - 1)
      BY <2>4
    <3>2. PICK g : IsFold(c, base, seq, g, SUBSET (1..(k - 1)))
      BY <2>2, <3>1
    <3> DEFINE D == SUBSET (1..k)
               rest(T) == T \ {Greatest(T)}
               h == [T \in D |->
                       IF T = {} THEN base ELSE Step(c, g[rest(T)], seq[Greatest(T)])]
    <3>3. ASSUME NEW T \in D, T # {} PROVE g[rest(T)] = h[rest(T)]
      <4>1. Greatest(T) \in T /\ \A t \in T : t <= Greatest(T)
        BY <3>1, <3>3, GreatestPosition
      <4>2. rest(T) \in SUBSET (1..(k - 1))
        <5>1. ASSUME NEW t \in rest(T) PROVE t \in 1..(k - 1)
          <6>1. t \in 1..k /\ Greatest(T) \in 1..k /\ t # Greatest(T) /\ t <= Greatest(T)
            BY <4>1
          <6>2. QED
            BY <3>1, <6>1
        <5>2. QED
          BY <5>1
      <4>3. rest(T) \in D
        OBVIOUS
      <4>4. QED
        BY <3>2, <4>2, <4>3 DEF IsFold
    <3>4. ASSUME NEW T \in D
          PROVE  h[T] = IF T = {} THEN base
                        ELSE LET x == Greatest(T) IN Step(c, h[T \ {x}], seq[x])
      <4>1. h[T] = IF T = {} THEN base ELSE Step(c, g[rest(T)], seq[Greatest(T)])
        OBVIOUS
      <4> HIDE DEF h
      <4>2. QED
        BY <3>3, <4>1
    <3>5. IsFold(c, base, seq, h, D)
      <4>1. h = [T \in D |-> h[T]]
        OBVIOUS
      <4> HIDE DEF h
      <4>2. QED
        BY <3>4, <4>1 DEF IsFold
    <3>6. QED
      BY <2>2, <3>5
  <2>5. QED
    BY <2>3, <2>4
<1>2. QED
  BY <1>1

(* A fold goes through a run of results, from the base to its own result,  *)
(* one step for each element.                                              *)
IsRun(c, base, seq, n, run) ==
    /\ run[0] = base
    /\ \A i \in 1..n : run[i] = Step(c, run[i - 1], seq[i])

LEMMA FoldRuns ==
  ASSUME LeastNumbers, NEW c, NEW base, NEW seq, NEW n \in Nat, DOMAIN seq = 1..n
  PROVE  \E run : IsRun(c, base, seq, n, run) /\ Fold(c, base, seq) = run[n]
<1>1. Fold(c, base, seq) = (CHOOSE g : IsFold(c, base, seq, g, SUBSET (1..n)))[1..n]
  BY DEF Fold
<1>2. PICK g : /\ IsFold(c, base, seq, g, SUBSET (1..n))
               /\ Fold(c, base, seq) = g[1..n]
  BY <1>1, FoldExists
<1> DEFINE run == [i \in 0..n |-> g[1..i]]
<1>3. run[0] = base
  <2>1. 1..0 = {} /\ {} \in SUBSET (1..n)
    OBVIOUS
  <2>2. g[{}] = base
    BY <1>2, <2>1 DEF IsFold
  <2>3. QED
    BY <2>1, <2>2
<1>4. ASSUME NEW i \in 1..n PROVE run[i] = Step(c, run[i - 1], seq[i])
  <2>0. i \in Nat /\ i # 0 /\ 1 \in 1..i
    OBVIOUS
  <2>1. (1..i) \in SUBSET (1..n) /\ 1..i # {}
    <3>1. \A j \in 1..i : j \in 1..n
      BY <2>0
    <3>2. QED
      BY <2>0, <3>1
  <2>4. (1..i) \ {i} = 1..(i - 1)
    OBVIOUS
  <2>2. Greatest(1..i) = i
    BY <2>0, LastPosition
  <2>3. g[1..i] = Step(c, g[1..(i - 1)], seq[i])
    BY <1>2, <2>1, <2>2, <2>4 DEF IsFold
  <2>5. QED
    BY <2>3
<1>5. IsRun(c, base, seq, n, run) /\ run[n] = g[1..n]
  <2> HIDE DEF run
  <2>1. IsRun(c, base, seq, n, run)
    BY <1>3, <1>4 DEF IsRun
  <2>2. QED
    BY <2>1 DEF run
<1>6. QED
  BY <1>2, <1>5

\* What holds at the start and is kept by each step holds all along.
LEMMA HoldsAlong ==
  ASSUME LeastNumbers, NEW n \in Nat, NEW P \in SUBSET (0..n), 0 \in P,
         \A i \in 1..n : i - 1 \in P => i \in P
  PROVE  P = 0..n
<1> DEFINE bad == (0..n) \ P
<1>1. bad = {}
  <2>1. SUFFICES ASSUME bad # {} PROVE FALSE
    OBVIOUS
  <2>2. PICK k \in bad : \A m \in bad : k <= m
    <3>1. bad \in SUBSET Nat
      OBVIOUS
    <3> HIDE DEF bad
    <3>2. QED
      BY <2>1, <3>1 DEF LeastNumbers
  <2>3. k \in 1..n /\ k - 1 \in 0..n
    BY <2>2
  <2>4. k - 1 \in P
    BY <2>2, <2>3
  <2>5. QED
    BY <2>2, <2>3, <2>4
<1>2. QED
  BY <1>1

\* A fold is nothing but the last result of any of its runs.
LEMMA RunsAgree ==
  ASSUME LeastNumbers, NEW c, NEW base, NEW seq, NEW n \in Nat, NEW run, NEW other,
         IsRun(c, base, seq, n, run), IsRun(c, base, seq, n, other)
  PROVE  \A i \in 0..n : run[i] = other[i]
<1> DEFINE same == {i \in 0..n : run[i] = other[i]}
<1>1. same \in SUBSET (0..n) /\ 0 \in same
  BY DEF IsRun
<1>2. ASSUME NEW i \in 1..n, i - 1 \in same PROVE i \in same
  BY <1>2 DEF IsRun
<1> HIDE DEF same
<1>3. same = 0..n
  BY <1>1, <1>2, HoldsAlong
<1>4. QED
  BY <1>3 DEF same

\* What holds of the base and is kept by each step holds of the fold.
LEMMA FoldKeeps ==
  ASSUME LeastNumbers, NEW c, NEW base, NEW seq, NEW n \in Nat, DOMAIN seq = 1..n, NEW T,
         base \in T, \A x \in T : \A i \in 1..n : Step(c, x, seq[i]) \in T
  PROVE  Fold(c, base, seq) \in T
<1>1. PICK run : IsRun(c, base, seq, n, run) /\ Fold(c, base, seq) = run[n]
  BY FoldRuns
<1> DEFINE kept == {i \in 0..n : run[i] \in T}
<1>2. kept \in SUBSET (0..n) /\ 0 \in kept
  BY <1>1 DEF IsRun
<1>3. ASSUME NEW i \in 1..n, i - 1 \in kept PROVE i \in kept
  BY <1>1, <1>3 DEF IsRun
<1> HIDE DEF kept
<1>4. kept = 0..n
  BY <1>2, <1>3, HoldsAlong
<1>5. QED
  BY <1>1, <1>4 DEF kept

\* The fold over a sequence with an element appended takes one step more.
LEMMA FoldOfAppend ==
  ASSUME LeastNumbers, NEW c, NEW base, NEW X, NEW seq \in Seq(X), NEW x \in X
  PROVE  Fold(c, base, Append(seq, x)) = Step(c, Fold(c, base, seq), x)
<1> DEFINE n == Len(seq)
           more == Append(seq, x)
<1>1. n \in Nat /\ DOMAIN seq = 1..n /\ DOMAIN more = 1..(n + 1) /\ more[n + 1] = x
      /\ \A i \in 1..n : more[i] = seq[i]
  OBVIOUS
<1> HIDE DEF n, more
<1>2. PICK run : IsRun(c, base, seq, n, run) /\ Fold(c, base, seq) = run[n]
  BY <1>1, FoldRuns
<1>3. PICK long : IsRun(c, base, more, n + 1, long) /\ Fold(c, base, more) = long[n + 1]
  BY <1>1, FoldRuns
<1>4. IsRun(c, base, seq, n, long)
  BY <1>1, <1>3 DEF IsRun
<1>5. long[n] = run[n]
  BY <1>1, <1>2, <1>4, RunsAgree
<1>6. long[n + 1] = Step(c, long[n], x)
  BY <1>1, <1>3 DEF IsRun
<1>7. QED
  BY <1>2, <1>3, <1>5, <1>6 DEF more

\* Over nothing a fold is its base.
LEMMA FoldOfNone ==
  ASSUME LeastNumbers, NEW c, NEW base, NEW seq, DOMAIN seq = 1..0
  PROVE  Fold(c, base, seq) = base
<1>1. \E run : IsRun(c, base, seq, 0, run) /\ Fold(c, base, seq) = run[0]
  BY FoldRuns
<1>2. QED
  BY <1>1 DEF IsRun
=============================================================================
