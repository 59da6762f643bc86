--------------------------- MODULE DataInduction ---------------------------
(***************************************************************************)
(* Induction and recursion over the natural numbers and finite sets, and   *)
(* the sums of finitely many integers, stated with sets and functions: T   *)
(* is the set of the numbers or sets for which something holds, step the   *)
(* function that a recursive definition iterates.  Then what SCCGraph says *)
(* of reachability and Lasso of the paths of words, for every graph.       *)
(***************************************************************************)
EXTENDS Integers, FiniteSets, Functions, WellFoundedInduction, FiniteSetTheorems, SequenceTheorems,
        SCCGraph, Lasso, TLAPS

\* A set of natural numbers has a least element.
LEMMA LeastNat ==
  ASSUME NEW T, T \subseteq Nat, T # {}
  PROVE  \E n \in T : \A m \in T : n <= m
<1> DEFINE R == OpToRel(<, Nat)
<1>1. IsWellFoundedOn(R, Nat)
  BY NatLessThanWellFounded
<1>2. \A x, y \in Nat : <<x, y>> \in R <=> x < y
  BY DEF OpToRel
<1> HIDE DEF R
<1>3. PICK x \in T : \A y \in T : ~(<<y, x>> \in R)
  BY <1>1, WFMin
<1>4. x \in Nat
  OBVIOUS
<1>5. \A y \in T : ~(y < x)
  BY <1>2, <1>3, <1>4
<1> QED
  BY <1>4, <1>5

\* What holds for zero and, with a number, for the next one holds for all.
LEMMA SetInduction ==
  ASSUME NEW T, 0 \in T, \A n \in Nat : n \in T => n + 1 \in T
  PROVE  Nat \subseteq T
<1> SUFFICES ASSUME Nat \ T # {}
             PROVE  FALSE
  OBVIOUS
<1>1. PICK n \in Nat \ T : \A m \in Nat \ T : n <= m
  BY LeastNat
<1>2. n # 0 /\ n - 1 \in Nat
  OBVIOUS
<1>3. n - 1 \in T
  BY <1>1, <1>2
<1> QED
  BY <1>2, <1>3

\* The same for the numbers up to N.
LEMMA BoundedInduction ==
  ASSUME NEW N \in Nat, NEW T, 0 \in T,
         \A n \in 0..(N - 1) : n \in T => n + 1 \in T
  PROVE  0..N \subseteq T
<1> DEFINE U == {n \in Nat : n <= N => n \in T}
<1>1. 0 \in U
  OBVIOUS
<1>2. \A n \in Nat : n \in U => n + 1 \in U
  OBVIOUS
<1> HIDE DEF U
<1>3. Nat \subseteq U
  BY <1>1, <1>2, SetInduction
<1> QED
  BY <1>3 DEF U

\* h starts with base and goes on by step; its values are in S.
Iterates(h, N, S, base, step) ==
  h \in [0..N -> S] /\ h[0] = base /\ \A k \in 1..N : h[k] = step[<<k, h[k - 1]>>]

\* A function on 0..N may be defined from its first value by a step.
LEMMA Recursion ==
  ASSUME NEW N, NEW S, NEW base, NEW step,
         N \in Nat, base \in S, step \in [(1..N) \X S -> S]
  PROVE  \E h : Iterates(h, N, S, base, step)
<1> DEFINE Up(n) == {h \in [0..n -> S] : h[0] = base /\ \A k \in 1..n : h[k] = step[<<k, h[k - 1]>>]}
           T == {n \in 0..N : Up(n) # {}}
<1>1. 0 \in T
  <2>1. [k \in 0..0 |-> base] \in Up(0)
    OBVIOUS
  <2> QED
    BY <2>1
<1>2. ASSUME NEW n \in 0..(N - 1), n \in T
      PROVE  n + 1 \in T
  <2>1. PICK h \in [0..n -> S] : h[0] = base /\ \A k \in 1..n : h[k] = step[<<k, h[k - 1]>>]
    BY <1>2
  <2> DEFINE g == [k \in 0..(n + 1) |-> IF k <= n THEN h[k] ELSE step[<<n + 1, h[n]>>]]
  <2>2. step[<<n + 1, h[n]>>] \in S
    BY <2>1
  <2>3. g \in [0..(n + 1) -> S] /\ g[0] = base
    BY <2>1, <2>2
  <2>4. ASSUME NEW k \in 1..(n + 1)
        PROVE  g[k] = step[<<k, g[k - 1]>>]
    <3>1. CASE k <= n
      BY <2>1, <3>1
    <3>2. CASE k = n + 1
      BY <2>1, <3>2
    <3> QED
      BY <3>1, <3>2
  <2>5. g \in Up(n + 1)
    BY <2>3, <2>4
  <2> QED
    BY <2>5, n + 1 \in 0..N
<1> HIDE DEF T
<1>3. 0..N \subseteq T
  BY <1>1, <1>2, BoundedInduction
<1>4. N \in T
  BY <1>3
<1> QED
  BY <1>4 DEF T, Iterates
\* Two functions that start and go on in the same way agree as far as both go.
LEMMA IteratesAgree ==
  ASSUME NEW S, NEW base, NEW step, NEW m \in Nat, NEW n \in Nat, m <= n, NEW g, NEW h,
         Iterates(g, m, S, base, step), Iterates(h, n, S, base, step)
  PROVE  \A k \in 0..m : g[k] = h[k]
<1> DEFINE T == {k \in 0..m : g[k] = h[k]}
<1>1. 0 \in T
  BY DEF Iterates
<1>2. ASSUME NEW k \in 0..(m - 1), k \in T
      PROVE  k + 1 \in T
  <2>1. k + 1 \in 1..m /\ k + 1 \in 1..n /\ (k + 1) - 1 = k
    OBVIOUS
  <2>2. g[k + 1] = step[<<k + 1, g[k]>>]
    <3>1. \A i \in 1..m : g[i] = step[<<i, g[i - 1]>>]
      BY DEF Iterates
    <3> QED
      BY <2>1, <3>1
  <2>3. h[k + 1] = step[<<k + 1, h[k]>>]
    <3>1. \A i \in 1..n : h[i] = step[<<i, h[i - 1]>>]
      BY DEF Iterates
    <3> QED
      BY <2>1, <3>1
  <2> QED
    BY <1>2, <2>1, <2>2, <2>3
<1> HIDE DEF T
<1>3. 0..m \subseteq T
  BY <1>1, <1>2, BoundedInduction
<1> QED
  BY <1>3 DEF T

\* The same without a bound.
IteratesForever(h, S, base, step) ==
  h \in [Nat -> S] /\ h[0] = base /\ \A k \in Nat : h[k + 1] = step[<<k + 1, h[k]>>]

\* A recursion over the naturals has a solution.
LEMMA RecursionForever ==
  ASSUME NEW S, NEW base, NEW step, base \in S, step \in [Nat \X S -> S]
  PROVE  \E h : IteratesForever(h, S, base, step)
<1> DEFINE pick == [n \in Nat |-> CHOOSE h : Iterates(h, n, S, base, step)]
           f == [n \in Nat |-> pick[n][n]]
<1>1. ASSUME NEW n \in Nat
      PROVE  Iterates(pick[n], n, S, base, step)
  <2> DEFINE part == [x \in (1..n) \X S |-> step[x]]
  <2>1. part \in [(1..n) \X S -> S]
    OBVIOUS
  <2>2. \A k \in 1..n, x \in S : part[<<k, x>>] = step[<<k, x>>]
    OBVIOUS
  <2> HIDE DEF part
  <2>3. PICK h : Iterates(h, n, S, base, part)
    BY <2>1, Recursion
  <2>4. Iterates(h, n, S, base, step)
    BY <2>2, <2>3 DEF Iterates
  <2> QED
    BY <2>4
<1> HIDE DEF pick
<1>2. \A n \in Nat : f[n] \in S
  BY <1>1 DEF Iterates
<1>3. f[0] = base
  BY <1>1 DEF Iterates
<1>4. ASSUME NEW k \in Nat
      PROVE  f[k + 1] = step[<<k + 1, f[k]>>]
  <2>1. pick[k][k] = pick[k + 1][k]
    <3>1. Iterates(pick[k], k, S, base, step) /\ Iterates(pick[k + 1], k + 1, S, base, step)
      BY <1>1
    <3>2. k \in 0..k /\ k + 1 \in Nat /\ k <= k + 1
      OBVIOUS
    <3> DEFINE g == pick[k]
               h == pick[k + 1]
               n == k + 1
    <3> HIDE DEF g, h, n
    <3>3. Iterates(g, k, S, base, step) /\ Iterates(h, n, S, base, step) /\ n \in Nat /\ k <= n
      BY <3>1, <3>2 DEF g, h, n
    <3>4. \A i \in 0..k : g[i] = h[i]
      BY <3>3, IteratesAgree
    <3> QED
      BY <3>2, <3>4 DEF g, h
  <2>2. pick[k + 1][k + 1] = step[<<k + 1, pick[k + 1][k]>>]
    <3>1. k + 1 \in 1..(k + 1) /\ (k + 1) - 1 = k /\ k + 1 \in Nat
      OBVIOUS
    <3> QED
      BY <1>1, <3>1 DEF Iterates
  <2> QED
    BY <2>1, <2>2
<1>5. IteratesForever(f, S, base, step)
  BY <1>2, <1>3, <1>4 DEF IteratesForever
<1> QED
  BY <1>5


-----------------------------------------------------------------------------
(***************************************************************************)
(* Finite sets, and the sum of a function over one                         *)
(***************************************************************************)

\* What holds for a set when it holds for the set without any of its elements
\* holds for all finite sets.
LEMMA FiniteDescent ==
  ASSUME NEW S, IsFiniteSet(S), NEW T,
         \A U \in SUBSET S : (\A x \in U : U \ {x} \in T) => U \in T
  PROVE  S \in T
<1> DEFINE N == {n \in Nat : \A U \in SUBSET S : Cardinality(U) = n => U \in T}
<1>1. \A U \in SUBSET S : IsFiniteSet(U) /\ Cardinality(U) \in Nat
  BY FS_Subset, FS_CardinalityType
<1>2. 0 \in N
  <2>1. {} \in T
    OBVIOUS
  <2> QED
    BY <1>1, <2>1, FS_EmptySet
<1>3. ASSUME NEW n \in Nat, n \in N
      PROVE  n + 1 \in N
  <2> SUFFICES ASSUME NEW U \in SUBSET S, Cardinality(U) = n + 1
               PROVE  U \in T
    OBVIOUS
  <2>1. ASSUME NEW x \in U
        PROVE  U \ {x} \in T
    <3>1. Cardinality(U \ {x}) = n
      BY <1>1, FS_RemoveElement
    <3> QED
      BY <1>3, <3>1
  <2> QED
    BY <2>1
<1> HIDE DEF N
<1>4. Nat \subseteq N
  BY <1>2, <1>3, SetInduction
<1>5. S \in SUBSET S /\ Cardinality(S) \in Nat
  BY <1>1
<1> QED
  BY <1>4, <1>5 DEF N

\* How FoldFunctionOnSet adds up the values of f on the subsets of S.
Chosen(s) == CHOOSE x \in s : TRUE
Adds(g, f, S) ==
  g = [s \in SUBSET S |-> IF s = {} THEN 0 ELSE f[Chosen(s)] + g[s \ {Chosen(s)}]]

\* What such a function has for a set.
LEMMA AddsValues ==
  ASSUME NEW g, NEW f, NEW S, Adds(g, f, S), NEW U \in SUBSET S
  PROVE  /\ U = {} => g[U] = 0
         /\ U # {} => Chosen(U) \in U /\ g[U] = f[Chosen(U)] + g[U \ {Chosen(U)}]
<1> DEFINE h == [s \in SUBSET S |-> IF s = {} THEN 0 ELSE f[Chosen(s)] + g[s \ {Chosen(s)}]]
<1>1. g = h
  BY DEF Adds
<1>2. h[U] = IF U = {} THEN 0 ELSE f[Chosen(U)] + g[U \ {Chosen(U)}]
  OBVIOUS
<1> HIDE DEF h
<1>3. U # {} => Chosen(U) \in U
  BY DEF Chosen
<1> QED
  BY <1>1, <1>2, <1>3

\* There is such a function.
LEMMA AddsExists ==
  ASSUME NEW f, NEW S, IsFiniteSet(S), \A x \in S : f[x] \in Int
  PROVE  \E g : Adds(g, f, S)
<1> DEFINE V == [SUBSET S -> Int]
           base == [s \in SUBSET S |-> 0]
           next(g) == [s \in SUBSET S |-> IF s = {} THEN 0 ELSE f[Chosen(s)] + g[s \ {Chosen(s)}]]
           step == [x \in Nat \X V |-> next(x[2])]
<1>0. \A s \in SUBSET S : s # {} => Chosen(s) \in s /\ s \ {Chosen(s)} \in SUBSET S
  BY DEF Chosen
<1>1. \A g \in V : next(g) \in V
  BY <1>0
<1>2. base \in V
  OBVIOUS
<1>3. step \in [Nat \X V -> V]
  BY <1>1
<1>4. \A n \in Nat, g \in V : step[<<n, g>>] = next(g)
  OBVIOUS
<1> HIDE DEF step, base, V
<1>5. PICK h : IteratesForever(h, V, base, step)
  BY <1>2, <1>3, RecursionForever
<1>6. h \in [Nat -> V] /\ h[0] = base /\ \A n \in Nat : h[n + 1] = next(h[n])
  <2>1. h \in [Nat -> V] /\ h[0] = base /\ \A n \in Nat : h[n + 1] = step[<<n + 1, h[n]>>]
    BY <1>5 DEF IteratesForever
  <2>2. ASSUME NEW n \in Nat
        PROVE h[n + 1] = next(h[n])
    <3>1. n + 1 \in Nat /\ h[n] \in V
      BY <2>1
    <3> QED
      BY <1>4, <2>1, <3>1
  <2> QED
    BY <2>1, <2>2
<1> DEFINE g == [s \in SUBSET S |-> h[Cardinality(s)][s]]
<1>7. ASSUME NEW s \in SUBSET S
      PROVE  g[s] = IF s = {} THEN 0 ELSE f[Chosen(s)] + g[s \ {Chosen(s)}]
  <2>1. CASE s = {}
    BY <1>6, <2>1, FS_EmptySet DEF base
  <2>2. CASE s # {}
    <3> DEFINE x == Chosen(s)
    <3>1. x \in s /\ s \ {x} \in SUBSET S
      BY <1>0, <2>2
    <3> HIDE DEF x
    <3>2. IsFiniteSet(s)
      BY FS_Subset
    <3>3. Cardinality(s \ {x}) \in Nat /\ Cardinality(s) = Cardinality(s \ {x}) + 1
      <4>1. IsFiniteSet(s \ {x}) /\ Cardinality(s \ {x}) = Cardinality(s) - 1
        BY <3>1, <3>2, FS_RemoveElement
      <4>2. Cardinality(s) \in Nat /\ Cardinality(s \ {x}) \in Nat
        BY <3>2, <4>1, FS_CardinalityType
      <4> QED
        BY <4>1, <4>2
    <3>4. h[Cardinality(s)] = next(h[Cardinality(s \ {x})])
      BY <1>6, <3>3
    <3>5. h[Cardinality(s)][s] = f[x] + h[Cardinality(s \ {x})][s \ {x}]
      BY <2>2, <3>4 DEF x
    <3> QED
      BY <2>2, <3>1, <3>5 DEF x
  <2> QED
    BY <2>1, <2>2
<1> HIDE DEF g
<1>8. g = [s \in SUBSET S |-> IF s = {} THEN 0 ELSE f[Chosen(s)] + g[s \ {Chosen(s)}]]
  <2>1. g = [s \in SUBSET S |-> g[s]]
    BY DEF g
  <2> QED
    BY <1>7, <2>1
<1> QED
  BY <1>8 DEF Adds
\* Such functions agree where both are defined.
LEMMA AddsAgree ==
  ASSUME NEW f, NEW S, NEW U \in SUBSET S, IsFiniteSet(S), NEW g, NEW h,
         Adds(g, f, S), Adds(h, f, U)
  PROVE  g[U] = h[U]
<1> DEFINE T == {V \in SUBSET U : g[V] = h[V]}
<1>0. IsFiniteSet(U)
  BY FS_Subset
<1>1. {} \in T
  BY AddsValues
<1>2. ASSUME NEW V \in SUBSET U, \A x \in V : V \ {x} \in T
      PROVE  V \in T
  <2>1. CASE V = {}
    BY <1>1, <2>1
  <2>2. CASE V # {}
    <3> DEFINE x == Chosen(V)
    <3>1. x \in V /\ g[V] = f[x] + g[V \ {x}]
      BY <2>2, AddsValues
    <3>2. h[V] = f[x] + h[V \ {x}]
      BY <2>2, AddsValues
    <3> HIDE DEF x
    <3> QED
      BY <1>2, <3>1, <3>2
  <2> QED
    BY <2>1, <2>2
<1> HIDE DEF T
<1>3. \A V \in SUBSET U : V # {} => \E x \in V : TRUE
  OBVIOUS
<1>4. U \in T
  <2> DEFINE W == T
  <2>1. \A V \in SUBSET U : (\A x \in V : V \ {x} \in T) => V \in T
    BY <1>2
  <2> QED
    BY <1>0, <1>1, <2>1, FiniteDescent
<1> QED
  BY <1>4 DEF T

\* SumFunctionOnSet is the value of such a function.
LEMMA SumAdds ==
  ASSUME NEW f, NEW S, IsFiniteSet(S), \A x \in S : f[x] \in Int
  PROVE  \E g : Adds(g, f, S) /\ SumFunctionOnSet(f, S) = g[S]
<1> DEFINE g == CHOOSE h : Adds(h, f, S)
<1>1. Adds(g, f, S)
  BY AddsExists
<1>2. SumFunctionOnSet(f, S) = g[S]
  BY DEF SumFunctionOnSet, FoldFunctionOnSet, MapThenFoldSet, Adds, Chosen
<1> QED
  BY <1>1, <1>2

\* A sum over the empty set is zero; another is that of a chosen element and
\* the rest.
LEMMA SumChosen ==
  ASSUME NEW f, NEW S, IsFiniteSet(S), \A x \in S : f[x] \in Int
  PROVE  /\ S = {} => SumFunctionOnSet(f, S) = 0
         /\ S # {} => \E x \in S : SumFunctionOnSet(f, S) = f[x] + SumFunctionOnSet(f, S \ {x})
<1>1. PICK g : Adds(g, f, S) /\ SumFunctionOnSet(f, S) = g[S]
  BY SumAdds
<1>2. S \in SUBSET S
  OBVIOUS
<1>3. S = {} => SumFunctionOnSet(f, S) = 0
  BY <1>1, <1>2, AddsValues
<1>4. ASSUME S # {}
      PROVE  \E x \in S : SumFunctionOnSet(f, S) = f[x] + SumFunctionOnSet(f, S \ {x})
  <2>1. PICK x \in S : g[S] = f[x] + g[S \ {x}]
    BY <1>1, <1>2, <1>4, AddsValues
  <2> DEFINE U == S \ {x}
  <2>2. U \in SUBSET S /\ IsFiniteSet(U) /\ \A y \in U : f[y] \in Int
    BY FS_Subset
  <2> HIDE DEF U
  <2>3. PICK h : Adds(h, f, U) /\ SumFunctionOnSet(f, U) = h[U]
    BY <2>2, SumAdds
  <2>4. g[U] = h[U]
    BY <1>1, <2>2, <2>3, AddsAgree
  <2> QED
    BY <1>1, <2>1, <2>3, <2>4 DEF U
<1> QED
  BY <1>3, <1>4

\* A sum of integers is an integer, and any element may be taken out of it.
LEMMA SumRemove ==
  ASSUME NEW f, NEW S, IsFiniteSet(S), \A x \in S : f[x] \in Int
  PROVE  /\ SumFunctionOnSet(f, {}) = 0
         /\ SumFunctionOnSet(f, S) \in Int
         /\ \A x \in S : SumFunctionOnSet(f, S) = f[x] + SumFunctionOnSet(f, S \ {x})
<1> DEFINE sum(U) == SumFunctionOnSet(f, U)
           Good(U) == /\ sum(U) \in Int
                      /\ \A x \in U : sum(U \ {x}) \in Int /\ sum(U) = f[x] + sum(U \ {x})
           T == {U \in SUBSET S : Good(U)}
<1>0. \A U \in SUBSET S : IsFiniteSet(U) /\ \A x \in U : f[x] \in Int
  BY FS_Subset
<1>1. sum({}) = 0 /\ {} \in T
  <2>1. sum({}) = 0
    BY <1>0, SumChosen
  <2> QED
    BY <2>1
<1>2. \A U \in SUBSET S : U # {} => \E x \in U : sum(U) = f[x] + sum(U \ {x})
  BY <1>0, SumChosen
<1> HIDE DEF sum
<1>3. ASSUME NEW U \in SUBSET S, \A x \in U : U \ {x} \in T
      PROVE  U \in T
  <2>1. CASE U = {}
    BY <1>1, <2>1
  <2>2. CASE U # {}
    <3>1. PICK p \in U : sum(U) = f[p] + sum(U \ {p})
      BY <1>2, <2>2
    <3>2. Good(U \ {p}) /\ f[p] \in Int
      BY <1>3
    <3>3. sum(U) \in Int
      BY <3>1, <3>2
    <3>4. ASSUME NEW x \in U, x # p
          PROVE  sum(U) = f[x] + sum(U \ {x})
      <4>1. sum(U \ {p}) = f[x] + sum((U \ {p}) \ {x})
        BY <3>2, <3>4
      <4>2. Good(U \ {x}) /\ f[x] \in Int
        BY <1>3
      <4>3. sum(U \ {x}) = f[p] + sum((U \ {x}) \ {p})
        BY <3>4, <4>2
      <4>4. (U \ {p}) \ {x} = (U \ {x}) \ {p}
        OBVIOUS
      <4>5. sum((U \ {p}) \ {x}) \in Int
        BY <3>2, <3>4
      <4>6. sum(U \ {x}) = f[p] + sum((U \ {p}) \ {x})
        BY <4>3, <4>4
      <4>7. f[x] \in Int /\ f[p] \in Int
        BY <3>2, <4>2
      <4> QED
        BY <3>1, <4>1, <4>5, <4>6, <4>7
    <3>5. \A x \in U : sum(U \ {x}) \in Int
      BY <1>3
    <3> QED
      BY <3>1, <3>3, <3>4, <3>5
  <2> QED
    BY <2>1, <2>2
<1> HIDE DEF T
<1>4. S \in T
  <2>1. \A U \in SUBSET S : (\A x \in U : U \ {x} \in T) => U \in T
    BY <1>3
  <2> QED
    BY <1>1, <2>1, FiniteDescent
<1> QED
  BY <1>1, <1>4 DEF T, sum

\* Only a sum starts from zero and grows by the value of an element.
Grows(G, f, S) ==
  /\ \A x \in S : f[x] \in Int
  /\ G[{}] = 0
  /\ \A U \in SUBSET S : U # {} => \E x \in U : G[U] = f[x] + G[U \ {x}]

\* A sum over a finite set is what any function that adds up element by element
\* says.
LEMMA SumIs ==
  ASSUME NEW f, NEW S, IsFiniteSet(S), NEW G, Grows(G, f, S)
  PROVE  SumFunctionOnSet(f, S) = G[S]
<1> DEFINE T == {U \in SUBSET S : SumFunctionOnSet(f, U) = G[U]}
<1>0. \A U \in SUBSET S : IsFiniteSet(U) /\ \A x \in U : f[x] \in Int
  BY FS_Subset DEF Grows
<1>1. ASSUME NEW U \in SUBSET S, \A x \in U : U \ {x} \in T
      PROVE  U \in T
  <2>1. CASE U = {}
    BY <1>0, <2>1, SumRemove DEF Grows
  <2>2. CASE U # {}
    <3>1. PICK x \in U : G[U] = f[x] + G[U \ {x}]
      BY <2>2 DEF Grows
    <3>2. SumFunctionOnSet(f, U) = f[x] + SumFunctionOnSet(f, U \ {x})
      BY <1>0, SumRemove
    <3>3. SumFunctionOnSet(f, U \ {x}) = G[U \ {x}]
      BY <1>1
    <3> QED
      BY <3>1, <3>2, <3>3
  <2> QED
    BY <2>1, <2>2
<1> HIDE DEF T
<1>2. \A U \in SUBSET S : (\A x \in U : U \ {x} \in T) => U \in T
  BY <1>1
<1>3. S \in T
  BY <1>2, FiniteDescent
<1> QED
  BY <1>3 DEF T

\* A sum depends on the values alone.
LEMMA SumSame ==
  ASSUME NEW f, NEW g, NEW S, IsFiniteSet(S), \A x \in S : g[x] \in Int /\ f[x] = g[x]
  PROVE  SumFunctionOnSet(f, S) = SumFunctionOnSet(g, S)
<1> DEFINE G == [U \in SUBSET S |-> SumFunctionOnSet(g, U)]
<1>0. \A U \in SUBSET S : IsFiniteSet(U) /\ \A x \in U : g[x] \in Int
  BY FS_Subset
<1>1. G[{}] = 0
  BY <1>0, SumRemove
<1>2. ASSUME NEW U \in SUBSET S, U # {}
      PROVE  \E x \in U : G[U] = f[x] + G[U \ {x}]
  <2>1. PICK x \in U : TRUE
    BY <1>2
  <2>2. SumFunctionOnSet(g, U) = g[x] + SumFunctionOnSet(g, U \ {x})
    BY <1>0, SumRemove
  <2> QED
    BY <2>2
<1>3. G[S] = SumFunctionOnSet(g, S)
  OBVIOUS
<1> HIDE DEF G
<1>4. Grows(G, f, S)
  BY <1>1, <1>2 DEF Grows
<1>5. SumFunctionOnSet(f, S) = G[S]
  BY <1>4, SumIs
<1> QED
  BY <1>3, <1>5

\* Multiplication distributes over addition.
LEMMA Distributes == \A a, b, c \in Int : a * (b + c) = a * b + a * c
OBVIOUS

\* A factor may be taken out of a sum.
LEMMA SumScale ==
  ASSUME NEW f, NEW w, NEW S, NEW c, IsFiniteSet(S), c \in Int,
         \A x \in S : f[x] \in Int /\ w[x] = c * f[x]
  PROVE  SumFunctionOnSet(w, S) = c * SumFunctionOnSet(f, S)
<1> DEFINE G == [U \in SUBSET S |-> c * SumFunctionOnSet(f, U)]
<1>0. \A U \in SUBSET S : IsFiniteSet(U) /\ \A x \in U : f[x] \in Int
  BY FS_Subset
<1>1. G[{}] = 0
  <2>1. SumFunctionOnSet(f, {}) = 0
    BY <1>0, SumRemove
  <2> QED
    BY <2>1
<1>2. ASSUME NEW U \in SUBSET S, U # {}
      PROVE  \E x \in U : G[U] = w[x] + G[U \ {x}]
  <2>1. PICK x \in U : TRUE
    BY <1>2
  <2>2. SumFunctionOnSet(f, U) = f[x] + SumFunctionOnSet(f, U \ {x})
    BY <1>0, SumRemove
  <2>3. f[x] \in Int /\ SumFunctionOnSet(f, U \ {x}) \in Int
    <3>1. U \ {x} \in SUBSET S
      OBVIOUS
    <3> QED
      BY <1>0, <3>1, SumRemove
  <2>4. c * SumFunctionOnSet(f, U) = c * f[x] + c * SumFunctionOnSet(f, U \ {x})
    BY <2>2, <2>3, Distributes
  <2> QED
    BY <2>4
<1>3. G[S] = c * SumFunctionOnSet(f, S)
  OBVIOUS
<1>4. \A x \in S : w[x] \in Int
  OBVIOUS
<1> HIDE DEF G
<1>5. Grows(G, w, S)
  BY <1>1, <1>2, <1>4 DEF Grows
<1>6. SumFunctionOnSet(w, S) = G[S]
  BY <1>5, SumIs
<1> QED
  BY <1>3, <1>6

\* The sum of sums.
LEMMA SumPlus ==
  ASSUME NEW f, NEW g, NEW w, NEW S, IsFiniteSet(S),
         \A x \in S : f[x] \in Int /\ g[x] \in Int /\ w[x] = f[x] + g[x]
  PROVE  SumFunctionOnSet(w, S) = SumFunctionOnSet(f, S) + SumFunctionOnSet(g, S)
<1> DEFINE G == [U \in SUBSET S |-> SumFunctionOnSet(f, U) + SumFunctionOnSet(g, U)]
<1>0. \A U \in SUBSET S : IsFiniteSet(U) /\ \A x \in U : f[x] \in Int /\ g[x] \in Int
  BY FS_Subset
<1>1. G[{}] = 0
  <2>1. SumFunctionOnSet(f, {}) = 0 /\ SumFunctionOnSet(g, {}) = 0
    BY <1>0, SumRemove
  <2> QED
    BY <2>1
<1>2. ASSUME NEW U \in SUBSET S, U # {}
      PROVE  \E x \in U : G[U] = w[x] + G[U \ {x}]
  <2>1. PICK x \in U : TRUE
    BY <1>2
  <2>2. /\ SumFunctionOnSet(f, U) = f[x] + SumFunctionOnSet(f, U \ {x})
        /\ SumFunctionOnSet(g, U) = g[x] + SumFunctionOnSet(g, U \ {x})
    BY <1>0, SumRemove
  <2>3. /\ f[x] \in Int /\ SumFunctionOnSet(f, U \ {x}) \in Int
        /\ g[x] \in Int /\ SumFunctionOnSet(g, U \ {x}) \in Int
    <3>1. U \ {x} \in SUBSET S
      OBVIOUS
    <3> QED
      BY <1>0, <3>1, SumRemove
  <2>4. G[U] = SumFunctionOnSet(f, U) + SumFunctionOnSet(g, U)
    OBVIOUS
  <2>5. G[U \ {x}] = SumFunctionOnSet(f, U \ {x}) + SumFunctionOnSet(g, U \ {x})
    OBVIOUS
  <2>6. w[x] = f[x] + g[x]
    OBVIOUS
  <2> HIDE DEF G
  <2>7. G[U] = w[x] + G[U \ {x}]
    BY <2>2, <2>3, <2>4, <2>5, <2>6
  <2> QED
    BY <2>7
<1>3. G[S] = SumFunctionOnSet(f, S) + SumFunctionOnSet(g, S)
  OBVIOUS
<1>4. \A x \in S : w[x] \in Int
  OBVIOUS
<1> HIDE DEF G
<1>5. Grows(G, w, S)
  BY <1>1, <1>2, <1>4 DEF Grows
<1>6. SumFunctionOnSet(w, S) = G[S]
  BY <1>5, SumIs
<1> QED
  BY <1>3, <1>6

\* Two parts of a set are added up one after the other.
LEMMA SumUnion ==
  ASSUME NEW f, NEW A, NEW B, IsFiniteSet(A), IsFiniteSet(B), A \cap B = {},
         \A x \in A \cup B : f[x] \in Int
  PROVE  SumFunctionOnSet(f, A \cup B) = SumFunctionOnSet(f, A) + SumFunctionOnSet(f, B)
<1> DEFINE G == [U \in SUBSET B |-> SumFunctionOnSet(f, A \cup U) - SumFunctionOnSet(f, A)]
<1>0. \A U \in SUBSET B : /\ IsFiniteSet(A \cup U)
                          /\ \A x \in A \cup U : f[x] \in Int
                          /\ SumFunctionOnSet(f, A \cup U) \in Int
  <2> SUFFICES ASSUME NEW U \in SUBSET B
               PROVE /\ IsFiniteSet(A \cup U)
                     /\ \A x \in A \cup U : f[x] \in Int
                     /\ SumFunctionOnSet(f, A \cup U) \in Int
    OBVIOUS
  <2>1. IsFiniteSet(A \cup U)
    BY FS_Subset, FS_Union
  <2>2. \A x \in A \cup U : f[x] \in Int
    OBVIOUS
  <2> QED
    BY <2>1, <2>2, SumRemove
<1>1. SumFunctionOnSet(f, A) \in Int
  BY SumRemove
<1>2. G[{}] = 0
  <2>1. A \cup {} = A
    OBVIOUS
  <2> QED
    BY <1>1, <2>1
<1>3. ASSUME NEW U \in SUBSET B, U # {}
      PROVE  \E x \in U : G[U] = f[x] + G[U \ {x}]
  <2>1. PICK x \in U : TRUE
    BY <1>3
  <2>2. SumFunctionOnSet(f, A \cup U) = f[x] + SumFunctionOnSet(f, (A \cup U) \ {x})
    <3> DEFINE V == A \cup U
    <3>1. IsFiniteSet(V) /\ x \in V /\ \A y \in V : f[y] \in Int
      BY <1>0
    <3> HIDE DEF V
    <3>2. SumFunctionOnSet(f, V) = f[x] + SumFunctionOnSet(f, V \ {x})
      BY <3>1, SumRemove
    <3> QED
      BY <3>2 DEF V
  <2>3. (A \cup U) \ {x} = A \cup (U \ {x})
    OBVIOUS
  <2>4. f[x] \in Int /\ SumFunctionOnSet(f, A \cup (U \ {x})) \in Int
    BY <1>0
  <2>5. SumFunctionOnSet(f, A \cup U) = f[x] + SumFunctionOnSet(f, A \cup (U \ {x}))
    BY <2>2, <2>3
  <2>6. G[U] = SumFunctionOnSet(f, A \cup U) - SumFunctionOnSet(f, A)
    OBVIOUS
  <2>7. G[U \ {x}] = SumFunctionOnSet(f, A \cup (U \ {x})) - SumFunctionOnSet(f, A)
    OBVIOUS
  <2> HIDE DEF G
  <2>8. G[U] = f[x] + G[U \ {x}]
    <3> DEFINE a == SumFunctionOnSet(f, A)
               b == SumFunctionOnSet(f, A \cup (U \ {x}))
    <3>1. a \in Int /\ b \in Int
      BY <1>1, <2>4
    <3>2. SumFunctionOnSet(f, A \cup U) = f[x] + b
      BY <2>5
    <3> HIDE DEF a, b
    <3>3. (f[x] + b) - a = f[x] + (b - a)
      BY <2>4, <3>1
    <3>4. G[U] = (f[x] + b) - a /\ G[U \ {x}] = b - a
      BY <2>6, <2>7, <3>2 DEF a, b
    <3> QED
      BY <3>3, <3>4
  <2> QED
    BY <2>8
<1>4. G[B] = SumFunctionOnSet(f, A \cup B) - SumFunctionOnSet(f, A)
  OBVIOUS
<1> HIDE DEF G
<1>5. Grows(G, f, B)
  BY <1>2, <1>3 DEF Grows
<1>6. SumFunctionOnSet(f, B) = G[B]
  BY <1>5, SumIs
<1> QED
  BY <1>0, <1>1, <1>4, <1>6

Fibre(p, S, t) == {s \in S : p[s] = t}
Carries(S, T, f, p, c, w) == \A s \in S : f[s] \in Int /\ p[s] \in T /\ w[s] = c[p[s]] * f[s]
Gathers(S, T, f, p, c, h) ==
  \A t \in T : c[t] \in Int /\ h[t] = c[t] * SumFunctionOnSet(f, Fibre(p, S, t))

\* What elements of S add up to may be added up by where p sends them, each
\* element with the factor c that its image has.
LEMMA SumFibres ==
  ASSUME NEW S, NEW T, IsFiniteSet(S), IsFiniteSet(T), NEW f, NEW p, NEW c, NEW h, NEW w,
         Carries(S, T, f, p, c, w), Gathers(S, T, f, p, c, h)
  PROVE  SumFunctionOnSet(h, T) = SumFunctionOnSet(w, S)
<1> DEFINE over(U) == {s \in S : p[s] \in U}
           fibre(y) == Fibre(p, S, y)
           G == [U \in SUBSET T |-> SumFunctionOnSet(w, over(U))]
<1> USE DEF Carries, Gathers
<1>0. \A s \in S : w[s] \in Int
  <2> TAKE s \in S
  <2>1. c[p[s]] \in Int /\ f[s] \in Int /\ w[s] = c[p[s]] * f[s]
    OBVIOUS
  <2> QED
    BY <2>1
<1>1. \A U : IsFiniteSet(over(U)) /\ \A x \in over(U) : w[x] \in Int
  <2> TAKE U
  <2>1. over(U) \in SUBSET S
    OBVIOUS
  <2>2. \A x \in over(U) : w[x] \in Int
    BY <1>0
  <2> HIDE DEF over
  <2> QED
    BY <2>1, <2>2, FS_Subset
<1>2. \A t \in T : /\ IsFiniteSet(fibre(t)) /\ SumFunctionOnSet(f, fibre(t)) \in Int
                   /\ SumFunctionOnSet(w, fibre(t)) = h[t]
  <2> SUFFICES ASSUME NEW t \in T
               PROVE  /\ IsFiniteSet(fibre(t)) /\ SumFunctionOnSet(f, fibre(t)) \in Int
                      /\ SumFunctionOnSet(w, fibre(t)) = h[t]
    OBVIOUS
  <2>1. IsFiniteSet(fibre(t))
    BY FS_Subset DEF Fibre
  <2>2. \A x \in fibre(t) : f[x] \in Int /\ w[x] = c[t] * f[x]
    BY DEF Fibre
  <2>3. h[t] = c[t] * SumFunctionOnSet(f, fibre(t)) /\ c[t] \in Int
    OBVIOUS
  <2> HIDE DEF fibre
  <2>4. SumFunctionOnSet(f, fibre(t)) \in Int
    BY <2>1, <2>2, SumRemove
  <2>5. SumFunctionOnSet(w, fibre(t)) = c[t] * SumFunctionOnSet(f, fibre(t))
    BY <2>1, <2>2, <2>3, SumScale
  <2> QED
    BY <2>1, <2>3, <2>4, <2>5
<1>3. \A t \in T : h[t] \in Int
  <2> TAKE t \in T
  <2>1. c[t] \in Int /\ SumFunctionOnSet(f, fibre(t)) \in Int /\ h[t] = c[t] * SumFunctionOnSet(f, fibre(t))
    BY <1>2
  <2> QED
    BY <2>1
<1>4. over({}) = {} /\ over(T) = S
  OBVIOUS
<1>5. \A U \in SUBSET T : \A t \in U :
        over(U) = over(U \ {t}) \cup fibre(t) /\ over(U \ {t}) \cap fibre(t) = {}
  BY DEF Fibre
<1>6. \A t \in T : \A x \in fibre(t) : w[x] \in Int
  BY <1>0 DEF Fibre
<1> HIDE DEF over, fibre
<1>7. G[{}] = 0
  BY <1>1, <1>4, SumRemove
<1>8. ASSUME NEW U \in SUBSET T, U # {}
      PROVE  \E x \in U : G[U] = h[x] + G[U \ {x}]
  <2>1. PICK t \in U : TRUE
    BY <1>8
  <2>2. SumFunctionOnSet(w, over(U \ {t}) \cup fibre(t)) =
          SumFunctionOnSet(w, over(U \ {t})) + SumFunctionOnSet(w, fibre(t))
    BY <1>1, <1>2, <1>5, <1>6, SumUnion
  <2>3. SumFunctionOnSet(w, over(U)) = SumFunctionOnSet(w, over(U \ {t})) + h[t]
    BY <1>2, <1>5, <2>2
  <2>4. SumFunctionOnSet(w, over(U \ {t})) \in Int /\ h[t] \in Int
    BY <1>1, <1>3, SumRemove
  <2>5. G[U] = SumFunctionOnSet(w, over(U)) /\ G[U \ {t}] = SumFunctionOnSet(w, over(U \ {t}))
    OBVIOUS
  <2> HIDE DEF G
  <2>6. G[U] = h[t] + G[U \ {t}]
    BY <2>3, <2>4, <2>5
  <2> QED
    BY <2>6
<1>9. G[T] = SumFunctionOnSet(w, S)
  BY <1>4
<1> HIDE DEF G
<1>10. Grows(G, h, T)
  BY <1>3, <1>7, <1>8 DEF Grows
<1>11. SumFunctionOnSet(h, T) = G[T]
  BY <1>10, SumIs
<1> QED
  BY <1>9, <1>11

\* The sum of nothing.
LEMMA SumEmpty == \A f : SumFunctionOnSet(f, {}) = 0
<1> TAKE f
<1>1. IsFiniteSet({}) /\ \A x \in {} : f[x] \in Int
  BY FS_EmptySet
<1> QED
  BY <1>1, SumRemove

\* The sum of one value.
LEMMA SumSingleton ==
  ASSUME NEW f, NEW x, f[x] \in Int
  PROVE  SumFunctionOnSet(f, {x}) = f[x]
<1>1. IsFiniteSet({x}) /\ \A y \in {x} : f[y] \in Int
  BY FS_Singleton
<1> DEFINE S == {x}
<1>2. x \in S /\ S \ {x} = {}
  OBVIOUS
<1>3. IsFiniteSet(S) /\ \A y \in S : f[y] \in Int
  BY <1>1
<1> HIDE DEF S
<1>4. SumFunctionOnSet(f, S) = f[x] + SumFunctionOnSet(f, S \ {x}) /\ SumFunctionOnSet(f, {}) = 0
  BY <1>2, <1>3, SumRemove
<1> QED
  BY <1>2, <1>4 DEF S

\* A sum of zeros.
LEMMA SumZeros ==
  ASSUME NEW f, NEW S, IsFiniteSet(S), \A x \in S : f[x] = 0
  PROVE  SumFunctionOnSet(f, S) = 0
<1>1. 0 \in Int /\ \A x \in S : f[x] \in Int /\ f[x] = 0 * f[x]
  OBVIOUS
<1>2. SumFunctionOnSet(f, S) = 0 * SumFunctionOnSet(f, S)
  BY <1>1, SumScale
<1>3. SumFunctionOnSet(f, S) \in Int
  BY <1>1, SumRemove
<1> QED
  BY <1>2, <1>3

\* Numbers add up to no less than the numbers of a part, and to more than none
\* when one of them is not zero.
LEMMA SumNat ==
  ASSUME NEW f, NEW S, IsFiniteSet(S), \A x \in S : f[x] \in Nat
  PROVE  /\ SumFunctionOnSet(f, S) \in Nat
         /\ \A U \in SUBSET S : /\ SumFunctionOnSet(f, U) \in Nat
                               /\ SumFunctionOnSet(f, U) <= SumFunctionOnSet(f, S)
         /\ \A x \in S : f[x] <= SumFunctionOnSet(f, S)
<1> DEFINE T == {U \in SUBSET S : SumFunctionOnSet(f, U) \in Nat}
<1>0. \A U \in SUBSET S : IsFiniteSet(U) /\ \A x \in U : f[x] \in Int
  BY FS_Subset
<1>1. ASSUME NEW U \in SUBSET S
      PROVE  SumFunctionOnSet(f, U) \in Nat
  <2> DEFINE N == {V \in SUBSET U : SumFunctionOnSet(f, V) \in Nat}
  <2>1. ASSUME NEW V \in SUBSET U, \A x \in V : V \ {x} \in N
        PROVE  V \in N
    <3>0. IsFiniteSet(V) /\ \A x \in V : f[x] \in Int
      BY <1>0
    <3>1. CASE V = {}
      BY <3>0, <3>1, SumRemove
    <3>2. CASE V # {}
      <4>1. PICK x \in V : TRUE
        BY <3>2
      <4>2. SumFunctionOnSet(f, V) = f[x] + SumFunctionOnSet(f, V \ {x})
        BY <3>0, SumRemove
      <4>3. SumFunctionOnSet(f, V \ {x}) \in Nat /\ f[x] \in Nat
        BY <2>1
      <4> QED
        BY <4>2, <4>3
    <3> QED
      BY <3>1, <3>2
  <2> HIDE DEF N
  <2>2. \A V \in SUBSET U : (\A x \in V : V \ {x} \in N) => V \in N
    BY <2>1
  <2>3. U \in N
    BY <1>0, <2>2, FiniteDescent
  <2> QED
    BY <2>3 DEF N
<1>2. ASSUME NEW U \in SUBSET S
      PROVE  SumFunctionOnSet(f, U) <= SumFunctionOnSet(f, S)
  <2> DEFINE A == U
             B == S \ U
  <2>1. A \cup B = S /\ A \cap B = {} /\ IsFiniteSet(A) /\ IsFiniteSet(B)
    BY <1>0
  <2>2. SumFunctionOnSet(f, B) \in Nat /\ SumFunctionOnSet(f, A) \in Nat
    BY <1>1
  <2>3. \A x \in A \cup B : f[x] \in Int
    BY <1>0
  <2> HIDE DEF A, B
  <2>4. SumFunctionOnSet(f, A \cup B) = SumFunctionOnSet(f, A) + SumFunctionOnSet(f, B)
    BY <2>1, <2>3, SumUnion
  <2>5. SumFunctionOnSet(f, A) <= SumFunctionOnSet(f, A) + SumFunctionOnSet(f, B)
    BY <2>2
  <2> QED
    BY <2>1, <2>4, <2>5 DEF A
<1>3. ASSUME NEW x \in S
      PROVE  f[x] <= SumFunctionOnSet(f, S)
  <2>1. SumFunctionOnSet(f, S) = f[x] + SumFunctionOnSet(f, S \ {x})
    BY <1>0, SumRemove
  <2>2. SumFunctionOnSet(f, S \ {x}) \in Nat
    BY <1>1
  <2> QED
    BY <2>1, <2>2
<1> QED
  BY <1>1, <1>2, <1>3

\* The image of a finite set under a function is finite.
LEMMA FiniteImage ==
  ASSUME NEW f, NEW S, IsFiniteSet(S)
  PROVE  IsFiniteSet({f[x] : x \in S})
<1> DEFINE image(V) == {f[x] : x \in V}
           T == {V \in SUBSET S : IsFiniteSet(image(V))}
<1>1. ASSUME NEW V \in SUBSET S, \A x \in V : V \ {x} \in T
      PROVE  V \in T
  <2>1. CASE V = {}
    <3>1. image(V) = {}
      BY <2>1
    <3> QED
      BY <3>1, FS_EmptySet
  <2>2. CASE V # {}
    <3>1. PICK x \in V : TRUE
      BY <2>2
    <3>2. image(V) = image(V \ {x}) \cup {f[x]}
      OBVIOUS
    <3>3. IsFiniteSet(image(V \ {x}))
      BY <1>1
    <3> HIDE DEF image
    <3> QED
      BY <3>2, <3>3, FS_AddElement
  <2> QED
    BY <2>1, <2>2
<1> HIDE DEF T
<1>2. \A V \in SUBSET S : (\A x \in V : V \ {x} \in T) => V \in T
  BY <1>1
<1>3. S \in T
  BY <1>2, FiniteDescent
<1> QED
  BY <1>3 DEF T

\* No term of a sum of terms that are not positive is below the sum.
LEMMA SumNegative ==
  ASSUME NEW f, NEW S, IsFiniteSet(S), \A x \in S : f[x] \in Int /\ f[x] <= 0
  PROVE  \A x \in S : SumFunctionOnSet(f, S) <= f[x]
<1> DEFINE c == -1
           g == [x \in S |-> c * f[x]]
<1>1. \A x \in S : g[x] \in Nat /\ g[x] = -f[x]
  OBVIOUS
<1>2. c \in Int /\ \A x \in S : f[x] \in Int /\ g[x] = c * f[x]
  BY <1>1
<1> HIDE DEF g, c
<1>3. SumFunctionOnSet(g, S) = c * SumFunctionOnSet(f, S)
  BY <1>2, SumScale
<1>4. SumFunctionOnSet(f, S) \in Int
  BY SumRemove
<1>5. \A x \in S : g[x] <= SumFunctionOnSet(g, S)
  BY <1>1, SumNat
<1> QED
  BY <1>1, <1>3, <1>4, <1>5 DEF c

\* A sum over the first numbers, one number more.
LEMMA SumNext ==
  ASSUME NEW n \in Nat, NEW f, \A j \in 1 .. n + 1 : f[j] \in Int
  PROVE  /\ SumFunctionOnSet(f, 1 .. n) \in Int
         /\ SumFunctionOnSet(f, 1 .. n + 1) = SumFunctionOnSet(f, 1 .. n) + f[n + 1]
<1>1. IsFiniteSet(1 .. n) /\ IsFiniteSet(1 .. n + 1)
  BY FS_Interval
<1>2. SumFunctionOnSet(f, 1 .. n) \in Int
  BY <1>1, SumRemove
<1>3. n + 1 \in 1 .. n + 1 /\ (1 .. n + 1) \ {n + 1} = 1 .. n
  OBVIOUS
<1>4. SumFunctionOnSet(f, 1 .. n + 1) = f[n + 1] + SumFunctionOnSet(f, (1 .. n + 1) \ {n + 1})
  BY <1>1, <1>3, SumRemove
<1>5. f[n + 1] \in Int
  BY <1>3
<1>6. SumFunctionOnSet(f, 1 .. n + 1) = f[n + 1] + SumFunctionOnSet(f, 1 .. n)
  BY <1>3, <1>4
<1> HIDE DEF SumFunctionOnSet
<1> QED
  BY <1>2, <1>5, <1>6

\* Differences of neighbours add up to that of the last and the first.
LEMMA Telescope ==
  ASSUME NEW k \in Nat, NEW q, \A j \in 0 .. k : q[j] \in Int,
         NEW g, \A j \in 1 .. k : g[j] = q[j] - q[j - 1]
  PROVE  SumFunctionOnSet(g, 1 .. k) = q[k] - q[0]
<1> DEFINE T == {n \in 0 .. k : SumFunctionOnSet(g, 1 .. n) = q[n] - q[0]}
<1>1. 0 \in T
  <2>1. 1 .. 0 = {} /\ 0 \in 0 .. k /\ q[0] \in Int
    OBVIOUS
  <2> QED
    BY <2>1, SumEmpty
<1>2. ASSUME NEW n \in 0 .. k - 1, n \in T
      PROVE  n + 1 \in T
  <2>1. n \in Nat /\ n + 1 \in 0 .. k /\ n + 1 \in 1 .. k /\ n \in 0 .. k /\ 0 \in 0 .. k /\ n + 1 - 1 = n
    OBVIOUS
  <2>2. \A j \in 1 .. n + 1 : g[j] \in Int
    <3> TAKE j \in 1 .. n + 1
    <3>1. j \in 1 .. k /\ j \in 0 .. k /\ j - 1 \in 0 .. k
      OBVIOUS
    <3> QED
      BY <3>1
  <2>3. SumFunctionOnSet(g, 1 .. n + 1) = SumFunctionOnSet(g, 1 .. n) + g[n + 1]
    BY <2>1, <2>2, SumNext
  <2>4. g[n + 1] = q[n + 1] - q[n]
    BY <2>1
  <2>5. q[n] \in Int /\ q[n + 1] \in Int /\ q[0] \in Int
    BY <2>1
  <2>6. SumFunctionOnSet(g, 1 .. n) = q[n] - q[0]
    BY <1>2
  <2> QED
    BY <2>1, <2>3, <2>4, <2>5, <2>6
<1> HIDE DEF T
<1>3. 0 .. k \subseteq T
  BY <1>1, <1>2, BoundedInduction
<1>4. k \in T
  BY <1>3
<1> QED
  BY <1>4 DEF T

\* Numbers between two bounds add up to a sum between multiples of them.
LEMMA SumBetween ==
  ASSUME NEW k \in Nat, NEW g, NEW lo \in Int, NEW hi \in Int,
         \A j \in 1 .. k : g[j] \in Int /\ lo <= g[j] /\ g[j] <= hi
  PROVE  lo * k <= SumFunctionOnSet(g, 1 .. k) /\ SumFunctionOnSet(g, 1 .. k) <= hi * k
<1> DEFINE T == {n \in 0 .. k : lo * n <= SumFunctionOnSet(g, 1 .. n) /\ SumFunctionOnSet(g, 1 .. n) <= hi * n}
<1>1. 0 \in T
  <2>1. 1 .. 0 = {} /\ 0 \in 0 .. k /\ lo * 0 = 0 /\ hi * 0 = 0
    OBVIOUS
  <2> QED
    BY <2>1, SumEmpty
<1>2. ASSUME NEW n \in 0 .. k - 1, n \in T
      PROVE  n + 1 \in T
  <2>1. n \in Nat /\ n \in Int /\ n + 1 \in 0 .. k /\ n + 1 \in 1 .. k
    OBVIOUS
  <2>2. \A j \in 1 .. n + 1 : g[j] \in Int
    <3> TAKE j \in 1 .. n + 1
    <3>1. j \in 1 .. k
      OBVIOUS
    <3> QED
      BY <3>1
  <2>3. /\ SumFunctionOnSet(g, 1 .. n) \in Int
        /\ SumFunctionOnSet(g, 1 .. n + 1) = SumFunctionOnSet(g, 1 .. n) + g[n + 1]
    BY <2>1, <2>2, SumNext
  <2>4. lo * (n + 1) = lo * n + lo /\ hi * (n + 1) = hi * n + hi /\ lo * n \in Int /\ hi * n \in Int
    BY <2>1
  <2>5. lo <= g[n + 1] /\ g[n + 1] <= hi /\ g[n + 1] \in Int
    BY <2>1
  <2>6. lo * n <= SumFunctionOnSet(g, 1 .. n) /\ SumFunctionOnSet(g, 1 .. n) <= hi * n
    BY <1>2
  <2> QED
    BY <2>1, <2>3, <2>4, <2>5, <2>6
<1> HIDE DEF T
<1>3. 0 .. k \subseteq T
  BY <1>1, <1>2, BoundedInduction
<1>4. k \in T
  BY <1>3
<1> QED
  BY <1>4 DEF T

\* Factors compare as their multiples do.
LEMMA Cancel == \A a, b \in Int, k \in Nat : k >= 1 => (a * k <= b * k <=> a <= b)
<1> SUFFICES ASSUME NEW a \in Int, NEW b \in Int, NEW k \in Nat, k >= 1
             PROVE  a * k <= b * k <=> a <= b
  OBVIOUS
<1>1. a * k \in Int /\ b * k \in Int /\ k \in Int
  OBVIOUS
<1>2. ASSUME a <= b PROVE a * k <= b * k
  <2>1. (b - a) * k >= 0
    BY <1>2
  <2>2. (b - a) * k = b * k - a * k
    OBVIOUS
  <2> QED
    BY <1>1, <2>1, <2>2
<1>3. ASSUME b + 1 <= a PROVE b * k + k <= a * k
  <2>1. (a - (b + 1)) * k >= 0
    BY <1>3
  <2>2. (a - (b + 1)) * k = a * k - (b * k + k)
    OBVIOUS
  <2> QED
    BY <1>1, <2>1, <2>2
<1> QED
  BY <1>1, <1>2, <1>3

\* Quotients compare with integers as multiples do.
LEMMA QuotientBounds ==
  ASSUME NEW a \in Int, NEW k \in Nat, k >= 1, NEW L \in Int
  PROVE  /\ a \div k \in Int
         /\ L * k <= a => L <= a \div k
         /\ a <= L * k => a \div k <= L
<1> DEFINE d == a \div k
           r == a % k
<1>1. d \in Int /\ r \in 0 .. k - 1 /\ a = d * k + r
  OBVIOUS
<1> HIDE DEF d, r
<1>2. d * k \in Int /\ L * k \in Int /\ r \in Int /\ 0 <= r /\ r < k
  BY <1>1
<1>3. ASSUME L * k <= a PROVE L <= d
  <2>1. d + 1 \in Int /\ (d + 1) * k = d * k + k
    BY <1>1
  <2>2. ~((d + 1) * k <= L * k)
    BY <1>1, <1>2, <1>3, <2>1
  <2>3. ~(d + 1 <= L)
    BY <2>1, <2>2, Cancel
  <2> QED
    BY <1>1, <2>3
<1>4. ASSUME a <= L * k PROVE d <= L
  <2>1. d * k <= L * k
    BY <1>1, <1>2, <1>4
  <2> QED
    BY <1>1, <2>1, Cancel
<1> QED
  BY <1>1, <1>3, <1>4 DEF d

-----------------------------------------------------------------------------
(* Reachability in the graph of a successor function *)

\* G maps the states of D to sets of states of D.
IsGraph(G, D) == DOMAIN G = D /\ \A s \in D : G[s] \in SUBSET D

\* Every state reaches itself.
LEMMA ReachesItself ==
  ASSUME NEW G, NEW D, IsGraph(G, D), NEW s \in D
  PROVE  Reaches(G, s, s)
BY DEF Reaches, IsGraph

\* A state reaches the ends of its edges.
LEMMA ReachesSuccessor ==
  ASSUME NEW G, NEW D, IsGraph(G, D), NEW s \in D, NEW t \in G[s]
  PROVE  Reaches(G, s, t)
BY DEF Reaches, Closed, IsGraph

\* What is reached from a reached state is reached.
LEMMA ReachesTransitive ==
  ASSUME NEW G, NEW D, IsGraph(G, D), NEW s, NEW t, NEW u, Reaches(G, s, t), Reaches(G, t, u)
  PROVE  Reaches(G, s, u)
BY DEF Reaches, IsGraph

\* A state that reaches another has an edge on the way there.
LEMMA ReachesByEdge ==
  ASSUME NEW G, NEW D, IsGraph(G, D), NEW s \in D, NEW t \in D, s # t, Reaches(G, s, t)
  PROVE  \E w \in G[s] : Reaches(G, w, t)
<1> DEFINE C == {s} \cup {u \in D : \E w \in G[s] : Reaches(G, w, u)}
<1>1. C \in SUBSET DOMAIN G /\ s \in C
  BY DEF IsGraph
<1>2. ASSUME NEW u \in C
      PROVE  G[u] \subseteq C
  <2>1. CASE u = s
    <3>1. \A w \in G[s] : w \in D /\ Reaches(G, w, w)
      BY ReachesItself DEF IsGraph
    <3> QED
      BY <2>1, <3>1
  <2>2. CASE u # s
    <3>1. PICK w \in G[s] : Reaches(G, w, u)
      BY <2>2
    <3>2. u \in D /\ G[u] \in SUBSET D
      BY <2>2 DEF IsGraph
    <3>3. \A v \in G[u] : Reaches(G, w, v)
      BY <3>1, <3>2, ReachesSuccessor, ReachesTransitive
    <3> QED
      BY <3>2, <3>3
  <2> QED
    BY <2>1, <2>2
<1>3. t \in C
  <2> HIDE DEF C
  <2>1. Closed(G, C)
    BY <1>2 DEF Closed
  <2> QED
    BY <1>1, <2>1 DEF Reaches
<1> QED
  BY <1>3

\* In a finite graph some state is reached again from all it reaches.
LEMMA BottomState ==
  ASSUME NEW G, NEW D, IsGraph(G, D), IsFiniteSet(D), D # {}
  PROVE  \E s \in D : \A t \in D : Reaches(G, s, t) => Reaches(G, t, s)
<1> DEFINE from(s) == {t \in D : Reaches(G, s, t)}
           T == {U \in SUBSET D : U # {} /\ Closed(G, U) =>
                    \E s \in U : \A t \in D : Reaches(G, s, t) => Reaches(G, t, s)}
<1>1. \A s \in D : s \in from(s) /\ from(s) \in SUBSET D /\ Closed(G, from(s))
  <2> TAKE s \in D
  <2>1. ASSUME NEW u \in from(s), NEW v \in G[u]
        PROVE  v \in from(s)
    <3>1. v \in D /\ Reaches(G, u, v)
      BY ReachesSuccessor DEF IsGraph
    <3> QED
      BY <3>1, ReachesTransitive
  <2> QED
    BY <2>1, ReachesItself DEF Closed
<1> HIDE DEF from
<1>2. \A V \in SUBSET D : V \in {U \in SUBSET D : \A W \in SUBSET U : W \in T}
  <2> DEFINE P == {U \in SUBSET D : \A W \in SUBSET U : W \in T}
  <2>1. ASSUME NEW V \in SUBSET D
        PROVE  V \in P
    <3>1. IsFiniteSet(V)
      BY FS_Subset
    <3>2. \A U \in SUBSET V : (\A x \in U : U \ {x} \in P) => U \in P
      <4> SUFFICES ASSUME NEW U \in SUBSET V, \A x \in U : U \ {x} \in P, NEW W \in SUBSET U
                   PROVE  W \in T
        OBVIOUS
      <4>1. ASSUME NEW x \in U, x \notin W
            PROVE  W \in T
        BY <4>1
      <4>2. CASE W = U
        <5> SUFFICES ASSUME U # {}, Closed(G, U)
                     PROVE  \E s \in U : \A t \in D : Reaches(G, s, t) => Reaches(G, t, s)
          BY <4>2
        <5>1. PICK s \in U : TRUE
          OBVIOUS
        <5>2. from(s) \subseteq U
          BY DEF from, Reaches, IsGraph
        <5>3. CASE \A t \in from(s) : s \in from(t)
          BY <5>3 DEF from
        <5>4. CASE \E t \in from(s) : s \notin from(t)
          <6>1. PICK t \in from(s) : s \notin from(t)
            BY <5>4
          <6>2. from(t) \subseteq U \ {s}
            <7>1. t \in D /\ t \in U
              BY <5>2, <6>1
            <7> QED
              BY <6>1, <7>1 DEF from, Reaches, IsGraph
          <6>3. from(t) \in T
            <7>1. U \ {s} \in P
              OBVIOUS
            <7> HIDE DEF T
            <7> QED
              BY <6>2, <7>1
          <6>4. from(t) # {} /\ Closed(G, from(t)) /\ t \in D
            BY <1>1, <5>2
          <6>5. PICK r \in from(t) : \A u \in D : Reaches(G, r, u) => Reaches(G, u, r)
            BY <6>3, <6>4
          <6> QED
            BY <6>2, <6>5
        <5> QED
          BY <5>3, <5>4
      <4> QED
        BY <4>1, <4>2
    <3> HIDE DEF P
    <3> QED
      BY <3>1, <3>2, FiniteDescent
  <2> QED
    BY <2>1
<1>3. D \in T
  <2> HIDE DEF T
  <2> QED
    BY <1>2
<1>4. Closed(G, D)
  BY DEF Closed, IsGraph
<1> QED
  BY <1>3, <1>4

-----------------------------------------------------------------------------
(* Going on until nothing is added *)

\* c takes every set to what g makes of it when g is applied until it adds nothing.
Saturates(c, g, S) == c = [A \in SUBSET S |-> IF g[A] = A THEN A ELSE c[g[A]]]

\* g goes from a set to the one it makes of it.
Added(g, S) == [A \in SUBSET S |-> {g[A]}]

\* From every set one is reached that nothing is added to.
LEMMA SaturatedReached ==
  ASSUME NEW S, IsFiniteSet(S), NEW g \in [SUBSET S -> SUBSET S], \A A \in SUBSET S : A \subseteq g[A],
         NEW A \in SUBSET S
  PROVE  \E B \in SUBSET S : Reaches(Added(g, S), A, B) /\ g[B] = B
<1> DEFINE G == Added(g, S)
           R(X) == \E B \in SUBSET S : Reaches(G, X, B) /\ g[B] = B
           Q == {U \in SUBSET S : \A T \in SUBSET U : R(S \ T)}
<1>1. IsGraph(G, SUBSET S) /\ \A X \in SUBSET S : G[X] = {g[X]}
  BY DEF IsGraph, Added
<1> HIDE DEF G
<1>2. ASSUME NEW U \in SUBSET S, \A x \in U : U \ {x} \in Q, NEW T \in SUBSET U
      PROVE  R(S \ T)
  <2> DEFINE X == S \ T
  <2>1. X \in SUBSET S /\ g[X] \in SUBSET S /\ X \subseteq g[X] /\ Reaches(G, X, X)
    BY <1>1, ReachesItself
  <2>2. CASE g[X] = X
    BY <2>1, <2>2
  <2>3. CASE g[X] # X
    <3> DEFINE V == S \ g[X]
    <3>1. PICK x \in S : x \in g[X] /\ x \notin X
      BY <2>1, <2>3
    <3>2. x \in U /\ V \in SUBSET (U \ {x}) /\ S \ V = g[X]
      BY <2>1, <3>1
    <3>3. U \ {x} \in Q
      BY <1>2, <3>2
    <3>4. R(S \ V)
      <4> HIDE DEF V, R
      <4> QED
        BY <3>2, <3>3
    <3>5. PICK B \in SUBSET S : Reaches(G, g[X], B) /\ g[B] = B
      BY <3>2, <3>4
    <3>6. Reaches(G, X, g[X])
      BY <1>1, <2>1, ReachesSuccessor
    <3>7. Reaches(G, X, B)
      BY <1>1, <3>5, <3>6, ReachesTransitive
    <3> QED
      BY <3>5, <3>7
  <2> QED
    BY <2>2, <2>3
<1>3. \A U \in SUBSET S : (\A x \in U : U \ {x} \in Q) => U \in Q
  BY <1>2
<1> HIDE DEF R, Q
<1>4. S \in Q
  BY <1>3, FiniteDescent
<1>5. R(S \ (S \ A))
  <2>1. S \ A \in SUBSET S
    OBVIOUS
  <2> QED
    BY <1>4, <2>1 DEF Q
<1>6. S \ (S \ A) = A
  OBVIOUS
<1>7. R(A)
  BY <1>5, <1>6
<1> QED
  BY <1>7 DEF R, G

\* Only one set is reached that nothing is added to.
LEMMA SaturatedOnce ==
  ASSUME NEW S, NEW g \in [SUBSET S -> SUBSET S], NEW A \in SUBSET S,
         NEW B \in SUBSET S, Reaches(Added(g, S), A, B), g[B] = B,
         NEW C \in SUBSET S, Reaches(Added(g, S), A, C), g[C] = C
  PROVE  B = C
<1> DEFINE G == Added(g, S)
           D == {X \in SUBSET S : Reaches(G, X, B)}
<1>1. IsGraph(G, SUBSET S) /\ \A X \in SUBSET S : G[X] = {g[X]} /\ g[X] \in SUBSET S
  BY DEF IsGraph, Added
<1> HIDE DEF G
<1>2. ASSUME NEW X \in D
      PROVE  g[X] \in D
  <2>1. CASE X = B
    BY <2>1
  <2>2. CASE X # B
    <3>1. X \in SUBSET S /\ Reaches(G, X, B)
      OBVIOUS
    <3>2. PICK w \in G[X] : Reaches(G, w, B)
      BY <1>1, <2>2, <3>1, ReachesByEdge
    <3> QED
      BY <1>1, <3>1, <3>2
  <2> QED
    BY <2>1, <2>2
<1>3. Closed(G, D) /\ D \in SUBSET DOMAIN G /\ A \in D
  <2>1. A \in D
    BY DEF G
  <2> HIDE DEF D
  <2>2. D \in SUBSET SUBSET S
    BY DEF D
  <2> QED
    BY <1>1, <1>2, <2>1, <2>2 DEF Closed, IsGraph
<1>4. C \in D
  <2> HIDE DEF D
  <2> QED
    BY <1>3 DEF Reaches, G
<1>5. Closed(G, {C}) /\ {C} \in SUBSET DOMAIN G
  BY <1>1 DEF Closed, IsGraph
<1> QED
  BY <1>4, <1>5 DEF Reaches

\* The recursive function that goes on until nothing is added exists.
LEMMA SaturationExists ==
  ASSUME NEW S, IsFiniteSet(S), NEW g \in [SUBSET S -> SUBSET S], \A A \in SUBSET S : A \subseteq g[A]
  PROVE  \E c : Saturates(c, g, S)
<1> DEFINE G == Added(g, S)
           End(A, B) == B \in SUBSET S /\ Reaches(G, A, B) /\ g[B] = B
           c == [A \in SUBSET S |-> CHOOSE B : End(A, B)]
<1>1. IsGraph(G, SUBSET S) /\ \A X \in SUBSET S : G[X] = {g[X]} /\ g[X] \in SUBSET S
  BY DEF IsGraph, Added
<1>2. \A A \in SUBSET S : \E B : End(A, B)
  BY SaturatedReached
<1>3. ASSUME NEW A \in SUBSET S, NEW B, End(A, B), NEW C, End(A, C)
      PROVE  B = C
  BY <1>3, SaturatedOnce
<1> HIDE DEF G
<1>4. \A A \in SUBSET S : g[A] = A => End(A, A)
  BY <1>1, ReachesItself
<1>5. ASSUME NEW A \in SUBSET S, NEW B, End(g[A], B)
      PROVE  End(A, B)
  <2>1. Reaches(G, A, g[A])
    BY <1>1, ReachesSuccessor
  <2> QED
    BY <1>1, <1>5, <2>1, ReachesTransitive
<1> HIDE DEF End
<1>6. \A A \in SUBSET S : End(A, c[A])
  BY <1>2
<1>7. \A A \in SUBSET S : c[A] = IF g[A] = A THEN A ELSE c[g[A]]
  BY <1>1, <1>3, <1>4, <1>5, <1>6
<1>8. c = [A \in SUBSET S |-> c[A]]
  OBVIOUS
<1> HIDE DEF c
<1>9. c = [A \in SUBSET S |-> IF g[A] = A THEN A ELSE c[g[A]]]
  BY <1>7, <1>8
<1> QED
  BY <1>9 DEF Saturates

\* The recursive function goes on, from any set, to one that nothing is added to
\* and that has every property kept on the way.
LEMMA SaturationIs ==
  ASSUME NEW S, IsFiniteSet(S), NEW g \in [SUBSET S -> SUBSET S], \A A \in SUBSET S : A \subseteq g[A],
         NEW c, Saturates(c, g, S)
  PROVE  \A A \in SUBSET S :
           /\ c[A] \in SUBSET S /\ g[c[A]] = c[A]
           /\ \A E \in SUBSET SUBSET S : A \in E /\ (\A X \in E : g[X] \in E) => c[A] \in E
<1> SUFFICES ASSUME NEW A \in SUBSET S
             PROVE  /\ c[A] \in SUBSET S /\ g[c[A]] = c[A]
                    /\ \A E \in SUBSET SUBSET S : A \in E /\ (\A X \in E : g[X] \in E) => c[A] \in E
  OBVIOUS
<1> DEFINE G == Added(g, S)
           D == {X \in SUBSET S : c[X] = c[A]}
<1>1. PICK B \in SUBSET S : Reaches(G, A, B) /\ g[B] = B
  BY SaturatedReached
<1>2. IsGraph(G, SUBSET S) /\ \A X \in SUBSET S : G[X] = {g[X]} /\ g[X] \in SUBSET S
  BY DEF IsGraph, Added
<1> HIDE DEF G
<1>3. \A X \in SUBSET S : c[X] = IF g[X] = X THEN X ELSE c[g[X]]
  BY DEF Saturates
<1>4. ASSUME NEW E \in SUBSET SUBSET S, A \in E, \A X \in E : g[X] \in E
      PROVE  B \in E
  <2>1. E \in SUBSET DOMAIN G /\ Closed(G, E)
    BY <1>2, <1>4 DEF Closed, IsGraph
  <2> QED
    BY <1>1, <1>4, <2>1 DEF Reaches
<1>5. B \in D
  <2>1. \A X \in D : g[X] \in D
    BY <1>2, <1>3
  <2>2. D \in SUBSET SUBSET S /\ A \in D
    OBVIOUS
  <2> HIDE DEF D
  <2> QED
    BY <1>4, <2>1, <2>2
<1>6. c[A] = B
  BY <1>1, <1>3, <1>5
<1> QED
  BY <1>1, <1>4, <1>6

-----------------------------------------------------------------------------
(* Sequences *)

\* A stack with another last element.
LEMMA LastReplaced ==
  ASSUME NEW S, NEW s \in Seq(S), s # <<>>, NEW v \in S, NEW t, t = [s EXCEPT ![Len(s)] = v]
  PROVE  /\ t \in Seq(S) /\ Len(t) = Len(s)
         /\ Len(s) \in 1 .. Len(s)
         /\ \A i \in 1 .. Len(s) : t[i] = IF i = Len(s) THEN v ELSE s[i]
<1>1. Len(s) \in 1 .. Len(s) /\ DOMAIN s = 1 .. Len(s)
  OBVIOUS
<1>2. t \in Seq(S)
  OBVIOUS
<1>3. DOMAIN t = 1 .. Len(s)
  BY <1>1
<1>4. Len(t) = Len(s)
  BY <1>2, <1>3
<1>5. \A i \in 1 .. Len(s) : t[i] = IF i = Len(s) THEN v ELSE s[i]
  BY <1>1
<1> QED
  BY <1>1, <1>2, <1>4, <1>5
-----------------------------------------------------------------------------
(* The profiles of Lasso *)

\* What is in a profile of paths between the states of D.
PathsIn(D) == D \X D \X Int \X BOOLEAN

\* Edges between the states of D.
Linking(edges, D) == \A e \in edges : e.from \in D /\ e.to \in D /\ e.weight \in Int

\* A path followed by another.
LEMMA JoinIs ==
  ASSUME NEW D, NEW x \in PathsIn(D), NEW y \in PathsIn(D)
  PROVE  /\ Join(x, y) \in PathsIn(D)
         /\ Join(x, y)[1] = x[1] /\ Join(x, y)[2] = y[2]
         /\ Join(x, y)[3] = IF x[3] < y[3] THEN y[3] ELSE x[3]
         /\ Join(x, y)[4] = (x[4] \/ y[4])
BY DEF Join, PathsIn

\* The members of PathsIn(D) by their parts.
LEMMA LinkParts ==
  ASSUME NEW D, NEW x \in PathsIn(D)
  PROVE  /\ x[1] \in D /\ x[2] \in D /\ x[3] \in Int /\ x[4] \in BOOLEAN
         /\ x = <<x[1], x[2], x[3], x[4]>>
BY DEF PathsIn

\* It does not matter which two of three paths are put together first.
LEMMA JoinAssociative ==
  ASSUME NEW D, NEW x \in PathsIn(D), NEW y \in PathsIn(D), NEW z \in PathsIn(D)
  PROVE  Join(Join(x, y), z) = Join(x, Join(y, z))
<1>1. Join(x, y) \in PathsIn(D) /\ Join(y, z) \in PathsIn(D)
  BY JoinIs
<1> DEFINE u == Join(x, y)
           w == Join(y, z)
<1>2. u[1] = x[1] /\ u[2] = y[2] /\ u[3] = (IF x[3] < y[3] THEN y[3] ELSE x[3]) /\ u[4] = (x[4] \/ y[4])
  BY JoinIs
<1>3. w[1] = y[1] /\ w[2] = z[2] /\ w[3] = (IF y[3] < z[3] THEN z[3] ELSE y[3]) /\ w[4] = (y[4] \/ z[4])
  BY JoinIs
<1>4. u \in PathsIn(D) /\ w \in PathsIn(D)
  BY <1>1
<1> HIDE DEF u, w
<1>5. x[3] \in Int /\ y[3] \in Int /\ z[3] \in Int
  BY LinkParts
<1>6. (IF u[3] < z[3] THEN z[3] ELSE u[3]) = (IF x[3] < w[3] THEN w[3] ELSE x[3])
  BY <1>2, <1>3, <1>5
<1>7. (u[4] \/ z[4]) = (x[4] \/ w[4])
  BY <1>2, <1>3
<1>8. Join(u, z) = Join(x, w)
  BY <1>2, <1>3, <1>6, <1>7 DEF Join
<1> QED
  BY <1>8 DEF u, w

\* What two profiles in a row have.
LEMMA ComposeHas ==
  ASSUME NEW P, NEW Q
  PROVE  /\ \A z \in Compose(P, Q) : \E x \in P, y \in Q : y[1] = x[2] /\ z = Join(x, y)
         /\ \A x \in P, y \in Q : y[1] = x[2] => Join(x, y) \in Compose(P, Q)
BY DEF Compose

\* Profiles in a row are a profile.
LEMMA ComposeLinks ==
  ASSUME NEW D, NEW P \in SUBSET PathsIn(D), NEW Q \in SUBSET PathsIn(D)
  PROVE  Compose(P, Q) \in SUBSET PathsIn(D)
<1> SUFFICES ASSUME NEW z \in Compose(P, Q)
             PROVE  z \in PathsIn(D)
  OBVIOUS
<1>1. PICK x \in P, y \in Q : y[1] = x[2] /\ z = Join(x, y)
  BY ComposeHas
<1> QED
  BY <1>1, JoinIs

\* More paths, more of them in a row.
LEMMA ComposeMonotonic ==
  ASSUME NEW P, NEW Q, NEW R, NEW T, P \subseteq R, Q \subseteq T
  PROVE  Compose(P, Q) \subseteq Compose(R, T)
<1> SUFFICES ASSUME NEW z \in Compose(P, Q)
             PROVE  z \in Compose(R, T)
  OBVIOUS
<1>1. PICK x \in P, y \in Q : y[1] = x[2] /\ z = Join(x, y)
  BY ComposeHas
<1> QED
  BY <1>1, ComposeHas

\* It does not matter which two of three profiles are put together first.
LEMMA ComposeAssociative ==
  ASSUME NEW D, NEW P \in SUBSET PathsIn(D), NEW Q \in SUBSET PathsIn(D), NEW R \in SUBSET PathsIn(D)
  PROVE  Compose(Compose(P, Q), R) = Compose(P, Compose(Q, R))
<1>1. ASSUME NEW z \in Compose(Compose(P, Q), R)
      PROVE  z \in Compose(P, Compose(Q, R))
  <2>1. PICK u \in Compose(P, Q), w \in R : w[1] = u[2] /\ z = Join(u, w)
    BY ComposeHas
  <2>2. PICK x \in P, y \in Q : y[1] = x[2] /\ u = Join(x, y)
    BY ComposeHas
  <2>0. x \in PathsIn(D) /\ y \in PathsIn(D) /\ w \in PathsIn(D)
    OBVIOUS
  <2>3. u[2] = y[2] /\ Join(y, w)[1] = y[1] /\ z = Join(x, Join(y, w))
    <3>1. Join(x, y)[2] = y[2] /\ Join(y, w)[1] = y[1]
      BY <2>0, JoinIs
    <3>2. Join(Join(x, y), w) = Join(x, Join(y, w))
      BY <2>0, JoinAssociative
    <3> QED
      BY <2>1, <2>2, <3>1, <3>2
  <2>4. Join(y, w) \in Compose(Q, R)
    BY <2>1, <2>3, ComposeHas
  <2> QED
    BY <2>2, <2>3, <2>4, ComposeHas
<1>2. ASSUME NEW z \in Compose(P, Compose(Q, R))
      PROVE  z \in Compose(Compose(P, Q), R)
  <2>1. PICK x \in P, u \in Compose(Q, R) : u[1] = x[2] /\ z = Join(x, u)
    BY ComposeHas
  <2>2. PICK y \in Q, w \in R : w[1] = y[2] /\ u = Join(y, w)
    BY ComposeHas
  <2>0. x \in PathsIn(D) /\ y \in PathsIn(D) /\ w \in PathsIn(D)
    OBVIOUS
  <2>3. u[1] = y[1] /\ Join(x, y)[2] = y[2] /\ z = Join(Join(x, y), w)
    <3>1. Join(x, y)[2] = y[2] /\ Join(y, w)[1] = y[1]
      BY <2>0, JoinIs
    <3>2. Join(Join(x, y), w) = Join(x, Join(y, w))
      BY <2>0, JoinAssociative
    <3> QED
      BY <2>1, <2>2, <3>1, <3>2
  <2>4. Join(x, y) \in Compose(P, Q)
    BY <2>1, <2>2, <2>3, ComposeHas
  <2> QED
    BY <2>2, <2>3, <2>4, ComposeHas
<1> QED
  BY <1>1, <1>2

\* The pairs of two finite sets are finitely many.
LEMMA FinitePairs ==
  ASSUME NEW S, NEW T, IsFiniteSet(S), IsFiniteSet(T)
  PROVE  IsFiniteSet(S \X T)
BY FS_Product

\* Profiles of finitely many paths, in a row, have finitely many.
LEMMA ComposeFinite ==
  ASSUME NEW P, NEW Q, IsFiniteSet(P), IsFiniteSet(Q)
  PROVE  IsFiniteSet(Compose(P, Q))
<1> DEFINE f == [w \in P \X Q |-> Join(w[1], w[2])]
<1>1. IsFiniteSet({f[w] : w \in P \X Q})
  BY FinitePairs, FiniteImage
<1>2. Compose(P, Q) \subseteq {f[w] : w \in P \X Q}
  <2> SUFFICES ASSUME NEW z \in Compose(P, Q)
               PROVE  \E w \in P \X Q : z = f[w]
    OBVIOUS
  <2>1. PICK x \in P, y \in Q : y[1] = x[2] /\ z = Join(x, y)
    BY ComposeHas
  <2>2. <<x, y>> \in P \X Q /\ f[<<x, y>>] = Join(x, y)
    OBVIOUS
  <2> QED
    BY <2>1, <2>2
<1> QED
  BY <1>1, <1>2, FS_Subset

\* What the profile of a symbol has.
LEMMA LetterHas ==
  ASSUME NEW edges, NEW final, NEW a
  PROVE  /\ \A x \in LetterProfile(edges, final, a) :
              \E e \in edges : e.symbol = a /\ x = <<e.from, e.to, e.weight, e.from \in final \/ e.to \in final>>
         /\ \A e \in edges : e.symbol = a =>
              <<e.from, e.to, e.weight, e.from \in final \/ e.to \in final>> \in LetterProfile(edges, final, a)
BY DEF LetterProfile

\* The profile of a symbol is one.
LEMMA LetterLinks ==
  ASSUME NEW D, NEW edges, NEW final, NEW a, Linking(edges, D)
  PROVE  LetterProfile(edges, final, a) \in SUBSET PathsIn(D)
<1> SUFFICES ASSUME NEW x \in LetterProfile(edges, final, a)
             PROVE  x \in PathsIn(D)
  OBVIOUS
<1>1. PICK e \in edges : e.symbol = a /\ x = <<e.from, e.to, e.weight, e.from \in final \/ e.to \in final>>
  BY LetterHas
<1>2. e.from \in D /\ e.to \in D /\ e.weight \in Int /\ (e.from \in final \/ e.to \in final) \in BOOLEAN
  BY DEF Linking
<1> QED
  BY <1>1, <1>2 DEF PathsIn

\* It has finitely many.
LEMMA LetterFinite ==
  ASSUME NEW edges, NEW final, NEW a, IsFiniteSet(edges)
  PROVE  IsFiniteSet(LetterProfile(edges, final, a))
<1> DEFINE f == [e \in edges |-> <<e.from, e.to, e.weight, e.from \in final \/ e.to \in final>>]
<1>1. IsFiniteSet({f[e] : e \in edges})
  BY FiniteImage
<1>2. LetterProfile(edges, final, a) \subseteq {f[e] : e \in edges}
  BY DEF LetterProfile
<1> QED
  BY <1>1, <1>2, FS_Subset

\* What holds for the words of one symbol, and with a word for what is longer
\* by one, holds for all words.
LEMMA WordInduction ==
  ASSUME NEW A, NEW T, \A a \in A : <<a>> \in T,
         \A w \in Seq(A), a \in A : w # <<>> /\ w \in T => Append(w, a) \in T
  PROVE  \A w \in Seq(A) : w # <<>> => w \in T
<1> DEFINE N == {n \in Nat : \A w \in Seq(A) : Len(w) = n + 1 => w \in T}
<1>1. 0 \in N
  <2> SUFFICES ASSUME NEW w \in Seq(A), Len(w) = 1
               PROVE  w \in T
    OBVIOUS
  <2>1. w = <<w[1]>> /\ w[1] \in A
    OBVIOUS
  <2> QED
    BY <2>1
<1>2. ASSUME NEW n \in Nat, n \in N
      PROVE  n + 1 \in N
  <2> SUFFICES ASSUME NEW w \in Seq(A), Len(w) = n + 2
               PROVE  w \in T
    OBVIOUS
  <2> DEFINE u == SubSeq(w, 1, n + 1)
             a == w[n + 2]
  <2>1. u \in Seq(A) /\ Len(u) = n + 1 /\ a \in A
    OBVIOUS
  <2>2. w = Append(u, a)
    OBVIOUS
  <2>3. u \in T /\ u # <<>>
    <3> HIDE DEF u
    <3>1. u # <<>>
      BY <2>1
    <3> QED
      BY <1>2, <2>1, <3>1
  <2> HIDE DEF u, a
  <2> QED
    BY <2>1, <2>2, <2>3
<1> HIDE DEF N
<1>3. Nat \subseteq N
  BY <1>1, <1>2, SetInduction
<1>4. ASSUME NEW w \in Seq(A), w # <<>>
      PROVE  w \in T
  <2>1. Len(w) - 1 \in Nat /\ Len(w) = (Len(w) - 1) + 1
    <3>1. Len(w) \in Nat /\ Len(w) # 0
      BY <1>4, EmptySeq
    <3> QED
      BY <3>1
  <2>2. Len(w) - 1 \in N
    BY <1>3, <2>1
  <2> QED
    BY <2>1, <2>2 DEF N
<1> QED
  BY <1>4

\* The profiles of the beginnings of a word, by the number of further symbols.
Upto(h, D, edges, final, v) ==
  /\ h \in [0..(Len(v) - 1) -> SUBSET PathsIn(D)]
  /\ h[0] = LetterProfile(edges, final, v[1])
  /\ \A k \in 1..(Len(v) - 1) : h[k] = Compose(h[k - 1], LetterProfile(edges, final, v[k + 1]))

\* WordProfile goes through them.
LEMMA WordUpto ==
  ASSUME NEW D, NEW edges, NEW final, Linking(edges, D), NEW A, NEW v \in Seq(A), v # <<>>
  PROVE  \E h : Upto(h, D, edges, final, v) /\ WordProfile(edges, final, v) = h[Len(v) - 1]
<1> DEFINE N == Len(v) - 1
           letter(k) == LetterProfile(edges, final, v[k])
           Def(h) == [k \in 0..N |-> IF k = 0 THEN letter(1) ELSE Compose(h[k - 1], letter(k + 1))]
           S == SUBSET PathsIn(D)
           step == [x \in (1..N) \X S |-> Compose(x[2], letter(x[1] + 1))]
           base == letter(1)
<1>1. N \in Nat
  OBVIOUS
<1>2. \A k : letter(k) \in S
  BY LetterLinks
<1>3. WordProfile(edges, final, v) = (CHOOSE g : g = Def(g))[N]
  BY DEF WordProfile
<1> HIDE DEF letter, N
<1>4. \A k, P : P \in S => Compose(P, letter(k)) \in S
  BY <1>2, ComposeLinks
<1>5. base \in S
  BY <1>2
<1> HIDE DEF S
<1>6. step \in [(1..N) \X S -> S]
  BY <1>4
<1>7. \A k \in 1..N, P \in S : step[<<k, P>>] = Compose(P, letter(k + 1))
  OBVIOUS
<1> HIDE DEF step, base
<1>8. PICK h : Iterates(h, N, S, base, step)
  BY <1>1, <1>5, <1>6, Recursion
<1>9. ASSUME NEW k \in 1..N
      PROVE  h[k] = Compose(h[k - 1], letter(k + 1))
  <2>1. h[k - 1] \in S
    BY <1>1, <1>8 DEF Iterates
  <2> QED
    BY <1>7, <1>8, <2>1 DEF Iterates
<1>10. h = Def(h)
  <2>1. \A k \in 0..N : h[k] = Def(h)[k]
    BY <1>1, <1>8, <1>9 DEF base, Iterates
  <2> QED
    BY <2>1, <1>8 DEF Iterates
<1> DEFINE g == CHOOSE x : x = Def(x)
<1>11. g = Def(g)
  BY <1>10
<1>12. WordProfile(edges, final, v) = g[N]
  BY <1>3
<1> HIDE DEF g
<1>13. /\ g[0] = letter(1) /\ \A k \in 1..N : g[k] = Compose(g[k - 1], letter(k + 1))
       /\ g = [k \in 0..N |-> g[k]]
  <2>1. \A k \in 0..N : Def(g)[k] = IF k = 0 THEN letter(1) ELSE Compose(g[k - 1], letter(k + 1))
    OBVIOUS
  <2>2. DOMAIN Def(g) = 0..N /\ Def(g) = [k \in 0..N |-> Def(g)[k]]
    OBVIOUS
  <2> HIDE DEF Def
  <2> QED
    BY <1>1, <1>11, <2>1, <2>2
<1> DEFINE T == {k \in 0..N : g[k] \in S}
<1>14. 0 \in T
  BY <1>1, <1>2, <1>13 DEF S
<1>15. \A k \in 0..(N - 1) : k \in T => k + 1 \in T
  <2> SUFFICES ASSUME NEW k \in 0..(N - 1), k \in T
               PROVE  k + 1 \in T
    OBVIOUS
  <2>1. k + 1 \in 1..N /\ (k + 1) - 1 = k /\ (k + 1) + 1 = k + 2 /\ g[k] \in S
    BY <1>1
  <2>2. g[k + 1] = Compose(g[k], letter(k + 2))
    BY <1>13, <2>1
  <2> QED
    BY <1>1, <1>4, <2>1, <2>2
<1> HIDE DEF T
<1>16. 0..N \subseteq T
  BY <1>1, <1>14, <1>15, BoundedInduction
<1>17. g \in [0..N -> S]
  BY <1>13, <1>16 DEF T
<1>18. Upto(g, D, edges, final, v)
  BY <1>13, <1>17 DEF Upto, N, S, letter
<1> QED
  BY <1>12, <1>18 DEF N
\* The profile of a word of one symbol.
LEMMA WordOne ==
  ASSUME NEW D, NEW edges, NEW final, Linking(edges, D), NEW a
  PROVE  WordProfile(edges, final, <<a>>) = LetterProfile(edges, final, a)
<1> DEFINE v == <<a>>
<1>1. v \in Seq({a}) /\ v # <<>> /\ Len(v) = 1 /\ v[1] = a
  OBVIOUS
<1> HIDE DEF v
<1>2. PICK h : Upto(h, D, edges, final, v) /\ WordProfile(edges, final, v) = h[Len(v) - 1]
  BY <1>1, WordUpto
<1> QED
  BY <1>1, <1>2 DEF Upto, v

\* That of a longer word.
LEMMA WordAppend ==
  ASSUME NEW D, NEW edges, NEW final, Linking(edges, D), NEW A, NEW v \in Seq(A), v # <<>>, NEW a \in A
  PROVE  WordProfile(edges, final, Append(v, a)) =
           Compose(WordProfile(edges, final, v), LetterProfile(edges, final, a))
<1> DEFINE w == Append(v, a)
           N == Len(v)
           S == SUBSET PathsIn(D)
           base == LetterProfile(edges, final, v[1])
           step == [x \in (1..N) \X S |-> Compose(x[2], LetterProfile(edges, final, w[x[1] + 1]))]
<1>1. w \in Seq(A) /\ Len(w) = N + 1 /\ w # <<>> /\ w[N + 1] = a /\ N \in Nat /\ N >= 1
  BY EmptySeq
<1>2. \A k \in 1..N : w[k] = v[k]
  OBVIOUS
<1> HIDE DEF w, N
<1>3. PICK g : Upto(g, D, edges, final, w) /\ WordProfile(edges, final, w) = g[Len(w) - 1]
  BY <1>1, WordUpto
<1>4. PICK h : Upto(h, D, edges, final, v) /\ WordProfile(edges, final, v) = h[Len(v) - 1]
  BY WordUpto
<1>5. \A k \in 1..N, P \in S : step[<<k, P>>] = Compose(P, LetterProfile(edges, final, w[k + 1]))
  OBVIOUS
<1> HIDE DEF step, S, base
<1>6. Len(w) - 1 = N
  BY <1>1
<1>7. g \in [0..N -> S] /\ \A k \in 1..N : g[k] = Compose(g[k - 1], LetterProfile(edges, final, w[k + 1]))
  BY <1>3, <1>6 DEF Upto, S
<1>8. g[0] = base
  BY <1>1, <1>2, <1>3 DEF Upto, base
<1>9. h \in [0..(N - 1) -> S] /\ h[0] = base /\ \A k \in 1..(N - 1) : h[k] = Compose(h[k - 1], LetterProfile(edges, final, v[k + 1]))
  BY <1>4 DEF Upto, base, S, N
<1>10. Iterates(g, N, S, base, step)
  <2> SUFFICES ASSUME NEW k \in 1..N
               PROVE  g[k] = step[<<k, g[k - 1]>>]
    BY <1>7, <1>8 DEF Iterates
  <2>1. g[k - 1] \in S
    BY <1>1, <1>7
  <2> QED
    BY <1>5, <1>7, <2>1
<1>11. Iterates(h, N - 1, S, base, step)
  <2> SUFFICES ASSUME NEW k \in 1..(N - 1)
               PROVE  h[k] = step[<<k, h[k - 1]>>]
    BY <1>9 DEF Iterates
  <2>1. h[k - 1] \in S /\ k \in 1..N /\ w[k + 1] = v[k + 1]
    BY <1>1, <1>2, <1>9
  <2> QED
    BY <1>5, <1>9, <2>1
<1>12. h[N - 1] = g[N - 1]
  <2> DEFINE m == N - 1
  <2>1. m \in Nat /\ m <= N /\ m \in 0..m
    BY <1>1
  <2>2. Iterates(h, m, S, base, step)
    BY <1>11
  <2> HIDE DEF m
  <2>3. \A k \in 0..m : h[k] = g[k]
    BY <1>1, <1>10, <2>1, <2>2, IteratesAgree
  <2> QED
    BY <2>1, <2>3 DEF m
<1>13. g[N] = Compose(g[N - 1], LetterProfile(edges, final, a))
  BY <1>1, <1>7
<1> QED
  BY <1>3, <1>4, <1>6, <1>12, <1>13 DEF w, N

\* The profile of a word is one.
LEMMA WordLinks ==
  ASSUME NEW D, NEW edges, NEW final, Linking(edges, D), NEW A, NEW v \in Seq(A), v # <<>>
  PROVE  WordProfile(edges, final, v) \in SUBSET PathsIn(D)
<1>1. PICK h : Upto(h, D, edges, final, v) /\ WordProfile(edges, final, v) = h[Len(v) - 1]
  BY WordUpto
<1>2. Len(v) - 1 \in 0..(Len(v) - 1)
  BY EmptySeq
<1> QED
  BY <1>1, <1>2 DEF Upto

\* It has finitely many.
LEMMA WordFinite ==
  ASSUME NEW D, NEW edges, NEW final, Linking(edges, D), IsFiniteSet(edges),
         NEW A, NEW v \in Seq(A), v # <<>>
  PROVE  IsFiniteSet(WordProfile(edges, final, v))
<1> DEFINE T == {w \in Seq(A) : IsFiniteSet(WordProfile(edges, final, w))}
<1>1. \A a \in A : <<a>> \in T
  <2> SUFFICES ASSUME NEW a \in A
               PROVE  <<a>> \in T
    OBVIOUS
  <2>1. WordProfile(edges, final, <<a>>) = LetterProfile(edges, final, a)
    BY WordOne
  <2>2. <<a>> \in Seq(A)
    OBVIOUS
  <2>3. IsFiniteSet(WordProfile(edges, final, <<a>>))
    BY <2>1, LetterFinite
  <2> QED
    BY <2>2, <2>3
<1>2. \A w \in Seq(A), a \in A : w # <<>> /\ w \in T => Append(w, a) \in T
  BY WordAppend, LetterFinite, ComposeFinite
<1> HIDE DEF T
<1>3. v \in T
  BY <1>1, <1>2, WordInduction
<1> QED
  BY <1>3 DEF T

\* That of two words in a row.
LEMMA WordConcat ==
  ASSUME NEW D, NEW edges, NEW final, Linking(edges, D), NEW A,
         NEW v \in Seq(A), v # <<>>, NEW w \in Seq(A), w # <<>>
  PROVE  /\ v \o w \in Seq(A) /\ v \o w # <<>>
         /\ WordProfile(edges, final, v \o w) =
              Compose(WordProfile(edges, final, v), WordProfile(edges, final, w))
<1> DEFINE WP(u) == WordProfile(edges, final, u)
           T == {u \in Seq(A) : v \o u # <<>> /\ WP(v \o u) = Compose(WP(v), WP(u))}
<1>1. ASSUME NEW a \in A
      PROVE  <<a>> \in T
  <2>1. v \o <<a>> = Append(v, a) /\ Append(v, a) # <<>> /\ <<a>> \in Seq(A)
    OBVIOUS
  <2>2. WP(Append(v, a)) = Compose(WP(v), WP(<<a>>))
    BY WordAppend, WordOne
  <2> HIDE DEF WP
  <2> QED
    BY <2>1, <2>2
<1>2. ASSUME NEW u \in Seq(A), NEW a \in A, u # <<>>, u \in T
      PROVE  Append(u, a) \in T
  <2>1. v \o Append(u, a) = Append(v \o u, a) /\ v \o u \in Seq(A) /\ Append(u, a) \in Seq(A)
    OBVIOUS
  <2>2. Append(v \o u, a) # <<>> /\ v \o u # <<>>
    <3>1. Append(v \o u, a) # <<>>
      <4> DEFINE y == v \o u
      <4>1. y \in Seq(A)
        OBVIOUS
      <4> HIDE DEF y
      <4>2. Append(y, a) # <<>>
        BY <4>1
      <4> QED
        BY <4>2 DEF y
    <3> QED
      BY <1>2, <3>1
  <2>3. WP(Append(v \o u, a)) = Compose(WP(v \o u), LetterProfile(edges, final, a))
    <3> DEFINE y == v \o u
    <3>1. y \in Seq(A) /\ y # <<>>
      BY <2>1, <2>2
    <3> HIDE DEF y
    <3>2. WP(Append(y, a)) = Compose(WP(y), LetterProfile(edges, final, a))
      BY <3>1, WordAppend
    <3> QED
      BY <3>2 DEF y
  <2>4. WP(Append(u, a)) = Compose(WP(u), LetterProfile(edges, final, a))
    BY <1>2, WordAppend
  <2>5. Compose(Compose(WP(v), WP(u)), LetterProfile(edges, final, a))
          = Compose(WP(v), Compose(WP(u), LetterProfile(edges, final, a)))
    <3>1. WP(v) \in SUBSET PathsIn(D) /\ WP(u) \in SUBSET PathsIn(D)
      BY <1>2, WordLinks
    <3>2. LetterProfile(edges, final, a) \in SUBSET PathsIn(D)
      BY LetterLinks
    <3> DEFINE P == WP(v)
               Q == WP(u)
               R == LetterProfile(edges, final, a)
    <3>3. P \in SUBSET PathsIn(D) /\ Q \in SUBSET PathsIn(D) /\ R \in SUBSET PathsIn(D)
      BY <3>1, <3>2
    <3> HIDE DEF P, Q, R
    <3>4. Compose(Compose(P, Q), R) = Compose(P, Compose(Q, R))
      BY <3>3, ComposeAssociative
    <3> QED
      BY <3>4 DEF P, Q, R
  <2>6. WP(v \o u) = Compose(WP(v), WP(u))
    BY <1>2
  <2> HIDE DEF WP
  <2> QED
    BY <2>1, <2>2, <2>3, <2>4, <2>5, <2>6
<1> HIDE DEF T
<1>3. w \in T
  BY <1>1, <1>2, WordInduction
<1>4. v \o w \in Seq(A)
  OBVIOUS
<1> QED
  BY <1>3, <1>4 DEF T
\* There are finitely many combinations of what finitely many paths have.
LEMMA CombinationsFinite ==
  ASSUME NEW P, IsFiniteSet(P)
  PROVE  IsFiniteSet(Combinations(P))
<1> DEFINE part(i) == {x[i] : x \in P}
           f1 == [x \in P |-> x[1]]
           f2 == [x \in P |-> x[2]]
           f3 == [x \in P |-> x[3]]
           all == ((part(1) \X part(2)) \X part(3)) \X BOOLEAN
           f == [w \in all |-> <<w[1][1][1], w[1][1][2], w[1][2], w[2]>>]
<1>1. IsFiniteSet(part(1)) /\ IsFiniteSet(part(2)) /\ IsFiniteSet(part(3))
  <2>1. part(1) = {f1[x] : x \in P} /\ part(2) = {f2[x] : x \in P} /\ part(3) = {f3[x] : x \in P}
    OBVIOUS
  <2>2. IsFiniteSet({f1[x] : x \in P}) /\ IsFiniteSet({f2[x] : x \in P}) /\ IsFiniteSet({f3[x] : x \in P})
    BY FiniteImage
  <2> QED
    BY <2>1, <2>2
<1>2. IsFiniteSet(BOOLEAN)
  <2>1. BOOLEAN = ({} \cup {TRUE}) \cup {FALSE}
    OBVIOUS
  <2> QED
    BY <2>1, FS_EmptySet, FS_AddElement
<1>3. Combinations(P) = part(1) \X part(2) \X part(3) \X BOOLEAN
  BY DEF Combinations
<1> HIDE DEF part
<1>4. IsFiniteSet(all)
  BY <1>1, <1>2, FinitePairs
<1>5. IsFiniteSet({f[w] : w \in all})
  <2> HIDE DEF all
  <2> QED
    BY <1>4, FiniteImage
<1>6. Combinations(P) \subseteq {f[w] : w \in all}
  <2> SUFFICES ASSUME NEW a \in part(1), NEW b \in part(2), NEW c \in part(3), NEW d \in BOOLEAN
               PROVE  \E w \in all : <<a, b, c, d>> = f[w]
    BY <1>3
  <2>1. <<<<<<a, b>>, c>>, d>> \in all
    OBVIOUS
  <2>2. f[<<<<<<a, b>>, c>>, d>>] = <<a, b, c, d>>
    BY <2>1
  <2> QED
    BY <2>1, <2>2
<1> QED
  BY <1>5, <1>6, FS_Subset

\* Repetitions are the least set that has the profile once, and with a path
\* the same path followed by the profile once more.
LEMMA RepeatedIs ==
  ASSUME NEW D, NEW P \in SUBSET PathsIn(D), IsFiniteSet(P)
  PROVE  /\ Repeated(P) \in SUBSET PathsIn(D)
         /\ P \subseteq Repeated(P)
         /\ Compose(Repeated(P), P) \subseteq Repeated(P)
         /\ \A X : P \subseteq X /\ Compose(X, P) \subseteq X => Repeated(P) \subseteq X
<1> DEFINE S == Combinations(P)
           next(Q) == Q \cup Compose(Q, P)
           g == [A \in SUBSET S |-> next(A)]
           Def(c) == [Q \in SUBSET Combinations(P) |-> IF next(Q) = Q THEN Q ELSE c[next(Q)]]
           c == CHOOSE h : h = Def(h)
<1>1. Repeated(P) = c[P]
  BY DEF Repeated
<1>2. IsFiniteSet(S)
  BY CombinationsFinite
<1>3. \A x \in P : x[4] \in BOOLEAN /\ x = <<x[1], x[2], x[3], x[4]>>
  BY LinkParts
<1>4. P \in SUBSET S
  <2> SUFFICES ASSUME NEW x \in P
               PROVE  x \in S
    OBVIOUS
  <2>1. <<x[1], x[2], x[3], x[4]>> \in S
    BY <1>3 DEF Combinations
  <2> QED
    BY <1>3, <2>1
<1>5. S \subseteq PathsIn(D)
  <2> SUFFICES ASSUME NEW x \in P, NEW y \in P, NEW z \in P, NEW b \in BOOLEAN
               PROVE  <<x[1], y[2], z[3], b>> \in PathsIn(D)
    BY DEF Combinations
  <2>1. x[1] \in D /\ y[2] \in D /\ z[3] \in Int
    BY LinkParts
  <2> QED
    BY <2>1 DEF PathsIn
<1>6. \A A \in SUBSET S : next(A) \in SUBSET S /\ A \subseteq next(A)
  <2> SUFFICES ASSUME NEW A \in SUBSET S, NEW z \in Compose(A, P)
               PROVE  z \in S
    OBVIOUS
  <2>1. PICK x \in A, y \in P : y[1] = x[2] /\ z = Join(x, y)
    BY ComposeHas
  <2>2. x[1] \in {u[1] : u \in P} /\ x[3] \in {u[3] : u \in P} /\ x[4] \in BOOLEAN
    BY DEF Combinations
  <2>3. y[2] \in {u[2] : u \in P} /\ y[3] \in {u[3] : u \in P}
    OBVIOUS
  <2>4. (IF x[3] < y[3] THEN y[3] ELSE x[3]) \in {u[3] : u \in P} /\ (x[4] \/ y[4]) \in BOOLEAN
    BY <2>2, <2>3
  <2> QED
    BY <2>1, <2>2, <2>3, <2>4 DEF Combinations, Join
<1> HIDE DEF next, S
<1>7. g \in [SUBSET S -> SUBSET S] /\ \A A \in SUBSET S : g[A] = next(A) /\ A \subseteq g[A]
  BY <1>6
<1>8. \A h : h = Def(h) <=> Saturates(h, g, S)
  BY <1>7 DEF Saturates, S
<1> HIDE DEF g, Def
<1>9. \E h : h = Def(h)
  BY <1>2, <1>7, <1>8, SaturationExists
<1>10. c = Def(c)
  BY <1>9
<1> HIDE DEF c
<1>11. Saturates(c, g, S)
  BY <1>8, <1>10
<1>12. /\ c[P] \in SUBSET S /\ g[c[P]] = c[P]
       /\ \A E \in SUBSET SUBSET S : P \in E /\ (\A A \in E : g[A] \in E) => c[P] \in E
  <2>1. g \in [SUBSET S -> SUBSET S] /\ \A A \in SUBSET S : A \subseteq g[A]
    BY <1>7
  <2>2. \A A \in SUBSET S :
          /\ c[A] \in SUBSET S /\ g[c[A]] = c[A]
          /\ \A E \in SUBSET SUBSET S : A \in E /\ (\A X \in E : g[X] \in E) => c[A] \in E
    BY <1>2, <1>11, <2>1, SaturationIs
  <2> QED
    BY <1>4, <2>2
<1>14. ASSUME NEW X, P \subseteq X, Compose(X, P) \subseteq X
       PROVE  c[P] \subseteq X
  <2> DEFINE E == {A \in SUBSET S : A \subseteq X}
  <2>1. \A A \in E : next(A) \in E
    <3> SUFFICES ASSUME NEW A \in E
                 PROVE  next(A) \subseteq X
      BY <1>6
    <3>1. Compose(A, P) \subseteq Compose(X, P)
      BY ComposeMonotonic
    <3> QED
      BY <1>14, <3>1 DEF next
  <2>2. P \in E /\ E \in SUBSET SUBSET S
    BY <1>4, <1>14
  <2> HIDE DEF E
  <2>3. \A A \in E : g[A] \in E
    BY <1>7, <2>1, <2>2
  <2>4. c[P] \in E
    BY <1>12, <2>2, <2>3
  <2> QED
    BY <2>4 DEF E
<1>15. P \subseteq c[P]
  <2> DEFINE E == {A \in SUBSET S : P \subseteq A}
  <2>1. \A A \in E : next(A) \in E
    BY <1>6
  <2>2. P \in E /\ E \in SUBSET SUBSET S
    BY <1>4
  <2> HIDE DEF E
  <2>3. \A A \in E : g[A] \in E
    BY <1>7, <2>1, <2>2
  <2>4. c[P] \in E
    BY <1>12, <2>2, <2>3
  <2> QED
    BY <2>4 DEF E
<1>16. next(c[P]) = c[P]
  BY <1>7, <1>12
<1>17. Compose(c[P], P) \subseteq c[P]
  BY <1>16 DEF next
<1> QED
  BY <1>1, <1>5, <1>12, <1>14, <1>15, <1>17

\* Some repetitions followed by some more are repetitions.
LEMMA RepeatedTwice ==
  ASSUME NEW D, NEW P \in SUBSET PathsIn(D), IsFiniteSet(P)
  PROVE  Compose(Repeated(P), Repeated(P)) \subseteq Repeated(P)
<1> DEFINE R == Repeated(P)
           X == {y \in PathsIn(D) : \A x \in R : y[1] = x[2] => Join(x, y) \in R}
<1>1. R \in SUBSET PathsIn(D) /\ P \subseteq R /\ Compose(R, P) \subseteq R
  BY RepeatedIs
<1>2. P \subseteq X
  BY <1>1, ComposeHas
<1>3. Compose(X, P) \subseteq X
  <2> SUFFICES ASSUME NEW y \in X, NEW z \in P, z[1] = y[2]
               PROVE  Join(y, z) \in X
    BY ComposeHas
  <2>1. y \in PathsIn(D) /\ z \in PathsIn(D) /\ Join(y, z) \in PathsIn(D) /\ Join(y, z)[1] = y[1]
    <3>1. y \in PathsIn(D) /\ z \in PathsIn(D)
      OBVIOUS
    <3> QED
      BY <3>1, JoinIs
  <2>2. ASSUME NEW x \in R, y[1] = x[2]
        PROVE  Join(x, Join(y, z)) \in R
    <3>1. x \in PathsIn(D) /\ Join(x, y) \in R
      BY <1>1, <2>2
    <3>2. Join(x, y)[2] = y[2]
      BY <2>1, <3>1, JoinIs
    <3>3. Join(Join(x, y), z) \in Compose(R, P)
      BY <3>1, <3>2, ComposeHas
    <3>4. Join(Join(x, y), z) = Join(x, Join(y, z))
      BY <2>1, <3>1, JoinAssociative
    <3> QED
      BY <1>1, <3>3, <3>4
  <2> QED
    BY <2>1, <2>2
<1> HIDE DEF X
<1>4. R \subseteq X
  BY <1>2, <1>3, RepeatedIs
<1> QED
  BY <1>4, ComposeHas DEF X

-----------------------------------------------------------------------------
(***************************************************************************)
(* What Accepts says, and words that it says the same of                   *)
(***************************************************************************)

\* Where the paths of a profile lead from the states of U.
Image(P, U) == {x[2] : x \in {y \in P : y[1] \in U}}

\* A path leads its first state, if in U, to its last.
LEMMA ImageHas ==
  ASSUME NEW P, NEW U
  PROVE  /\ \A x \in P : x[1] \in U => x[2] \in Image(P, U)
         /\ \A t \in Image(P, U) : \E x \in P : x[1] \in U /\ x[2] = t
BY DEF Image

\* What Accepts says: a path with a final state, heavy enough, from a state
\* back to it, the state being in U or at the end of a path from there.
AcceptedBy(x, P, U, t) ==
  /\ x \in Repeated(P) /\ x[1] = x[2] /\ x[3] >= t /\ x[4]
  /\ x[1] \in U \/ x[1] \in Image(Repeated(P), U)
LEMMA AcceptsIs ==
  ASSUME NEW P, NEW U, NEW t
  PROVE  Accepts(P, U, t) <=> \E x : AcceptedBy(x, P, U, t)
BY DEF Accepts, AcceptedBy, Image

\* Two profiles in a row lead where one leads to from where the other does.
LEMMA ImageCompose ==
  ASSUME NEW D, NEW P \in SUBSET PathsIn(D), NEW Q \in SUBSET PathsIn(D), NEW U
  PROVE  Image(Compose(P, Q), U) = Image(Q, Image(P, U))
<1>1. ASSUME NEW t \in Image(Compose(P, Q), U)
      PROVE  t \in Image(Q, Image(P, U))
  <2>1. PICK z \in Compose(P, Q) : z[1] \in U /\ z[2] = t
    BY ImageHas
  <2>2. PICK x \in P, y \in Q : y[1] = x[2] /\ z = Join(x, y)
    BY ComposeHas
  <2>3. x \in PathsIn(D) /\ y \in PathsIn(D)
    OBVIOUS
  <2>4. z[1] = x[1] /\ z[2] = y[2]
    BY <2>2, <2>3, JoinIs
  <2>5. y[1] \in Image(P, U)
    BY <2>1, <2>2, <2>4, ImageHas
  <2> QED
    BY <2>1, <2>4, <2>5, ImageHas
<1>2. ASSUME NEW t \in Image(Q, Image(P, U))
      PROVE  t \in Image(Compose(P, Q), U)
  <2>1. PICK y \in Q : y[1] \in Image(P, U) /\ y[2] = t
    BY ImageHas
  <2>2. PICK x \in P : x[1] \in U /\ x[2] = y[1]
    BY <2>1, ImageHas
  <2>3. x \in PathsIn(D) /\ y \in PathsIn(D)
    OBVIOUS
  <2>4. Join(x, y) \in Compose(P, Q) /\ Join(x, y)[1] = x[1] /\ Join(x, y)[2] = y[2]
    BY <2>2, <2>3, JoinIs, ComposeHas
  <2> QED
    BY <2>1, <2>2, <2>4, ImageHas
<1> QED
  BY <1>1, <1>2

\* More paths and more states lead to more states.
LEMMA ImageMonotonic ==
  ASSUME NEW P, NEW Q, NEW U, NEW V, P \subseteq Q, U \subseteq V
  PROVE  Image(P, U) \subseteq Image(Q, V)
BY DEF Image

\* From more states a word is accepted no less, and for less no less.
LEMMA AcceptsMore ==
  ASSUME NEW P, NEW U, NEW V, U \subseteq V, NEW t \in Int, NEW u \in Int, u <= t,
         NEW D, P \in SUBSET PathsIn(D), IsFiniteSet(P), Accepts(P, U, t)
  PROVE  Accepts(P, V, u)
<1>1. PICK x : AcceptedBy(x, P, U, t)
  BY AcceptsIs
<1>2. x \in PathsIn(D)
  BY <1>1, RepeatedIs DEF AcceptedBy
<1>3. x[3] \in Int
  BY <1>2, LinkParts
<1>4. Image(Repeated(P), U) \subseteq Image(Repeated(P), V)
  BY ImageMonotonic
<1>5. AcceptedBy(x, P, V, u)
  BY <1>1, <1>3, <1>4 DEF AcceptedBy
<1> QED
  BY <1>5, AcceptsIs

\* What a profile of repetitions can be repeated to, the repetitions have.
LEMMA RepeatedSub ==
  ASSUME NEW D, NEW P \in SUBSET PathsIn(D), IsFiniteSet(P),
         NEW Q \in SUBSET PathsIn(D), IsFiniteSet(Q), Q \subseteq Repeated(P)
  PROVE  Repeated(Q) \subseteq Repeated(P)
<1>1. Compose(Repeated(P), Q) \subseteq Compose(Repeated(P), Repeated(P))
  BY ComposeMonotonic
<1>2. Compose(Repeated(P), Q) \subseteq Repeated(P)
  BY <1>1, RepeatedTwice
<1> QED
  BY <1>2, RepeatedIs

\* What is accepted later, by some repetitions, is accepted.
LEMMA AcceptsLater ==
  ASSUME NEW D, NEW P \in SUBSET PathsIn(D), IsFiniteSet(P),
         NEW Q \in SUBSET PathsIn(D), IsFiniteSet(Q), Q \subseteq Repeated(P),
         NEW R, R \subseteq Repeated(P), NEW U, NEW t, Accepts(Q, Image(R, U), t)
  PROVE  Accepts(P, U, t)
<1> DEFINE S == Repeated(P)
<1>1. PICK x : AcceptedBy(x, Q, Image(R, U), t)
  BY AcceptsIs
<1>2. Repeated(Q) \subseteq S
  BY RepeatedSub
<1>3. S \in SUBSET PathsIn(D) /\ Compose(S, S) \subseteq S
  BY RepeatedIs, RepeatedTwice
<1> HIDE DEF S
<1>4. Image(R, U) \subseteq Image(S, U)
  BY ImageMonotonic DEF S
<1>5. Image(Repeated(Q), Image(R, U)) \subseteq Image(S, Image(S, U))
  BY <1>2, <1>4, ImageMonotonic
<1>6. Image(S, Image(S, U)) \subseteq Image(S, U)
  <2>1. Image(S, Image(S, U)) = Image(Compose(S, S), U)
    BY <1>3, ImageCompose
  <2> QED
    BY <1>3, <2>1, ImageMonotonic
<1>7. AcceptedBy(x, P, U, t)
  BY <1>1, <1>2, <1>4, <1>5, <1>6 DEF AcceptedBy, S
<1> QED
  BY <1>7, AcceptsIs

\* Path y does what x does, and no less.
NoLess(y, x) == y[1] = x[1] /\ y[2] = x[2] /\ x[3] <= y[3] /\ (x[4] => y[4])
\* P does from W, without leaving it, what Q does.
DominatedIn(P, Q, W) == \A x \in P : x[1] \in W => x[2] \in W /\ \E y \in Q : NoLess(y, x)

\* The same of paths in a row.
LEMMA NoLessJoin ==
  ASSUME NEW D, NEW x \in PathsIn(D), NEW y \in PathsIn(D), NEW u \in PathsIn(D), NEW v \in PathsIn(D),
         NoLess(y, x), NoLess(v, u)
  PROVE  NoLess(Join(y, v), Join(x, u))
<1>1. x[3] \in Int /\ y[3] \in Int /\ u[3] \in Int /\ v[3] \in Int
  BY LinkParts
<1>2. /\ Join(x, u)[1] = x[1] /\ Join(x, u)[2] = u[2]
      /\ Join(x, u)[3] = (IF x[3] < u[3] THEN u[3] ELSE x[3])
      /\ Join(x, u)[4] = (x[4] \/ u[4])
  BY JoinIs
<1>3. /\ Join(y, v)[1] = y[1] /\ Join(y, v)[2] = v[2]
      /\ Join(y, v)[3] = (IF y[3] < v[3] THEN v[3] ELSE y[3])
      /\ Join(y, v)[4] = (y[4] \/ v[4])
  BY JoinIs
<1>4. Join(x, u)[3] <= Join(y, v)[3]
  BY <1>1, <1>2, <1>3 DEF NoLess
<1>5. Join(x, u)[4] => Join(y, v)[4]
  BY <1>2, <1>3 DEF NoLess
<1> QED
  BY <1>2, <1>3, <1>4, <1>5 DEF NoLess

\* And of repetitions.
LEMMA RepeatedDominated ==
  ASSUME NEW D, NEW P \in SUBSET PathsIn(D), IsFiniteSet(P),
         NEW Q \in SUBSET PathsIn(D), IsFiniteSet(Q), NEW W, DominatedIn(P, Q, W)
  PROVE  DominatedIn(Repeated(P), Repeated(Q), W)
<1> DEFINE X == {x \in PathsIn(D) : x[1] \in W => x[2] \in W /\ \E y \in Repeated(Q) : NoLess(y, x)}
<1>1. Repeated(Q) \in SUBSET PathsIn(D) /\ Q \subseteq Repeated(Q) /\ Compose(Repeated(Q), Q) \subseteq Repeated(Q)
  BY RepeatedIs
<1>2. P \subseteq X
  BY <1>1 DEF DominatedIn
<1>3. Compose(X, P) \subseteq X
  <2> SUFFICES ASSUME NEW x \in X, NEW z \in P, z[1] = x[2]
               PROVE  Join(x, z) \in X
    BY ComposeHas
  <2>1. x \in PathsIn(D) /\ z \in PathsIn(D)
    OBVIOUS
  <2>2. Join(x, z) \in PathsIn(D) /\ Join(x, z)[1] = x[1] /\ Join(x, z)[2] = z[2]
    BY <2>1, JoinIs
  <2>3. ASSUME x[1] \in W
        PROVE  z[2] \in W /\ \E v \in Repeated(Q) : NoLess(v, Join(x, z))
    <3>1. PICK y \in Repeated(Q) : x[2] \in W /\ NoLess(y, x)
      BY <2>3
    <3>2. z[2] \in W /\ \E u \in Q : NoLess(u, z)
      BY <3>1 DEF DominatedIn
    <3>3. PICK u \in Q : NoLess(u, z)
      BY <3>2
    <3>4. y \in PathsIn(D) /\ u \in PathsIn(D)
      BY <1>1
    <3>5. NoLess(Join(y, u), Join(x, z))
      BY <2>1, <3>1, <3>3, <3>4, NoLessJoin
    <3>6. u[1] = y[2]
      BY <3>1, <3>3 DEF NoLess
    <3>7. Join(y, u) \in Repeated(Q)
      BY <1>1, <3>6, ComposeHas
    <3> QED
      BY <3>2, <3>5, <3>7
  <2> QED
    BY <2>2, <2>3
<1> HIDE DEF X
<1>4. Repeated(P) \subseteq X
  BY <1>2, <1>3, RepeatedIs
<1> QED
  BY <1>4 DEF X, DominatedIn

\* What a word is accepted for, a word that does no less is.
LEMMA AcceptsDominated ==
  ASSUME NEW D, NEW P \in SUBSET PathsIn(D), IsFiniteSet(P),
         NEW Q \in SUBSET PathsIn(D), IsFiniteSet(Q), NEW W, DominatedIn(P, Q, W),
         NEW U \in SUBSET W, NEW t \in Int, Accepts(P, U, t)
  PROVE  Accepts(Q, U, t)
<1>1. PICK x : AcceptedBy(x, P, U, t)
  BY AcceptsIs
<1>2. DominatedIn(Repeated(P), Repeated(Q), W)
  BY RepeatedDominated
<1>3. Repeated(Q) \in SUBSET PathsIn(D) /\ Repeated(P) \in SUBSET PathsIn(D)
  BY RepeatedIs
<1>4. x[1] \in W
  <2>1. CASE x[1] \in U
    BY <2>1
  <2>2. CASE x[1] \in Image(Repeated(P), U)
    <3>1. PICK z \in Repeated(P) : z[1] \in U /\ z[2] = x[1]
      BY <2>2, ImageHas
    <3> QED
      BY <1>2, <3>1 DEF DominatedIn
  <2> QED
    BY <1>1, <2>1, <2>2 DEF AcceptedBy
<1>5. PICK y \in Repeated(Q) : NoLess(y, x)
  BY <1>1, <1>2, <1>4 DEF AcceptedBy, DominatedIn
<1>6. x \in PathsIn(D) /\ y \in PathsIn(D)
  BY <1>1, <1>3 DEF AcceptedBy
<1>7. x[3] \in Int /\ y[3] \in Int
  BY <1>6, LinkParts
<1>8. y[1] = y[2] /\ y[3] >= t /\ y[4]
  BY <1>1, <1>5, <1>7 DEF AcceptedBy, NoLess
<1>9. y[1] \in U \/ y[1] \in Image(Repeated(Q), U)
  <2>1. CASE x[1] \in U
    BY <1>5, <2>1 DEF NoLess
  <2>2. CASE x[1] \in Image(Repeated(P), U)
    <3>1. PICK z \in Repeated(P) : z[1] \in U /\ z[2] = x[1]
      BY <2>2, ImageHas
    <3>2. PICK v \in Repeated(Q) : NoLess(v, z)
      BY <1>2, <3>1 DEF DominatedIn
    <3>3. v[1] \in U /\ v[2] = y[1]
      BY <1>5, <3>1, <3>2 DEF NoLess
    <3> QED
      BY <3>3, ImageHas
  <2> QED
    BY <1>1, <2>1, <2>2 DEF AcceptedBy
<1>10. AcceptedBy(y, Q, U, t)
  BY <1>8, <1>9 DEF AcceptedBy
<1> QED
  BY <1>10, AcceptsIs

\* A repetition of Q P is a path g and then one of P, where g, after any path
\* of P, is a repetition of P Q.
TurnedRound(x, g, y, P, R, D) ==
  /\ g \in PathsIn(D) /\ y \in P /\ y[1] = g[2] /\ x = Join(g, y)
  /\ \A z \in P : z[2] = g[1] => Join(z, g) \in R
LEMMA RepeatedTurned ==
  ASSUME NEW D, NEW P \in SUBSET PathsIn(D), IsFiniteSet(P),
         NEW Q \in SUBSET PathsIn(D), IsFiniteSet(Q),
         NEW x \in Repeated(Compose(Q, P))
  PROVE  \E g, y : TurnedRound(x, g, y, P, Repeated(Compose(P, Q)), D)
<1> DEFINE R == Repeated(Compose(P, Q))
           X == {u \in PathsIn(D) : \E g, y : TurnedRound(u, g, y, P, R, D)}
<1>1. /\ Compose(P, Q) \in SUBSET PathsIn(D) /\ IsFiniteSet(Compose(P, Q))
      /\ Compose(Q, P) \in SUBSET PathsIn(D) /\ IsFiniteSet(Compose(Q, P))
  BY ComposeLinks, ComposeFinite
<1>2. R \in SUBSET PathsIn(D) /\ Compose(P, Q) \subseteq R /\ Compose(R, Compose(P, Q)) \subseteq R
  BY <1>1, RepeatedIs
<1> HIDE DEF R
<1>3. ASSUME NEW u \in Compose(Q, P)
      PROVE  u \in X
  <2>1. PICK q \in Q, p \in P : p[1] = q[2] /\ u = Join(q, p)
    BY ComposeHas
  <2>2. \A z \in P : z[2] = q[1] => Join(z, q) \in R
    BY <1>2, ComposeHas
  <2>3. TurnedRound(u, q, p, P, R, D)
    BY <2>1, <2>2 DEF TurnedRound
  <2> QED
    BY <1>1, <2>3
<1>4. ASSUME NEW u \in X, NEW v \in Compose(Q, P), v[1] = u[2]
      PROVE  Join(u, v) \in X
  <2>1. PICK g, y : TurnedRound(u, g, y, P, R, D)
    OBVIOUS
  <2>2. PICK q \in Q, p \in P : p[1] = q[2] /\ v = Join(q, p)
    BY ComposeHas
  <2>3. g \in PathsIn(D) /\ y \in PathsIn(D) /\ q \in PathsIn(D) /\ p \in PathsIn(D)
    BY <2>1 DEF TurnedRound
  <2> DEFINE h == Join(g, Join(y, q))
  <2>4. v[1] = q[1] /\ u[2] = y[2]
    BY <2>1, <2>2, <2>3, JoinIs DEF TurnedRound
  <2>5. Join(y, q) \in PathsIn(D) /\ Join(y, q) \in Compose(P, Q) /\ Join(y, q)[1] = y[1] /\ Join(y, q)[2] = q[2]
    <3>1. Join(y, q) \in PathsIn(D) /\ Join(y, q)[1] = y[1] /\ Join(y, q)[2] = q[2]
      BY <2>3, JoinIs
    <3>2. y \in P /\ q[1] = y[2]
      BY <1>4, <2>1, <2>4 DEF TurnedRound
    <3> QED
      BY <3>1, <3>2, ComposeHas
  <2>6. h \in PathsIn(D) /\ h[1] = g[1] /\ h[2] = q[2]
    BY <2>3, <2>5, JoinIs
  <2>7. Join(u, v) = Join(h, p)
    <3>1. Join(u, v) = Join(Join(g, y), Join(q, p))
      BY <2>1, <2>2 DEF TurnedRound
    <3>2. Join(g, y) \in PathsIn(D)
      BY <2>3, JoinIs
    <3>3. Join(Join(g, y), Join(q, p)) = Join(Join(Join(g, y), q), p)
      BY <2>3, <3>2, JoinAssociative
    <3>4. Join(Join(g, y), q) = h
      BY <2>3, JoinAssociative
    <3> QED
      BY <3>1, <3>3, <3>4
  <2>8. \A z \in P : z[2] = h[1] => Join(z, h) \in R
    <3> SUFFICES ASSUME NEW z \in P, z[2] = g[1]
                 PROVE  Join(z, h) \in R
      BY <2>6
    <3>1. Join(z, g) \in R /\ z \in PathsIn(D)
      BY <2>1 DEF TurnedRound
    <3>2. Join(z, g)[2] = g[2]
      BY <2>3, <3>1, JoinIs
    <3>3. Join(y, q)[1] = Join(z, g)[2]
      BY <2>1, <2>5, <3>2 DEF TurnedRound
    <3>4. Join(Join(z, g), Join(y, q)) \in R
      BY <1>2, <2>5, <3>1, <3>3, ComposeHas
    <3>5. Join(Join(z, g), Join(y, q)) = Join(z, h)
      BY <2>3, <2>5, <3>1, JoinAssociative
    <3> QED
      BY <3>4, <3>5
  <2>9. TurnedRound(Join(u, v), h, p, P, R, D)
    BY <2>2, <2>6, <2>7, <2>8 DEF TurnedRound
  <2>10. Join(u, v) \in PathsIn(D)
    <3>1. u \in PathsIn(D) /\ v \in PathsIn(D)
      BY <1>1
    <3> QED
      BY <3>1, JoinIs
  <2> QED
    BY <2>9, <2>10
<1> HIDE DEF X
<1>5. Compose(Q, P) \subseteq X
  BY <1>3
<1>6. Compose(X, Compose(Q, P)) \subseteq X
  BY <1>4, ComposeHas
<1>7. Repeated(Compose(Q, P)) \subseteq X
  BY <1>1, <1>5, <1>6, RepeatedIs
<1> QED
  BY <1>7 DEF X, R

\* A word that is accepted where another leads may be taken with it first.
LEMMA AcceptsRotated ==
  ASSUME NEW D, NEW P \in SUBSET PathsIn(D), IsFiniteSet(P),
         NEW Q \in SUBSET PathsIn(D), IsFiniteSet(Q), NEW U, NEW t,
         Accepts(Compose(Q, P), Image(P, U), t)
  PROVE  Accepts(Compose(P, Q), U, t)
<1> DEFINE R == Repeated(Compose(P, Q))
           T == Repeated(Compose(Q, P))
<1>1. /\ Compose(P, Q) \in SUBSET PathsIn(D) /\ IsFiniteSet(Compose(P, Q))
      /\ Compose(Q, P) \in SUBSET PathsIn(D) /\ IsFiniteSet(Compose(Q, P))
  BY ComposeLinks, ComposeFinite
<1>2. R \in SUBSET PathsIn(D) /\ T \in SUBSET PathsIn(D) /\ Compose(R, R) \subseteq R
  BY <1>1, RepeatedIs, RepeatedTwice
<1>3. PICK x : AcceptedBy(x, Compose(Q, P), Image(P, U), t)
  BY AcceptsIs
<1>4. \A u \in T : \E g, y : TurnedRound(u, g, y, P, R, D)
  BY RepeatedTurned
<1> HIDE DEF R, T
<1>5. x \in T /\ x[1] = x[2] /\ x[3] >= t /\ x[4] /\ (x[1] \in Image(P, U) \/ x[1] \in Image(T, Image(P, U)))
  BY <1>3 DEF AcceptedBy, T
<1>6. PICK g, y : TurnedRound(x, g, y, P, R, D)
  BY <1>4, <1>5
<1>7. g \in PathsIn(D) /\ y \in PathsIn(D) /\ y \in P /\ y[1] = g[2] /\ x = Join(g, y)
  BY <1>6 DEF TurnedRound
<1>8. x[1] = g[1] /\ x[2] = y[2] /\ x[3] = (IF g[3] < y[3] THEN y[3] ELSE g[3]) /\ x[4] = (g[4] \/ y[4])
  BY <1>7, JoinIs
<1> DEFINE l == Join(y, g)
<1>9. l \in R
  BY <1>5, <1>6, <1>7, <1>8 DEF TurnedRound
<1>10. l[1] = y[1] /\ l[2] = g[2] /\ l[3] = (IF y[3] < g[3] THEN g[3] ELSE y[3]) /\ l[4] = (y[4] \/ g[4])
  BY <1>7, JoinIs
<1> HIDE DEF l
<1>11. l[3] = x[3] /\ l[1] = l[2] /\ l[4]
  <2>1. y[3] \in Int /\ g[3] \in Int
    BY <1>7, LinkParts
  <2> QED
    BY <1>5, <1>7, <1>8, <1>10, <2>1
<1>12. ASSUME NEW z \in P, z[2] = x[1]
       PROVE  Join(z, g) \in R /\ Join(z, g)[1] = z[1] /\ Join(z, g)[2] = l[1]
  <2>1. z \in PathsIn(D)
    OBVIOUS
  <2>2. Join(z, g)[1] = z[1] /\ Join(z, g)[2] = g[2]
    BY <1>7, <2>1, JoinIs
  <2> QED
    BY <1>6, <1>7, <1>8, <1>10, <1>12, <2>2 DEF TurnedRound
<1>13. l[1] \in Image(R, U)
  <2>1. CASE x[1] \in Image(P, U)
    <3>1. PICK z \in P : z[1] \in U /\ z[2] = x[1]
      BY <2>1, ImageHas
    <3> QED
      BY <1>12, <3>1, ImageHas
  <2>2. CASE x[1] \in Image(T, Image(P, U))
    <3>1. PICK v \in T : v[1] \in Image(P, U) /\ v[2] = x[1]
      BY <2>2, ImageHas
    <3>2. PICK z \in P : z[1] \in U /\ z[2] = v[1]
      BY <3>1, ImageHas
    <3>3. PICK h, w : TurnedRound(v, h, w, P, R, D)
      BY <1>4
    <3>4. h \in PathsIn(D) /\ w \in PathsIn(D) /\ w \in P /\ w[1] = h[2] /\ v = Join(h, w)
      BY <3>3 DEF TurnedRound
    <3>5. v[1] = h[1] /\ v[2] = w[2]
      BY <3>4, JoinIs
    <3>6. Join(z, h) \in R /\ Join(z, h)[1] = z[1] /\ Join(z, h)[2] = h[2]
      <4>1. z \in PathsIn(D)
        OBVIOUS
      <4> QED
        BY <3>2, <3>3, <3>4, <3>5, <4>1, JoinIs DEF TurnedRound
    <3>7. Join(w, g) \in R /\ Join(w, g)[1] = w[1] /\ Join(w, g)[2] = l[1]
      BY <1>12, <3>1, <3>4, <3>5
    <3>8. h[2] \in Image(R, U)
      BY <3>2, <3>6, ImageHas
    <3>9. l[1] \in Image(R, Image(R, U))
      BY <3>4, <3>7, <3>8, ImageHas
    <3>10. Image(R, Image(R, U)) = Image(Compose(R, R), U)
      BY <1>2, ImageCompose
    <3> QED
      BY <1>2, <3>9, <3>10, ImageMonotonic
  <2> QED
    BY <1>5, <2>1, <2>2
<1>14. AcceptedBy(l, Compose(P, Q), U, t)
  BY <1>5, <1>9, <1>11, <1>13 DEF AcceptedBy, R
<1> QED
  BY <1>14, AcceptsIs

\* In a finite set in which something follows on everything, and what follows
\* on what follows does too, something that follows follows on itself.
LEMMA Recurrence ==
  ASSUME NEW D, IsFiniteSet(D), NEW R,
         \A x \in D : \E y \in D : <<x, y>> \in R,
         \A x, y, z \in D : <<x, y>> \in R /\ <<y, z>> \in R => <<x, z>> \in R,
         NEW x \in D
  PROVE  \E y \in D : <<x, y>> \in R /\ <<y, y>> \in R
<1> DEFINE C == {y \in D : <<x, y>> \in R}
           G == [y \in C |-> {z \in C : <<y, z>> \in R}]
<1>1. IsFiniteSet(C) /\ C # {} /\ C \subseteq D
  BY FS_Subset
<1>2. \A y \in C, z \in D : <<y, z>> \in R => z \in C
  OBVIOUS
<1>3. \A y \in C : <<x, y>> \in R
  OBVIOUS
<1> HIDE DEF C
<1>4. IsGraph(G, C) /\ \A y \in C : G[y] = {z \in C : <<y, z>> \in R}
  BY DEF IsGraph
<1> HIDE DEF G
<1>5. PICK s \in C : \A t \in C : Reaches(G, s, t) => Reaches(G, t, s)
  BY <1>1, <1>4, BottomState
<1>6. PICK t \in C : <<s, t>> \in R
  BY <1>1, <1>2
<1>7. Reaches(G, t, s)
  <2>1. t \in G[s]
    BY <1>4, <1>6
  <2>2. Reaches(G, s, t)
    BY <1>4, <2>1, ReachesSuccessor
  <2> QED
    BY <1>5, <2>2
<1>8. s = t \/ <<t, s>> \in R
  <2> DEFINE E == {t} \cup G[t]
  <2>1. E \in SUBSET C
    BY <1>4
  <2>2. Closed(G, E)
    <3> SUFFICES ASSUME NEW u \in E, NEW v \in G[u]
                 PROVE  v \in G[t]
      BY DEF Closed
    <3>1. CASE u = t
      BY <3>1
    <3>2. CASE u \in G[t]
      <4>1. u \in C /\ <<t, u>> \in R
        BY <1>4, <3>2
      <4>2. v \in C /\ <<u, v>> \in R
        BY <1>4, <4>1
      <4>3. <<t, v>> \in R
        BY <1>1, <4>1, <4>2
      <4> QED
        BY <1>4, <4>2, <4>3
    <3> QED
      BY <3>1, <3>2
  <2>3. t \in E
    OBVIOUS
  <2> HIDE DEF E
  <2>4. DOMAIN G = C
    BY <1>4 DEF IsGraph
  <2>5. s \in E
    BY <1>7, <2>1, <2>2, <2>3, <2>4 DEF Reaches
  <2> QED
    BY <1>4, <2>5 DEF E
<1>9. <<s, s>> \in R
  BY <1>1, <1>6, <1>8
<1> QED
  BY <1>1, <1>3, <1>9

\* A word that leads on from every state, through final states alone and by
\* weights of at least t, is accepted from any state.
LEMMA AcceptsTotal ==
  ASSUME NEW D, IsFiniteSet(D), NEW P \in SUBSET PathsIn(D), IsFiniteSet(P), NEW t \in Int,
         \A q \in D : \E x \in P : x[1] = q,
         \A x \in P : x[3] >= t /\ x[4],
         NEW U \in SUBSET D, U # {}
  PROVE  Accepts(P, U, t)
<1> DEFINE R == {<<x[1], x[2]>> : x \in Repeated(P)}
           X == {x \in PathsIn(D) : x[3] >= t /\ x[4]}
<1>1. Repeated(P) \in SUBSET PathsIn(D) /\ P \subseteq Repeated(P)
  BY RepeatedIs
<1>2. Repeated(P) \subseteq X
  <2>1. P \subseteq X
    OBVIOUS
  <2>2. Compose(X, P) \subseteq X
    <3> SUFFICES ASSUME NEW x \in X, NEW y \in P, y[1] = x[2]
                 PROVE  Join(x, y) \in X
      BY ComposeHas
    <3>1. x \in PathsIn(D) /\ y \in PathsIn(D)
      OBVIOUS
    <3>2. x[3] \in Int /\ y[3] \in Int
      BY <3>1, LinkParts
    <3>3. Join(x, y)[3] = (IF x[3] < y[3] THEN y[3] ELSE x[3]) /\ Join(x, y)[4] = (x[4] \/ y[4])
      BY <3>1, JoinIs
    <3>4. Join(x, y)[3] >= t
      BY <3>2, <3>3
    <3>5. Join(x, y)[4]
      BY <3>3
    <3>6. Join(x, y) \in PathsIn(D)
      BY <3>1, JoinIs
    <3> QED
      BY <3>4, <3>5, <3>6
  <2> HIDE DEF X
  <2> QED
    BY <2>1, <2>2, RepeatedIs
<1> HIDE DEF X
<1>3. \A x \in D : \E y \in D : <<x, y>> \in R
  <2> SUFFICES ASSUME NEW q \in D
               PROVE  \E y \in D : <<q, y>> \in R
    OBVIOUS
  <2>1. PICK x \in P : x[1] = q
    OBVIOUS
  <2>2. x[2] \in D
    BY LinkParts
  <2> QED
    BY <1>1, <2>1, <2>2
<1>4. \A x, y, z \in D : <<x, y>> \in R /\ <<y, z>> \in R => <<x, z>> \in R
  <2> SUFFICES ASSUME NEW x \in Repeated(P), NEW y \in Repeated(P), y[1] = x[2]
               PROVE  <<x[1], y[2]>> \in R
    OBVIOUS
  <2>1. Join(x, y) \in Repeated(P)
    BY RepeatedTwice, ComposeHas
  <2>2. x \in PathsIn(D) /\ y \in PathsIn(D)
    BY <1>1
  <2>3. Join(x, y)[1] = x[1] /\ Join(x, y)[2] = y[2]
    BY <2>2, JoinIs
  <2> QED
    BY <2>1, <2>3
<1>5. PICK u \in U : u \in D
  OBVIOUS
<1> HIDE DEF R
<1>6. PICK y \in D : <<u, y>> \in R /\ <<y, y>> \in R
  <2>1. \A x \in D : \E y \in D : <<x, y>> \in R /\ <<y, y>> \in R
    BY <1>3, <1>4, Recurrence
  <2> QED
    BY <1>5, <2>1
<1>7. PICK x \in Repeated(P) : x[1] = y /\ x[2] = y
  BY <1>6 DEF R
<1>8. PICK z \in Repeated(P) : z[1] = u /\ z[2] = y
  BY <1>6 DEF R
<1>9. x[1] \in Image(Repeated(P), U)
  BY <1>5, <1>7, <1>8, ImageHas
<1>10. AcceptedBy(x, P, U, t)
  BY <1>2, <1>7, <1>9 DEF AcceptedBy, X
<1> QED
  BY <1>10, AcceptsIs

-----------------------------------------------------------------------------
(* The paths of words *)

\* A path that starts or ends in a final state has one on it.
LEMMA ProfileEnds ==
  ASSUME NEW D, NEW edges, NEW final, Linking(edges, D), NEW A, NEW v \in Seq(A), v # <<>>
  PROVE  \A x \in WordProfile(edges, final, v) : x[1] \in final \/ x[2] \in final => x[4]
<1> DEFINE T == {w \in Seq(A) : w # <<>> /\
                   \A x \in WordProfile(edges, final, w) : x[1] \in final \/ x[2] \in final => x[4]}
<1>1. ASSUME NEW a \in A
      PROVE  <<a>> \in T
  <2>1. <<a>> \in Seq(A) /\ <<a>> # <<>>
    OBVIOUS
  <2>2. WordProfile(edges, final, <<a>>) = LetterProfile(edges, final, a)
    BY WordOne
  <2>3. ASSUME NEW x \in LetterProfile(edges, final, a), x[1] \in final \/ x[2] \in final
        PROVE  x[4]
    <3>1. PICK e \in edges : x = <<e.from, e.to, e.weight, e.from \in final \/ e.to \in final>>
      BY LetterHas
    <3>2. x[1] = e.from /\ x[2] = e.to /\ x[4] = (e.from \in final \/ e.to \in final)
      BY <3>1
    <3> QED
      BY <2>3, <3>2
  <2> QED
    BY <2>1, <2>2, <2>3
<1>2. ASSUME NEW w \in Seq(A), NEW a \in A, w # <<>>, w \in T
      PROVE  Append(w, a) \in T
  <2> DEFINE P == WordProfile(edges, final, w)
             Q == LetterProfile(edges, final, a)
  <2>1. WordProfile(edges, final, Append(w, a)) = Compose(P, Q)
    BY <1>2, WordAppend
  <2>2. P \in SUBSET PathsIn(D) /\ Q \in SUBSET PathsIn(D)
    BY <1>2, WordLinks, LetterLinks
  <2>3. \A x \in P : x[1] \in final \/ x[2] \in final => x[4]
    BY <1>2
  <2>4. \A x \in Q : x[1] \in final \/ x[2] \in final => x[4]
    <3> SUFFICES ASSUME NEW x \in Q, x[1] \in final \/ x[2] \in final
                 PROVE  x[4]
      OBVIOUS
    <3>1. PICK e \in edges : x = <<e.from, e.to, e.weight, e.from \in final \/ e.to \in final>>
      BY LetterHas
    <3>2. x[1] = e.from /\ x[2] = e.to /\ x[4] = (e.from \in final \/ e.to \in final)
      BY <3>1
    <3> QED
      BY <3>2
  <2> HIDE DEF P, Q
  <2>5. ASSUME NEW z \in Compose(P, Q), z[1] \in final \/ z[2] \in final
        PROVE  z[4]
    <3>1. PICK x \in P, y \in Q : y[1] = x[2] /\ z = Join(x, y)
      BY ComposeHas
    <3>2. x \in PathsIn(D) /\ y \in PathsIn(D)
      BY <2>2
    <3>3. z[1] = x[1] /\ z[2] = y[2] /\ z[4] = (x[4] \/ y[4])
      BY <3>1, <3>2, JoinIs
    <3>4. x[4] \/ y[4]
      BY <2>3, <2>4, <2>5, <3>3
    <3> QED
      BY <3>3, <3>4
  <2>6. Append(w, a) \in Seq(A) /\ Append(w, a) # <<>>
    OBVIOUS
  <2> QED
    BY <2>1, <2>5, <2>6
<1> HIDE DEF T
<1>3. v \in T
  BY <1>1, <1>2, WordInduction
<1> QED
  BY <1>3 DEF T

\* The path of a word has an edge of its weight: the first, or one where the
\* word and the path may be divided.
Heavy(edges, q, c) == \E e \in edges : e.from = q /\ e.weight = c
Divided(edges, final, w, x, w1, w2, y, z) ==
  /\ w = w1 \o w2
  /\ y \in WordProfile(edges, final, w1) /\ z \in WordProfile(edges, final, w2)
  /\ z[1] = y[2] /\ x = Join(y, z) /\ Heavy(edges, z[1], x[3])
LEMMA HeaviestSplit ==
  ASSUME NEW D, NEW edges, NEW final, Linking(edges, D), NEW A, NEW v \in Seq(A), v # <<>>,
         NEW x \in WordProfile(edges, final, v)
  PROVE  \/ Heavy(edges, x[1], x[3])
         \/ \E w1, w2 \in Seq(A) : \E y, z :
              w1 # <<>> /\ w2 # <<>> /\ Divided(edges, final, v, x, w1, w2, y, z)
<1> DEFINE WP(w) == WordProfile(edges, final, w)
           Splits(w, u) == \E w1, w2 \in Seq(A) : \E y, z :
                             w1 # <<>> /\ w2 # <<>> /\ Divided(edges, final, w, u, w1, w2, y, z)
           T == {w \in Seq(A) : w # <<>> /\ \A u \in WP(w) : Heavy(edges, u[1], u[3]) \/ Splits(w, u)}
<1>0. \A s, t \in Seq(A), b \in A : Append(s \o t, b) = s \o Append(t, b)
  OBVIOUS
<1>1. ASSUME NEW a \in A
      PROVE  <<a>> \in T
  <2>1. <<a>> \in Seq(A) /\ <<a>> # <<>>
    OBVIOUS
  <2>2. WP(<<a>>) = LetterProfile(edges, final, a)
    BY WordOne
  <2>3. ASSUME NEW u \in LetterProfile(edges, final, a)
        PROVE  Heavy(edges, u[1], u[3])
    <3>1. PICK e \in edges : u = <<e.from, e.to, e.weight, e.from \in final \/ e.to \in final>>
      BY LetterHas
    <3>2. u[1] = e.from /\ u[3] = e.weight
      BY <3>1
    <3> QED
      BY <3>2 DEF Heavy
  <2> HIDE DEF WP, Splits
  <2> QED
    BY <2>1, <2>2, <2>3
<1>2. ASSUME NEW w \in Seq(A), NEW a \in A, w # <<>>, w \in T
      PROVE  Append(w, a) \in T
  <2> DEFINE Q == LetterProfile(edges, final, a)
  <2>1. WP(Append(w, a)) = Compose(WP(w), Q)
    BY <1>2, WordAppend
  <2>2. WP(w) \in SUBSET PathsIn(D) /\ Q \in SUBSET PathsIn(D)
    BY <1>2, WordLinks, LetterLinks
  <2>3. WP(<<a>>) = Q /\ <<a>> \in Seq(A) /\ <<a>> # <<>> /\ Append(w, a) = w \o <<a>>
    BY WordOne
  <2>4. \A u \in Q : Heavy(edges, u[1], u[3])
    <3> SUFFICES ASSUME NEW u \in Q
                 PROVE  Heavy(edges, u[1], u[3])
      OBVIOUS
    <3>1. PICK e \in edges : u = <<e.from, e.to, e.weight, e.from \in final \/ e.to \in final>>
      BY LetterHas
    <3>2. u[1] = e.from /\ u[3] = e.weight
      BY <3>1
    <3> QED
      BY <3>2 DEF Heavy
  <2>5. ASSUME NEW u \in WP(w), NEW z \in Q, z[1] = u[2]
        PROVE  Heavy(edges, Join(u, z)[1], Join(u, z)[3]) \/ Splits(Append(w, a), Join(u, z))
    <3>1. u \in PathsIn(D) /\ z \in PathsIn(D)
      BY <2>2
    <3>2. Join(u, z)[1] = u[1] /\ Join(u, z)[3] = (IF u[3] < z[3] THEN z[3] ELSE u[3])
      BY <3>1, JoinIs
    <3>3. CASE Join(u, z)[3] = z[3]
      <4>1. Heavy(edges, z[1], Join(u, z)[3])
        BY <2>4, <3>3
      <4>2. u \in WordProfile(edges, final, w) /\ z \in WordProfile(edges, final, <<a>>)
        BY <2>3
      <4>3. Divided(edges, final, Append(w, a), Join(u, z), w, <<a>>, u, z)
        BY <2>3, <2>5, <4>1, <4>2 DEF Divided
      <4>4. w \in Seq(A) /\ <<a>> \in Seq(A) /\ <<a>> # <<>>
        BY <2>3
      <4> DEFINE b == <<a>>
      <4>5. b \in Seq(A) /\ b # <<>> /\ Divided(edges, final, Append(w, a), Join(u, z), w, b, u, z)
        BY <4>3, <4>4
      <4> HIDE DEF b
      <4> QED
        BY <1>2, <4>5
    <3>4. CASE Join(u, z)[3] # z[3]
      <4>1. Join(u, z)[3] = u[3]
        BY <3>2, <3>4
      <4>2. CASE Heavy(edges, u[1], u[3])
        BY <3>2, <4>1, <4>2
      <4>3. CASE Splits(w, u)
        <5>0. PICK w1 \in Seq(A), w2 \in Seq(A) : \E y, x2 :
                w1 # <<>> /\ w2 # <<>> /\ Divided(edges, final, w, u, w1, w2, y, x2)
          BY <4>3
        <5>1. PICK y, x2 : w1 # <<>> /\ w2 # <<>> /\ Divided(edges, final, w, u, w1, w2, y, x2)
          BY <5>0
        <5>2. /\ w = w1 \o w2 /\ y \in WordProfile(edges, final, w1)
              /\ x2 \in WordProfile(edges, final, w2)
              /\ x2[1] = y[2] /\ u = Join(y, x2) /\ Heavy(edges, x2[1], u[3])
          BY <5>1 DEF Divided
        <5>3. y \in PathsIn(D) /\ x2 \in PathsIn(D)
          BY <5>0, <5>1, <5>2, WordLinks
        <5>4. u[2] = x2[2]
          BY <5>2, <5>3, JoinIs
        <5> DEFINE w3 == Append(w2, a)
        <5>5. w3 \in Seq(A) /\ w3 # <<>> /\ Append(w, a) = w1 \o w3
          <6>1. w1 \in Seq(A) /\ w2 \in Seq(A) /\ w = w1 \o w2
            BY <5>0, <5>2
          <6>2. w3 \in Seq(A) /\ w3 # <<>>
            BY <6>1
          <6>3. Append(w, a) = w1 \o w3
            BY <1>0, <6>1
          <6> QED
            BY <6>2, <6>3
        <5>6. Join(x2, z) \in WordProfile(edges, final, w3)
          <6>1. WordProfile(edges, final, w3) = Compose(WordProfile(edges, final, w2), Q)
            BY <5>0, <5>1, WordAppend
          <6> QED
            BY <2>5, <5>2, <5>4, <6>1, ComposeHas
        <5>7. Join(x2, z)[1] = x2[1]
          BY <3>1, <5>3, JoinIs
        <5>8. Join(u, z) = Join(y, Join(x2, z))
          BY <3>1, <5>2, <5>3, JoinAssociative
        <5> HIDE DEF w3
        <5>9. Divided(edges, final, Append(w, a), Join(u, z), w1, w3, y, Join(x2, z))
          BY <4>1, <5>2, <5>5, <5>6, <5>7, <5>8 DEF Divided
        <5> QED
          BY <5>0, <5>1, <5>5, <5>9
      <4> QED
        BY <1>2, <4>2, <4>3
    <3> QED
      BY <3>3, <3>4
  <2>6. Append(w, a) \in Seq(A) /\ Append(w, a) # <<>>
    OBVIOUS
  <2> HIDE DEF WP, Q, Splits
  <2>7. \A u \in WP(Append(w, a)) : Heavy(edges, u[1], u[3]) \/ Splits(Append(w, a), u)
    <3> SUFFICES ASSUME NEW u \in WP(w), NEW z \in Q, z[1] = u[2]
                 PROVE  Heavy(edges, Join(u, z)[1], Join(u, z)[3]) \/ Splits(Append(w, a), Join(u, z))
      BY <2>1, ComposeHas
    <3> QED
      BY <2>5
  <2> QED
    BY <2>6, <2>7
<1> HIDE DEF T
<1>3. v \in T
  BY <1>1, <1>2, WordInduction
<1> HIDE DEF Splits, WP
<1>4. Heavy(edges, x[1], x[3]) \/ Splits(v, x)
  BY <1>3 DEF T, WP
<1> QED
  BY <1>4 DEF Splits

\* When every state has an edge for every symbol, every word leads on from
\* every state; by weights of at least t, if no edge has less; and with a
\* final state on the way, if all are final.
Serves(P, D, t) == (\A q \in D : \E x \in P : x[1] = q) /\ \A x \in P : x[3] >= t /\ x[4]
LEMMA WordTotal ==
  ASSUME NEW D, NEW edges, NEW final, Linking(edges, D), NEW A, NEW t \in Int,
         \A q \in D, a \in A : \E e \in edges : e.from = q /\ e.symbol = a,
         \A e \in edges : t <= e.weight, D \subseteq final,
         NEW v \in Seq(A), v # <<>>
  PROVE  Serves(WordProfile(edges, final, v), D, t)
<1> DEFINE T == {w \in Seq(A) : w # <<>> /\ Serves(WordProfile(edges, final, w), D, t)}
<1>1. ASSUME NEW a \in A
      PROVE  Serves(LetterProfile(edges, final, a), D, t)
  <2>1. ASSUME NEW q \in D
        PROVE  \E x \in LetterProfile(edges, final, a) : x[1] = q
    <3>1. PICK e \in edges : e.from = q /\ e.symbol = a
      OBVIOUS
    <3> DEFINE x == <<e.from, e.to, e.weight, e.from \in final \/ e.to \in final>>
    <3>2. x \in LetterProfile(edges, final, a)
      BY <3>1, LetterHas
    <3>3. x[1] = q
      BY <3>1
    <3> QED
      BY <3>2, <3>3
  <2>2. ASSUME NEW x \in LetterProfile(edges, final, a)
        PROVE  x[3] >= t /\ x[4]
    <3>1. PICK e \in edges : x = <<e.from, e.to, e.weight, e.from \in final \/ e.to \in final>>
      BY LetterHas
    <3>2. x[3] = e.weight /\ x[4] = (e.from \in final \/ e.to \in final)
      BY <3>1
    <3>3. e.weight \in Int /\ e.from \in D
      BY DEF Linking
    <3> QED
      BY <3>2, <3>3
  <2> QED
    BY <2>1, <2>2 DEF Serves
<1>2. ASSUME NEW a \in A
      PROVE  <<a>> \in T
  <2>1. <<a>> \in Seq(A) /\ <<a>> # <<>>
    OBVIOUS
  <2>2. WordProfile(edges, final, <<a>>) = LetterProfile(edges, final, a)
    BY WordOne
  <2> QED
    BY <1>1, <2>1, <2>2
<1>3. ASSUME NEW w \in Seq(A), NEW a \in A, w # <<>>, w \in T
      PROVE  Append(w, a) \in T
  <2> DEFINE P == WordProfile(edges, final, w)
             Q == LetterProfile(edges, final, a)
  <2>1. WordProfile(edges, final, Append(w, a)) = Compose(P, Q)
    BY <1>3, WordAppend
  <2>2. P \in SUBSET PathsIn(D) /\ Q \in SUBSET PathsIn(D)
    BY <1>3, WordLinks, LetterLinks
  <2>3. Serves(P, D, t) /\ Serves(Q, D, t)
    BY <1>1, <1>3
  <2> HIDE DEF P, Q
  <2>4. \A q \in D : \E x \in Compose(P, Q) : x[1] = q
    <3> SUFFICES ASSUME NEW q \in D
                 PROVE  \E x \in Compose(P, Q) : x[1] = q
      OBVIOUS
    <3>1. PICK x \in P : x[1] = q
      BY <2>3 DEF Serves
    <3>2. x \in PathsIn(D) /\ x[2] \in D
      BY <2>2, <3>1, LinkParts
    <3>3. PICK y \in Q : y[1] = x[2]
      BY <2>3, <3>2 DEF Serves
    <3>4. y \in PathsIn(D)
      BY <2>2, <3>3
    <3>5. Join(x, y)[1] = q
      BY <3>1, <3>2, <3>4, JoinIs
    <3> QED
      BY <3>1, <3>3, <3>5, ComposeHas
  <2>5. \A z \in Compose(P, Q) : z[3] >= t /\ z[4]
    <3> SUFFICES ASSUME NEW x \in P, NEW y \in Q
                 PROVE  Join(x, y)[3] >= t /\ Join(x, y)[4]
      BY ComposeHas
    <3>1. x \in PathsIn(D) /\ y \in PathsIn(D)
      BY <2>2
    <3>2. x[3] \in Int /\ y[3] \in Int /\ x[3] >= t /\ y[3] >= t /\ x[4]
      BY <2>3, <3>1, LinkParts DEF Serves
    <3>3. Join(x, y)[3] = (IF x[3] < y[3] THEN y[3] ELSE x[3]) /\ Join(x, y)[4] = (x[4] \/ y[4])
      BY <3>1, JoinIs
    <3>4. Join(x, y)[3] >= t
      BY <3>2, <3>3
    <3> QED
      BY <3>2, <3>3, <3>4
  <2>6. Append(w, a) \in Seq(A) /\ Append(w, a) # <<>>
    OBVIOUS
  <2> QED
    BY <2>1, <2>4, <2>5, <2>6 DEF Serves
<1> HIDE DEF T
<1>4. v \in T
  BY <1>2, <1>3, WordInduction
<1> QED
  BY <1>4 DEF T

\* The path of a word leads to a state that its edges reach.
LEMMA WordReaches ==
  ASSUME NEW D, NEW edges, NEW final, Linking(edges, D), NEW A, NEW v \in Seq(A), v # <<>>,
         NEW G, IsGraph(G, D), \A e \in edges : e.to \in G[e.from]
  PROVE  \A x \in WordProfile(edges, final, v) : Reaches(G, x[1], x[2])
<1> DEFINE T == {w \in Seq(A) : w # <<>> /\ \A x \in WordProfile(edges, final, w) : Reaches(G, x[1], x[2])}
<1>1. ASSUME NEW a \in A
      PROVE  \A x \in LetterProfile(edges, final, a) : Reaches(G, x[1], x[2])
  <2> SUFFICES ASSUME NEW x \in LetterProfile(edges, final, a)
               PROVE  Reaches(G, x[1], x[2])
    OBVIOUS
  <2>1. PICK e \in edges : x = <<e.from, e.to, e.weight, e.from \in final \/ e.to \in final>>
    BY LetterHas
  <2>2. x[1] = e.from /\ x[2] = e.to /\ e.from \in D /\ e.to \in G[e.from]
    BY <2>1 DEF Linking
  <2> QED
    BY <2>2, ReachesSuccessor
<1>2. ASSUME NEW a \in A
      PROVE  <<a>> \in T
  <2>1. <<a>> \in Seq(A) /\ <<a>> # <<>>
    OBVIOUS
  <2>2. WordProfile(edges, final, <<a>>) = LetterProfile(edges, final, a)
    BY WordOne
  <2> QED
    BY <1>1, <2>1, <2>2
<1>3. ASSUME NEW w \in Seq(A), NEW a \in A, w # <<>>, w \in T
      PROVE  Append(w, a) \in T
  <2> DEFINE P == WordProfile(edges, final, w)
             Q == LetterProfile(edges, final, a)
  <2>1. WordProfile(edges, final, Append(w, a)) = Compose(P, Q)
    BY <1>3, WordAppend
  <2>2. P \in SUBSET PathsIn(D) /\ Q \in SUBSET PathsIn(D)
    BY <1>3, WordLinks, LetterLinks
  <2>3. /\ \A x \in P : Reaches(G, x[1], x[2])
        /\ \A x \in Q : Reaches(G, x[1], x[2])
    BY <1>1, <1>3
  <2> HIDE DEF P, Q
  <2>4. \A z \in Compose(P, Q) : Reaches(G, z[1], z[2])
    <3> SUFFICES ASSUME NEW z \in Compose(P, Q)
                 PROVE  Reaches(G, z[1], z[2])
      OBVIOUS
    <3>1. PICK x \in P, y \in Q : y[1] = x[2] /\ z = Join(x, y)
      BY ComposeHas
    <3>2. x \in PathsIn(D) /\ y \in PathsIn(D)
      BY <2>2
    <3>3. z[1] = x[1] /\ z[2] = y[2]
      BY <3>1, <3>2, JoinIs
    <3>4. Reaches(G, x[1], x[2]) /\ Reaches(G, x[2], y[2])
      BY <2>3, <3>1
    <3> QED
      BY <3>3, <3>4, ReachesTransitive
  <2>5. Append(w, a) \in Seq(A) /\ Append(w, a) # <<>>
    OBVIOUS
  <2> QED
    BY <2>1, <2>4, <2>5
<1> HIDE DEF T
<1>4. v \in T
  BY <1>2, <1>3, WordInduction
<1> QED
  BY <1>4 DEF T

\* A finite set of integers that is not empty has a largest.
LEMMA Greatest ==
  ASSUME NEW S, IsFiniteSet(S), S # {}, S \subseteq Int
  PROVE  \E v \in S : \A w \in S : w <= v
<1> DEFINE T == {U \in SUBSET S : U # {} => \E v \in U : \A w \in U : w <= v}
<1>1. ASSUME NEW U \in SUBSET S, \A x \in U : U \ {x} \in T
      PROVE  U \in T
  <2> SUFFICES ASSUME U # {}
               PROVE  \E v \in U : \A w \in U : w <= v
    OBVIOUS
  <2>1. PICK x \in U : x \in Int
    OBVIOUS
  <2>2. CASE U \ {x} = {}
    <3>1. \A w \in U : w = x
      BY <2>2
    <3> QED
      BY <2>1, <3>1
  <2>3. CASE U \ {x} # {}
    <3>1. PICK v \in U \ {x} : \A w \in U \ {x} : w <= v
      BY <1>1, <2>1, <2>3
    <3>2. v \in Int /\ v \in U /\ x \in U /\ x \in Int
      BY <2>1, <3>1
    <3>3. CASE v <= x
      <4>1. \A w \in U : w <= x
        BY <3>1, <3>2, <3>3
      <4> QED
        BY <3>2, <4>1
    <3>4. CASE x < v
      <4>1. \A w \in U : w <= v
        BY <3>1, <3>2, <3>4
      <4> QED
        BY <3>2, <4>1
    <3> QED
      BY <3>2, <3>3, <3>4
  <2> QED
    BY <2>2, <2>3
<1> HIDE DEF T
<1>2. S \in T
  BY <1>1, FiniteDescent
<1> QED
  BY <1>2 DEF T

\* The weight of a path is that of an edge.
LEMMA WordWeights ==
  ASSUME NEW D, NEW edges, NEW final, Linking(edges, D), NEW A, NEW v \in Seq(A), v # <<>>,
         NEW N, \A e \in edges : e.weight \in N
  PROVE  \A x \in WordProfile(edges, final, v) : x[3] \in N
<1> DEFINE T == {w \in Seq(A) : w # <<>> /\ \A x \in WordProfile(edges, final, w) : x[3] \in N}
<1>1. ASSUME NEW a \in A
      PROVE  \A x \in LetterProfile(edges, final, a) : x[3] \in N
  <2> SUFFICES ASSUME NEW x \in LetterProfile(edges, final, a)
               PROVE  x[3] \in N
    OBVIOUS
  <2>1. PICK e \in edges : x = <<e.from, e.to, e.weight, e.from \in final \/ e.to \in final>>
    BY LetterHas
  <2> QED
    BY <2>1
<1>2. ASSUME NEW a \in A
      PROVE  <<a>> \in T
  <2>1. <<a>> \in Seq(A) /\ <<a>> # <<>>
    OBVIOUS
  <2>2. WordProfile(edges, final, <<a>>) = LetterProfile(edges, final, a)
    BY WordOne
  <2> QED
    BY <1>1, <2>1, <2>2
<1>3. ASSUME NEW w \in Seq(A), NEW a \in A, w # <<>>, w \in T
      PROVE  Append(w, a) \in T
  <2> DEFINE P == WordProfile(edges, final, w)
             Q == LetterProfile(edges, final, a)
  <2>1. WordProfile(edges, final, Append(w, a)) = Compose(P, Q)
    BY <1>3, WordAppend
  <2>2. /\ \A x \in P : x[3] \in N
        /\ \A x \in Q : x[3] \in N
    BY <1>1, <1>3
  <2> HIDE DEF P, Q
  <2>3. \A z \in Compose(P, Q) : z[3] \in N
    <3> SUFFICES ASSUME NEW x \in P, NEW y \in Q
                 PROVE  Join(x, y)[3] \in N
      BY ComposeHas
    <3>1. Join(x, y)[3] = IF x[3] < y[3] THEN y[3] ELSE x[3]
      BY DEF Join
    <3> QED
      BY <2>2, <3>1
  <2>4. Append(w, a) \in Seq(A) /\ Append(w, a) # <<>>
    OBVIOUS
  <2> QED
    BY <2>1, <2>3, <2>4
<1> HIDE DEF T
<1>4. v \in T
  BY <1>2, <1>3, WordInduction
<1> QED
  BY <1>4 DEF T
=============================================================================
