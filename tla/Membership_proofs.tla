-------------------------- MODULE Membership_proofs --------------------------
(***************************************************************************)
(* fast_membership answers as acceptance of the repeated period demands,   *)
(* for every automaton, period, set of starts and threshold, in whatever   *)
(* order the edges are taken.                                              *)
(***************************************************************************)
EXTENDS Membership, DataInduction

\* The arguments are what the program passes.
ArgumentsOK ==
  /\ edgesB \in Graphs /\ final \in SUBSET StateB /\ U \in Starts
  /\ period \in Periods /\ threshold \in Weight

\* What that says of them.
LEMMA ArgumentFacts ==
  ASSUME ArgumentsOK
  PROVE  /\ IsFiniteSet(edgesB) /\ Linking(edgesB, StateB) /\ U \subseteq StateB /\ threshold \in Int
         /\ period \in Seq(Symbol) /\ Len(period) \in Nat \ {0}
         /\ \A i \in 1..Len(period) : period[i] \in Symbol /\ After(i) \in 1..Len(period)
         /\ 1 \in 1..Len(period)
<1>1. period \in Seq(Symbol) /\ period # <<>>
  BY MembershipAssumption DEF ArgumentsOK
<1>2. Len(period) \in Nat \ {0}
  BY <1>1, EmptySeq
<1>3. \A i \in 1..Len(period) : period[i] \in Symbol
  BY <1>1
<1>4. \A i \in 1..Len(period) : After(i) \in 1..Len(period)
  BY <1>2 DEF After
<1>5. edgesB \subseteq EdgeB /\ IsFiniteSet(edgesB) /\ threshold \in Int /\ U \subseteq StateB
  BY MembershipAssumption DEF ArgumentsOK
<1>6. Linking(edgesB, StateB)
  <2> SUFFICES ASSUME NEW e \in edgesB
               PROVE  e.from \in StateB /\ e.to \in StateB /\ e.weight \in Int
    BY DEF Linking
  <2>1. e \in EdgeB /\ Weight \subseteq Int
    BY <1>5, MembershipAssumption
  <2> QED
    BY <2>1 DEF EdgeB
<1> QED
  BY <1>1, <1>2, <1>3, <1>4, <1>5, <1>6

-----------------------------------------------------------------------------
(* Walks of the product *)

\* A state of the product and whether the threshold was seen.
Key == ProductNode \X BOOLEAN
heavy(e) == e.weight >= threshold
KeyAlong(k, e) == <<Along(k[1], e), k[2] \/ heavy(e)>>
keys == [k \in Key |-> {KeyAlong(k, e) : e \in EdgesOf(k[1])}]

\* A walk from m to n, with an edge of at least the threshold when h.
Walk(m, n, h) == Reaches(keys, <<m, FALSE>>, <<n, h>>)

\* Edges of the product lead from keys to keys.
LEMMA KeysGraph ==
  ASSUME ArgumentsOK
  PROVE  IsGraph(keys, Key)
<1>1. ASSUME NEW k \in Key, NEW e \in EdgesOf(k[1])
      PROVE  KeyAlong(k, e) \in Key
  <2>1. k[1][2] \in 1..Len(period) /\ k[2] \in BOOLEAN
    BY DEF Key, ProductNode
  <2>2. e \in edgesB /\ e.to \in StateB /\ e.weight \in Int
    BY ArgumentFacts DEF EdgesOf, Linking
  <2>3. Along(k[1], e) \in ProductNode
    BY <2>1, <2>2, ArgumentFacts DEF Along, Node, ProductNode
  <2>4. (k[2] \/ heavy(e)) \in BOOLEAN
    BY <2>1 DEF heavy
  <2> QED
    BY <2>3, <2>4 DEF KeyAlong, Key
<1>2. \A k \in Key : keys[k] = {KeyAlong(k, e) : e \in EdgesOf(k[1])}
  BY DEF keys
<1>3. DOMAIN keys = Key
  BY DEF keys
<1> QED
  BY <1>1, <1>2, <1>3 DEF IsGraph

\* What is reached is described by any set that an edge does not lead out of.
LEMMA KeyInduction ==
  ASSUME ArgumentsOK, NEW T, NEW k \in Key, NEW m, k \in T, Reaches(keys, k, m),
         \A x \in Key : x \in T => \A e \in EdgesOf(x[1]) : KeyAlong(x, e) \in T
  PROVE  m \in T /\ m \in Key
<1> DEFINE Q == {x \in Key : x \in T}
<1>1. IsGraph(keys, Key)
  BY KeysGraph
<1>2. \A x \in Key : keys[x] = {KeyAlong(x, e) : e \in EdgesOf(x[1])}
  BY DEF keys
<1>3. Closed(keys, Q)
  <2> SUFFICES ASSUME NEW x \in Q, NEW y \in keys[x]
               PROVE  y \in Q
    BY DEF Closed
  <2>1. y \in Key
    BY <1>1 DEF IsGraph
  <2>2. PICK e \in EdgesOf(x[1]) : y = KeyAlong(x, e)
    BY <1>2
  <2> QED
    BY <2>1, <2>2
<1>4. Q \in SUBSET DOMAIN keys /\ k \in Q
  BY <1>1 DEF IsGraph
<1> HIDE DEF Q
<1>5. m \in Q
  BY <1>3, <1>4 DEF Reaches
<1> QED
  BY <1>5 DEF Q

\* A walk of no edges.
LEMMA WalkItself ==
  ASSUME ArgumentsOK, NEW n \in ProductNode
  PROVE  Walk(n, n, FALSE)
<1>1. <<n, FALSE>> \in Key
  BY DEF Key
<1> QED
  BY <1>1, KeysGraph, ReachesItself DEF Walk

\* Both ends of a walk are states of the product.
LEMMA WalkEnds ==
  ASSUME ArgumentsOK, NEW m \in ProductNode, NEW n, NEW h, Walk(m, n, h)
  PROVE  n \in ProductNode /\ h \in BOOLEAN
<1>1. <<m, FALSE>> \in Key
  BY DEF Key
<1>2. <<n, h>> \in Key
  <2>1. \A x \in Key : x \in Key => \A e \in EdgesOf(x[1]) : KeyAlong(x, e) \in Key
    <3>1. IsGraph(keys, Key)
      BY KeysGraph
    <3>2. \A x \in Key : keys[x] = {KeyAlong(x, e) : e \in EdgesOf(x[1])}
      BY DEF keys
    <3> QED
      BY <3>1, <3>2 DEF IsGraph
  <2> HIDE DEF Key
  <2> QED
    BY <1>1, <2>1, KeyInduction DEF Walk
<1> QED
  BY <1>2 DEF Key

\* A walk and another.
LEMMA WalkJoin ==
  ASSUME ArgumentsOK, NEW m \in ProductNode, NEW n, NEW p, NEW h, NEW g,
         Walk(m, n, h), Walk(n, p, g)
  PROVE  Walk(m, p, h \/ g)
<1>1. n \in ProductNode /\ h \in BOOLEAN
  BY WalkEnds
<1> DEFINE T == {x \in Key : Reaches(keys, <<m, FALSE>>, <<x[1], h \/ x[2]>>)}
<1>2. <<n, FALSE>> \in Key /\ <<n, FALSE>> \in T
  <2>1. (h \/ FALSE) = h
    BY <1>1
  <2> QED
    BY <1>1, <2>1 DEF Key, Walk
<1>3. ASSUME NEW x \in Key, x \in T, NEW e \in EdgesOf(x[1])
      PROVE  KeyAlong(x, e) \in T
  <2> DEFINE y == <<x[1], h \/ x[2]>>
  <2>1. y \in Key /\ x[1] \in ProductNode /\ x[2] \in BOOLEAN
    BY <1>1 DEF Key
  <2>2. KeyAlong(y, e) \in keys[y] /\ KeyAlong(x, e) \in keys[x]
    BY <2>1, <1>3 DEF keys
  <2>3. KeyAlong(x, e) \in Key
    BY <2>2, KeysGraph DEF IsGraph
  <2>4. Reaches(keys, y, KeyAlong(y, e))
    <3> HIDE DEF y
    <3> QED
      BY <2>1, <2>2, KeysGraph, ReachesSuccessor
  <2>5. Reaches(keys, <<m, FALSE>>, y)
    BY <1>3
  <2>6. Reaches(keys, <<m, FALSE>>, KeyAlong(y, e))
    <3> HIDE DEF y
    <3> QED
      BY <2>4, <2>5, KeysGraph, ReachesTransitive
  <2>7. KeyAlong(y, e) = <<KeyAlong(x, e)[1], h \/ KeyAlong(x, e)[2]>>
    BY <1>1, <2>1 DEF KeyAlong, heavy
  <2> QED
    BY <2>3, <2>6, <2>7
<1> HIDE DEF T
<1>4. <<p, g>> \in T
  BY <1>2, <1>3, KeyInduction DEF Walk
<1> QED
  BY <1>4 DEF T, Walk

\* A walk along one edge.
LEMMA WalkEdge ==
  ASSUME ArgumentsOK, NEW n \in ProductNode, NEW e \in EdgesOf(n)
  PROVE  Walk(n, Along(n, e), heavy(e))
<1>1. <<n, FALSE>> \in Key /\ KeyAlong(<<n, FALSE>>, e) \in keys[<<n, FALSE>>]
  BY DEF Key, keys
<1>2. KeyAlong(<<n, FALSE>>, e) = <<Along(n, e), heavy(e)>>
  BY DEF KeyAlong, heavy
<1> QED
  BY <1>1, <1>2, KeysGraph, ReachesSuccessor DEF Walk
-----------------------------------------------------------------------------
(* The paths of a profile are walks *)

\* A walk that passes a final state.
PassesFinal(m, n, h) ==
  \E f \in ProductNode, c, d \in BOOLEAN :
    f[1] \in final /\ Walk(m, f, c) /\ Walk(f, n, d) /\ h = (c \/ d)

\* From position i to position j there is a walk that does what y says.
Realized(y, i, j) ==
  /\ Walk(Node(y[1], i), Node(y[2], j), y[3] >= threshold)
  /\ y[4] => PassesFinal(Node(y[1], i), Node(y[2], j), y[3] >= threshold)

\* What an edge is in the profile of its symbol.
letter(e) == <<e.from, e.to, e.weight, e.from \in final \/ e.to \in final>>

\* The profile of the first j symbols of the period.
Prefix(j) == WordProfile(edgesB, final, SubSeq(period, 1, j))

\* Prefixes grow by a symbol.
LEMMA PrefixIs ==
  ASSUME ArgumentsOK
  PROVE  /\ Prefix(1) = LetterProfile(edgesB, final, period[1])
         /\ \A j \in 1..(Len(period) - 1) :
              Prefix(j + 1) = Compose(Prefix(j), LetterProfile(edgesB, final, period[j + 1]))
         /\ Prefix(Len(period)) = WordProfile(edgesB, final, period)
         /\ \A j \in 1..Len(period) : Prefix(j) \in SUBSET PathsIn(StateB)
<1>0. period \in Seq(Symbol) /\ Len(period) \in Nat \ {0} /\ Linking(edgesB, StateB)
  BY ArgumentFacts
<1>1. Prefix(1) = LetterProfile(edgesB, final, period[1])
  <2>1. SubSeq(period, 1, 1) = <<period[1]>>
    <3> DEFINE q == SubSeq(period, 1, 1)
    <3>1. q \in Seq(Symbol) /\ Len(q) = 1 /\ q[1] = period[1]
      BY <1>0
    <3> HIDE DEF q
    <3>2. q = <<q[1]>>
      BY <3>1
    <3> QED
      BY <3>1, <3>2 DEF q
  <2> QED
    BY <1>0, <2>1, WordOne DEF Prefix
<1>2. ASSUME NEW j \in 1..Len(period)
      PROVE  SubSeq(period, 1, j) \in Seq(Symbol) /\ SubSeq(period, 1, j) # <<>>
  <2>1. SubSeq(period, 1, j) \in Seq(Symbol) /\ Len(SubSeq(period, 1, j)) = j
    BY <1>0
  <2> QED
    BY <2>1
<1>3. ASSUME NEW j \in 1..(Len(period) - 1)
      PROVE  Prefix(j + 1) = Compose(Prefix(j), LetterProfile(edgesB, final, period[j + 1]))
  <2>1. SubSeq(period, 1, j + 1) = Append(SubSeq(period, 1, j), period[j + 1])
    BY <1>0
  <2>2. period[j + 1] \in Symbol /\ j \in 1..Len(period)
    BY <1>0
  <2> DEFINE v == SubSeq(period, 1, j)
             a == period[j + 1]
  <2>3. v \in Seq(Symbol) /\ v # <<>> /\ a \in Symbol
    BY <1>2, <2>2
  <2> HIDE DEF v, a
  <2>4. WordProfile(edgesB, final, Append(v, a)) = Compose(WordProfile(edgesB, final, v), LetterProfile(edgesB, final, a))
    BY <1>0, <2>3, WordAppend
  <2> QED
    BY <2>1, <2>4 DEF Prefix, v, a
<1>4. Prefix(Len(period)) = WordProfile(edgesB, final, period)
  <2>1. SubSeq(period, 1, Len(period)) = period
    BY <1>0
  <2> QED
    BY <2>1 DEF Prefix
<1>5. \A j \in 1..Len(period) : Prefix(j) \in SUBSET PathsIn(StateB)
  BY <1>0, <1>2, WordLinks DEF Prefix
<1> QED
  BY <1>1, <1>3, <1>4, <1>5

\* Edges and the profile of their symbol.
LEMMA LetterFacts ==
  ASSUME ArgumentsOK, NEW i \in 1..Len(period)
  PROVE  /\ LetterProfile(edgesB, final, period[i]) \in SUBSET PathsIn(StateB)
         /\ \A x \in LetterProfile(edgesB, final, period[i]) :
              \E e \in EdgesOf(Node(x[1], i)) : x = letter(e)
         /\ \A r, e : e \in EdgesOf(Node(r, i)) =>
              letter(e) \in LetterProfile(edgesB, final, period[i]) /\ letter(e)[1] = r
<1>1. LetterProfile(edgesB, final, period[i]) \in SUBSET PathsIn(StateB)
  BY ArgumentFacts, LetterLinks
<1>2. \A r : EdgesOf(Node(r, i)) = {e \in edgesB : e.from = r /\ e.symbol = period[i]}
  BY DEF EdgesOf, Node
<1>3. ASSUME NEW x \in LetterProfile(edgesB, final, period[i])
      PROVE  \E e \in EdgesOf(Node(x[1], i)) : x = letter(e)
  <2>1. PICK e \in edgesB : e.symbol = period[i] /\ x = letter(e)
    BY LetterHas DEF letter
  <2>2. x[1] = e.from
    BY <2>1 DEF letter
  <2> QED
    BY <1>2, <2>1, <2>2
<1>4. ASSUME NEW r, NEW e, e \in EdgesOf(Node(r, i))
      PROVE  letter(e) \in LetterProfile(edgesB, final, period[i]) /\ letter(e)[1] = r
  BY <1>2, <1>4, LetterHas DEF letter
<1> QED
  BY <1>1, <1>3, <1>4

\* An edge is a walk.
LEMMA RealizedLetter ==
  ASSUME ArgumentsOK, NEW i \in 1..Len(period), NEW x \in LetterProfile(edgesB, final, period[i])
  PROVE  Realized(x, i, After(i))
<1>1. PICK e \in EdgesOf(Node(x[1], i)) : x = letter(e)
  BY LetterFacts
<1> DEFINE m == Node(x[1], i)
           n == Node(x[2], After(i))
<1>2. e \in edgesB /\ e.from \in StateB /\ e.to \in StateB /\ e.weight \in Int
  BY ArgumentFacts DEF EdgesOf, Linking
<1>3. x[1] = e.from /\ x[2] = e.to /\ x[3] = e.weight /\ x[4] = (e.from \in final \/ e.to \in final)
  BY <1>1 DEF letter
<1>4. m \in ProductNode /\ n \in ProductNode
  BY <1>2, <1>3, ArgumentFacts DEF Node, ProductNode
<1>5. Along(m, e) = n /\ heavy(e) = (x[3] >= threshold) /\ heavy(e) \in BOOLEAN
  BY <1>3 DEF Along, Node, heavy
<1>6. Walk(m, n, heavy(e))
  BY <1>1, <1>4, <1>5, WalkEdge
<1>7. ASSUME x[4]
      PROVE  PassesFinal(m, n, heavy(e))
  <2>1. Walk(m, m, FALSE) /\ Walk(n, n, FALSE)
    BY <1>4, WalkItself
  <2>2. m[1] = e.from /\ n[1] = e.to
    BY <1>3 DEF Node
  <2>3. CASE e.from \in final
    BY <1>4, <1>5, <1>6, <2>1, <2>2, <2>3 DEF PassesFinal
  <2>4. CASE e.to \in final
    BY <1>4, <1>5, <1>6, <2>1, <2>2, <2>4 DEF PassesFinal
  <2> QED
    BY <1>3, <1>7, <2>3, <2>4
<1> QED
  BY <1>5, <1>6, <1>7 DEF Realized

\* Walks in a row.
LEMMA RealizedJoin ==
  ASSUME ArgumentsOK, NEW i \in 1..Len(period), NEW j \in 1..Len(period), NEW k \in 1..Len(period),
         NEW x \in PathsIn(StateB), NEW y \in PathsIn(StateB), y[1] = x[2],
         Realized(x, i, j), Realized(y, j, k)
  PROVE  Realized(Join(x, y), i, k)
<1> DEFINE l == Node(x[1], i)
           m == Node(x[2], j)
           n == Node(y[2], k)
           h == x[3] >= threshold
           g == y[3] >= threshold
           z == Join(x, y)
<1>1. x[1] \in StateB /\ x[2] \in StateB /\ y[2] \in StateB /\ x[3] \in Int /\ y[3] \in Int /\ threshold \in Int
  BY LinkParts, ArgumentFacts
<1>2. l \in ProductNode /\ m \in ProductNode /\ n \in ProductNode
  BY <1>1 DEF ProductNode, Node
<1>3. z[1] = x[1] /\ z[2] = y[2] /\ z[4] = (x[4] \/ y[4]) /\ (z[3] >= threshold) = (h \/ g)
  <2>1. z[1] = x[1] /\ z[2] = y[2] /\ z[4] = (x[4] \/ y[4]) /\ z[3] = IF x[3] < y[3] THEN y[3] ELSE x[3]
    BY JoinIs
  <2> HIDE DEF z
  <2> QED
    BY <1>1, <2>1
<1>4. Walk(l, m, h) /\ Walk(m, n, g) /\ h \in BOOLEAN /\ g \in BOOLEAN
  BY DEF Realized
<1>5. (x[4] => PassesFinal(l, m, h)) /\ (y[4] => PassesFinal(m, n, g))
  BY DEF Realized
<1> HIDE DEF l, m, n, h, g, z
<1>6. Walk(l, n, h \/ g)
  BY <1>2, <1>4, WalkJoin
<1>7. ASSUME x[4] \/ y[4]
      PROVE  PassesFinal(l, n, h \/ g)
  <2>1. CASE x[4]
    <3>1. PICK f \in ProductNode, c, d \in BOOLEAN :
            f[1] \in final /\ Walk(l, f, c) /\ Walk(f, m, d) /\ h = (c \/ d)
      BY <1>5, <2>1 DEF PassesFinal
    <3>2. Walk(f, n, d \/ g)
      BY <1>2, <1>4, <3>1, WalkJoin
    <3>3. (d \/ g) \in BOOLEAN /\ (h \/ g) = (c \/ (d \/ g))
      BY <3>1
    <3> QED
      BY <3>1, <3>2, <3>3 DEF PassesFinal
  <2>2. CASE y[4]
    <3>1. PICK f \in ProductNode, c, d \in BOOLEAN :
            f[1] \in final /\ Walk(m, f, c) /\ Walk(f, n, d) /\ g = (c \/ d)
      BY <1>5, <2>2 DEF PassesFinal
    <3>2. Walk(l, f, h \/ c)
      BY <1>2, <1>4, <3>1, WalkJoin
    <3>3. (h \/ c) \in BOOLEAN /\ (h \/ g) = ((h \/ c) \/ d)
      BY <3>1
    <3> QED
      BY <3>1, <3>2, <3>3 DEF PassesFinal
  <2> QED
    BY <1>7, <2>1, <2>2
<1>8. Node(z[1], i) = l /\ Node(z[2], k) = n
  BY <1>3 DEF l, n
<1>9. Realized(z, i, k)
  <2> DEFINE hg == h \/ g
             w == z[3] >= threshold
  <2>1. w = hg
    BY <1>3
  <2>2. Walk(l, n, hg) /\ (z[4] => PassesFinal(l, n, hg))
    BY <1>3, <1>6, <1>7
  <2> HIDE DEF hg
  <2>3. Walk(l, n, w) /\ (z[4] => PassesFinal(l, n, w))
    <3> HIDE DEF w
    <3> QED
      BY <2>1, <2>2
  <2> QED
    BY <1>8, <2>3 DEF Realized
<1> QED
  BY <1>9 DEF z

\* Every path of a prefix is a walk.
LEMMA RealizedPrefix ==
  ASSUME ArgumentsOK
  PROVE  \A j \in 1..Len(period) : \A y \in Prefix(j) : Realized(y, 1, After(j))
<1> DEFINE N == Len(period) - 1
           T == {k \in 0..N : \A y \in Prefix(k + 1) : Realized(y, 1, After(k + 1))}
<1>1. N \in Nat /\ Len(period) \in Nat /\ Len(period) = N + 1
  BY ArgumentFacts
<1>2. 0 \in T
  <2>1. 0 + 1 = 1 /\ 1 \in 1..Len(period)
    BY <1>1
  <2>2. \A y \in Prefix(1) : Realized(y, 1, After(1))
    BY <2>1, PrefixIs, RealizedLetter
  <2> QED
    BY <1>1, <2>1, <2>2
<1>3. ASSUME NEW k \in 0..(N - 1), k \in T
      PROVE  k + 1 \in T
  <2>1. k + 1 \in 1..(Len(period) - 1) /\ k + 2 \in 1..Len(period) /\ (k + 1) + 1 = k + 2
        /\ k + 1 \in 1..Len(period) /\ k + 1 \in 0..N /\ 1 \in 1..Len(period) /\ k + 1 # Len(period)
    <3> HIDE DEF N
    <3>1. k + 1 \in 1..N /\ k + 2 \in 1..(N + 1) /\ (k + 1) + 1 = k + 2 /\ k + 1 \in 1..(N + 1)
          /\ k + 1 \in 0..N /\ 1 \in 1..(N + 1) /\ k + 1 # N + 1 /\ (N + 1) - 1 = N
      BY <1>1
    <3> QED
      BY <1>1, <3>1
  <2>2. SUFFICES ASSUME NEW y \in Prefix(k + 2)
                 PROVE  Realized(y, 1, After(k + 2))
    BY <2>1
  <2>3. Prefix(k + 2) = Compose(Prefix(k + 1), LetterProfile(edgesB, final, period[k + 2]))
    BY <2>1, PrefixIs
  <2>4. PICK x \in Prefix(k + 1), z \in LetterProfile(edgesB, final, period[k + 2]) : z[1] = x[2] /\ y = Join(x, z)
    BY <2>3, ComposeHas
  <2>5. x \in PathsIn(StateB) /\ z \in PathsIn(StateB)
    <3>1. Prefix(k + 1) \in SUBSET PathsIn(StateB)
      BY <2>1, PrefixIs
    <3>2. LetterProfile(edgesB, final, period[k + 2]) \in SUBSET PathsIn(StateB)
      BY <2>1, LetterFacts
    <3> QED
      BY <3>1, <3>2
  <2>6. After(k + 1) = k + 2
    BY <2>1 DEF After
  <2>7. Realized(x, 1, k + 2)
    BY <1>3, <2>6
  <2>8. Realized(z, k + 2, After(k + 2)) /\ After(k + 2) \in 1..Len(period)
    BY <2>1, RealizedLetter, ArgumentFacts
  <2> QED
    BY <2>1, <2>4, <2>5, <2>7, <2>8, RealizedJoin
<1> HIDE DEF T
<1>4. 0..N \subseteq T
  BY <1>1, <1>2, <1>3, BoundedInduction
<1>5. ASSUME NEW j \in 1..Len(period)
      PROVE  \A y \in Prefix(j) : Realized(y, 1, After(j))
  <2>1. j - 1 \in 0..N /\ (j - 1) + 1 = j
    BY <1>1
  <2>2. j - 1 \in T
    BY <1>4, <2>1
  <2> QED
    BY <2>1, <2>2 DEF T
<1> QED
  BY <1>5

\* What the repetitions of the period do.
Loops == Repeated(WordProfile(edgesB, final, period))

\* The facts about them.
LEMMA LoopsAre ==
  ASSUME ArgumentsOK
  PROVE  /\ WordProfile(edgesB, final, period) \in SUBSET PathsIn(StateB)
         /\ IsFiniteSet(WordProfile(edgesB, final, period))
         /\ Loops \in SUBSET PathsIn(StateB)
         /\ WordProfile(edgesB, final, period) \subseteq Loops
         /\ Compose(Loops, WordProfile(edgesB, final, period)) \subseteq Loops
<1>1. period \in Seq(Symbol) /\ period # <<>> /\ Linking(edgesB, StateB) /\ IsFiniteSet(edgesB)
  BY ArgumentFacts, EmptySeq
<1> DEFINE P == WordProfile(edgesB, final, period)
<1>2. P \in SUBSET PathsIn(StateB) /\ IsFiniteSet(P)
  BY <1>1, WordLinks, WordFinite
<1> HIDE DEF P
<1>3. /\ Repeated(P) \in SUBSET PathsIn(StateB) /\ P \subseteq Repeated(P)
      /\ Compose(Repeated(P), P) \subseteq Repeated(P)
  BY <1>2, RepeatedIs
<1> QED
  BY <1>2, <1>3 DEF P, Loops

\* Every path of repetitions is a walk.
LEMMA RealizedLoops ==
  ASSUME ArgumentsOK
  PROVE  \A y \in Loops : Realized(y, 1, 1)
<1> DEFINE P == WordProfile(edgesB, final, period)
           X == {y \in PathsIn(StateB) : Realized(y, 1, 1)}
<1>0. Len(period) \in 1..Len(period) /\ 1 \in 1..Len(period) /\ After(Len(period)) = 1
  BY ArgumentFacts DEF After
<1>1. \A y \in P : y \in PathsIn(StateB) /\ Realized(y, 1, 1)
  BY <1>0, LoopsAre, PrefixIs, RealizedPrefix
<1>2. IsFiniteSet(P) /\ P \in SUBSET PathsIn(StateB)
  BY LoopsAre
<1> HIDE DEF P
<1>3. P \subseteq X
  BY <1>1
<1>4. Compose(X, P) \subseteq X
  <2> SUFFICES ASSUME NEW z \in Compose(X, P)
               PROVE  z \in X
    OBVIOUS
  <2>1. PICK x \in X, y \in P : y[1] = x[2] /\ z = Join(x, y)
    BY ComposeHas
  <2>2. x \in PathsIn(StateB) /\ y \in PathsIn(StateB) /\ Realized(x, 1, 1) /\ Realized(y, 1, 1)
    BY <1>1
  <2>3. z \in PathsIn(StateB)
    BY <2>1, <2>2, JoinIs
  <2>4. Realized(z, 1, 1)
    BY <1>0, <2>1, <2>2, RealizedJoin
  <2> QED
    BY <2>3, <2>4
<1> HIDE DEF X
<1>5. Repeated(P) \subseteq X
  BY <1>2, <1>3, <1>4, RepeatedIs
<1> QED
  BY <1>5 DEF X, Loops, P
-----------------------------------------------------------------------------
(* Walks are the paths of profiles *)

\* The profiles of the words that lead from the first position to position j.
Reaching(j) == IF j = 1 THEN Loops ELSE Prefix(j - 1) \cup Compose(Loops, Prefix(j - 1))

\* They are profiles.
LEMMA ReachingLinks ==
  ASSUME ArgumentsOK, NEW j \in 1..Len(period)
  PROVE  Reaching(j) \in SUBSET PathsIn(StateB)
<1>1. CASE j = 1
  BY <1>1, LoopsAre DEF Reaching
<1>2. CASE j # 1
  <2>1. j - 1 \in 1..Len(period)
    BY <1>2, ArgumentFacts
  <2>2. Prefix(j - 1) \in SUBSET PathsIn(StateB) /\ Loops \in SUBSET PathsIn(StateB)
    BY <2>1, PrefixIs, LoopsAre
  <2>3. Compose(Loops, Prefix(j - 1)) \in SUBSET PathsIn(StateB)
    BY <2>2, ComposeLinks
  <2> QED
    BY <1>2, <2>2, <2>3 DEF Reaching
<1> QED
  BY <1>1, <1>2

\* The symbol of the first position leads to the next.
LEMMA ReachingFirst ==
  ASSUME ArgumentsOK
  PROVE  LetterProfile(edgesB, final, period[1]) \subseteq Reaching(After(1))
<1>0. Len(period) \in Nat \ {0}
  BY ArgumentFacts
<1>1. LetterProfile(edgesB, final, period[1]) = Prefix(1)
  BY PrefixIs
<1>2. CASE Len(period) = 1
  BY <1>0, <1>1, <1>2, PrefixIs, LoopsAre DEF Reaching, After
<1>3. CASE Len(period) # 1
  BY <1>0, <1>1, <1>3 DEF Reaching, After
<1> QED
  BY <1>2, <1>3

\* The symbol of a position leads on from it.
LEMMA ReachingNext ==
  ASSUME ArgumentsOK, NEW j \in 1..Len(period)
  PROVE  Compose(Reaching(j), LetterProfile(edgesB, final, period[j])) \subseteq Reaching(After(j))
<1> DEFINE P == WordProfile(edgesB, final, period)
           a == LetterProfile(edgesB, final, period[j])
<1>0. Len(period) \in Nat \ {0} /\ Prefix(Len(period)) = P
  BY ArgumentFacts, PrefixIs
<1>1. a \in SUBSET PathsIn(StateB) /\ Loops \in SUBSET PathsIn(StateB) /\ P \subseteq Loops /\ Compose(Loops, P) \subseteq Loops
  BY LetterFacts, LoopsAre
<1>2. CASE j = 1
  <2>1. a = Prefix(1)
    BY <1>2, PrefixIs
  <2>2. Reaching(j) = Loops
    BY <1>2 DEF Reaching
  <2>3. CASE Len(period) = 1
    <3>1. After(j) = 1 /\ a = P
      BY <1>0, <1>2, <2>1, <2>3 DEF After
    <3> QED
      BY <1>1, <2>2, <3>1 DEF Reaching
  <2>4. CASE Len(period) # 1
    <3>1. After(j) = 2
      BY <1>2, <2>4 DEF After
    <3>2. Reaching(2) = Prefix(1) \cup Compose(Loops, Prefix(1))
      BY DEF Reaching
    <3> QED
      BY <2>1, <2>2, <3>1, <3>2
  <2> QED
    BY <2>3, <2>4
<1>3. CASE j # 1
  <2> DEFINE Q == Prefix(j - 1)
  <2>1. j - 1 \in 1..(Len(period) - 1) /\ (j - 1) + 1 = j /\ j - 1 \in 1..Len(period)
    BY <1>0, <1>3
  <2>2. Prefix(j) = Compose(Q, a) /\ Q \in SUBSET PathsIn(StateB)
    BY <2>1, PrefixIs
  <2>3. Reaching(j) = Q \cup Compose(Loops, Q)
    BY <1>3 DEF Reaching
  <2> HIDE DEF Q, a
  <2>4. Compose(Compose(Loops, Q), a) = Compose(Loops, Prefix(j))
    BY <1>1, <2>2, ComposeAssociative
  <2>5. Compose(Reaching(j), a) \subseteq Prefix(j) \cup Compose(Loops, Prefix(j))
    <3> SUFFICES ASSUME NEW z \in Compose(Reaching(j), a)
                 PROVE  z \in Prefix(j) \cup Compose(Loops, Prefix(j))
      OBVIOUS
    <3>1. PICK x \in Reaching(j), y \in a : y[1] = x[2] /\ z = Join(x, y)
      BY ComposeHas
    <3>2. x \in Q => z \in Compose(Q, a)
      BY <3>1, ComposeHas
    <3>3. x \in Compose(Loops, Q) => z \in Compose(Compose(Loops, Q), a)
      BY <3>1, ComposeHas
    <3> QED
      BY <2>2, <2>3, <2>4, <3>1, <3>2, <3>3
  <2>6. CASE j = Len(period)
    <3>1. After(j) = 1 /\ Prefix(j) = P
      BY <1>0, <2>6 DEF After
    <3> QED
      BY <1>1, <2>5, <3>1 DEF Reaching, a
  <2>7. CASE j # Len(period)
    <3>1. After(j) = j + 1 /\ j + 1 # 1 /\ (j + 1) - 1 = j
      BY <1>0, <2>7 DEF After
    <3> QED
      BY <2>5, <3>1 DEF Reaching, a
  <2> QED
    BY <2>6, <2>7
<1> QED
  BY <1>2, <1>3

\* A path that starts or ends in a final state passes one.
EndsCount(y) == y[1] \in final \/ y[2] \in final => y[4]

\* It does when it is the path of a word.
LEMMA EndsCounted ==
  ASSUME ArgumentsOK, NEW j \in 1..Len(period)
  PROVE  \A y \in Reaching(j) : EndsCount(y)
<1> DEFINE X == {y \in PathsIn(StateB) : EndsCount(y)}
           P == WordProfile(edgesB, final, period)
<1>1. \A i \in 1..Len(period) : LetterProfile(edgesB, final, period[i]) \subseteq X
  <2> SUFFICES ASSUME NEW i \in 1..Len(period), NEW y \in LetterProfile(edgesB, final, period[i])
               PROVE  y \in X
    OBVIOUS
  <2>1. y \in PathsIn(StateB)
    BY LetterFacts
  <2>2. PICK e \in edgesB : y = <<e.from, e.to, e.weight, e.from \in final \/ e.to \in final>>
    BY LetterHas
  <2>3. y[1] = e.from /\ y[2] = e.to /\ y[4] = (e.from \in final \/ e.to \in final)
    BY <2>2
  <2>4. EndsCount(y)
    BY <2>3 DEF EndsCount
  <2> QED
    BY <2>1, <2>4
<1>2. \A A, B \in SUBSET X : Compose(A, B) \subseteq X
  <2> SUFFICES ASSUME NEW A \in SUBSET X, NEW B \in SUBSET X, NEW z \in Compose(A, B)
               PROVE  z \in X
    OBVIOUS
  <2>1. PICK x \in A, y \in B : y[1] = x[2] /\ z = Join(x, y)
    BY ComposeHas
  <2>2. x \in PathsIn(StateB) /\ y \in PathsIn(StateB) /\ EndsCount(x) /\ EndsCount(y)
    OBVIOUS
  <2>3. z \in PathsIn(StateB) /\ z[1] = x[1] /\ z[2] = y[2] /\ z[4] = (x[4] \/ y[4])
    BY <2>1, <2>2, JoinIs
  <2> QED
    BY <2>2, <2>3 DEF EndsCount
<1> HIDE DEF X
<1> DEFINE T == {k \in 0..(Len(period) - 1) : Prefix(k + 1) \subseteq X}
<1>3. Len(period) - 1 \in Nat /\ Len(period) \in Nat
  BY ArgumentFacts
<1>4. 0 \in T
  <2>1. 0 + 1 = 1 /\ 1 \in 1..Len(period) /\ 0 \in 0..(Len(period) - 1)
    BY <1>3
  <2>2. Prefix(1) \subseteq X
    BY <1>1, <2>1, PrefixIs
  <2> QED
    BY <2>1, <2>2
<1>5. ASSUME NEW k \in 0..((Len(period) - 1) - 1), k \in T
      PROVE  k + 1 \in T
  <2>1. k + 1 \in 1..(Len(period) - 1) /\ (k + 1) + 1 = k + 2 /\ k + 2 \in 1..Len(period) /\ k + 1 \in 0..(Len(period) - 1)
    BY <1>3
  <2>2. Prefix(k + 2) = Compose(Prefix(k + 1), LetterProfile(edgesB, final, period[k + 2]))
    BY <2>1, PrefixIs
  <2>3. Prefix(k + 2) \subseteq X
    BY <1>1, <1>2, <1>5, <2>1, <2>2
  <2> QED
    BY <2>1, <2>3
<1> HIDE DEF T
<1>6. 0..(Len(period) - 1) \subseteq T
  BY <1>3, <1>4, <1>5, BoundedInduction
<1>7. \A i \in 1..Len(period) : Prefix(i) \subseteq X
  <2> SUFFICES ASSUME NEW i \in 1..Len(period)
               PROVE  Prefix(i) \subseteq X
    OBVIOUS
  <2>1. i - 1 \in 0..(Len(period) - 1) /\ (i - 1) + 1 = i
    BY <1>3
  <2>2. i - 1 \in T
    BY <1>6, <2>1
  <2> QED
    BY <2>1, <2>2 DEF T
<1>8. Loops \subseteq X
  <2>1. P \subseteq X
    BY <1>3, <1>7, PrefixIs, ArgumentFacts
  <2>2. Compose(X, P) \subseteq X
    BY <1>2, <2>1
  <2>3. IsFiniteSet(P) /\ P \in SUBSET PathsIn(StateB)
    BY LoopsAre
  <2> HIDE DEF P
  <2>4. Repeated(P) \subseteq X
    BY <2>1, <2>2, <2>3, RepeatedIs
  <2> QED
    BY <2>4 DEF Loops, P
<1>9. Reaching(j) \subseteq X
  <2>1. CASE j = 1
    BY <1>8, <2>1 DEF Reaching
  <2>2. CASE j # 1
    <3>1. j - 1 \in 1..Len(period)
      BY <1>3, <2>2
    <3>2. Prefix(j - 1) \subseteq X /\ Compose(Loops, Prefix(j - 1)) \subseteq X
      BY <1>2, <1>7, <1>8, <3>1
    <3> QED
      BY <2>2, <3>2 DEF Reaching
  <2> QED
    BY <2>1, <2>2
<1> QED
  BY <1>9 DEF X

\* y describes a walk from the first position to key k.
Describes(y, q, k) ==
  y \in Reaching(k[1][2]) /\ y[1] = q /\ y[2] = k[1][1] /\ k[2] = (y[3] >= threshold)

\* One more edge.
LEMMA DescribesNext ==
  ASSUME ArgumentsOK, NEW k \in Key, NEW e \in EdgesOf(k[1]), NEW q, NEW y, Describes(y, q, k)
  PROVE  /\ Describes(Join(y, letter(e)), q, KeyAlong(k, e))
         /\ y[4] => Join(y, letter(e))[4]
<1> DEFINE r == k[1][1]
           j == k[1][2]
           x == letter(e)
           z == Join(y, x)
<1>1. k[1] = Node(r, j) /\ j \in 1..Len(period) /\ k[2] \in BOOLEAN
  BY DEF Key, ProductNode, Node
<1>2. x \in LetterProfile(edgesB, final, period[j]) /\ x[1] = r /\ x[2] = e.to /\ x[3] = e.weight
  <2>1. e \in EdgesOf(Node(r, j))
    BY <1>1
  <2>2. x \in LetterProfile(edgesB, final, period[j]) /\ x[1] = r
    BY <1>1, <2>1, LetterFacts
  <2> QED
    BY <2>2 DEF letter
<1>3. x \in PathsIn(StateB) /\ y \in PathsIn(StateB) /\ y[2] = r /\ y \in Reaching(j)
  <2>1. LetterProfile(edgesB, final, period[j]) \in SUBSET PathsIn(StateB)
    BY <1>1, LetterFacts
  <2>2. Reaching(j) \in SUBSET PathsIn(StateB)
    BY <1>1, ReachingLinks
  <2> QED
    BY <1>2, <2>1, <2>2 DEF Describes
<1>4. z \in Reaching(After(j))
  <2>1. z \in Compose(Reaching(j), LetterProfile(edgesB, final, period[j]))
    BY <1>2, <1>3, ComposeHas
  <2> QED
    BY <1>1, <2>1, ReachingNext
<1>5. z[1] = y[1] /\ z[2] = x[2] /\ z[3] = (IF y[3] < x[3] THEN x[3] ELSE y[3]) /\ z[4] = (y[4] \/ x[4])
  BY <1>3, JoinIs
<1>6. y[3] \in Int /\ x[3] \in Int /\ threshold \in Int /\ y[4] \in BOOLEAN
  BY <1>3, LinkParts, ArgumentFacts
<1>7. KeyAlong(k, e)[1] = <<e.to, After(j)>> /\ KeyAlong(k, e)[2] = (k[2] \/ e.weight >= threshold)
  BY <1>1 DEF KeyAlong, Along, Node, heavy
<1>8. k[2] = (y[3] >= threshold) /\ y[1] = q
  BY DEF Describes
<1> HIDE DEF z, x, r, j
<1>9. (k[2] \/ e.weight >= threshold) = (z[3] >= threshold)
  <2> DEFINE a == y[3]
             b == x[3]
             c == z[3]
  <2>1. a \in Int /\ b \in Int /\ c = (IF a < b THEN b ELSE a) /\ threshold \in Int
    BY <1>5, <1>6
  <2>2. k[2] = (a >= threshold) /\ e.weight = b
    BY <1>2, <1>8
  <2> HIDE DEF a, b, c
  <2>3. (a >= threshold \/ b >= threshold) = (c >= threshold)
    BY <2>1
  <2>4. (k[2] \/ b >= threshold) = (a >= threshold \/ b >= threshold)
    BY <2>2
  <2>5. (k[2] \/ b >= threshold) = (c >= threshold)
    BY <2>3, <2>4
  <2> QED
    BY <2>2, <2>5 DEF c
<1>10. Describes(z, q, KeyAlong(k, e))
  <2> DEFINE l == KeyAlong(k, e)
  <2>1. l[1][1] = e.to /\ l[1][2] = After(j) /\ l[2] = (z[3] >= threshold)
    <3>1. l[1] = <<e.to, After(j)>> /\ l[2] = (k[2] \/ e.weight >= threshold)
      BY <1>7
    <3> HIDE DEF l
    <3> QED
      BY <1>9, <3>1
  <2> HIDE DEF l
  <2>2. z \in Reaching(l[1][2]) /\ z[1] = q /\ z[2] = l[1][1]
    BY <1>2, <1>4, <1>5, <1>8, <2>1
  <2>3. Describes(z, q, l)
    BY <2>1, <2>2 DEF Describes
  <2> QED
    BY <2>3 DEF l
<1> QED
  BY <1>5, <1>10 DEF z, x

\* What is walked from the first position is described by a path.
LEMMA WalkDescribed ==
  ASSUME ArgumentsOK, NEW q \in StateB, NEW n, NEW h, Walk(Node(q, 1), n, h)
  PROVE  (n = Node(q, 1) /\ h = FALSE) \/ \E y : Describes(y, q, <<n, h>>)
<1> DEFINE first == <<Node(q, 1), FALSE>>
           T == {k \in Key : k = first \/ \E y : Describes(y, q, k)}
<1>1. first \in Key /\ first \in T
  BY ArgumentFacts DEF Key, ProductNode, Node
<1>2. ASSUME NEW k \in Key, k \in T, NEW e \in EdgesOf(k[1])
      PROVE  KeyAlong(k, e) \in T
  <2>1. KeyAlong(k, e) \in Key
    <3>1. KeyAlong(k, e) \in keys[k]
      BY DEF keys
    <3> QED
      BY <3>1, KeysGraph DEF IsGraph
  <2>2. CASE k = first
    <3>1. e \in EdgesOf(Node(q, 1))
      BY <2>2
    <3>2. letter(e) \in LetterProfile(edgesB, final, period[1]) /\ letter(e)[1] = q
      BY <3>1, LetterFacts, ArgumentFacts
    <3>3. letter(e) \in Reaching(After(1))
      BY <3>2, ReachingFirst
    <3>4. KeyAlong(k, e)[1] = <<e.to, After(1)>> /\ KeyAlong(k, e)[2] = (e.weight >= threshold)
      BY <2>2 DEF KeyAlong, Along, Node, heavy
    <3>5. letter(e)[2] = e.to /\ letter(e)[3] = e.weight
      BY DEF letter
    <3>6. Describes(letter(e), q, KeyAlong(k, e))
      BY <3>2, <3>3, <3>4, <3>5 DEF Describes
    <3> QED
      BY <2>1, <3>6
  <2>3. CASE k # first
    BY <1>2, <2>1, <2>3, DescribesNext
  <2> QED
    BY <2>2, <2>3
<1> HIDE DEF T, first
<1>3. <<n, h>> \in T
  BY <1>1, <1>2, KeyInduction DEF Walk, first
<1> QED
  BY <1>3 DEF T, first

\* What is walked from where a path leads is described by a longer path.
LEMMA WalkDescribedOn ==
  ASSUME ArgumentsOK, NEW q, NEW m \in Key, NEW y, Describes(y, q, m), NEW n, NEW h, Walk(m[1], n, h)
  PROVE  \E z : Describes(z, q, <<n, m[2] \/ h>>) /\ (y[4] => z[4])
<1> DEFINE on(k) == <<k[1], m[2] \/ k[2]>>
           T == {k \in Key : \E z : Describes(z, q, on(k)) /\ (y[4] => z[4])}
           first == <<m[1], FALSE>>
<1>1. m = <<m[1], m[2]>> /\ m[1] \in ProductNode /\ m[2] \in BOOLEAN
  BY DEF Key
<1>2. first \in Key /\ first \in T
  <2>1. first \in Key /\ on(first) = m
    BY <1>1 DEF Key
  <2> QED
    BY <2>1
<1>3. ASSUME NEW k \in Key, k \in T, NEW e \in EdgesOf(k[1])
      PROVE  KeyAlong(k, e) \in T
  <2>1. KeyAlong(k, e) \in Key
    <3>1. KeyAlong(k, e) \in keys[k]
      BY DEF keys
    <3> QED
      BY <3>1, KeysGraph DEF IsGraph
  <2>2. on(k) \in Key /\ on(k)[1] = k[1] /\ on(k)[2] = (m[2] \/ k[2])
    BY <1>1 DEF Key
  <2>3. PICK z : Describes(z, q, on(k)) /\ (y[4] => z[4])
    BY <1>3
  <2>4. Describes(Join(z, letter(e)), q, KeyAlong(on(k), e)) /\ (z[4] => Join(z, letter(e))[4])
    <3> HIDE DEF on
    <3>1. e \in EdgesOf(on(k)[1])
      BY <2>2
    <3> QED
      BY <2>2, <2>3, <3>1, DescribesNext
  <2>5. KeyAlong(on(k), e) = on(KeyAlong(k, e))
    BY <1>1 DEF KeyAlong
  <2> HIDE DEF on
  <2> QED
    BY <2>1, <2>3, <2>4, <2>5
<1> HIDE DEF T, first
<1>4. <<n, h>> \in T
  BY <1>2, <1>3, KeyInduction DEF Walk, first
<1> QED
  BY <1>4 DEF T
-----------------------------------------------------------------------------
(* Acceptance is a heavy cycle of the product *)

\* A start leads to n.
Found(n) == \E s \in U, h \in BOOLEAN : Walk(Node(s, 1), n, h)

\* What the two searches look for.
Answer == \E n \in ProductNode : n[1] \in final /\ Found(n) /\ Walk(n, n, TRUE)

Accepted == Accepts(WordProfile(edgesB, final, period), U, threshold)

\* Acceptance, written out.
LEMMA AcceptedIs ==
  Accepted <=>
    \E x \in Loops : /\ x[1] = x[2] /\ x[3] >= threshold /\ x[4]
                     /\ x[1] \in U \/ \E y \in Loops : y[1] \in U /\ y[2] = x[1]
BY DEF Accepted, Accepts, Loops

\* A word that is accepted has such a cycle.
LEMMA AcceptedFound ==
  ASSUME ArgumentsOK, Accepted
  PROVE  Answer
<1>1. PICK x \in Loops : /\ x[1] = x[2] /\ x[3] >= threshold /\ x[4]
                         /\ x[1] \in U \/ \E y \in Loops : y[1] \in U /\ y[2] = x[1]
  BY AcceptedIs
<1> DEFINE m == Node(x[1], 1)
<1>2. x \in PathsIn(StateB) /\ x[1] \in StateB /\ Realized(x, 1, 1)
  BY LoopsAre, LinkParts, RealizedLoops
<1>3. m \in ProductNode
  BY <1>2, ArgumentFacts DEF Node, ProductNode
<1>4. (x[3] >= threshold) = TRUE
  BY <1>1
<1>5. PassesFinal(m, m, TRUE)
  <2> DEFINE h == x[3] >= threshold
  <2>1. h = TRUE /\ PassesFinal(m, m, h)
    BY <1>1, <1>2 DEF Realized
  <2> HIDE DEF h
  <2> QED
    BY <2>1
<1> HIDE DEF m
<1>6. PICK f \in ProductNode, c, d \in BOOLEAN :
        f[1] \in final /\ Walk(m, f, c) /\ Walk(f, m, d) /\ TRUE = (c \/ d)
  BY <1>5 DEF PassesFinal
<1>7. Walk(f, f, TRUE)
  <2>1. Walk(f, f, d \/ c)
    BY <1>6, WalkJoin
  <2>2. (d \/ c) = TRUE
    BY <1>6
  <2> QED
    BY <2>1, <2>2
<1>8. Found(f)
  <2>1. CASE x[1] \in U
    BY <1>6, <2>1 DEF Found, m
  <2>2. CASE \E y \in Loops : y[1] \in U /\ y[2] = x[1]
    <3>1. PICK y \in Loops : y[1] \in U /\ y[2] = x[1]
      BY <2>2
    <3>2. PICK h \in BOOLEAN : Walk(Node(y[1], 1), m, h)
      <4> DEFINE h == y[3] >= threshold
      <4>1. Walk(Node(y[1], 1), m, h) /\ h \in BOOLEAN
        BY <3>1, RealizedLoops DEF Realized, m
      <4> HIDE DEF h
      <4> QED
        BY <4>1
    <3>3. Node(y[1], 1) \in ProductNode
      BY <3>1, ArgumentFacts DEF Node, ProductNode
    <3>4. Walk(Node(y[1], 1), f, h \/ c)
      <4> DEFINE l == Node(y[1], 1)
      <4>1. l \in ProductNode /\ Walk(l, m, h) /\ Walk(m, f, c)
        BY <1>6, <3>2, <3>3
      <4> HIDE DEF l
      <4>2. Walk(l, f, h \/ c)
        BY <4>1, WalkJoin
      <4> QED
        BY <4>2 DEF l
    <3>5. (h \/ c) \in BOOLEAN
      BY <3>2
    <3> QED
      BY <3>1, <3>4, <3>5 DEF Found
  <2> QED
    BY <1>1, <2>1, <2>2
<1> QED
  BY <1>6, <1>7, <1>8 DEF Answer

\* A walk that comes back to where it starts passes the first position.
LEMMA PassesFirst ==
  ASSUME ArgumentsOK, NEW f \in ProductNode, Walk(f, f, TRUE), f[2] # 1
  PROVE  \E q \in StateB, c, d \in BOOLEAN :
           Walk(f, Node(q, 1), c) /\ Walk(Node(q, 1), f, d) /\ (c \/ d)
<1> DEFINE Through(k) == \E q \in StateB, c, d \in BOOLEAN :
                           Walk(f, Node(q, 1), c) /\ Walk(Node(q, 1), k[1], d) /\ k[2] = (c \/ d)
           first == <<f, FALSE>>
           Beyond(k) == k[1][2] > f[2] /\ Walk(f, k[1], k[2])
           T == {k \in Key : k = first \/ Beyond(k) \/ Through(k)}
<1>0. Len(period) \in Nat \ {0} /\ f[2] \in 1..Len(period)
  BY ArgumentFacts DEF ProductNode
<1>1. first \in Key /\ first \in T
  BY DEF Key
<1>T. \A k \in Key : k \in T <=> k = first \/ Beyond(k) \/ Through(k)
  OBVIOUS
<1> HIDE DEF T
<1>2. ASSUME NEW k \in Key, k \in T, NEW e \in EdgesOf(k[1])
      PROVE  KeyAlong(k, e) \in T
  <2> DEFINE l == KeyAlong(k, e)
  <2>0. l[1] = Along(k[1], e) /\ l[2] = (k[2] \/ heavy(e)) /\ l = <<l[1], l[2]>>
    BY DEF KeyAlong
  <2>1. l \in Key /\ l[1] \in ProductNode /\ l[2] \in BOOLEAN
    <3>1. KeyAlong(k, e) \in keys[k]
      BY DEF keys
    <3>2. KeyAlong(k, e) \in Key
      BY <3>1, KeysGraph DEF IsGraph
    <3> QED
      BY <3>2 DEF Key
  <2>2. k[1] \in ProductNode /\ k[2] \in BOOLEAN /\ k[1][2] \in 1..Len(period) /\ heavy(e) \in BOOLEAN
    BY DEF Key, ProductNode, heavy
  <2>3. Walk(k[1], l[1], heavy(e))
    BY <2>0, <2>2, WalkEdge
  <2>4. l[1][2] = After(k[1][2]) /\ l[1] = Node(e.to, After(k[1][2])) /\ e.to \in StateB
    <3>1. e \in edgesB
      BY DEF EdgesOf
    <3> QED
      BY <2>0, <3>1, ArgumentFacts DEF Along, Node, Linking
  <2> HIDE DEF l
  <2>5. ASSUME Walk(f, k[1], k[2]), k[1][2] >= f[2]
        PROVE  l \in T
    <3>1. Walk(f, l[1], l[2])
      BY <2>0, <2>3, <2>5, WalkJoin
    <3>2. CASE k[1][2] = Len(period)
      <4>1. l[1] = Node(e.to, 1)
        BY <2>4, <3>2 DEF After
      <4>2. Walk(l[1], l[1], FALSE) /\ l[2] = (l[2] \/ FALSE)
        BY <2>1, WalkItself
      <4>3. Through(l)
        BY <2>1, <2>4, <3>1, <4>1, <4>2
      <4> HIDE DEF Through, Beyond, first
      <4> QED
        BY <1>T, <2>1, <4>3
    <3>3. CASE k[1][2] # Len(period)
      <4>1. l[1][2] > f[2]
        BY <1>0, <2>2, <2>4, <2>5, <3>3 DEF After
      <4>2. Beyond(l)
        BY <3>1, <4>1
      <4> HIDE DEF Through, Beyond, first
      <4> QED
        BY <1>T, <2>1, <4>2
    <3> QED
      BY <3>2, <3>3
  <2>6. ASSUME k = first
        PROVE  l \in T
    <3>1. Walk(f, f, FALSE)
      BY WalkItself
    <3>2. k[1] = f /\ k[2] = FALSE
      BY <2>6
    <3>3. Walk(f, k[1], k[2])
      BY <3>1, <3>2
    <3>4. k[1][2] = f[2] /\ f[2] \in Int
      BY <1>0, <3>2
    <3>5. k[1][2] >= f[2]
      BY <3>4
    <3> QED
      BY <2>5, <3>3, <3>5
  <2>7. ASSUME Beyond(k)
        PROVE  l \in T
    <3>1. Walk(f, k[1], k[2]) /\ k[1][2] >= f[2]
      BY <1>0, <2>2, <2>7
    <3> QED
      BY <2>5, <3>1
  <2>8. ASSUME Through(k)
        PROVE  l \in T
    <3>1. PICK q \in StateB, c, d \in BOOLEAN :
            Walk(f, Node(q, 1), c) /\ Walk(Node(q, 1), k[1], d) /\ k[2] = (c \/ d)
      BY <2>8
    <3>2. Node(q, 1) \in ProductNode
      BY <1>0 DEF Node, ProductNode
    <3>3. Walk(Node(q, 1), l[1], d \/ heavy(e)) /\ (d \/ heavy(e)) \in BOOLEAN
      BY <2>2, <2>3, <3>1, <3>2, WalkJoin
    <3>4. l[2] = (c \/ (d \/ heavy(e)))
      BY <2>0, <3>1
    <3>5. Through(l)
      BY <3>1, <3>3, <3>4
    <3> HIDE DEF Through, Beyond, first
    <3> QED
      BY <1>T, <2>1, <3>5
  <2>9. l \in T
    <3> HIDE DEF Through, Beyond, first
    <3> QED
      BY <1>2, <1>T, <2>6, <2>7, <2>8
  <2> QED
    BY <2>9 DEF l
<1>3. <<f, TRUE>> \in T
  BY <1>1, <1>2, KeyInduction DEF Walk
<1>4. Through(<<f, TRUE>>)
  <2> DEFINE l == <<f, TRUE>>
  <2>1. l \in Key /\ l # first /\ l[1] = f
    BY DEF Key
  <2>2. ~Beyond(l)
    <3>1. l[1][2] = f[2] /\ f[2] \in Int
      BY <1>0
    <3>2. ~(l[1][2] > f[2])
      BY <3>1
    <3> QED
      BY <3>2
  <2> HIDE DEF l, Through, Beyond, first
  <2>3. l \in T
    BY <1>3 DEF l
  <2>4. Through(l)
    BY <1>T, <2>1, <2>2, <2>3
  <2> QED
    BY <2>4 DEF l
<1> QED
  BY <1>4

\* Such a cycle makes the word accepted.
LEMMA FoundAccepted ==
  ASSUME ArgumentsOK, Answer
  PROVE  Accepted
<1>1. PICK f \in ProductNode : f[1] \in final /\ Found(f) /\ Walk(f, f, TRUE)
  BY DEF Answer
<1>0. 1 \in 1..Len(period) /\ Loops = Reaching(1) /\ f = Node(f[1], f[2]) /\ f[1] \in StateB /\ f[2] \in 1..Len(period)
  BY ArgumentFacts DEF Reaching, ProductNode, Node
\* A state at the first position from which the cycle is described.
<1>2. PICK q, x : /\ q \in StateB /\ Describes(x, q, <<Node(q, 1), TRUE>>) /\ x[4]
                  /\ \E c \in BOOLEAN : Walk(f, Node(q, 1), c)
  <2>1. CASE f[2] = 1
    <3>1. f = Node(f[1], 1)
      BY <1>0, <2>1
    <3>2. PICK y : Describes(y, f[1], <<f, TRUE>>)
      <4> DEFINE q == f[1]
      <4>1. Walk(Node(q, 1), f, TRUE)
        BY <1>1, <3>1
      <4>2. q \in StateB
        BY <1>0
      <4> HIDE DEF q
      <4>3. \E y : Describes(y, q, <<f, TRUE>>)
        BY <4>1, <4>2, WalkDescribed
      <4> QED
        BY <4>3 DEF q
    <3>3. y \in Loops /\ y[1] = f[1]
      BY <1>0, <2>1, <3>2 DEF Describes
    <3>4. EndsCount(y)
      BY <1>0, <3>3, EndsCounted
    <3>5. y[4]
      BY <1>1, <3>3, <3>4 DEF EndsCount
    <3> QED
      BY <1>0, <1>1, <3>1, <3>2, <3>5
  <2>2. CASE f[2] # 1
    <3>1. PICK q \in StateB, c, d \in BOOLEAN :
            Walk(f, Node(q, 1), c) /\ Walk(Node(q, 1), f, d) /\ (c \/ d)
      BY <1>1, <2>2, PassesFirst
    <3>2. f # Node(q, 1)
      BY <2>2 DEF Node
    <3>3. PICK y : Describes(y, q, <<f, d>>)
      <4>1. (f = Node(q, 1) /\ d = FALSE) \/ \E y : Describes(y, q, <<f, d>>)
        BY <3>1, WalkDescribed
      <4> QED
        BY <3>2, <4>1
    <3>4. y[4]
      <4>1. y \in Reaching(f[2]) /\ y[2] = f[1]
        BY <3>3 DEF Describes
      <4> QED
        BY <1>0, <1>1, <4>1, EndsCounted DEF EndsCount
    <3>5. PICK z : Describes(z, q, <<Node(q, 1), d \/ c>>) /\ (y[4] => z[4])
      <4> DEFINE m == <<f, d>>
      <4>1. m \in Key /\ m[1] = f /\ m[2] = d
        BY DEF Key
      <4>2. Describes(y, q, m)
        BY <3>3
      <4>3. Walk(m[1], Node(q, 1), c)
        BY <3>1, <4>1
      <4> HIDE DEF m
      <4>4. \E z : Describes(z, q, <<Node(q, 1), m[2] \/ c>>) /\ (y[4] => z[4])
        BY <4>1, <4>2, <4>3, WalkDescribedOn
      <4> QED
        BY <4>1, <4>4
    <3>6. (d \/ c) = TRUE
      BY <3>1
    <3>7. Describes(z, q, <<Node(q, 1), TRUE>>)
      <4> DEFINE g == d \/ c
      <4>1. Describes(z, q, <<Node(q, 1), g>>) /\ g = TRUE
        BY <3>5, <3>6
      <4> HIDE DEF g
      <4> QED
        BY <4>1
    <3>8. z[4] /\ Walk(f, Node(q, 1), c) /\ c \in BOOLEAN
      BY <3>1, <3>4, <3>5
    <3> QED
      BY <3>7, <3>8
  <2> QED
    BY <2>1, <2>2
<1>3. x \in Loops /\ x[1] = q /\ x[2] = q /\ x[3] >= threshold
  <2> DEFINE k == <<Node(q, 1), TRUE>>
  <2>1. k[1][2] = 1 /\ k[1][1] = q /\ k[2] = TRUE
    BY DEF Node
  <2>2. Describes(x, q, k)
    BY <1>2
  <2> HIDE DEF k
  <2> QED
    BY <1>0, <2>1, <2>2 DEF Describes
<1>4. q \in U \/ \E y \in Loops : y[1] \in U /\ y[2] = q
  <2>1. PICK s \in U, h \in BOOLEAN : Walk(Node(s, 1), f, h)
    BY <1>1 DEF Found
  <2>2. PICK c \in BOOLEAN : Walk(f, Node(q, 1), c)
    BY <1>2
  <2>3. s \in StateB /\ Node(s, 1) \in ProductNode
    BY ArgumentFacts DEF Node, ProductNode
  <2>4. Walk(Node(s, 1), Node(q, 1), h \/ c)
    BY <2>1, <2>2, <2>3, WalkJoin
  <2>5. Node(s, 1) = Node(q, 1) \/ \E y : Describes(y, s, <<Node(q, 1), h \/ c>>)
    BY <2>3, <2>4, WalkDescribed
  <2>6. ASSUME NEW y, Describes(y, s, <<Node(q, 1), h \/ c>>)
        PROVE  y \in Loops /\ y[1] = s /\ y[2] = q
    <3> DEFINE k == <<Node(q, 1), h \/ c>>
    <3>1. k[1][2] = 1 /\ k[1][1] = q
      BY DEF Node
    <3>2. Describes(y, s, k)
      BY <2>6
    <3> HIDE DEF k
    <3> QED
      BY <1>0, <3>1, <3>2 DEF Describes
  <2> QED
    BY <2>1, <2>5, <2>6 DEF Node
<1> QED
  BY <1>2, <1>3, <1>4, AcceptedIs

\* What the searches look for is what acceptance demands.
LEMMA LassoIs ==
  ASSUME ArgumentsOK
  PROVE  Accepted <=> Answer
BY AcceptedFound, FoundAccepted
-----------------------------------------------------------------------------
(* The first search *)

Frame == [node : ProductNode, todo : SUBSET edgesB]
CycleFrame == [node : ProductNode, seen : BOOLEAN, todo : SUBSET edgesB]

\* An edge that a call has not taken.
Waiting(calls, n, e) == \E k \in 1..Len(calls) : calls[k].node = n /\ e \in calls[k].todo

\* The search has left the marked states of from by all their edges except
\* those that wait, and has found no cycle at the final states it is done with.
Searching(from, marks, calls) ==
  /\ from \subseteq marks /\ marks \subseteq ProductNode
  /\ calls \in Seq(Frame)
  /\ \A k \in 1..Len(calls) : calls[k].node \in from /\ calls[k].todo \subseteq EdgesOf(calls[k].node)
  /\ \A n \in marks : Found(n)
  /\ \A n \in from : \A e \in EdgesOf(n) : Along(n, e) \in marks \/ Waiting(calls, n, e)
  /\ \A n \in from : n[1] \in final =>
       ~Walk(n, n, TRUE) \/ \E k \in 1..Len(calls) : calls[k].node = n

\* A call that has taken an edge.
LEMMA TakenFrame ==
  ASSUME NEW calls \in Seq(Frame), calls # <<>>, NEW e
  PROVE  /\ Taken(calls, e) \in Seq(Frame) /\ Len(Taken(calls, e)) = Len(calls)
         /\ \A k \in 1..Len(calls) :
              /\ Taken(calls, e)[k].node = calls[k].node
              /\ Taken(calls, e)[k].todo = IF k = Len(calls) THEN calls[k].todo \ {e} ELSE calls[k].todo
<1>1. Len(calls) \in 1..Len(calls) /\ DOMAIN calls = 1..Len(calls)
  OBVIOUS
<1>2. \A k \in 1..Len(calls) : calls[k] \in Frame
  OBVIOUS
<1> DEFINE v == [calls[Len(calls)] EXCEPT !.todo = @ \ {e}]
<1>3. v \in Frame /\ v.node = calls[Len(calls)].node /\ v.todo = calls[Len(calls)].todo \ {e}
  BY <1>1, <1>2 DEF Frame
<1>4. Taken(calls, e) = [calls EXCEPT ![Len(calls)] = v]
  BY <1>1 DEF Taken
<1> HIDE DEF v
<1>5. /\ Taken(calls, e) \in Seq(Frame) /\ Len(Taken(calls, e)) = Len(calls)
      /\ \A k \in 1..Len(calls) : Taken(calls, e)[k] = IF k = Len(calls) THEN v ELSE calls[k]
  BY <1>3, <1>4, LastReplaced
<1> QED
  BY <1>3, <1>5

\* The calls with one more.
LEMMA PushedFrame ==
  ASSUME NEW F, NEW calls \in Seq(F), NEW c \in F
  PROVE  /\ Append(calls, c) \in Seq(F) /\ Len(Append(calls, c)) = Len(calls) + 1
         /\ \A k \in 1..Len(calls) : Append(calls, c)[k] = calls[k]
         /\ Append(calls, c)[Len(calls) + 1] = c
         /\ 1..Len(Append(calls, c)) = 1..Len(calls) \cup {Len(calls) + 1}
         /\ Len(calls) + 1 \in 1..Len(Append(calls, c))
OBVIOUS

\* The calls without the last.
LEMMA PoppedFrame ==
  ASSUME NEW F, NEW calls \in Seq(F), calls # <<>>
  PROVE  /\ Front(calls) \in Seq(F) /\ Len(Front(calls)) = Len(calls) - 1
         /\ \A k \in 1..Len(Front(calls)) : Front(calls)[k] = calls[k]
         /\ 1..Len(calls) = 1..Len(Front(calls)) \cup {Len(calls)}
         /\ Last(calls) = calls[Len(calls)] /\ Last(calls) \in F
<1>1. Len(calls) \in Nat \ {0}
  BY EmptySeq
<1>2. Front(calls) = SubSeq(calls, 1, Len(calls) - 1)
  BY DEF Front
<1>3. Front(calls) \in Seq(F) /\ Len(Front(calls)) = Len(calls) - 1
  <2> DEFINE l == Len(calls) - 1
             t == SubSeq(calls, 1, l)
  <2>1. l \in Nat /\ l < Len(calls)
    BY <1>1
  <2> HIDE DEF l
  <2>2. t = [i \in 1..l |-> calls[i]]
    BY <2>1 DEF SubSeq
  <2>3. \A i \in 1..l : calls[i] \in F
    BY <2>1
  <2>4. t \in Seq(F) /\ Len(t) = l
    BY <2>1, <2>2, <2>3
  <2> QED
    BY <1>2, <2>4 DEF l
<1>4. \A k \in 1..Len(Front(calls)) : Front(calls)[k] = calls[k]
  BY <1>1, <1>2, <1>3
<1>5. Last(calls) = calls[Len(calls)] /\ Last(calls) \in F
  BY <1>1 DEF Last
<1> QED
  BY <1>1, <1>3, <1>4, <1>5

\* A start leads to itself, and on along an edge.
LEMMA FoundStarts ==
  ASSUME ArgumentsOK
  PROVE  /\ \A s \in U : Node(s, 1) \in ProductNode /\ Found(Node(s, 1))
         /\ \A n \in ProductNode : Found(n) =>
              \A e \in EdgesOf(n) : Along(n, e) \in ProductNode /\ Found(Along(n, e))
<1>1. ASSUME NEW s \in U
      PROVE  Node(s, 1) \in ProductNode /\ Found(Node(s, 1))
  <2>1. Node(s, 1) \in ProductNode
    BY ArgumentFacts DEF Node, ProductNode
  <2> QED
    BY <2>1, WalkItself DEF Found
<1>2. ASSUME NEW n \in ProductNode, Found(n), NEW e \in EdgesOf(n)
      PROVE  Along(n, e) \in ProductNode /\ Found(Along(n, e))
  <2>1. PICK s \in U, h \in BOOLEAN : Walk(Node(s, 1), n, h)
    BY <1>2 DEF Found
  <2> DEFINE l == Node(s, 1)
             p == Along(n, e)
             g == heavy(e)
  <2>2. l \in ProductNode
    BY <1>1
  <2>3. Walk(n, p, g)
    BY WalkEdge
  <2>4. Walk(l, n, h)
    BY <2>1
  <2> HIDE DEF l, p, g
  <2>5. Walk(l, p, h \/ g) /\ p \in ProductNode
    BY <2>2, <2>3, <2>4, WalkJoin, WalkEnds
  <2>6. (h \/ g) \in BOOLEAN
    BY <2>1
  <2>7. Found(p)
    BY <2>5, <2>6 DEF Found, l
  <2> QED
    BY <2>5, <2>7 DEF p
<1> QED
  BY <1>1, <1>2

\* An edge is taken, and leads into the marks.
LEMMA SearchingTaken ==
  ASSUME ArgumentsOK, NEW marks, NEW calls, Searching(marks, marks, calls), calls # <<>>,
         NEW e \in Last(calls).todo
  PROVE  /\ Along(Last(calls).node, e) \in ProductNode
         /\ Searching(marks, marks \cup {Along(Last(calls).node, e)}, Taken(calls, e))
<1> DEFINE n == Last(calls).node
           p == Along(n, e)
           more == marks \cup {p}
           t == Taken(calls, e)
<1>1. calls \in Seq(Frame) /\ Len(calls) \in 1..Len(calls) /\ Last(calls) = calls[Len(calls)]
  BY DEF Searching, Last
<1>2. n \in marks /\ n \in ProductNode /\ Found(n) /\ e \in EdgesOf(n) /\ n = calls[Len(calls)].node
  BY <1>1 DEF Searching
<1>3. p \in ProductNode /\ Found(p)
  BY <1>2, FoundStarts
<1>4. /\ t \in Seq(Frame) /\ Len(t) = Len(calls)
      /\ \A k \in 1..Len(calls) :
           /\ t[k].node = calls[k].node
           /\ t[k].todo = IF k = Len(calls) THEN calls[k].todo \ {e} ELSE calls[k].todo
  BY <1>1, TakenFrame
<1> HIDE DEF n, t
<1>5. ASSUME NEW m \in marks, NEW d \in EdgesOf(m)
      PROVE  Along(m, d) \in more \/ Waiting(t, m, d)
  <2>1. CASE Along(m, d) \in marks
    BY <2>1
  <2>2. CASE Waiting(calls, m, d)
    <3>1. PICK k \in 1..Len(calls) : calls[k].node = m /\ d \in calls[k].todo
      BY <2>2 DEF Waiting
    <3>2. CASE k = Len(calls) /\ d = e
      BY <1>2, <3>1, <3>2
    <3>3. CASE ~(k = Len(calls) /\ d = e)
      <4>1. k \in 1..Len(t) /\ t[k].node = m /\ d \in t[k].todo
        BY <1>4, <3>1, <3>3
      <4> QED
        BY <4>1 DEF Waiting
    <3> QED
      BY <3>2, <3>3
  <2> QED
    BY <2>1, <2>2 DEF Searching
<1>6. \A k \in 1..Len(t) : t[k].node \in marks /\ t[k].todo \subseteq EdgesOf(t[k].node)
  BY <1>4 DEF Searching
<1>7. \A m \in marks : m[1] \in final =>
        ~Walk(m, m, TRUE) \/ \E k \in 1..Len(t) : t[k].node = m
  BY <1>4 DEF Searching
<1>8. marks \subseteq more /\ more \subseteq ProductNode /\ \A m \in more : Found(m)
  BY <1>3 DEF Searching
<1>9. Searching(marks, more, t)
  <2> HIDE DEF more
  <2> QED
    BY <1>4, <1>5, <1>6, <1>7, <1>8 DEF Searching
<1> QED
  BY <1>3, <1>9 DEF n, t

\* A call for a marked state.
LEMMA SearchingPushed ==
  ASSUME ArgumentsOK, NEW from, NEW marks, NEW calls, Searching(from, marks, calls), NEW n \in marks
  PROVE  Searching(from \cup {n}, marks, Append(calls, Call(n)))
<1> DEFINE c == Call(n)
           t == Append(calls, c)
           more == from \cup {n}
<1>1. n \in ProductNode /\ calls \in Seq(Frame)
  BY DEF Searching
<1>2. c \in Frame /\ c.node = n /\ c.todo = EdgesOf(n)
  BY <1>1 DEF Call, Frame, EdgesOf
<1> HIDE DEF c
<1>3. /\ t \in Seq(Frame)
      /\ \A k \in 1..Len(calls) : t[k] = calls[k]
      /\ t[Len(calls) + 1] = c
      /\ 1..Len(t) = 1..Len(calls) \cup {Len(calls) + 1}
      /\ Len(calls) + 1 \in 1..Len(t)
  BY <1>1, <1>2, PushedFrame
<1> HIDE DEF t
<1>4. \A k \in 1..Len(t) : t[k].node \in more /\ t[k].todo \subseteq EdgesOf(t[k].node)
  BY <1>2, <1>3 DEF Searching
<1>5. ASSUME NEW m \in more, NEW d \in EdgesOf(m)
      PROVE  Along(m, d) \in marks \/ Waiting(t, m, d)
  <2>1. CASE m = n
    BY <1>2, <1>3, <2>1 DEF Waiting
  <2>2. CASE m \in from
    <3>1. Waiting(calls, m, d) => Waiting(t, m, d)
      BY <1>3 DEF Waiting
    <3> QED
      BY <2>2, <3>1 DEF Searching
  <2> QED
    BY <2>1, <2>2
<1>6. ASSUME NEW m \in more, m[1] \in final
      PROVE  ~Walk(m, m, TRUE) \/ \E k \in 1..Len(t) : t[k].node = m
  <2>1. CASE m = n
    BY <1>2, <1>3, <2>1
  <2>2. CASE m \in from
    BY <1>3, <1>6, <2>2 DEF Searching
  <2> QED
    BY <2>1, <2>2
<1>7. more \subseteq marks /\ marks \subseteq ProductNode /\ \A m \in marks : Found(m)
  BY DEF Searching
<1>8. Searching(more, marks, t)
  <2> HIDE DEF more
  <2> QED
    BY <1>3, <1>4, <1>5, <1>6, <1>7 DEF Searching
<1> QED
  BY <1>8 DEF t, c

\* A call ends.
LEMMA SearchingPopped ==
  ASSUME ArgumentsOK, NEW marks, NEW calls, Searching(marks, marks, calls), calls # <<>>,
         Last(calls).todo = {},
         Last(calls).node[1] \in final => ~Walk(Last(calls).node, Last(calls).node, TRUE)
  PROVE  Searching(marks, marks, Front(calls))
<1> DEFINE t == Front(calls)
<1>1. calls \in Seq(Frame)
  BY DEF Searching
<1>2. /\ t \in Seq(Frame)
      /\ \A k \in 1..Len(t) : t[k] = calls[k]
      /\ 1..Len(calls) = 1..Len(t) \cup {Len(calls)}
      /\ Last(calls) = calls[Len(calls)]
  BY <1>1, PoppedFrame
<1> HIDE DEF t
<1>3. \A k \in 1..Len(t) : t[k].node \in marks /\ t[k].todo \subseteq EdgesOf(t[k].node)
  BY <1>2 DEF Searching
<1>4. ASSUME NEW m \in marks, NEW d \in EdgesOf(m)
      PROVE  Along(m, d) \in marks \/ Waiting(t, m, d)
  <2>1. ASSUME Waiting(calls, m, d)
        PROVE  Waiting(t, m, d)
    <3>1. PICK k \in 1..Len(calls) : calls[k].node = m /\ d \in calls[k].todo
      BY <2>1 DEF Waiting
    <3>2. k # Len(calls)
      BY <1>2, <3>1
    <3> QED
      BY <1>2, <3>1, <3>2 DEF Waiting
  <2> QED
    BY <2>1 DEF Searching
<1>5. ASSUME NEW m \in marks, m[1] \in final
      PROVE  ~Walk(m, m, TRUE) \/ \E k \in 1..Len(t) : t[k].node = m
  <2>1. ~Walk(m, m, TRUE) \/ \E k \in 1..Len(calls) : calls[k].node = m
    BY <1>5 DEF Searching
  <2>2. CASE \E k \in 1..Len(calls) : calls[k].node = m
    <3>1. PICK k \in 1..Len(calls) : calls[k].node = m
      BY <2>2
    <3>2. CASE k = Len(calls)
      BY <1>2, <1>5, <3>1, <3>2
    <3>3. CASE k # Len(calls)
      BY <1>2, <3>1, <3>3
    <3> QED
      BY <3>2, <3>3
  <2> QED
    BY <2>1, <2>2
<1>6. Searching(marks, marks, t)
  BY <1>2, <1>3, <1>4, <1>5 DEF Searching
<1> QED
  BY <1>6 DEF t

\* When no call is left and all starts are marked, the search has not missed
\* a heavy cycle.
LEMMA SearchingDone ==
  ASSUME ArgumentsOK, NEW marks, Searching(marks, marks, <<>>), \A s \in U : Node(s, 1) \in marks
  PROVE  ~Answer
<1>0. \A n, e : ~Waiting(<<>>, n, e)
  <2>1. 1..Len(<<>>) = {}
    OBVIOUS
  <2> QED
    BY <2>1 DEF Waiting
<1>1. ASSUME NEW n, Found(n)
      PROVE  n \in marks
  <2>1. PICK s \in U, h \in BOOLEAN : Walk(Node(s, 1), n, h)
    BY <1>1 DEF Found
  <2> DEFINE T == {k \in Key : k[1] \in marks}
             first == <<Node(s, 1), FALSE>>
             last == <<n, h>>
  <2>2. first \in Key /\ first \in T
    BY FoundStarts DEF Key
  <2>3. ASSUME NEW x \in Key, x \in T, NEW e \in EdgesOf(x[1])
        PROVE  KeyAlong(x, e) \in T
    <3>1. Along(x[1], e) \in marks
      BY <1>0, <2>3 DEF Searching
    <3>2. KeyAlong(x, e) \in Key
      <4>1. KeyAlong(x, e) \in keys[x]
        BY DEF keys
      <4> QED
        BY <4>1, KeysGraph DEF IsGraph
    <3> QED
      BY <3>1, <3>2 DEF KeyAlong
  <2>4. Reaches(keys, first, last)
    BY <2>1 DEF Walk
  <2>5. last[1] = n
    OBVIOUS
  <2>6. \A x \in Key : x \in T => x[1] \in marks
    OBVIOUS
  <2> HIDE DEF first, last, T
  <2>7. last \in T /\ last \in Key
    BY <2>2, <2>3, <2>4, KeyInduction
  <2> QED
    BY <2>5, <2>6, <2>7
<1>2. \A n \in marks : n[1] \in final => ~Walk(n, n, TRUE)
  <2>1. 1..Len(<<>>) = {}
    OBVIOUS
  <2>2. \A n \in marks : n[1] \in final =>
          ~Walk(n, n, TRUE) \/ \E k \in 1..Len(<<>>) : <<>>[k].node = n
    <3> DEFINE none == <<>>
    <3>1. Searching(marks, marks, none)
      OBVIOUS
    <3> HIDE DEF none
    <3>2. \A n \in marks : n[1] \in final =>
            ~Walk(n, n, TRUE) \/ \E k \in 1..Len(none) : none[k].node = n
      BY <3>1 DEF Searching
    <3> QED
      BY <3>2 DEF none
  <2> QED
    BY <2>1, <2>2
<1>3. \A n \in ProductNode : ~(n[1] \in final /\ Found(n) /\ Walk(n, n, TRUE))
  BY <1>1, <1>2
<1> QED
  BY <1>3 DEF Answer
-----------------------------------------------------------------------------
(* The second search *)

\* The same of a call of the second search.
WaitingKey(calls, k, e) ==
  \E j \in 1..Len(calls) : <<calls[j].node, calls[j].seen>> = k /\ e \in calls[j].todo

\* The second search for r: it has left the keys of from, and has not come back.
Cycling(from, marks, calls, r) ==
  /\ from \subseteq marks /\ marks \subseteq Key
  /\ calls \in Seq(CycleFrame)
  /\ \A j \in 1..Len(calls) :
       <<calls[j].node, calls[j].seen>> \in from /\ calls[j].todo \subseteq EdgesOf(calls[j].node)
  /\ <<r, FALSE>> \in marks /\ <<r, TRUE>> \notin marks
  /\ \A k \in marks : Walk(r, k[1], k[2])
  /\ \A k \in from : \A e \in EdgesOf(k[1]) : KeyAlong(k, e) \in marks \/ WaitingKey(calls, k, e)

\* A call of the second search that has taken an edge.
LEMMA TakenCycleFrame ==
  ASSUME NEW calls \in Seq(CycleFrame), calls # <<>>, NEW e
  PROVE  /\ Taken(calls, e) \in Seq(CycleFrame) /\ Len(Taken(calls, e)) = Len(calls)
         /\ \A k \in 1..Len(calls) :
              /\ Taken(calls, e)[k].node = calls[k].node /\ Taken(calls, e)[k].seen = calls[k].seen
              /\ Taken(calls, e)[k].todo = IF k = Len(calls) THEN calls[k].todo \ {e} ELSE calls[k].todo
<1>1. Len(calls) \in 1..Len(calls) /\ DOMAIN calls = 1..Len(calls)
  OBVIOUS
<1>2. \A k \in 1..Len(calls) : calls[k] \in CycleFrame
  OBVIOUS
<1> DEFINE v == [calls[Len(calls)] EXCEPT !.todo = @ \ {e}]
<1>3. /\ v \in CycleFrame /\ v.node = calls[Len(calls)].node /\ v.seen = calls[Len(calls)].seen
      /\ v.todo = calls[Len(calls)].todo \ {e}
  BY <1>1, <1>2 DEF CycleFrame
<1>4. Taken(calls, e) = [calls EXCEPT ![Len(calls)] = v]
  BY <1>1 DEF Taken
<1> HIDE DEF v
<1>5. /\ Taken(calls, e) \in Seq(CycleFrame) /\ Len(Taken(calls, e)) = Len(calls)
      /\ \A k \in 1..Len(calls) : Taken(calls, e)[k] = IF k = Len(calls) THEN v ELSE calls[k]
  BY <1>3, <1>4, LastReplaced
<1> QED
  BY <1>3, <1>5

\* An edge of a reached key leads to a reached key.
LEMMA KeyReached ==
  ASSUME ArgumentsOK, NEW r \in ProductNode, NEW k \in Key, Walk(r, k[1], k[2]), NEW e \in EdgesOf(k[1])
  PROVE  /\ KeyAlong(k, e) \in Key
         /\ Walk(r, KeyAlong(k, e)[1], KeyAlong(k, e)[2])
<1>1. KeyAlong(k, e) \in Key
  <2>1. KeyAlong(k, e) \in keys[k]
    BY DEF keys
  <2> QED
    BY <2>1, KeysGraph DEF IsGraph
<1> DEFINE p == Along(k[1], e)
           g == heavy(e)
<1>2. k[1] \in ProductNode
  BY DEF Key
<1>3. Walk(k[1], p, g)
  BY <1>2, WalkEdge
<1> HIDE DEF p, g
<1>4. Walk(r, p, k[2] \/ g)
  BY <1>3, WalkJoin
<1> QED
  BY <1>1, <1>4 DEF p, g, KeyAlong

\* An edge is taken that does not close a heavy cycle.
LEMMA CyclingTaken ==
  ASSUME ArgumentsOK, NEW marks, NEW calls, NEW r \in ProductNode, Cycling(marks, marks, calls, r),
         calls # <<>>, NEW e \in Last(calls).todo,
         NEW k, k = <<Last(calls).node, Last(calls).seen>>, KeyAlong(k, e) # <<r, TRUE>>
  PROVE  Cycling(marks, marks \cup {KeyAlong(k, e)}, Taken(calls, e), r)
<1> DEFINE p == KeyAlong(k, e)
           more == marks \cup {p}
           t == Taken(calls, e)
<1>1. calls \in Seq(CycleFrame) /\ Len(calls) \in 1..Len(calls) /\ Last(calls) = calls[Len(calls)]
  BY DEF Cycling, Last
<1>2. k \in marks /\ e \in EdgesOf(k[1]) /\ k = <<calls[Len(calls)].node, calls[Len(calls)].seen>>
  BY <1>1 DEF Cycling
<1>3. p \in Key /\ Walk(r, p[1], p[2]) /\ p # <<r, TRUE>>
  BY <1>2, KeyReached DEF Cycling
<1>4. /\ t \in Seq(CycleFrame) /\ Len(t) = Len(calls)
      /\ \A j \in 1..Len(calls) :
           /\ t[j].node = calls[j].node /\ t[j].seen = calls[j].seen
           /\ t[j].todo = IF j = Len(calls) THEN calls[j].todo \ {e} ELSE calls[j].todo
  BY <1>1, TakenCycleFrame
<1>P. KeyAlong(k, e) = p
  OBVIOUS
<1> HIDE DEF t, p
<1>5. ASSUME NEW m \in marks, NEW d \in EdgesOf(m[1])
      PROVE  KeyAlong(m, d) \in more \/ WaitingKey(t, m, d)
  <2>1. CASE KeyAlong(m, d) \in marks
    BY <2>1
  <2>2. CASE WaitingKey(calls, m, d)
    <3>1. PICK j \in 1..Len(calls) : <<calls[j].node, calls[j].seen>> = m /\ d \in calls[j].todo
      BY <2>2 DEF WaitingKey
    <3>2. CASE j = Len(calls) /\ d = e
      <4>1. m = k
        BY <1>2, <3>1, <3>2
      <4> QED
        BY <1>P, <3>2, <4>1
    <3>3. CASE ~(j = Len(calls) /\ d = e)
      <4>1. j \in 1..Len(t) /\ <<t[j].node, t[j].seen>> = m /\ d \in t[j].todo
        BY <1>4, <3>1, <3>3
      <4> QED
        BY <4>1 DEF WaitingKey
    <3> QED
      BY <3>2, <3>3
  <2> QED
    BY <2>1, <2>2 DEF Cycling
<1>6. \A j \in 1..Len(t) : <<t[j].node, t[j].seen>> \in marks /\ t[j].todo \subseteq EdgesOf(t[j].node)
  BY <1>4 DEF Cycling
<1>7. /\ marks \subseteq more /\ more \subseteq Key /\ <<r, FALSE>> \in more /\ <<r, TRUE>> \notin more
      /\ \A m \in more : Walk(r, m[1], m[2])
  BY <1>3 DEF Cycling
<1>8. Cycling(marks, more, t, r)
  <2> HIDE DEF more
  <2> QED
    BY <1>4, <1>5, <1>6, <1>7 DEF Cycling
<1> QED
  BY <1>8 DEF p, t

\* A call for a marked key.
LEMMA CyclingPushed ==
  ASSUME ArgumentsOK, NEW from, NEW marks, NEW calls, NEW r, Cycling(from, marks, calls, r), NEW k \in marks
  PROVE  Cycling(from \cup {k}, marks, Append(calls, CycleCall(k[1], k[2])), r)
<1> DEFINE c == CycleCall(k[1], k[2])
           t == Append(calls, c)
           more == from \cup {k}
<1>1. k \in Key /\ k[1] \in ProductNode /\ k[2] \in BOOLEAN /\ k = <<k[1], k[2]>> /\ calls \in Seq(CycleFrame)
  BY DEF Cycling, Key
<1>2. c \in CycleFrame /\ c.node = k[1] /\ c.seen = k[2] /\ c.todo = EdgesOf(k[1])
  BY <1>1 DEF CycleCall, CycleFrame, EdgesOf
<1> HIDE DEF c
<1>3. /\ t \in Seq(CycleFrame)
      /\ \A j \in 1..Len(calls) : t[j] = calls[j]
      /\ t[Len(calls) + 1] = c
      /\ 1..Len(t) = 1..Len(calls) \cup {Len(calls) + 1}
      /\ Len(calls) + 1 \in 1..Len(t)
  BY <1>1, <1>2, PushedFrame
<1> HIDE DEF t
<1>4. \A j \in 1..Len(t) : <<t[j].node, t[j].seen>> \in more /\ t[j].todo \subseteq EdgesOf(t[j].node)
  BY <1>1, <1>2, <1>3 DEF Cycling
<1>5. ASSUME NEW m \in more, NEW d \in EdgesOf(m[1])
      PROVE  KeyAlong(m, d) \in marks \/ WaitingKey(t, m, d)
  <2>1. CASE m = k
    BY <1>1, <1>2, <1>3, <2>1 DEF WaitingKey
  <2>2. CASE m \in from
    <3>1. WaitingKey(calls, m, d) => WaitingKey(t, m, d)
      BY <1>3 DEF WaitingKey
    <3> QED
      BY <2>2, <3>1 DEF Cycling
  <2> QED
    BY <2>1, <2>2
<1>7. /\ more \subseteq marks /\ marks \subseteq Key /\ <<r, FALSE>> \in marks /\ <<r, TRUE>> \notin marks
      /\ \A m \in marks : Walk(r, m[1], m[2])
  BY DEF Cycling
<1>8. Cycling(more, marks, t, r)
  <2> HIDE DEF more
  <2> QED
    BY <1>3, <1>4, <1>5, <1>7 DEF Cycling
<1> QED
  BY <1>8 DEF t, c

\* A call of the second search ends.
LEMMA CyclingPopped ==
  ASSUME ArgumentsOK, NEW marks, NEW calls, NEW r, Cycling(marks, marks, calls, r), calls # <<>>,
         Last(calls).todo = {}
  PROVE  Cycling(marks, marks, Front(calls), r)
<1> DEFINE t == Front(calls)
<1>1. calls \in Seq(CycleFrame)
  BY DEF Cycling
<1>2. /\ t \in Seq(CycleFrame)
      /\ \A j \in 1..Len(t) : t[j] = calls[j]
      /\ 1..Len(calls) = 1..Len(t) \cup {Len(calls)}
      /\ Last(calls) = calls[Len(calls)]
  BY <1>1, PoppedFrame
<1> HIDE DEF t
<1>3. \A j \in 1..Len(t) : <<t[j].node, t[j].seen>> \in marks /\ t[j].todo \subseteq EdgesOf(t[j].node)
  BY <1>2 DEF Cycling
<1>4. ASSUME NEW m \in marks, NEW d \in EdgesOf(m[1])
      PROVE  KeyAlong(m, d) \in marks \/ WaitingKey(t, m, d)
  <2>1. ASSUME WaitingKey(calls, m, d)
        PROVE  WaitingKey(t, m, d)
    <3>1. PICK j \in 1..Len(calls) : <<calls[j].node, calls[j].seen>> = m /\ d \in calls[j].todo
      BY <2>1 DEF WaitingKey
    <3>2. j # Len(calls)
      BY <1>2, <3>1
    <3> QED
      BY <1>2, <3>1, <3>2 DEF WaitingKey
  <2> QED
    BY <2>1 DEF Cycling
<1>5. /\ marks \subseteq Key /\ <<r, FALSE>> \in marks /\ <<r, TRUE>> \notin marks
      /\ \A m \in marks : Walk(r, m[1], m[2])
  BY DEF Cycling
<1>6. Cycling(marks, marks, t, r)
  BY <1>2, <1>3, <1>4, <1>5 DEF Cycling
<1> QED
  BY <1>6 DEF t

\* When no call is left there is no heavy cycle at r.
LEMMA CyclingDone ==
  ASSUME ArgumentsOK, NEW marks, NEW r \in ProductNode, Cycling(marks, marks, <<>>, r)
  PROVE  ~Walk(r, r, TRUE)
<1>0. \A k, e : ~WaitingKey(<<>>, k, e)
  <2>1. 1..Len(<<>>) = {}
    OBVIOUS
  <2> QED
    BY <2>1 DEF WaitingKey
<1> DEFINE first == <<r, FALSE>>
           last == <<r, TRUE>>
<1>1. marks \subseteq Key /\ first \in marks /\ last \notin marks
  BY DEF Cycling
<1>2. \A x \in Key : x \in marks => \A e \in EdgesOf(x[1]) : KeyAlong(x, e) \in marks
  BY <1>0 DEF Cycling
<1> SUFFICES ASSUME Reaches(keys, first, last)
             PROVE  FALSE
  BY DEF Walk
<1> HIDE DEF first, last
<1>3. last \in marks
  BY <1>1, <1>2, KeyInduction
<1> QED
  BY <1>1, <1>3
-----------------------------------------------------------------------------
(* The invariant *)

\* A second search that runs is for the final state that the last call of the
\* first search is about to leave.
RootOK(calls, r) ==
  calls # <<>> /\ r = Last(calls).node /\ r[1] \in final /\ Last(calls).todo = {}

\* Where a search can be.
Good(un, marks, cycleMarks, calls, cycleCalls, r, res) ==
  /\ un \subseteq U
  /\ \A s \in U : s \in un \/ Node(s, 1) \in marks
  /\ Searching(marks, marks, calls)
  /\ cycleMarks \subseteq Key
  /\ r \in ProductNode \cup {None}
  /\ r = None => cycleCalls = <<>>
  /\ r # None => RootOK(calls, r) /\ Cycling(cycleMarks, cycleMarks, cycleCalls, r)
  /\ res \in BOOLEAN \cup {None}
  /\ res = TRUE => cycleCalls # <<>> /\ Answer
  /\ res = FALSE => calls = <<>> /\ ~Answer

Inv == ArgumentsOK /\ Good(unstarted, S, C, outer, inner, root, result)

\* None is no answer and no state.
LEMMA NoneIsOther ==
  ASSUME ArgumentsOK
  PROVE  None \notin BOOLEAN /\ None \notin ProductNode
<1>1. 1..Len(period) \subseteq Nat
  BY ArgumentFacts
<1>2. ProductNode \subseteq StateB \X Nat
  BY <1>1 DEF ProductNode
<1> QED
  BY <1>2, MembershipAssumption

\* Before the first call.
LEMMA InitGood == Init => Inv
<1> SUFFICES ASSUME Init
             PROVE  Inv
  OBVIOUS
<1>1. ArgumentsOK
  BY DEF Init, ArgumentsOK
<1> DEFINE none == <<>>
<1>2. none \in Seq(Frame) /\ 1..Len(none) = {}
  OBVIOUS
<1> HIDE DEF none
<1>3. Searching({}, {}, none)
  BY <1>2 DEF Searching
<1>4. Good(U, {}, {}, none, none, None, None)
  <2>1. None # TRUE /\ None # FALSE
    BY <1>1, NoneIsOther
  <2>2. U \subseteq U /\ {} \subseteq Key /\ none = <<>>
    BY DEF none
  <2> QED
    BY <1>3, <2>1, <2>2 DEF Good
<1> QED
  BY <1>1, <1>4 DEF Inv, Init, none

\* A search that has answered does nothing more.
LEMMA Unanswered ==
  ASSUME Inv, Next
  PROVE  result = None
<1>1. /\ result \in BOOLEAN \cup {None}
      /\ result = TRUE => inner # <<>>
      /\ result = FALSE => outer = <<>>
      /\ root = None => inner = <<>>
      /\ inner # <<>> => outer # <<>>
  BY DEF Inv, Good, RootOK
<1>2. CASE \E s \in unstarted : Start(s)
  BY <1>2 DEF Start
<1>3. CASE \E e \in edgesB : Deeper(e)
  BY <1>1, <1>3 DEF Deeper
<1>4. CASE SecondSearch
  BY <1>1, <1>4 DEF SecondSearch, Leaving
<1>5. CASE \E e \in edgesB : Follow(e)
  BY <1>5 DEF Follow
<1>6. CASE Back
  BY <1>6 DEF Back
<1>7. CASE Leave
  BY <1>1, <1>7 DEF Leave
<1>8. CASE NoRun
  BY <1>8 DEF NoRun
<1> QED
  BY <1>2, <1>3, <1>4, <1>5, <1>6, <1>7, <1>8 DEF Next

\* The next state, under the arguments of this one.
NextGood == Good(unstarted', S', C', outer', inner', root', result')

\* A start.
LEMMA StartGood ==
  ASSUME Inv, NEW s \in unstarted, Start(s)
  PROVE  NextGood
<1> DEFINE n == Node(s, 1)
           more == S \cup {n}
<1>1. ArgumentsOK /\ Good(unstarted, S, C, outer, inner, root, result)
  BY DEF Inv
<1>2. /\ result = None /\ outer = <<>> /\ unstarted' = unstarted \ {s}
      /\ S' = more /\ outer' = <<Call(n)>> /\ C' = C /\ inner' = inner /\ root' = root /\ result' = result
  BY DEF Start
<1>3. s \in U /\ root = None /\ inner = <<>> /\ C \subseteq Key
  BY <1>1, <1>2 DEF Good, RootOK
<1>4. n \in ProductNode /\ Found(n)
  BY <1>1, <1>3, FoundStarts
<1>5. Append(outer, Call(n)) = <<Call(n)>>
  BY <1>2
<1>6. \A t \in U : t \in unstarted \ {s} \/ Node(t, 1) \in more
  BY <1>1 DEF Good
<1> HIDE DEF n
<1>7. Searching(S, more, outer)
  <2>1. Searching(S, S, outer)
    BY <1>1 DEF Good
  <2> QED
    BY <1>4, <2>1 DEF Searching
<1>8. Searching(S \cup {n}, more, Append(outer, Call(n)))
  BY <1>1, <1>7, SearchingPushed
<1>9. Searching(more, more, outer')
  BY <1>2, <1>5, <1>8
<1>10. unstarted \ {s} \subseteq U
  BY <1>1 DEF Good
<1> HIDE DEF more
<1> QED
  BY <1>1, <1>2, <1>3, <1>6, <1>9, <1>10, NoneIsOther DEF NextGood, Good

\* The first search takes an edge.
LEMMA DeeperGood ==
  ASSUME Inv, NEW e \in edgesB, Deeper(e)
  PROVE  NextGood
<1> DEFINE n == Along(Last(outer).node, e)
           more == S \cup {n}
<1>1. ArgumentsOK /\ Good(unstarted, S, C, outer, inner, root, result)
  BY DEF Inv
<1>2. result = None
  BY Unanswered DEF Next
<1>3. /\ outer # <<>> /\ root = None /\ e \in Last(outer).todo
      /\ unstarted' = unstarted /\ C' = C /\ inner' = inner /\ root' = root /\ result' = result
  BY DEF Deeper
<1>4. \/ n \in S /\ outer' = Taken(outer, e) /\ S' = S
      \/ n \notin S /\ outer' = Append(Taken(outer, e), Call(n)) /\ S' = S \cup {n}
  BY DEF Deeper
<1> HIDE DEF n
<1>5. Searching(S, more, Taken(outer, e))
  BY <1>1, <1>3, SearchingTaken DEF Good, n
<1>6. Searching(S', S', outer') /\ S \subseteq S'
  <2>1. CASE n \in S /\ outer' = Taken(outer, e) /\ S' = S
    <3>1. more = S
      BY <2>1
    <3> QED
      BY <1>5, <2>1, <3>1
  <2>2. CASE n \notin S /\ outer' = Append(Taken(outer, e), Call(n)) /\ S' = S \cup {n}
    <3>1. Searching(S \cup {n}, more, Append(Taken(outer, e), Call(n)))
      BY <1>1, <1>5, SearchingPushed
    <3> QED
      BY <2>2, <3>1
  <2> QED
    BY <1>4, <2>1, <2>2
<1>7. inner = <<>> /\ C \subseteq Key
  BY <1>1, <1>3 DEF Good
<1>8. unstarted \subseteq U /\ \A s \in U : s \in unstarted \/ Node(s, 1) \in S'
  BY <1>1, <1>6 DEF Good
<1> QED
  BY <1>1, <1>2, <1>3, <1>6, <1>7, <1>8, NoneIsOther DEF NextGood, Good

\* The second search starts.
LEMMA SecondSearchGood ==
  ASSUME Inv, SecondSearch
  PROVE  NextGood
<1>1. ArgumentsOK /\ Good(unstarted, S, C, outer, inner, root, result)
  BY DEF Inv
<1>2. result = None
  BY Unanswered DEF Next
<1>3. /\ outer # <<>> /\ Last(outer).todo = {} /\ Last(outer).node[1] \in final
      /\ root' = Last(outer).node /\ C' = {<<root', FALSE>>} /\ inner' = <<CycleCall(root', FALSE)>>
      /\ unstarted' = unstarted /\ S' = S /\ outer' = outer /\ result' = result
  BY DEF SecondSearch, Leaving, Unmarked
<1>4. Searching(S, S, outer) /\ unstarted \subseteq U /\ \A s \in U : s \in unstarted \/ Node(s, 1) \in S
  BY <1>1 DEF Good
<1>5. root' \in ProductNode
  <2>1. outer \in Seq(Frame) /\ Len(outer) \in 1..Len(outer) /\ Last(outer) = outer[Len(outer)]
    BY <1>3, <1>4 DEF Searching, Last
  <2> QED
    BY <1>3, <1>4, <2>1 DEF Searching
<1> DEFINE r == root'
           k == <<r, FALSE>>
           none == <<>>
<1>6. Cycling({}, {k}, none, r)
  <2>1. none \in Seq(CycleFrame) /\ 1..Len(none) = {}
    OBVIOUS
  <2>2. k \in Key /\ <<r, TRUE>> \notin {k} /\ k[1] = r /\ k[2] = FALSE
    BY <1>5 DEF Key
  <2>3. Walk(r, r, FALSE)
    BY <1>1, <1>5, WalkItself
  <2> HIDE DEF none
  <2> QED
    BY <2>1, <2>2, <2>3 DEF Cycling
<1>7. Cycling({} \cup {k}, {k}, Append(none, CycleCall(k[1], k[2])), r)
  <2> HIDE DEF k, none, r
  <2> QED
    BY <1>1, <1>6, CyclingPushed
<1>8. Append(none, CycleCall(k[1], k[2])) = inner' /\ {} \cup {k} = {k} /\ C' = {k}
  BY <1>3
<1>9. Cycling(C', C', inner', root')
  BY <1>7, <1>8
<1>10. C' \subseteq Key
  BY <1>9 DEF Cycling
<1>11. root' # None /\ RootOK(outer', root')
  BY <1>1, <1>3, <1>5, NoneIsOther DEF RootOK
<1> QED
  BY <1>1, <1>2, <1>3, <1>4, <1>5, <1>9, <1>10, <1>11, NoneIsOther DEF NextGood, Good

\* The second search takes an edge.
LEMMA FollowGood ==
  ASSUME Inv, NEW e \in edgesB, Follow(e)
  PROVE  NextGood
<1> DEFINE k == <<Last(inner).node, Last(inner).seen>>
           p == KeyAlong(k, e)
<1>1. ArgumentsOK /\ Good(unstarted, S, C, outer, inner, root, result)
  BY DEF Inv
<1>3. /\ inner # <<>> /\ result = None /\ e \in Last(inner).todo
      /\ unstarted' = unstarted /\ S' = S /\ outer' = outer /\ root' = root
  BY DEF Follow
<1>4. root # None /\ root \in ProductNode /\ RootOK(outer, root) /\ Cycling(C, C, inner, root)
  BY <1>1, <1>3 DEF Good
<1>5. inner \in Seq(CycleFrame) /\ Len(inner) \in 1..Len(inner) /\ Last(inner) = inner[Len(inner)]
  BY <1>3, <1>4 DEF Cycling, Last
<1>6. k \in C /\ k \in Key /\ e \in EdgesOf(k[1]) /\ Walk(root, k[1], k[2])
  BY <1>3, <1>4, <1>5 DEF Cycling
<1>7. p \in Key /\ Walk(root, p[1], p[2])
  BY <1>1, <1>4, <1>6, KeyReached
<1>8. p = <<Along(Last(inner).node, e), Seen(Last(inner), e)>>
  BY DEF KeyAlong, Seen, heavy
<1>9. Seen(Last(inner), e) \in BOOLEAN /\ p[2] = Seen(Last(inner), e) /\ p[1] = Along(Last(inner).node, e)
  BY <1>7, <1>8 DEF Key
<1>10. \/ p[2] /\ p[1] = root /\ result' = TRUE /\ C' = C /\ inner' = inner
       \/ /\ ~(p[2] /\ p[1] = root) /\ result' = result
          /\ \/ p \in C /\ inner' = Taken(inner, e) /\ C' = C
             \/ inner' = Append(Taken(inner, e), CycleCall(p[1], p[2])) /\ C' = C \cup {p}
  BY <1>8, <1>9 DEF Follow
<1>K. k = <<Last(inner).node, Last(inner).seen>>
  OBVIOUS
<1>P. p = KeyAlong(k, e) /\ p[2] \in BOOLEAN /\ p = <<p[1], p[2]>>
  BY <1>8, <1>9
<1>G. unstarted' \subseteq U /\ (\A s \in U : s \in unstarted' \/ Node(s, 1) \in S') /\ Searching(S', S', outer')
  BY <1>1, <1>3 DEF Good
<1> HIDE DEF k, p
<1>11. CASE p[2] /\ p[1] = root /\ result' = TRUE /\ C' = C /\ inner' = inner
  <2>1. Walk(root, root, TRUE)
    <3>1. p[2] = TRUE
      BY <1>P, <1>11
    <3> QED
      BY <1>7, <1>11, <3>1
  <2>2. Found(root) /\ root[1] \in final
    <3>1. outer \in Seq(Frame) /\ Len(outer) \in 1..Len(outer) /\ Last(outer) = outer[Len(outer)]
      BY <1>3, <1>4, <1>G DEF Searching, Last, RootOK
    <3> QED
      BY <1>3, <1>4, <1>G, <3>1 DEF Searching, RootOK
  <2>3. Answer
    BY <1>4, <2>1, <2>2 DEF Answer
  <2>4. C \subseteq Key
    BY <1>4 DEF Cycling
  <2> QED
    BY <1>3, <1>4, <1>G, <1>11, <2>3, <2>4 DEF NextGood, Good
<1>12. CASE /\ ~(p[2] /\ p[1] = root) /\ result' = result
            /\ \/ p \in C /\ inner' = Taken(inner, e) /\ C' = C
               \/ inner' = Append(Taken(inner, e), CycleCall(p[1], p[2])) /\ C' = C \cup {p}
  <2>1. p # <<root, TRUE>>
    <3> SUFFICES ASSUME p = <<root, TRUE>>
                 PROVE  FALSE
      OBVIOUS
    <3>1. p[1] = root /\ p[2] = TRUE
      OBVIOUS
    <3> QED
      BY <1>12, <3>1
  <2>2. Cycling(C, C \cup {p}, Taken(inner, e), root)
    BY <1>1, <1>3, <1>4, <1>K, <1>P, <2>1, CyclingTaken
  <2>3. Cycling(C', C', inner', root)
    <3>1. CASE p \in C /\ inner' = Taken(inner, e) /\ C' = C
      <4>1. C \cup {p} = C
        BY <3>1
      <4> QED
        BY <2>2, <3>1, <4>1
    <3>2. CASE inner' = Append(Taken(inner, e), CycleCall(p[1], p[2])) /\ C' = C \cup {p}
      <4>1. Cycling(C \cup {p}, C \cup {p}, Append(Taken(inner, e), CycleCall(p[1], p[2])), root)
        BY <1>1, <2>2, CyclingPushed
      <4> QED
        BY <3>2, <4>1
    <3> QED
      BY <1>12, <3>1, <3>2
  <2>4. C' \subseteq Key
    BY <2>3 DEF Cycling
  <2> QED
    BY <1>1, <1>3, <1>4, <1>G, <1>12, <2>3, <2>4, NoneIsOther DEF NextGood, Good
<1> QED
  BY <1>10, <1>11, <1>12

\* A call of the second search ends.
LEMMA BackGood ==
  ASSUME Inv, Back
  PROVE  NextGood
<1>1. ArgumentsOK /\ Good(unstarted, S, C, outer, inner, root, result)
  BY DEF Inv
<1>2. /\ inner # <<>> /\ result = None /\ Last(inner).todo = {} /\ inner' = Front(inner)
      /\ unstarted' = unstarted /\ S' = S /\ C' = C /\ outer' = outer /\ root' = root /\ result' = result
  BY DEF Back
<1>3. root # None /\ root \in ProductNode /\ RootOK(outer, root) /\ Cycling(C, C, inner, root)
  BY <1>1, <1>2 DEF Good
<1>4. Cycling(C, C, Front(inner), root)
  BY <1>1, <1>2, <1>3, CyclingPopped
<1> QED
  BY <1>1, <1>2, <1>3, <1>4, NoneIsOther DEF NextGood, Good

\* A call of the first search ends.
LEMMA LeaveGood ==
  ASSUME Inv, Leave
  PROVE  NextGood
<1>1. ArgumentsOK /\ Good(unstarted, S, C, outer, inner, root, result)
  BY DEF Inv
<1>2. result = None
  BY Unanswered DEF Next
<1>3. /\ outer # <<>> /\ inner = <<>> /\ outer' = Front(outer) /\ root' = None
      /\ root = None => Last(outer).todo = {} /\ Last(outer).node[1] \notin final
      /\ unstarted' = unstarted /\ S' = S /\ C' = C /\ inner' = inner /\ result' = result
  BY DEF Leave
<1>4. Last(outer).todo = {} /\ (Last(outer).node[1] \in final => ~Walk(Last(outer).node, Last(outer).node, TRUE))
  <2>1. CASE root = None
    BY <1>3, <2>1
  <2>2. CASE root # None
    <3>1. root \in ProductNode /\ RootOK(outer, root) /\ Cycling(C, C, <<>>, root)
      BY <1>1, <1>3, <2>2 DEF Good
    <3>2. ~Walk(root, root, TRUE)
      BY <1>1, <3>1, CyclingDone
    <3> QED
      BY <3>1, <3>2 DEF RootOK
  <2> QED
    BY <2>1, <2>2
<1>5. Searching(S, S, Front(outer))
  BY <1>1, <1>3, <1>4, SearchingPopped DEF Good
<1> QED
  BY <1>1, <1>2, <1>3, <1>5, NoneIsOther DEF NextGood, Good

\* The loop of fast_membership ends.
LEMMA NoRunGood ==
  ASSUME Inv, NoRun
  PROVE  NextGood
<1>1. ArgumentsOK /\ Good(unstarted, S, C, outer, inner, root, result)
  BY DEF Inv
<1>2. /\ result = None /\ outer = <<>> /\ unstarted = {} /\ result' = FALSE
      /\ unstarted' = unstarted /\ S' = S /\ C' = C /\ outer' = outer /\ inner' = inner /\ root' = root
  BY DEF NoRun
<1>3. Searching(S, S, <<>>) /\ \A s \in U : Node(s, 1) \in S
  BY <1>1, <1>2 DEF Good
<1>4. ~Answer
  BY <1>1, <1>3, SearchingDone
<1> QED
  BY <1>1, <1>2, <1>4, NoneIsOther DEF NextGood, Good

\* The arguments do not change, and what depends on them only does not either.
LEMMA SameArguments ==
  ASSUME ArgumentsOK, UNCHANGED arguments, NextGood
  PROVE  Inv'
<1>1. edgesB' = edgesB /\ final' = final /\ U' = U /\ period' = period /\ threshold' = threshold
  BY DEF arguments
<1>2. ArgumentsOK'
  BY <1>1 DEF ArgumentsOK
<1>3. ProductNode' = ProductNode /\ Key' = Key /\ \A n : EdgesOf(n)' = EdgesOf(n)
  BY <1>1 DEF ProductNode, Key, EdgesOf
<1>4. \A n, e : Along(n, e)' = Along(n, e)
  BY <1>1 DEF Along, After, Node
<1>5. \A k, e : KeyAlong(k, e)' = KeyAlong(k, e)
  BY <1>1, <1>4 DEF KeyAlong, heavy
<1>6. keys' = keys
  BY <1>3, <1>5 DEF keys
<1>7. \A m, n, h : Walk(m, n, h)' = Walk(m, n, h)
  BY <1>6 DEF Walk
<1>8. \A n : Found(n)' = Found(n)
  BY <1>1, <1>7 DEF Found
<1>9. Answer' = Answer
  BY <1>1, <1>3, <1>7, <1>8 DEF Answer
<1>10. Frame' = Frame /\ CycleFrame' = CycleFrame
  BY <1>1, <1>3 DEF Frame, CycleFrame
<1>11. Searching(S', S', outer') => Searching(S, S, outer)'
  BY <1>1, <1>3, <1>4, <1>7, <1>8, <1>10 DEF Searching, Waiting
<1>12. Cycling(C', C', inner', root') => Cycling(C, C, inner, root)'
  BY <1>3, <1>5, <1>7, <1>10 DEF Cycling, WaitingKey
<1>13. RootOK(outer', root') => RootOK(outer, root)'
  BY <1>1 DEF RootOK
<1>14. Good(unstarted, S, C, outer, inner, root, result)'
  BY <1>1, <1>3, <1>9, <1>11, <1>12, <1>13 DEF NextGood, Good
<1> QED
  BY <1>2, <1>14 DEF Inv

\* Every step keeps the invariant.
LEMMA NextInv == Inv /\ [Next]_vars => Inv'
<1> SUFFICES ASSUME Inv, [Next]_vars
             PROVE  Inv'
  OBVIOUS
<1>1. CASE Next
  <2>1. UNCHANGED arguments
    BY <1>1 DEF Next, Start, Deeper, SecondSearch, Follow, Back, Leave, NoRun
  <2>2. NextGood
    BY <1>1, StartGood, DeeperGood, SecondSearchGood, FollowGood, BackGood, LeaveGood, NoRunGood DEF Next
  <2> QED
    BY <2>1, <2>2, SameArguments DEF Inv
<1>2. CASE UNCHANGED vars
  <2>1. UNCHANGED arguments /\ NextGood
    BY <1>2 DEF vars, arguments, NextGood, Inv
  <2> QED
    BY <2>1, SameArguments DEF Inv
<1> QED
  BY <1>1, <1>2

\* fast_membership answers TRUE exactly when, from a state of U, the period can
\* be repeated for ever with a final state and an edge of at least the
\* threshold again and again.
THEOREM MembershipCorrect == Spec => []MembershipExact
<1>1. Inv => MembershipExact
  <2> SUFFICES ASSUME Inv, result # None
               PROVE  result = Accepted
    BY DEF MembershipExact, Accepted
  <2>1. ArgumentsOK /\ result \in BOOLEAN /\ (result = TRUE => Answer) /\ (result = FALSE => ~Answer)
    BY DEF Inv, Good
  <2>2. Accepted <=> Answer
    BY <2>1, LassoIs
  <2>3. Accepted \in BOOLEAN
    BY DEF Accepted, Accepts
  <2> QED
    BY <2>1, <2>2, <2>3
<1> QED
  BY <1>1, InitGood, NextInv, PTL DEF Spec

\* The calls of both searches are for marked states, and the second search runs
\* only below the final state it looks for.
THEOREM MembershipTypes == Spec => []TypeOK
<1>1. Inv => TypeOK
  <2> SUFFICES ASSUME Inv
               PROVE  TypeOK
    OBVIOUS
  <2>1. Good(unstarted, S, C, outer, inner, root, result)
    BY DEF Inv
  <2>2. Searching(S, S, outer) /\ C \subseteq Key /\ (root = None => inner = <<>>)
    BY <2>1 DEF Good
  <2>3. S \subseteq ProductNode /\ \A k \in 1..Len(outer) : outer[k].node \in S
    BY <2>2 DEF Searching
  <2>4. C \subseteq ProductNode \X BOOLEAN /\ result \in {TRUE, FALSE, None}
    BY <2>1, <2>2 DEF Key, Good
  <2>5. \A k \in 1..Len(inner) : <<inner[k].node, inner[k].seen>> \in C
    <3>1. CASE root = None
      <4>1. inner = <<>> /\ 1..Len(<<>>) = {}
        BY <2>2, <3>1
      <4> QED
        BY <4>1
    <3>2. CASE root # None
      BY <2>1, <3>2 DEF Good, Cycling
    <3> QED
      BY <3>1, <3>2
  <2>6. root # None => root = Last(outer).node
    BY <2>1 DEF Good, RootOK
  <2> QED
    BY <2>2, <2>3, <2>4, <2>5, <2>6 DEF TypeOK
<1> QED
  BY <1>1, InitGood, NextInv, PTL DEF Spec
=============================================================================
