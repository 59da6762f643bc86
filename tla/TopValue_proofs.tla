--------------------------- MODULE TopValue_proofs ---------------------------
(***************************************************************************)
(* What getTopValue, getBottomValue and isConstant return is what the runs *)
(* and the words of the automaton say, for all automata and weights.  The  *)
(* bottom values of deterministic automata for Sup and LimSup are left     *)
(* out, for the safety game is then played on weights in the wrong order,  *)
(* and so is isConstant for averages where there is a choice.              *)
(***************************************************************************)
EXTENDS TopValue, DataInduction

-----------------------------------------------------------------------------
(***************************************************************************)
(* The two searches behind compute_Top.  top_safety_scc gives every state  *)
(* the best infimum that a run from it can keep, in whatever order edges of *)
(* the same weight are given up, as long as the ids are in the order of the *)
(* weights; top_reachably gives every component the largest weight of its  *)
(* edges, from whichever origin it is searched.                            *)
(***************************************************************************)

\* The largest element.
LEMMA MaxIs ==
  ASSUME NEW S \in SUBSET Int, NEW m \in S, \A y \in S : y <= m
  PROVE  Max(S) = m
<1>1. Max(S) \in S /\ \A y \in S : Max(S) >= y
  BY DEF Max
<1>2. Max(S) \in Int /\ m \in Int /\ Max(S) >= m /\ Max(S) <= m
  BY <1>1
<1> QED
  BY <1>2

\* A finite set of integers has a largest element.
LEMMA MaxExists ==
  ASSUME NEW S \in SUBSET Int, IsFiniteSet(S), S # {}
  PROVE  Max(S) \in S /\ \A y \in S : y <= Max(S)
<1> DEFINE T == {U \in SUBSET S : U # {} => \E m \in U : \A y \in U : y <= m}
<1>1. \A U \in SUBSET S : (\A x \in U : U \ {x} \in T) => U \in T
  <2> SUFFICES ASSUME NEW U \in SUBSET S, \A x \in U : U \ {x} \in T, NEW x \in U
               PROVE  \E m \in U : \A y \in U : y <= m
    OBVIOUS
  <2>1. CASE U \ {x} = {}
    <3>1. \A y \in U : y <= x
      BY <2>1
    <3> QED
      BY <3>1
  <2>2. CASE U \ {x} # {}
    <3>1. PICK m \in U \ {x} : \A y \in U \ {x} : y <= m
      BY <2>2
    <3>2. CASE x <= m
      BY <3>1, <3>2
    <3>3. CASE m <= x
      <4>1. \A y \in U : y <= x
        BY <3>1, <3>3
      <4> QED
        BY <4>1
    <3>4. x \in Int /\ m \in Int
      OBVIOUS
    <3> QED
      BY <3>2, <3>3, <3>4
  <2> QED
    BY <2>1, <2>2
<1> HIDE DEF T
<1>2. S \in T
  BY <1>1, FiniteDescent
<1>3. PICK m \in S : \A y \in S : y <= m
  BY <1>2 DEF T
<1>4. Max(S) = m
  BY <1>3, MaxIs
<1> QED
  BY <1>3, <1>4

\* The same of two integers, and the smaller of them.
LEMMA MinOfTwo ==
  ASSUME NEW a \in Int, NEW b \in Int
  PROVE  Min({a, b}) = IF a <= b THEN a ELSE b
<1>1. Min({a, b}) \in {a, b} /\ Min({a, b}) <= a /\ Min({a, b}) <= b
  <2>1. \E x \in {a, b} : \A y \in {a, b} : x <= y
    OBVIOUS
  <2> QED
    BY <2>1 DEF Min
<1> QED
  BY <1>1

-----------------------------------------------------------------------------
(* Stacks *)

\* A stack without its last element.
LEMMA LastRemoved ==
  ASSUME NEW S, NEW s \in Seq(S), s # <<>>, NEW t, t = SubSeq(s, 1, Len(s) - 1)
  PROVE  /\ t \in Seq(S) /\ Len(t) = Len(s) - 1
         /\ \A i \in 1 .. Len(t) : t[i] = s[i]
<1>1. PICK n \in Nat : n = Len(s) - 1
  OBVIOUS
<1>2. \A i \in 1 .. n : s[i] \in S
  BY <1>1
<1>3. /\ SubSeq(s, 1, n) \in Seq(S)
      /\ Len(SubSeq(s, 1, n)) = IF 1 <= n THEN n - 1 + 1 ELSE 0
      /\ \A i \in 1 .. n - 1 + 1 : SubSeq(s, 1, n)[i] = s[1 + i - 1]
  BY <1>2, SubSeqProperties
<1>4. t = SubSeq(s, 1, n)
  BY <1>1
<1>5. Len(t) = n /\ \A i \in 1 .. n : t[i] = s[i]
  BY <1>3, <1>4
<1> QED
  BY <1>1, <1>3, <1>4, <1>5

-----------------------------------------------------------------------------
(* The graph and the weights that the algorithms work on *)

W(e) == value[e.id]

WeightOK(w) == w \in Int /\ domain.min <= w /\ w <= domain.max

\* The automaton is complete and its weights lie in the domain.
Ready ==
  /\ IsFiniteSet(edges)
  /\ domain.min \in Int /\ domain.max \in Int
  /\ \A e \in edges : /\ e.from \in State /\ e.symbol \in Symbol /\ e.to \in State
                      /\ WeightOK(W(e))
  /\ \A s \in State : \A a \in Symbol : \E e \in edges : e.from = s /\ e.symbol = a
  /\ in_scc \in BOOLEAN

\* The ids of the weights are in the order of the weights.
Ascending == \A e, d \in edges : e.id \in Int /\ (e.id <= d.id => W(e) <= W(d))

\* The successors are states.
LEMMA SuccIsGraph == Ready => IsGraph(succ, State)
BY DEF Ready, IsGraph, succ

\* An edge makes a successor.
LEMMA SuccHas ==
  ASSUME Ready, NEW e \in edges
  PROVE  e.to \in succ[e.from]
BY DEF Ready, succ

\* A successor comes from an edge.
LEMMA SuccIs ==
  ASSUME NEW s \in State, NEW t \in succ[s]
  PROVE  \E e \in edges : e.from = s /\ e.to = t
BY DEF succ

\* SameTag is an equivalence of the states.
LEMMA SameTagFacts ==
  ASSUME Ready
  PROVE  /\ \A s \in State : SameTag(s, s)
         /\ \A s, t : SameTag(s, t) => SameTag(t, s)
         /\ \A s, t, u : SameTag(s, t) /\ SameTag(t, u) => SameTag(s, u)
<1>1. IsGraph(succ, State)
  BY SuccIsGraph
<1>2. \A s \in State : SameTag(s, s)
  BY <1>1, ReachesItself DEF SameTag, Mutual
<1>3. \A s, t : SameTag(s, t) => SameTag(t, s)
  BY DEF SameTag, Mutual
<1>4. ASSUME NEW s, NEW t, NEW u, SameTag(s, t), SameTag(t, u)
      PROVE  SameTag(s, u)
  BY <1>1, <1>4, ReachesTransitive DEF SameTag, Mutual
<1> QED
  BY <1>2, <1>3, <1>4

\* The considered edges are finitely many, and their weights lie in the domain.
LEMMA ConsideredFacts ==
  ASSUME Ready
  PROVE  /\ Considered \subseteq edges
         /\ IsFiniteSet(Considered)
         /\ \A e \in Considered : /\ e.from \in State /\ e.symbol \in Symbol /\ e.to \in State
                                  /\ W(e) \in Int /\ domain.min <= W(e) /\ W(e) <= domain.max
<1>1. Considered \in SUBSET edges
  BY DEF Considered
<1>2. IsFiniteSet(Considered)
  BY <1>1, FS_Subset DEF Ready
<1> QED
  BY <1>1, <1>2 DEF Ready, WeightOK

\* The considered edges of a state.
OutOf(s) == {e \in Considered : e.from = s}

\* Where a considered edge leads there is another.
LEMMA ConsideredGoOn ==
  ASSUME Ready, NEW e \in Considered
  PROVE  OutOf(e.to) # {}
<1>1. e \in edges /\ e.from \in State /\ e.to \in State
  BY ConsideredFacts
<1>2. CASE ~in_scc
  <2>1. Considered = edges
    BY <1>2 DEF Considered
  <2>2. PICK a \in Symbol : TRUE
    BY SymbolAssumption
  <2> QED
    BY <1>1, <2>1, <2>2 DEF Ready, OutOf
<1>3. CASE in_scc
  <2>1. Considered = {d \in edges : SameTag(d.from, d.to)}
    BY <1>3 DEF Considered
  <2>2. CASE e.from = e.to
    BY <2>2 DEF OutOf
  <2>3. CASE e.from # e.to
    <3>1. Reaches(succ, e.to, e.from) /\ Reaches(succ, e.from, e.to)
      BY <2>1 DEF SameTag, Mutual
    <3>2. PICK w \in succ[e.to] : Reaches(succ, w, e.from)
      BY <1>1, <2>3, <3>1, SuccIsGraph, ReachesByEdge
    <3>3. PICK d \in edges : d.from = e.to /\ d.to = w
      BY <1>1, SuccIs
    <3>4. Reaches(succ, e.to, w)
      BY <1>1, SuccIsGraph, ReachesSuccessor
    <3>5. Reaches(succ, w, e.to)
      BY <3>1, <3>2, SuccIsGraph, ReachesTransitive
    <3> QED
      BY <2>1, <3>3, <3>4, <3>5 DEF OutOf, SameTag, Mutual
  <2> QED
    BY <2>2, <2>3
<1> QED
  BY <1>2, <1>3 DEF Ready

-----------------------------------------------------------------------------
(* top_safety_scc: the invariant *)

\* All considered edges of the state are given up: its value is final.
Decided(s) == OutOf(s) # {} /\ OutOf(s) \subseteq done_edge

SafetyType ==
  /\ values \in [State -> Int]
  /\ value_symbol \in [State -> [Symbol -> Int]]
  /\ done_edge \subseteq Considered
  /\ lists \subseteq Considered
  /\ calls \in Seq(SUBSET Considered)

\* The counters count.
Counted ==
  /\ counters = [s \in State |-> [a \in Symbol |-> Cardinality(Outgoing(s, a) \ done_edge)]]
  /\ done_symbol = [s \in State |-> Cardinality({a \in Symbol : ~(Outgoing(s, a) \subseteq done_edge)})]

\* What state s has while m is the threshold.
ValueAt(m, s) ==
  /\ OutOf(s) = {} => values[s] = domain.min
  /\ OutOf(s) # {} /\ ~Decided(s) => values[s] = domain.max
  /\ Decided(s) => /\ values[s] <= m
                   /\ \E e \in Considered : values[s] = W(e)
                   /\ \E e \in OutOf(s) : values[s] <= W(e) /\ values[s] <= values[e.to]

\* What has happened up to the threshold m, when cs is the stack of calls, ls
\* what the lists hold, and the edges in exempt are about to be given up.
UpTo(m, cs, ls, exempt) ==
  /\ m \in Int
  /\ Considered \ (done_edge \cup exempt) \subseteq ls
  /\ \A e \in ls : m <= W(e)
  /\ \A s \in State : ValueAt(m, s)
  /\ \A i \in 1 .. Len(cs) : \A e \in cs[i] : Decided(e.to) /\ values[e.to] = m
  /\ \A e \in Considered \ exempt :
       Decided(e.to) => e \in done_edge \/ \E i \in 1 .. Len(cs) : e \in cs[i]
  /\ \A e \in done_edge : W(e) <= m \/ values[e.to] <= m
  /\ \A s \in State, a \in Symbol : value_symbol[s][a] <= m

\* A run can stay in C on considered edges of weight x or more.
Stays(C, x) == \A s \in C : \E e \in Considered : e.from = s /\ e.to \in C /\ x <= W(e)

\* Where a run can stay no value is too small.
Kept ==
  \A C \in SUBSET State, x \in Int : Stays(C, x) =>
    /\ \A s \in C : x <= values[s]
    /\ \A e \in Considered :
         e.to \in C /\ x <= W(e) /\ Outgoing(e.from, e.symbol) \subseteq done_edge
           => x <= value_symbol[e.from][e.symbol]

SafetyInv ==
  /\ SafetyType
  /\ Counted
  /\ Kept
  /\ \E m : UpTo(m, calls, lists, {})

-----------------------------------------------------------------------------
(* The start *)

\* The considered edges of a symbol are finitely many of those of the state.
LEMMA OutgoingFacts ==
  ASSUME Ready, NEW s, NEW a
  PROVE  /\ Outgoing(s, a) \subseteq OutOf(s)
         /\ IsFiniteSet(Outgoing(s, a))
         /\ Cardinality(Outgoing(s, a)) \in Nat
         /\ Cardinality(Outgoing(s, a)) > 0 <=> Outgoing(s, a) # {}
<1>1. Outgoing(s, a) \in SUBSET Considered
  BY DEF Outgoing
<1>2. IsFiniteSet(Outgoing(s, a))
  BY <1>1, ConsideredFacts, FS_Subset
<1>3. Cardinality(Outgoing(s, a)) \in Nat
  BY <1>2, FS_CardinalityType
<1>4. Cardinality(Outgoing(s, a)) = 0 <=> Outgoing(s, a) = {}
  BY <1>2, FS_EmptySet
<1> QED
  BY <1>2, <1>3, <1>4 DEF Outgoing, OutOf

\* The edges of a state are those of its symbols.
LEMMA OutOfSymbols ==
  ASSUME Ready, NEW s
  PROVE  \A e \in OutOf(s) : e.symbol \in Symbol /\ e \in Outgoing(s, e.symbol)
BY ConsideredFacts DEF OutOf, Outgoing

\* top_safety_scc starts with everything counted and nothing given up.
LEMMA SafetyStarts ==
  ASSUME Ready, NEW scc \in BOOLEAN, SafetyStart(scc), UNCHANGED <<edges, value, domain>>
  PROVE  Ready' /\ SafetyInv'
<1>1. in_scc' = scc
  BY DEF SafetyStart
<1>2. Ready'
  BY <1>1 DEF Ready, WeightOK, W
<1>3. Considered' = {e \in edges : scc => SameTag(e.from, e.to)}
  BY <1>1 DEF Considered, SameTag, succ
<1> DEFINE out(s, a) == {e \in edges : e.from = s /\ e.symbol = a /\ (scc => SameTag(s, e.to))}
<1>4. \A s, a : out(s, a) = Outgoing(s, a)'
  BY <1>3 DEF Outgoing
<1>5. /\ lists' = UNION {out(s, a) : s \in State, a \in Symbol}
      /\ counters' = [s \in State |-> [a \in Symbol |-> Cardinality(out(s, a))]]
      /\ done_symbol' = [s \in State |-> Cardinality({a \in Symbol : counters'[s][a] > 0})]
      /\ value_symbol' = [s \in State |-> [a \in Symbol |-> domain.min]]
      /\ values' = [s \in State |-> IF done_symbol'[s] = 0 THEN domain.min ELSE domain.max]
      /\ done_edge' = {}
      /\ calls' = <<>>
  BY DEF SafetyStart
<1> HIDE DEF out
<1>6. \A e \in Considered' : e.from \in State /\ e.symbol \in Symbol /\ e \in edges
  BY <1>3 DEF Ready
<1>7. lists' = Considered'
  <2>1. \A s, a : out(s, a) \subseteq Considered'
    BY <1>4 DEF Outgoing
  <2>2. \A e \in Considered' : e \in out(e.from, e.symbol)
    BY <1>4 DEF Outgoing
  <2> QED
    BY <1>5, <1>6, <2>1, <2>2
<1>8. Counted'
  <2>1. counters' = [s \in State |-> [a \in Symbol |-> Cardinality(Outgoing(s, a)' \ {})]]
    BY <1>4, <1>5
  <2>2. \A s, a : Cardinality(Outgoing(s, a)') > 0 <=> ~(Outgoing(s, a)' \subseteq {})
    <3> TAKE s, a
    <3>1. Outgoing(s, a)' \in SUBSET edges
      BY <1>3 DEF Outgoing
    <3>2. IsFiniteSet(Outgoing(s, a)')
      BY <3>1, FS_Subset DEF Ready
    <3>3. Cardinality(Outgoing(s, a)') \in Nat /\ (Cardinality(Outgoing(s, a)') = 0 <=> Outgoing(s, a)' = {})
      BY <3>2, FS_CardinalityType, FS_EmptySet
    <3> QED
      BY <3>3
  <2>3. \A s \in State : {a \in Symbol : counters'[s][a] > 0} = {a \in Symbol : ~(Outgoing(s, a)' \subseteq {})}
    BY <1>4, <1>5, <2>2
  <2> QED
    BY <1>5, <2>1, <2>3 DEF Counted
<1>9. \A s \in State : done_symbol'[s] = 0 <=> OutOf(s)' = {}
  <2> TAKE s \in State
  <2> DEFINE A == {a \in Symbol : ~(Outgoing(s, a)' \subseteq {})}
  <2>1. done_symbol'[s] = Cardinality(A)
    BY <1>5, <1>8 DEF Counted
  <2>2. IsFiniteSet(A)
    <3>1. A \in SUBSET Symbol
      OBVIOUS
    <3> QED
      BY <3>1, SymbolAssumption, FS_Subset
  <2>3. Cardinality(A) = 0 <=> A = {}
    BY <2>2, FS_EmptySet
  <2>4. A = {} <=> OutOf(s)' = {}
    BY <1>6 DEF Outgoing, OutOf
  <2> QED
    BY <2>1, <2>3, <2>4
<1>10. \A s \in State : values'[s] = IF OutOf(s)' = {} THEN domain.min ELSE domain.max
  BY <1>5, <1>9
<1>11. /\ domain.min \in Int /\ domain.max \in Int /\ domain' = domain
       /\ \A e \in Considered' : W(e)' \in Int /\ domain.min <= W(e)' /\ W(e)' <= domain.max
  BY <1>3 DEF Ready, W, WeightOK
<1>12. SafetyType'
  <2>1. values' \in [State -> Int]
    BY <1>5, <1>11
  <2>2. value_symbol' \in [State -> [Symbol -> Int]]
    BY <1>5, <1>11
  <2>3. calls' \in Seq(SUBSET Considered')
    BY <1>5
  <2>4. done_edge' \subseteq Considered' /\ lists' \subseteq Considered'
    BY <1>5, <1>7
  <2> QED
    BY <2>1, <2>2, <2>3, <2>4 DEF SafetyType
<1>13. \A s : ~Decided(s)'
  BY <1>5 DEF Decided
<1>14. UpTo(domain.min, calls, lists, {})'
  <2>1. \A s \in State : ValueAt(domain.min, s)'
    BY <1>10, <1>11, <1>13 DEF ValueAt
  <2> QED
    BY <1>5, <1>7, <1>11, <1>13, <2>1 DEF UpTo
<1>15. Kept'
  <2> SUFFICES ASSUME NEW C \in SUBSET State, NEW x \in Int, Stays(C, x)'
               PROVE  /\ \A s \in C : x <= values'[s]
                      /\ \A e \in Considered' : ~(Outgoing(e.from, e.symbol)' \subseteq {})
    BY <1>5 DEF Kept
  <2>1. ASSUME NEW s \in C
        PROVE  x <= values'[s]
    <3>1. PICK e \in Considered' : e.from = s /\ e.to \in C /\ x <= W(e)'
      BY DEF Stays
    <3>2. OutOf(s)' # {}
      BY <3>1 DEF OutOf
    <3> QED
      BY <1>10, <1>11, <3>1, <3>2
  <2>2. \A e \in Considered' : e \in Outgoing(e.from, e.symbol)'
    BY DEF Outgoing
  <2> QED
    BY <2>1, <2>2
<1> QED
  BY <1>2, <1>8, <1>12, <1>14, <1>15 DEF SafetyInv

-----------------------------------------------------------------------------
(* An edge is given up *)

\* All edges of the symbol, or of the state, of e are given up once e is.
SymbolOver(e) == Outgoing(e.from, e.symbol) \ {e} \subseteq done_edge
StateOver(e) == OutOf(e.from) \ {e} \subseteq done_edge

\* One more element of S is in D.
LEMMA OneLess ==
  ASSUME NEW S, IsFiniteSet(S), NEW D, NEW x \in S, x \notin D
  PROVE  /\ Cardinality(S \ (D \cup {x})) = Cardinality(S \ D) - 1
         /\ Cardinality(S \ D) = 1 <=> S \ {x} \subseteq D
<1>1. IsFiniteSet(S \ D)
  <2>1. S \ D \in SUBSET S
    OBVIOUS
  <2> QED
    BY <2>1, FS_Subset
<1>2. x \in S \ D /\ S \ (D \cup {x}) = (S \ D) \ {x}
  OBVIOUS
<1>3. Cardinality((S \ D) \ {x}) = Cardinality(S \ D) - 1
  BY <1>1, <1>2, FS_RemoveElement
<1>4. Cardinality(S \ D) = 1 <=> \E y : S \ D = {y}
  BY <1>1, FS_Singleton
<1>5. (\E y : S \ D = {y}) <=> S \ {x} \subseteq D
  <2>1. ASSUME NEW y, S \ D = {y}
        PROVE  S \ {x} \subseteq D
    BY <1>2, <2>1
  <2>2. ASSUME S \ {x} \subseteq D
        PROVE  S \ D = {x}
    BY <2>2
  <2> QED
    BY <2>1, <2>2
<1> QED
  BY <1>2, <1>3, <1>4, <1>5

\* The counters count what is left when an edge is given up: a symbol and a
\* state are done when their last edge goes.
LEMMA GiveUpCounts ==
  ASSUME Ready, SafetyType, Counted, NEW e \in Considered, e \notin done_edge
  PROVE  /\ counters[e.from][e.symbol] = 1 <=> SymbolOver(e)
         /\ counters[e.from][e.symbol] = 1 /\ done_symbol[e.from] = 1 <=> StateOver(e)
<1> DEFINE s == e.from
           a == e.symbol
           A == {b \in Symbol : ~(Outgoing(s, b) \subseteq done_edge)}
<1>1. s \in State /\ a \in Symbol
  BY ConsideredFacts
<1>2. e \in Outgoing(s, a)
  BY DEF Outgoing
<1>3. IsFiniteSet(Outgoing(s, a))
  BY OutgoingFacts
<1>4. counters[s][a] = Cardinality(Outgoing(s, a) \ done_edge)
  BY <1>1 DEF Counted
<1>5. counters[s][a] = 1 <=> SymbolOver(e)
  <2> DEFINE O == Outgoing(s, a)
  <2> HIDE DEF O
  <2>1. Cardinality(O \ done_edge) = 1 <=> O \ {e} \subseteq done_edge
    BY <1>2, <1>3, OneLess DEF O
  <2> QED
    BY <1>4, <2>1 DEF O, SymbolOver
<1>6. done_symbol[s] = 1 <=> A \ {a} \subseteq {}
  <2>1. IsFiniteSet(A)
    <3>1. A \in SUBSET Symbol
      OBVIOUS
    <3> QED
      BY <3>1, SymbolAssumption, FS_Subset
  <2>2. a \in A
    BY <1>1, <1>2
  <2>3. done_symbol[s] = Cardinality(A)
    BY <1>1 DEF Counted
  <2> HIDE DEF A
  <2> DEFINE D == {}
  <2>6. a \notin D
    OBVIOUS
  <2> HIDE DEF D
  <2>7. Cardinality(A \ D) = 1 <=> A \ {a} \subseteq D
    BY <2>1, <2>2, <2>6, OneLess
  <2>4. Cardinality(A \ {}) = 1 <=> A \ {a} \subseteq {}
    BY <2>7 DEF D
  <2>5. A \ {} = A
    OBVIOUS
  <2> QED
    BY <2>3, <2>4, <2>5
<1>7. (SymbolOver(e) /\ A \ {a} \subseteq {}) <=> StateOver(e)
  <2>1. \A d \in OutOf(s) : d.symbol \in Symbol /\ d \in Outgoing(s, d.symbol)
    BY OutOfSymbols
  <2>2. \A b : Outgoing(s, b) \subseteq OutOf(s)
    BY OutgoingFacts
  <2>3. ASSUME SymbolOver(e), A \ {a} \subseteq {}
        PROVE  StateOver(e)
    <3> SUFFICES ASSUME NEW d \in OutOf(s) \ {e}
                 PROVE  d \in done_edge
      BY DEF StateOver
    <3> QED
      BY <2>1, <2>3 DEF SymbolOver
  <2>4. ASSUME StateOver(e)
        PROVE  SymbolOver(e) /\ A \ {a} \subseteq {}
    <3>1. \A b \in Symbol \ {a} : e \notin Outgoing(s, b)
      BY DEF Outgoing
    <3>2. \A b : Outgoing(s, b) \ {e} \subseteq done_edge
      BY <2>2, <2>4 DEF StateOver
    <3> QED
      BY <3>1, <3>2 DEF SymbolOver
  <2> QED
    BY <2>3, <2>4
<1> QED
  BY <1>5, <1>6, <1>7

\* What giving up an edge does.
LEMMA GiveUpEffect ==
  ASSUME Ready, SafetyType, Counted, NEW e \in Considered, e \notin done_edge,
         NEW rest, GiveUp(e, rest)
  PROVE  /\ done_edge' = done_edge \cup {e}
         /\ value_symbol' = IF SymbolOver(e)
                            THEN [value_symbol EXCEPT ![e.from][e.symbol] = SymbolValue(e.from, e.symbol)]
                            ELSE value_symbol
         /\ values' = IF StateOver(e)
                      THEN [values EXCEPT ![e.from] = StateValue(e.from, e.symbol)]
                      ELSE values
         /\ calls' = IF StateOver(e) THEN Append(rest, Incoming(e.from)) ELSE rest
BY GiveUpCounts DEF GiveUp, Done

\* The counters still count afterwards.
LEMMA CountedKept ==
  ASSUME Ready, SafetyType, Counted, NEW e \in Considered, e \notin done_edge,
         NEW rest, GiveUp(e, rest), UNCHANGED graphVars
  PROVE  Counted'
<1>1. Considered' = Considered
  BY DEF Considered, SameTag, succ, graphVars
<1>2. \A s, a : Outgoing(s, a)' = Outgoing(s, a)
  BY <1>1 DEF Outgoing
<1> DEFINE s == e.from
           a == e.symbol
<1>3. s \in State /\ a \in Symbol
  BY ConsideredFacts
<1>4. done_edge' = done_edge \cup {e}
  BY GiveUpEffect
<1>5. counters' = [counters EXCEPT ![s][a] = @ - 1]
  BY DEF GiveUp, Done
<1>6. done_symbol' = IF SymbolOver(e) THEN [done_symbol EXCEPT ![s] = @ - 1] ELSE done_symbol
  BY GiveUpCounts DEF GiveUp, Done
<1>7. e \in Outgoing(s, a) /\ IsFiniteSet(Outgoing(s, a))
  <2>1. e \in Outgoing(s, a)
    BY DEF Outgoing
  <2> QED
    BY <2>1, OutgoingFacts
<1>8. \A t, b : t # s \/ b # a => e \notin Outgoing(t, b)
  BY DEF Outgoing
<1>9. counters' = [t \in State |-> [b \in Symbol |-> Cardinality(Outgoing(t, b) \ done_edge')]]
  <2>1. Cardinality(Outgoing(s, a) \ done_edge') = Cardinality(Outgoing(s, a) \ done_edge) - 1
    <3> DEFINE O == Outgoing(s, a)
    <3> HIDE DEF O
    <3> QED
      BY <1>4, <1>7, OneLess DEF O
  <2>2. \A t, b : t # s \/ b # a => Outgoing(t, b) \ done_edge' = Outgoing(t, b) \ done_edge
    BY <1>4, <1>8
  <2>3. counters = [t \in State |-> [b \in Symbol |-> Cardinality(Outgoing(t, b) \ done_edge)]]
    BY DEF Counted
  <2> HIDE DEF s, a
  <2> QED
    BY <1>3, <1>5, <2>1, <2>2, <2>3
<1> DEFINE A(t, D) == {b \in Symbol : ~(Outgoing(t, b) \subseteq D)}
<1>10. done_symbol' = [t \in State |-> Cardinality(A(t, done_edge'))]
  <2>1. done_symbol = [t \in State |-> Cardinality(A(t, done_edge))]
    BY DEF Counted
  <2>2. \A t \in State \ {s} : A(t, done_edge') = A(t, done_edge)
    BY <1>4, <1>8
  <2>3. CASE ~SymbolOver(e)
    <3>1. A(s, done_edge') = A(s, done_edge)
      BY <1>4, <1>7, <1>8, <2>3 DEF SymbolOver
    <3> HIDE DEF A, s
    <3> QED
      BY <1>6, <2>1, <2>2, <2>3, <3>1
  <2>4. CASE SymbolOver(e)
    <3>1. A(s, done_edge') = A(s, done_edge) \ {a}
      BY <1>4, <1>7, <1>8, <2>4 DEF SymbolOver
    <3>2. a \in A(s, done_edge)
      BY <1>3, <1>7
    <3>3. IsFiniteSet(A(s, done_edge))
      <4>1. A(s, done_edge) \in SUBSET Symbol
        OBVIOUS
      <4> QED
        BY <4>1, SymbolAssumption, FS_Subset
    <3> HIDE DEF A, s, a
    <3>4. Cardinality(A(s, done_edge')) = Cardinality(A(s, done_edge)) - 1
      BY <3>1, <3>2, <3>3, FS_RemoveElement
    <3> QED
      BY <1>3, <1>6, <2>1, <2>2, <2>4, <3>4
  <2> QED
    BY <2>3, <2>4
<1> QED
  BY <1>2, <1>9, <1>10 DEF Counted

\* An edge is worth the smaller of its weight and the value of its target.
LEMMA WorthIs ==
  ASSUME Ready, SafetyType, NEW e \in Considered
  PROVE  Worth(e) = IF W(e) <= values[e.to] THEN W(e) ELSE values[e.to]
<1>1. W(e) \in Int /\ values[e.to] \in Int
  BY ConsideredFacts DEF SafetyType
<1> QED
  BY <1>1, MinOfTwo DEF Worth, W

\* The value of a symbol is attained by an edge, unless it is the old one.
LEMMA SymbolValueIs ==
  ASSUME Ready, SafetyType, NEW s \in State, NEW a \in Symbol
  PROVE  /\ SymbolValue(s, a) \in Int
         /\ value_symbol[s][a] <= SymbolValue(s, a)
         /\ \A d \in Outgoing(s, a) : Worth(d) <= SymbolValue(s, a)
         /\ \/ SymbolValue(s, a) = value_symbol[s][a]
            \/ \E d \in Outgoing(s, a) : SymbolValue(s, a) = Worth(d)
<1> DEFINE w == [d \in Outgoing(s, a) |-> Worth(d)]
           V == {w[d] : d \in Outgoing(s, a)}
           S == {value_symbol[s][a]} \cup V
<1>1. V = {Worth(d) : d \in Outgoing(s, a)}
  OBVIOUS
<1>2. S \subseteq Int
  <2>1. value_symbol[s][a] \in Int
    BY DEF SafetyType
  <2>2. \A d \in Outgoing(s, a) : W(d) \in Int /\ values[d.to] \in Int /\ d \in Considered
    BY ConsideredFacts DEF Outgoing, SafetyType
  <2>3. \A d \in Outgoing(s, a) : Worth(d) \in Int
    BY <2>2, WorthIs
  <2> QED
    BY <1>1, <2>1, <2>3
<1>3. IsFiniteSet(S)
  <2>1. IsFiniteSet(V)
    BY OutgoingFacts, FiniteImage
  <2>2. IsFiniteSet({value_symbol[s][a]})
    BY FS_Singleton
  <2> HIDE DEF V
  <2> QED
    BY <2>1, <2>2, FS_Union
<1>4. Max(S) \in S /\ \A y \in S : y <= Max(S)
  <2> HIDE DEF V
  <2>1. S # {}
    OBVIOUS
  <2> HIDE DEF S
  <2> QED
    BY <1>2, <1>3, <2>1, MaxExists
<1>5. SymbolValue(s, a) = Max(S)
  BY <1>1 DEF SymbolValue
<1> HIDE DEF V
<1> QED
  BY <1>1, <1>2, <1>4, <1>5

\* So is the value of a state, over all its symbols.
LEMMA StateValueIs ==
  ASSUME Ready, SafetyType, NEW s \in State, NEW a \in Symbol
  PROVE  /\ StateValue(s, a) \in Int
         /\ SymbolValue(s, a) <= StateValue(s, a)
         /\ \A b \in Symbol \ {a} : value_symbol[s][b] <= StateValue(s, a)
         /\ \/ StateValue(s, a) = SymbolValue(s, a)
            \/ \E b \in Symbol \ {a} : StateValue(s, a) = value_symbol[s][b]
<1> DEFINE V == {value_symbol[s][b] : b \in Symbol \ {a}}
           S == {SymbolValue(s, a)} \cup V
<1>1. S \subseteq Int
  BY SymbolValueIs DEF SafetyType
<1>2. IsFiniteSet(S)
  <2>1. IsFiniteSet(Symbol \ {a})
    BY SymbolAssumption, FS_RemoveElement
  <2> DEFINE g == [b \in Symbol \ {a} |-> value_symbol[s][b]]
  <2>2. IsFiniteSet({g[b] : b \in Symbol \ {a}})
    BY <2>1, FiniteImage
  <2>4. V = {g[b] : b \in Symbol \ {a}}
    OBVIOUS
  <2>3. IsFiniteSet({SymbolValue(s, a)})
    BY FS_Singleton
  <2> HIDE DEF V
  <2> QED
    BY <2>2, <2>3, <2>4, FS_Union
<1>3. Max(S) \in S /\ \A y \in S : y <= Max(S)
  <2> HIDE DEF V
  <2>1. S # {}
    OBVIOUS
  <2> HIDE DEF S
  <2> QED
    BY <1>1, <1>2, <2>1, MaxExists
<1>4. StateValue(s, a) = Max(S)
  BY DEF StateValue
<1> QED
  BY <1>1, <1>3, <1>4

\* What is made of the graph alone stays when the graph does.
LEMMA SafetyGraphKept ==
  ASSUME UNCHANGED graphVars
  PROVE  /\ Considered' = Considered /\ Ready' = Ready /\ Ascending' = Ascending
         /\ \A e : W(e)' = W(e)
         /\ \A s : OutOf(s)' = OutOf(s)
         /\ \A s, a : Outgoing(s, a)' = Outgoing(s, a)
         /\ \A C, x : Stays(C, x)' = Stays(C, x)
<1>1. Considered' = Considered
  BY DEF Considered, SameTag, succ, graphVars
<1>2. \A e : W(e)' = W(e)
  BY DEF W, graphVars
<1>3. Ready' = Ready /\ Ascending' = Ascending
  BY <1>2 DEF Ready, Ascending, WeightOK, graphVars
<1>4. \A s : OutOf(s)' = OutOf(s)
  BY <1>1 DEF OutOf
<1>5. \A s, a : Outgoing(s, a)' = Outgoing(s, a)
  BY <1>1 DEF Outgoing
<1>6. \A C, x : Stays(C, x)' = Stays(C, x)
  BY <1>1, <1>2 DEF Stays
<1> QED
  BY <1>1, <1>2, <1>3, <1>4, <1>5, <1>6

\* Giving up an edge decides its state when it is the last one, and no other.
LEMMA DecidedAfter ==
  ASSUME Ready, NEW e \in Considered, e \notin done_edge,
         done_edge' = done_edge \cup {e}, UNCHANGED graphVars
  PROVE  /\ ~Decided(e.from)
         /\ OutOf(e.from) # {}
         /\ Decided(e.from)' <=> StateOver(e)
         /\ \A t : t # e.from => Decided(t)' = Decided(t)
<1>1. \A s : OutOf(s)' = OutOf(s)
  BY SafetyGraphKept
<1>2. e \in OutOf(e.from) /\ \A t : t # e.from => e \notin OutOf(t)
  BY DEF OutOf
<1> QED
  BY <1>1, <1>2 DEF Decided, StateOver

\* The values after an edge is given up, one by one.
LEMMA ValuesAfter ==
  ASSUME Ready, SafetyType, Counted, NEW e \in Considered, e \notin done_edge,
         NEW rest, GiveUp(e, rest)
  PROVE  /\ values' \in [State -> Int]
         /\ value_symbol' \in [State -> [Symbol -> Int]]
         /\ \A t \in State :
              values'[t] = IF t = e.from /\ StateOver(e) THEN StateValue(e.from, e.symbol) ELSE values[t]
         /\ \A t \in State, b \in Symbol :
              value_symbol'[t][b] = IF t = e.from /\ b = e.symbol /\ SymbolOver(e)
                                    THEN SymbolValue(e.from, e.symbol) ELSE value_symbol[t][b]
<1> DEFINE s == e.from
           a == e.symbol
           v == StateValue(s, a)
           w == SymbolValue(s, a)
<1>1. s \in State /\ a \in Symbol
  BY ConsideredFacts
<1>2. v \in Int /\ w \in Int
  BY <1>1, StateValueIs, SymbolValueIs
<1>3. /\ values' = IF StateOver(e) THEN [values EXCEPT ![s] = v] ELSE values
      /\ value_symbol' = IF SymbolOver(e) THEN [value_symbol EXCEPT ![s][a] = w] ELSE value_symbol
  BY GiveUpEffect
<1>4. values \in [State -> Int] /\ value_symbol \in [State -> [Symbol -> Int]]
  BY DEF SafetyType
<1> HIDE DEF s, a, v, w
<1>5. /\ values' \in [State -> Int]
      /\ value_symbol' \in [State -> [Symbol -> Int]]
  BY <1>1, <1>2, <1>3, <1>4
<1>6. \A t \in State : values'[t] = IF t = s /\ StateOver(e) THEN v ELSE values[t]
  BY <1>1, <1>3, <1>4
<1>7. \A t \in State, b \in Symbol :
        value_symbol'[t][b] = IF t = s /\ b = a /\ SymbolOver(e) THEN w ELSE value_symbol[t][b]
  BY <1>1, <1>3, <1>4
<1> QED
  BY <1>5, <1>6, <1>7 DEF s, a, v, w

\* The types after an edge is given up.
LEMMA GiveUpType ==
  ASSUME Ready, SafetyType, Counted, NEW e \in Considered, e \notin done_edge,
         NEW rest \in Seq(SUBSET Considered), GiveUp(e, rest),
         UNCHANGED graphVars, lists' \subseteq lists
  PROVE  SafetyType'
<1>1. Considered' = Considered
  BY SafetyGraphKept
<1>2. calls' = IF StateOver(e) THEN Append(rest, Incoming(e.from)) ELSE rest
  BY GiveUpEffect
<1>3. values' \in [State -> Int]
  BY ValuesAfter
<1>4. value_symbol' \in [State -> [Symbol -> Int]]
  BY ValuesAfter
<1>5. done_edge' \subseteq Considered
  BY GiveUpEffect DEF SafetyType
<1>6. Incoming(e.from) \in SUBSET Considered
  BY DEF Incoming
<1>7. calls' \in Seq(SUBSET Considered)
  <2> DEFINE K == SUBSET Considered
  <2> HIDE DEF K
  <2>1. rest \in Seq(K) /\ Incoming(e.from) \in K
    BY <1>6 DEF K
  <2>2. calls' \in Seq(K)
    BY <1>2, <2>1
  <2> QED
    BY <2>2 DEF K
<1> QED
  BY <1>1, <1>3, <1>4, <1>5, <1>7 DEF SafetyType

\* The value of a state whose last edge is given up is the threshold.
LEMMA ThresholdValue ==
  ASSUME Ready, SafetyType, Counted, NEW e \in Considered,
         NEW rest, NEW ls, NEW m, UpTo(m, rest, ls, {e}),
         m <= W(e), m <= values[e.to], W(e) <= m \/ values[e.to] <= m
  PROVE  /\ SymbolOver(e) => SymbolValue(e.from, e.symbol) = m
         /\ StateOver(e) => StateValue(e.from, e.symbol) = m
<1>1. m \in Int /\ W(e) \in Int /\ values[e.to] \in Int /\ e.from \in State /\ e.symbol \in Symbol
  BY ConsideredFacts DEF UpTo, SafetyType
<1>2. Worth(e) = m
  BY <1>1, WorthIs
<1>3. \A d \in done_edge : Worth(d) <= m
  <2> SUFFICES ASSUME NEW d \in done_edge
               PROVE  Worth(d) <= m
    OBVIOUS
  <2>1. W(d) \in Int /\ values[d.to] \in Int /\ d \in Considered
    BY ConsideredFacts DEF SafetyType
  <2>2. W(d) <= m \/ values[d.to] <= m
    BY DEF UpTo
  <2> QED
    BY <1>1, <2>1, <2>2, WorthIs
<1>4. e \in Outgoing(e.from, e.symbol)
  BY DEF Outgoing
<1>5. \A b \in Symbol : value_symbol[e.from][b] <= m /\ value_symbol[e.from][b] \in Int
  BY <1>1 DEF UpTo, SafetyType
<1>6. ASSUME SymbolOver(e)
      PROVE  SymbolValue(e.from, e.symbol) = m
  <2> DEFINE v == SymbolValue(e.from, e.symbol)
  <2>1. v \in Int /\ m <= v
    BY <1>1, <1>2, <1>4, SymbolValueIs
  <2>2. v <= m
    <3>1. \A d \in Outgoing(e.from, e.symbol) : Worth(d) <= m
      BY <1>1, <1>2, <1>3, <1>6 DEF SymbolOver
    <3> QED
      BY <1>1, <1>5, <3>1, SymbolValueIs
  <2> QED
    BY <1>1, <2>1, <2>2
<1>7. ASSUME StateOver(e)
      PROVE  StateValue(e.from, e.symbol) = m
  <2>1. SymbolOver(e)
    BY <1>7, OutgoingFacts DEF StateOver, SymbolOver
  <2>2. SymbolValue(e.from, e.symbol) = m
    BY <1>6, <2>1
  <2> DEFINE v == StateValue(e.from, e.symbol)
  <2>3. v \in Int /\ m <= v /\ v <= m
    BY <1>1, <1>5, <2>2, StateValueIs
  <2> QED
    BY <1>1, <2>3
<1> QED
  BY <1>6, <1>7

\* What holds up to the threshold holds after an edge is given up.
LEMMA GiveUpUpTo ==
  ASSUME Ready, SafetyType, Counted, NEW e \in Considered, e \notin done_edge,
         NEW rest \in Seq(SUBSET Considered), GiveUp(e, rest), UNCHANGED graphVars,
         NEW ls, lists' = ls, NEW m, UpTo(m, rest, ls, {e}),
         m <= W(e), m <= values[e.to], W(e) <= m \/ values[e.to] <= m,
         \E d \in Considered : m = W(d)
  PROVE  UpTo(m, calls, lists, {})'
<1> DEFINE s == e.from
<1>1. s \in State /\ e.symbol \in Symbol /\ e.to \in State /\ m \in Int /\ W(e) \in Int
  BY ConsideredFacts DEF UpTo
<1>2. /\ Considered' = Considered /\ \A d : W(d)' = W(d)
      /\ \A t : OutOf(t)' = OutOf(t)
      /\ domain' = domain
  BY SafetyGraphKept DEF graphVars
<1>3. done_edge' = done_edge \cup {e}
  BY GiveUpEffect
<1>4. /\ ~Decided(s) /\ OutOf(s) # {}
      /\ Decided(s)' <=> StateOver(e)
      /\ \A t : t # s => Decided(t)' = Decided(t)
  BY <1>3, DecidedAfter
<1>5. \A t \in State : t # s \/ ~StateOver(e) => values'[t] = values[t]
  BY ValuesAfter
<1>6. StateOver(e) => values'[s] = m
  <2>1. StateOver(e) => StateValue(s, e.symbol) = m
    BY ThresholdValue
  <2> QED
    BY <1>1, <2>1, ValuesAfter
<1>7. \A t \in State : values[t] \in Int
  BY DEF SafetyType
<1>8. \A t \in State : m <= values[t] => m <= values'[t]
  BY <1>1, <1>5, <1>6
<1>9. \A t \in State : values[t] <= m => values'[t] <= m
  BY <1>1, <1>5, <1>6
<1>10. ASSUME NEW t \in State
       PROVE  ValueAt(m, t)'
  <2>1. ValueAt(m, t)
    BY DEF UpTo
  <2>2. CASE t = s /\ StateOver(e)
    <3>1. e \in OutOf(s) /\ m <= W(e) /\ m <= values'[e.to]
      BY <1>1, <1>8 DEF OutOf
    <3>2. OutOf(t)' # {} /\ Decided(t)' /\ values'[t] = m
      BY <1>2, <1>4, <1>6, <2>2
    <3>3. \E d \in Considered : values'[t] = W(d)
      BY <3>2
    <3>4. \E d \in OutOf(t) : values'[t] <= W(d) /\ values'[t] <= values'[d.to]
      BY <2>2, <3>1, <3>2
    <3> QED
      BY <1>1, <1>2, <3>2, <3>3, <3>4 DEF ValueAt
  <2>3. CASE t = s /\ ~StateOver(e)
    <3>1. ~Decided(t)' /\ ~Decided(t) /\ OutOf(t) # {} /\ values'[t] = values[t]
      BY <1>1, <1>4, <1>5, <2>3
    <3> QED
      BY <1>2, <2>1, <3>1 DEF ValueAt
  <2>4. CASE t # s
    <3>1. Decided(t)' = Decided(t) /\ values'[t] = values[t]
      BY <1>4, <1>5, <2>4
    <3>2. ASSUME Decided(t)
          PROVE  \E d \in OutOf(t) : values[t] <= W(d) /\ values[t] <= values'[d.to]
      <4>1. PICK d \in OutOf(t) : values[t] <= W(d) /\ values[t] <= values[d.to]
        BY <2>1, <3>2 DEF ValueAt
      <4>2. d.to \in State
        BY ConsideredFacts DEF OutOf
      <4>3. values[t] <= m
        BY <2>1, <3>2 DEF ValueAt
      <4>4. values[t] <= values'[d.to]
        BY <1>1, <1>5, <1>6, <1>7, <4>1, <4>2, <4>3
      <4> QED
        BY <4>1, <4>4
    <3> QED
      BY <1>2, <2>1, <3>1, <3>2 DEF ValueAt
  <2> QED
    BY <2>2, <2>3, <2>4
<1>11. \A i \in 1 .. Len(rest) : rest[i] \subseteq Considered
  OBVIOUS
<1>12. /\ \A i \in 1 .. Len(rest) : i \in 1 .. Len(calls') /\ calls'[i] = rest[i]
       /\ \A i \in 1 .. Len(calls') : i \in 1 .. Len(rest) \/ (StateOver(e) /\ calls'[i] = Incoming(s))
       /\ StateOver(e) => \E i \in 1 .. Len(calls') : calls'[i] = Incoming(s)
  <2>0. calls' = IF StateOver(e) THEN Append(rest, Incoming(s)) ELSE rest
    BY GiveUpEffect
  <2>1. CASE ~StateOver(e)
    BY <2>0, <2>1
  <2>2. CASE StateOver(e)
    <3>1. calls' = Append(rest, Incoming(s)) /\ Len(rest) \in Nat
      BY <2>0, <2>2
    <3>2. Len(calls') = Len(rest) + 1 /\ calls'[Len(rest) + 1] = Incoming(s)
      BY <3>1
    <3>3. \A i \in 1 .. Len(rest) : calls'[i] = rest[i]
      BY <3>1
    <3> QED
      BY <2>2, <3>1, <3>2, <3>3
  <2> QED
    BY <2>1, <2>2
<1>13. ASSUME NEW i \in 1 .. Len(calls'), NEW d \in calls'[i]
       PROVE  Decided(d.to)' /\ values'[d.to] = m
  <2>1. CASE i \in 1 .. Len(rest)
    <3>1. Decided(d.to) /\ values[d.to] = m /\ d.to \in State
      BY <1>11, <1>12, <2>1, ConsideredFacts DEF UpTo
    <3> QED
      BY <1>4, <1>5, <3>1
  <2>2. CASE StateOver(e) /\ calls'[i] = Incoming(s)
    <3>1. d.to = s
      BY <2>2 DEF Incoming
    <3> QED
      BY <1>4, <1>6, <2>2, <3>1
  <2> QED
    BY <1>12, <2>1, <2>2
<1>14. ASSUME NEW d \in Considered, Decided(d.to)'
       PROVE  d \in done_edge' \/ \E i \in 1 .. Len(calls') : d \in calls'[i]
  <2>1. CASE d = e
    BY <1>3, <2>1
  <2>2. CASE d # e /\ Decided(d.to)
    BY <1>3, <1>12, <2>2 DEF UpTo
  <2>3. CASE ~Decided(d.to)
    <3>1. d.to = s /\ StateOver(e)
      BY <1>4, <1>14, <2>3
    <3>2. d \in Incoming(s)
      BY <3>1 DEF Incoming
    <3> QED
      BY <1>12, <3>1, <3>2
  <2> QED
    BY <2>1, <2>2, <2>3
<1>15. ASSUME NEW d \in done_edge'
       PROVE  W(d) <= m \/ values'[d.to] <= m
  <2>1. d \in Considered /\ d.to \in State
    BY <1>3, ConsideredFacts DEF SafetyType
  <2>2. W(d) <= m \/ values[d.to] <= m
    BY <1>3 DEF UpTo
  <2> QED
    BY <1>9, <2>1, <2>2
<1>16. ASSUME NEW t \in State, NEW b \in Symbol
       PROVE  value_symbol'[t][b] <= m
  <2>1. value_symbol[t][b] <= m
    BY DEF UpTo
  <2>2. SymbolOver(e) => SymbolValue(s, e.symbol) = m
    BY ThresholdValue
  <2>3. value_symbol'[t][b] = IF t = s /\ b = e.symbol /\ SymbolOver(e)
                              THEN SymbolValue(s, e.symbol) ELSE value_symbol[t][b]
    BY ValuesAfter
  <2> QED
    BY <1>1, <2>1, <2>2, <2>3
<1>17. Considered \ (done_edge' \cup {}) \subseteq ls /\ \A d \in ls : m <= W(d)
  BY <1>3 DEF UpTo
<1> QED
  BY <1>1, <1>2, <1>10, <1>13, <1>14, <1>15, <1>16, <1>17 DEF UpTo

\* No state gets too small a value when an edge is given up.
LEMMA GiveUpKept ==
  ASSUME Ready, SafetyType, Counted, Kept, NEW e \in Considered, e \notin done_edge,
         NEW rest, GiveUp(e, rest), UNCHANGED graphVars
  PROVE  Kept'
<1> DEFINE s == e.from
           a == e.symbol
<1>1. s \in State /\ a \in Symbol
  BY ConsideredFacts
<1>2. /\ Considered' = Considered /\ \A d : W(d)' = W(d)
      /\ \A t, b : Outgoing(t, b)' = Outgoing(t, b)
      /\ \A C, x : Stays(C, x)' = Stays(C, x)
  BY SafetyGraphKept
<1>3. done_edge' = done_edge \cup {e}
  BY GiveUpEffect
<1> SUFFICES ASSUME NEW C \in SUBSET State, NEW x \in Int, Stays(C, x)
             PROVE  /\ \A t \in C : x <= values'[t]
                    /\ \A d \in Considered :
                         d.to \in C /\ x <= W(d) /\ Outgoing(d.from, d.symbol) \subseteq done_edge'
                           => x <= value_symbol'[d.from][d.symbol]
  BY <1>2 DEF Kept
<1>4. \A t \in C : x <= values[t]
  BY DEF Kept
<1>5. \A d \in Considered : d.to \in C /\ x <= W(d) => x <= Worth(d)
  <2> SUFFICES ASSUME NEW d \in Considered, d.to \in C, x <= W(d)
               PROVE  x <= Worth(d)
    OBVIOUS
  <2>1. x <= values[d.to]
    BY <1>4
  <2> QED
    BY <2>1, WorthIs
<1>6. \A d \in Considered : d.from = s /\ d.symbol = a /\ d.to \in C /\ x <= W(d) => x <= SymbolValue(s, a)
  <2> SUFFICES ASSUME NEW d \in Considered, d.from = s, d.symbol = a, d.to \in C, x <= W(d)
               PROVE  x <= SymbolValue(s, a)
    OBVIOUS
  <2>1. d \in Outgoing(s, a) /\ W(d) \in Int /\ values[d.to] \in Int
    BY ConsideredFacts DEF Outgoing, SafetyType
  <2>2. Worth(d) \in Int /\ x <= Worth(d)
    BY <1>5, <2>1, WorthIs
  <2> QED
    BY <1>1, <2>1, <2>2, SymbolValueIs
<1>7. \A d \in Considered : /\ d.from # s \/ d.symbol # a
                            /\ d.to \in C /\ x <= W(d)
                            /\ Outgoing(d.from, d.symbol) \subseteq done_edge'
                            => x <= value_symbol[d.from][d.symbol]
  <2>1. \A t, b : t # s \/ b # a => e \notin Outgoing(t, b)
    BY DEF Outgoing
  <2> QED
    BY <1>3, <2>1 DEF Kept
<1>8. ASSUME NEW t \in C
      PROVE  x <= values'[t]
  <2>1. CASE t = s /\ StateOver(e)
    <3>1. values'[t] = StateValue(s, a)
      BY <1>1, <2>1, ValuesAfter
    <3>2. PICK d \in Considered : d.from = s /\ d.to \in C /\ x <= W(d)
      BY <2>1 DEF Stays
    <3>3. StateValue(s, a) \in Int /\ SymbolValue(s, a) \in Int
      BY <1>1, StateValueIs, SymbolValueIs
    <3>4. CASE d.symbol = a
      BY <1>1, <1>6, <3>1, <3>2, <3>3, <3>4, StateValueIs
    <3>5. CASE d.symbol # a
      <4>1. d.symbol \in Symbol /\ Outgoing(s, d.symbol) \subseteq done_edge'
        BY <1>3, <2>1, ConsideredFacts, OutgoingFacts DEF StateOver
      <4>2. x <= value_symbol[s][d.symbol] /\ value_symbol[s][d.symbol] \in Int
        BY <1>1, <1>7, <3>2, <3>5, <4>1 DEF SafetyType
      <4>3. value_symbol[s][d.symbol] <= StateValue(s, a)
        BY <1>1, <3>5, <4>1, StateValueIs
      <4> QED
        BY <3>1, <3>3, <4>2, <4>3
    <3> QED
      BY <3>4, <3>5
  <2>2. CASE ~(t = s /\ StateOver(e))
    <3>1. values'[t] = values[t]
      BY <2>2, ValuesAfter
    <3> QED
      BY <1>4, <3>1
  <2> QED
    BY <2>1, <2>2
<1>9. ASSUME NEW d \in Considered, d.to \in C, x <= W(d), Outgoing(d.from, d.symbol) \subseteq done_edge'
      PROVE  x <= value_symbol'[d.from][d.symbol]
  <2>1. d.from \in State /\ d.symbol \in Symbol
    BY ConsideredFacts
  <2>2. CASE d.from = s /\ d.symbol = a
    <3>1. SymbolOver(e)
      BY <1>3, <1>9, <2>2 DEF SymbolOver
    <3>2. value_symbol'[s][a] = SymbolValue(s, a)
      BY <1>1, <3>1, ValuesAfter
    <3> QED
      BY <1>6, <1>9, <2>2, <3>2
  <2>3. CASE d.from # s \/ d.symbol # a
    <3>1. value_symbol'[d.from][d.symbol] = value_symbol[d.from][d.symbol]
      BY <2>1, <2>3, ValuesAfter
    <3> QED
      BY <1>7, <1>9, <2>3, <3>1
  <2> QED
    BY <2>2, <2>3
<1> QED
  BY <1>8, <1>9

\* The steps that give up no edge.
LEMMA SafetyStays ==
  ASSUME Ready, SafetyType, Counted, Kept, NEW m, UpTo(m, calls', lists', {}),
         calls' \in Seq(SUBSET Considered), lists' \subseteq lists,
         UNCHANGED <<graphVars, values, done_edge, counters, done_symbol, value_symbol>>
  PROVE  SafetyInv'
<1>1. /\ Considered' = Considered /\ \A d : W(d)' = W(d)
      /\ \A t : OutOf(t)' = OutOf(t)
      /\ \A t, b : Outgoing(t, b)' = Outgoing(t, b)
      /\ \A C, x : Stays(C, x)' = Stays(C, x)
      /\ domain' = domain
  BY SafetyGraphKept DEF graphVars
<1>2. SafetyType' /\ Counted' /\ Kept'
  BY <1>1 DEF SafetyType, Counted, Kept
<1>3. \A t : Decided(t)' = Decided(t) /\ ValueAt(m, t)' = ValueAt(m, t)
  BY <1>1 DEF Decided, ValueAt
<1>4. UpTo(m, calls, lists, {})'
  BY <1>1, <1>3 DEF UpTo
<1> QED
  BY <1>2, <1>4 DEF SafetyInv

\* The main loop takes an edge off the next list: the threshold rises to its weight.
LEMMA TakeKeeps ==
  ASSUME Ready, Ascending, SafetyInv, NEW e \in edges, SafetyTake(e)
  PROVE  SafetyInv'
<1>1. /\ calls = <<>> /\ e \in NextList /\ lists' = lists \ {e}
      /\ GiveUp(e, <<>>) /\ UNCHANGED graphVars
  BY DEF SafetyTake
<1>2. SafetyType /\ Counted /\ Kept
  BY DEF SafetyInv
<1>3. PICK n : UpTo(n, calls, lists, {})
  BY DEF SafetyInv
<1>4. e \in lists /\ e \in Considered /\ \A d \in lists : d \in Considered /\ W(e) <= W(d)
  <2>1. e \in lists /\ lists \subseteq Considered /\ \A d \in lists : e.id <= d.id
    BY <1>1, <1>2 DEF NextList, SafetyType
  <2>2. \A d \in lists : d \in edges
    BY <2>1, ConsideredFacts
  <2> QED
    BY <2>1, <2>2 DEF Ascending
<1>5. W(e) \in Int /\ n \in Int /\ n <= W(e) /\ W(e) <= domain.max /\ domain.max \in Int
  BY <1>3, <1>4, ConsideredFacts DEF UpTo, Ready
<1>6. Len(calls) = 0
  BY <1>1
<1>7. CASE e \in done_edge
  <2>1. /\ calls' = <<>>
        /\ UNCHANGED <<values, done_edge, counters, done_symbol, value_symbol>>
    BY <1>1, <1>7 DEF GiveUp, Done
  <2>2. UpTo(n, calls', lists', {})
    BY <1>1, <1>3, <1>7, <2>1 DEF UpTo
  <2>3. calls' \in Seq(SUBSET Considered) /\ lists' \subseteq lists
    BY <1>1, <2>1
  <2> QED
    BY <1>1, <1>2, <2>1, <2>2, <2>3, SafetyStays
<1>8. CASE e \notin done_edge
  <2> DEFINE ls == lists \ {e}
             rest == <<>>
  <2>0. PICK m : m = W(e)
    OBVIOUS
  <2>1. rest \in Seq(SUBSET Considered) /\ GiveUp(e, rest) /\ lists' = ls /\ Len(rest) = 0
    BY <1>1
  <2>2. ~Decided(e.to) /\ values[e.to] = domain.max
    <3>1. ~Decided(e.to)
      BY <1>3, <1>4, <1>6, <1>8 DEF UpTo
    <3>2. OutOf(e.to) # {} /\ e.to \in State
      BY <1>4, ConsideredGoOn, ConsideredFacts
    <3>3. ValueAt(n, e.to)
      BY <1>3, <3>2 DEF UpTo
    <3> QED
      BY <3>1, <3>2, <3>3 DEF ValueAt
  <2>3. UpTo(m, rest, ls, {e})
    <3>1. \A d \in ls : m <= W(d)
      BY <1>4, <2>0
    <3>2. Considered \ (done_edge \cup {e}) \subseteq ls
      BY <1>3 DEF UpTo
    <3>3. ASSUME NEW t \in State
          PROVE  ValueAt(m, t)
      <4>1. ValueAt(n, t) /\ values[t] \in Int
        BY <1>2, <1>3 DEF UpTo, SafetyType
      <4> QED
        BY <1>5, <2>0, <4>1 DEF ValueAt
    <3>4. ASSUME NEW d \in done_edge
          PROVE  W(d) <= m \/ values[d.to] <= m
      <4>1. W(d) <= n \/ values[d.to] <= n
        BY <1>3 DEF UpTo
      <4>2. W(d) \in Int /\ values[d.to] \in Int
        BY <1>2, ConsideredFacts DEF SafetyType
      <4> QED
        BY <1>5, <2>0, <4>1, <4>2
    <3>5. ASSUME NEW t \in State, NEW b \in Symbol
          PROVE  value_symbol[t][b] <= m
      <4>1. value_symbol[t][b] <= n /\ value_symbol[t][b] \in Int
        BY <1>2, <1>3 DEF UpTo, SafetyType
      <4> QED
        BY <1>5, <2>0, <4>1
    <3>6. \A d \in Considered \ {e} : Decided(d.to) => d \in done_edge
      BY <1>3, <1>6 DEF UpTo
    <3> HIDE DEF ls, rest
    <3>7. m \in Int
      BY <1>5, <2>0
    <3> QED
      BY <2>1, <3>1, <3>2, <3>3, <3>4, <3>5, <3>6, <3>7 DEF UpTo
  <2>4. m <= W(e) /\ m <= values[e.to] /\ (W(e) <= m \/ values[e.to] <= m) /\ \E d \in Considered : m = W(d)
    BY <1>4, <1>5, <2>0, <2>2
  <2>5. lists' \subseteq lists
    BY <1>1
  <2> HIDE DEF ls, rest
  <2>6. UpTo(m, calls, lists, {})'
    <3>1. UNCHANGED graphVars /\ lists' = ls
      BY <1>1 DEF ls
    <3> QED
      BY <1>2, <1>4, <1>8, <2>1, <2>3, <2>4, <3>1, GiveUpUpTo
  <2>7. SafetyType' /\ Counted' /\ Kept'
    BY <1>1, <1>2, <1>4, <1>8, <2>1, <2>5, GiveUpType, CountedKept, GiveUpKept
  <2> QED
    BY <2>6, <2>7 DEF SafetyInv
<1> QED
  BY <1>7, <1>8

\* A call goes on with an edge that leads to its state.
LEMMA RecurKeeps ==
  ASSUME Ready, SafetyInv, NEW e \in edges, SafetyRecur(e)
  PROVE  SafetyInv'
<1> DEFINE rest == [calls EXCEPT ![Len(calls)] = @ \ {e}]
<1>1. /\ calls # <<>> /\ e \in Last(calls) /\ lists' = lists
      /\ GiveUp(e, rest) /\ UNCHANGED graphVars
  BY DEF SafetyRecur
<1>2. SafetyType /\ Counted /\ Kept
  BY DEF SafetyInv
<1>3. PICK m : UpTo(m, calls, lists, {})
  BY DEF SafetyInv
<1>4. /\ calls \in Seq(SUBSET Considered)
      /\ Len(calls) \in 1 .. Len(calls)
      /\ e \in calls[Len(calls)]
      /\ e \in Considered
  <2>1. calls \in Seq(SUBSET Considered)
    BY <1>2 DEF SafetyType
  <2>2. Len(calls) \in 1 .. Len(calls)
    BY <1>1, <2>1
  <2>3. e \in calls[Len(calls)]
    BY <1>1 DEF Last
  <2>4. calls[Len(calls)] \in SUBSET Considered
    BY <2>1, <2>2
  <2> QED
    BY <2>1, <2>2, <2>3, <2>4
<1>5. Decided(e.to) /\ values[e.to] = m /\ m \in Int
  BY <1>3, <1>4 DEF UpTo
<1>6. /\ rest \in Seq(SUBSET Considered) /\ Len(rest) = Len(calls)
      /\ \A i \in 1 .. Len(rest) : rest[i] = IF i = Len(calls) THEN calls[i] \ {e} ELSE calls[i]
  <2> DEFINE K == SUBSET Considered
             X == calls[Len(calls)] \ {e}
  <2>1. calls \in Seq(K) /\ X \in K /\ calls # <<>>
    BY <1>1, <1>4
  <2>2. rest = [calls EXCEPT ![Len(calls)] = X]
    OBVIOUS
  <2> HIDE DEF K, X, rest
  <2>3. /\ rest \in Seq(K) /\ Len(rest) = Len(calls)
        /\ \A i \in 1 .. Len(calls) : rest[i] = IF i = Len(calls) THEN X ELSE calls[i]
    BY <2>1, <2>2, LastReplaced
  <2> QED
    BY <2>3 DEF K, X
<1> HIDE DEF rest
<1>7. UpTo(m, rest, lists, {e})
  <2>1. \A i \in 1 .. Len(rest) : rest[i] \subseteq calls[i]
    BY <1>6
  <2>2. \A d : d # e => \A i \in 1 .. Len(calls) : d \in calls[i] => i \in 1 .. Len(rest) /\ d \in rest[i]
    BY <1>6
  <2>3. \A i \in 1 .. Len(rest) : \A d \in rest[i] : Decided(d.to) /\ values[d.to] = m
    BY <1>3, <1>6, <2>1 DEF UpTo
  <2>4. \A d \in Considered \ {e} :
          Decided(d.to) => d \in done_edge \/ \E i \in 1 .. Len(rest) : d \in rest[i]
    BY <1>3, <2>2 DEF UpTo
  <2> QED
    BY <1>3, <2>3, <2>4 DEF UpTo
<1>8. CASE e \in done_edge
  <2>1. /\ calls' = rest
        /\ UNCHANGED <<values, done_edge, counters, done_symbol, value_symbol>>
    BY <1>1, <1>8 DEF GiveUp, Done
  <2>2. UpTo(m, rest, lists, {})
    BY <1>7, <1>8 DEF UpTo
  <2> QED
    BY <1>1, <1>2, <1>6, <2>1, <2>2, SafetyStays
<1>9. CASE e \notin done_edge
  <2>1. e \in lists /\ m <= W(e)
    BY <1>3, <1>4, <1>9 DEF UpTo
  <2>2. \E d \in Considered : m = W(d)
    <3>1. ValueAt(m, e.to)
      BY <1>3, <1>4, ConsideredFacts DEF UpTo
    <3> QED
      BY <1>5, <3>1 DEF ValueAt
  <2>3. m <= values[e.to] /\ values[e.to] <= m
    BY <1>5
  <2>4. UpTo(m, calls, lists, {})'
    <3> DEFINE ls == lists
    <3>1. lists' = ls /\ UpTo(m, rest, ls, {e})
      BY <1>1, <1>7
    <3> HIDE DEF ls
    <3> QED
      BY <1>1, <1>2, <1>4, <1>6, <1>9, <2>1, <2>2, <2>3, <3>1, GiveUpUpTo
  <2>5. SafetyType' /\ Counted' /\ Kept'
    BY <1>1, <1>2, <1>4, <1>6, <1>9, GiveUpType, CountedKept, GiveUpKept
  <2> QED
    BY <2>4, <2>5 DEF SafetyInv
<1> QED
  BY <1>8, <1>9

\* A call returns.
LEMMA SafetyReturnKeeps ==
  ASSUME Ready, SafetyInv, SafetyReturn
  PROVE  SafetyInv'
<1>1. /\ calls # <<>> /\ Last(calls) = {}
      /\ calls' = SubSeq(calls, 1, Len(calls) - 1)
      /\ UNCHANGED <<graphVars, values, lists, done_edge, counters, done_symbol, value_symbol>>
  BY DEF SafetyReturn
<1>2. SafetyType /\ Counted /\ Kept
  BY DEF SafetyInv
<1>3. PICK m : UpTo(m, calls, lists, {})
  BY DEF SafetyInv
<1>4. calls \in Seq(SUBSET Considered) /\ Len(calls) \in Nat /\ Len(calls) # 0
  BY <1>1, <1>2 DEF SafetyType
<1>5. calls[Len(calls)] = {}
  BY <1>1 DEF Last
<1>6. /\ calls' \in Seq(SUBSET Considered) /\ Len(calls') = Len(calls) - 1
      /\ \A i \in 1 .. Len(calls') : calls'[i] = calls[i]
  <2> DEFINE K == SUBSET Considered
  <2>1. calls \in Seq(K)
    BY <1>4
  <2> HIDE DEF K
  <2>2. calls' \in Seq(K) /\ Len(calls') = Len(calls) - 1 /\ \A i \in 1 .. Len(calls') : calls'[i] = calls[i]
    BY <1>1, <2>1, LastRemoved
  <2> QED
    BY <2>2 DEF K
<1>7. \A d : \A i \in 1 .. Len(calls) : d \in calls[i] => i \in 1 .. Len(calls') /\ d \in calls'[i]
  BY <1>4, <1>5, <1>6
<1>8. \A i \in 1 .. Len(calls') : i \in 1 .. Len(calls)
  BY <1>4, <1>6
<1>9. UpTo(m, calls', lists, {})
  <2>1. \A i \in 1 .. Len(calls') : \A d \in calls'[i] : Decided(d.to) /\ values[d.to] = m
    BY <1>3, <1>6, <1>8 DEF UpTo
  <2>2. \A d \in Considered \ {} :
          Decided(d.to) => d \in done_edge \/ \E i \in 1 .. Len(calls') : d \in calls'[i]
    BY <1>3, <1>7 DEF UpTo
  <2> QED
    BY <1>3, <2>1, <2>2 DEF UpTo
<1> QED
  BY <1>1, <1>2, <1>6, <1>9, SafetyStays

\* Every step of top_safety_scc keeps the invariant.
LEMMA SafetyKeeps ==
  ASSUME Ready, Ascending, SafetyInv, SafetyStep
  PROVE  SafetyInv' /\ Ready' /\ Ascending' /\ UNCHANGED graphVars
<1>1. UNCHANGED graphVars
  BY DEF SafetyStep, SafetyTake, SafetyRecur, SafetyReturn
<1>2. SafetyInv'
  BY TakeKeeps, RecurKeeps, SafetyReturnKeeps DEF SafetyStep
<1> QED
  BY <1>1, <1>2, SafetyGraphKept

\* What top_safety_scc has found when it is over: from no state with edges can
\* a run stay on larger weights, and from each a run stays on its value.
LEMMA SafetyFound ==
  ASSUME Ready, SafetyInv, SafetyOver
  PROVE  /\ values \in [State -> Int]
         /\ \A C \in SUBSET State, x \in Int : Stays(C, x) => \A s \in C : x <= values[s]
         /\ \A s \in State : OutOf(s) = {} => values[s] = domain.min
         /\ \A s \in State : OutOf(s) # {} =>
              /\ \E e \in Considered : values[s] = W(e)
              /\ \E e \in OutOf(s) : values[s] <= W(e) /\ values[s] <= values[e.to] /\ OutOf(e.to) # {}
<1>1. PICK m : UpTo(m, calls, lists, {})
  BY DEF SafetyInv
<1>2. Considered \subseteq done_edge
  BY <1>1 DEF UpTo, SafetyOver
<1>3. ASSUME NEW s \in State
      PROVE  /\ OutOf(s) = {} => values[s] = domain.min
             /\ OutOf(s) # {} =>
                 /\ \E e \in Considered : values[s] = W(e)
                 /\ \E e \in OutOf(s) : values[s] <= W(e) /\ values[s] <= values[e.to] /\ OutOf(e.to) # {}
  <2>1. ValueAt(m, s)
    BY <1>1 DEF UpTo
  <2>2. OutOf(s) # {} => Decided(s)
    BY <1>2 DEF Decided, OutOf
  <2>3. \A e \in OutOf(s) : OutOf(e.to) # {}
    BY ConsideredGoOn DEF OutOf
  <2> QED
    BY <2>1, <2>2, <2>3 DEF ValueAt
<1>4. \A C \in SUBSET State, x \in Int : Stays(C, x) => \A s \in C : x <= values[s]
  BY DEF SafetyInv, Kept
<1>5. values \in [State -> Int]
  BY DEF SafetyInv, SafetyType
<1> QED
  BY <1>3, <1>4, <1>5

-----------------------------------------------------------------------------
(* top_reachably: the invariant *)

\* x is the weight of a considered edge from C, or the least value there is.
WeightIn(C, x) == x = domain.min \/ \E e \in Considered : e.from \in C /\ x = W(e)

\* x is the largest of these.
IsTop(C, x) ==
  /\ x \in Int /\ domain.min <= x
  /\ WeightIn(C, x)
  /\ \A e \in Considered : e.from \in C => W(e) <= x

FrameType == [state : State, todo : SUBSET edges]

ReachType ==
  /\ values \in [State -> Int]
  /\ spot \subseteq State
  /\ frames \in Seq(FrameType)
  /\ DOMAIN top_values \subseteq Components
  /\ origin \in State \cup {None}

\* The frames are a path from the origin, each at the edge to the next.
Path ==
  /\ frames # <<>> => origin # None /\ frames[1].state = origin
  /\ \A i \in 1 .. Len(frames) : /\ frames[i].state \in spot
                                 /\ SameTag(origin, frames[i].state)
                                 /\ \A e \in frames[i].todo : e.from = frames[i].state
  /\ \A i \in 1 .. Len(frames) - 1 : \E e \in frames[i].todo : e.to = frames[i + 1].state

\* What is visited belongs to the component being searched, or to one searched.
Visited ==
  /\ origin # None => origin \in spot /\ Component(origin) \notin DOMAIN top_values
  /\ \A v \in spot : Component(v) \in DOMAIN top_values \/ (origin # None /\ SameTag(origin, v))

Waits(e) == \E i \in 1 .. Len(frames) : e \in frames[i].todo

\* An edge of a visited state that does not wait has been followed and counted.
LookedAt ==
  \A e \in edges : e.from \in spot =>
    \/ Waits(e)
    \/ /\ e \in Considered => W(e) <= values[e.from]
       /\ SameTag(e.from, e.to) => e.to \in spot

\* x will reach frame i, whose state has it or is still to look at a state that does.
Reached(i, x) ==
  \/ x <= values[frames[i].state]
  \/ \E e \in frames[i].todo : SameTag(e.from, e.to) /\ e.to \in spot /\ x <= values[e.to]

\* The values of the component end up at its origin.
Handed ==
  origin # None => \A v \in spot : SameTag(origin, v) =>
    IF frames = <<>> THEN values[v] <= values[origin]
    ELSE \E i \in 1 .. Len(frames) : Reached(i, values[v])

Sound == \A s \in State : domain.min <= values[s] /\ WeightIn(Component(s), values[s])

TopsExact == \A C \in DOMAIN top_values : IsTop(C, top_values[C])

ReachInv == ReachType /\ Path /\ Visited /\ LookedAt /\ Handed /\ Sound /\ TopsExact

-----------------------------------------------------------------------------
(* top_reachably: the steps *)

\* The components are the classes of the states with the same tag.
LEMMA ComponentFacts ==
  ASSUME Ready
  PROVE  /\ \A s \in State : s \in Component(s) /\ Component(s) \in SUBSET State
                             /\ Component(s) \in Components
         /\ \A s, t \in State : SameTag(s, t) <=> Component(s) = Component(t)
         /\ \A s \in State : \A t : t \in Component(s) <=> t \in State /\ SameTag(s, t)
<1>1. \A s \in State : \A t : t \in Component(s) <=> t \in State /\ SameTag(s, t)
  BY DEF Component
<1>2. \A s \in State : s \in Component(s) /\ Component(s) \in SUBSET State /\ Component(s) \in Components
  BY <1>1, SameTagFacts DEF Components
<1>3. ASSUME NEW s \in State, NEW t \in State
      PROVE  SameTag(s, t) <=> Component(s) = Component(t)
  <2>1. SameTag(s, t) => \A u : SameTag(s, u) <=> SameTag(t, u)
    BY SameTagFacts
  <2>2. SameTag(s, t) => Component(s) = Component(t)
    BY <2>1 DEF Component
  <2>3. Component(s) = Component(t) => SameTag(s, t)
    BY <1>1, <1>2
  <2> QED
    BY <2>2, <2>3
<1> QED
  BY <1>1, <1>2, <1>3

\* What is made of the graph alone stays when the graph does.
LEMMA ReachGraphKept ==
  ASSUME UNCHANGED graphVars
  PROVE  /\ Considered' = Considered /\ Ready' = Ready
         /\ \A e : W(e)' = W(e)
         /\ \A s, t : SameTag(s, t)' = SameTag(s, t)
         /\ \A s : Component(s)' = Component(s)
         /\ Components' = Components
         /\ \A C, x : WeightIn(C, x)' = WeightIn(C, x) /\ IsTop(C, x)' = IsTop(C, x)
         /\ edges' = edges /\ domain' = domain
<1>1. Considered' = Considered /\ Ready' = Ready /\ \A e : W(e)' = W(e)
  BY SafetyGraphKept
<1>2. \A s, t : SameTag(s, t)' = SameTag(s, t)
  BY DEF SameTag, succ, graphVars
<1>3. \A s : Component(s)' = Component(s)
  BY <1>2 DEF Component
<1>4. Components' = Components
  BY <1>3 DEF Components
<1>5. edges' = edges /\ domain' = domain
  BY DEF graphVars
<1>6. \A C, x : WeightIn(C, x)' = WeightIn(C, x)
  BY <1>1, <1>5 DEF WeightIn
<1>7. \A C, x : IsTop(C, x)' = IsTop(C, x)
  BY <1>1, <1>5, <1>6 DEF IsTop
<1> QED
  BY <1>1, <1>2, <1>3, <1>4, <1>5, <1>6, <1>7

\* top_reachably starts with nothing visited.
LEMMA ReachStarts ==
  ASSUME Ready, NEW scc \in BOOLEAN, ReachStart(scc), UNCHANGED <<edges, value, domain>>
  PROVE  Ready' /\ ReachInv'
<1>1. in_scc' = scc
  BY DEF ReachStart
<1>2. Ready'
  BY <1>1 DEF Ready, WeightOK, W
<1>3. /\ values' = [s \in State |-> domain.min] /\ spot' = {} /\ frames' = <<>>
      /\ origin' = None /\ DOMAIN top_values' = {} /\ Len(frames') = 0
      /\ domain.min \in Int /\ domain' = domain
  BY DEF ReachStart, Ready
<1>4. ReachType'
  BY <1>3 DEF ReachType, FrameType
<1>5. Path' /\ Visited' /\ LookedAt' /\ Handed' /\ TopsExact'
  BY <1>3 DEF Path, Visited, LookedAt, Handed, TopsExact
<1>6. Sound'
  BY <1>3 DEF Sound, WeightIn
<1> QED
  BY <1>2, <1>4, <1>5, <1>6 DEF ReachInv

\* A new frame has all edges of its state left.
LEMMA FrameIs ==
  ASSUME NEW s \in State
  PROVE  /\ Frame(s) \in FrameType
         /\ Frame(s).state = s
         /\ \A e : e \in Frame(s).todo <=> e \in edges /\ e.from = s
BY DEF Frame, FrameType

\* The last frame, and the frames once it has moved past an edge.
LEMMA LastFrame ==
  ASSUME ReachInv, frames # <<>>
  PROVE  /\ Len(frames) \in 1 .. Len(frames) /\ Len(frames) \in Nat
         /\ Last(frames) = frames[Len(frames)]
         /\ current \in State /\ current \in spot /\ SameTag(origin, current)
         /\ \A e \in Last(frames).todo : e \in edges /\ e.from = current
<1>1. frames \in Seq(FrameType)
  BY DEF ReachInv, ReachType
<1>2. Len(frames) \in 1 .. Len(frames) /\ Len(frames) \in Nat
  BY <1>1
<1>3. frames[Len(frames)] \in FrameType
  BY <1>1, <1>2
<1>4. Last(frames) = frames[Len(frames)] /\ current = frames[Len(frames)].state
  BY DEF Last, current
<1>5. current \in State /\ Last(frames).todo \in SUBSET edges
  BY <1>3, <1>4 DEF FrameType
<1> QED
  BY <1>2, <1>4, <1>5 DEF ReachInv, Path

\* Moving past an edge changes the last frame only.
LEMMA PastIs ==
  ASSUME ReachInv, frames # <<>>, NEW e
  PROVE  /\ Past(e) \in Seq(FrameType)
         /\ Len(Past(e)) = Len(frames)
         /\ \A i \in 1 .. Len(frames) :
              /\ Past(e)[i].state = frames[i].state
              /\ Past(e)[i].todo = IF i = Len(frames) THEN frames[i].todo \ {e} ELSE frames[i].todo
<1> DEFINE last == frames[Len(frames)]
           next == [last EXCEPT !.todo = @ \ {e}]
<1>1. frames \in Seq(FrameType)
  BY DEF ReachInv, ReachType
<1>2. last \in FrameType
  BY <1>1, LastFrame
<1>3. next \in FrameType /\ next.state = last.state /\ next.todo = last.todo \ {e}
  BY <1>2 DEF FrameType
<1>4. Past(e) = [frames EXCEPT ![Len(frames)] = next]
  BY DEF Past
<1> HIDE DEF next
<1>5. /\ Past(e) \in Seq(FrameType)
      /\ Len(Past(e)) = Len(frames)
      /\ \A i \in 1 .. Len(frames) : Past(e)[i] = IF i = Len(frames) THEN next ELSE frames[i]
  BY <1>1, <1>3, <1>4, LastReplaced
<1> QED
  BY <1>3, <1>5

\* A search begins: no state of its component has been visited.
LEMMA CallKeeps ==
  ASSUME Ready, ReachInv, NEW s \in State, ReachCall(s)
  PROVE  ReachInv'
<1>1. /\ origin = None /\ Component(s) \notin DOMAIN top_values /\ origin' = s
      /\ UNCHANGED <<graphVars, values, top_values>>
  BY DEF ReachCall, Unsearched
<1>2. /\ Considered' = Considered /\ \A e : W(e)' = W(e)
      /\ \A t, u : SameTag(t, u)' = SameTag(t, u)
      /\ \A t : Component(t)' = Component(t)
      /\ Components' = Components
      /\ \A C, x : WeightIn(C, x)' = WeightIn(C, x) /\ IsTop(C, x)' = IsTop(C, x)
      /\ edges' = edges /\ domain' = domain
  BY <1>1, ReachGraphKept
<1>3. frames = <<>> /\ Len(frames) = 0
  BY <1>1 DEF ReachInv, Path
<1>4. \A v \in spot : v \in State /\ Component(v) \in DOMAIN top_values
  BY <1>1 DEF ReachInv, Visited, ReachType
<1>5. s \notin spot
  BY <1>1, <1>4
<1>6. spot' = spot \cup {s} /\ frames' = <<Frame(s)>>
  BY <1>5 DEF ReachCall
<1>7. /\ frames' \in Seq(FrameType) /\ Len(frames') = 1 /\ frames' # <<>>
      /\ frames'[1].state = s
      /\ \A e : e \in frames'[1].todo <=> e \in edges /\ e.from = s
  <2> DEFINE F == Frame(s)
  <2>1. F \in FrameType /\ F.state = s /\ \A e : e \in F.todo <=> e \in edges /\ e.from = s
    BY FrameIs
  <2>2. frames' = <<F>>
    BY <1>6
  <2> HIDE DEF F
  <2> QED
    BY <2>1, <2>2
<1>8. s # None /\ SameTag(s, s)
  BY StateAssumption, SameTagFacts
<1>9. ReachType'
  BY <1>1, <1>2, <1>6, <1>7 DEF ReachInv, ReachType, FrameType
<1>10. Path'
  BY <1>1, <1>2, <1>6, <1>7, <1>8 DEF Path
<1>11. Visited'
  BY <1>1, <1>2, <1>4, <1>6, <1>8 DEF Visited
<1>12. LookedAt'
  <2>1. \A e : ~Waits(e)
    BY <1>3 DEF Waits
  <2>2. \A e \in edges : e.from = s => Waits(e)'
    BY <1>7 DEF Waits
  <2> QED
    BY <1>1, <1>2, <1>6, <2>1, <2>2 DEF ReachInv, LookedAt
<1>13. Handed'
  <2> SUFFICES ASSUME NEW v \in spot', SameTag(s, v)
               PROVE  \E i \in 1 .. Len(frames') : Reached(i, values[v])'
    BY <1>1, <1>2, <1>7 DEF Handed
  <2>1. v = s
    BY <1>1, <1>4, <1>6, ComponentFacts
  <2>2. values[v] \in Int
    BY <2>1 DEF ReachInv, ReachType
  <2>3. Reached(1, values[v])'
    BY <1>1, <1>7, <2>1, <2>2 DEF Reached
  <2> QED
    BY <1>7, <2>3
<1>14. Sound' /\ TopsExact'
  BY <1>1, <1>2 DEF ReachInv, Sound, TopsExact
<1> QED
  BY <1>9, <1>10, <1>11, <1>12, <1>13, <1>14 DEF ReachInv

\* A state of the component is visited: its frame is put upon the others.
LEMMA DescendKeeps ==
  ASSUME Ready, ReachInv, NEW e \in edges, ReachDescend(e)
  PROVE  ReachInv'
<1> DEFINE t == e.to
<1>0. PICK n : n = Len(frames)
  OBVIOUS
<1>1. /\ frames # <<>> /\ e \in Last(frames).todo /\ SameTag(e.from, t) /\ t \notin spot
      /\ spot' = spot \cup {t} /\ frames' = Append(frames, Frame(t))
      /\ UNCHANGED <<graphVars, values, top_values, origin>>
  BY DEF ReachDescend
<1>2. /\ Considered' = Considered /\ \A d : W(d)' = W(d)
      /\ \A r, u : SameTag(r, u)' = SameTag(r, u)
      /\ \A r : Component(r)' = Component(r)
      /\ Components' = Components
      /\ \A C, x : WeightIn(C, x)' = WeightIn(C, x) /\ IsTop(C, x)' = IsTop(C, x)
      /\ edges' = edges /\ domain' = domain
  BY <1>1, ReachGraphKept
<1>3. t \in State
  BY DEF Ready
<1>4. /\ n \in 1 .. n /\ n \in Nat /\ e \in frames[n].todo
      /\ e.from = current /\ SameTag(origin, current)
  BY <1>0, <1>1, LastFrame
<1>5. SameTag(origin, t)
  BY <1>1, <1>4, SameTagFacts
<1>6. frames \in Seq(FrameType)
  BY DEF ReachInv, ReachType
<1>7. /\ frames' \in Seq(FrameType) /\ Len(frames') = n + 1
      /\ \A i \in 1 .. n : frames'[i] = frames[i]
      /\ frames'[n + 1].state = t
      /\ \A d : d \in frames'[n + 1].todo <=> d \in edges /\ d.from = t
  <2> DEFINE F == Frame(t)
  <2>1. F \in FrameType /\ F.state = t /\ \A d : d \in F.todo <=> d \in edges /\ d.from = t
    BY <1>3, FrameIs
  <2>2. frames' = Append(frames, F)
    BY <1>1
  <2> HIDE DEF F
  <2> QED
    BY <1>0, <1>6, <2>1, <2>2
<1>8. \A i : i \in 1 .. n + 1 <=> i \in 1 .. n \/ i = n + 1
  BY <1>4
<1> HIDE DEF t
<1>9. ReachType'
  BY <1>1, <1>2, <1>3, <1>7 DEF ReachInv, ReachType, FrameType
<1>10. Path'
  <2>1. ASSUME NEW i \in 1 .. n
        PROVE  /\ frames[i].state \in spot
               /\ SameTag(origin, frames[i].state)
               /\ \A d \in frames[i].todo : d.from = frames[i].state
    BY <1>0 DEF ReachInv, Path
  <2>2. ASSUME NEW i \in 1 .. n + 1
        PROVE  /\ frames'[i].state \in spot'
               /\ SameTag(origin, frames'[i].state)
               /\ \A d \in frames'[i].todo : d.from = frames'[i].state
    <3>1. CASE i \in 1 .. n
      BY <1>1, <1>7, <2>1, <3>1
    <3>2. CASE i = n + 1
      BY <1>1, <1>5, <1>7, <3>2
    <3> QED
      BY <1>8, <3>1, <3>2
  <2>3. ASSUME NEW i \in 1 .. n
        PROVE  \E d \in frames'[i].todo : d.to = frames'[i + 1].state
    <3>1. CASE i = n
      BY <1>4, <1>7, <3>1 DEF t
    <3>2. CASE i # n
      <4>1. i \in 1 .. n - 1 /\ i + 1 \in 1 .. n
        BY <1>4, <3>2
      <4> QED
        BY <1>0, <1>7, <4>1 DEF ReachInv, Path
    <3> QED
      BY <3>1, <3>2
  <2>4. frames'[1].state = frames[1].state /\ origin # None /\ frames[1].state = origin
    BY <1>1, <1>4, <1>7 DEF ReachInv, Path
  <2>5. Len(frames') - 1 = n
    BY <1>4, <1>7
  <2> QED
    BY <1>1, <1>2, <1>7, <2>2, <2>3, <2>4, <2>5 DEF Path
<1>11. Visited'
  <2>1. origin # None
    BY <1>1 DEF ReachInv, Path
  <2> QED
    BY <1>1, <1>2, <1>5, <2>1 DEF ReachInv, Visited
<1>12. LookedAt'
  <2>1. \A d : Waits(d) => Waits(d)'
    BY <1>0, <1>7, <1>8 DEF Waits
  <2>2. \A d \in edges : d.from = t => Waits(d)'
    BY <1>7, <1>8 DEF Waits
  <2> QED
    BY <1>1, <1>2, <2>1, <2>2 DEF ReachInv, LookedAt
<1>13. Handed'
  <2> SUFFICES ASSUME NEW v \in spot', SameTag(origin, v), origin # None
               PROVE  \E i \in 1 .. n + 1 : Reached(i, values[v])'
    BY <1>1, <1>2, <1>7 DEF Handed
  <2>1. CASE v = t
    <3>1. values[v] \in Int
      BY <1>3, <2>1 DEF ReachInv, ReachType
    <3>2. Reached(n + 1, values[v])'
      BY <1>1, <1>7, <2>1, <3>1 DEF Reached
    <3> QED
      BY <1>8, <3>2
  <2>2. CASE v \in spot
    <3>1. PICK i \in 1 .. n : Reached(i, values[v])
      BY <1>0, <1>1, <2>2 DEF ReachInv, Handed
    <3>2. Reached(i, values[v])'
      BY <1>1, <1>2, <1>7, <3>1 DEF Reached
    <3> QED
      BY <1>8, <3>2
  <2> QED
    BY <1>1, <2>1, <2>2
<1>14. Sound' /\ TopsExact'
  BY <1>1, <1>2 DEF ReachInv, Sound, TopsExact
<1> QED
  BY <1>9, <1>10, <1>11, <1>12, <1>13, <1>14 DEF ReachInv

\* The last frame moves past an edge, and its state takes over value g.
LEMMA PastKeeps ==
  ASSUME Ready, ReachInv, frames # <<>>, NEW e \in Last(frames).todo, NEW g \in Int,
         UNCHANGED <<graphVars, spot, top_values, origin>>,
         frames' = Past(e), values' = [values EXCEPT ![current] = g],
         values[current] <= g, WeightIn(Component(current), g),
         e \in Considered => W(e) <= g,
         SameTag(e.from, e.to) => e.to \in spot /\ values[e.to] <= g
  PROVE  ReachInv'
<1> DEFINE c == current
<1>0. PICK n : n = Len(frames)
  OBVIOUS
<1>1. /\ Considered' = Considered /\ \A d : W(d)' = W(d)
      /\ \A r, u : SameTag(r, u)' = SameTag(r, u)
      /\ \A r : Component(r)' = Component(r)
      /\ Components' = Components
      /\ \A C, x : WeightIn(C, x)' = WeightIn(C, x) /\ IsTop(C, x)' = IsTop(C, x)
      /\ edges' = edges /\ domain' = domain
  BY ReachGraphKept
<1>2. /\ n \in 1 .. n /\ n \in Nat /\ Last(frames) = frames[n]
      /\ c \in State /\ c \in spot /\ SameTag(origin, c)
      /\ e \in edges /\ e.from = c /\ c = frames[n].state
  BY <1>0, LastFrame DEF current
<1>3. /\ frames' \in Seq(FrameType) /\ Len(frames') = n
      /\ \A i \in 1 .. n : /\ frames'[i].state = frames[i].state
                           /\ frames'[i].todo = IF i = n THEN frames[i].todo \ {e} ELSE frames[i].todo
  BY <1>0, PastIs
<1>4. /\ values' \in [State -> Int] /\ values \in [State -> Int]
      /\ values'[c] = g /\ \A s \in State : s # c => values'[s] = values[s]
  BY <1>2 DEF ReachInv, ReachType
<1>5. \A s \in State : values[s] <= values'[s]
  BY <1>4
<1>6. frames' # <<>> /\ origin # None
  BY <1>2, <1>3 DEF ReachInv, Path
<1> HIDE DEF c
<1>7. ReachType'
  BY <1>1, <1>3, <1>4 DEF ReachInv, ReachType, FrameType
<1>8. Path'
  <2>1. ASSUME NEW i \in 1 .. n
        PROVE  /\ frames'[i].state \in spot'
               /\ SameTag(origin, frames'[i].state)
               /\ \A d \in frames'[i].todo : d.from = frames'[i].state
    BY <1>0, <1>3 DEF ReachInv, Path
  <2>2. ASSUME NEW i \in 1 .. n - 1
        PROVE  \E d \in frames'[i].todo : d.to = frames'[i + 1].state
    <3>1. i \in 1 .. n /\ i + 1 \in 1 .. n /\ i # n
      BY <1>2
    <3>2. frames'[i].todo = frames[i].todo /\ frames'[i + 1].state = frames[i + 1].state
      BY <1>3, <3>1
    <3> QED
      BY <1>0, <3>2 DEF ReachInv, Path
  <2>3. frames'[1].state = origin
    <3>1. 1 \in 1 .. n
      BY <1>2
    <3> QED
      BY <1>3, <3>1 DEF ReachInv, Path
  <2> QED
    BY <1>1, <1>3, <1>6, <2>1, <2>2, <2>3 DEF Path
<1>9. Visited'
  BY <1>1 DEF ReachInv, Visited
<1>10. LookedAt'
  <2> SUFFICES ASSUME NEW d \in edges, d.from \in spot, ~Waits(d)'
               PROVE  /\ d \in Considered => W(d) <= values'[d.from]
                      /\ SameTag(d.from, d.to) => d.to \in spot
    BY <1>1 DEF LookedAt
  <2>1. d.from \in State
    BY DEF Ready
  <2>2. CASE d = e
    BY <1>2, <1>4, <2>2
  <2>3. CASE d # e
    <3>1. ~Waits(d)
      BY <1>0, <1>3, <2>3 DEF Waits
    <3>2. /\ d \in Considered => W(d) <= values[d.from]
          /\ SameTag(d.from, d.to) => d.to \in spot
      BY <3>1 DEF ReachInv, LookedAt
    <3>3. d \in Considered => W(d) \in Int
      BY ConsideredFacts
    <3>4. values[d.from] \in Int /\ values'[d.from] \in Int /\ values[d.from] <= values'[d.from]
      BY <1>4, <1>5, <2>1
    <3> QED
      BY <3>2, <3>3, <3>4
  <2> QED
    BY <2>2, <2>3
<1>11. Handed'
  <2> SUFFICES ASSUME NEW v \in spot, SameTag(origin, v)
               PROVE  \E i \in 1 .. n : Reached(i, values[v])'
    BY <1>1, <1>3, <1>6 DEF Handed
  <2>0. v \in State
    BY DEF ReachInv, ReachType
  <2>1. CASE v = c
    <3>1. frames'[n].state = c
      BY <1>2, <1>3
    <3>2. values'[v] <= values'[frames'[n].state]
      BY <1>4, <2>1, <3>1
    <3>3. Reached(n, values[v])'
      BY <3>2 DEF Reached
    <3> QED
      BY <1>2, <3>3
  <2>2. CASE v # c
    <3>1. PICK i \in 1 .. n : Reached(i, values[v])
      BY <1>0, <1>6 DEF ReachInv, Handed
    <3>2. values'[v] = values[v] /\ values[v] \in Int
      BY <1>4, <2>0, <2>2
    <3>3. frames[i].state \in State
      BY <1>0, <3>1 DEF ReachInv, Path, ReachType
    <3>4. CASE values[v] <= values[frames[i].state]
      <4>1. values[v] <= values'[frames'[i].state]
        <5>1. frames'[i].state = frames[i].state
          BY <1>3, <3>1
        <5>2. values[frames[i].state] <= values'[frames[i].state]
          BY <1>5, <3>3
        <5>3. values[frames[i].state] \in Int /\ values'[frames[i].state] \in Int
          BY <1>4, <3>3
        <5> QED
          BY <3>2, <3>4, <5>1, <5>2, <5>3
      <4> QED
        BY <3>2, <4>1 DEF Reached
    <3>5. CASE \E d \in frames[i].todo : SameTag(d.from, d.to) /\ d.to \in spot /\ values[v] <= values[d.to]
      <4>1. PICK d \in frames[i].todo : SameTag(d.from, d.to) /\ d.to \in spot /\ values[v] <= values[d.to]
        BY <3>5
      <4>2. d.to \in State
        BY <4>1 DEF ReachInv, ReachType
      <4>3. values[v] <= values'[d.to]
        BY <1>4, <1>5, <3>2, <4>1, <4>2
      <4>4. CASE d \in frames'[i].todo
        <5>1. Reached(i, values[v])'
          BY <1>1, <3>2, <4>1, <4>3, <4>4 DEF Reached
        <5> QED
          BY <5>1
      <4>5. CASE d \notin frames'[i].todo
        <5>1. d = e
          BY <1>3, <4>1, <4>5
        <5>2. values[v] <= g
          BY <1>4, <3>2, <4>1, <4>2, <5>1
        <5>3. Reached(n, values[v])'
          BY <1>2, <1>3, <1>4, <3>2, <5>2 DEF Reached
        <5> QED
          BY <1>2, <5>3
      <4> QED
        BY <4>4, <4>5
    <3> QED
      BY <3>1, <3>4, <3>5 DEF Reached
  <2> QED
    BY <2>1, <2>2
<1>12. Sound'
  <2> SUFFICES ASSUME NEW s \in State
               PROVE  domain.min <= values'[s] /\ WeightIn(Component(s), values'[s])
    BY <1>1 DEF Sound
  <2>1. domain.min <= values[s] /\ WeightIn(Component(s), values[s]) /\ domain.min \in Int
    BY DEF ReachInv, Sound, Ready
  <2>2. CASE s = c
    <3>1. WeightIn(Component(s), g)
      BY <2>2 DEF c
    <3> QED
      BY <1>4, <1>5, <2>1, <2>2, <3>1
  <2>3. CASE s # c
    BY <1>4, <2>1, <2>3
  <2> QED
    BY <2>2, <2>3
<1>13. TopsExact'
  BY <1>1 DEF ReachInv, TopsExact
<1> QED
  BY <1>7, <1>8, <1>9, <1>10, <1>11, <1>12, <1>13 DEF ReachInv

\* The largest of finitely many integers, two or three.
LEMMA MaxOfTwo ==
  ASSUME NEW a \in Int, NEW b \in Int
  PROVE  /\ Max({a, b}) \in Int /\ a <= Max({a, b}) /\ b <= Max({a, b})
         /\ Max({a, b}) = a \/ Max({a, b}) = b
<1>1. a <= b \/ b <= a
  OBVIOUS
<1> DEFINE S == {a, b}
<1>2. S \in SUBSET Int
  OBVIOUS
<1>3. PICK m \in S : \A y \in S : y <= m
  BY <1>1
<1>4. Max(S) = m
  BY <1>2, <1>3, MaxIs
<1> QED
  BY <1>2, <1>3, <1>4

\* The largest of three integers.
LEMMA MaxOfThree ==
  ASSUME NEW a \in Int, NEW b \in Int, NEW c \in Int
  PROVE  /\ Max({a, b, c}) \in Int
         /\ a <= Max({a, b, c}) /\ b <= Max({a, b, c}) /\ c <= Max({a, b, c})
         /\ Max({a, b, c}) = a \/ Max({a, b, c}) = b \/ Max({a, b, c}) = c
<1> DEFINE S == {a, b, c}
<1>1. S \in SUBSET Int
  OBVIOUS
<1>2. \E m \in S : a <= m /\ b <= m /\ c <= m
  <2>1. CASE a <= b /\ b <= c
    BY <2>1
  <2>2. CASE a <= b /\ c <= b
    BY <2>2
  <2>3. CASE b <= a /\ a <= c
    BY <2>3
  <2>4. CASE b <= a /\ c <= a
    BY <2>4
  <2> QED
    BY <2>1, <2>2, <2>3, <2>4
<1>3. PICK m \in S : \A y \in S : y <= m
  BY <1>2
<1>4. Max(S) = m
  BY <1>1, <1>3, MaxIs
<1> QED
  BY <1>1, <1>3, <1>4

\* The current state takes over what a visited neighbour knows.
LEMMA GatherKeeps ==
  ASSUME Ready, ReachInv, NEW e \in edges, ReachGather(e)
  PROVE  ReachInv'
<1>1. /\ frames # <<>> /\ e \in Last(frames).todo /\ SameTag(e.from, e.to) /\ e.to \in spot
      /\ values' = [values EXCEPT ![current] = Gathered(e)] /\ frames' = Past(e)
      /\ UNCHANGED <<graphVars, spot, top_values, origin>>
  BY DEF ReachGather
<1>2. e.from = current /\ current \in State /\ e.to \in State
  BY <1>1, LastFrame DEF Ready
<1>3. e \in Considered
  BY <1>1 DEF Considered
<1>4. values[current] \in Int /\ W(e) \in Int /\ values[e.to] \in Int
  BY <1>2, <1>3, ConsideredFacts DEF ReachInv, ReachType
<1>5. PICK g : g = Gathered(e)
  OBVIOUS
<1>6. /\ g \in Int /\ values[current] <= g /\ W(e) <= g /\ values[e.to] <= g
      /\ g = values[current] \/ g = W(e) \/ g = values[e.to]
  BY <1>4, <1>5, MaxOfThree DEF Gathered, W
<1>7. WeightIn(Component(current), g)
  <2>1. /\ WeightIn(Component(current), values[current])
        /\ WeightIn(Component(e.to), values[e.to])
    BY <1>2 DEF ReachInv, Sound
  <2>2. Component(e.to) = Component(current)
    BY <1>1, <1>2, ComponentFacts
  <2>3. WeightIn(Component(current), W(e))
    BY <1>2, <1>3, ComponentFacts DEF WeightIn
  <2> QED
    BY <1>6, <2>1, <2>2, <2>3
<1> QED
  BY <1>1, <1>5, <1>6, <1>7, PastKeeps

\* An edge that leaves the component is counted, or left out.
LEMMA LeaveKeeps ==
  ASSUME Ready, ReachInv, NEW e \in edges, ReachLeave(e)
  PROVE  ReachInv'
<1>1. /\ frames # <<>> /\ e \in Last(frames).todo /\ ~SameTag(e.from, e.to)
      /\ values' = IF in_scc THEN values ELSE [values EXCEPT ![current] = Max({@, value[e.id]})]
      /\ frames' = Past(e)
      /\ UNCHANGED <<graphVars, spot, top_values, origin>>
  BY DEF ReachLeave
<1>2. e.from = current /\ current \in State /\ WeightOK(W(e))
  BY <1>1, LastFrame DEF Ready
<1>3. values \in [State -> Int] /\ values[current] \in Int /\ W(e) \in Int
  BY <1>2 DEF ReachInv, ReachType, WeightOK
<1>4. WeightIn(Component(current), values[current])
  BY <1>2 DEF ReachInv, Sound
<1>5. CASE in_scc
  <2>1. PICK g : g = values[current]
    OBVIOUS
  <2>2. values' = [values EXCEPT ![current] = g]
    BY <1>1, <1>3, <1>5, <2>1
  <2>3. e \notin Considered
    BY <1>1, <1>5 DEF Considered
  <2>4. g \in Int /\ values[current] <= g /\ WeightIn(Component(current), g)
    BY <1>3, <1>4, <2>1
  <2> QED
    BY <1>1, <2>2, <2>3, <2>4, PastKeeps
<1>6. CASE ~in_scc
  <2>1. PICK g : g = Max({values[current], value[e.id]})
    OBVIOUS
  <2>2. g \in Int /\ values[current] <= g /\ W(e) <= g /\ (g = values[current] \/ g = W(e))
    BY <1>3, <2>1, MaxOfTwo DEF W
  <2>3. values' = [values EXCEPT ![current] = g]
    BY <1>1, <1>6, <2>1
  <2>4. e \in Considered
    BY <1>6 DEF Considered
  <2>5. WeightIn(Component(current), g)
    BY <1>2, <1>4, <2>2, <2>4, ComponentFacts DEF WeightIn
  <2> QED
    BY <1>1, <2>2, <2>3, <2>5, PastKeeps
<1> QED
  BY <1>5, <1>6

\* A state is left: the frame below is at the edge that leads to it.
LEMMA ReachReturnKeeps ==
  ASSUME Ready, ReachInv, ReachReturn
  PROVE  ReachInv'
<1>0. PICK n : n = Len(frames)
  OBVIOUS
<1>1. /\ frames # <<>> /\ Last(frames).todo = {}
      /\ frames' = SubSeq(frames, 1, n - 1)
      /\ UNCHANGED <<graphVars, values, spot, top_values, origin>>
  BY <1>0 DEF ReachReturn
<1>2. /\ Considered' = Considered /\ \A d : W(d)' = W(d)
      /\ \A r, u : SameTag(r, u)' = SameTag(r, u)
      /\ \A r : Component(r)' = Component(r)
      /\ Components' = Components
      /\ \A C, x : WeightIn(C, x)' = WeightIn(C, x) /\ IsTop(C, x)' = IsTop(C, x)
      /\ edges' = edges /\ domain' = domain
  BY <1>1, ReachGraphKept
<1>3. n \in 1 .. n /\ n \in Nat /\ frames[n].todo = {} /\ origin # None
  BY <1>0, <1>1, LastFrame DEF ReachInv, Path
<1>4. /\ frames' \in Seq(FrameType) /\ Len(frames') = n - 1
      /\ \A i \in 1 .. n - 1 : frames'[i] = frames[i] /\ i \in 1 .. n
  <2>1. frames \in Seq(FrameType)
    BY DEF ReachInv, ReachType
  <2>2. frames' \in Seq(FrameType) /\ Len(frames') = n - 1 /\ \A i \in 1 .. Len(frames') : frames'[i] = frames[i]
    BY <1>0, <1>1, <2>1, LastRemoved
  <2> QED
    BY <1>3, <2>2
<1>5. \A i \in 1 .. n : frames[i].todo # {} => i \in 1 .. n - 1
  BY <1>3
<1>6. ReachType'
  BY <1>1, <1>2, <1>4 DEF ReachInv, ReachType, FrameType
<1>7. Path'
  <2>1. frames' # <<>> => frames'[1].state = origin
    <3> SUFFICES ASSUME frames' # <<>>
                 PROVE  frames'[1].state = origin
      OBVIOUS
    <3>1. 1 \in 1 .. n - 1
      BY <1>3, <1>4
    <3> QED
      BY <1>1, <1>4, <3>1 DEF ReachInv, Path
  <2>2. \A i \in 1 .. n - 1 : /\ frames'[i].state \in spot
                              /\ SameTag(origin, frames'[i].state)
                              /\ \A d \in frames'[i].todo : d.from = frames'[i].state
    BY <1>0, <1>4 DEF ReachInv, Path
  <2>3. ASSUME NEW i \in 1 .. n - 1 - 1
        PROVE  \E d \in frames'[i].todo : d.to = frames'[i + 1].state
    <3>1. i \in 1 .. n - 1 /\ i + 1 \in 1 .. n - 1
      BY <1>3
    <3> QED
      BY <1>0, <1>4, <3>1 DEF ReachInv, Path
  <2> QED
    BY <1>1, <1>2, <1>3, <1>4, <2>1, <2>2, <2>3 DEF Path
<1>8. Visited'
  BY <1>1, <1>2 DEF ReachInv, Visited
<1>9. LookedAt'
  <2>1. \A d : Waits(d) => Waits(d)'
    BY <1>0, <1>4, <1>5 DEF Waits
  <2> QED
    BY <1>1, <1>2, <2>1 DEF ReachInv, LookedAt
<1>10. Handed'
  <2> SUFFICES ASSUME NEW v \in spot, SameTag(origin, v)
               PROVE  IF frames' = <<>> THEN values[v] <= values[origin]
                      ELSE \E i \in 1 .. n - 1 : Reached(i, values[v])'
    BY <1>1, <1>2, <1>4 DEF Handed
  <2>1. PICK i \in 1 .. n : Reached(i, values[v])
    BY <1>0, <1>1, <1>3 DEF ReachInv, Handed
  <2>2. CASE frames' = <<>>
    <3>1. n = 1 /\ i = 1
      BY <1>3, <1>4, <2>2
    <3>2. frames[1].state = origin
      BY <1>1 DEF ReachInv, Path
    <3> QED
      BY <1>3, <2>1, <2>2, <3>1, <3>2 DEF Reached
  <2>3. CASE frames' # <<>>
    <3>1. CASE i \in 1 .. n - 1
      <4>1. Reached(i, values[v])'
        BY <1>1, <1>2, <1>4, <2>1, <3>1 DEF Reached
      <4> QED
        BY <2>3, <3>1, <4>1
    <3>2. CASE i = n
      <4>1. values[v] <= values[frames[n].state] /\ frames[n].state \in spot
        BY <1>0, <1>3, <2>1, <3>2 DEF Reached, ReachInv, Path
      <4>2. PICK k : k = n - 1
        OBVIOUS
      <4>3. k \in 1 .. n - 1 /\ k + 1 = n /\ k \in 1 .. n
        BY <1>3, <1>4, <2>3, <4>2
      <4>4. PICK d \in frames[k].todo : d.to = frames[n].state
        BY <1>0, <4>3 DEF ReachInv, Path
      <4>5. SameTag(d.from, d.to)
        <5>1. /\ d.from = frames[k].state /\ SameTag(origin, frames[k].state)
              /\ SameTag(origin, frames[n].state)
          BY <1>0, <1>3, <4>3, <4>4 DEF ReachInv, Path
        <5> QED
          BY <4>4, <5>1, SameTagFacts
      <4>6. Reached(k, values[v])'
        BY <1>1, <1>2, <1>4, <4>1, <4>3, <4>4, <4>5 DEF Reached
      <4> QED
        BY <2>3, <4>3, <4>6
    <3>3. i \in 1 .. n - 1 \/ i = n
      BY <1>3
    <3> QED
      BY <3>1, <3>2, <3>3
  <2> QED
    BY <2>2, <2>3
<1>11. Sound' /\ TopsExact'
  BY <1>1, <1>2 DEF ReachInv, Sound, TopsExact
<1> QED
  BY <1>6, <1>7, <1>8, <1>9, <1>10, <1>11 DEF ReachInv

\* Once the frames are gone the whole component is visited.
LEMMA ComponentVisited ==
  ASSUME Ready, ReachInv, frames = <<>>, origin # None
  PROVE  Component(origin) \subseteq spot
<1>1. origin \in State /\ origin \in spot
  BY DEF ReachInv, ReachType, Visited
<1>2. \A e \in edges : e.from \in spot /\ SameTag(e.from, e.to) => e.to \in spot
  BY DEF ReachInv, LookedAt, Waits
<1> DEFINE In == {u \in spot : SameTag(origin, u)}
           Beyond == {u \in State : Reaches(succ, origin, u) /\ ~Reaches(succ, u, origin)}
           D == In \cup Beyond
<1>3. D \in SUBSET State /\ origin \in D
  BY <1>1, SameTagFacts DEF ReachInv, ReachType
<1>4. ASSUME NEW u \in D, NEW w \in succ[u]
      PROVE  w \in D
  <2>1. u \in State /\ Reaches(succ, origin, u)
    BY <1>3 DEF SameTag, Mutual
  <2>2. PICK e \in edges : e.from = u /\ e.to = w
    BY <2>1, SuccIs
  <2>3. w \in State /\ Reaches(succ, u, w)
    BY <2>1, <2>2, SuccIsGraph, ReachesSuccessor DEF Ready
  <2>4. Reaches(succ, origin, w)
    BY <2>1, <2>3, SuccIsGraph, ReachesTransitive
  <2>5. CASE u \in In /\ Reaches(succ, w, origin)
    <3>1. SameTag(origin, w) /\ SameTag(origin, u)
      BY <2>4, <2>5 DEF SameTag, Mutual
    <3>2. SameTag(u, w)
      BY <3>1, SameTagFacts
    <3> QED
      BY <1>2, <2>2, <2>5, <3>1, <3>2
  <2>6. CASE u \in Beyond /\ Reaches(succ, w, origin)
    <3>1. Reaches(succ, u, origin)
      BY <2>3, <2>6, SuccIsGraph, ReachesTransitive
    <3> QED
      BY <2>6, <3>1
  <2>7. CASE ~Reaches(succ, w, origin)
    BY <2>3, <2>4, <2>7
  <2> QED
    BY <2>5, <2>6, <2>7
<1>5. \A v \in State : SameTag(origin, v) => v \in D
  <2> HIDE DEF D
  <2>1. Closed(succ, D)
    BY <1>4 DEF Closed
  <2> QED
    BY <1>3, <2>1, SuccIsGraph DEF SameTag, Mutual, Reaches, IsGraph
<1>6. \A v \in State : SameTag(origin, v) => v \in spot
  BY <1>5 DEF SameTag, Mutual
<1> QED
  BY <1>6 DEF Component

\* The value of the origin is recorded as that of the component.
LEMMA RecordKeeps ==
  ASSUME Ready, ReachInv, ReachRecord
  PROVE  ReachInv'
<1>1. /\ frames = <<>> /\ origin # None
      /\ top_values' = [C \in DOMAIN top_values \cup {Component(origin)} |->
                          IF C \in DOMAIN top_values THEN top_values[C] ELSE values[origin]]
      /\ origin' = None
      /\ UNCHANGED <<graphVars, values, spot, frames>>
  BY DEF ReachRecord
<1>2. /\ Considered' = Considered /\ \A d : W(d)' = W(d)
      /\ \A r, u : SameTag(r, u)' = SameTag(r, u)
      /\ \A r : Component(r)' = Component(r)
      /\ Components' = Components
      /\ \A C, x : WeightIn(C, x)' = WeightIn(C, x) /\ IsTop(C, x)' = IsTop(C, x)
      /\ edges' = edges /\ domain' = domain
  BY <1>1, ReachGraphKept
<1>3. origin \in State /\ Component(origin) \in Components /\ Len(frames) = 0
  BY <1>1, ComponentFacts DEF ReachInv, ReachType
<1>4. DOMAIN top_values' = DOMAIN top_values \cup {Component(origin)}
  BY <1>1
<1>5. ReachType'
  BY <1>1, <1>2, <1>3, <1>4 DEF ReachInv, ReachType
<1>6. Path' /\ Handed' /\ Sound'
  BY <1>1, <1>2, <1>3 DEF ReachInv, Path, Handed, Sound
<1>7. Visited'
  <2>1. \A v \in spot : v \in State /\ (SameTag(origin, v) => Component(v) = Component(origin))
    BY <1>3, ComponentFacts DEF ReachInv, ReachType
  <2> QED
    BY <1>1, <1>2, <1>4, <2>1 DEF ReachInv, Visited
<1>8. LookedAt'
  BY <1>1, <1>2 DEF ReachInv, LookedAt, Waits
<1>9. IsTop(Component(origin), values[origin])
  <2>1. /\ values[origin] \in Int /\ domain.min <= values[origin]
        /\ WeightIn(Component(origin), values[origin])
    BY <1>3 DEF ReachInv, ReachType, Sound
  <2>2. ASSUME NEW e \in Considered, e.from \in Component(origin)
        PROVE  W(e) <= values[origin]
    <3>1. e \in edges /\ W(e) \in Int /\ e.from \in State /\ SameTag(origin, e.from)
      BY <1>3, <2>2, ConsideredFacts, ComponentFacts
    <3>2. e.from \in spot
      BY <1>1, <2>2, ComponentVisited
    <3>3. W(e) <= values[e.from]
      BY <1>3, <3>1, <3>2 DEF ReachInv, LookedAt, Waits
    <3>4. values[e.from] <= values[origin]
      BY <1>1, <3>1, <3>2 DEF ReachInv, Handed
    <3>5. values[e.from] \in Int
      BY <3>1 DEF ReachInv, ReachType
    <3> QED
      BY <2>1, <3>1, <3>3, <3>4, <3>5
  <2> QED
    BY <2>1, <2>2 DEF IsTop
<1>10. TopsExact'
  <2> SUFFICES ASSUME NEW C \in DOMAIN top_values'
               PROVE  IsTop(C, top_values'[C])
    BY <1>2 DEF TopsExact
  <2>1. CASE C \in DOMAIN top_values
    BY <1>1, <2>1 DEF ReachInv, TopsExact
  <2>2. CASE C \notin DOMAIN top_values
    BY <1>1, <1>4, <1>9, <2>2
  <2> QED
    BY <2>1, <2>2
<1> QED
  BY <1>5, <1>6, <1>7, <1>8, <1>10 DEF ReachInv

\* Every step of top_reachably keeps the invariant.
LEMMA ReachKeeps ==
  ASSUME Ready, ReachInv, ReachStep
  PROVE  ReachInv' /\ Ready' /\ UNCHANGED graphVars
<1>1. UNCHANGED graphVars
  BY DEF ReachStep, ReachCall, ReachDescend, ReachGather, ReachLeave, ReachReturn, ReachRecord
<1>2. ReachInv'
  BY CallKeeps, DescendKeeps, GatherKeeps, LeaveKeeps, ReachReturnKeeps, RecordKeeps DEF ReachStep
<1> QED
  BY <1>1, <1>2, ReachGraphKept

\* What top_reachably has found when it is over.
LEMMA ReachFound ==
  ASSUME Ready, ReachInv, ReachOver
  PROVE  DOMAIN top_values = Components /\ \A C \in Components : IsTop(C, top_values[C])
BY DEF ReachInv, ReachType, TopsExact, ReachOver, Unsearched

-----------------------------------------------------------------------------
(***************************************************************************)
(* What compute_Top, compute_Bottom and isConstant make of the searches.   *)
(***************************************************************************)

-----------------------------------------------------------------------------
(* What compute_Top returns *)

\* Everything can be reached from the initial state.
Trimmed == \A s \in State : Reaches(succ, initial, s)

\* The smallest element.
LEMMA MinIs ==
  ASSUME NEW S \in SUBSET Int, NEW m \in S, \A y \in S : m <= y
  PROVE  Min(S) = m
<1>1. Min(S) \in S /\ \A y \in S : Min(S) <= y
  BY DEF Min
<1>2. Min(S) \in Int /\ m \in Int /\ Min(S) <= m /\ m <= Min(S)
  BY <1>1
<1> QED
  BY <1>2

\* A finite set of integers has a smallest element.
LEMMA MinExists ==
  ASSUME NEW S \in SUBSET Int, IsFiniteSet(S), S # {}
  PROVE  Min(S) \in S /\ \A y \in S : Min(S) <= y
<1> DEFINE g == [x \in S |-> -x]
           N == {g[x] : x \in S}
<1>1. IsFiniteSet(N)
  BY FiniteImage
<1>2. N \in SUBSET Int /\ N # {}
  <2>1. \A x \in S : g[x] = -x /\ x \in Int /\ -x \in Int
    OBVIOUS
  <2> HIDE DEF g
  <2> QED
    BY <2>1
<1>3. PICK m \in N : \A y \in N : y <= m
  <2> HIDE DEF N
  <2> QED
    BY <1>1, <1>2, MaxExists
<1>4. PICK x \in S : m = -x
  BY DEF N
<1>5. ASSUME NEW y \in S
      PROVE  x <= y
  <2>1. -y \in N
    OBVIOUS
  <2>2. -y <= -x /\ x \in Int /\ y \in Int
    BY <1>3, <1>4, <2>1
  <2> QED
    BY <2>2
<1> QED
  BY <1>4, <1>5, MinIs

\* Some edge leads back to where it comes from.
LEMMA WithinExists ==
  ASSUME Ready
  PROVE  \E e \in edges : SameTag(e.from, e.to)
<1>1. PICK s \in State : \A t \in State : Reaches(succ, s, t) => Reaches(succ, t, s)
  BY InitialAssumption, StateAssumption, SuccIsGraph, BottomState
<1>2. PICK a \in Symbol : TRUE
  BY SymbolAssumption
<1>3. PICK e \in edges : e.from = s
  BY <1>2 DEF Ready
<1>4. e.to \in State /\ Reaches(succ, s, e.to)
  BY <1>3, SuccIsGraph, SuccHas, ReachesSuccessor DEF Ready
<1> QED
  BY <1>1, <1>3, <1>4 DEF SameTag, Mutual

\* top_dag takes the largest of the values of all components.
LEMMA TopDagIs ==
  ASSUME Ready, Trimmed, NEW tv, \A s \in State : tv[Component(s)] \in Int
  PROVE  /\ \E s \in State : TopDag(tv, initial) = tv[Component(s)]
         /\ \A s \in State : tv[Component(s)] <= TopDag(tv, initial)
<1> DEFINE g == [s \in State |-> tv[Component(s)]]
           S == {g[s] : s \in State}
<1>1. {u \in State : Reaches(succ, initial, u)} = State
  BY DEF Trimmed
<1>2. TopDag(tv, initial) = Max(S)
  BY <1>1 DEF TopDag
<1>3. IsFiniteSet(S)
  BY StateAssumption, FiniteImage
<1>4. S \in SUBSET Int /\ S # {}
  BY InitialAssumption
<1>5. \A s \in State : g[s] = tv[Component(s)] /\ g[s] \in S
  OBVIOUS
<1>6. \A x \in S : \E s \in State : x = tv[Component(s)]
  OBVIOUS
<1> HIDE DEF S, g
<1>7. Max(S) \in S /\ \A y \in S : y <= Max(S)
  BY <1>3, <1>4, MaxExists
<1> QED
  BY <1>2, <1>5, <1>6, <1>7

\* top_reachably and top_dag: the largest weight of a considered edge.
LEMMA ReachAnswer ==
  ASSUME Ready, Trimmed, ReachInv, ReachOver
  PROVE  /\ \E e \in Considered : TopDag(top_values, initial) = W(e)
         /\ \A e \in Considered : W(e) <= TopDag(top_values, initial)
<1> DEFINE ans == TopDag(top_values, initial)
<1>1. \A s \in State : Component(s) \in Components /\ IsTop(Component(s), top_values[Component(s)])
  BY ReachFound DEF Components
<1>2. \A s \in State : top_values[Component(s)] \in Int
  BY <1>1 DEF IsTop
<1>3. PICK s \in State : ans = top_values[Component(s)]
  BY <1>2, TopDagIs
<1>4. \A t \in State : top_values[Component(t)] <= ans
  BY <1>2, TopDagIs
<1> HIDE DEF ans
<1>5. ASSUME NEW e \in Considered
      PROVE  W(e) <= ans
  <2>1. e.from \in State /\ e.from \in Component(e.from) /\ W(e) \in Int
    BY ConsideredFacts, ComponentFacts
  <2>2. W(e) <= top_values[Component(e.from)]
    BY <1>1, <2>1 DEF IsTop
  <2> QED
    BY <1>2, <1>3, <1>4, <2>1, <2>2
<1>6. \E e \in Considered : ans = W(e)
  <2>1. CASE ans = domain.min
    <3>1. PICK e \in edges : SameTag(e.from, e.to)
      BY WithinExists
    <3>2. e \in Considered
      BY <3>1 DEF Considered
    <3>3. W(e) \in Int /\ domain.min \in Int /\ domain.min <= W(e) /\ W(e) <= ans
      BY <1>5, <3>2, ConsideredFacts DEF Ready
    <3> QED
      BY <2>1, <3>2, <3>3
  <2>2. CASE ans # domain.min
    BY <1>1, <1>3, <2>2 DEF IsTop, WeightIn
  <2> QED
    BY <2>1, <2>2
<1> QED
  BY <1>5, <1>6 DEF ans

\* top_LimInf: the largest value of a state.
LEMMA LimInfAnswer ==
  ASSUME Ready, Trimmed, values \in [State -> Int]
  PROVE  /\ \/ TopDag(LimInfValues, initial) = domain.min
            \/ \E s \in State : TopDag(LimInfValues, initial) = values[s]
         /\ \A s \in State : values[s] <= TopDag(LimInfValues, initial)
         /\ TopDag(LimInfValues, initial) \in Int
<1> DEFINE V(C) == {values[s] : s \in C}
           S(C) == {domain.min} \cup V(C)
           tv == LimInfValues
<1>1. ASSUME NEW s \in State
      PROVE  /\ tv[Component(s)] \in Int
             /\ values[s] <= tv[Component(s)]
             /\ tv[Component(s)] = domain.min \/ \E t \in State : tv[Component(s)] = values[t]
  <2> DEFINE C == Component(s)
  <2>1. s \in C /\ C \in SUBSET State /\ C \in Components
    BY ComponentFacts
  <2>2. tv[C] = Max(S(C))
    BY <2>1 DEF LimInfValues
  <2>3. IsFiniteSet(C)
    BY <2>1, StateAssumption, FS_Subset
  <2> HIDE DEF C
  <2>4. IsFiniteSet(V(C))
    BY <2>3, FiniteImage
  <2>5. IsFiniteSet(S(C))
    <3>1. IsFiniteSet({domain.min})
      BY FS_Singleton
    <3> HIDE DEF V
    <3> QED
      BY <2>4, <3>1, FS_Union
  <2>6. S(C) \in SUBSET Int /\ S(C) # {} /\ values[s] \in S(C)
    BY <2>1 DEF Ready
  <2>7. \A x \in S(C) : x = domain.min \/ \E t \in State : x = values[t]
    BY <2>1
  <2> HIDE DEF S
  <2>8. Max(S(C)) \in S(C) /\ \A y \in S(C) : y <= Max(S(C))
    BY <2>5, <2>6, MaxExists
  <2> QED
    BY <2>2, <2>6, <2>7, <2>8 DEF C
<1> HIDE DEF tv
<1>2. PICK s \in State : TopDag(tv, initial) = tv[Component(s)]
  BY <1>1, TopDagIs
<1>3. \A t \in State : tv[Component(t)] <= TopDag(tv, initial)
  BY <1>1, TopDagIs
<1>4. \A t \in State : values[t] <= TopDag(tv, initial)
  BY <1>1, <1>2, <1>3
<1> QED
  BY <1>1, <1>2, <1>4 DEF tv

\* Where a run can stay on weights of x or more, it can do so in a component.
LEMMA StaysWithin ==
  ASSUME Ready, in_scc, NEW C \in SUBSET State, C # {}, NEW x \in Int,
         \A s \in C : \E e \in edges : e.from = s /\ e.to \in C /\ x <= W(e)
  PROVE  \E B \in SUBSET C : B # {} /\ Stays(B, x)
<1> DEFINE G == [s \in C |-> {t \in C : \E e \in edges : e.from = s /\ e.to = t /\ x <= W(e)}]
<1>1. IsGraph(G, C)
  BY DEF IsGraph
<1>2. IsFiniteSet(C)
  BY StateAssumption, FS_Subset
<1>3. \A s \in C, t \in C : t \in G[s] <=> \E e \in edges : e.from = s /\ e.to = t /\ x <= W(e)
  OBVIOUS
<1> HIDE DEF G
<1>4. PICK s \in C : \A t \in C : Reaches(G, s, t) => Reaches(G, t, s)
  BY <1>1, <1>2, BottomState
<1>5. ASSUME NEW t \in C, NEW u \in C, Reaches(G, t, u)
      PROVE  Reaches(succ, t, u)
  <2> SUFFICES ASSUME NEW A \in SUBSET State, t \in A, Closed(succ, A)
               PROVE  u \in A
    BY SuccIsGraph DEF Reaches, IsGraph
  <2>1. A \cap C \in SUBSET DOMAIN G /\ t \in A \cap C
    BY <1>1 DEF IsGraph
  <2>2. Closed(G, A \cap C)
    <3> SUFFICES ASSUME NEW w \in A \cap C, NEW z \in G[w]
                 PROVE  z \in A \cap C
      BY DEF Closed
    <3>1. z \in C
      BY <1>1 DEF IsGraph
    <3>2. PICK e \in edges : e.from = w /\ e.to = z
      BY <1>3, <3>1
    <3>3. z \in succ[w]
      BY <3>2, SuccHas
    <3> QED
      BY <3>1, <3>3 DEF Closed
  <2> QED
    BY <1>5, <2>1, <2>2 DEF Reaches
<1> DEFINE B == {t \in C : Reaches(G, s, t)}
<1>6. s \in B
  BY <1>1, ReachesItself
<1>7. ASSUME NEW t \in B
      PROVE  \E e \in Considered : e.from = t /\ e.to \in B /\ x <= W(e)
  <2>1. t \in C /\ Reaches(G, s, t)
    OBVIOUS
  <2>2. PICK e \in edges : e.from = t /\ e.to \in C /\ x <= W(e)
    BY <2>1
  <2>3. e.to \in G[t]
    BY <1>3, <2>1, <2>2
  <2>4. Reaches(G, t, e.to) /\ Reaches(G, s, e.to)
    BY <1>1, <2>1, <2>3, ReachesSuccessor, ReachesTransitive
  <2>5. Reaches(G, e.to, t)
    BY <1>1, <1>4, <2>1, <2>2, <2>4, ReachesTransitive
  <2>6. SameTag(t, e.to)
    BY <1>5, <2>1, <2>2, <2>4, <2>5 DEF SameTag, Mutual
  <2>7. e \in Considered
    BY <2>2, <2>6 DEF Considered
  <2> QED
    BY <2>2, <2>4, <2>7
<1>8. B \in SUBSET C /\ B # {} /\ Stays(B, x)
  BY <1>6, <1>7 DEF Stays
<1> QED
  BY <1>8

-----------------------------------------------------------------------------
(* The values by their definitions *)

Identity == [i \in Ids |-> i]

\* The automaton as its caller has it, and with its weights negated.
Restored ==
  /\ value = Weights
  /\ weights = Identity
  /\ domain = [min |-> MinDomain, max |-> MaxDomain]

Turned ==
  /\ value = Negated(Weights)
  /\ weights = Reverse(Identity)
  /\ domain = [min |-> -MaxDomain, max |-> -MinDomain]

\* The automaton is trimmed and complete.
GraphOK ==
  /\ edges \subseteq Edge
  /\ IsFiniteSet(edges)
  /\ \A s \in State : \A a \in Symbol : \E e \in edges : e.from = s /\ e.symbol = a
  /\ Trimmed
  /\ in_scc \in BOOLEAN

\* The weights lie in the domain and ascend with their ids.
LEMMA WeightsFacts ==
  /\ Ids = DOMAIN Weights
  /\ Ids \subseteq Int
  /\ MinDomain \in Int /\ MaxDomain \in Int
  /\ \A i \in Ids : Weights[i] \in Int /\ MinDomain <= Weights[i] /\ Weights[i] <= MaxDomain
  /\ \A i, j \in Ids : i <= j => Weights[i] <= Weights[j]
<1>1. Weights \in Seq(MinDomain .. MaxDomain) /\ MinDomain \in Int /\ MaxDomain \in Int
  BY WeightsAssumption
<1>2. Ids = DOMAIN Weights /\ Ids \subseteq Int
  BY <1>1 DEF Ids
<1>3. \A i \in Ids : Weights[i] \in MinDomain .. MaxDomain
  BY <1>1 DEF Ids
<1>4. \A i, j \in Ids : i < j => Weights[i] < Weights[j]
  BY WeightsAssumption
<1>5. \A i, j \in Ids : i <= j => i = j \/ i < j
  BY <1>2
<1>6. \A i \in Ids : Weights[i] \in Int /\ MinDomain <= Weights[i] /\ Weights[i] <= MaxDomain
  BY <1>1, <1>3
<1>7. \A i, j \in Ids : i <= j => Weights[i] <= Weights[j]
  <2> TAKE i, j \in Ids
  <2>1. Weights[i] \in Int /\ Weights[j] \in Int
    BY <1>6
  <2> QED
    BY <1>4, <1>5, <2>1
<1> QED
  BY <1>1, <1>2, <1>6, <1>7

\* An edge joins states and has one of the weights.
LEMMA EdgeFacts ==
  ASSUME GraphOK, NEW e \in edges
  PROVE  /\ e.from \in State /\ e.symbol \in Symbol /\ e.id \in Ids /\ e.to \in State
         /\ weightOf(e) = Weights[e.id] /\ weightOf(e) \in Int /\ weightOf(e) \in Values
         /\ MinDomain <= weightOf(e) /\ weightOf(e) <= MaxDomain
<1>1. e \in Edge
  BY DEF GraphOK
<1>2. e.from \in State /\ e.symbol \in Symbol /\ e.id \in Ids /\ e.to \in State
  BY <1>1 DEF Edge
<1> QED
  BY <1>2, WeightsFacts DEF weightOf, Values

\* With the weights as its caller has them the automaton is ready for both searches.
LEMMA RestoredReady ==
  ASSUME GraphOK, Restored
  PROVE  /\ Ready /\ Ascending
         /\ \A e \in edges : W(e) = weightOf(e)
<1>1. \A e \in edges : W(e) = weightOf(e)
  BY DEF W, weightOf, Restored
<1>2. domain.min = MinDomain /\ domain.max = MaxDomain
  BY DEF Restored
<1>3. Ready
  <2>1. domain.min \in Int /\ domain.max \in Int
    BY <1>2, WeightsFacts
  <2>2. \A e \in edges : /\ e.from \in State /\ e.symbol \in Symbol /\ e.to \in State
                         /\ WeightOK(W(e))
    BY <1>1, <1>2, EdgeFacts DEF WeightOK
  <2> QED
    BY <2>1, <2>2 DEF Ready, GraphOK
<1>4. Ascending
  <2> SUFFICES ASSUME NEW e \in edges, NEW d \in edges
               PROVE  e.id \in Int /\ (e.id <= d.id => W(e) <= W(d))
    BY DEF Ascending
  <2>1. e.id \in Ids /\ d.id \in Ids /\ W(e) = Weights[e.id] /\ W(d) = Weights[d.id]
    BY <1>1, EdgeFacts
  <2> QED
    BY <2>1, WeightsFacts
<1> QED
  BY <1>1, <1>3, <1>4

\* With negated weights it is ready for the search for the largest weight.
LEMMA TurnedReady ==
  ASSUME GraphOK, Turned
  PROVE  /\ Ready
         /\ \A e \in edges : W(e) = -weightOf(e)
<1>1. \A e \in edges : W(e) = -weightOf(e)
  <2> TAKE e \in edges
  <2>1. e.id \in DOMAIN Weights
    BY EdgeFacts, WeightsFacts
  <2> QED
    BY <2>1 DEF W, weightOf, Turned, Negated
<1>2. domain.min = -MaxDomain /\ domain.max = -MinDomain
  BY DEF Turned
<1>3. domain.min \in Int /\ domain.max \in Int
  BY <1>2, WeightsFacts
<1>4. ASSUME NEW e \in edges
      PROVE  /\ e.from \in State /\ e.symbol \in Symbol /\ e.to \in State
             /\ WeightOK(W(e))
  <2>1. /\ weightOf(e) \in Int /\ MinDomain <= weightOf(e) /\ weightOf(e) <= MaxDomain
        /\ MinDomain \in Int /\ MaxDomain \in Int
    BY EdgeFacts, WeightsFacts
  <2>2. WeightOK(W(e))
    BY <1>1, <1>2, <2>1 DEF WeightOK
  <2> QED
    BY <2>2, EdgeFacts
<1> QED
  BY <1>1, <1>3, <1>4 DEF Ready, GraphOK

\* The answer for Sup and LimSup is the largest weight of a considered edge.
LEMMA ReachTopIs ==
  ASSUME GraphOK, Restored, ReachInv, ReachOver,
         f \in {"Sup", "LimSup"}, in_scc = (f = "LimSup")
  PROVE  TopDag(top_values, initial) = TrueTop
<1> DEFINE ans == TopDag(top_values, initial)
           S == {weightOf(e) : e \in Considered}
<1>1. Ready /\ \A e \in edges : W(e) = weightOf(e)
  BY RestoredReady
<1>2. /\ \E e \in Considered : ans = W(e)
      /\ \A e \in Considered : W(e) <= ans
  BY <1>1, ReachAnswer DEF GraphOK
<1>3. Considered \subseteq edges
  BY <1>1, ConsideredFacts
<1>4. S \in SUBSET Int
  BY <1>3, EdgeFacts
<1>5. ans \in S /\ \A x \in S : x <= ans
  BY <1>1, <1>2, <1>3
<1>6. TrueTop = Max(S)
  <2>1. CASE f = "Sup"
    <3>1. Considered = edges
      BY <2>1 DEF Considered
    <3> QED
      BY <2>1, <3>1 DEF TrueTop, Averages, SupTop
  <2>2. CASE f = "LimSup"
    <3>1. Considered = Within
      BY <2>2 DEF Considered, Within
    <3> QED
      BY <2>2, <3>1 DEF TrueTop, Averages, LimSupTop
  <2> QED
    BY <2>1, <2>2
<1> HIDE DEF S, ans
<1>7. Max(S) = ans
  BY <1>4, <1>5, MaxIs
<1> QED
  BY <1>6, <1>7 DEF ans

\* For negated weights it is the smallest weight, negated.
LEMMA ReachBottomIs ==
  ASSUME GraphOK, Turned, ReachInv, ReachOver, Deterministic,
         f \in {"Inf", "LimInf"}, in_scc = (f = "LimInf")
  PROVE  -TopDag(top_values, initial) = TrueBottom
<1> DEFINE ans == TopDag(top_values, initial)
           S == {weightOf(e) : e \in Considered}
<1>1. Ready /\ \A e \in edges : W(e) = -weightOf(e)
  BY TurnedReady
<1>2. /\ \E e \in Considered : ans = W(e)
      /\ \A e \in Considered : W(e) <= ans
  BY <1>1, ReachAnswer DEF GraphOK
<1>3. Considered \subseteq edges
  BY <1>1, ConsideredFacts
<1>4. S \in SUBSET Int
  BY <1>3, EdgeFacts
<1>5. -ans \in S /\ \A x \in S : -ans <= x
  <2>1. \A e \in Considered : W(e) = -weightOf(e) /\ weightOf(e) \in Int
    BY <1>1, <1>3, EdgeFacts
  <2>2. PICK e \in Considered : ans = W(e)
    BY <1>2
  <2>3. -ans = weightOf(e)
    BY <2>1, <2>2
  <2>4. ASSUME NEW d \in Considered
        PROVE  -ans <= weightOf(d)
    <3>1. W(d) <= ans /\ W(d) = -weightOf(d) /\ weightOf(d) \in Int /\ ans = -weightOf(e) /\ weightOf(e) \in Int
      BY <1>2, <2>1, <2>2
    <3> HIDE DEF ans
    <3> QED
      BY <2>3, <3>1
  <2> QED
    BY <2>3, <2>4
<1>6. TrueBottom = Min(S)
  <2>1. CASE f = "Inf"
    <3>1. Considered = edges
      BY <2>1 DEF Considered
    <3> QED
      BY <2>1, <3>1 DEF TrueBottom, Averages, InfBottom
  <2>2. CASE f = "LimInf"
    <3>1. Considered = Within
      BY <2>2 DEF Considered, Within
    <3> QED
      BY <2>2, <3>1 DEF TrueBottom, Averages, LimInfBottom
  <2> QED
    BY <2>1, <2>2
<1> HIDE DEF S
<1>7. Min(S) = -ans
  <2>1. PICK m : m = -ans
    OBVIOUS
  <2> QED
    BY <1>4, <1>5, <2>1, MinIs
<1> QED
  BY <1>6, <1>7

\* The answer for Inf is the largest value of a set of states with the initial
\* one that runs can stay in.
LEMMA SafetyTopInf ==
  ASSUME GraphOK, Restored, SafetyInv, SafetyOver, f = "Inf", ~in_scc
  PROVE  values[initial] = TrueTop
<1> DEFINE X == {x \in Values : \E C \in SUBSET State : initial \in C /\
                    CanStay(C, AtLeast(x))}
           v == values[initial]
<1>1. Ready /\ \A e \in edges : W(e) = weightOf(e) /\ weightOf(e) \in Int
  BY RestoredReady, EdgeFacts
<1>2. Considered = edges
  BY DEF Considered
<1>3. \A s \in State : OutOf(s) # {}
  <2>1. PICK a \in Symbol : TRUE
    BY SymbolAssumption
  <2> QED
    BY <1>1, <1>2, <2>1 DEF Ready, OutOf
<1>4. /\ values \in [State -> Int]
      /\ \A C \in SUBSET State, x \in Int : Stays(C, x) => \A s \in C : x <= values[s]
      /\ \A s \in State :
           /\ \E e \in Considered : values[s] = W(e)
           /\ \E e \in OutOf(s) : values[s] <= W(e) /\ values[s] <= values[e.to]
  BY <1>1, <1>3, SafetyFound
<1>5. Values \subseteq Int
  BY WeightsFacts DEF Values
<1>6. v \in Int /\ v \in Values
  BY <1>1, <1>2, <1>4, EdgeFacts, InitialAssumption
<1>7. v \in X
  <2> DEFINE C == {s \in State : v <= values[s]}
  <2>1. initial \in C
    BY <1>6, InitialAssumption
  <2>2. ASSUME NEW s \in C
        PROVE  \E e \in edges : e.from = s /\ e.to \in C /\ weightOf(e) >= v
    <3>1. PICK e \in OutOf(s) : values[s] <= W(e) /\ values[s] <= values[e.to]
      BY <1>4
    <3>2. e \in edges /\ e.from = s /\ e.to \in State
      BY <1>2, EdgeFacts DEF OutOf
    <3>3. values[s] \in Int /\ values[e.to] \in Int /\ v <= values[s] /\ W(e) = weightOf(e) /\ weightOf(e) \in Int
      BY <1>1, <1>4, <3>2
    <3> HIDE DEF v
    <3> QED
      BY <1>6, <3>1, <3>2, <3>3 DEF C
  <2> HIDE DEF C
  <2>3. C \in SUBSET State
    BY DEF C
  <2>4. CanStay(C, AtLeast(v))
    BY <2>2 DEF CanStay, AtLeast
  <2> QED
    BY <1>6, <2>1, <2>3, <2>4
<1>8. ASSUME NEW x \in X
      PROVE  x <= v
  <2>1. PICK C \in SUBSET State : initial \in C /\ CanStay(C, AtLeast(x))
    OBVIOUS
  <2>2. x \in Int
    BY <1>5
  <2>3. Stays(C, x)
    <3>1. \A s \in C : \E e \in edges : e.from = s /\ e.to \in C /\ weightOf(e) >= x
      BY <2>1 DEF CanStay, AtLeast
    <3>2. \A e \in edges : weightOf(e) >= x => x <= W(e)
      BY <1>1, <2>2
    <3> QED
      BY <1>2, <3>1, <3>2 DEF Stays
  <2> QED
    BY <1>4, <2>1, <2>2, <2>3
<1>9. TrueTop = Max(X)
  BY DEF TrueTop, Averages, InfTop
<1>10. X \in SUBSET Int
  BY <1>5
<1> HIDE DEF X, v
<1>11. Max(X) = v
  BY <1>7, <1>8, <1>10, MaxIs
<1> QED
  BY <1>9, <1>11 DEF v

\* The answer for LimInf is the largest value of any set that runs can stay in.
LEMMA SafetyTopLimInf ==
  ASSUME GraphOK, Restored, SafetyInv, SafetyOver, f = "LimInf", in_scc
  PROVE  TopDag(LimInfValues, initial) = TrueTop
<1> DEFINE X == {x \in Values : \E C \in SUBSET State : C # {} /\
                    CanStay(C, AtLeast(x))}
           ans == TopDag(LimInfValues, initial)
<1>1. Ready /\ \A e \in edges : W(e) = weightOf(e) /\ weightOf(e) \in Int
  BY RestoredReady, EdgeFacts
<1>2. Considered \subseteq edges
  BY <1>1, ConsideredFacts
<1>4. /\ values \in [State -> Int]
      /\ \A C \in SUBSET State, x \in Int : Stays(C, x) => \A s \in C : x <= values[s]
      /\ \A s \in State : OutOf(s) = {} => values[s] = domain.min
      /\ \A s \in State : OutOf(s) # {} =>
           /\ \E e \in Considered : values[s] = W(e)
           /\ \E e \in OutOf(s) : values[s] <= W(e) /\ values[s] <= values[e.to] /\ OutOf(e.to) # {}
  BY <1>1, SafetyFound
<1>5. Values \subseteq Int
  BY WeightsFacts DEF Values
<1>6. /\ ans = domain.min \/ \E s \in State : ans = values[s]
      /\ \A s \in State : values[s] <= ans
      /\ ans \in Int
  BY <1>1, <1>4, LimInfAnswer DEF GraphOK
<1> HIDE DEF ans
<1>7. PICK s \in State : OutOf(s) # {} /\ ans = values[s]
  <2>1. CASE \E s \in State : OutOf(s) # {} /\ ans = values[s]
    BY <2>1
  <2>2. CASE \A s \in State : OutOf(s) # {} => ans # values[s]
    <3>1. ans = domain.min
      BY <1>4, <1>6, <2>2
    <3>2. PICK d \in edges : SameTag(d.from, d.to)
      BY <1>1, WithinExists
    <3>3. d \in Considered /\ d.from \in State
      BY <3>2, EdgeFacts DEF Considered
    <3>4. OutOf(d.from) # {}
      BY <3>3 DEF OutOf
    <3>5. PICK e \in Considered : values[d.from] = W(e)
      BY <1>4, <3>3, <3>4
    <3>6. domain.min <= values[d.from] /\ values[d.from] \in Int
      BY <1>1, <3>5, ConsideredFacts
    <3>7. values[d.from] = ans
      BY <1>6, <3>1, <3>3, <3>6
    <3> QED
      BY <2>2, <3>3, <3>4, <3>7
  <2> QED
    BY <2>1, <2>2
<1>8. ans \in Values
  BY <1>1, <1>2, <1>4, <1>7, EdgeFacts
<1>9. ans \in X
  <2> DEFINE C == {t \in State : OutOf(t) # {} /\ ans <= values[t]}
  <2>1. s \in C
    BY <1>6, <1>7
  <2>2. ASSUME NEW t \in C
        PROVE  \E e \in edges : e.from = t /\ e.to \in C /\ weightOf(e) >= ans
    <3>1. PICK e \in OutOf(t) : values[t] <= W(e) /\ values[t] <= values[e.to] /\ OutOf(e.to) # {}
      BY <1>4
    <3>2. e \in edges /\ e.from = t /\ e.to \in State
      BY <1>2, EdgeFacts DEF OutOf
    <3>3. values[t] \in Int /\ values[e.to] \in Int /\ ans <= values[t] /\ W(e) = weightOf(e) /\ weightOf(e) \in Int
      BY <1>1, <1>4, <3>2
    <3>4. ans <= values[e.to] /\ weightOf(e) >= ans
      BY <1>6, <3>1, <3>3
    <3> QED
      BY <3>1, <3>2, <3>4
  <2>3. C \in SUBSET State
    OBVIOUS
  <2> HIDE DEF C
  <2>4. CanStay(C, AtLeast(ans))
    BY <2>2 DEF CanStay, AtLeast
  <2> QED
    BY <1>8, <2>1, <2>3, <2>4
<1>10. ASSUME NEW x \in X
       PROVE  x <= ans
  <2>1. PICK C \in SUBSET State : C # {} /\ CanStay(C, AtLeast(x))
    OBVIOUS
  <2>2. x \in Int
    BY <1>5
  <2>3. \A t \in C : \E e \in edges : e.from = t /\ e.to \in C /\ x <= W(e)
    <3>1. \A t \in C : \E e \in edges : e.from = t /\ e.to \in C /\ weightOf(e) >= x
      BY <2>1 DEF CanStay, AtLeast
    <3>2. \A e \in edges : weightOf(e) >= x => x <= W(e)
      BY <1>1, <2>2
    <3> QED
      BY <3>1, <3>2
  <2>4. PICK B \in SUBSET C : B # {} /\ Stays(B, x)
    BY <1>1, <2>1, <2>2, <2>3, StaysWithin
  <2>5. PICK t \in B : TRUE
    BY <2>4
  <2>6. t \in State /\ x <= values[t] /\ values[t] \in Int
    BY <1>4, <2>2, <2>4
  <2> QED
    BY <1>6, <2>2, <2>6
<1>11. TrueTop = Max(X)
  BY DEF TrueTop, Averages, LimInfTop
<1>12. X \in SUBSET Int
  BY <1>5
<1> HIDE DEF X
<1>13. Max(X) = ans
  BY <1>9, <1>10, <1>12, MaxIs
<1> QED
  BY <1>11, <1>13 DEF ans

-----------------------------------------------------------------------------
(***************************************************************************)
(* top_LimAvg                                                              *)
(***************************************************************************)

\* Row next is made of row by one edge more.
Follows(row, next) ==
  \A t \in State :
    /\ next[t] # infinity =>
         \E e \in Within : e.to = t /\ row[e.from] # infinity /\ next[t] = row[e.from] - W(e)
    /\ \A e \in Within : e.to = t /\ row[e.from] # infinity =>
         next[t] # infinity /\ next[t] <= row[e.from] - W(e)

\* The rows of Karp's table.
Table ==
  /\ Len(distance) \in 1 .. size + 1
  /\ distance \in Seq([State -> Int])
  /\ \A s \in State : distance[1][s] \in {0, infinity}
  /\ \A C \in Components : \E s \in C : distance[1][s] = 0
  /\ \A n \in 1 .. Len(distance), s \in State :
       distance[n][s] = infinity \/ distance[n][s] <= -((n - 1) * domain.min)
  /\ \A n \in 1 .. Len(distance) - 1 : Follows(distance[n], distance[n + 1])

\* There are states, finitely many.
LEMMA SizeFacts == size \in Nat /\ size >= 1
<1>1. size \in Nat
  BY StateAssumption, FS_CardinalityType DEF size
<1>2. size # 0
  BY StateAssumption, InitialAssumption, FS_EmptySet DEF size
<1> QED
  BY <1>1, <1>2

\* No negated weight of a walk reaches what stands for none.
LEMMA InfinityAbove ==
  ASSUME domain.min \in Int, NEW n \in 0 .. size
  PROVE  infinity \in Int /\ 0 < infinity /\ n * domain.min \in Int /\ -(n * domain.min) < infinity
<1> DEFINE m == domain.min
           k == size
<1>1. k \in Nat /\ n \in Int /\ m \in Int /\ 0 <= n /\ n <= k
  BY SizeFacts
<1> HIDE DEF m, k
<1>2. k * m \in Int /\ n * m \in Int
  BY <1>1
<1>3. infinity = Max({1, -(k * m) + 1})
  BY DEF infinity, m, k
<1>4. infinity \in Int /\ 1 <= infinity /\ -(k * m) + 1 <= infinity
  <2> DEFINE b == -(k * m) + 1
  <2>1. b \in Int /\ 1 \in Int
    BY <1>2
  <2> HIDE DEF b
  <2>2. /\ Max({1, b}) \in Int /\ 1 <= Max({1, b}) /\ b <= Max({1, b})
    BY <2>1, MaxOfTwo
  <2>3. infinity = Max({1, b})
    BY <1>3 DEF b
  <2> QED
    BY <2>2, <2>3 DEF b
<1>5. CASE m >= 0
  <2>1. n * m >= 0
    BY <1>1, <1>5
  <2> QED
    BY <1>2, <1>4, <2>1 DEF m
<1>6. CASE m < 0
  <2>1. (k - n) * m <= 0
    BY <1>1, <1>6
  <2>2. (k - n) * m = k * m - n * m
    BY <1>1
  <2> QED
    BY <1>1, <1>2, <1>4, <2>1, <2>2 DEF m
<1> QED
  BY <1>1, <1>5, <1>6

\* The least of infinity and of finitely many smaller numbers is one of these,
\* if there is any.
LEMMA LeastOrInfinity ==
  ASSUME infinity \in Int, NEW S \in SUBSET Int, IsFiniteSet(S), \A x \in S : x < infinity
  PROVE  /\ S = {} => Min({infinity} \cup S) = infinity
         /\ S # {} => Min({infinity} \cup S) \in S /\ \A x \in S : Min({infinity} \cup S) <= x
<1> DEFINE T == {infinity} \cup S
<1>1. T \in SUBSET Int
  OBVIOUS
<1>2. ASSUME S = {}
      PROVE  Min(T) = infinity
  BY <1>2, MinIs
<1>3. ASSUME S # {}
      PROVE  Min(T) \in S /\ \A x \in S : Min(T) <= x
  <2>1. PICK m \in S : \A x \in S : m <= x
    BY <1>3, MinExists
  <2>2. m \in T /\ \A x \in T : m <= x
    BY <2>1
  <2>3. Min(T) = m
    BY <1>1, <2>2, MinIs
  <2> QED
    BY <2>1, <2>3
<1> QED
  BY <1>2, <1>3

\* What the next row has for t.
LEMMA LongerIs ==
  ASSUME Ready, NEW n \in 0 .. size - 1, NEW row \in [State -> Int],
         \A s \in State : row[s] = infinity \/ row[s] <= -(n * domain.min),
         NEW t \in State
  PROVE  /\ Longer(row, t) \in Int
         /\ Longer(row, t) = infinity \/ Longer(row, t) <= -((n + 1) * domain.min)
         /\ Longer(row, t) # infinity =>
              \E e \in Within : e.to = t /\ row[e.from] # infinity /\ Longer(row, t) = row[e.from] - W(e)
         /\ \A e \in Within : e.to = t /\ row[e.from] # infinity =>
              Longer(row, t) # infinity /\ Longer(row, t) <= row[e.from] - W(e)
<1> DEFINE I == {e \in Within : e.to = t /\ row[e.from] # infinity}
           g == [e \in edges |-> row[e.from] - W(e)]
           S == {g[e] : e \in I}
<1>1. I \in SUBSET edges /\ IsFiniteSet(I)
  BY FS_Subset DEF Ready, Within
<1>2. IsFiniteSet(S)
  BY <1>1, FiniteImage
<1>3. Longer(row, t) = Min({infinity} \cup S)
  <2>1. {d \in edges : d.to = t /\ SameTag(d.from, d.to) /\ row[d.from] # infinity} = I
    BY DEF Within
  <2>2. {row[e.from] - value[e.id] : e \in I} = S
    BY <1>1 DEF W
  <2> QED
    BY <2>1, <2>2 DEF Longer
<1>4. n + 1 \in 0 .. size /\ n \in Int
  BY SizeFacts
<1>5. /\ infinity \in Int /\ domain.min \in Int
      /\ (n + 1) * domain.min \in Int /\ -((n + 1) * domain.min) < infinity
  BY <1>4, InfinityAbove DEF Ready
<1>6. (n + 1) * domain.min = n * domain.min + domain.min /\ n * domain.min \in Int
  <2> DEFINE m == domain.min
  <2>1. m \in Int
    BY <1>5
  <2> HIDE DEF m
  <2>2. (n + 1) * m = n * m + m /\ n * m \in Int
    BY <1>4, <2>1
  <2> QED
    BY <2>2 DEF m
<1>7. \A e \in I : /\ g[e] = row[e.from] - W(e) /\ g[e] \in Int
                   /\ g[e] <= -((n + 1) * domain.min) /\ g[e] \in S
  <2> TAKE e \in I
  <2>1. e \in edges /\ e.from \in State /\ W(e) \in Int /\ domain.min <= W(e) /\ row[e.from] \in Int
    BY <1>1 DEF Ready, WeightOK
  <2>2. row[e.from] <= -(n * domain.min)
    BY <2>1
  <2>3. g[e] = row[e.from] - W(e) /\ g[e] \in S
    BY <2>1
  <2> HIDE DEF g, S
  <2> QED
    BY <1>5, <1>6, <2>1, <2>2, <2>3
<1>8. \A x \in S : \E e \in I : x = g[e]
  OBVIOUS
<1> HIDE DEF S, g
<1>9. S \in SUBSET Int /\ \A x \in S : x < infinity /\ x <= -((n + 1) * domain.min)
  BY <1>5, <1>7, <1>8
<1>10. /\ S = {} => Longer(row, t) = infinity
       /\ S # {} => Longer(row, t) \in S /\ \A x \in S : Longer(row, t) <= x
  <2>1. /\ S = {} => Min({infinity} \cup S) = infinity
        /\ S # {} => Min({infinity} \cup S) \in S /\ \A x \in S : Min({infinity} \cup S) <= x
    BY <1>2, <1>5, <1>9, LeastOrInfinity
  <2> QED
    BY <1>3, <2>1
<1>11. \A e \in Within : e.to = t /\ row[e.from] # infinity => e \in I
  OBVIOUS
<1>12. ASSUME S # {}
       PROVE  \E e \in I : Longer(row, t) = g[e]
  BY <1>8, <1>10, <1>12
<1>13. Longer(row, t) \in Int /\ (Longer(row, t) = infinity \/ Longer(row, t) <= -((n + 1) * domain.min))
  BY <1>5, <1>9, <1>10
<1>14. ASSUME Longer(row, t) # infinity
       PROVE  \E e \in Within : e.to = t /\ row[e.from] # infinity /\ Longer(row, t) = row[e.from] - W(e)
  <2>1. PICK e \in I : Longer(row, t) = g[e]
    BY <1>10, <1>12, <1>14
  <2> QED
    BY <1>7, <2>1
<1>15. ASSUME NEW e \in Within, e.to = t, row[e.from] # infinity
       PROVE  Longer(row, t) # infinity /\ Longer(row, t) <= row[e.from] - W(e)
  <2>1. e \in I
    BY <1>15
  <2>2. g[e] \in S /\ g[e] = row[e.from] - W(e)
    BY <1>7, <2>1
  <2>3. Longer(row, t) \in S /\ Longer(row, t) <= g[e]
    BY <1>10, <2>2
  <2> QED
    BY <1>5, <1>9, <2>2, <2>3
<1> QED
  BY <1>13, <1>14, <1>15

\* The table stays as long as the graph and the rows do.
LEMMA TableKept ==
  ASSUME UNCHANGED <<edges, value, domain, distance>>
  PROVE  Table' = Table
<1>1. succ' = succ
  BY DEF succ
<1>2. \A s, t : SameTag(s, t)' = SameTag(s, t)
  BY <1>1 DEF SameTag
<1>3. Within' = Within
  BY <1>2 DEF Within
<1>4. Components' = Components
  BY <1>2 DEF Components, Component
<1>5. infinity' = infinity
  BY DEF infinity, size
<1>6. \A e : W(e)' = W(e)
  BY DEF W
<1>7. \A r, s : Follows(r, s)' = Follows(r, s)
  BY <1>3, <1>5, <1>6 DEF Follows
<1>8. size' = size
  BY DEF size
<1> QED
  BY <1>3, <1>4, <1>5, <1>7, <1>8 DEF Table

\* The first row has 0 at the origin of each component, and nothing elsewhere.
LEMMA TableStarts ==
  ASSUME Ready, KarpStart, UNCHANGED <<edges, value, domain>>
  PROVE  Table'
<1>1. PICK origins \in [Components -> State] :
        /\ \A C \in Components : origins[C] \in C
        /\ distance' = <<[s \in State |-> IF \E C \in Components : origins[C] = s THEN 0 ELSE infinity]>>
  BY DEF KarpStart
<1> DEFINE row == [s \in State |-> IF \E C \in Components : origins[C] = s THEN 0 ELSE infinity]
<1>2. infinity \in Int /\ 0 < infinity /\ size \in Nat /\ size >= 1 /\ 0 * domain.min = 0
  <2>1. 0 \in 0 .. size
    BY SizeFacts
  <2> QED
    BY <2>1, SizeFacts, InfinityAbove DEF Ready
<1>3. row \in [State -> Int] /\ \A s \in State : row[s] \in {0, infinity}
  BY <1>2
<1>4. \A C \in Components : \E s \in C : row[s] = 0
  <2> TAKE C \in Components
  <2>1. origins[C] \in C /\ origins[C] \in State
    BY <1>1
  <2>2. row[origins[C]] = 0
    BY <2>1
  <2> QED
    BY <2>1, <2>2
<1> HIDE DEF row
<1>5. distance' = <<row>>
  BY <1>1 DEF row
<1>6. /\ size' = size /\ domain' = domain /\ infinity' = infinity /\ Components' = Components
  <2>1. succ' = succ
    BY DEF succ
  <2> QED
    BY <2>1 DEF size, infinity, Components, Component, SameTag
<1>7. Len(distance') = 1 /\ distance' \in Seq([State -> Int]) /\ distance'[1] = row
  BY <1>3, <1>5
<1>8. \A n \in 1 .. Len(distance'), s \in State :
        distance'[n][s] = infinity' \/ distance'[n][s] <= -((n - 1) * domain'.min)
  <2> TAKE n \in 1 .. Len(distance'), s \in State
  <2>1. n = 1 /\ (n - 1) * domain.min = 0
    BY <1>2, <1>7
  <2>2. row[s] \in {0, infinity}
    BY <1>3
  <2>3. row[s] = infinity \/ row[s] <= -0
    BY <2>2
  <2> QED
    BY <1>6, <1>7, <2>1, <2>3
<1>9. (\A n \in 1 .. Len(distance) - 1 : Follows(distance[n], distance[n + 1]))'
  BY <1>7
<1>10. Len(distance') \in 1 .. size' + 1
  BY <1>2, <1>6, <1>7
<1>11. /\ \A s \in State : distance'[1][s] \in {0, infinity'}
       /\ \A C \in Components' : \E s \in C : distance'[1][s] = 0
  BY <1>3, <1>4, <1>6, <1>7
<1> QED
  BY <1>7, <1>8, <1>9, <1>10, <1>11 DEF Table

\* A row is put on.
LEMMA TableGrows ==
  ASSUME Ready, Table, KarpRow
  PROVE  Table'
<1> DEFINE n == Len(distance)
           row == distance[n]
           next == [t \in State |-> Longer(row, t)]
<1>1. n \in Nat /\ n >= 1 /\ n <= size /\ size \in Nat /\ n - 1 \in 0 .. size - 1
  BY SizeFacts DEF Table, KarpRow
<1>2. row \in [State -> Int]
  BY <1>1 DEF Table
<1>3. \A s \in State : row[s] = infinity \/ row[s] <= -((n - 1) * domain.min)
  BY <1>1 DEF Table
<1>4. \A t \in State :
        /\ Longer(row, t) \in Int
        /\ Longer(row, t) = infinity \/ Longer(row, t) <= -((n - 1 + 1) * domain.min)
        /\ Longer(row, t) # infinity =>
             \E e \in Within : e.to = t /\ row[e.from] # infinity /\ Longer(row, t) = row[e.from] - W(e)
        /\ \A e \in Within : e.to = t /\ row[e.from] # infinity =>
             Longer(row, t) # infinity /\ Longer(row, t) <= row[e.from] - W(e)
  <2> DEFINE k == n - 1
  <2>1. k \in 0 .. size - 1 /\ \A s \in State : row[s] = infinity \/ row[s] <= -(k * domain.min)
    BY <1>1, <1>3
  <2> HIDE DEF k, row
  <2>2. \A t \in State :
        /\ Longer(row, t) \in Int
        /\ Longer(row, t) = infinity \/ Longer(row, t) <= -((k + 1) * domain.min)
        /\ Longer(row, t) # infinity =>
             \E e \in Within : e.to = t /\ row[e.from] # infinity /\ Longer(row, t) = row[e.from] - W(e)
        /\ \A e \in Within : e.to = t /\ row[e.from] # infinity =>
             Longer(row, t) # infinity /\ Longer(row, t) <= row[e.from] - W(e)
    BY <1>2, <2>1, LongerIs
  <2> QED
    BY <2>2 DEF k
<1>5. next \in [State -> Int] /\ \A t \in State : next[t] = Longer(row, t)
  BY <1>4
<1>6. Follows(row, next)
  BY <1>4, <1>5 DEF Follows
<1>7. n - 1 + 1 = n /\ distance \in Seq([State -> Int])
  BY <1>1 DEF Table
<1>8. \A t \in State : next[t] = infinity \/ next[t] <= -(n * domain.min)
  BY <1>4, <1>5, <1>7
<1>9. distance' = Append(distance, next) /\ UNCHANGED <<edges, value, domain>>
  <2>1. Last(distance) = distance[Len(distance)]
    BY DEF Last
  <2> QED
    BY <2>1 DEF KarpRow, graphVars
<1> HIDE DEF n, row, next
<1>10. /\ distance' \in Seq([State -> Int]) /\ Len(distance') = n + 1
       /\ \A i \in 1 .. n : distance'[i] = distance[i]
       /\ distance'[n + 1] = next
  BY <1>5, <1>7, <1>9 DEF n
<1>11. /\ size' = size /\ domain' = domain /\ infinity' = infinity /\ Components' = Components
       /\ Within' = Within /\ \A e : W(e)' = W(e)
  <2>1. succ' = succ /\ edges' = edges
    BY <1>9 DEF succ
  <2>2. \A s, t : SameTag(s, t)' = SameTag(s, t)
    BY <2>1 DEF SameTag
  <2>3. Within' = Within
    BY <2>1, <2>2 DEF Within
  <2>4. infinity' = infinity /\ size' = size /\ domain' = domain
    BY <1>9 DEF infinity, size
  <2>5. \A e : W(e)' = W(e)
    BY <1>9 DEF W
  <2>6. Components' = Components
    BY <2>2 DEF Components, Component
  <2> QED
    BY <2>3, <2>4, <2>5, <2>6
<1>12. Len(distance') \in 1 .. size' + 1
  BY <1>1, <1>10, <1>11
<1>13. /\ \A s \in State : distance'[1][s] \in {0, infinity'}
       /\ \A C \in Components' : \E s \in C : distance'[1][s] = 0
  <2>1. distance'[1] = distance[1]
    BY <1>1, <1>10
  <2> QED
    BY <1>11, <2>1 DEF Table
<1>14. \A i \in 1 .. Len(distance'), s \in State :
         distance'[i][s] = infinity' \/ distance'[i][s] <= -((i - 1) * domain'.min)
  <2> TAKE i \in 1 .. Len(distance'), s \in State
  <2>1. CASE i = n + 1
    <3>1. i - 1 = n
      BY <1>1, <2>1
    <3> QED
      BY <1>8, <1>10, <1>11, <2>1, <3>1
  <2>2. CASE i # n + 1
    <3>1. i \in 1 .. n
      BY <1>1, <1>10, <2>2
    <3>2. distance[i][s] = infinity \/ distance[i][s] <= -((i - 1) * domain.min)
      BY <3>1 DEF Table, n
    <3> QED
      BY <1>10, <1>11, <3>1, <3>2
  <2> QED
    BY <2>1, <2>2
<1>15. (\A i \in 1 .. Len(distance) - 1 : Follows(distance[i], distance[i + 1]))'
  <2> SUFFICES ASSUME NEW i \in 1 .. n
               PROVE  Follows(distance[i], distance[i + 1])'
    BY <1>1, <1>10
  <2> DEFINE r == distance'[i]
             s == distance'[i + 1]
  <2>1. Follows(r, s)
    <3>1. CASE i = n
      <4>1. r = row /\ s = next
        BY <1>10, <3>1 DEF row
      <4> QED
        BY <1>6, <4>1
    <3>2. CASE i # n
      <4>1. i \in 1 .. n - 1 /\ i + 1 \in 1 .. n
        BY <1>1, <3>2
      <4>2. Follows(distance[i], distance[i + 1])
        BY <4>1 DEF Table, n
      <4> QED
        BY <1>10, <4>1, <4>2
    <3> QED
      BY <3>1, <3>2
  <2> QED
    BY <1>11, <2>1 DEF Follows
<1> QED
  BY <1>10, <1>12, <1>13, <1>14, <1>15 DEF Table

-----------------------------------------------------------------------------
(* Sums along walks *)

\* What a walk weighs.
Along(w) == [j \in DOMAIN w |-> weightOf(w[j])]

\* The fold that MeanOf takes the mean of is the sum of the weights.
LEMMA FoldIsSum ==
  ASSUME NEW k \in Nat, NEW w, DOMAIN w = 1 .. k, \A j \in 1 .. k : weightOf(w[j]) \in Int
  PROVE  FoldSeq(LAMBDA e, sum : sum + weightOf(e), 0, w) = SumFunctionOnSet(Along(w), 1 .. k)
<1> DEFINE S == 1 .. k
           g == Along(w)
           Folds(h) == h = [s \in SUBSET S |-> IF s = {} THEN 0 ELSE h[s \ {Chosen(s)}] + weightOf(w[Chosen(s)])]
<1>1. IsFiniteSet(S) /\ \A x \in S : g[x] = weightOf(w[x]) /\ g[x] \in Int
  BY FS_Interval DEF Along
<1> HIDE DEF g, S
<1>2. ASSUME NEW h, Adds(h, g, S)
      PROVE  \A U \in SUBSET S : h[U] \in Int
  <2> DEFINE T == {U \in SUBSET S : h[U] \in Int}
  <2>1. ASSUME NEW U \in SUBSET S, \A x \in U : U \ {x} \in T
        PROVE  U \in T
    <3>1. CASE U = {}
      <4>1. h[U] = 0
        BY <1>2, <3>1, AddsValues
      <4> QED
        BY <4>1
    <3>2. CASE U # {}
      <4>1. Chosen(U) \in U /\ h[U] = g[Chosen(U)] + h[U \ {Chosen(U)}]
        BY <1>2, <3>2, AddsValues
      <4>2. U \ {Chosen(U)} \in T
        BY <2>1, <4>1
      <4> QED
        BY <1>1, <4>1, <4>2
    <3> QED
      BY <3>1, <3>2
  <2> HIDE DEF T
  <2> SUFFICES ASSUME NEW U \in SUBSET S PROVE U \in T
    BY DEF T
  <2>2. IsFiniteSet(U)
    BY <1>1, FS_Subset
  <2>3. \A V \in SUBSET U : (\A x \in V : V \ {x} \in T) => V \in T
    BY <2>1
  <2> QED
    BY <2>2, <2>3, FiniteDescent
<1>3. \E h : Folds(h)
  <2>1. PICK h : Adds(h, g, S)
    BY <1>1, AddsExists
  <2>2. \A U \in SUBSET S : h[U] = IF U = {} THEN 0 ELSE h[U \ {Chosen(U)}] + weightOf(w[Chosen(U)])
    <3> TAKE U \in SUBSET S
    <3>1. CASE U = {}
      BY <2>1, <3>1, AddsValues
    <3>2. CASE U # {}
      <4>1. Chosen(U) \in U /\ h[U] = g[Chosen(U)] + h[U \ {Chosen(U)}]
        BY <2>1, <3>2, AddsValues
      <4>2. h[U \ {Chosen(U)}] \in Int /\ g[Chosen(U)] \in Int /\ g[Chosen(U)] = weightOf(w[Chosen(U)])
        BY <1>1, <1>2, <2>1, <4>1
      <4> QED
        BY <3>2, <4>1, <4>2
    <3> QED
      BY <3>1, <3>2
  <2>3. h = [s \in SUBSET S |-> h[s]]
    BY <2>1 DEF Adds
  <2>4. Folds(h)
    BY <2>2, <2>3
  <2> QED
    BY <2>4
<1> DEFINE F == CHOOSE h : Folds(h)
<1>4. Folds(F)
  BY <1>3
<1>5. FoldSeq(LAMBDA e, sum : sum + weightOf(e), 0, w) = F[S]
  BY DEF S, FoldSeq, FoldFunction, FoldFunctionOnSet, MapThenFoldSet, Chosen
<1> HIDE DEF F
<1>6. Grows(F, g, S)
  <2>1. \A U \in SUBSET S : F[U] = IF U = {} THEN 0 ELSE F[U \ {Chosen(U)}] + weightOf(w[Chosen(U)])
    BY <1>4
  <2>2. F[{}] = 0
    BY <2>1
  <2>3. \A U \in SUBSET S : U # {} => Chosen(U) \in U
    BY DEF Chosen
  <2> DEFINE T == {U \in SUBSET S : F[U] \in Int}
  <2>4. ASSUME NEW U \in SUBSET S, \A x \in U : U \ {x} \in T
        PROVE  U \in T
    <3>1. CASE U = {}
      BY <2>2, <3>1
    <3>2. CASE U # {}
      <4>1. Chosen(U) \in U /\ F[U] = F[U \ {Chosen(U)}] + weightOf(w[Chosen(U)])
        BY <2>1, <2>3, <3>2
      <4>2. U \ {Chosen(U)} \in T
        BY <2>4, <4>1
      <4> QED
        BY <1>1, <4>1, <4>2
    <3> QED
      BY <3>1, <3>2
  <2> HIDE DEF T
  <2>5. \A U \in SUBSET S : F[U] \in Int
    <3> SUFFICES ASSUME NEW U \in SUBSET S PROVE U \in T
      BY DEF T
    <3>1. IsFiniteSet(U)
      BY <1>1, FS_Subset
    <3>2. \A V \in SUBSET U : (\A x \in V : V \ {x} \in T) => V \in T
      BY <2>4
    <3> QED
      BY <3>1, <3>2, FiniteDescent
  <2>6. ASSUME NEW U \in SUBSET S, U # {}
        PROVE  \E x \in U : F[U] = g[x] + F[U \ {x}]
    <3>1. Chosen(U) \in U /\ F[U] = F[U \ {Chosen(U)}] + weightOf(w[Chosen(U)])
      BY <2>1, <2>3, <2>6
    <3>2. F[U \ {Chosen(U)}] \in Int /\ g[Chosen(U)] \in Int /\ g[Chosen(U)] = weightOf(w[Chosen(U)])
      BY <1>1, <2>5, <3>1
    <3>3. F[U] = g[Chosen(U)] + F[U \ {Chosen(U)}]
      BY <3>1, <3>2
    <3> QED
      BY <3>1, <3>3
  <2> QED
    BY <1>1, <2>2, <2>6 DEF Grows
<1>7. SumFunctionOnSet(g, S) = F[S]
  BY <1>1, <1>6, SumIs
<1> QED
  BY <1>5, <1>7 DEF g, S
-----------------------------------------------------------------------------
(* What the table says of walks *)

\* The least weight of a negated walk of n edges to t, where there is one.
Least(n, t) == distance[n + 1][t]
Fin(n, t) == Least(n, t) # infinity

\* The table is complete, row by row.
Rows ==
  /\ \A n \in 0 .. size, t \in State : Least(n, t) \in Int
  /\ \A n \in 1 .. size, t \in State : Fin(n, t) =>
       \E e \in Within : e.to = t /\ Fin(n - 1, e.from) /\ Least(n, t) = Least(n - 1, e.from) - W(e)
  /\ \A n \in 1 .. size : \A e \in Within : Fin(n - 1, e.from) =>
       Fin(n, e.to) /\ Least(n, e.to) <= Least(n - 1, e.from) - W(e)
  /\ \A s \in State : \E o \in State : SameTag(s, o) /\ Fin(0, o)

\* When Karp's algorithm is over it is.
LEMMA TableRows ==
  ASSUME Ready, Table, KarpOver
  PROVE  Rows
<1>1. size \in Nat /\ size >= 1 /\ Len(distance) = size + 1 /\ distance \in Seq([State -> Int])
  BY SizeFacts DEF KarpOver, Table
<1>2. \A n \in 0 .. size, t \in State : Least(n, t) \in Int
  <2> TAKE n \in 0 .. size, t \in State
  <2>1. n + 1 \in 1 .. Len(distance)
    BY <1>1
  <2>2. distance[n + 1] \in [State -> Int]
    BY <1>1, <2>1
  <2> QED
    BY <2>2 DEF Least
<1>3. \A n \in 1 .. size : Follows(distance[n - 1 + 1], distance[n + 1])
  <2> TAKE n \in 1 .. size
  <2>1. n \in 1 .. Len(distance) - 1 /\ n - 1 + 1 = n
    BY <1>1
  <2> QED
    BY <2>1 DEF Table
<1>4. \A e \in Within : e \in edges /\ e.from \in State /\ e.to \in State
  BY DEF Within, Ready
<1>5. \A n \in 1 .. size, t \in State : Fin(n, t) =>
        \E e \in Within : e.to = t /\ Fin(n - 1, e.from) /\ Least(n, t) = Least(n - 1, e.from) - W(e)
  BY <1>3 DEF Follows, Fin, Least
<1>6. \A n \in 1 .. size : \A e \in Within : Fin(n - 1, e.from) =>
        Fin(n, e.to) /\ Least(n, e.to) <= Least(n - 1, e.from) - W(e)
  BY <1>3, <1>4 DEF Follows, Fin, Least
<1>7. \A s \in State : \E o \in State : SameTag(s, o) /\ Fin(0, o)
  <2> TAKE s \in State
  <2>1. Component(s) \in Components
    BY DEF Components
  <2>2. PICK o \in Component(s) : distance[1][o] = 0
    BY <2>1 DEF Table
  <2>3. 0 \in 0 .. size
    BY <1>1
  <2>4. infinity \in Int /\ 0 < infinity
    BY <2>3, InfinityAbove DEF Ready
  <2>5. o \in State /\ SameTag(s, o)
    BY DEF Component
  <2>6. Fin(0, o)
    BY <2>2, <2>4 DEF Fin, Least
  <2> QED
    BY <2>5, <2>6
<1> QED
  BY <1>2, <1>5, <1>6, <1>7 DEF Rows

\* What a walk weighs, as the automaton is now.
Load(w) == [j \in DOMAIN w |-> W(w[j])]
Total(w) == SumFunctionOnSet(Load(w), DOMAIN w)

\* A cycle of n edges.
CycleOf(w, n) ==
  /\ w \in [1 .. n -> edges]
  /\ \A j \in 1 .. n - 1 : w[j].to = w[j + 1].from
  /\ w[n].to = w[1].from

\* The cycles are those of at most as many edges as there are states.
LEMMA CyclesAre == \A w : w \in Cycles <=> \E n \in 1 .. size : CycleOf(w, n)
BY DEF Cycles, CycleOf

\* The best way to t of n edges goes by e.
BestBy(n, t, e) == e \in Within /\ e.to = t /\ Fin(n - 1, e.from) /\ Least(n, t) = Least(n - 1, e.from) - W(e)

\* v and w are the states and the edges of a best way of all lengths to s.
BestWay(v, w, s) ==
  /\ v \in [0 .. size -> State] /\ v[size] = s /\ Fin(0, v[0])
  /\ \A n \in 1 .. size : Fin(n, v[n]) /\ BestBy(n, v[n], w[n]) /\ w[n].from = v[n - 1]

\* Where the last row has a walk there is such a way.
LEMMA BestWayExists ==
  ASSUME Ready, Rows, NEW s \in State, Fin(size, s)
  PROVE  \E v, w : BestWay(v, w, s)
<1> DEFINE N == size
           e(n, t) == CHOOSE d : BestBy(n, t, d)
           back(k, t) == IF Fin(N - k + 1, t) THEN e(N - k + 1, t).from ELSE t
           backstep == [x \in (1 .. N) \X State |-> back(x[1], x[2])]
<1>1. N \in Nat /\ N >= 1
  BY SizeFacts
<1>2. ASSUME NEW n \in 1 .. N, NEW t \in State, Fin(n, t)
      PROVE  BestBy(n, t, e(n, t)) /\ e(n, t).from \in State
  <2>1. \E d : BestBy(n, t, d)
    BY <1>2 DEF Rows, BestBy
  <2>2. BestBy(n, t, e(n, t))
    BY <2>1
  <2> HIDE DEF e
  <2> QED
    BY <2>2 DEF BestBy, Within, Ready
<1> HIDE DEF e, N
<1>3. backstep \in [(1 .. N) \X State -> State]
  <2>1. ASSUME NEW k \in 1 .. N, NEW t \in State
        PROVE  back(k, t) \in State
    <3>1. N - k + 1 \in 1 .. N
      BY <1>1
    <3> QED
      BY <1>2, <3>1
  <2> QED
    BY <2>1
<1>4. PICK h : Iterates(h, N, State, s, backstep)
  BY <1>1, <1>3, Recursion
<1>5. h \in [0 .. N -> State] /\ h[0] = s
  BY <1>4 DEF Iterates
<1>6. \A k \in 1 .. N : h[k] = back(k, h[k - 1])
  <2> TAKE k \in 1 .. N
  <2>1. h[k - 1] \in State
    BY <1>1, <1>5
  <2>2. h[k] = backstep[<<k, h[k - 1]>>]
    BY <1>4 DEF Iterates
  <2> QED
    BY <2>1, <2>2
<1> HIDE DEF backstep
<1> DEFINE T == {k \in 0 .. N : Fin(N - k, h[k])}
<1>7. 0 \in T
  BY <1>1, <1>5 DEF N
<1>8. ASSUME NEW k \in 0 .. N - 1, k \in T
      PROVE  k + 1 \in T
  <2> DEFINE n == N - k
  <2>1. n \in 1 .. N /\ N - (k + 1) + 1 = n /\ n - 1 = N - (k + 1) /\ k + 1 \in 1 .. N /\ k + 1 - 1 = k
        /\ k \in 0 .. N /\ k + 1 \in 0 .. N
    BY <1>1
  <2>2. Fin(n, h[k]) /\ h[k] \in State
    BY <1>5, <1>8, <2>1
  <2>3. h[k + 1] = e(n, h[k]).from
    BY <1>6, <2>1, <2>2
  <2>4. Fin(n - 1, h[k + 1])
    BY <1>2, <2>1, <2>2, <2>3 DEF BestBy
  <2> QED
    BY <2>1, <2>4
<1> HIDE DEF T
<1>9. 0 .. N \subseteq T
  BY <1>1, <1>7, <1>8, BoundedInduction
<1> DEFINE v == [n \in 0 .. N |-> h[N - n]]
           w == [n \in 1 .. N |-> e(n, v[n])]
<1>10. v \in [0 .. N -> State] /\ v[N] = s
  <2>1. \A n \in 0 .. N : N - n \in 0 .. N
    BY <1>1
  <2>2. N \in 0 .. N /\ N - N = 0
    BY <1>1
  <2> QED
    BY <1>5, <2>1, <2>2
<1>11. \A n \in 0 .. N : Fin(n, v[n])
  <2> TAKE n \in 0 .. N
  <2>1. N - n \in 0 .. N /\ N - (N - n) = n
    BY <1>1
  <2>2. N - n \in T
    BY <1>9, <2>1
  <2> QED
    BY <2>1, <2>2 DEF T
<1>12. \A n \in 1 .. N : BestBy(n, v[n], w[n]) /\ w[n].from = v[n - 1]
  <2> TAKE n \in 1 .. N
  <2>1. /\ n \in 0 .. N /\ n - 1 \in 0 .. N /\ N - n + 1 \in 1 .. N /\ N - n + 1 - 1 = N - n
        /\ N - (N - n + 1) + 1 = n /\ N - (n - 1) = N - n + 1
    BY <1>1
  <2>2. v[n] = h[N - n] /\ v[n - 1] = h[N - n + 1] /\ v[n] \in State /\ Fin(n, v[n])
    BY <1>10, <1>11, <2>1
  <2>3. BestBy(n, v[n], w[n]) /\ w[n] = e(n, v[n])
    BY <1>2, <2>2
  <2> DEFINE k == N - n + 1
  <2>4. k \in 1 .. N /\ k - 1 = N - n /\ N - k + 1 = n
    BY <1>1
  <2> HIDE DEF k
  <2>5. h[k] = back(k, h[N - n])
    BY <1>6, <2>4
  <2>6. h[k] = IF Fin(n, h[N - n]) THEN e(n, h[N - n]).from ELSE h[N - n]
    BY <2>4, <2>5
  <2>7. h[N - n + 1] = e(n, v[n]).from
    BY <2>2, <2>6 DEF k
  <2> QED
    BY <2>2, <2>3, <2>7
<1> HIDE DEF v, w
<1>13. BestWay(v, w, s)
  <2>1. 0 \in 0 .. N /\ \A n \in 1 .. N : n \in 0 .. N
    BY <1>1
  <2> QED
    BY <1>10, <1>11, <1>12, <2>1 DEF BestWay, N
<1> QED
  BY <1>13

\* Where the last row has a walk there is a shorter one, the difference being
\* no more than what some cycle of the missing edges weighs.
LEMMA CycleLeftOut ==
  ASSUME Ready, Rows, NEW s \in State, Fin(size, s)
  PROVE  \E n \in 1 .. size : \E w :
           CycleOf(w, n) /\ Fin(size - n, s) /\ Least(size - n, s) <= Least(size, s) + Total(w)
<1> DEFINE N == size
<1>1. N \in Nat /\ N >= 1
  BY SizeFacts
<1>2. PICK v, w : BestWay(v, w, s)
  BY BestWayExists
<1>3. \E a, b \in 0 .. N : a < b /\ v[a] = v[b]
  <2>1. IsFiniteSet(0 .. N) /\ Cardinality(0 .. N) = N + 1
    BY <1>1, FS_Interval
  <2>2. IsFiniteSet(State) /\ Cardinality(State) < Cardinality(0 .. N)
    BY <1>1, <2>1, StateAssumption DEF size
  <2>3. v \in [0 .. N -> State]
    BY <1>2 DEF BestWay
  <2>4. PICK x, y \in 0 .. N : x # y /\ v[x] = v[y]
    BY <2>1, <2>2, <2>3, FS_PigeonHole
  <2>5. x < y \/ y < x
    BY <1>1, <2>4
  <2> QED
    BY <2>4, <2>5
<1>4. PICK a, b \in 0 .. N : a < b /\ v[a] = v[b]
  BY <1>3
<1> HIDE DEF N
<1> DEFINE k == b - a
           u == [j \in 1 .. k |-> w[a + j]]
<1>5. k \in 1 .. N /\ a \in Int /\ b \in Int /\ 0 <= a /\ b <= N /\ a + k = b /\ N - k \in 0 .. N /\ N \in Nat
  BY <1>1, <1>4
<1> HIDE DEF k
<1>6. \A n \in 1 .. N :
        /\ Fin(n, v[n]) /\ w[n] \in Within /\ w[n].to = v[n] /\ w[n].from = v[n - 1]
        /\ Fin(n - 1, v[n - 1]) /\ Least(n, v[n]) = Least(n - 1, v[n - 1]) - W(w[n])
  BY <1>2 DEF BestWay, BestBy, N
<1>7. \A n \in 0 .. N : v[n] \in State /\ Least(n, v[n]) \in Int
  BY <1>2 DEF BestWay, Rows, N
<1>8. \A e \in Within : e \in edges /\ W(e) \in Int
  BY DEF Within, Ready, WeightOK
<1>9. CycleOf(u, k)
  <2>1. \A j \in 1 .. k : a + j \in 1 .. N /\ u[j] = w[a + j]
    BY <1>5
  <2>2. u \in [1 .. k -> edges]
    BY <1>6, <1>8, <2>1
  <2>3. \A j \in 1 .. k - 1 : u[j].to = u[j + 1].from
    <3> TAKE j \in 1 .. k - 1
    <3>1. j \in 1 .. k /\ j + 1 \in 1 .. k /\ a + (j + 1) - 1 = a + j
      BY <1>5
    <3> QED
      BY <1>6, <2>1, <3>1
  <2>4. u[k].to = u[1].from
    <3>1. 1 \in 1 .. k /\ k \in 1 .. k /\ a + 1 - 1 = a
      BY <1>5
    <3>2. u[k].to = v[b] /\ u[1].from = v[a]
      BY <1>5, <1>6, <2>1, <3>1
    <3> QED
      BY <1>4, <3>2
  <2> HIDE DEF u
  <2> QED
    BY <2>2, <2>3, <2>4 DEF CycleOf
<1>10. Total(u) = Least(a, v[a]) - Least(b, v[b])
  <2> DEFINE q == [j \in 0 .. k |-> -Least(a + j, v[a + j])]
             g == Load(u)
  <2>1. DOMAIN u = 1 .. k /\ k \in Nat
    BY <1>5
  <2>2. \A j \in 1 .. k : g[j] = W(w[a + j])
    BY <1>5 DEF Load
  <2>3. \A j \in 0 .. k : a + j \in 0 .. N /\ q[j] = -Least(a + j, v[a + j]) /\ q[j] \in Int
    <3> TAKE j \in 0 .. k
    <3>1. a + j \in 0 .. N
      BY <1>5
    <3> QED
      BY <1>7, <3>1
  <2>4. \A j \in 1 .. k : g[j] = q[j] - q[j - 1]
    <3> TAKE j \in 1 .. k
    <3> DEFINE i == a + j
    <3>1. i \in 1 .. N /\ i \in 0 .. N /\ i - 1 \in 0 .. N /\ j \in 0 .. k /\ j - 1 \in 0 .. k /\ a + (j - 1) = i - 1
      BY <1>5
    <3>2. q[j] = -Least(i, v[i]) /\ q[j - 1] = -Least(i - 1, v[i - 1])
      BY <2>3, <3>1
    <3>3. Least(i, v[i]) = Least(i - 1, v[i - 1]) - W(w[i]) /\ W(w[i]) \in Int
      BY <1>6, <1>8, <3>1
    <3>4. Least(i, v[i]) \in Int /\ Least(i - 1, v[i - 1]) \in Int
      BY <1>7, <3>1
    <3>5. g[j] = W(w[i])
      BY <2>2
    <3> HIDE DEF i, q, g
    <3> QED
      BY <3>2, <3>3, <3>4, <3>5
  <2>5. q[k] = -Least(b, v[b]) /\ q[0] = -Least(a, v[a]) /\ Least(a, v[a]) \in Int /\ Least(b, v[b]) \in Int
    <3>1. 0 \in 0 .. k /\ k \in 0 .. k /\ a + 0 = a
      BY <1>5
    <3> QED
      BY <1>4, <1>5, <1>7, <2>3, <3>1
  <2> HIDE DEF q, g
  <2>6. SumFunctionOnSet(g, 1 .. k) = q[k] - q[0]
    BY <2>1, <2>3, <2>4, Telescope
  <2>7. Total(u) = SumFunctionOnSet(g, 1 .. k)
    BY <2>1 DEF Total, g
  <2> QED
    BY <2>5, <2>6, <2>7
<1> HIDE DEF u
<1> DEFINE T == {i \in 0 .. N - b : Fin(a + i, v[b + i]) /\ Least(a + i, v[b + i]) <= Least(b + i, v[b + i]) + Total(u)}
<1>11. Total(u) \in Int
  BY <1>4, <1>7, <1>10
<1>12. 0 \in T
  <2>1. 0 \in 0 .. N - b /\ a + 0 = a /\ b + 0 = b /\ b \in 1 .. N
    BY <1>4, <1>5
  <2>2. Fin(a, v[a])
    <3>1. CASE a = 0
      BY <1>2, <3>1 DEF BestWay
    <3>2. CASE a # 0
      <4>1. a \in 1 .. N
        BY <1>4, <3>2
      <4> QED
        BY <1>6, <4>1
    <3> QED
      BY <3>1, <3>2
  <2>3. Least(a, v[b]) = Least(a, v[a]) /\ Fin(a, v[b]) /\ Least(a, v[a]) \in Int /\ Least(b, v[b]) \in Int
    BY <1>4, <1>7, <2>2
  <2>4. Least(a, v[b]) <= Least(b, v[b]) + Total(u)
    BY <1>10, <2>3
  <2> QED
    BY <2>1, <2>3, <2>4
<1>13. ASSUME NEW i \in 0 .. N - b - 1, i \in T
       PROVE  i + 1 \in T
  <2> DEFINE p == a + i
             r == b + i
             x == v[r]
             y == v[r + 1]
             e == w[r + 1]
  <2>1. /\ p \in 0 .. N /\ p + 1 \in 1 .. N /\ p + 1 - 1 = p /\ p + 1 \in 0 .. N
        /\ r \in 0 .. N /\ r + 1 \in 1 .. N /\ r + 1 - 1 = r /\ r + 1 \in 0 .. N
        /\ a + (i + 1) = p + 1 /\ b + (i + 1) = r + 1 /\ i + 1 \in 0 .. N - b
    BY <1>4, <1>5
  <2>2. Fin(p, x) /\ Least(p, x) <= Least(r, x) + Total(u)
    BY <1>13
  <2> HIDE DEF p, r
  <2>3. e \in Within /\ e.to = y /\ e.from = x /\ Least(r + 1, y) = Least(r, x) - W(e)
    BY <1>6, <2>1
  <2>4. Fin(p + 1, y) /\ Least(p + 1, y) <= Least(p, x) - W(e)
    BY <2>1, <2>2, <2>3 DEF Rows, N
  <2>5. x \in State /\ y \in State /\ W(e) \in Int
    BY <1>7, <1>8, <2>1, <2>3
  <2>6. Least(p, x) \in Int /\ Least(r, x) \in Int /\ Least(p + 1, y) \in Int /\ Least(r + 1, y) \in Int
    BY <2>1, <2>5 DEF Rows, N
  <2> HIDE DEF x, e
  <2>7. Least(p + 1, y) <= Least(r + 1, y) + Total(u)
    BY <1>11, <2>2, <2>3, <2>4, <2>5, <2>6
  <2> QED
    BY <2>1, <2>4, <2>7
<1> HIDE DEF T
<1>14. N - b \in T
  <2> DEFINE M == N - b
  <2>1. M \in Nat /\ M \in 0 .. M
    BY <1>4, <1>5
  <2>2. 0 .. M \subseteq T
    <3>1. \A i \in 0 .. M - 1 : i \in T => i + 1 \in T
      BY <1>13
    <3> HIDE DEF M
    <3> QED
      BY <1>12, <2>1, <3>1, BoundedInduction
  <2> QED
    BY <2>1, <2>2
<1>15. a + (N - b) = N - k /\ b + (N - b) = N /\ v[N] = s
  <2>1. a + (N - b) = N - k /\ b + (N - b) = N
    BY <1>1, <1>5
  <2> QED
    BY <1>2, <2>1 DEF BestWay, N
<1>16. Fin(N - k, s) /\ Least(N - k, s) <= Least(N, s) + Total(u)
  BY <1>14, <1>15 DEF T
<1> QED
  BY <1>5, <1>9, <1>16 DEF N

\* On a cycle all states reach each other, and every edge is followed by one.
LEMMA CycleWithin ==
  ASSUME Ready, NEW n \in Nat, n >= 1, NEW w, CycleOf(w, n)
  PROVE  \A j \in 1 .. n : /\ w[j] \in Within /\ w[j].from \in State /\ w[j].to \in State
                           /\ W(w[j]) \in Int
                           /\ \E i \in 1 .. n : w[j].to = w[i].from
<1> DEFINE o == w[1].from
           To == {i \in 0 .. n - 1 : Reaches(succ, o, w[i + 1].from)}
           Back == {i \in 0 .. n - 1 : Reaches(succ, w[n - i].from, o)}
           M == n - 1
<1>1. M \in Nat /\ 1 \in 1 .. n /\ n \in 1 .. n
  OBVIOUS
<1>2. \A j \in 1 .. n : w[j] \in edges /\ w[j].from \in State /\ w[j].to \in State /\ W(w[j]) \in Int
  BY DEF CycleOf, Ready, WeightOK
<1>3. \A j \in 1 .. n - 1 : w[j].to = w[j + 1].from
  BY DEF CycleOf
<1>4. w[n].to = o
  BY DEF CycleOf
<1>5. IsGraph(succ, State)
  BY SuccIsGraph
<1>6. \A j \in 1 .. n : Reaches(succ, w[j].from, w[j].to)
  BY <1>2, <1>5, SuccHas, ReachesSuccessor
<1>7. Reaches(succ, o, o)
  BY <1>1, <1>2, <1>5, ReachesItself
<1>8. 0 .. M \subseteq To
  <2>1. 0 \in To
    BY <1>7
  <2>2. ASSUME NEW i \in 0 .. M - 1, i \in To
        PROVE  i + 1 \in To
    <3>1. i + 1 \in 1 .. n - 1 /\ i + 1 \in 1 .. n /\ i + 1 \in 0 .. n - 1
      BY <1>1
    <3>2. Reaches(succ, o, w[i + 1].from) /\ Reaches(succ, w[i + 1].from, w[i + 1].to)
      BY <1>6, <2>2, <3>1
    <3>3. Reaches(succ, o, w[i + 1].to)
      BY <1>5, <3>2, ReachesTransitive
    <3> QED
      BY <1>3, <3>1, <3>3
  <2> HIDE DEF To, M
  <2> QED
    BY <1>1, <2>1, <2>2, BoundedInduction
<1>9. 0 .. M \subseteq Back
  <2>1. 0 \in Back
    <3>1. 0 \in 0 .. n - 1 /\ n - 0 = n
      OBVIOUS
    <3> QED
      BY <1>1, <1>4, <1>6, <3>1
  <2>2. ASSUME NEW i \in 0 .. M - 1, i \in Back
        PROVE  i + 1 \in Back
    <3> DEFINE j == n - (i + 1)
    <3>1. j \in 1 .. n - 1 /\ j \in 1 .. n /\ j + 1 = n - i /\ i + 1 \in 0 .. n - 1
      BY <1>1
    <3>2. Reaches(succ, w[j + 1].from, o)
      BY <2>2, <3>1
    <3>3. Reaches(succ, w[j].from, w[j].to) /\ w[j].to = w[j + 1].from
      BY <1>3, <1>6, <3>1
    <3>4. Reaches(succ, w[j].from, o)
      BY <1>5, <3>2, <3>3, ReachesTransitive
    <3> QED
      BY <3>1, <3>4
  <2> HIDE DEF Back, M
  <2> QED
    BY <1>1, <2>1, <2>2, BoundedInduction
<1>10. \A j \in 1 .. n : Reaches(succ, o, w[j].from) /\ Reaches(succ, w[j].from, o)
  <2> TAKE j \in 1 .. n
  <2>1. j - 1 \in 0 .. M /\ j - 1 + 1 = j /\ n - j \in 0 .. M /\ n - (n - j) = j
    OBVIOUS
  <2>2. j - 1 \in To /\ n - j \in Back
    BY <1>8, <1>9, <2>1
  <2> QED
    BY <2>1, <2>2
<1>11. \A j \in 1 .. n : \E i \in 1 .. n : w[j].to = w[i].from
  <2> TAKE j \in 1 .. n
  <2>1. CASE j = n
    BY <1>1, <1>4, <2>1
  <2>2. CASE j # n
    <3>1. j \in 1 .. n - 1 /\ j + 1 \in 1 .. n
      BY <2>2
    <3> QED
      BY <1>3, <3>1
  <2> QED
    BY <2>1, <2>2
<1>12. \A j \in 1 .. n : w[j] \in Within
  <2> TAKE j \in 1 .. n
  <2>1. PICK i \in 1 .. n : w[j].to = w[i].from
    BY <1>11
  <2>2. /\ Reaches(succ, w[j].from, o) /\ Reaches(succ, o, w[j].to)
        /\ Reaches(succ, w[j].to, o) /\ Reaches(succ, o, w[j].from)
    BY <1>10, <2>1
  <2>3. Reaches(succ, w[j].from, w[j].to) /\ Reaches(succ, w[j].to, w[j].from)
    BY <1>5, <2>2, ReachesTransitive
  <2> QED
    BY <1>2, <2>3 DEF Within, SameTag, Mutual
<1> QED
  BY <1>2, <1>11, <1>12

\* No cycle is lighter or heavier than the domain allows.
LEMMA CycleBounds ==
  ASSUME Ready, NEW n \in Nat, n >= 1, NEW w, CycleOf(w, n)
  PROVE  /\ Total(w) \in Int
         /\ domain.min * n <= Total(w) /\ Total(w) <= domain.max * n
<1>1. DOMAIN w = 1 .. n /\ \A j \in 1 .. n : w[j] \in edges
  BY DEF CycleOf
<1>2. \A j \in 1 .. n : /\ Load(w)[j] \in Int
                        /\ domain.min <= Load(w)[j] /\ Load(w)[j] <= domain.max
  BY <1>1 DEF Load, Ready, WeightOK
<1>3. domain.min \in Int /\ domain.max \in Int
  BY DEF Ready
<1>4. IsFiniteSet(1 .. n)
  BY FS_Interval
<1>5. SumFunctionOnSet(Load(w), 1 .. n) \in Int
  BY <1>2, <1>4, SumRemove
<1>6. /\ domain.min * n <= SumFunctionOnSet(Load(w), 1 .. n)
      /\ SumFunctionOnSet(Load(w), 1 .. n) <= domain.max * n
  BY <1>2, <1>3, SumBetween
<1> QED
  BY <1>1, <1>5, <1>6 DEF Total

\* The last row has a walk in some component with edges.
LEMMA LastRow ==
  ASSUME Ready, Rows
  PROVE  \E s \in State : Fin(size, s)
<1>1. PICK e0 \in edges : SameTag(e0.from, e0.to)
  BY WithinExists
<1> DEFINE c == e0.from
           N == size
           T == {n \in 0 .. N : \E s \in State : Fin(n, s) /\ SameTag(c, s)}
<1>2. c \in State /\ e0 \in Within /\ e0.to \in State
  BY <1>1 DEF Ready, Within
<1>3. N \in Nat
  BY SizeFacts
<1>4. 0 \in T
  <2>1. 0 \in 0 .. N
    BY <1>3
  <2> QED
    BY <1>2, <2>1 DEF Rows
<1>5. ASSUME NEW s \in State, SameTag(c, s)
      PROVE  \E e \in Within : e.from = s /\ SameTag(c, e.to) /\ e.to \in State
  <2>1. CASE s = c
    BY <1>1, <1>2, <2>1
  <2>2. CASE s # c
    <3>1. Reaches(succ, c, s) /\ Reaches(succ, s, c) /\ IsGraph(succ, State)
      BY <1>5, SuccIsGraph DEF SameTag, Mutual
    <3>2. PICK t \in succ[s] : Reaches(succ, t, c)
      BY <1>2, <2>2, <3>1, ReachesByEdge
    <3>3. PICK e \in edges : e.from = s /\ e.to = t
      BY SuccIs
    <3>4. Reaches(succ, s, t)
      BY <3>1, <3>2, ReachesSuccessor
    <3>5. Reaches(succ, c, t) /\ Reaches(succ, t, s)
      BY <3>1, <3>2, <3>4, ReachesTransitive
    <3>6. e \in Within /\ SameTag(c, e.to) /\ e.to \in State
      BY <3>2, <3>3, <3>4, <3>5 DEF Within, SameTag, Mutual, Ready
    <3> QED
      BY <3>3, <3>6
  <2> QED
    BY <2>1, <2>2
<1>6. ASSUME NEW n \in 0 .. N - 1, n \in T
      PROVE  n + 1 \in T
  <2>1. PICK s \in State : Fin(n, s) /\ SameTag(c, s)
    BY <1>6
  <2>2. PICK e \in Within : e.from = s /\ SameTag(c, e.to) /\ e.to \in State
    BY <1>5, <2>1
  <2>3. n + 1 \in 1 .. N /\ n + 1 - 1 = n /\ n + 1 \in 0 .. N
    BY <1>3
  <2>4. Fin(n + 1, e.to)
    BY <2>1, <2>2, <2>3 DEF Rows
  <2> QED
    BY <2>2, <2>3, <2>4
<1> HIDE DEF T
<1>7. N \in T
  <2>1. 0 .. N \subseteq T
    <3> HIDE DEF N
    <3> QED
      BY <1>3, <1>4, <1>6, BoundedInduction
  <2> QED
    BY <1>3, <2>1
<1> QED
  BY <1>7 DEF T

\* Some cycle is in the automaton.
LEMMA SomeCycle ==
  ASSUME Ready, Rows
  PROVE  \E n \in 1 .. size : \E w : CycleOf(w, n)
BY LastRow, CycleLeftOut

-----------------------------------------------------------------------------
(* Potentials: what is best when every edge of a walk costs L more *)

Level(L, n, t) == Least(n, t) + L * n

\* p is the best of these that the rows before the last have for t; nor has the
\* last anything better.
IsPotential(L, t, p) ==
  /\ \E m \in 0 .. size - 1 : Fin(m, t) /\ p = Level(L, m, t)
  /\ \A n \in 0 .. size : Fin(n, t) => p <= Level(L, n, t)

\* No cycle has a mean above L.
AtMostMean(L) == \A n \in 1 .. size : \A w : CycleOf(w, n) => Total(w) <= L * n

\* Where any row has a walk there is a potential.
LEMMA PotentialExists ==
  ASSUME Ready, Rows, NEW L \in Int, AtMostMean(L), NEW t \in State, \E n \in 0 .. size : Fin(n, t)
  PROVE  \E p \in Int : IsPotential(L, t, p)
<1> DEFINE N == size
           I == {n \in 0 .. N - 1 : Fin(n, t)}
           g == [n \in 0 .. N - 1 |-> Level(L, n, t)]
           S == {g[n] : n \in I}
<1>1. N \in Nat /\ N >= 1
  BY SizeFacts
<1>2. \A n \in 0 .. N : Least(n, t) \in Int /\ L * n \in Int /\ Level(L, n, t) = Least(n, t) + L * n
  BY <1>1 DEF Rows, Level
<1>3. ASSUME Fin(N, t)
      PROVE  \E n \in I : Level(L, n, t) <= Level(L, N, t)
  <2>1a. PICK k \in 1 .. N : \E w : CycleOf(w, k) /\ Fin(N - k, t) /\ Least(N - k, t) <= Least(N, t) + Total(w)
    BY <1>3, CycleLeftOut
  <2>1. PICK w : CycleOf(w, k) /\ Fin(N - k, t) /\ Least(N - k, t) <= Least(N, t) + Total(w)
    BY <2>1a
  <2>2. Total(w) <= L * k
    BY <2>1 DEF AtMostMean
  <2>3. k \in Nat /\ k >= 1 /\ N - k \in 0 .. N - 1 /\ N - k \in 0 .. N /\ N \in 0 .. N
    BY <1>1
  <2>4. Total(w) \in Int
    BY <2>1, <2>3, CycleBounds
  <2> HIDE DEF N
  <2>5. L * N = L * (N - k) + L * k /\ L * k \in Int
    BY <1>1, <2>3
  <2>6. Level(L, N - k, t) <= Level(L, N, t)
    BY <1>2, <2>1, <2>2, <2>3, <2>4, <2>5
  <2> QED
    BY <2>1, <2>3, <2>6
<1>4. I # {}
  <2>1. PICK n \in 0 .. N : Fin(n, t)
    OBVIOUS
  <2>2. CASE n = N
    BY <1>3, <2>1, <2>2
  <2>3. CASE n # N
    <3>1. n \in 0 .. N - 1
      BY <1>1, <2>3
    <3> QED
      BY <2>1, <3>1
  <2> QED
    BY <2>2, <2>3
<1>5. \A n \in I : n \in 0 .. N - 1 /\ n \in 0 .. N /\ g[n] = Level(L, n, t) /\ g[n] \in Int /\ g[n] \in S
  <2> TAKE n \in I
  <2>1. n \in 0 .. N - 1 /\ n \in 0 .. N
    BY <1>1
  <2> QED
    BY <1>2, <2>1
<1>6. IsFiniteSet(S)
  <2>1. IsFiniteSet(0 .. N - 1)
    BY <1>1, FS_Interval
  <2>2. IsFiniteSet(I)
    BY <2>1, FS_Subset
  <2> QED
    BY <2>2, FiniteImage
<1>7. \A x \in S : \E n \in I : x = g[n]
  OBVIOUS
<1> HIDE DEF S, g
<1>8. S \in SUBSET Int /\ S # {}
  BY <1>4, <1>5, <1>7
<1>9. Min(S) \in S /\ \A y \in S : Min(S) <= y
  BY <1>6, <1>8, MinExists
<1>10. PICK m \in I : Min(S) = g[m]
  BY <1>7, <1>9
<1> DEFINE p == Min(S)
<1>11. p \in Int /\ p = Level(L, m, t) /\ m \in 0 .. N - 1 /\ Fin(m, t)
  BY <1>5, <1>8, <1>9, <1>10
<1>12. \A n \in I : p <= Level(L, n, t)
  BY <1>5, <1>9
<1> HIDE DEF p
<1>13. ASSUME NEW n \in 0 .. N, Fin(n, t)
       PROVE  p <= Level(L, n, t)
  <2>1. CASE n = N
    <3>1. PICK i \in I : Level(L, i, t) <= Level(L, N, t)
      BY <1>3, <1>13, <2>1
    <3>2. p <= Level(L, i, t) /\ Level(L, i, t) \in Int
      BY <1>5, <1>12
    <3>3. Level(L, N, t) \in Int
      BY <1>1, <1>2
    <3> QED
      BY <1>11, <2>1, <3>1, <3>2, <3>3
  <2>2. CASE n # N
    <3>1. n \in I
      BY <1>1, <1>13, <2>2
    <3> QED
      BY <1>12, <3>1
  <2> QED
    BY <2>1, <2>2
<1> QED
  BY <1>11, <1>13 DEF IsPotential

\* An edge leads to no more than its cost more.
LEMMA PotentialRelaxed ==
  ASSUME Ready, Rows, NEW L \in Int, NEW e \in Within, NEW p, NEW q \in Int,
         IsPotential(L, e.from, p), IsPotential(L, e.to, q)
  PROVE  p \in Int /\ q <= p - W(e) + L
<1>1. size \in Nat
  BY SizeFacts
<1>2. e.from \in State /\ e.to \in State /\ W(e) \in Int
  BY DEF Within, Ready, WeightOK
<1>3. PICK m \in 0 .. size - 1 : Fin(m, e.from) /\ p = Level(L, m, e.from)
  BY DEF IsPotential
<1>4. m \in Int /\ m + 1 \in 1 .. size /\ m + 1 - 1 = m /\ m + 1 \in 0 .. size /\ m \in 0 .. size
  BY <1>1
<1>5. Fin(m + 1, e.to) /\ Least(m + 1, e.to) <= Least(m, e.from) - W(e)
  BY <1>3, <1>4 DEF Rows
<1>6. q <= Level(L, m + 1, e.to)
  BY <1>4, <1>5 DEF IsPotential
<1>7. L * (m + 1) = L * m + L /\ L * m \in Int
  BY <1>4
<1>8. Least(m, e.from) \in Int /\ Least(m + 1, e.to) \in Int
  BY <1>2, <1>4 DEF Rows
<1> QED
  BY <1>2, <1>3, <1>5, <1>6, <1>7, <1>8 DEF Level

\* The rows before the last have a walk to every state.
LEMMA EverywhereSoon ==
  ASSUME Ready, Rows, NEW t \in State
  PROVE  \E n \in 0 .. size - 1 : Fin(n, t)
<1> DEFINE N == size
           Soon(s) == \E n \in 0 .. N - 1 : Fin(n, s)
<1>1. N \in Nat /\ N >= 1 /\ IsGraph(succ, State)
  BY SizeFacts, SuccIsGraph
<1>2. PICK o \in State : SameTag(t, o) /\ Fin(0, o)
  BY DEF Rows
<1> DEFINE Y == {s \in State : Reaches(succ, o, s) /\ (Reaches(succ, s, o) => Soon(s))}
<1>3. o \in Y
  <2>1. 0 \in 0 .. N - 1
    BY <1>1
  <2>2. Reaches(succ, o, o)
    BY <1>1, ReachesItself
  <2> QED
    BY <1>2, <2>1, <2>2
<1>4. ASSUME NEW s \in Y, NEW u \in succ[s]
      PROVE  u \in Y
  <2>1. s \in State /\ Reaches(succ, o, s) /\ u \in State
    BY <1>1 DEF IsGraph
  <2>2. Reaches(succ, s, u)
    BY <1>1, <2>1, ReachesSuccessor
  <2>3. Reaches(succ, o, u)
    BY <1>1, <2>1, <2>2, ReachesTransitive
  <2>4. ASSUME Reaches(succ, u, o)
        PROVE  Soon(u)
    <3>1. Reaches(succ, s, o) /\ Reaches(succ, u, s)
      BY <1>1, <2>1, <2>2, <2>4, ReachesTransitive
    <3>2. PICK n \in 0 .. N - 1 : Fin(n, s)
      BY <3>1
    <3>3. PICK e \in edges : e.from = s /\ e.to = u
      BY <2>1, SuccIs
    <3>4. e \in Within
      BY <2>2, <3>1, <3>3 DEF Within, SameTag, Mutual
    <3>5. n + 1 \in 1 .. N /\ n + 1 - 1 = n
      BY <1>1
    <3>6. Fin(n + 1, u)
      BY <3>2, <3>3, <3>4, <3>5 DEF Rows
    <3>7. CASE n + 1 = N
      <4>1a. PICK k \in 1 .. N : \E w : Fin(N - k, u)
        BY <2>1, <3>6, <3>7, CycleLeftOut
      <4>1. PICK w : Fin(N - k, u)
        BY <4>1a
      <4>2. N - k \in 0 .. N - 1
        BY <1>1
      <4> QED
        BY <4>1, <4>2
    <3>8. CASE n + 1 # N
      <4>1. n + 1 \in 0 .. N - 1
        BY <1>1, <3>5, <3>8
      <4> QED
        BY <3>6, <4>1
    <3> QED
      BY <3>7, <3>8
  <2> QED
    BY <2>1, <2>3, <2>4
<1> HIDE DEF Soon
<1>5. Closed(succ, Y)
  BY <1>4 DEF Closed
<1>6. Reaches(succ, o, t) /\ Reaches(succ, t, o)
  BY <1>2 DEF SameTag, Mutual
<1>7. DOMAIN succ = State
  BY <1>1 DEF IsGraph
<1>8. Y \in SUBSET State
  OBVIOUS
<1> HIDE DEF Y
<1>9. t \in Y
  BY <1>3, <1>5, <1>6, <1>7, <1>8 DEF Reaches
<1> QED
  BY <1>6, <1>9 DEF Y, Soon

\* p has a potential for every state.
Potentials(L, p) == p \in [State -> Int] /\ \A t \in State : IsPotential(L, t, p[t])

\* When no mean of a cycle exceeds L there is one.
LEMMA PotentialsExist ==
  ASSUME Ready, Rows, NEW L \in Int, AtMostMean(L)
  PROVE  \E p : Potentials(L, p)
<1> DEFINE p == [t \in State |-> CHOOSE x \in Int : IsPotential(L, t, x)]
<1>1. \A t \in State : \E x \in Int : IsPotential(L, t, x)
  <2> TAKE t \in State
  <2>1. PICK n \in 0 .. size - 1 : Fin(n, t)
    BY EverywhereSoon
  <2>2. n \in 0 .. size
    BY SizeFacts
  <2> QED
    BY <2>1, <2>2, PotentialExists
<1>2. \A t \in State : p[t] \in Int /\ IsPotential(L, t, p[t])
  BY <1>1
<1>3. p = [t \in State |-> p[t]]
  OBVIOUS
<1> HIDE DEF p
<1> QED
  BY <1>2, <1>3 DEF Potentials

\* Along a cycle whose mean is L no edge leads to less than its cost more.
LEMMA CycleTight ==
  ASSUME Ready, Rows, NEW L \in Int, NEW p, Potentials(L, p),
         NEW n \in Nat, n >= 1, NEW w, CycleOf(w, n), Total(w) = L * n
  PROVE  \A j \in 1 .. n : p[w[j].to] = p[w[j].from] - W(w[j]) + L
<1> DEFINE S == 1 .. n
           q == [j \in 0 .. n |-> IF j = 0 THEN p[w[1].from] ELSE p[w[j].to]]
           climb == [j \in S |-> p[w[j].to] - p[w[j].from]]
           cost == [j \in S |-> -L]
           load == Load(w)
           some == [j \in S |-> climb[j] + cost[j]]
           all == [j \in S |-> some[j] + load[j]]
<1>1. /\ DOMAIN w = S /\ IsFiniteSet(S) /\ 1 \in S /\ n \in S /\ 0 \in 0 .. n /\ n \in 0 .. n /\ n # 0
      /\ \A j \in S : j \in 0 .. n /\ j # 0 /\ j - 1 \in 0 .. n
  BY FS_Interval DEF CycleOf
<1>2. \A j \in S : /\ w[j] \in Within /\ w[j].from \in State /\ w[j].to \in State /\ W(w[j]) \in Int
                   /\ p[w[j].to] \in Int /\ p[w[j].from] \in Int
  BY CycleWithin DEF Potentials
<1>3. \A j \in S : /\ p[w[j].to] <= p[w[j].from] - W(w[j]) + L
  <2> TAKE j \in S
  <2>1. IsPotential(L, w[j].from, p[w[j].from]) /\ IsPotential(L, w[j].to, p[w[j].to])
    BY <1>2 DEF Potentials
  <2> QED
    BY <1>2, <2>1, PotentialRelaxed
<1>4. /\ \A j \in 0 .. n : q[j] \in Int
      /\ \A j \in S : climb[j] = q[j] - q[j - 1]
      /\ q[n] = q[0]
  <2>1. \A j \in 0 .. n : q[j] \in Int
    <3> TAKE j \in 0 .. n
    <3>1. j = 0 \/ j \in S
      OBVIOUS
    <3> QED
      BY <1>1, <1>2, <3>1
  <2>2. \A j \in S : climb[j] = q[j] - q[j - 1]
    <3> TAKE j \in S
    <3>1. q[j] = p[w[j].to] /\ climb[j] = p[w[j].to] - p[w[j].from]
      BY <1>1
    <3>2. q[j - 1] = p[w[j].from]
      <4>1. CASE j = 1
        BY <1>1, <4>1
      <4>2. CASE j # 1
        <5>1. j - 1 \in 1 .. n - 1 /\ j - 1 + 1 = j /\ j - 1 \in 0 .. n /\ j - 1 # 0
          BY <1>1, <4>2
        <5>2. w[j - 1].to = w[j].from
          BY <5>1 DEF CycleOf
        <5> QED
          BY <5>1, <5>2
      <4> QED
        BY <4>1, <4>2
    <3> QED
      BY <3>1, <3>2
  <2>3. q[n] = q[0]
    BY <1>1 DEF CycleOf
  <2> QED
    BY <2>1, <2>2, <2>3
<1>5. \A j \in S : climb[j] \in Int /\ cost[j] = -L /\ cost[j] \in Int /\ climb[j] = p[w[j].to] - p[w[j].from]
  BY <1>2
<1>6. \A j \in S : load[j] = W(w[j]) /\ load[j] \in Int
  BY <1>1, <1>2 DEF Load
<1>7. \A j \in S : some[j] = climb[j] + cost[j] /\ some[j] \in Int /\ all[j] = some[j] + load[j] /\ all[j] \in Int
  BY <1>5, <1>6
<1> HIDE DEF q, climb, cost, load, some, all
<1>8. SumFunctionOnSet(climb, 1 .. n) = q[n] - q[0]
  BY <1>4, Telescope
<1>9. SumFunctionOnSet(climb, S) = 0
  BY <1>1, <1>4, <1>8
<1>10. SumFunctionOnSet(cost, S) = -(L * n) /\ L * n \in Int
  <2>1. /\ (-L) * n <= SumFunctionOnSet(cost, 1 .. n)
        /\ SumFunctionOnSet(cost, 1 .. n) <= (-L) * n
    <3>1. -L \in Int /\ \A j \in 1 .. n : cost[j] \in Int /\ -L <= cost[j] /\ cost[j] <= -L
      BY <1>5
    <3> QED
      BY <3>1, SumBetween
  <2>2. SumFunctionOnSet(cost, S) \in Int
    BY <1>1, <1>5, SumRemove
  <2>3. (-L) * n = -(L * n) /\ L * n \in Int
    OBVIOUS
  <2> QED
    BY <2>1, <2>2, <2>3
<1>11. SumFunctionOnSet(load, S) = L * n
  BY <1>1 DEF Total, load
<1> HIDE DEF S
<1>12. SumFunctionOnSet(some, S) = SumFunctionOnSet(climb, S) + SumFunctionOnSet(cost, S)
  <2>1. IsFiniteSet(S) /\ \A j \in S : climb[j] \in Int /\ cost[j] \in Int /\ some[j] = climb[j] + cost[j]
    BY <1>1, <1>5, <1>7
  <2> QED
    BY <2>1, SumPlus
<1>13. SumFunctionOnSet(all, S) = SumFunctionOnSet(some, S) + SumFunctionOnSet(load, S)
  <2>1. IsFiniteSet(S) /\ \A j \in S : some[j] \in Int /\ load[j] \in Int /\ all[j] = some[j] + load[j]
    BY <1>1, <1>6, <1>7
  <2> QED
    BY <2>1, SumPlus
<1>14. SumFunctionOnSet(all, S) = 0
  BY <1>9, <1>10, <1>11, <1>12, <1>13
<1>15. \A j \in S : all[j] = p[w[j].to] - p[w[j].from] - L + W(w[j]) /\ all[j] <= 0
  BY <1>2, <1>3, <1>5, <1>6, <1>7
<1>16. \A j \in S : SumFunctionOnSet(all, S) <= all[j]
  BY <1>1, <1>7, <1>15, SumNegative
<1>17. \A j \in S : all[j] = 0
  BY <1>7, <1>14, <1>15, <1>16
<1> QED
  BY <1>2, <1>15, <1>17 DEF S

\* On a cycle whose mean is L there is a state that gains at least L by each edge
\* that walks of full length have more than others.
LEMMA CycleEnd ==
  ASSUME Ready, Rows, NEW L \in Int, AtMostMean(L),
         NEW k \in Nat, k >= 1, NEW w, CycleOf(w, k), Total(w) = L * k
  PROVE  \E z \in State : Fin(size, z) /\ \A n \in 0 .. size - 1 : Fin(n, z) =>
           L * (size - n) <= Least(n, z) - Least(size, z)
<1> DEFINE N == size
<1>1. N \in Nat /\ N >= 1 /\ 1 \in 1 .. k
  BY SizeFacts
<1>2. PICK p : Potentials(L, p)
  BY PotentialsExist
<1>3. \A j \in 1 .. k : /\ w[j] \in Within /\ w[j].from \in State /\ w[j].to \in State /\ W(w[j]) \in Int
                        /\ \E i \in 1 .. k : w[j].to = w[i].from
  BY CycleWithin
<1>4. \A j \in 1 .. k : p[w[j].to] = p[w[j].from] - W(w[j]) + L
  BY <1>2, CycleTight
<1>5. \A t \in State : p[t] \in Int /\ IsPotential(L, t, p[t])
  BY <1>2 DEF Potentials
<1>6. PICK m \in 0 .. N - 1 : Fin(m, w[1].from) /\ p[w[1].from] = Level(L, m, w[1].from)
  BY <1>1, <1>3, <1>5 DEF IsPotential
<1> DEFINE Good(n, t) == Fin(n, t) /\ Level(L, n, t) <= p[t]
           T == {i \in 0 .. N - m : \E j \in 1 .. k : Good(m + i, w[j].from)}
<1>7. m \in Int /\ 0 <= m /\ m <= N - 1 /\ N - m \in Nat
  BY <1>1
<1>8. 0 \in T
  <2>1. 0 \in 0 .. N - m /\ m + 0 = m
    BY <1>7
  <2>2. p[w[1].from] \in Int
    BY <1>1, <1>3, <1>5
  <2> QED
    BY <1>1, <1>6, <2>1, <2>2
<1>9. ASSUME NEW i \in 0 .. N - m - 1, i \in T
      PROVE  i + 1 \in T
  <2> DEFINE n == m + i
  <2>1. /\ n \in 0 .. N /\ n + 1 \in 1 .. N /\ n + 1 - 1 = n /\ n + 1 \in 0 .. N
        /\ m + (i + 1) = n + 1 /\ i + 1 \in 0 .. N - m
    BY <1>1, <1>7
  <2>2. PICK j \in 1 .. k : Good(n, w[j].from)
    BY <1>9
  <2> HIDE DEF n
  <2> DEFINE s == w[j].from
             t == w[j].to
             c == W(w[j])
  <2>3. Fin(n + 1, t) /\ Least(n + 1, t) <= Least(n, s) - c
    <3>1. w[j] \in Within /\ Fin(n, s)
      BY <1>3, <2>2
    <3>2. \A e \in Within : Fin(n + 1 - 1, e.from) =>
            Fin(n + 1, e.to) /\ Least(n + 1, e.to) <= Least(n + 1 - 1, e.from) - W(e)
      BY <2>1 DEF Rows
    <3> QED
      BY <2>1, <3>1, <3>2
  <2>4. Least(n, s) \in Int /\ Least(n + 1, t) \in Int /\ c \in Int /\ p[s] \in Int /\ p[t] \in Int
    BY <1>3, <1>5, <2>1 DEF Rows
  <2>5. p[t] = p[s] - c + L /\ Level(L, n, s) <= p[s]
    BY <1>4, <2>2
  <2>6. L * (n + 1) = L * n + L /\ L * n \in Int
    BY <2>1
  <2> HIDE DEF s, c
  <2>7. Level(L, n + 1, t) <= p[t]
    BY <2>3, <2>4, <2>5, <2>6 DEF Level
  <2>8. PICK l \in 1 .. k : t = w[l].from
    BY <1>3
  <2>9. Good(n + 1, w[l].from)
    BY <2>3, <2>7, <2>8
  <2> QED
    BY <2>1, <2>9
<1> HIDE DEF T
<1>10. N - m \in T
  <2> DEFINE M == N - m
  <2>1. M \in Nat /\ M \in 0 .. M
    BY <1>7
  <2>2. \A i \in 0 .. M - 1 : i \in T => i + 1 \in T
    BY <1>9
  <2> HIDE DEF M
  <2>3. 0 .. M \subseteq T
    BY <1>8, <2>1, <2>2, BoundedInduction
  <2> QED
    BY <2>1, <2>3 DEF M
<1>11. m + (N - m) = N
  BY <1>1, <1>7
<1>12. PICK j \in 1 .. k : Good(N, w[j].from)
  BY <1>10, <1>11 DEF T
<1> DEFINE z == w[j].from
<1>13. z \in State /\ Fin(N, z) /\ Level(L, N, z) <= p[z] /\ p[z] \in Int
  BY <1>3, <1>5, <1>12
<1> HIDE DEF z
<1>14. ASSUME NEW n \in 0 .. N - 1, Fin(n, z)
       PROVE  L * (N - n) <= Least(n, z) - Least(N, z)
  <2>1. n \in 0 .. N /\ N \in 0 .. N /\ n \in Int
    BY <1>1
  <2>2. p[z] <= Level(L, n, z)
    BY <1>5, <1>13, <1>14, <2>1 DEF IsPotential
  <2>3. Least(n, z) \in Int /\ Least(N, z) \in Int
    BY <1>13, <2>1 DEF Rows
  <2> HIDE DEF N
  <2>4. L * (N - n) = L * N - L * n /\ L * N \in Int /\ L * n \in Int
    BY <1>1, <2>1
  <2> QED
    BY <1>13, <2>2, <2>3, <2>4 DEF Level
<1> QED
  BY <1>13, <1>14

-----------------------------------------------------------------------------
(* What top_LimAvg returns *)

\* Gains compare the last row with those before.
LEMMA GainsAre ==
  ASSUME Ready, Rows, NEW t \in State
  PROVE  /\ ~Fin(size, t) => Gains(t) = {}
         /\ Fin(size, t) => \A x : x \in Gains(t) <=>
              \E n \in 0 .. size - 1 : Fin(n, t) /\ x = (Least(n, t) - Least(size, t)) \div (size - n)
         /\ Gains(t) \in SUBSET Int /\ IsFiniteSet(Gains(t))
<1> DEFINE N == size
           I == {m \in Lengths : distance[m][t] # infinity}
           g == [n \in Lengths |-> (distance[n][t] - distance[N + 1][t]) \div (N + 1 - n)]
           S == {g[n] : n \in I}
<1>1. N \in Nat /\ N >= 1 /\ Lengths = 1 .. N
  BY SizeFacts DEF Lengths
<1>2. ~Fin(N, t) => Gains(t) = {}
  BY DEF Gains, Fin, Least
<1>3. Fin(N, t) => Gains(t) = S
  BY DEF Gains, Fin, Least
<1>4. \A n \in 1 .. N : n - 1 \in 0 .. N - 1 /\ n - 1 + 1 = n /\ N - (n - 1) = N + 1 - n /\ n - 1 \in 0 .. N
  BY <1>1
<1>5. \A n \in 0 .. N - 1 : n + 1 \in 1 .. N /\ N + 1 - (n + 1) = N - n
  BY <1>1
<1>6. \A n \in 1 .. N : g[n] = (Least(n - 1, t) - Least(N, t)) \div (N - (n - 1)) /\ (n \in I <=> Fin(n - 1, t))
  BY <1>1, <1>4 DEF Least, Fin
<1>7. \A n \in 1 .. N : g[n] \in Int
  <2> TAKE n \in 1 .. N
  <2> DEFINE a == Least(n - 1, t) - Least(N, t)
             k == N - (n - 1)
  <2>1. n - 1 \in 0 .. N /\ N \in 0 .. N
    BY <1>1, <1>4
  <2>2. Least(n - 1, t) \in Int /\ Least(N, t) \in Int
    BY <2>1 DEF Rows
  <2>3. a \in Int /\ k \in Nat /\ k >= 1 /\ 0 \in Int
    BY <1>1, <2>2
  <2>4. g[n] = a \div k
    BY <1>6
  <2> HIDE DEF a, k
  <2>5. a \div k \in Int
    BY <2>3, QuotientBounds
  <2> QED
    BY <2>4, <2>5
<1>8. IsFiniteSet(S)
  <2>1. IsFiniteSet(1 .. N)
    BY <1>1, FS_Interval
  <2>2. IsFiniteSet(I)
    BY <1>1, <2>1, FS_Subset
  <2> QED
    BY <2>2, FiniteImage
<1>9. \A x : x \in S <=> \E n \in 1 .. N : n \in I /\ x = g[n]
  BY <1>1
<1> HIDE DEF g, I, S
<1>10. \A x : x \in S <=> \E n \in 0 .. N - 1 : Fin(n, t) /\ x = (Least(n, t) - Least(N, t)) \div (N - n)
  <2> TAKE x
  <2>1. ASSUME x \in S
        PROVE  \E n \in 0 .. N - 1 : Fin(n, t) /\ x = (Least(n, t) - Least(N, t)) \div (N - n)
    <3>1. PICK n \in 1 .. N : n \in I /\ x = g[n]
      BY <1>9, <2>1
    <3>2. n - 1 \in 0 .. N - 1 /\ Fin(n - 1, t) /\ x = (Least(n - 1, t) - Least(N, t)) \div (N - (n - 1))
      BY <1>4, <1>6, <3>1
    <3> QED
      BY <3>2
  <2>2. ASSUME NEW n \in 0 .. N - 1, Fin(n, t), x = (Least(n, t) - Least(N, t)) \div (N - n)
        PROVE  x \in S
    <3> DEFINE i == n + 1
    <3>1. i \in 1 .. N /\ i - 1 = n
      BY <1>1
    <3> HIDE DEF i
    <3>2. g[i] = (Least(n, t) - Least(N, t)) \div (N - n) /\ i \in I
      BY <1>6, <2>2, <3>1
    <3> QED
      BY <1>9, <2>2, <3>1, <3>2
  <2> QED
    BY <2>1, <2>2
<1>11. S \in SUBSET Int
  BY <1>7, <1>9
<1> QED
  BY <1>2, <1>3, <1>8, <1>10, <1>11, FS_EmptySet

\* What a state contributes to the value of its component.
Best(t) == Min({domain.max} \cup Gains(t))

\* It is the least of its gains, unless these are above all weights.
LEMMA BestIs ==
  ASSUME Ready, Rows, NEW t \in State
  PROVE  /\ Best(t) \in Int /\ Best(t) \in {domain.max} \cup Gains(t)
         /\ \A x \in Gains(t) : Best(t) <= x
<1> DEFINE S == {domain.max} \cup Gains(t)
<1>1. S \in SUBSET Int /\ IsFiniteSet(S) /\ S # {}
  <2>1. IsFiniteSet({domain.max})
    BY FS_Singleton
  <2> QED
    BY <2>1, GainsAre, FS_Union DEF Ready
<1>2. Min(S) \in S /\ \A y \in S : Min(S) <= y
  BY <1>1, MinExists
<1>3. Best(t) = Min(S)
  BY DEF Best
<1> QED
  BY <1>1, <1>2, <1>3

\* It is no more than L when no cycle has a mean above L.
LEMMA BestAtMost ==
  ASSUME Ready, Rows, NEW L \in Int, AtMostMean(L), NEW t \in State, Gains(t) # {}
  PROVE  Best(t) <= L
<1>1. size \in Nat /\ Fin(size, t)
  BY SizeFacts, GainsAre
<1>2a. PICK k \in 1 .. size : \E w : CycleOf(w, k) /\ Fin(size - k, t) /\ Least(size - k, t) <= Least(size, t) + Total(w)
  BY <1>1, CycleLeftOut
<1>2. PICK w : CycleOf(w, k) /\ Fin(size - k, t) /\ Least(size - k, t) <= Least(size, t) + Total(w)
  BY <1>2a
<1> DEFINE n == size - k
           a == Least(n, t) - Least(size, t)
<1>3. k \in Nat /\ k >= 1 /\ n \in 0 .. size - 1 /\ n \in 0 .. size /\ size \in 0 .. size /\ size - n = k
  BY <1>1
<1>4. Least(n, t) \in Int /\ Least(size, t) \in Int
  BY <1>3 DEF Rows
<1>5. Total(w) \in Int /\ Total(w) <= L * k /\ L * k \in Int
  BY <1>2, <1>3, CycleBounds DEF AtMostMean
<1>6. a \in Int /\ a <= L * k
  BY <1>2, <1>4, <1>5
<1>7. a \div (size - n) \in Gains(t)
  BY <1>1, <1>2, <1>3, GainsAre
<1> HIDE DEF a, n
<1>8. a \div k \in Int /\ a \div k <= L
  BY <1>3, <1>6, QuotientBounds
<1>9. Best(t) <= a \div k /\ Best(t) \in Int
  BY <1>3, <1>7, BestIs
<1> QED
  BY <1>8, <1>9

\* Some state of each component whose best mean is L contributes no less.
LEMMA BestAtLeast ==
  ASSUME Ready, Rows, NEW L \in Int, AtMostMean(L),
         NEW k \in Nat, k >= 1, NEW w, CycleOf(w, k), Total(w) = L * k
  PROVE  L <= domain.max /\ \E z \in State : Gains(z) # {} /\ L <= Best(z)
<1>1. L <= domain.max
  <2>1. L * k <= domain.max * k /\ domain.max \in Int
    BY CycleBounds DEF Ready
  <2> QED
    BY <2>1, Cancel
<1>2. PICK z \in State : Fin(size, z) /\ \A n \in 0 .. size - 1 : Fin(n, z) =>
           L * (size - n) <= Least(n, z) - Least(size, z)
  BY CycleEnd
<1>3. size \in Nat /\ size >= 1
  BY SizeFacts
<1>4. ASSUME NEW x \in Gains(z)
      PROVE  L <= x
  <2>1. PICK n \in 0 .. size - 1 : Fin(n, z) /\ x = (Least(n, z) - Least(size, z)) \div (size - n)
    BY <1>2, GainsAre
  <2> DEFINE a == Least(n, z) - Least(size, z)
             m == size - n
  <2>2. n \in 0 .. size /\ size \in 0 .. size /\ m \in Nat /\ m >= 1
    BY <1>3
  <2>3. a \in Int
    BY <2>2 DEF Rows
  <2>4. L * m <= a /\ x = a \div m
    BY <1>2, <2>1
  <2> HIDE DEF a, m
  <2> QED
    BY <2>2, <2>3, <2>4, QuotientBounds
<1>5. Gains(z) # {}
  <2>1. PICK n \in 0 .. size - 1 : Fin(n, z)
    BY EverywhereSoon
  <2>2. (Least(n, z) - Least(size, z)) \div (size - n) \in Gains(z)
    BY <1>2, <2>1, GainsAre
  <2> QED
    BY <2>2
<1>6. L <= Best(z)
  BY <1>1, <1>4, BestIs
<1> QED
  BY <1>1, <1>5, <1>6

\* The value of a component lies between the contributions of its states and
\* the mean that no cycle is above.
LEMMA AvgValueIs ==
  ASSUME Ready, Rows, NEW L \in Int, AtMostMean(L), domain.min <= L, NEW s \in State
  PROVE  /\ AvgValues[Component(s)] \in Int
         /\ AvgValues[Component(s)] <= L
         /\ Gains(s) # {} => Best(s) <= AvgValues[Component(s)]
<1> DEFINE C == Component(s)
           I == {t \in C : Gains(t) # {}}
           b == [t \in C |-> Best(t)]
           S == {b[t] : t \in I}
           U == {domain.min} \cup S
<1>1. C \in Components /\ s \in C /\ C \in SUBSET State
  BY ComponentFacts
<1>2. AvgValues[C] = Max(U)
  <2>1. AvgValues[C] = Max({domain.min} \cup {Min({domain.max} \cup Gains(t)) : t \in {u \in C : Gains(u) # {}}})
    BY <1>1 DEF AvgValues
  <2>2. S = {Min({domain.max} \cup Gains(t)) : t \in {u \in C : Gains(u) # {}}}
    BY DEF Best
  <2> QED
    BY <2>1, <2>2
<1>3. \A t \in I : b[t] = Best(t) /\ b[t] \in Int /\ b[t] <= L /\ b[t] \in S
  BY <1>1, BestIs, BestAtMost
<1>4. \A x \in S : \E t \in I : x = b[t]
  OBVIOUS
<1>5. IsFiniteSet(S)
  <2>1. IsFiniteSet(I)
    BY <1>1, StateAssumption, FS_Subset
  <2> QED
    BY <2>1, FiniteImage
<1> HIDE DEF S, b
<1>6. U \in SUBSET Int /\ IsFiniteSet(U) /\ U # {} /\ \A x \in U : x <= L
  <2>1. IsFiniteSet({domain.min})
    BY FS_Singleton
  <2>2. IsFiniteSet(U)
    BY <1>5, <2>1, FS_Union
  <2> QED
    BY <1>3, <1>4, <2>2 DEF Ready
<1>7. Max(U) \in U /\ \A y \in U : y <= Max(U)
  BY <1>6, MaxExists
<1>8. ASSUME Gains(s) # {}
      PROVE  Best(s) <= Max(U)
  <2>1. s \in I
    BY <1>1, <1>8
  <2>2. Best(s) \in U
    BY <1>3, <2>1
  <2> QED
    BY <1>7, <2>2
<1> QED
  BY <1>2, <1>6, <1>7, <1>8

\* top_LimAvg and top_dag: the best mean of a cycle.
LEMMA KarpAnswer ==
  ASSUME Ready, Trimmed, Rows, NEW L \in Int, AtMostMean(L),
         NEW k \in 1 .. size, NEW w, CycleOf(w, k), Total(w) = L * k
  PROVE  TopDag(AvgValues, initial) = L
<1>1. k \in Nat /\ k >= 1
  BY SizeFacts
<1>2. domain.min <= L
  <2>1. domain.min * k <= L * k /\ domain.min \in Int
    BY <1>1, CycleBounds DEF Ready
  <2> QED
    BY <1>1, <2>1, Cancel
<1>3. \A s \in State : AvgValues[Component(s)] \in Int /\ AvgValues[Component(s)] <= L
  BY <1>2, AvgValueIs
<1>4. PICK z \in State : Gains(z) # {} /\ L <= Best(z)
  BY <1>1, BestAtLeast
<1>5. L <= AvgValues[Component(z)]
  <2>1. Best(z) <= AvgValues[Component(z)] /\ Best(z) \in Int
    BY <1>2, <1>4, AvgValueIs, BestIs
  <2> QED
    BY <1>3, <1>4, <2>1
<1>6. /\ \E s \in State : TopDag(AvgValues, initial) = AvgValues[Component(s)]
      /\ \A s \in State : AvgValues[Component(s)] <= TopDag(AvgValues, initial)
  BY <1>3, TopDagIs
<1> QED
  BY <1>3, <1>5, <1>6

\* Weights can be divided by the lengths of cycles.
Divisible == \A e \in edges, n \in 1 .. size : \E c \in Int : W(e) = n * c

\* So can the weights of cycles.
LEMMA CycleDivisible ==
  ASSUME Ready, Divisible, NEW n \in 1 .. size, NEW w, CycleOf(w, n)
  PROVE  \E m \in Int : Total(w) = m * n
<1> DEFINE S == 1 .. n
           g == [j \in S |-> CHOOSE c \in Int : W(w[j]) = n * c]
<1>1. n \in Int /\ DOMAIN w = S /\ IsFiniteSet(S) /\ \A j \in S : w[j] \in edges
  BY SizeFacts, FS_Interval DEF CycleOf
<1>2. \A j \in S : g[j] \in Int /\ Load(w)[j] = n * g[j]
  <2> TAKE j \in S
  <2>1. \E c \in Int : W(w[j]) = n * c
    BY <1>1 DEF Divisible
  <2> QED
    BY <1>1, <2>1 DEF Load
<1> HIDE DEF S, g
<1>3. SumFunctionOnSet(Load(w), S) = n * SumFunctionOnSet(g, S)
  BY <1>1, <1>2, SumScale
<1>4. SumFunctionOnSet(g, S) \in Int
  BY <1>1, <1>2, SumRemove
<1> DEFINE m == SumFunctionOnSet(g, S)
<1>5. Total(w) = n * m /\ m \in Int
  BY <1>1, <1>3, <1>4 DEF Total
<1> HIDE DEF m
<1>6. n * m = m * n
  BY <1>1, <1>5
<1> QED
  BY <1>5, <1>6

\* L is the best mean of a cycle.
BestMean(L) == AtMostMean(L) /\ \E k \in 1 .. size : \E w : CycleOf(w, k) /\ Total(w) = L * k

\* There is one.
LEMMA BestMeanExists ==
  ASSUME Ready, Rows, Divisible
  PROVE  \E L \in Int : BestMean(L)
<1> DEFINE Is(m, n, w) == CycleOf(w, n) /\ Total(w) = m * n
           M == {m \in domain.min .. domain.max : \E n \in 1 .. size : \E w : Is(m, n, w)}
<1>1. domain.min \in Int /\ domain.max \in Int /\ size \in Nat
  BY SizeFacts DEF Ready
<1>2. ASSUME NEW n \in 1 .. size, NEW w, CycleOf(w, n)
      PROVE  \E m \in M : Is(m, n, w)
  <2>1. PICK m \in Int : Total(w) = m * n
    BY <1>2, CycleDivisible
  <2>2. n \in Nat /\ n >= 1
    BY <1>1
  <2>3. domain.min * n <= m * n /\ m * n <= domain.max * n
    BY <1>2, <2>1, <2>2, CycleBounds
  <2>4. domain.min <= m /\ m <= domain.max
    BY <1>1, <2>2, <2>3, Cancel
  <2> QED
    BY <1>1, <1>2, <2>1, <2>4
<1>3. IsFiniteSet(M) /\ M \in SUBSET Int
  <2>1. IsFiniteSet(domain.min .. domain.max)
    BY <1>1, FS_Interval
  <2> QED
    BY <1>1, <2>1, FS_Subset
<1>4. M # {}
  BY <1>2, SomeCycle
<1> HIDE DEF M
<1>5. Max(M) \in M /\ \A m \in M : m <= Max(M)
  BY <1>3, <1>4, MaxExists
<1> DEFINE L == Max(M)
<1>6. L \in Int /\ \E n \in 1 .. size : \E w : Is(L, n, w)
  BY <1>3, <1>5 DEF M
<1>7. \A m \in M : m <= L
  BY <1>5
<1> HIDE DEF L
<1>8. ASSUME NEW n \in 1 .. size, NEW w, CycleOf(w, n)
      PROVE  Total(w) <= L * n
  <2>1. PICK m \in M : Is(m, n, w)
    BY <1>2, <1>8
  <2>2. m \in Int /\ m <= L /\ n \in Nat /\ n >= 1
    BY <1>1, <1>3, <1>7
  <2>3. m * n <= L * n
    BY <1>6, <2>2, Cancel
  <2> QED
    BY <2>1, <2>3
<1> QED
  BY <1>6, <1>8 DEF BestMean, AtMostMean

\* The means are those of the weights, added up.
LEMMA MeansAre ==
  ASSUME GraphOK
  PROVE  /\ \A x : x \in CycleMeans <=>
              \E n \in 1 .. size : \E w : CycleOf(w, n) /\ x = SumFunctionOnSet(Along(w), 1 .. n) \div n
         /\ \A n \in 1 .. size : \A w : CycleOf(w, n) => SumFunctionOnSet(Along(w), 1 .. n) \in Int
<1>1. ASSUME NEW n \in 1 .. size, NEW w, CycleOf(w, n)
      PROVE  /\ MeanOf(w) = SumFunctionOnSet(Along(w), 1 .. n) \div n
             /\ SumFunctionOnSet(Along(w), 1 .. n) \in Int
  <2>1. n \in Nat /\ DOMAIN w = 1 .. n /\ \A j \in 1 .. n : w[j] \in edges
    BY <1>1, SizeFacts DEF CycleOf
  <2>2. \A j \in 1 .. n : weightOf(w[j]) \in Int
    BY <2>1, EdgeFacts
  <2>3. FoldSeq(LAMBDA e, sum : sum + weightOf(e), 0, w) = SumFunctionOnSet(Along(w), 1 .. n)
    BY <2>1, <2>2, FoldIsSum
  <2>4. Len(w) = n
    <3>1. w \in Seq(edges)
      BY <1>1, <2>1 DEF CycleOf
    <3> QED
      BY <2>1, <3>1
  <2>5. \A j \in 1 .. n : Along(w)[j] \in Int
    BY <2>1, <2>2 DEF Along
  <2>6. SumFunctionOnSet(Along(w), 1 .. n) \in Int
    <3>1. IsFiniteSet(1 .. n)
      BY <2>1, FS_Interval
    <3> QED
      BY <2>5, <3>1, SumRemove
  <2> QED
    BY <2>3, <2>4, <2>6 DEF MeanOf
<1>2. \A w : w \in Cycles <=> \E n \in 1 .. size : CycleOf(w, n)
  BY CyclesAre
<1> QED
  BY <1>1, <1>2 DEF CycleMeans

\* The calls are for averages only when weights are in units for them.
LEMMA UnitsDivide ==
  ASSUME call \in Calls \cup ChoiceCalls, f \in Averages, NEW i \in Ids, NEW n \in 1 .. size
  PROVE  \E c \in Int : Weights[i] = n * c
<1>1. Weights[i] % n = 0
  BY UnitAssumption DEF f, size
<1>2. Weights[i] \in Int /\ n \in Nat /\ n >= 1
  BY WeightsFacts, SizeFacts
<1> DEFINE a == Weights[i]
<1>3. a = n * (a \div n) + (a % n) /\ a \div n \in Int
  <2>1. a \in Int
    BY <1>2
  <2> HIDE DEF a
  <2>2. a \div n \in Int
    BY <1>2, <2>1, QuotientBounds
  <2> QED
    BY <1>2, <2>1, <2>2
<1> DEFINE c == a \div n
<1>4. a = n * c /\ c \in Int
  <2>1. n * c \in Int
    BY <1>2, <1>3
  <2> QED
    BY <1>1, <1>3, <2>1
<1> QED
  BY <1>4

\* A mean of a cycle that no other exceeds, and one that exceeds no other.
LargestMean(x) == x \in CycleMeans /\ x \in Int /\ \A y \in CycleMeans : y \in Int /\ y <= x
SmallestMean(x) == x \in CycleMeans /\ x \in Int /\ \A y \in CycleMeans : y \in Int /\ x <= y

\* The answer for averages is the largest mean of a cycle.
LEMMA KarpTopIs ==
  ASSUME GraphOK, Restored, Table, KarpOver, call \in Calls \cup ChoiceCalls, f \in Averages
  PROVE  /\ TopDag(AvgValues, initial) = Max(CycleMeans)
         /\ LargestMean(TopDag(AvgValues, initial))
<1>1. Ready /\ Trimmed /\ \A e \in edges : W(e) = weightOf(e)
  BY RestoredReady DEF GraphOK
<1>2. Rows
  BY <1>1, TableRows
<1>3. Divisible
  <2> SUFFICES ASSUME NEW e \in edges, NEW n \in 1 .. size
               PROVE  \E c \in Int : W(e) = n * c
    BY DEF Divisible
  <2>1. e.id \in Ids /\ W(e) = Weights[e.id]
    BY <1>1, EdgeFacts
  <2> QED
    BY <2>1, UnitsDivide
<1>4. PICK L \in Int : BestMean(L)
  BY <1>1, <1>2, <1>3, BestMeanExists
<1>5. TopDag(AvgValues, initial) = L
  BY <1>1, <1>2, <1>4, KarpAnswer DEF BestMean
<1>6. \A n \in 1 .. size : \A w : CycleOf(w, n) => SumFunctionOnSet(Along(w), 1 .. n) = Total(w)
  <2> SUFFICES ASSUME NEW n \in 1 .. size, NEW w, CycleOf(w, n)
               PROVE  SumFunctionOnSet(Along(w), 1 .. n) = Total(w)
    OBVIOUS
  <2>1. DOMAIN w = 1 .. n /\ \A j \in 1 .. n : w[j] \in edges
    BY DEF CycleOf
  <2>2. Along(w) = Load(w)
    BY <1>1, <2>1 DEF Along, Load
  <2> QED
    BY <2>1, <2>2 DEF Total
<1>7. \A n \in 1 .. size : n \in Nat /\ n >= 1
  BY SizeFacts
<1>8. ASSUME NEW x \in CycleMeans
      PROVE  x \in Int /\ x <= L
  <2>1a. PICK n \in 1 .. size : \E w : CycleOf(w, n) /\ x = SumFunctionOnSet(Along(w), 1 .. n) \div n
    BY MeansAre
  <2>1. PICK w : CycleOf(w, n) /\ x = SumFunctionOnSet(Along(w), 1 .. n) \div n
    BY <2>1a
  <2> DEFINE a == SumFunctionOnSet(Along(w), 1 .. n)
  <2>2. a \in Int /\ a <= L * n /\ x = a \div n
    BY <1>4, <1>6, <2>1, MeansAre DEF BestMean, AtMostMean
  <2> HIDE DEF a
  <2> QED
    BY <1>7, <2>2, QuotientBounds
<1>9. L \in CycleMeans
  <2>1a. PICK n \in 1 .. size : \E w : CycleOf(w, n) /\ Total(w) = L * n
    BY <1>4 DEF BestMean
  <2>1. PICK w : CycleOf(w, n) /\ Total(w) = L * n
    BY <2>1a
  <2> DEFINE a == SumFunctionOnSet(Along(w), 1 .. n)
  <2>2. a = L * n /\ a \in Int
    BY <1>6, <2>1, MeansAre
  <2>3. a \div n \in CycleMeans
    BY <2>1, MeansAre
  <2> HIDE DEF a
  <2>4. a \div n = L
    <3>1. a \div n \in Int /\ L <= a \div n /\ a \div n <= L
      BY <1>7, <2>2, QuotientBounds
    <3> QED
      BY <3>1
  <2> QED
    BY <2>3, <2>4
<1>10. CycleMeans \in SUBSET Int
  BY <1>8
<1>11. Max(CycleMeans) = L
  BY <1>8, <1>9, <1>10, MaxIs
<1>12. LargestMean(L)
  BY <1>8, <1>9 DEF LargestMean
<1> QED
  BY <1>5, <1>11, <1>12

\* For negated weights it is the smallest, negated.
LEMMA KarpBottomIs ==
  ASSUME GraphOK, Turned, Table, KarpOver, call \in Calls \cup ChoiceCalls, f \in Averages
  PROVE  /\ -TopDag(AvgValues, initial) = Min(CycleMeans)
         /\ SmallestMean(-TopDag(AvgValues, initial))
<1>1. Ready /\ Trimmed /\ \A e \in edges : W(e) = -weightOf(e)
  BY TurnedReady DEF GraphOK
<1>2. Rows
  BY <1>1, TableRows
<1>3. Divisible
  <2> SUFFICES ASSUME NEW e \in edges, NEW n \in 1 .. size
               PROVE  \E c \in Int : W(e) = n * c
    BY DEF Divisible
  <2>1. e.id \in Ids /\ W(e) = -Weights[e.id]
    BY <1>1, EdgeFacts
  <2>2. PICK c \in Int : Weights[e.id] = n * c
    BY <2>1, UnitsDivide
  <2>3. n \in Int
    BY SizeFacts
  <2>4. -(n * c) = n * (-c) /\ -c \in Int
    BY <2>3
  <2> QED
    BY <2>1, <2>2, <2>4
<1>4. PICK L \in Int : BestMean(L)
  BY <1>1, <1>2, <1>3, BestMeanExists
<1>5. TopDag(AvgValues, initial) = L
  BY <1>1, <1>2, <1>4, KarpAnswer DEF BestMean
<1>6. \A n \in 1 .. size : \A w : CycleOf(w, n) => SumFunctionOnSet(Along(w), 1 .. n) = -Total(w) /\ Total(w) \in Int
  <2> SUFFICES ASSUME NEW n \in 1 .. size, NEW w, CycleOf(w, n)
               PROVE  SumFunctionOnSet(Along(w), 1 .. n) = -Total(w) /\ Total(w) \in Int
    OBVIOUS
  <2>1. DOMAIN w = 1 .. n /\ IsFiniteSet(1 .. n) /\ \A j \in 1 .. n : w[j] \in edges
    BY FS_Interval DEF CycleOf
  <2>2. \A j \in 1 .. n : Load(w)[j] = -weightOf(w[j]) /\ weightOf(w[j]) \in Int /\ Along(w)[j] = weightOf(w[j])
    BY <1>1, <2>1, EdgeFacts DEF Along, Load
  <2>3. -1 \in Int /\ \A j \in 1 .. n : Load(w)[j] \in Int /\ Along(w)[j] = (-1) * Load(w)[j]
    BY <2>2
  <2>4. SumFunctionOnSet(Along(w), 1 .. n) = (-1) * SumFunctionOnSet(Load(w), 1 .. n)
    BY <2>1, <2>3, SumScale
  <2>5. SumFunctionOnSet(Load(w), 1 .. n) \in Int
    BY <2>1, <2>3, SumRemove
  <2>6. Total(w) = SumFunctionOnSet(Load(w), 1 .. n)
    BY <2>1 DEF Total
  <2> QED
    BY <2>4, <2>5, <2>6
<1>7. \A n \in 1 .. size : n \in Nat /\ n >= 1
  BY SizeFacts
<1>8. -L \in Int /\ \A n \in Nat : L * n \in Int /\ (-L) * n = -(L * n)
  OBVIOUS
<1> DEFINE K == -L
<1>9. K \in Int
  BY <1>8
<1>10. ASSUME NEW x \in CycleMeans
       PROVE  x \in Int /\ K <= x
  <2>1a. PICK n \in 1 .. size : \E w : CycleOf(w, n) /\ x = SumFunctionOnSet(Along(w), 1 .. n) \div n
    BY MeansAre
  <2>1. PICK w : CycleOf(w, n) /\ x = SumFunctionOnSet(Along(w), 1 .. n) \div n
    BY <2>1a
  <2> DEFINE a == SumFunctionOnSet(Along(w), 1 .. n)
  <2>2. a \in Int /\ x = a \div n
    BY <2>1, MeansAre
  <2>3. K * n <= a
    <3>1. Total(w) <= L * n /\ a = -Total(w) /\ Total(w) \in Int
      BY <1>4, <1>6, <2>1 DEF BestMean, AtMostMean
    <3> QED
      BY <1>7, <1>8, <3>1
  <2> HIDE DEF a, K
  <2> QED
    BY <1>7, <1>9, <2>2, <2>3, QuotientBounds
<1>11. K \in CycleMeans
  <2>1a. PICK n \in 1 .. size : \E w : CycleOf(w, n) /\ Total(w) = L * n
    BY <1>4 DEF BestMean
  <2>1. PICK w : CycleOf(w, n) /\ Total(w) = L * n
    BY <2>1a
  <2> DEFINE a == SumFunctionOnSet(Along(w), 1 .. n)
  <2>2. a \in Int /\ a = K * n
    <3>1. a = -(L * n) /\ a \in Int
      BY <1>6, <2>1, MeansAre
    <3> QED
      BY <1>7, <1>8, <3>1
  <2>3. a \div n \in CycleMeans
    BY <2>1, MeansAre
  <2> HIDE DEF a, K
  <2>4. a \div n = K
    <3>1. a \div n \in Int /\ K <= a \div n /\ a \div n <= K
      BY <1>7, <1>9, <2>2, QuotientBounds
    <3> QED
      BY <1>9, <3>1
  <2> QED
    BY <2>3, <2>4
<1>12. CycleMeans \in SUBSET Int
  BY <1>10
<1> HIDE DEF K
<1>13. Min(CycleMeans) = K
  BY <1>10, <1>11, <1>12, MinIs
<1>14. SmallestMean(K)
  BY <1>9, <1>10, <1>11 DEF SmallestMean
<1> QED
  BY <1>5, <1>13, <1>14 DEF K

-----------------------------------------------------------------------------
(* The profiles of the words *)

\* P with one symbol more.
Append1(H, P, a) == Then(P, Profile(H, a))

\* The profile of a symbol is a set of moves.
LEMMA ProfileIn ==
  ASSUME GraphOK, NEW H, NEW a \in Symbol
  PROVE  Profile(H, a) \in SUBSET Moves
<1>1. \A e \in edges : [from |-> e.from, all |-> e \in H, some |-> e \in H, to |-> e.to] \in Moves
  BY EdgeFacts DEF Moves
<1> QED
  BY <1>1 DEF Profile

\* So is that of a word.
LEMMA ThenIn ==
  ASSUME NEW P \in SUBSET Moves, NEW Q \in SUBSET Moves
  PROVE  Then(P, Q) \in SUBSET Moves
BY DEF Then, Moves

\* There are finitely many moves.
LEMMA MovesFinite == IsFiniteSet(Moves)
<1> DEFINE D == (State \X BOOLEAN) \X (BOOLEAN \X State)
           g == [x \in D |-> [from |-> x[1][1], all |-> x[1][2], some |-> x[2][1], to |-> x[2][2]]]
<1>1. IsFiniteSet(BOOLEAN)
  <2>1. IsFiniteSet({TRUE}) /\ IsFiniteSet({FALSE})
    BY FS_Singleton
  <2>2. BOOLEAN = {TRUE} \cup {FALSE}
    OBVIOUS
  <2> QED
    BY <2>1, <2>2, FS_Union
<1>2. IsFiniteSet(State \X BOOLEAN) /\ IsFiniteSet(BOOLEAN \X State)
  BY <1>1, StateAssumption, FS_Product
<1>3. IsFiniteSet(D)
  BY <1>2, FS_Product
<1>4. ASSUME NEW m \in Moves
      PROVE  m \in {g[x] : x \in D}
  <2>1. << <<m.from, m.all>>, <<m.some, m.to>> >> \in D
    BY DEF Moves
  <2>2. g[<< <<m.from, m.all>>, <<m.some, m.to>> >>] = m
    BY <2>1 DEF Moves
  <2> QED
    BY <2>1, <2>2
<1> HIDE DEF g, D
<1>5. IsFiniteSet({g[x] : x \in D})
  BY <1>3, FiniteImage
<1>6. Moves \in SUBSET {g[x] : x \in D}
  BY <1>4
<1> QED
  BY <1>5, <1>6, FS_Subset

\* Sets of profiles with those of the symbols, and with one symbol more.
Generated(H, C) ==
  /\ \A a \in Symbol : Profile(H, a) \in C
  /\ \A P \in C, a \in Symbol : Append1(H, P, a) \in C

\* The profiles are the least such set.
LEMMA ProfilesAre ==
  ASSUME GraphOK, NEW H
  PROVE  /\ Profiles(H) \in SUBSET SUBSET Moves
         /\ Generated(H, Profiles(H))
         /\ \A C \in SUBSET SUBSET Moves : Generated(H, C) => Profiles(H) \subseteq C
<1> DEFINE S == SUBSET Moves
           longer(found) == found \cup {Then(P, Profile(H, a)) : P \in found, a \in Symbol}
           g == [A \in SUBSET S |-> longer(A)]
           start == {Profile(H, a) : a \in Symbol}
           Def(c) == [found \in SUBSET SUBSET Moves |->
                        IF longer(found) = found THEN found ELSE c[longer(found)]]
           c == CHOOSE h : h = Def(h)
<1>1. Profiles(H) = c[start]
  BY DEF Profiles
<1>2. IsFiniteSet(S)
  BY MovesFinite, FS_SUBSET
<1>3. \A A \in SUBSET S : longer(A) \in SUBSET S /\ A \subseteq longer(A)
  BY ProfileIn, ThenIn
<1>4. start \in SUBSET S
  BY ProfileIn
<1> HIDE DEF longer, start, S
<1>5. g \in [SUBSET S -> SUBSET S] /\ \A A \in SUBSET S : g[A] = longer(A) /\ A \subseteq g[A]
  BY <1>3
<1>6. \A h : h = Def(h) <=> Saturates(h, g, S)
  BY <1>5 DEF Saturates, S
<1> HIDE DEF g, Def
<1>7. \E h : h = Def(h)
  BY <1>2, <1>5, <1>6, SaturationExists
<1>8. c = Def(c)
  BY <1>7
<1> HIDE DEF c
<1>9. Saturates(c, g, S)
  BY <1>6, <1>8
<1>10. \A A \in SUBSET S :
         /\ c[A] \in SUBSET S /\ g[c[A]] = c[A]
         /\ \A E \in SUBSET SUBSET S : A \in E /\ (\A X \in E : g[X] \in E) => c[A] \in E
  BY <1>2, <1>5, <1>9, SaturationIs
<1>11. c[start] \in SUBSET S /\ g[c[start]] = c[start]
  BY <1>4, <1>10
<1>12. ASSUME NEW X \in SUBSET S, start \subseteq X, longer(X) \subseteq X
       PROVE  c[start] \subseteq X
  <2> DEFINE D == {A \in SUBSET S : A \subseteq X}
  <2>1. \A A \in D : longer(A) \in D
    BY <1>3, <1>12 DEF longer
  <2>2. start \in D /\ D \in SUBSET SUBSET S
    BY <1>4, <1>12
  <2> HIDE DEF D
  <2>3. \A A \in D : g[A] \in D
    BY <1>5, <2>1, <2>2
  <2>4. c[start] \in D
    BY <1>4, <1>10, <2>2, <2>3
  <2> QED
    BY <2>4 DEF D
<1>13. start \subseteq c[start]
  <2> DEFINE D == {A \in SUBSET S : start \subseteq A}
  <2>1. \A A \in D : longer(A) \in D
    BY <1>3
  <2>2. start \in D /\ D \in SUBSET SUBSET S
    BY <1>4
  <2> HIDE DEF D
  <2>3. \A A \in D : g[A] \in D
    BY <1>5, <2>1, <2>2
  <2>4. c[start] \in D
    BY <1>4, <1>10, <2>2, <2>3
  <2> QED
    BY <2>4 DEF D
<1>14. Generated(H, c[start])
  <2>1. longer(c[start]) = c[start]
    BY <1>5, <1>11
  <2>2. \A a \in Symbol : Profile(H, a) \in c[start]
    BY <1>13 DEF start
  <2>3. \A P \in c[start], a \in Symbol : Append1(H, P, a) \in longer(c[start])
    BY DEF longer, Append1
  <2> QED
    BY <2>1, <2>2, <2>3 DEF Generated
<1>15. \A C \in SUBSET SUBSET Moves : Generated(H, C) => c[start] \subseteq C
  <2> SUFFICES ASSUME NEW C \in SUBSET SUBSET Moves, Generated(H, C)
               PROVE  c[start] \subseteq C
    OBVIOUS
  <2>1. start \subseteq C
    BY DEF start, Generated
  <2>2. longer(C) \subseteq C
    BY DEF longer, Generated, Append1
  <2> QED
    BY <1>12, <2>1, <2>2 DEF S
<1> QED
  BY <1>1, <1>11, <1>14, <1>15 DEF S

-----------------------------------------------------------------------------
(* Words one after the other *)

Link(p, q) ==
  [from |-> p.from, all |-> p.all /\ q.all, some |-> p.some \/ q.some, to |-> q.to]

\* The moves over two words are those over the first with those over the second.
LEMMA ThenIs ==
  ASSUME NEW P, NEW Q, NEW m
  PROVE  m \in Then(P, Q) <=> \E p \in P, q \in Q : p.to = q.from /\ m = Link(p, q)
<1>1. ASSUME m \in Then(P, Q)
      PROVE  \E p \in P, q \in Q : p.to = q.from /\ m = Link(p, q)
  <2>1. PICK x \in {y \in P \X Q : y[1].to = y[2].from} : m = Link(x[1], x[2])
    BY <1>1 DEF Then, Link
  <2>2. x[1] \in P /\ x[2] \in Q /\ x[1].to = x[2].from
    OBVIOUS
  <2> QED
    BY <2>1, <2>2
<1>2. ASSUME NEW p \in P, NEW q \in Q, p.to = q.from
      PROVE  Link(p, q) \in Then(P, Q)
  <2>1. <<p, q>> \in {y \in P \X Q : y[1].to = y[2].from}
    BY <1>2
  <2>2. Link(p, q) = Link(<<p, q>>[1], <<p, q>>[2])
    OBVIOUS
  <2> QED
    BY <2>1 DEF Then, Link
<1> QED
  BY <1>1, <1>2

\* What two moves make.
LEMMA LinkIs ==
  ASSUME NEW p, NEW q
  PROVE  /\ Link(p, q).from = p.from /\ Link(p, q).to = q.to
         /\ Link(p, q).all <=> p.all /\ q.all
         /\ Link(p, q).some <=> p.some \/ q.some
BY DEF Link

\* Moves can be put together in either order.
LEMMA LinkAssociative ==
  ASSUME NEW p, NEW q, NEW r
  PROVE  Link(Link(p, q), r) = Link(p, Link(q, r))
BY DEF Link

\* So can words.
LEMMA ThenAssociative ==
  ASSUME NEW P, NEW Q, NEW R
  PROVE  Then(Then(P, Q), R) = Then(P, Then(Q, R))
<1>1. ASSUME NEW m \in Then(Then(P, Q), R)
      PROVE  m \in Then(P, Then(Q, R))
  <2>1. PICK k \in Then(P, Q), r \in R : k.to = r.from /\ m = Link(k, r)
    BY ThenIs
  <2>2. PICK p \in P, q \in Q : p.to = q.from /\ k = Link(p, q)
    BY ThenIs
  <2>3. q.to = r.from
    BY <2>1, <2>2, LinkIs
  <2>4. Link(q, r) \in Then(Q, R) /\ p.to = Link(q, r).from
    BY <2>2, <2>3, ThenIs, LinkIs
  <2>5. m = Link(p, Link(q, r))
    BY <2>1, <2>2, LinkAssociative
  <2> QED
    BY <2>4, <2>5, ThenIs
<1>2. ASSUME NEW m \in Then(P, Then(Q, R))
      PROVE  m \in Then(Then(P, Q), R)
  <2>1. PICK p \in P, k \in Then(Q, R) : p.to = k.from /\ m = Link(p, k)
    BY ThenIs
  <2>2. PICK q \in Q, r \in R : q.to = r.from /\ k = Link(q, r)
    BY ThenIs
  <2>3. p.to = q.from
    BY <2>1, <2>2, LinkIs
  <2>4. Link(p, q) \in Then(P, Q) /\ Link(p, q).to = r.from
    BY <2>2, <2>3, ThenIs, LinkIs
  <2>5. m = Link(Link(p, q), r)
    BY <2>1, <2>2, LinkAssociative
  <2> QED
    BY <2>4, <2>5, ThenIs
<1> QED
  BY <1>1, <1>2

\* A finite set of profiles with what any two of them make has one that is
\* what two of it make.
LEMMA Idempotent ==
  ASSUME NEW T, IsFiniteSet(T), T # {}, \A P, Q \in T : Then(P, Q) \in T
  PROVE  \E E \in T : Then(E, E) = E
<1> DEFINE Whole(U) == \A P, Q \in U : Then(P, Q) \in U
           Has(U) == \E E \in U : Then(E, E) = E
           Z == {U \in SUBSET T : \A V \in SUBSET U : V # {} /\ Whole(V) => Has(V)}
<1>1. ASSUME NEW U \in SUBSET T, \A x \in U : U \ {x} \in Z,
             NEW V \in SUBSET U, V # {}, Whole(V)
      PROVE  Has(V)
  <2>1. ASSUME NEW X \in SUBSET V, X # V, X # {}, Whole(X)
        PROVE  Has(V)
    <3>1. PICK x \in U : X \in SUBSET (U \ {x})
      BY <2>1
    <3>2. U \ {x} \in Z
      BY <1>1
    <3>3. Has(X)
      <4> HIDE DEF Has, Whole
      <4> QED
        BY <2>1, <3>1, <3>2
    <3> QED
      BY <3>3
  <2>2. PICK e \in V : TRUE
    BY <1>1
  <2> DEFINE X == {Then(e, q) : q \in V}
             Y == {q \in V : Then(e, q) = e}
  <2>3. X \in SUBSET V /\ X # {}
    BY <1>1
  <2>4. Whole(X)
    <3> SUFFICES ASSUME NEW p \in V, NEW q \in V
                 PROVE  Then(Then(e, p), Then(e, q)) \in X
      OBVIOUS
    <3>1. Then(p, Then(e, q)) \in V
      BY <1>1
    <3>2. Then(Then(e, p), Then(e, q)) = Then(e, Then(p, Then(e, q)))
      BY ThenAssociative
    <3> QED
      BY <3>1, <3>2
  <2>5. Y \in SUBSET V
    OBVIOUS
  <2>6. Whole(Y)
    <3> SUFFICES ASSUME NEW p \in Y, NEW q \in Y
                 PROVE  Then(p, q) \in Y
      OBVIOUS
    <3>1. Then(p, q) \in V
      BY <1>1
    <3>2. Then(e, Then(p, q)) = Then(Then(e, p), q)
      BY ThenAssociative
    <3> QED
      BY <3>1, <3>2
  <2>7. CASE X = V
    <3>1. PICK q \in V : Then(e, q) = e
      <4>1. e \in X
        BY <2>7
      <4> QED
        BY <4>1
    <3>2. Y # {}
      BY <3>1
    <3>3. CASE Y = V
      <4>1. e \in Y
        BY <3>3
      <4> QED
        BY <4>1
    <3>4. CASE Y # V
      <4> HIDE DEF X, Y, Whole, Has
      <4> QED
        BY <2>1, <2>5, <2>6, <3>2, <3>4
    <3> QED
      BY <3>3, <3>4
  <2>8. CASE X # V
    <3> HIDE DEF X, Whole, Has
    <3> QED
      BY <2>1, <2>3, <2>4, <2>8
  <2> QED
    BY <2>7, <2>8
<1>2. \A U \in SUBSET T : (\A x \in U : U \ {x} \in Z) => U \in Z
  <2> HIDE DEF Whole, Has
  <2> QED
    BY <1>1
<1>3. Whole(T)
  OBVIOUS
<1> HIDE DEF Whole, Has, Z
<1>4. T \in Z
  BY <1>2, FiniteDescent
<1>5. Has(T)
  BY <1>3, <1>4 DEF Z
<1> QED
  BY <1>5 DEF Has

-----------------------------------------------------------------------------
(* The profiles of a word for two sets of edges *)

Pairs == (SUBSET Moves) \X (SUBSET Moves)

GeneratedPairs(H, K, C) ==
  /\ \A a \in Symbol : <<Profile(H, a), Profile(K, a)>> \in C
  /\ \A x \in C, a \in Symbol : <<Append1(H, x[1], a), Append1(K, x[2], a)>> \in C

Together(H, K) == {x \in Pairs : \A C \in SUBSET Pairs : GeneratedPairs(H, K, C) => x \in C}

\* The pairs of profiles of the same word are the least set made from those of symbols.
LEMMA TogetherGenerated ==
  ASSUME GraphOK, NEW H, NEW K
  PROVE  /\ Together(H, K) \in SUBSET Pairs
         /\ GeneratedPairs(H, K, Together(H, K))
         /\ \A C \in SUBSET Pairs : GeneratedPairs(H, K, C) => Together(H, K) \subseteq C
<1>1. Together(H, K) \in SUBSET Pairs
  BY DEF Together
<1>2. \A C \in SUBSET Pairs : GeneratedPairs(H, K, C) => Together(H, K) \subseteq C
  BY DEF Together
<1>3. ASSUME NEW a \in Symbol
      PROVE  <<Profile(H, a), Profile(K, a)>> \in Together(H, K)
  <2>1. <<Profile(H, a), Profile(K, a)>> \in Pairs
    BY ProfileIn DEF Pairs
  <2> QED
    BY <2>1 DEF Together, GeneratedPairs
<1>4. ASSUME NEW x \in Together(H, K), NEW a \in Symbol
      PROVE  <<Append1(H, x[1], a), Append1(K, x[2], a)>> \in Together(H, K)
  <2>1. x[1] \in SUBSET Moves /\ x[2] \in SUBSET Moves
    BY <1>1 DEF Pairs
  <2>2. <<Append1(H, x[1], a), Append1(K, x[2], a)>> \in Pairs
    BY <2>1, ProfileIn, ThenIn DEF Pairs, Append1
  <2>3. \A C \in SUBSET Pairs : GeneratedPairs(H, K, C) => x \in C
    BY DEF Together
  <2>4. \A C \in SUBSET Pairs : GeneratedPairs(H, K, C) => <<Append1(H, x[1], a), Append1(K, x[2], a)>> \in C
    BY <2>3 DEF GeneratedPairs
  <2> QED
    BY <2>2, <2>4 DEF Together
<1>5. GeneratedPairs(H, K, Together(H, K))
  BY <1>3, <1>4 DEF GeneratedPairs
<1> QED
  BY <1>1, <1>2, <1>5

\* Two words one after the other are a word.
LEMMA TogetherThen ==
  ASSUME GraphOK, NEW H, NEW K, NEW x \in Together(H, K), NEW y \in Together(H, K)
  PROVE  <<Then(x[1], y[1]), Then(x[2], y[2])>> \in Together(H, K)
<1> DEFINE S == Together(H, K)
           C == {z \in S : <<Then(x[1], z[1]), Then(x[2], z[2])>> \in S}
<1>1. S \in SUBSET Pairs /\ GeneratedPairs(H, K, S)
  BY TogetherGenerated
<1>2. \A D \in SUBSET Pairs : GeneratedPairs(H, K, D) => S \subseteq D
  BY TogetherGenerated
<1>3. x \in S /\ y \in S
  OBVIOUS
<1> HIDE DEF S
<1>4. ASSUME NEW a \in Symbol
      PROVE  <<Profile(H, a), Profile(K, a)>> \in C
  <2>1. <<Profile(H, a), Profile(K, a)>> \in S
    BY <1>1 DEF GeneratedPairs
  <2>2. <<Then(x[1], Profile(H, a)), Then(x[2], Profile(K, a))>> \in S
    BY <1>1, <1>3 DEF GeneratedPairs, Append1
  <2> QED
    BY <2>1, <2>2
<1>5. ASSUME NEW z \in C, NEW a \in Symbol
      PROVE  <<Append1(H, z[1], a), Append1(K, z[2], a)>> \in C
  <2>1. z \in S /\ <<Then(x[1], z[1]), Then(x[2], z[2])>> \in S
    OBVIOUS
  <2>2. <<Append1(H, z[1], a), Append1(K, z[2], a)>> \in S
    BY <1>1, <2>1 DEF GeneratedPairs
  <2>3. <<Append1(H, Then(x[1], z[1]), a), Append1(K, Then(x[2], z[2]), a)>> \in S
    <3> DEFINE w == <<Then(x[1], z[1]), Then(x[2], z[2])>>
    <3>1. w[1] = Then(x[1], z[1]) /\ w[2] = Then(x[2], z[2]) /\ w \in S
      BY <2>1
    <3> HIDE DEF w
    <3>2. <<Append1(H, w[1], a), Append1(K, w[2], a)>> \in S
      BY <1>1, <3>1 DEF GeneratedPairs
    <3> QED
      BY <3>1, <3>2
  <2>4. /\ Append1(H, Then(x[1], z[1]), a) = Then(x[1], Append1(H, z[1], a))
        /\ Append1(K, Then(x[2], z[2]), a) = Then(x[2], Append1(K, z[2], a))
    BY ThenAssociative DEF Append1
  <2> QED
    BY <2>2, <2>3, <2>4
<1>6. C \in SUBSET Pairs
  BY <1>1
<1> HIDE DEF C
<1>7. y \in C
  BY <1>2, <1>3, <1>4, <1>5, <1>6 DEF GeneratedPairs
<1> QED
  BY <1>7 DEF C, S

\* Every profile for either set has one for the other.
LEMMA TogetherProfiles ==
  ASSUME GraphOK, NEW H, NEW K
  PROVE  /\ \A x \in Together(H, K) : x[1] \in Profiles(H)
         /\ \A Q \in Profiles(K) : \E x \in Together(H, K) : x[2] = Q
<1>1. /\ Together(H, K) \in SUBSET Pairs
      /\ GeneratedPairs(H, K, Together(H, K))
      /\ \A C \in SUBSET Pairs : GeneratedPairs(H, K, C) => Together(H, K) \subseteq C
  BY TogetherGenerated
<1>2. \A x \in Together(H, K) : x[1] \in Profiles(H)
  <2> DEFINE C == {x \in Pairs : x[1] \in Profiles(H)}
  <2>1. Generated(H, Profiles(H)) /\ Profiles(H) \in SUBSET SUBSET Moves
    BY ProfilesAre
  <2>2. ASSUME NEW a \in Symbol
        PROVE  <<Profile(H, a), Profile(K, a)>> \in C
    BY <2>1, ProfileIn DEF Generated, Pairs
  <2>3. ASSUME NEW x \in C, NEW a \in Symbol
        PROVE  <<Append1(H, x[1], a), Append1(K, x[2], a)>> \in C
    <3>1. x[1] \in SUBSET Moves /\ x[2] \in SUBSET Moves /\ x[1] \in Profiles(H)
      BY DEF Pairs
    <3>2. <<Append1(H, x[1], a), Append1(K, x[2], a)>> \in Pairs
      BY <3>1, ProfileIn, ThenIn DEF Pairs, Append1
    <3>3. Append1(H, x[1], a) \in Profiles(H)
      BY <2>1, <3>1 DEF Generated
    <3> QED
      BY <3>2, <3>3
  <2>4. C \in SUBSET Pairs
    OBVIOUS
  <2>5. GeneratedPairs(H, K, C)
    <3> HIDE DEF C
    <3> QED
      BY <2>2, <2>3 DEF GeneratedPairs
  <2>6. Together(H, K) \subseteq C
    BY <1>1, <2>4, <2>5
  <2> QED
    BY <2>6
<1>3. \A Q \in Profiles(K) : \E x \in Together(H, K) : x[2] = Q
  <2> DEFINE C == {x[2] : x \in Together(H, K)}
  <2>1. C \in SUBSET SUBSET Moves
    BY <1>1 DEF Pairs
  <2>2. ASSUME NEW a \in Symbol
        PROVE  Profile(K, a) \in C
    <3>1. <<Profile(H, a), Profile(K, a)>> \in Together(H, K)
      BY <1>1 DEF GeneratedPairs
    <3> QED
      BY <3>1
  <2>3. ASSUME NEW x \in Together(H, K), NEW a \in Symbol
        PROVE  Append1(K, x[2], a) \in C
    <3>1. <<Append1(H, x[1], a), Append1(K, x[2], a)>> \in Together(H, K)
      BY <1>1 DEF GeneratedPairs
    <3> QED
      BY <3>1
  <2>4. Generated(K, C)
    BY <2>2, <2>3 DEF Generated
  <2>5. Profiles(K) \subseteq C
    <3> HIDE DEF C
    <3> QED
      BY <2>1, <2>4, ProfilesAre
  <2> QED
    BY <2>5
<1> QED
  BY <1>2, <1>3

\* Move m goes where k goes, on no fewer edges of its set.
AtLeastAs(m, k) ==
  m.from = k.from /\ m.to = k.to /\ (k.all => m.all) /\ (k.some => m.some)

\* A run over a word has no fewer edges in the larger set.
LEMMA TogetherMoves ==
  ASSUME GraphOK, NEW H, NEW K, H \subseteq K, NEW x \in Together(H, K), NEW k \in x[1]
  PROVE  \E m \in x[2] : AtLeastAs(m, k)
<1> DEFINE Above(z) == \A d \in z[1] : \E m \in z[2] : AtLeastAs(m, d)
           C == {z \in Pairs : Above(z)}
<1>1. ASSUME NEW a \in Symbol, NEW d \in Profile(H, a)
      PROVE  \E m \in Profile(K, a) : AtLeastAs(m, d)
  <2>1. PICK e \in {g \in edges : g.symbol = a} :
          d = [from |-> e.from, all |-> e \in H, some |-> e \in H, to |-> e.to]
    BY DEF Profile
  <2> DEFINE m == [from |-> e.from, all |-> e \in K, some |-> e \in K, to |-> e.to]
  <2>2. m \in Profile(K, a)
    BY DEF Profile
  <2>3. AtLeastAs(m, d)
    BY <2>1 DEF AtLeastAs
  <2> QED
    BY <2>2, <2>3
<1>2. ASSUME NEW z \in C, NEW a \in Symbol, NEW d \in Append1(H, z[1], a)
      PROVE  \E m \in Append1(K, z[2], a) : AtLeastAs(m, d)
  <2>1. PICK p \in z[1], q \in Profile(H, a) : p.to = q.from /\ d = Link(p, q)
    BY ThenIs DEF Append1
  <2>2. PICK m \in z[2] : AtLeastAs(m, p)
    OBVIOUS
  <2>3. PICK r \in Profile(K, a) : AtLeastAs(r, q)
    BY <1>1
  <2>4. m.to = r.from
    BY <2>1, <2>2, <2>3 DEF AtLeastAs
  <2>5. Link(m, r) \in Append1(K, z[2], a)
    BY <2>4, ThenIs DEF Append1
  <2>6. AtLeastAs(Link(m, r), d)
    BY <2>1, <2>2, <2>3, LinkIs DEF AtLeastAs
  <2> QED
    BY <2>5, <2>6
<1>3. ASSUME NEW a \in Symbol
      PROVE  <<Profile(H, a), Profile(K, a)>> \in C
  <2>1. <<Profile(H, a), Profile(K, a)>> \in Pairs
    BY ProfileIn DEF Pairs
  <2>2. Above(<<Profile(H, a), Profile(K, a)>>)
    BY <1>1
  <2> QED
    BY <2>1, <2>2
<1>4. ASSUME NEW z \in C, NEW a \in Symbol
      PROVE  <<Append1(H, z[1], a), Append1(K, z[2], a)>> \in C
  <2>1. z[1] \in SUBSET Moves /\ z[2] \in SUBSET Moves
    BY DEF Pairs
  <2>2. <<Append1(H, z[1], a), Append1(K, z[2], a)>> \in Pairs
    BY <2>1, ProfileIn, ThenIn DEF Pairs, Append1
  <2>3. Above(<<Append1(H, z[1], a), Append1(K, z[2], a)>>)
    BY <1>2
  <2> QED
    BY <2>2, <2>3
<1>5. C \in SUBSET Pairs
  OBVIOUS
<1>6. GeneratedPairs(H, K, C)
  <2> HIDE DEF C
  <2> QED
    BY <1>3, <1>4 DEF GeneratedPairs
<1>7. x \in C
  <2> HIDE DEF C
  <2> QED
    BY <1>5, <1>6, TogetherGenerated
<1> QED
  BY <1>7

-----------------------------------------------------------------------------
(* isUniversal *)

\* More edges: no word loses a run.
LEMMA UniversalMonotone ==
  ASSUME GraphOK, NEW H, NEW K, H \subseteq K, NEW g \in Extrema, Universal(H, g)
  PROVE  Universal(K, g)
<1> SUFFICES ASSUME NEW V \in Profiles(K), Then(V, V) = V, NEW U \in Profiles(K), Then(U, V) = U
             PROVE  \E u \in U, v \in V :
                      u.from = initial /\ u.to = v.from /\ v.to = v.from /\ Keeps(g, u, v)
  BY DEF Universal
<1> DEFINE S == Together(H, K)
           T == {P \in SUBSET Moves : <<P, V>> \in S}
<1>1. /\ \A x \in S : x[1] \in Profiles(H) /\ x[1] \in SUBSET Moves /\ x = <<x[1], x[2]>>
      /\ \A Q \in Profiles(K) : \E x \in S : x[2] = Q
      /\ \A x, y \in S : <<Then(x[1], y[1]), Then(x[2], y[2])>> \in S
      /\ \A x \in S : \A k \in x[1] : \E m \in x[2] : AtLeastAs(m, k)
  BY TogetherProfiles, TogetherGenerated, TogetherThen, TogetherMoves DEF Pairs
<1> HIDE DEF S
<1>2. IsFiniteSet(T)
  <2>1. IsFiniteSet(SUBSET Moves)
    BY MovesFinite, FS_SUBSET
  <2> QED
    BY <2>1, FS_Subset
<1>3. T # {}
  <2>1. PICK x \in S : x[2] = V
    BY <1>1
  <2>2. x[1] \in T
    BY <1>1, <2>1
  <2> QED
    BY <2>2
<1>4. ASSUME NEW P \in T, NEW Q \in T
      PROVE  Then(P, Q) \in T
  <2>1. <<P, V>> \in S /\ <<Q, V>> \in S
    OBVIOUS
  <2>2. <<Then(P, Q), Then(V, V)>> \in S
    BY <1>1, <2>1
  <2> QED
    BY <2>2, ThenIn
<1>5. PICK E \in T : Then(E, E) = E
  <2> HIDE DEF T
  <2> QED
    BY <1>2, <1>3, <1>4, Idempotent
<1>6. PICK x \in S : x[2] = U
  BY <1>1
<1> DEFINE Y == Then(x[1], E)
<1>7. <<E, V>> \in S /\ <<Y, U>> \in S
  <2>1. <<E, V>> \in S
    OBVIOUS
  <2> QED
    BY <1>1, <1>6, <2>1
<1>8. Then(Y, E) = Y
  BY <1>5, ThenAssociative
<1>9. Y \in Profiles(H) /\ E \in Profiles(H)
  BY <1>1, <1>7
<1> HIDE DEF Y
<1>10. PICK u \in Y, v \in E : u.from = initial /\ u.to = v.from /\ v.to = v.from /\ Keeps(g, u, v)
  BY <1>5, <1>8, <1>9 DEF Universal
<1>11. PICK m \in U : AtLeastAs(m, u)
  BY <1>1, <1>7
<1>12. PICK r \in V : AtLeastAs(r, v)
  BY <1>1, <1>7
<1>13. m.from = initial /\ m.to = r.from /\ r.to = r.from
  BY <1>10, <1>11, <1>12 DEF AtLeastAs
<1>14. Keeps(g, m, r)
  BY <1>10, <1>11, <1>12 DEF AtLeastAs, Keeps, Extrema
<1> QED
  BY <1>13, <1>14

\* On all edges every word has a run from everywhere.
Everywhere(P) ==
  /\ \A s \in State : \E m \in P : m.from = s
  /\ \A m \in P : m.to \in State /\ m.all /\ m.some

\* In a complete automaton every word has a run from every state.
LEMMA ProfilesEverywhere ==
  ASSUME GraphOK, NEW P \in Profiles(edges)
  PROVE  Everywhere(P)
<1> DEFINE C == {Q \in SUBSET Moves : Everywhere(Q)}
<1>1. ASSUME NEW a \in Symbol
      PROVE  Everywhere(Profile(edges, a)) /\ Profile(edges, a) \in SUBSET Moves
  <2>1. ASSUME NEW s \in State
        PROVE  \E m \in Profile(edges, a) : m.from = s
    <3>1. PICK e \in edges : e.from = s /\ e.symbol = a
      BY DEF GraphOK
    <3> DEFINE m == [from |-> e.from, all |-> e \in edges, some |-> e \in edges, to |-> e.to]
    <3>2. m \in Profile(edges, a)
      BY <3>1 DEF Profile
    <3> QED
      BY <3>1, <3>2
  <2>2. \A m \in Profile(edges, a) : m.to \in State /\ m.all /\ m.some
    <3> TAKE m \in Profile(edges, a)
    <3>1. PICK e \in edges :
            m = [from |-> e.from, all |-> e \in edges, some |-> e \in edges, to |-> e.to]
      BY DEF Profile
    <3>2. e.to \in State
      BY EdgeFacts
    <3> QED
      BY <3>1, <3>2
  <2> QED
    BY <2>1, <2>2, ProfileIn DEF Everywhere
<1>2. ASSUME NEW Q \in C, NEW a \in Symbol
      PROVE  Append1(edges, Q, a) \in C
  <2>1. Everywhere(Q) /\ Q \in SUBSET Moves
    OBVIOUS
  <2>2. ASSUME NEW s \in State
        PROVE  \E m \in Append1(edges, Q, a) : m.from = s
    <3>1. PICK q \in Q : q.from = s /\ q.to \in State
      BY <2>1 DEF Everywhere
    <3>2. PICK p \in Profile(edges, a) : p.from = q.to
      BY <1>1, <3>1 DEF Everywhere
    <3>3. Link(q, p) \in Append1(edges, Q, a)
      BY <3>2, ThenIs DEF Append1
    <3> QED
      BY <3>1, <3>3, LinkIs
  <2>3. ASSUME NEW m \in Append1(edges, Q, a)
        PROVE  m.to \in State /\ m.all /\ m.some
    <3>1. PICK q \in Q, p \in Profile(edges, a) : q.to = p.from /\ m = Link(q, p)
      BY ThenIs DEF Append1
    <3> QED
      BY <1>1, <2>1, <3>1, LinkIs DEF Everywhere
  <2>4. Append1(edges, Q, a) \in SUBSET Moves
    BY <1>1, <2>1, ThenIn DEF Append1
  <2> QED
    BY <2>2, <2>3, <2>4 DEF Everywhere
<1>3. Generated(edges, C)
  <2>1. \A a \in Symbol : Profile(edges, a) \in C
    BY <1>1
  <2> HIDE DEF C
  <2> QED
    BY <1>2, <2>1 DEF Generated
<1>4. P \in C
  <2>1. C \in SUBSET SUBSET Moves
    OBVIOUS
  <2> HIDE DEF C
  <2> QED
    BY <1>3, <2>1, ProfilesAre
<1> QED
  BY <1>4

\* All words have a run on all edges: it gets into a loop over what is repeated.
LEMMA UniversalAll ==
  ASSUME GraphOK, NEW g \in Extrema
  PROVE  Universal(edges, g)
<1> SUFFICES ASSUME NEW V \in Profiles(edges), Then(V, V) = V,
                    NEW U \in Profiles(edges), Then(U, V) = U
             PROVE  \E u \in U, v \in V :
                      u.from = initial /\ u.to = v.from /\ v.to = v.from /\ Keeps(g, u, v)
  BY DEF Universal
<1>1. Everywhere(V) /\ Everywhere(U)
  BY ProfilesEverywhere
<1>2. PICK p \in U : p.from = initial /\ p.to \in State
  BY <1>1, InitialAssumption DEF Everywhere
<1> DEFINE Goes(s, t) == \E m \in V : m.from = s /\ m.to = t
           D == {t \in State : Goes(p.to, t)}
           G == [s \in D |-> {t \in D : Goes(s, t)}]
<1>3. ASSUME NEW s, NEW t, NEW w, Goes(s, t), Goes(t, w)
      PROVE  Goes(s, w)
  <2>1. PICK m \in V, k \in V : m.from = s /\ m.to = t /\ k.from = t /\ k.to = w
    BY <1>3
  <2>2. Link(m, k) \in V
    <3>1. Link(m, k) \in Then(V, V)
      BY <2>1, ThenIs
    <3> QED
      BY <3>1
  <2> QED
    BY <2>1, <2>2, LinkIs
<1>4. ASSUME NEW s \in State
      PROVE  \E t \in State : Goes(s, t)
  BY <1>1 DEF Everywhere
<1> HIDE DEF Goes
<1>5. IsGraph(G, D) /\ IsFiniteSet(D) /\ D # {}
  <2>1. D # {}
    BY <1>2, <1>4
  <2>2. IsFiniteSet(D)
    BY StateAssumption, FS_Subset
  <2>3. IsGraph(G, D)
    BY DEF IsGraph
  <2> QED
    BY <2>1, <2>2, <2>3
<1>6. \A s, t \in D : t \in G[s] <=> Goes(s, t)
  OBVIOUS
<1>7. \A s \in D : \E t \in D : Goes(s, t)
  BY <1>3, <1>4
<1>8. \A t \in D : t \in State /\ Goes(p.to, t)
  OBVIOUS
<1> HIDE DEF D, G
<1>9. PICK s \in D : \A t \in D : Reaches(G, s, t) => Reaches(G, t, s)
  BY <1>5, BottomState
<1>10. PICK t \in D : Goes(s, t)
  BY <1>7
<1>11. Reaches(G, t, s)
  BY <1>5, <1>6, <1>9, <1>10, ReachesSuccessor
<1>12. t = s \/ Goes(t, s)
  <2> DEFINE B == {w \in D : w = t \/ Goes(t, w)}
  <2>1. ASSUME NEW w \in B, NEW z \in G[w]
        PROVE  z \in B
    <3>1. w \in D /\ z \in D /\ Goes(w, z)
      BY <1>5, <1>6 DEF IsGraph
    <3> QED
      BY <1>3, <3>1
  <2>2. B \in SUBSET DOMAIN G /\ t \in B
    BY <1>5 DEF IsGraph
  <2> HIDE DEF B
  <2>3. s \in B
    BY <1>11, <2>1, <2>2 DEF Reaches, Closed
  <2> QED
    BY <2>3 DEF B
<1>13. Goes(s, s)
  BY <1>3, <1>10, <1>12
<1>14. PICK v \in V : v.from = s /\ v.to = s
  BY <1>13 DEF Goes
<1>15. PICK q \in V : q.from = p.to /\ q.to = s
  BY <1>8 DEF Goes
<1>16. Link(p, q) \in U
  <2>1. Link(p, q) \in Then(U, V)
    BY <1>15, ThenIs
  <2> QED
    BY <2>1
<1>17. Link(p, q).from = initial /\ Link(p, q).to = s
  BY <1>2, <1>15, LinkIs
<1>18. Keeps(g, Link(p, q), v)
  <2>1. Link(p, q).all /\ Link(p, q).some /\ v.all /\ v.some
    BY <1>1, <1>16 DEF Everywhere
  <2> QED
    BY <2>1 DEF Keeps, Extrema
<1> QED
  BY <1>14, <1>16, <1>17, <1>18

\* The profiles of the words over the edges in E.
ProfilesOf(E, H) ==
  LET profile(a) ==
        {[from |-> e.from, all |-> e \in H, some |-> e \in H, to |-> e.to] : e \in {d \in E : d.symbol = a}}
      longer(found) == found \cup {Then(P, profile(a)) : P \in found, a \in Symbol}
      closure[found \in SUBSET SUBSET Moves] ==
        IF longer(found) = found THEN found ELSE closure[longer(found)]
  IN  closure[{profile(a) : a \in Symbol}]

\* What words have a run for depends on the edges only.
LEMMA UniversalKept ==
  ASSUME edges' = edges
  PROVE  \A H, g : Universal(H, g)' = Universal(H, g)
<1>1. \A H : Profiles(H) = ProfilesOf(edges, H)
  BY DEF Profiles, ProfilesOf, Profile
<1>2. \A H : Profiles(H)' = ProfilesOf(edges', H)
  BY DEF Profiles, ProfilesOf, Profile
<1>3. \A H : Profiles(H)' = Profiles(H)
  BY <1>1, <1>2
<1> QED
  BY <1>3 DEF Universal

-----------------------------------------------------------------------------
(* The call: the invariant *)

Turning == pc \in {"dual", "undo"}

\* Where the call is.
Control ==
  /\ call \in Calls \cup ChoiceCalls
  /\ method \in Methods /\ f \in ValueFunctions
  /\ pc \in {"top", "bottom", "dual", "undo", "relax", "done"}
  /\ step \in {"idle", "safety", "reach", "karp"}
  /\ step # "idle" => RunsTop
  /\ pc = "top" => method # "getBottomValue"
  /\ pc = "dual" => Deterministic
  /\ pc = "relax" => ~Deterministic

\* The weights are negated from invert_weights to invert_weights.
Phase == IF Turning THEN Turned ELSE Restored

\* What the running algorithm has established.  The safety game on negated
\* weights is left out: it takes them in the wrong order.
Running ==
  /\ step = "safety" => /\ current_f \in {"Inf", "LimInf"}
                        /\ in_scc = (current_f = "LimInf")
                        /\ pc = "top" => SafetyInv
  /\ step = "reach" => /\ current_f \in {"Sup", "LimSup"}
                       /\ in_scc = (current_f = "LimSup")
                       /\ ReachInv
  /\ step = "karp" => current_f \in Averages /\ Table

\* The calls of getBottomValue that are proved right: not those that play the
\* safety game on negated weights.
Settled == Deterministic => f \notin {"Sup", "LimSup"}

\* What has been returned.
TopFound == TopExact
BottomFound == Settled => BottomExact

\* What has been returned by now.
TopReturned ==
  pc # "top" /\ method # "getBottomValue" =>
    /\ top = TrueTop
    /\ f \in Averages => LargestMean(top)
BottomReturned ==
  Deterministic /\ Settled /\ pc \in {"undo", "done"} /\ method # "getTopValue" =>
    /\ bottom = TrueBottom
    /\ f \in Averages => SmallestMean(bottom)

\* The weights tried before have failed.
Tried ==
  ~Deterministic /\ pc = "bottom" =>
    /\ f \in Extrema
    /\ untried \in Ids
    /\ \A i \in Ids : i > untried => ~Universal(AtLeast(Weights[i]), f)

CallInv ==
  /\ GraphOK /\ Control /\ Phase /\ Running
  /\ TopFound /\ BottomFound /\ TopReturned /\ BottomReturned /\ Tried

-----------------------------------------------------------------------------
(* The initial states *)

\* There are finitely many edges that an automaton can have.
LEMMA EdgeFinite == IsFiniteSet(Edge)
<1> DEFINE g == [x \in (State \X Symbol) \X (Ids \X State) |->
                   [from |-> x[1][1], symbol |-> x[1][2], id |-> x[2][1], to |-> x[2][2]]]
           D == (State \X Symbol) \X (Ids \X State)
<1>1. Len(Weights) \in Int
  BY WeightsAssumption
<1>2. IsFiniteSet(Ids)
  BY <1>1, FS_Interval DEF Ids
<1>3. IsFiniteSet(State \X Symbol) /\ IsFiniteSet(Ids \X State)
  BY <1>2, StateAssumption, SymbolAssumption, FS_Product
<1>4. IsFiniteSet(D)
  BY <1>3, FS_Product
<1>5. Edge = {g[x] : x \in D}
  <2>1. ASSUME NEW e \in Edge
        PROVE  e \in {g[x] : x \in D}
    <3>1. << <<e.from, e.symbol>>, <<e.id, e.to>> >> \in D
      BY DEF Edge
    <3>2. g[<< <<e.from, e.symbol>>, <<e.id, e.to>> >>] = e
      BY <3>1 DEF Edge
    <3> QED
      BY <3>1, <3>2
  <2>2. \A x \in D : g[x] \in Edge
    BY DEF Edge
  <2> HIDE DEF g, D
  <2> QED
    BY <2>1, <2>2
<1> HIDE DEF g, D
<1>6. IsFiniteSet({g[x] : x \in D})
  BY <1>4, FiniteImage
<1> QED
  BY <1>5, <1>6

\* A call asks one of the methods for one of the value functions.
LEMMA CallFacts ==
  ASSUME NEW c \in Calls \cup ChoiceCalls
  PROVE  c[1] \in Methods /\ c[2] \in ValueFunctions
BY CallsAssumption

\* Every state has an edge for every symbol.
LEMMA InitGraph ==
  ASSUME Init
  PROVE  GraphOK
<1>1. PICK out \in [State \X Symbol -> Parallel] : edges = EdgesOf(out)
  BY DEF Init
<1>2. \A p \in State \X Symbol : out[p] \in SUBSET (Ids \X State) /\ out[p] # {}
  <2>1. \A E \in Parallel : E \in SUBSET (Ids \X State) /\ E # {}
    <3>1. Cardinality(State \X Symbol) \in Nat
      BY StateAssumption, SymbolAssumption, FS_Product, FS_CardinalityType
    <3>2. Cardinality({}) = 0
      BY FS_EmptySet
    <3> DEFINE most == 1 + MaxEdges - Cardinality(State \X Symbol)
    <3>3. most \in Int
      BY <3>1, BoundsAssumption
    <3>4. Parallel = {E \in SUBSET (Ids \X State) : Cardinality(E) \in 1 .. most}
      BY DEF Parallel
    <3> HIDE DEF most
    <3>5. 0 \notin 1 .. most
      BY <3>3
    <3> QED
      BY <3>2, <3>4, <3>5
  <2> QED
    BY <1>1, <2>1
<1>3. edges \subseteq Edge
  BY <1>1, <1>2 DEF EdgesOf, Edge
<1>4. IsFiniteSet(edges)
  BY <1>3, EdgeFinite, FS_Subset
<1>5. ASSUME NEW s \in State, NEW a \in Symbol
      PROVE  \E e \in edges : e.from = s /\ e.symbol = a
  <2>1. <<s, a>> \in State \X Symbol
    OBVIOUS
  <2>2. PICK x : x \in out[<<s, a>>]
    BY <1>2, <2>1
  <2> DEFINE e == [from |-> s, symbol |-> a, id |-> x[1], to |-> x[2]]
  <2>3. e \in EdgesOf(out)
    BY <2>1, <2>2 DEF EdgesOf
  <2> QED
    BY <1>1, <2>3
<1>6. Trimmed /\ in_scc \in BOOLEAN
  BY DEF Init, Trimmed
<1> QED
  BY <1>3, <1>4, <1>5, <1>6 DEF GraphOK

\* There is a weight, and the ids run from the first to the last.
LEMMA SomeWeight ==
  ASSUME GraphOK
  PROVE  1 \in Ids /\ Len(Weights) \in Ids /\ \A i \in Ids : 1 <= i /\ i <= Len(Weights)
<1>1. PICK a \in Symbol : TRUE
  BY SymbolAssumption
<1>2. PICK e \in edges : e.symbol = a
  BY InitialAssumption DEF GraphOK
<1>3. e.id \in Ids
  BY EdgeFacts
<1>4. Len(Weights) \in Nat
  BY WeightsAssumption
<1> QED
  BY <1>3, <1>4 DEF Ids

\* The invariant holds when the call is made.
LEMMA InitCall ==
  ASSUME Init
  PROVE  CallInv
<1>1. GraphOK
  BY InitGraph
<1>2. call \in Calls \cup ChoiceCalls
  BY DEF Init
<1>3. method \in Methods /\ f \in ValueFunctions
  BY <1>2, CallFacts DEF method, f
<1>4. /\ pc = IF method = "getBottomValue" THEN "bottom" ELSE "top"
      /\ step = "idle" /\ top = None /\ bottom = None
  BY DEF Init
<1>5. Control
  BY <1>2, <1>3, <1>4 DEF Control, RunsTop
<1>6. Restored
  BY DEF Init, Restored, Identity
<1>7. Phase
  BY <1>4, <1>6 DEF Phase, Turning
<1>8. Running /\ TopFound /\ BottomFound /\ TopReturned /\ BottomReturned
  BY <1>4 DEF Running, TopFound, BottomFound, TopExact, BottomExact, TopReturned, BottomReturned
<1>9. ASSUME ~Deterministic, pc = "bottom"
      PROVE  /\ f \in Extrema
             /\ untried \in Ids
             /\ \A i \in Ids : ~(i > untried)
  <2>1. method = "getBottomValue" /\ call \in ChoiceCalls /\ untried = Len(Weights)
    BY <1>4, <1>9 DEF Init
  <2>2. call = <<method, f>>
    BY <1>2, CallsAssumption DEF method, f
  <2>3. f \notin Averages
    BY <2>1, <2>2, CallsAssumption
  <2>4. f \in Extrema
    BY <1>3, <2>3 DEF ValueFunctions
  <2>5. untried \in Ids /\ \A i \in Ids : i <= untried /\ i \in Int /\ untried \in Int
    BY <1>1, <2>1, SomeWeight, WeightsFacts
  <2>6. \A i \in Ids : ~(i > untried)
    BY <2>5
  <2> QED
    BY <2>4, <2>5, <2>6
<1>10. Tried
  BY <1>9 DEF Tried
<1> QED
  BY <1>1, <1>5, <1>7, <1>8, <1>10 DEF CallInv

-----------------------------------------------------------------------------
(* What steps leave alone *)

\* The automaton stays complete and trimmed as long as its edges stay.
LEMMA GraphKept ==
  ASSUME GraphOK, edges' = edges, in_scc' \in BOOLEAN
  PROVE  GraphOK' /\ Deterministic' = Deterministic
<1>1. Trimmed' = Trimmed
  BY DEF Trimmed, succ
<1>2. Deterministic' = Deterministic
  BY DEF Deterministic
<1> QED
  BY <1>1, <1>2 DEF GraphOK

\* What should be returned stays the same as long as the edges do.
LEMMA TruthKept ==
  ASSUME edges' = edges, call' = call, f \in ValueFunctions
  PROVE  /\ f' = f /\ method' = method
         /\ CycleMeans' = CycleMeans
         /\ TrueTop' = TrueTop
         /\ Settled => TrueBottom' = TrueBottom
<1>1. f' = f /\ method' = method
  BY DEF f, method
<1>2. Deterministic' = Deterministic
  BY DEF Deterministic
<1>3. \A x : AtLeast(x)' = AtLeast(x)
  BY DEF AtLeast, weightOf
<1>4. Within' = Within
  BY DEF Within, SameTag, succ
<1>5. InfTop' = InfTop /\ LimInfTop' = LimInfTop
  BY <1>3 DEF InfTop, LimInfTop, CanStay
<1>6. SupTop' = SupTop /\ InfBottom' = InfBottom
  BY DEF SupTop, InfBottom, weightOf
<1>7. LimSupTop' = LimSupTop /\ LimInfBottom' = LimInfBottom
  BY <1>4 DEF LimSupTop, LimInfBottom, weightOf
<1>8. ChoiceBottom' = ChoiceBottom
  BY <1>1, <1>3, UniversalKept DEF ChoiceBottom
<1>9. CycleMeans' = CycleMeans
  <2>1. Cycles' = Cycles
    BY DEF Cycles, size
  <2> QED
    BY <2>1 DEF CycleMeans
<1>10. TrueTop' = TrueTop
  <2>1. CASE f = "Inf"
    BY <1>1, <1>5, <2>1 DEF TrueTop, Averages
  <2>2. CASE f = "Sup"
    BY <1>1, <1>6, <2>2 DEF TrueTop, Averages
  <2>3. CASE f = "LimInf"
    BY <1>1, <1>5, <2>3 DEF TrueTop, Averages
  <2>4. CASE f = "LimSup"
    BY <1>1, <1>7, <2>4 DEF TrueTop, Averages
  <2>5. CASE f \in Averages
    <3>1. TrueTop = Max(CycleMeans) /\ TrueTop' = Max(CycleMeans')
      BY <1>1, <2>5 DEF TrueTop, Averages
    <3> QED
      BY <1>9, <3>1
  <2> QED
    BY <2>1, <2>2, <2>3, <2>4, <2>5 DEF ValueFunctions, Extrema
<1>11. Settled => TrueBottom' = TrueBottom
  <2>1. CASE ~Deterministic
    <3>1. TrueBottom = ChoiceBottom /\ TrueBottom' = ChoiceBottom'
      BY <1>2, <2>1 DEF TrueBottom
    <3> QED
      BY <1>8, <3>1
  <2>2. CASE Deterministic /\ f = "Inf"
    BY <1>1, <1>2, <1>6, <2>2 DEF TrueBottom, Averages
  <2>3. CASE Deterministic /\ f = "LimInf"
    BY <1>1, <1>2, <1>7, <2>3 DEF TrueBottom, Averages
  <2>4. CASE Deterministic /\ f \in Averages
    <3>1. TrueBottom = Min(CycleMeans) /\ TrueBottom' = Min(CycleMeans')
      BY <1>1, <1>2, <2>4 DEF TrueBottom, Averages
    <3> QED
      BY <1>9, <3>1
  <2> QED
    BY <2>1, <2>2, <2>3, <2>4 DEF Settled, ValueFunctions, Extrema
<1> QED
  BY <1>1, <1>9, <1>10, <1>11

\* Results that are not written stay what they are.
LEMMA ResultsKept ==
  ASSUME CallInv, edges' = edges, call' = call
  PROVE  /\ top' = top => TopFound'
         /\ bottom' = bottom => BottomFound'
         /\ top' = top /\ pc # "top" => TopReturned'
         /\ bottom' = bottom /\ pc \in {"undo", "done"} => BottomReturned'
<1>1. Deterministic' = Deterministic /\ Settled' = Settled
  BY DEF Deterministic, Settled, f
<1>2. /\ f' = f /\ method' = method
      /\ CycleMeans' = CycleMeans
      /\ TrueTop' = TrueTop
      /\ Settled => TrueBottom' = TrueBottom
  BY TruthKept DEF CallInv, Control
<1>3. top' = top => TopFound'
  BY <1>2 DEF CallInv, TopFound, TopExact
<1>4. bottom' = bottom => BottomFound'
  BY <1>1, <1>2 DEF CallInv, BottomFound, BottomExact
<1>5. top' = top /\ pc # "top" => TopReturned'
  BY <1>2 DEF CallInv, TopReturned, LargestMean
<1>6. bottom' = bottom /\ pc \in {"undo", "done"} => BottomReturned'
  BY <1>1, <1>2 DEF CallInv, BottomReturned, SmallestMean
<1> QED
  BY <1>3, <1>4, <1>5, <1>6

\* What has been tried in vain stays so.
LEMMA TriedKept ==
  ASSUME CallInv, edges' = edges, call' = call, pc' = pc, untried' = untried
  PROVE  Tried'
<1>1. Deterministic' = Deterministic
  BY DEF Deterministic
<1>2. f' = f /\ \A x : AtLeast(x)' = AtLeast(x)
  BY DEF f, AtLeast, weightOf
<1> QED
  BY <1>1, <1>2, UniversalKept DEF CallInv, Tried

\* Steps that do not move the caller on.
LEMMA SamePlace ==
  ASSUME CallInv, edges' = edges, call' = call, pc' = pc, top' = top, bottom' = bottom, untried' = untried
  PROVE  TopFound' /\ BottomFound' /\ TopReturned' /\ BottomReturned' /\ Tried'
<1>1. TopFound' /\ BottomFound'
  BY ResultsKept
<1>2. TopReturned'
  BY ResultsKept DEF TopReturned
<1>3. BottomReturned'
  BY ResultsKept DEF BottomReturned
<1> QED
  BY <1>1, <1>2, <1>3, TriedKept

-----------------------------------------------------------------------------
(* compute_Top: the steps *)

\* compute_Top calls its algorithm.
LEMMA StartKeeps ==
  ASSUME CallInv, TopStart
  PROVE  CallInv'
<1>1. /\ edges' = edges /\ call' = call /\ pc' = pc /\ top' = top /\ bottom' = bottom
      /\ value' = value /\ domain' = domain /\ weights' = weights /\ untried' = untried /\ RunsTop
  BY DEF TopStart
<1>2. Ready
  BY RestoredReady, TurnedReady DEF CallInv, Phase
<1>3. f' = f /\ method' = method /\ current_f' = current_f /\ RunsTop' = RunsTop
  BY <1>1 DEF f, method, current_f, RunsTop
<1>4. TopFound' /\ BottomFound' /\ TopReturned' /\ BottomReturned' /\ Tried'
  BY <1>1, SamePlace
<1>5. Phase'
  BY <1>1 DEF CallInv, Phase, Turning, Turned, Restored
<1>6. in_scc' \in BOOLEAN => GraphOK' /\ Control'
  <2>1. in_scc' \in BOOLEAN => GraphOK' /\ Deterministic' = Deterministic
    BY <1>1, GraphKept DEF CallInv
  <2>2. step' \in {"safety", "reach", "karp"}
    BY DEF TopStart
  <2> QED
    BY <1>1, <1>3, <2>1, <2>2 DEF CallInv, Control
<1>7. CASE step' = "safety"
  <2>1. current_f \in {"Inf", "LimInf"} /\ SafetyStart(current_f = "LimInf")
    BY <1>7 DEF TopStart
  <2>2. SafetyInv'
    BY <1>1, <1>2, <2>1, SafetyStarts
  <2>3. in_scc' = (current_f = "LimInf")
    BY <2>1 DEF SafetyStart
  <2>4. Running'
    BY <1>3, <1>7, <2>1, <2>2, <2>3 DEF Running
  <2> QED
    BY <1>4, <1>5, <1>6, <2>3, <2>4 DEF CallInv
<1>8. CASE step' = "reach"
  <2>1. current_f \in {"Sup", "LimSup"} /\ ReachStart(current_f = "LimSup")
    BY <1>8 DEF TopStart
  <2>2. ReachInv'
    BY <1>1, <1>2, <2>1, ReachStarts
  <2>3. in_scc' = (current_f = "LimSup")
    BY <2>1 DEF ReachStart
  <2>4. Running'
    BY <1>3, <1>8, <2>1, <2>2, <2>3 DEF Running
  <2> QED
    BY <1>4, <1>5, <1>6, <2>3, <2>4 DEF CallInv
<1>9. CASE step' = "karp"
  <2>1. current_f \in Averages /\ in_scc' = in_scc
    BY <1>9 DEF TopStart
  <2>2. Table'
    BY <1>1, <1>2, <1>9, TableStarts DEF TopStart
  <2>3. Running'
    BY <1>3, <1>9, <2>1, <2>2 DEF Running
  <2>4. in_scc' \in BOOLEAN
    BY <2>1 DEF CallInv, GraphOK
  <2> QED
    BY <1>4, <1>5, <1>6, <2>3, <2>4 DEF CallInv
<1> QED
  BY <1>7, <1>8, <1>9 DEF TopStart

\* A step of the running algorithm leaves everything else alone.
LEMMA AlgorithmKeeps ==
  ASSUME CallInv, UNCHANGED graphVars, UNCHANGED callVars, Running'
  PROVE  CallInv'
<1>1. /\ edges' = edges /\ call' = call /\ pc' = pc /\ top' = top /\ bottom' = bottom /\ step' = step
      /\ value' = value /\ domain' = domain /\ weights' = weights /\ in_scc' = in_scc
      /\ untried' = untried
  BY DEF graphVars, callVars
<1>2. GraphOK' /\ Deterministic' = Deterministic
  <2>1. in_scc' \in BOOLEAN
    BY <1>1 DEF CallInv, GraphOK
  <2> QED
    BY <1>1, <2>1, GraphKept DEF CallInv
<1>3. f' = f /\ method' = method /\ RunsTop' = RunsTop
  BY <1>1 DEF f, method, RunsTop
<1>4. TopFound' /\ BottomFound' /\ TopReturned' /\ BottomReturned' /\ Tried'
  BY <1>1, SamePlace
<1>5. Phase'
  BY <1>1 DEF CallInv, Phase, Turning, Turned, Restored
<1>6. Control'
  BY <1>1, <1>2, <1>3 DEF CallInv, Control
<1> QED
  BY <1>2, <1>4, <1>5, <1>6 DEF CallInv

\* A step of the safety game.
LEMMA SafetyStepKeeps ==
  ASSUME CallInv, TopSafetyStep
  PROVE  CallInv'
<1>1. SafetyStep /\ step = "safety" /\ UNCHANGED callVars
  BY DEF TopSafetyStep
<1>2. UNCHANGED graphVars
  BY <1>1 DEF SafetyStep, SafetyTake, SafetyRecur, SafetyReturn
<1>3. pc' = pc /\ step' = step /\ f' = f /\ current_f' = current_f /\ in_scc' = in_scc
  BY <1>1, <1>2 DEF callVars, graphVars, f, current_f
<1>4. pc = "top" => SafetyInv'
  <2>1. pc = "top" => Restored /\ SafetyInv
    BY <1>1 DEF CallInv, Phase, Turning, Running
  <2> QED
    BY <1>1, <2>1, RestoredReady, SafetyKeeps DEF CallInv
<1>5. Running'
  BY <1>1, <1>3, <1>4 DEF CallInv, Running
<1> QED
  BY <1>1, <1>2, <1>5, AlgorithmKeeps

\* A step of the search for the largest weight.
LEMMA ReachStepKeeps ==
  ASSUME CallInv, TopReachStep
  PROVE  CallInv'
<1>1. ReachStep /\ step = "reach" /\ UNCHANGED callVars
  BY DEF TopReachStep
<1>2. Ready
  BY RestoredReady, TurnedReady DEF CallInv, Phase
<1>3. UNCHANGED graphVars /\ ReachInv'
  BY <1>1, <1>2, ReachKeeps DEF CallInv, Running
<1>4. pc' = pc /\ step' = step /\ f' = f /\ current_f' = current_f /\ in_scc' = in_scc
  BY <1>1, <1>3 DEF callVars, graphVars, f, current_f
<1>5. Running'
  BY <1>1, <1>3, <1>4 DEF CallInv, Running
<1> QED
  BY <1>1, <1>3, <1>5, AlgorithmKeeps

\* A row of Karp's table.
LEMMA KarpStepKeeps ==
  ASSUME CallInv, TopKarpStep
  PROVE  CallInv'
<1>1. KarpRow /\ step = "karp" /\ UNCHANGED callVars
  BY DEF TopKarpStep
<1>2. UNCHANGED graphVars
  BY <1>1 DEF KarpRow
<1>3. pc' = pc /\ step' = step /\ f' = f /\ current_f' = current_f
  BY <1>1 DEF callVars, f, current_f
<1>4. Ready /\ Table
  BY <1>1, RestoredReady, TurnedReady DEF CallInv, Phase, Running
<1>5. Table'
  BY <1>1, <1>4, TableGrows
<1>6. Running'
  BY <1>1, <1>3, <1>5 DEF CallInv, Running
<1> QED
  BY <1>1, <1>2, <1>6, AlgorithmKeeps

\* What the first call of compute_Top returns is the supremum.
LEMMA AnswerTop ==
  ASSUME CallInv, AlgorithmOver, pc = "top"
  PROVE  Answer = TrueTop /\ (f \in Averages => LargestMean(Answer))
<1>1. current_f = f /\ Restored /\ GraphOK /\ f \in ValueFunctions /\ call \in Calls \cup ChoiceCalls
  BY DEF current_f, CallInv, Phase, Turning, Control
<1>2. CASE f = "Inf"
  <2>1. step = "safety" /\ SafetyOver /\ SafetyInv /\ in_scc = FALSE
    BY <1>1, <1>2 DEF AlgorithmOver, CallInv, Running, Averages
  <2>2. Answer = values[initial]
    BY <1>1, <1>2 DEF Answer, Averages
  <2> QED
    BY <1>1, <1>2, <2>1, <2>2, SafetyTopInf DEF Averages
<1>3. CASE f = "LimInf"
  <2>1. step = "safety" /\ SafetyOver /\ SafetyInv /\ in_scc = TRUE
    BY <1>1, <1>3 DEF AlgorithmOver, CallInv, Running, Averages
  <2>2. Answer = TopDag(LimInfValues, initial)
    BY <1>1, <1>3 DEF Answer, Averages
  <2> QED
    BY <1>1, <1>3, <2>1, <2>2, SafetyTopLimInf DEF Averages
<1>4. CASE f \in {"Sup", "LimSup"}
  <2>1. step = "reach" /\ ReachOver /\ ReachInv /\ in_scc = (f = "LimSup")
    BY <1>1, <1>4 DEF AlgorithmOver, CallInv, Running, Averages
  <2>2. Answer = TopDag(top_values, initial)
    BY <1>1, <1>4 DEF Answer, Averages
  <2> QED
    BY <1>1, <1>4, <2>1, <2>2, ReachTopIs DEF Averages
<1>5. CASE f \in Averages
  <2>1. step = "karp" /\ KarpOver /\ Table
    BY <1>1, <1>5 DEF AlgorithmOver, CallInv, Running, Averages
  <2>2. Answer = TopDag(AvgValues, initial)
    BY <1>1, <1>5 DEF Answer, Averages
  <2>3. TrueTop = Max(CycleMeans)
    BY <1>5 DEF TrueTop, Averages
  <2> QED
    BY <1>1, <1>5, <2>1, <2>2, <2>3, KarpTopIs
<1> QED
  BY <1>1, <1>2, <1>3, <1>4, <1>5 DEF ValueFunctions, Extrema

\* What the call on negated weights returns is the infimum, negated.
LEMMA AnswerBottom ==
  ASSUME CallInv, AlgorithmOver, pc = "dual", Settled
  PROVE  -Answer = TrueBottom /\ (f \in Averages => SmallestMean(-Answer))
<1>1. /\ Turned /\ GraphOK /\ Deterministic
      /\ f \in ValueFunctions /\ call \in Calls \cup ChoiceCalls
  BY DEF CallInv, Phase, Turning, Control
<1>2. CASE f \in {"Inf", "LimInf"}
  <2>1. current_f = IF f = "Inf" THEN "Sup" ELSE "LimSup"
    BY <1>2 DEF current_f, Dual
  <2>2. step = "reach" /\ ReachOver /\ ReachInv /\ in_scc = (f = "LimInf")
    BY <1>2, <2>1 DEF AlgorithmOver, CallInv, Running, Averages
  <2>3. Answer = TopDag(top_values, initial)
    BY <2>1 DEF Answer, Averages
  <2> QED
    BY <1>1, <1>2, <2>2, <2>3, ReachBottomIs DEF Averages
<1>3. CASE f \in Averages
  <2>1. current_f \in Averages
    BY <1>3 DEF current_f, Dual, Averages
  <2>2. step = "karp" /\ KarpOver /\ Table
    BY <2>1 DEF AlgorithmOver, CallInv, Running, Averages
  <2>3. Answer = TopDag(AvgValues, initial)
    BY <2>1 DEF Answer, Averages
  <2>4. TrueBottom = Min(CycleMeans)
    BY <1>1, <1>3 DEF TrueBottom, Averages
  <2> QED
    BY <1>1, <1>3, <2>2, <2>3, <2>4, KarpBottomIs
<1> QED
  BY <1>1, <1>2, <1>3 DEF Settled, ValueFunctions, Extrema

\* compute_Top returns to getTopValue or to compute_Bottom.
LEMMA ReturnKeeps ==
  ASSUME CallInv, TopReturn
  PROVE  CallInv'
<1>1. /\ edges' = edges /\ call' = call /\ value' = value /\ domain' = domain /\ weights' = weights
      /\ in_scc' = in_scc /\ step' = "idle" /\ AlgorithmOver
  BY DEF TopReturn, graphVars
<1>2. GraphOK' /\ Deterministic' = Deterministic
  <2>1. in_scc' \in BOOLEAN
    BY <1>1 DEF CallInv, GraphOK
  <2> QED
    BY <1>1, <2>1, GraphKept DEF CallInv
<1>3. /\ f' = f /\ method' = method /\ method \in Methods /\ f \in ValueFunctions
      /\ call \in Calls \cup ChoiceCalls
  BY <1>1 DEF f, method, CallInv, Control
<1>4. RunsTop
  BY <1>1 DEF AlgorithmOver, CallInv, Control
<1>5. Running'
  BY <1>1 DEF Running
<1>6. CASE pc = "top"
  <2>1. top' = Answer /\ bottom' = bottom /\ pc' = AfterTop
    BY <1>6 DEF TopReturn
  <2>2. method \in {"getTopValue", "isConstant"}
    BY <1>3, <1>6 DEF CallInv, Control, Methods
  <2>3. /\ AfterTop \in {"done", "bottom", "relax"}
        /\ AfterTop = "bottom" => Deterministic
        /\ AfterTop = "relax" => ~Deterministic
        /\ AfterTop = "done" /\ Deterministic => method = "getTopValue"
    <3>1. CASE method = "getTopValue"
      <4>1. AfterTop = "done"
        BY <3>1 DEF AfterTop
      <4> QED
        BY <3>1, <4>1
    <3>2. CASE method = "isConstant" /\ Deterministic
      <4>1. AfterTop = "bottom"
        BY <3>2 DEF AfterTop
      <4> QED
        BY <3>2, <4>1
    <3>3. CASE method = "isConstant" /\ ~Deterministic
      <4>1. AfterTop = IF f \in Averages THEN "relax" ELSE "done"
        BY <3>3 DEF AfterTop
      <4> QED
        BY <3>3, <4>1
    <3> QED
      BY <2>2, <3>1, <3>2, <3>3
  <2>4. Control'
    BY <1>1, <1>2, <1>3, <2>1, <2>3 DEF Control
  <2>5. Phase'
    BY <1>1, <1>6, <2>1, <2>3 DEF CallInv, Phase, Turning, Restored
  <2>6. top' = TrueTop' /\ CycleMeans' = CycleMeans /\ (f \in Averages => LargestMean(top'))
    BY <1>1, <1>3, <1>6, <2>1, AnswerTop, TruthKept
  <2>7. TopFound' /\ TopReturned'
    BY <1>3, <2>6 DEF TopFound, TopExact, TopReturned, LargestMean
  <2>8. BottomFound'
    BY <1>1, <2>1, ResultsKept
  <2>9. BottomReturned' /\ Tried'
    BY <1>2, <1>3, <2>1, <2>3 DEF BottomReturned, Tried
  <2> QED
    BY <1>2, <1>5, <2>4, <2>5, <2>7, <2>8, <2>9 DEF CallInv
<1>7. CASE pc = "dual"
  <2>1. bottom' = -Answer /\ top' = top /\ pc' = "undo" /\ Deterministic
    BY <1>7 DEF TopReturn, CallInv, Control
  <2>2. Control'
    BY <1>1, <1>3, <2>1 DEF Control
  <2>3. Phase'
    BY <1>1, <1>7, <2>1 DEF CallInv, Phase, Turning, Turned
  <2>4. TopFound' /\ TopReturned'
    BY <1>1, <1>7, <2>1, ResultsKept
  <2>5. Settled => bottom' = TrueBottom' /\ CycleMeans' = CycleMeans /\ (f \in Averages => SmallestMean(bottom'))
    BY <1>1, <1>3, <1>7, <2>1, AnswerBottom, TruthKept
  <2>6. Settled' = Settled
    BY <1>2, <1>3 DEF Settled
  <2>7. BottomFound' /\ BottomReturned' /\ Tried'
    BY <1>2, <1>3, <2>1, <2>5, <2>6 DEF BottomFound, BottomExact, BottomReturned, SmallestMean, Tried
  <2> QED
    BY <1>2, <1>5, <2>2, <2>3, <2>4, <2>7 DEF CallInv
<1> QED
  BY <1>4, <1>6, <1>7 DEF RunsTop

-----------------------------------------------------------------------------
(* compute_Bottom and isConstant: the steps *)

\* Reversing and negating twice changes nothing.
LEMMA Involutions ==
  /\ Negated(Negated(Weights)) = Weights
  /\ Reverse(Reverse(Identity)) = Identity
  /\ -(-MinDomain) = MinDomain /\ -(-MaxDomain) = MaxDomain
<1> DEFINE n == Len(Weights)
<1>1. n \in Nat /\ Weights \in Seq(Int) /\ Weights \in [1 .. n -> Int]
  BY WeightsAssumption
<1>2. Negated(Negated(Weights)) = Weights
  <2>1. Negated(Weights) = [i \in 1 .. n |-> -Weights[i]]
    BY <1>1 DEF Negated
  <2>2. Negated(Negated(Weights)) = [i \in 1 .. n |-> -(-Weights[i])]
    BY <2>1 DEF Negated
  <2>3. \A i \in 1 .. n : -(-Weights[i]) = Weights[i]
    BY <1>1
  <2> QED
    BY <1>1, <2>2, <2>3
<1>3. Reverse(Reverse(Identity)) = Identity
  <2>1. Identity = [i \in 1 .. n |-> i] /\ Len(Identity) = n
    BY <1>1 DEF Identity, Ids
  <2>2. Reverse(Identity) = [i \in 1 .. n |-> Identity[(n - i) + 1]]
    BY <2>1 DEF Reverse
  <2>3. Len(Reverse(Identity)) = n
    BY <1>1, <2>2
  <2>4. Reverse(Reverse(Identity)) = [i \in 1 .. n |-> Reverse(Identity)[(n - i) + 1]]
    BY <2>3 DEF Reverse
  <2>5. \A i \in 1 .. n : (n - i) + 1 \in 1 .. n /\ (n - ((n - i) + 1)) + 1 = i
    BY <1>1
  <2> HIDE DEF n
  <2>6. \A i \in 1 .. n : Reverse(Identity)[(n - i) + 1] = i
    BY <2>1, <2>2, <2>5
  <2> QED
    BY <2>1, <2>4, <2>6
<1>4. -(-MinDomain) = MinDomain /\ -(-MaxDomain) = MaxDomain
  BY WeightsAssumption
<1> QED
  BY <1>2, <1>3, <1>4

\* invert_weights negates the weights, or negates them back.
LEMMA InvertTurns ==
  ASSUME InvertWeights
  PROVE  /\ Restored => Turned'
         /\ Turned => Restored'
<1>1. Restored => Turned'
  BY DEF InvertWeights, Restored, Turned
<1>2. Turned => Restored'
  BY Involutions DEF InvertWeights, Restored, Turned
<1> QED
  BY <1>1, <1>2

\* Steps that leave the graph alone while no algorithm runs.
LEMMA IdleKeeps ==
  ASSUME CallInv, edges' = edges, in_scc' = in_scc, call' = call, step = "idle", step' = step,
         pc' \in {"bottom", "dual", "undo", "relax", "done"},
         pc' = "dual" => Deterministic, pc' = "relax" => ~Deterministic,
         Phase', TopFound', BottomFound', TopReturned', BottomReturned', Tried'
  PROVE  CallInv'
<1>1. GraphOK' /\ Deterministic' = Deterministic
  <2>1. in_scc' \in BOOLEAN
    BY DEF CallInv, GraphOK
  <2> QED
    BY <2>1, GraphKept DEF CallInv
<1>2. f' = f /\ method' = method
  BY DEF f, method
<1>3. Control'
  BY <1>1, <1>2 DEF CallInv, Control
<1>4. Running'
  BY DEF Running
<1> QED
  BY <1>1, <1>3, <1>4 DEF CallInv

\* No algorithm runs outside of compute_Top.
LEMMA NotRunning ==
  ASSUME CallInv, pc \notin {"top", "dual"}
  PROVE  step = "idle"
BY DEF CallInv, Control, RunsTop

\* compute_Bottom negates the weights.
LEMMA InvertKeeps ==
  ASSUME CallInv, BottomInvert
  PROVE  CallInv'
<1>1. /\ pc = "bottom" /\ pc' = "dual" /\ Deterministic /\ InvertWeights
      /\ edges' = edges /\ in_scc' = in_scc /\ call' = call /\ step' = step
      /\ top' = top /\ bottom' = bottom
  BY DEF BottomInvert
<1>2. Phase'
  BY <1>1, InvertTurns DEF CallInv, Phase, Turning
<1>3. TopFound' /\ BottomFound' /\ TopReturned'
  BY <1>1, ResultsKept
<1>4. BottomReturned' /\ Tried'
  BY <1>1 DEF BottomReturned, Tried
<1> QED
  BY <1>1, <1>2, <1>3, <1>4, NotRunning, IdleKeeps

\* compute_Bottom negates them back.
LEMMA UndoKeeps ==
  ASSUME CallInv, BottomUndo
  PROVE  CallInv'
<1>1. /\ pc = "undo" /\ pc' = "done" /\ InvertWeights
      /\ edges' = edges /\ in_scc' = in_scc /\ call' = call /\ step' = step
      /\ top' = top /\ bottom' = bottom
  BY DEF BottomUndo, UndoInvert
<1>2. Phase'
  BY <1>1, InvertTurns DEF CallInv, Phase, Turning
<1>3. TopFound' /\ BottomFound' /\ TopReturned' /\ BottomReturned'
  BY <1>1, ResultsKept
<1>4. Tried'
  BY <1>1 DEF Tried
<1> QED
  BY <1>1, <1>2, <1>3, <1>4, NotRunning, IdleKeeps

\* The edges that weigh at least the least weight are all.
LEMMA LeastWeight ==
  ASSUME GraphOK
  PROVE  AtLeast(Weights[1]) = edges
<1>1. ASSUME NEW e \in edges
      PROVE  weightOf(e) >= Weights[1]
  <2>1. e.id \in Ids /\ weightOf(e) = Weights[e.id]
    BY EdgeFacts
  <2>2. 1 \in Ids /\ 1 <= e.id
    BY <2>1, SomeWeight
  <2>3. Weights[1] <= Weights[e.id] /\ Weights[1] \in Int /\ Weights[e.id] \in Int
    BY <2>1, <2>2, WeightsFacts
  <2> QED
    BY <2>1, <2>3
<1> QED
  BY <1>1 DEF AtLeast

\* The first weight tried that all words have a run for is the largest.
LEMMA TryIsBest ==
  ASSUME GraphOK, NEW i \in Ids, Universal(AtLeast(Weights[i]), f),
         \A j \in Ids : j > i => ~Universal(AtLeast(Weights[j]), f)
  PROVE  Weights[i] = ChoiceBottom
<1> DEFINE Y == {x \in Values : Universal(AtLeast(x), f)}
<1>1. Weights[i] \in Y
  BY DEF Values
<1>2. Y \in SUBSET Int
  BY WeightsFacts DEF Values
<1>3. ASSUME NEW y \in Y
      PROVE  y <= Weights[i]
  <2>1. PICK j \in Ids : y = Weights[j]
    BY DEF Values
  <2>2. ~(j > i)
    BY <2>1
  <2>3. j <= i
    BY <2>2, WeightsFacts
  <2> QED
    BY <2>1, <2>3, WeightsFacts
<1>4. ChoiceBottom = Max(Y)
  BY DEF ChoiceBottom
<1> HIDE DEF Y
<1>5. Max(Y) = Weights[i]
  <2>1. PICK m : m = Weights[i]
    OBVIOUS
  <2> QED
    BY <1>1, <1>2, <1>3, <2>1, MaxIs
<1> QED
  BY <1>4, <1>5

\* compute_Bottom tries a weight.
LEMMA TryKeeps ==
  ASSUME CallInv, BottomTry
  PROVE  CallInv'
<1>1. /\ pc = "bottom" /\ pc' \in {"bottom", "done"} /\ ~Deterministic
      /\ UNCHANGED graphVars /\ call' = call /\ step' = step /\ top' = top /\ weights' = weights
      /\ untried' = untried - 1
  BY DEF BottomTry
<1>2. edges' = edges /\ in_scc' = in_scc /\ value' = value /\ domain' = domain
  BY <1>1 DEF graphVars
<1>3. GraphOK /\ Restored
  BY <1>1 DEF CallInv, Phase, Turning
<1>4. Phase'
  BY <1>1, <1>2, <1>3 DEF Phase, Turning, Restored
<1>5. TopFound' /\ TopReturned'
  BY <1>1, <1>2, ResultsKept
<1>6. Deterministic' = Deterministic /\ f' = f /\ \A x : AtLeast(x)' = AtLeast(x)
  BY <1>1, <1>2 DEF Deterministic, f, AtLeast, weightOf
<1>7. /\ f \in Extrema /\ untried \in Ids
      /\ \A i \in Ids : i > untried => ~Universal(AtLeast(Weights[i]), f)
  BY <1>1 DEF CallInv, Tried
<1>8. value[weights[untried]] = Weights[untried]
  BY <1>3, <1>7 DEF Restored, Identity
<1>9. isUniversal(Weights[untried]) <=> Universal(AtLeast(Weights[untried]), f)
  <2>1. {e \in edges : value[e.id] >= Weights[untried]} = AtLeast(Weights[untried])
    BY <1>3 DEF Restored, AtLeast, weightOf
  <2> QED
    BY <2>1 DEF isUniversal
<1>10. BottomReturned'
  BY <1>1, <1>6 DEF BottomReturned
<1>11. CASE isUniversal(Weights[untried]) \/ untried = 1
  <2>1. bottom' = Weights[untried] /\ pc' = "done"
    BY <1>8, <1>11 DEF BottomTry
  <2>2. Universal(AtLeast(Weights[untried]), f)
    <3>1. CASE isUniversal(Weights[untried])
      BY <1>9, <3>1
    <3>2. CASE untried = 1
      BY <1>3, <1>7, <3>2, LeastWeight, UniversalAll
    <3> QED
      BY <1>11, <3>1, <3>2
  <2>3. Weights[untried] = TrueBottom
    BY <1>1, <1>3, <1>7, <2>2, TryIsBest DEF TrueBottom
  <2>4. BottomFound'
    BY <1>1, <1>2, <2>1, <2>3, TruthKept DEF BottomFound, BottomExact, Settled, CallInv, Control
  <2>5. Tried'
    BY <2>1 DEF Tried
  <2> QED
    BY <1>1, <1>2, <1>4, <1>5, <1>10, <2>4, <2>5, NotRunning, IdleKeeps
<1>12. CASE ~isUniversal(Weights[untried]) /\ untried # 1
  <2>1. bottom' = bottom /\ pc' = pc
    BY <1>8, <1>12 DEF BottomTry
  <2>2. BottomFound'
    BY <1>1, <1>2, <2>1, ResultsKept
  <2>3. untried - 1 \in Ids
    <3>1. Len(Weights) \in Nat
      BY WeightsAssumption
    <3> QED
      BY <1>7, <1>12, <3>1 DEF Ids
  <2>4. ASSUME NEW i \in Ids, i > untried - 1
        PROVE  ~Universal(AtLeast(Weights[i]), f)
    <3>1. i = untried \/ i > untried
      BY <1>7, <2>4, WeightsFacts
    <3> QED
      BY <1>7, <1>9, <1>12, <3>1
  <2>5. Tried'
    BY <1>1, <1>2, <1>6, <1>7, <2>3, <2>4, UniversalKept DEF Tried
  <2> QED
    BY <1>1, <1>2, <1>4, <1>5, <1>10, <2>2, <2>5, NotRunning, IdleKeeps
<1> QED
  BY <1>11, <1>12

\* isLimAvgConstant relaxes an edge.
LEMMA RelaxKeeps ==
  ASSUME CallInv, ConstantRelax
  PROVE  CallInv'
<1>1. /\ pc = "relax" /\ pc' \in {"relax", "done"} /\ ~Deterministic
      /\ call' = call /\ step' = step /\ top' = top /\ bottom' = bottom /\ weights' = weights
  BY DEF ConstantRelax, CallInv, Control
<1>2. UNCHANGED graphVars
  BY DEF ConstantRelax, Relax
<1>3. edges' = edges /\ in_scc' = in_scc /\ value' = value /\ domain' = domain
  BY <1>2 DEF graphVars
<1>4. Phase'
  BY <1>1, <1>3 DEF CallInv, Phase, Turning, Restored
<1>5. TopFound' /\ BottomFound' /\ TopReturned'
  BY <1>1, <1>3, ResultsKept
<1>6. BottomReturned' /\ Tried'
  <2>1. Deterministic' = Deterministic
    BY <1>3 DEF Deterministic
  <2> QED
    BY <1>1, <2>1 DEF BottomReturned, Tried
<1> QED
  BY <1>1, <1>3, <1>4, <1>5, <1>6, NotRunning, IdleKeeps

\* Nothing happens.
LEMMA CallStays ==
  ASSUME CallInv, UNCHANGED vars
  PROVE  CallInv'
<1>1. UNCHANGED graphVars /\ UNCHANGED callVars /\ UNCHANGED <<values, safetyVars, reachVars>>
  BY DEF vars
<1>2. pc' = pc /\ step' = step /\ f' = f /\ current_f' = current_f /\ in_scc' = in_scc
  BY <1>1 DEF callVars, graphVars, f, current_f
<1>3. ASSUME SafetyInv
      PROVE  SafetyInv'
  <2>1. PICK m : UpTo(m, calls, lists, {})
    BY <1>3 DEF SafetyInv
  <2>2. /\ calls' = calls /\ lists' = lists
        /\ UNCHANGED <<graphVars, values, done_edge, counters, done_symbol, value_symbol>>
    BY <1>1 DEF safetyVars
  <2>3. UpTo(m, calls', lists', {}) /\ calls' \in Seq(SUBSET Considered) /\ lists' \subseteq lists
    BY <1>3, <2>1, <2>2 DEF SafetyInv, SafetyType
  <2>4. Ready
    BY RestoredReady, TurnedReady DEF CallInv, Phase
  <2> QED
    BY <1>3, <2>2, <2>3, <2>4, SafetyStays DEF SafetyInv
<1>4. ReachInv' = ReachInv
  BY <1>1, ReachGraphKept DEF ReachInv, ReachType, Path, Visited, LookedAt, Handed, Sound, TopsExact,
     Waits, Reached, FrameType, reachVars
<1>5. Table' = Table
  BY <1>1, TableKept DEF graphVars, avgVars, vars
<1>6. Running'
  BY <1>2, <1>3, <1>4, <1>5 DEF CallInv, Running
<1> QED
  BY <1>1, <1>6, AlgorithmKeeps

\* Every step keeps the invariant.
LEMMA CallKept == CallInv /\ [Next]_vars => CallInv'
<1> SUFFICES ASSUME CallInv, [Next]_vars
             PROVE  CallInv'
  OBVIOUS
<1>1. CASE TopStart \/ TopSafetyStep \/ TopReachStep \/ TopKarpStep \/ TopReturn
  BY <1>1, StartKeeps, SafetyStepKeeps, ReachStepKeeps, KarpStepKeeps, ReturnKeeps
<1>2. CASE BottomInvert \/ BottomUndo \/ BottomTry \/ ConstantRelax
  BY <1>2, InvertKeeps, UndoKeeps, TryKeeps, RelaxKeeps
<1>3. CASE Terminated \/ UNCHANGED vars
  BY <1>3, CallStays DEF Terminated
<1> QED
  BY <1>1, <1>2, <1>3 DEF Next

\* The invariant of the call: where it is, whether the weights are negated, what
\* the running algorithm has established and what has been returned.
THEOREM CallHolds == Spec => []CallInv
<1>1. Init => CallInv
  BY InitCall
<1> QED
  BY <1>1, CallKept, PTL DEF Spec

-----------------------------------------------------------------------------
(* isConstant *)

\* The weights are finitely many integers.
LEMMA ValuesFacts ==
  /\ Values \in SUBSET Int
  /\ IsFiniteSet(Values)
<1>1. IsFiniteSet(Ids)
  <2>1. Len(Weights) \in Int
    BY WeightsAssumption
  <2> QED
    BY <2>1, FS_Interval DEF Ids
<1>2. IsFiniteSet(Values)
  BY <1>1, FiniteImage DEF Values
<1> QED
  BY <1>2, WeightsFacts DEF Values

\* The largest of some weights is one of them.
LEMMA LargestValue ==
  ASSUME NEW X \in SUBSET Values, X # {}
  PROVE  Max(X) \in X /\ Max(X) \in Int /\ \A x \in X : x <= Max(X)
<1>1. IsFiniteSet(X) /\ X \in SUBSET Int
  BY ValuesFacts, FS_Subset
<1> QED
  BY <1>1, MaxExists

\* The smallest of some weights is one of them.
LEMMA SmallestValue ==
  ASSUME NEW X \in SUBSET Values, X # {}
  PROVE  Min(X) \in X /\ Min(X) \in Int /\ \A x \in X : Min(X) <= x
<1>1. IsFiniteSet(X) /\ X \in SUBSET Int
  BY ValuesFacts, FS_Subset
<1> QED
  BY <1>1, MinExists

\* Runs can stay anywhere on edges of the least weight or more.
LEMMA LeastStays ==
  ASSUME GraphOK
  PROVE  Weights[1] \in Values /\ CanStay(State, AtLeast(Weights[1]))
<1>1. AtLeast(Weights[1]) = edges /\ 1 \in Ids
  BY LeastWeight, SomeWeight
<1>2. \A s \in State : \E e \in edges : e.from = s /\ e.to \in State
  <2>1. PICK a \in Symbol : TRUE
    BY SymbolAssumption
  <2> QED
    BY <2>1, EdgeFacts DEF GraphOK
<1> QED
  BY <1>1, <1>2 DEF Values, CanStay

\* The sets whose largest members are the suprema.
Stayed == {x \in Values : \E C \in SUBSET State : initial \in C /\ CanStay(C, AtLeast(x))}
StayedSomewhere == {x \in Values : \E C \in SUBSET State : C # {} /\ CanStay(C, AtLeast(x))}

\* There are weights on which runs can stay.
LEMMA StayedFacts ==
  ASSUME GraphOK
  PROVE  /\ Stayed \in SUBSET Values /\ Stayed # {}
         /\ StayedSomewhere \in SUBSET Values /\ StayedSomewhere # {}
<1>1. Weights[1] \in Stayed /\ Weights[1] \in StayedSomewhere
  BY LeastStays, InitialAssumption DEF Stayed, StayedSomewhere
<1> QED
  BY <1>1 DEF Stayed, StayedSomewhere

\* The weights of some edges.
LEMMA WeightsOf ==
  ASSUME GraphOK, NEW E \in SUBSET edges, E # {}
  PROVE  /\ {weightOf(e) : e \in E} \in SUBSET Values
         /\ {weightOf(e) : e \in E} # {}
BY EdgeFacts

\* There is an edge, and one within a component.
LEMMA SomeEdge ==
  ASSUME GraphOK, Restored
  PROVE  edges # {} /\ Within \in SUBSET edges /\ Within # {}
<1>1. \E e \in edges : SameTag(e.from, e.to)
  BY RestoredReady, WithinExists
<1> QED
  BY <1>1 DEF Within

\* The supremum is one of the weights.
LEMMA TopIn ==
  ASSUME GraphOK, Restored, f \in Extrema
  PROVE  TrueTop \in Values
<1>1. CASE f = "Inf"
  <2>1. TrueTop = Max(Stayed)
    BY <1>1 DEF TrueTop, Averages, InfTop, Stayed
  <2> QED
    BY <2>1, StayedFacts, LargestValue
<1>2. CASE f = "LimInf"
  <2>1. TrueTop = Max(StayedSomewhere)
    BY <1>2 DEF TrueTop, Averages, LimInfTop, StayedSomewhere
  <2> QED
    BY <2>1, StayedFacts, LargestValue
<1>3. CASE f = "Sup"
  <2> DEFINE X == {weightOf(e) : e \in edges}
  <2>1. TrueTop = Max(X)
    BY <1>3 DEF TrueTop, Averages, SupTop
  <2>2. X \in SUBSET Values /\ X # {}
    BY SomeEdge, WeightsOf
  <2> HIDE DEF X
  <2> QED
    BY <2>1, <2>2, LargestValue
<1>4. CASE f = "LimSup"
  <2> DEFINE X == {weightOf(e) : e \in Within}
  <2>1. TrueTop = Max(X)
    BY <1>4 DEF TrueTop, Averages, LimSupTop
  <2>2. X \in SUBSET Values /\ X # {}
    BY SomeEdge, WeightsOf
  <2> HIDE DEF X
  <2> QED
    BY <2>1, <2>2, LargestValue
<1> QED
  BY <1>1, <1>2, <1>3, <1>4 DEF Extrema

\* The infimum over all words is not above the supremum over all runs.
LEMMA BottomBelow ==
  ASSUME GraphOK, Restored, Deterministic, f \in {"Inf", "LimInf"}
  PROVE  TrueBottom \in Int /\ TrueTop \in Int /\ TrueBottom <= TrueTop
<1>1. CASE f = "Inf"
  <2> DEFINE X == {weightOf(e) : e \in edges}
             m == Min(X)
  <2>1. TrueBottom = m
    BY <1>1 DEF TrueBottom, Averages, InfBottom
  <2>2. TrueTop = Max(Stayed)
    BY <1>1 DEF TrueTop, Averages, InfTop, Stayed
  <2>3. X \in SUBSET Values /\ X # {}
    BY SomeEdge, WeightsOf
  <2>4. \A e \in edges : weightOf(e) \in X
    OBVIOUS
  <2> HIDE DEF X
  <2>5. m \in Values /\ m \in Int /\ \A x \in X : m <= x
    BY <2>3, SmallestValue
  <2> HIDE DEF m
  <2>6. AtLeast(m) = edges
    <3>1. \A e \in edges : weightOf(e) \in Int /\ m <= weightOf(e)
      BY <2>4, <2>5, EdgeFacts
    <3> QED
      BY <2>5, <3>1 DEF AtLeast
  <2>7. CanStay(State, AtLeast(m))
    BY <2>6, LeastStays, LeastWeight
  <2>8. m \in Stayed
    BY <2>5, <2>7, InitialAssumption DEF Stayed
  <2> QED
    BY <2>1, <2>2, <2>5, <2>8, StayedFacts, LargestValue
<1>2. CASE f = "LimInf"
  <2> DEFINE X == {weightOf(e) : e \in Within}
             m == Min(X)
  <2>1. TrueBottom = m
    BY <1>2 DEF TrueBottom, Averages, LimInfBottom
  <2>2. TrueTop = Max(StayedSomewhere)
    BY <1>2 DEF TrueTop, Averages, LimInfTop, StayedSomewhere
  <2>3. X \in SUBSET Values /\ X # {}
    BY SomeEdge, WeightsOf
  <2>4. \A e \in Within : weightOf(e) \in X
    OBVIOUS
  <2> HIDE DEF X
  <2>5. m \in Values /\ m \in Int /\ \A x \in X : m <= x
    BY <2>3, SmallestValue
  <2> HIDE DEF m
  <2>6. Within \in SUBSET AtLeast(m)
    <3>1. \A e \in Within : e \in edges /\ weightOf(e) \in Int /\ m <= weightOf(e)
      BY <2>4, <2>5, SomeEdge, EdgeFacts
    <3> QED
      BY <2>5, <3>1 DEF AtLeast
  <2>7. PICK s \in State : \A t \in State : Reaches(succ, s, t) => Reaches(succ, t, s)
    BY InitialAssumption, StateAssumption, RestoredReady, SuccIsGraph, BottomState
  <2> DEFINE C == {t \in State : Reaches(succ, s, t)}
  <2>8. s \in C
    BY RestoredReady, SuccIsGraph, ReachesItself
  <2>9. ASSUME NEW t \in C
        PROVE  \E e \in Within : e.from = t /\ e.to \in C
    <3>1. PICK a \in Symbol : TRUE
      BY SymbolAssumption
    <3>2. PICK e \in edges : e.from = t
      BY <3>1 DEF GraphOK
    <3>3. e.to \in State /\ Reaches(succ, t, e.to)
      BY <3>2, EdgeFacts, RestoredReady, SuccIsGraph, SuccHas, ReachesSuccessor
    <3>4. Reaches(succ, s, e.to)
      BY <3>3, RestoredReady, SuccIsGraph, ReachesTransitive
    <3>5. Reaches(succ, e.to, t)
      BY <2>7, <3>3, <3>4, RestoredReady, SuccIsGraph, ReachesTransitive
    <3> QED
      BY <3>2, <3>3, <3>4, <3>5 DEF Within, SameTag, Mutual
  <2>10. C \in SUBSET State
    OBVIOUS
  <2> HIDE DEF C
  <2>11. CanStay(C, AtLeast(m))
    BY <2>6, <2>9 DEF CanStay
  <2>12. m \in StayedSomewhere
    BY <2>5, <2>8, <2>10, <2>11 DEF StayedSomewhere
  <2> QED
    BY <2>1, <2>2, <2>5, <2>12, StayedFacts, LargestValue
<1> QED
  BY <1>1, <1>2

\* Where there is a choice all words reach the top when the largest weight
\* that all of them reach is not below it.
LEMMA ChoiceReachesTop ==
  ASSUME GraphOK, Restored, f \in Extrema
  PROVE  Universal(AtLeast(TrueTop), f) <=> ChoiceBottom >= TrueTop
<1> DEFINE Y == {x \in Values : Universal(AtLeast(x), f)}
           m == ChoiceBottom
<1>1. m = Max(Y)
  BY DEF ChoiceBottom
<1>2. TrueTop \in Values
  BY TopIn
<1>3. Weights[1] \in Y
  BY LeastStays, LeastWeight, UniversalAll
<1>4. Y \in SUBSET Values /\ Y # {}
  BY <1>3
<1>5. \A x : x \in Y <=> x \in Values /\ Universal(AtLeast(x), f)
  OBVIOUS
<1> HIDE DEF Y, m
<1>6. m \in Y /\ m \in Int /\ \A x \in Y : x <= m
  BY <1>1, <1>4, LargestValue
<1>7. TrueTop \in Int
  BY <1>2, ValuesFacts
<1>8. Universal(AtLeast(TrueTop), f) => m >= TrueTop
  BY <1>2, <1>5, <1>6, <1>7
<1>9. ASSUME m >= TrueTop
      PROVE  Universal(AtLeast(TrueTop), f)
  <2>1. AtLeast(m) \subseteq AtLeast(TrueTop)
    <3>1. \A e \in edges : weightOf(e) \in Int
      BY EdgeFacts
    <3> QED
      BY <1>6, <1>7, <1>9, <3>1 DEF AtLeast
  <2> QED
    BY <1>5, <1>6, <2>1, UniversalMonotone
<1> QED
  BY <1>8, <1>9 DEF m

\* What isConstant returns when the call is over.
LEMMA ConstantIs ==
  ASSUME CallInv, Settled, f \in Extrema \/ Deterministic, pc = "done", method = "isConstant"
  PROVE  isConstant <=> AllReachTop
<1>1. /\ GraphOK /\ Restored /\ top = TrueTop /\ f \in ValueFunctions
      /\ f \in Averages => LargestMean(top)
  BY DEF CallInv, Phase, Turning, TopReturned, Control
<1>2. CASE Deterministic
  <2>1. bottom = TrueBottom /\ (f \in Averages => SmallestMean(bottom))
    BY <1>2 DEF CallInv, BottomReturned
  <2>2. isConstant <=> TrueTop = TrueBottom
    BY <1>1, <1>2, <2>1 DEF isConstant
  <2>3. AllReachTop <=> TrueBottom >= TrueTop
    BY <1>2 DEF AllReachTop
  <2>4. TrueBottom \in Int /\ TrueTop \in Int /\ TrueBottom <= TrueTop
    <3>1. CASE f \in {"Inf", "LimInf"}
      BY <1>1, <1>2, <3>1, BottomBelow
    <3>2. CASE f \in Averages
      BY <1>1, <2>1, <3>2 DEF LargestMean, SmallestMean
    <3> QED
      BY <1>1, <1>2, <3>1, <3>2 DEF Settled, ValueFunctions, Extrema
  <2> QED
    BY <2>2, <2>3, <2>4
<1>3. CASE ~Deterministic
  <2>1. f \in Extrema /\ f \notin Averages
    BY <1>3 DEF Extrema, Averages
  <2>2. {e \in edges : value[e.id] >= TrueTop} = AtLeast(TrueTop)
    BY <1>1 DEF Restored, AtLeast, weightOf
  <2>3. isConstant <=> Universal(AtLeast(TrueTop), f)
    BY <1>1, <1>3, <2>1, <2>2 DEF isConstant, isUniversal
  <2>4. AllReachTop <=> ChoiceBottom >= TrueTop
    BY <1>3, <2>1 DEF AllReachTop, TrueBottom
  <2> QED
    BY <1>1, <2>1, <2>3, <2>4, ChoiceReachesTop
<1> QED
  BY <1>2, <1>3

-----------------------------------------------------------------------------
(* The theorems *)

\* WeightsRestored: whatever was asked for, the caller finds the weights, their
\* order and the bounds of the domain as they were, though compute_Bottom negates
\* them where they stand.
THEOREM WeightsAlwaysRestored == Spec => []WeightsRestored
<1>1. CallInv => WeightsRestored
  BY DEF CallInv, Phase, Turning, Restored, Identity, WeightsRestored
<1> QED
  BY <1>1, CallHolds, PTL

\* TopExact: what top_Inf, top_Sup, top_LimInf, top_LimSup and, for averages,
\* top_LimAvg return is the supremum over all runs.
THEOREM TopCorrect == Spec => []TopExact
<1>1. CallInv => TopExact
  BY DEF CallInv, TopFound
<1> QED
  BY <1>1, CallHolds, PTL

\* BottomExact for automata with a choice, where weights are tried from the
\* largest down, and for all but Sup and LimSup of deterministic ones, where the
\* weights are negated: what compute_Bottom returns is the infimum over all words.
THEOREM BottomCorrect == Spec => [](Settled => BottomExact)
<1>1. CallInv => (Settled => BottomExact)
  BY DEF CallInv, BottomFound
<1> QED
  BY <1>1, CallHolds, PTL

\* ConstantIsUniversal for the same calls, averages left out where there is a
\* choice: isConstant says whether all words have the value of the top.
THEOREM ConstantCorrect ==
  Spec => [](Settled /\ (f \in Extrema \/ Deterministic) => ConstantIsUniversal)
<1>1. CallInv => (Settled /\ (f \in Extrema \/ Deterministic) => ConstantIsUniversal)
  BY ConstantIs DEF ConstantIsUniversal
<1> QED
  BY <1>1, CallHolds, PTL
=============================================================================
