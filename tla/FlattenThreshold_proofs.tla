---------------------- MODULE FlattenThreshold_proofs ----------------------
(***************************************************************************)
(* The threshold flattenings lose no run that matters, for all nested      *)
(* automata, thresholds and value functions: an obligation holds, for each *)
(* state of the child, the best progress of ALL runs of the call that can  *)
(* still return what was guessed.                                          *)
(*                                                                         *)
(* Three facts carry the argument.  Better progress stays better, returns  *)
(* whenever worse progress does, and is live whenever worse progress is    *)
(* (MoveBetter, DischargeBetter, LiveBetter).  A configuration with a live *)
(* successor is live (LiveBackward), so that what is dropped before a      *)
(* letter is of no use after it.  And both facts about live configurations *)
(* rest on the tables being complete once the automaton is built           *)
(* (CutoffsInv, LiveInv).                                                  *)
(*                                                                         *)
(* The tables are sound as well: from a state whose cut-off a progress     *)
(* reaches, a run returns what was guessed (TablesSound).  So a letter is  *)
(* refused only when a guess cannot be met any more (RefusedCorrect).      *)
(***************************************************************************)
EXTENDS FlattenThreshold, DataInduction

\* What does not change.
Input ==
  /\ nested \in NestedAutomaton
  /\ finVal \in {"Max", "Min", "SumPlus", "SumMinus"}
  /\ infVal \in {"Inf", "Sup"}
  /\ threshold \in Int /\ -MaxSum < threshold /\ threshold < MaxSum

\* The type invariant of the run gives that of its input.
LEMMA InputType == ThresholdTypeOK => Input
<1> SUFFICES ASSUME ThresholdTypeOK PROVE Input
  OBVIOUS
<1>1. nested \in NestedAutomaton
  BY NestedAssumption DEF ThresholdTypeOK
<1>2. finVal \in {"Max", "Min", "SumPlus", "SumMinus"} /\ infVal \in {"Inf", "Sup"}
  BY ThresholdAssumption DEF ThresholdTypeOK
<1>3. threshold \in Int /\ -MaxSum < threshold /\ threshold < MaxSum
  BY ThresholdAssumption DEF ThresholdTypeOK
<1> QED
  BY <1>1, <1>2, <1>3 DEF Input

-----------------------------------------------------------------------------
(***************************************************************************)
(* The least and the largest of a set of numbers                           *)
(***************************************************************************)

LEMMA LeastExists ==
  ASSUME NEW S \in SUBSET Nat, S # {}
  PROVE  \E x \in S : \A y \in S : x <= y
BY LeastNat

\* SmallestOf is the least element.
LEMMA SmallestFact ==
  ASSUME NEW S \in SUBSET Nat, S # {}
  PROVE  SmallestOf(S) \in S /\ \A y \in S : SmallestOf(S) <= y
BY LeastExists DEF SmallestOf

\* A bounded set of naturals has a largest element.
LEMMA LargestExists ==
  ASSUME NEW S \in SUBSET Nat, S # {}, NEW b \in Nat, \A y \in S : y <= b
  PROVE  \E x \in S : \A y \in S : x >= y
<1> DEFINE T == {b - y : y \in S}
<1>1. T \in SUBSET Nat /\ T # {}
  <2>1. ASSUME NEW y \in S PROVE b - y \in Nat
    <3>1. y \in Nat /\ y <= b
      OBVIOUS
    <3> QED
      BY <3>1
  <2> QED
    BY <2>1
<1>2. PICK d \in T : \A e \in T : d <= e
  <2> HIDE DEF T
  <2> QED
    BY <1>1, LeastExists
<1>3. PICK x \in S : d = b - x
  OBVIOUS
<1>4. ASSUME NEW y \in S PROVE x >= y
  <2>1. b - y \in T /\ x \in Nat /\ y \in Nat
    OBVIOUS
  <2>2. b - x <= b - y
    BY <1>2, <1>3, <2>1
  <2> QED
    BY <2>1, <2>2
<1> QED
  BY <1>4

\* LargestOf is that element.
LEMMA LargestFact ==
  ASSUME NEW S \in SUBSET Nat, S # {}, NEW b \in Nat, \A y \in S : y <= b
  PROVE  LargestOf(S) \in S /\ \A y \in S : y <= LargestOf(S)
<1>1. \E x \in S : \A y \in S : x >= y
  BY LargestExists
<1>2. LargestOf(S) \in S /\ \A y \in S : LargestOf(S) >= y
  BY <1>1 DEF LargestOf
<1> QED
  BY <1>2

-----------------------------------------------------------------------------
(***************************************************************************)
(* Progress                                                                *)
(***************************************************************************)

LEMMA GoalType ==
  ASSUME Input
  PROVE  /\ Goal \in Nat /\ Cap \in Nat /\ Goal <= Cap /\ Cap <= MaxSum /\ Cap <= Infinity
         /\ MaxSum \in Nat /\ Infinity \in Nat
         /\ finVal \notin Sums => ~Forced /\ Cap = 1
         /\ finVal = "SumPlus" /\ ~Forced => Goal = threshold /\ Cap = Goal /\ threshold > 0
         /\ finVal = "SumMinus" /\ ~Forced => Goal = -threshold /\ Cap = Goal + 1
         /\ finVal = "SumPlus" /\ Forced => threshold <= 0
         /\ finVal = "SumMinus" /\ Forced => threshold > 0
<1>1. MaxSum \in Nat /\ Infinity \in Nat /\ MaxSum <= Infinity
  BY ThresholdAssumption
<1>2. CASE finVal \notin Sums
  BY <1>1, <1>2 DEF Input, Sums, Forced, Goal, Cap
<1>3. CASE finVal = "SumPlus"
  BY <1>1, <1>3 DEF Input, Sums, Forced, Goal, Cap
<1>4. CASE finVal = "SumMinus"
  BY <1>1, <1>4 DEF Input, Sums, Forced, Goal, Cap
<1> QED
  BY <1>2, <1>3, <1>4 DEF Sums

\* Costs are naturals.
LEMMA CostType == ASSUME NEW w \in Int PROVE Cost(w) \in Nat
BY DEF Cost

\* The edges of a child.
LEMMA EdgeType ==
  ASSUME Input, NEW i \in Child, NEW e \in nested.child[i].edges
  PROVE  e.from \in ChildState /\ e.to \in ChildState /\ e.weight \in Int
<1>1. nested.child[i].edges \subseteq ChildEdge
  BY DEF Input, NestedAutomaton, ChildAutomaton
<1> QED
  BY <1>1, NestedAssumption DEF ChildEdge

\* The edges of a child that read a letter.
LEMMA ChildEdgeType ==
  ASSUME Input, NEW i \in Child, NEW s, NEW a, NEW e \in ChildEdges(i, s, a)
  PROVE  /\ e \in nested.child[i].edges /\ e.from = s
         /\ s \in ChildState /\ e.to \in ChildState /\ e.weight \in Int
<1>1. e \in nested.child[i].edges /\ e.from = s
  BY DEF ChildEdges
<1> QED
  BY <1>1, EdgeType

\* Progress stays below the cap.
LEMMA StepProgType ==
  ASSUME Input, NEW p \in 0 .. Cap, NEW w \in Int
  PROVE  StepProg(p, w) \in 0 .. Cap
<1>1. Cap \in Nat /\ Cost(w) \in Nat /\ (finVal \notin Sums => Cap = 1)
  BY GoalType, CostType
<1>2. CASE finVal = "Max"
  BY <1>1, <1>2 DEF StepProg, Sums
<1>3. CASE finVal = "Min"
  BY <1>1, <1>3 DEF StepProg, Sums
<1>4. CASE finVal \in Sums
  <2>1. StepProg(p, w) = Smaller(p + Cost(w), Cap)
    BY <1>4 DEF StepProg, Sums
  <2> QED
    BY <1>1, <2>1 DEF Smaller
<1> QED
  BY <1>2, <1>3, <1>4 DEF Input, Sums

\* p is at least as good as q for the guess g.
Better(g, p, q) == IF PrefersLarger(g) THEN q <= p ELSE p <= q

\* Better progress stays better.
LEMMA MoveBetter ==
  ASSUME Input, NEW p \in 0 .. Cap, NEW q \in 0 .. Cap, NEW w \in Int
  PROVE  /\ p <= q => StepProg(p, w) <= StepProg(q, w)
<1>1. Cap \in Nat /\ Cost(w) \in Nat /\ (finVal \notin Sums => Cap = 1)
  BY GoalType, CostType
<1>2. CASE finVal = "Max"
  BY <1>1, <1>2 DEF StepProg, Sums
<1>3. CASE finVal = "Min"
  BY <1>1, <1>3 DEF StepProg, Sums
<1>4. CASE finVal \in Sums
  <2>1. StepProg(p, w) = Smaller(p + Cost(w), Cap) /\ StepProg(q, w) = Smaller(q + Cost(w), Cap)
    BY <1>4 DEF StepProg, Sums
  <2> QED
    BY <1>1, <2>1 DEF Smaller
<1> QED
  BY <1>2, <1>3, <1>4 DEF Input, Sums

\* Better progress returns the guess whenever worse progress does.
LEMMA DischargeBetter ==
  ASSUME Input, NEW g \in Guess, NEW p \in 0 .. Cap, NEW q \in 0 .. Cap,
         Better(g, p, q), DischargeOK(g, q)
  PROVE  DischargeOK(g, p)
<1>1. Goal \in Nat /\ Cap \in Nat /\ (finVal \notin Sums => Cap = 1)
  BY GoalType
<1>2. CASE g = AnyReturn \/ (Forced /\ g = ForcedGuess)
  BY <1>2 DEF DischargeOK
<1>3. CASE g # AnyReturn /\ ~(Forced /\ g = ForcedGuess)
  <2>1. ~Forced /\ g \in {Below, AtLeast}
    BY <1>3 DEF DischargeOK, Guess
  <2>2. CASE finVal \notin Sums
    BY <1>1, <1>3, <2>1, <2>2 DEF DischargeOK, Better, PrefersLarger, Sums, Below, AtLeast, AnyReturn, Input
  <2>3. CASE finVal \in Sums
    BY <1>1, <1>3, <2>1, <2>3 DEF DischargeOK, Better, PrefersLarger, Sums, Below, AtLeast, AnyReturn
  <2> QED
    BY <2>2, <2>3
<1> QED
  BY <1>2, <1>3

-----------------------------------------------------------------------------
(***************************************************************************)
(* Live configurations                                                     *)
(***************************************************************************)

\* The costs of the ways to final states: bounds on them while they are
\* computed, and that none is missing once the automaton is built.
CutoffsInv ==
  finVal \in Sums =>
    \A i \in Child :
      /\ \A s \in ChildFinal(i) : least[i][s] = 0
      /\ \A s \in ChildState : most[i][s] <= Cap
      /\ \A e \in nested.child[i].edges :
           e.from \in CanReturn(i) /\ e.to \in CanReturn(i) =>
             e.to \in raised[i] \/ Smaller(most[i][e.to] + Cost(e.weight), Cap) <= most[i][e.from]
      /\ stage = "flatten" =>
           /\ raised[i] = {}
           /\ \A e \in nested.child[i].edges :
                least[i][e.from] <= Add(least[i][e.to], Cost(e.weight))

\* The table of live configurations: better ones with every one it has, and
\* none missing once the automaton is built.
LiveInv ==
  finVal \notin Sums =>
    /\ \A t \in live : \A p \in {0, 1} :
         Better(t.guess, p, t.prog) => [t EXCEPT !.prog = p] \in live
    /\ stage = "flatten" => \A t \in Target : LiveNow(t) => t \in live

\* Final states of a child are states of it.
LEMMA FinalType == ASSUME Input, NEW i \in Child PROVE ChildFinal(i) \subseteq ChildState
BY DEF Input, NestedAutomaton, ChildAutomaton, ChildFinal

\* A final state can return.
LEMMA CanReturnFinal ==
  ASSUME Input, NEW i \in Child, NEW s \in ChildFinal(i)
  PROVE  s \in CanReturn(i)
<1>1. Reaches(ChildGraph(i), s, s)
  BY DEF Reaches
<1> QED
  BY <1>1, FinalType DEF CanReturn

\* So can a state with an edge to one that can.
LEMMA CanReturnBackward ==
  ASSUME Input, NEW i \in Child, NEW e \in nested.child[i].edges, e.to \in CanReturn(i)
  PROVE  e.from \in CanReturn(i)
<1> DEFINE G == ChildGraph(i)
<1>1. e.from \in ChildState /\ e.to \in ChildState
  BY EdgeType
<1>2. DOMAIN G = ChildState /\ e.to \in G[e.from]
  BY <1>1 DEF ChildGraph
<1>3. PICK t \in ChildFinal(i) : Reaches(G, e.to, t)
  BY DEF CanReturn
<1>4. Reaches(G, e.from, t)
  <2> SUFFICES ASSUME NEW C \in SUBSET DOMAIN G, e.from \in C, Closed(G, C) PROVE t \in C
    BY DEF Reaches
  <2>1. e.to \in C
    BY <1>2 DEF Closed
  <2> QED
    BY <1>3, <2>1 DEF Reaches
<1> QED
  BY <1>1, <1>4 DEF CanReturn

\* Better progress is live whenever worse progress is.
LEMMA LiveBetter ==
  ASSUME ThresholdTypeOK, LiveInv, NEW i \in Child, NEW g \in Guess, NEW s \in ChildState,
         NEW p \in 0 .. Cap, NEW q \in 0 .. Cap, Better(g, p, q), IsLive(i, g, <<s, q>>)
  PROVE  IsLive(i, g, <<s, p>>)
<1>0. Input
  BY InputType
<1>1. Goal \in Nat /\ Cap \in Nat /\ Cap <= Infinity /\ Infinity \in Nat
  BY <1>0, GoalType
<1>2. s \in CanReturn(i)
  BY DEF IsLive
<1>3. CASE g = AnyReturn \/ (Forced /\ g = ForcedGuess)
  BY <1>2, <1>3 DEF IsLive
<1>4. CASE g # AnyReturn /\ ~(Forced /\ g = ForcedGuess)
  <2>1. ~Forced /\ g \in {Below, AtLeast}
    BY <1>4 DEF IsLive, Guess
  <2>2. CASE finVal \notin Sums
    <3>1. Cap = 1 /\ finVal \in {"Max", "Min"}
      BY <1>0, <2>2, GoalType DEF Input, Sums
    <3>2. InLive(i, g, <<s, q>>)
      BY <1>4, <2>1, <3>1 DEF IsLive
    <3> DEFINE t == [child |-> i, guess |-> g, state |-> s, prog |-> q]
    <3>3. t \in live /\ p \in {0, 1} /\ Better(t.guess, p, t.prog)
      BY <3>1, <3>2 DEF InLive
    <3>4. [t EXCEPT !.prog = p] \in live
      BY <2>2, <3>3 DEF LiveInv
    <3>5. [t EXCEPT !.prog = p] = [child |-> i, guess |-> g, state |-> s, prog |-> p]
      OBVIOUS
    <3>6. InLive(i, g, <<s, p>>)
      BY <3>4, <3>5 DEF InLive
    <3> QED
      BY <1>2, <2>1, <3>1, <3>6 DEF IsLive
  <2>3. CASE finVal \in Sums
    <3>1. least[i][s] \in Nat /\ most[i][s] \in Nat
      BY DEF ThresholdTypeOK
    <3>2. CASE finVal = "SumPlus" /\ g = AtLeast
      <4>1. q <= p /\ Smaller(q + most[i][s], Cap) >= Goal
        BY <2>1, <3>2, <1>4 DEF IsLive, Better, PrefersLarger, Below, AtLeast
      <4>2. Smaller(p + most[i][s], Cap) >= Goal
        BY <1>1, <3>1, <4>1 DEF Smaller
      <4> QED
        BY <1>2, <2>1, <3>2, <4>2 DEF IsLive
    <3>3. CASE finVal = "SumPlus" /\ g = Below
      <4>1. p <= q /\ Add(q, least[i][s]) < Goal
        BY <2>1, <3>3, <1>4 DEF IsLive, Better, PrefersLarger, Below, AtLeast
      <4>2. Add(p, least[i][s]) < Goal
        <5>1. Goal <= Infinity
          BY <1>0, <1>1, GoalType
        <5> QED
          BY <1>1, <3>1, <4>1, <5>1 DEF Add
      <4> QED
        BY <1>2, <2>1, <3>3, <4>2 DEF IsLive
    <3>4. CASE finVal = "SumMinus" /\ g = AtLeast
      <4>1. p <= q /\ Add(q, least[i][s]) <= Goal
        BY <2>1, <3>4, <1>4 DEF IsLive, Better, PrefersLarger, Below, AtLeast
      <4>2. Add(p, least[i][s]) <= Goal
        <5>1. Goal < Infinity
          BY <1>0, <1>1, <2>1, <3>4, GoalType
        <5> QED
          BY <1>1, <3>1, <4>1, <5>1 DEF Add
      <4> QED
        BY <1>2, <2>1, <3>4, <4>2 DEF IsLive
    <3>5. CASE finVal = "SumMinus" /\ g = Below
      <4>1. q <= p /\ Smaller(q + most[i][s], Cap) >= Cap
        BY <2>1, <3>5, <1>4 DEF IsLive, Better, PrefersLarger, Below, AtLeast
      <4>2. Smaller(p + most[i][s], Cap) >= Cap
        BY <1>1, <3>1, <4>1 DEF Smaller
      <4> QED
        BY <1>2, <2>1, <3>5, <4>2 DEF IsLive
    <3> QED
      BY <2>1, <2>3, <3>2, <3>3, <3>4, <3>5 DEF Sums
  <2> QED
    BY <2>2, <2>3
<1> QED
  BY <1>3, <1>4

\* A run of a sum that may stop where it is is live.
LEMMA FinalLive ==
  ASSUME ThresholdTypeOK, CutoffsInv, NEW i \in Child, NEW g \in Guess, NEW s \in ChildFinal(i),
         NEW p \in 0 .. Cap, DischargeOK(g, p), finVal \in Sums
  PROVE  IsLive(i, g, <<s, p>>)
<1>0. Input
  BY InputType
<1>1. Goal \in Nat /\ Cap \in Nat /\ Goal <= Cap /\ Cap <= Infinity /\ Infinity \in Nat
  BY <1>0, GoalType
<1>2. s \in CanReturn(i) /\ s \in ChildState
  BY <1>0, CanReturnFinal, FinalType
<1>3. least[i][s] = 0 /\ most[i][s] \in Nat
  BY <1>2 DEF CutoffsInv, ThresholdTypeOK
<1>4. CASE g = AnyReturn \/ (Forced /\ g = ForcedGuess)
  BY <1>2, <1>4 DEF IsLive
<1>5. CASE g # AnyReturn /\ ~(Forced /\ g = ForcedGuess)
  <2>1. ~Forced /\ finVal \notin {"Max", "Min"}
    BY <1>5 DEF DischargeOK, Sums
  <2>2. CASE finVal = "SumPlus" /\ g = AtLeast
    <3>1. p >= Goal
      BY <1>5, <2>1, <2>2 DEF DischargeOK, Below, AtLeast
    <3>2. Smaller(p + most[i][s], Cap) >= Goal
      BY <1>1, <1>3, <3>1 DEF Smaller
    <3> QED
      BY <1>2, <2>1, <2>2, <3>2 DEF IsLive
  <2>3. CASE finVal = "SumPlus" /\ g = Below
    <3>1. p < Goal
      BY <1>5, <2>1, <2>3 DEF DischargeOK, Below, AtLeast
    <3>2. Add(p, least[i][s]) < Goal
      BY <1>1, <1>3, <3>1 DEF Add
    <3> QED
      BY <1>2, <2>1, <2>3, <3>2 DEF IsLive
  <2>4. CASE finVal = "SumMinus" /\ g = AtLeast
    <3>1. p <= Goal /\ Goal < Infinity
      BY <1>0, <1>1, <1>5, <2>1, <2>4, GoalType DEF DischargeOK, Below, AtLeast
    <3>2. Add(p, least[i][s]) <= Goal
      BY <1>1, <1>3, <3>1 DEF Add
    <3> QED
      BY <1>2, <2>1, <2>4, <3>2 DEF IsLive
  <2>5. CASE finVal = "SumMinus" /\ g = Below
    <3>1. p >= Cap
      BY <1>5, <2>1, <2>5 DEF DischargeOK, Below, AtLeast
    <3>2. Smaller(p + most[i][s], Cap) >= Cap
      BY <1>1, <1>3, <3>1 DEF Smaller
    <3> QED
      BY <1>2, <2>1, <2>5, <3>2 DEF IsLive
  <2> QED
    BY <1>5, <2>2, <2>3, <2>4, <2>5 DEF Sums, Guess
<1> QED
  BY <1>4, <1>5

\* A configuration of a sum with a live successor is live: the cut-offs of its
\* state account for those of the next one.
LEMMA SumLiveBackward ==
  ASSUME ThresholdTypeOK, CutoffsInv, stage = "flatten", finVal \in Sums,
         NEW i \in Child, NEW g \in Guess, NEW e \in nested.child[i].edges, NEW p \in 0 .. Cap,
         IsLive(i, g, Move(g, <<e.from, p>>, e))
  PROVE  IsLive(i, g, <<e.from, p>>)
<1> DEFINE s == e.from
           t == e.to
           n == Cost(e.weight)
           p2 == Move(g, <<e.from, p>>, e)[2]
<1>0. Input
  BY InputType
<1>1. Goal \in Nat /\ Cap \in Nat /\ Goal <= Cap /\ Cap <= Infinity /\ Infinity \in Nat
  BY <1>0, GoalType
<1>2. s \in ChildState /\ t \in ChildState /\ n \in Nat
  BY <1>0, EdgeType, CostType
<1>3. Move(g, <<e.from, p>>, e) = <<t, p2>>
  BY DEF Move
<1>4. t \in CanReturn(i)
  BY <1>3 DEF IsLive
<1>5. s \in CanReturn(i)
  BY <1>0, <1>4, CanReturnBackward
<1>6. /\ least[i][s] \in Nat /\ least[i][t] \in Nat /\ most[i][s] \in Nat /\ most[i][t] \in Nat
      /\ least[i][s] <= Add(least[i][t], n)
      /\ Smaller(most[i][t] + n, Cap) <= most[i][s]
  <2>1. raised[i] = {}
    BY DEF CutoffsInv
  <2>2. least[i][s] \in Nat /\ least[i][t] \in Nat /\ most[i][s] \in Nat /\ most[i][t] \in Nat
    BY <1>2 DEF ThresholdTypeOK
  <2> QED
    BY <1>4, <1>5, <2>1, <2>2 DEF CutoffsInv
<1>7. CASE g = AnyReturn \/ (Forced /\ g = ForcedGuess)
  BY <1>5, <1>7 DEF IsLive
<1>8. CASE g # AnyReturn /\ ~(Forced /\ g = ForcedGuess)
  <2>1. ~Forced /\ finVal \notin {"Max", "Min"}
    BY <1>8 DEF IsLive, Sums
  <2>2. p2 = Smaller(p + n, Cap)
    BY <1>8, <2>1 DEF Move, StepProg, Sums
  <2> HIDE DEF s, t, n, p2
  <2>3. CASE finVal = "SumPlus" /\ g = AtLeast
    <3>1. Smaller(p2 + most[i][t], Cap) >= Goal
      BY <1>3, <1>8, <2>1, <2>3 DEF IsLive, Below, AtLeast
    <3>2. Smaller(p + most[i][s], Cap) >= Goal
      BY <1>1, <1>2, <1>6, <2>2, <3>1 DEF Smaller
    <3> QED
      BY <1>5, <2>1, <2>3, <3>2 DEF IsLive, s
  <2>4. CASE finVal = "SumPlus" /\ g = Below
    <3>1. Add(p2, least[i][t]) < Goal /\ Cap = Goal
      BY <1>0, <1>3, <1>8, <2>1, <2>4, GoalType DEF IsLive, Below, AtLeast
    <3>2. p2 + least[i][t] < Goal /\ p2 = p + n /\ least[i][t] # Infinity
      BY <1>1, <1>2, <1>6, <2>2, <3>1 DEF Smaller, Add
    <3>3. Add(p, least[i][s]) < Goal
      BY <1>1, <1>2, <1>6, <3>2 DEF Add
    <3> QED
      BY <1>5, <2>1, <2>4, <3>3 DEF IsLive, s
  <2>5. CASE finVal = "SumMinus" /\ g = AtLeast
    <3>1. Add(p2, least[i][t]) <= Goal /\ Cap = Goal + 1
      BY <1>0, <1>3, <1>8, <2>1, <2>5, GoalType DEF IsLive, Below, AtLeast
    <3>2. p2 + least[i][t] <= Goal /\ p2 = p + n /\ least[i][t] # Infinity
      BY <1>1, <1>2, <1>6, <2>2, <3>1 DEF Smaller, Add
    <3>3. Add(p, least[i][s]) <= Goal
      BY <1>1, <1>2, <1>6, <3>1, <3>2 DEF Add
    <3> QED
      BY <1>5, <2>1, <2>5, <3>3 DEF IsLive, s
  <2>6. CASE finVal = "SumMinus" /\ g = Below
    <3>1. Smaller(p2 + most[i][t], Cap) >= Cap
      BY <1>3, <1>8, <2>1, <2>6 DEF IsLive, Below, AtLeast
    <3>2. Smaller(p + most[i][s], Cap) >= Cap
      BY <1>1, <1>2, <1>6, <2>2, <3>1 DEF Smaller
    <3> QED
      BY <1>5, <2>1, <2>6, <3>2 DEF IsLive, s
  <2> QED
    BY <1>8, <2>3, <2>4, <2>5, <2>6 DEF Sums, Guess
<1> QED
  BY <1>7, <1>8

\* A configuration with a live successor, or with an edge that returns what is
\* guessed, is live.
LEMMA LiveBackward ==
  ASSUME ThresholdTypeOK, CutoffsInv, LiveInv, stage = "flatten",
         NEW i \in Child, NEW g \in Guess, NEW e \in nested.child[i].edges, NEW p \in 0 .. Cap,
         \/ IsLive(i, g, Move(g, <<e.from, p>>, e))
         \/ e.to \in ChildFinal(i) /\ DischargeOK(g, Move(g, <<e.from, p>>, e)[2])
  PROVE  IsLive(i, g, <<e.from, p>>)
<1> DEFINE p2 == Move(g, <<e.from, p>>, e)[2]
<1>0. Input
  BY InputType
<1>1. Move(g, <<e.from, p>>, e) = <<e.to, p2>>
  BY DEF Move
<1>2. e.from \in ChildState /\ e.to \in ChildState /\ e.weight \in Int
  BY <1>0, EdgeType
<1>3. p2 \in 0 .. Cap
  <2>1. 0 \in 0 .. Cap
    BY <1>0, GoalType
  <2> QED
    BY <1>0, <1>2, <2>1, StepProgType DEF Move
<1>4. CASE finVal \in Sums
  <2>1. IsLive(i, g, Move(g, <<e.from, p>>, e))
    <3> HIDE DEF p2
    <3> QED
      BY <1>1, <1>3, <1>4, FinalLive
  <2> QED
    BY <1>4, <2>1, SumLiveBackward
<1>5. CASE finVal \notin Sums
  <2>1. e.to \in CanReturn(i)
    <3>1. CASE IsLive(i, g, Move(g, <<e.from, p>>, e))
      BY <1>1, <3>1 DEF IsLive
    <3>2. CASE e.to \in ChildFinal(i)
      BY <1>0, <3>2, CanReturnFinal
    <3> QED
      BY <3>1, <3>2
  <2>2. e.from \in CanReturn(i)
    BY <1>0, <2>1, CanReturnBackward
  <2>3. CASE g = AnyReturn
    BY <2>2, <2>3 DEF IsLive
  <2>4. CASE g # AnyReturn
    <3>1. Cap = 1 /\ ~Forced /\ finVal \in {"Max", "Min"} /\ g \in {Below, AtLeast}
      BY <1>0, <1>5, <2>4, GoalType DEF Input, Sums, Guess
    <3> DEFINE t == [child |-> i, guess |-> g, state |-> e.from, prog |-> p]
    <3>2. t \in Target
      BY <1>2, <3>1 DEF Target
    <3>3. e \in EdgesFrom(i, e.from)
      BY DEF EdgesFrom
    <3>4. LiveNow(t)
      <4>1. CASE IsLive(i, g, Move(g, <<e.from, p>>, e))
        <5>1. InLive(i, g, Move(g, <<e.from, p>>, e))
          BY <2>4, <3>1, <4>1 DEF IsLive, Sums
        <5> QED
          BY <3>3, <5>1 DEF LiveNow
      <4>2. CASE e.to \in ChildFinal(i) /\ DischargeOK(g, Move(g, <<e.from, p>>, e)[2])
        <5>1. e \in Ending(i, g, <<e.from, p>>, EdgesFrom(i, e.from))
          BY <3>3, <4>2 DEF Ending
        <5> QED
          BY <5>1 DEF LiveNow
      <4> QED
        BY <4>1, <4>2
    <3>5. t \in live
      BY <1>5, <3>2, <3>4 DEF LiveInv
    <3> QED
      BY <2>2, <3>1, <3>5 DEF IsLive, InLive
  <2> QED
    BY <2>3, <2>4
<1> QED
  BY <1>4, <1>5

-----------------------------------------------------------------------------
(***************************************************************************)
(* The best of a set of configurations                                     *)
(***************************************************************************)

StateProgress == ChildState \X (0 .. Cap)

\* For each state of a set of configurations there is a best one.
LEMMA BestExists ==
  ASSUME Input, NEW g \in Guess, NEW X \in SUBSET StateProgress, NEW c \in X
  PROVE  \E d \in Best(g, X) : d[1] = c[1] /\ Better(g, d[2], c[2])
<1> DEFINE same == {x \in X : x[1] = c[1]}
           S == {x[2] : x \in same}
<1>1. Cap \in Nat
  BY GoalType
<1>2. \A x \in X : x[2] \in 0 .. Cap
  BY DEF StateProgress
<1>3. S \in SUBSET Nat /\ S # {} /\ \A n \in S : n <= Cap
  BY <1>1, <1>2
<1>4. CASE PrefersLarger(g)
  <2>1. PICK n \in S : \A m \in S : n >= m
    <3> HIDE DEF S
    <3> QED
      BY <1>1, <1>3, LargestExists
  <2>2. PICK d \in same : d[2] = n
    OBVIOUS
  <2>3. d \in X /\ d[1] = c[1] /\ c[2] \in S
    OBVIOUS
  <2>4. \A x \in X : x[1] = d[1] => x[2] <= d[2]
    BY <1>2, <2>1, <2>2, <2>3
  <2> QED
    BY <1>4, <2>3, <2>4 DEF Best, Better
<1>5. CASE ~PrefersLarger(g)
  <2>1. PICK n \in S : \A m \in S : n <= m
    <3> HIDE DEF S
    <3> QED
      BY <1>3, LeastExists
  <2>2. PICK d \in same : d[2] = n
    OBVIOUS
  <2>3. d \in X /\ d[1] = c[1]
    OBVIOUS
  <2>4. \A x \in X : x[1] = d[1] => d[2] <= x[2]
    BY <1>2, <2>1, <2>2, <2>3
  <2> QED
    BY <1>5, <2>3, <2>4 DEF Best, Better
<1> QED
  BY <1>4, <1>5

\* A part of a set that has something at least as good as each of its members
\* has the same best ones.
LEMMA BestSame ==
  ASSUME Input, NEW g \in Guess, NEW Y \in SUBSET StateProgress, NEW Z \in SUBSET Y,
         \A y \in Y : \E z \in Z : z[1] = y[1] /\ Better(g, z[2], y[2])
  PROVE  Best(g, Z) = Best(g, Y)
<1>1. \A y \in Y : y[2] \in Int /\ y = <<y[1], y[2]>>
  BY GoalType DEF StateProgress
<1>2. \A X : Best(g, X) = {c \in X : \A d \in X : d[1] = c[1] => Better(g, c[2], d[2])}
  BY DEF Best, Better
<1>3. ASSUME NEW y \in Best(g, Y) PROVE y \in Best(g, Z)
  <2>1. y \in Y /\ \A d \in Y : d[1] = y[1] => Better(g, y[2], d[2])
    BY <1>2, <1>3
  <2>2. PICK z \in Z : z[1] = y[1] /\ Better(g, z[2], y[2])
    BY <2>1
  <2>3. z[2] = y[2]
    BY <1>1, <2>1, <2>2 DEF Better
  <2>4. z = y
    BY <1>1, <2>1, <2>2, <2>3
  <2> QED
    BY <1>2, <2>1, <2>4
<1>4. ASSUME NEW z \in Best(g, Z) PROVE z \in Best(g, Y)
  <2>1. z \in Z /\ \A d \in Z : d[1] = z[1] => Better(g, z[2], d[2])
    BY <1>2, <1>4
  <2>2. ASSUME NEW y \in Y, y[1] = z[1] PROVE Better(g, z[2], y[2])
    <3>1. PICK x \in Z : x[1] = y[1] /\ Better(g, x[2], y[2])
      OBVIOUS
    <3>2. Better(g, z[2], x[2])
      BY <2>1, <2>2, <3>1
    <3> QED
      BY <1>1, <2>1, <3>1, <3>2 DEF Better
  <2> QED
    BY <1>2, <2>1, <2>2
<1> QED
  BY <1>3, <1>4

\* The configurations that X moves to on a, and the live ones among them.
Moved(i, g, X, a) == UNION {{Move(g, c, e) : e \in ChildEdges(i, c[1], a)} : c \in X}
Alive(i, g, X) == {c \in X : IsLive(i, g, c)}

\* Progress that moves is progress.
LEMMA MovedType ==
  ASSUME Input, NEW i \in Child, NEW g \in Guess, NEW X \in SUBSET StateProgress, NEW a
  PROVE  Moved(i, g, X, a) \in SUBSET StateProgress
<1> SUFFICES ASSUME NEW c \in X, NEW e \in ChildEdges(i, c[1], a)
             PROVE  Move(g, c, e) \in StateProgress
  BY DEF Moved
<1>1. e.to \in ChildState /\ e.weight \in Int
  BY ChildEdgeType
<1>2. c[2] \in 0 .. Cap /\ 0 \in 0 .. Cap
  BY GoalType DEF StateProgress
<1> QED
  BY <1>1, <1>2, StepProgType DEF Move, StateProgress

\* Dropping before a letter what is not live and not the best changes nothing
\* of what is live and the best after it.
LEMMA FrontierSame ==
  ASSUME ThresholdTypeOK, CutoffsInv, LiveInv, stage = "flatten",
         NEW i \in Child, NEW g \in Guess, NEW X \in SUBSET StateProgress, NEW a
  PROVE  Best(g, Alive(i, g, Moved(i, g, Best(g, Alive(i, g, X)), a)))
           = Best(g, Alive(i, g, Moved(i, g, X, a)))
<1> DEFINE kept == Best(g, Alive(i, g, X))
           Y == Alive(i, g, Moved(i, g, X, a))
           Z == Alive(i, g, Moved(i, g, kept, a))
<1>0. Input
  BY InputType
<1>1. kept \subseteq X /\ Alive(i, g, X) \in SUBSET StateProgress
  BY DEF Best, Alive
<1>2. Y \in SUBSET StateProgress
  BY <1>0, MovedType DEF Alive
<1>3. Z \in SUBSET Y
  <2>1. Moved(i, g, kept, a) \subseteq Moved(i, g, X, a)
    <3> HIDE DEF kept
    <3> QED
      BY <1>1 DEF Moved
  <2> QED
    BY <2>1 DEF Alive
<1>4. ASSUME NEW y \in Y PROVE \E z \in Z : z[1] = y[1] /\ Better(g, z[2], y[2])
  <2>1. PICK c \in X : y \in {Move(g, c, e) : e \in ChildEdges(i, c[1], a)}
    BY DEF Moved, Alive
  <2>2. PICK e \in ChildEdges(i, c[1], a) : y = Move(g, c, e)
    BY <2>1
  <2>3. e \in nested.child[i].edges /\ e.from = c[1] /\ e.to \in ChildState /\ e.weight \in Int
    BY <1>0, ChildEdgeType
  <2>4. c[2] \in 0 .. Cap /\ c = <<e.from, c[2]>>
    BY <2>3 DEF StateProgress
  <2>5. IsLive(i, g, c)
    <3> DEFINE p == c[2]
    <3>1. p \in 0 .. Cap /\ IsLive(i, g, Move(g, <<e.from, p>>, e)) /\ c = <<e.from, p>>
      BY <2>2, <2>4 DEF Alive
    <3> HIDE DEF p
    <3>2. IsLive(i, g, <<e.from, p>>)
      BY <2>3, <3>1, LiveBackward
    <3> QED
      BY <3>1, <3>2
  <2>6. PICK d \in kept : d[1] = c[1] /\ Better(g, d[2], c[2])
    <3>1. c \in Alive(i, g, X)
      BY <2>5 DEF Alive
    <3> QED
      BY <1>0, <1>1, <3>1, BestExists
  <2>7. d[2] \in 0 .. Cap
    BY <1>1 DEF StateProgress
  <2> DEFINE z == Move(g, d, e)
  <2>8. z = <<e.to, z[2]>> /\ y = <<e.to, y[2]>>
    BY <2>2 DEF Move
  <2>9. z[2] \in 0 .. Cap /\ y[2] \in 0 .. Cap /\ Better(g, z[2], y[2])
    <3>1. 0 \in 0 .. Cap /\ Cap \in Nat
      BY <1>0, GoalType
    <3>2. CASE g = AnyReturn
      BY <2>2, <3>1, <3>2 DEF Move, Better
    <3>3. CASE g # AnyReturn
      <4>1. z[2] = StepProg(d[2], e.weight) /\ y[2] = StepProg(c[2], e.weight)
        BY <2>2, <3>3 DEF Move
      <4>2. StepProg(d[2], e.weight) \in 0 .. Cap /\ StepProg(c[2], e.weight) \in 0 .. Cap
        BY <1>0, <2>3, <2>4, <2>7, StepProgType
      <4>3. /\ d[2] <= c[2] => StepProg(d[2], e.weight) <= StepProg(c[2], e.weight)
            /\ c[2] <= d[2] => StepProg(c[2], e.weight) <= StepProg(d[2], e.weight)
        BY <1>0, <2>3, <2>4, <2>7, MoveBetter
      <4> QED
        BY <2>6, <4>1, <4>2, <4>3 DEF Better
    <3> QED
      BY <3>2, <3>3
  <2>10. IsLive(i, g, z)
    <3>1. IsLive(i, g, y)
      BY DEF Alive
    <3> DEFINE m == z[2]
               n == y[2]
    <3>2. z = <<e.to, m>> /\ y = <<e.to, n>> /\ m \in 0 .. Cap /\ n \in 0 .. Cap /\ Better(g, m, n)
      BY <2>8, <2>9
    <3> HIDE DEF m, n, z
    <3>3. IsLive(i, g, <<e.to, m>>)
      BY <2>3, <3>1, <3>2, LiveBetter
    <3> QED
      BY <3>2, <3>3
  <2>11. z \in Moved(i, g, kept, a)
    BY <2>6 DEF Moved
  <2>12. z \in Z
    BY <2>10, <2>11 DEF Alive
  <2> QED
    BY <2>8, <2>9, <2>12
<1> QED
  <2> HIDE DEF Y, Z
  <2> QED
    BY <1>0, <1>2, <1>3, <1>4, BestSame DEF Y, Z

-----------------------------------------------------------------------------
(***************************************************************************)
(* Runs and the configurations that stand for them                         *)
(***************************************************************************)

\* Sums have the sign of their value function.
RunOK(r) == /\ finVal = "SumPlus" => r.value >= 0
            /\ finVal = "SumMinus" => r.value <= 0

\* A run is encoded as its state and its progress.
LEMMA EncodedType ==
  ASSUME Input, NEW g \in Guess, NEW r \in Run
  PROVE  Encoded(g, r) \in StateProgress /\ Encoded(g, r)[1] = r.state
<1>1. Cap \in Nat /\ (finVal \notin Sums => Cap = 1)
  BY GoalType
<1>2. r.state \in ChildState /\ r.value \in Int
  BY DEF Run
<1>3. Cost(r.value) \in Nat
  BY <1>2, CostType
<1>4. CASE g = AnyReturn
  BY <1>1, <1>2, <1>4 DEF Encoded, StateProgress
<1>5. CASE g # AnyReturn /\ finVal \in Sums
  <2>1. Encoded(g, r) = <<r.state, Smaller(Cost(r.value), Cap)>>
    BY <1>5 DEF Encoded
  <2> QED
    BY <1>1, <1>2, <1>3, <2>1 DEF Smaller, StateProgress
<1>6. CASE g # AnyReturn /\ finVal \notin Sums
  <2>1. Encoded(g, r) = <<r.state, IF r.value >= threshold THEN 1 ELSE 0>>
    BY <1>6 DEF Encoded
  <2> QED
    BY <1>1, <1>2, <1>6, <2>1 DEF StateProgress
<1> QED
  BY <1>4, <1>5, <1>6

\* A step of a run is a step of the configuration that stands for it.
LEMMA EncodedStep ==
  ASSUME Input, NEW g \in Guess, NEW r \in Run, RunOK(r), NEW i \in Child, NEW a,
         NEW e \in ChildEdges(i, r.state, a)
  PROVE  /\ RunStep(r, e) \in Run /\ RunOK(RunStep(r, e)) /\ RunStep(r, e).state = e.to
         /\ Encoded(g, RunStep(r, e)) = Move(g, Encoded(g, r), e)
<1> DEFINE w == e.weight
           v == r.value
<1>1. w \in Int /\ e.to \in ChildState
  BY ChildEdgeType
<1>2. v \in Int /\ MaxSum \in Nat /\ Cap \in Nat /\ Cap <= MaxSum /\ threshold \in Int
      /\ Cost(w) \in Nat
  BY <1>1, GoalType, CostType DEF Run, Input
<1>3. CASE finVal = "Max"
  <2>1. RunStep(r, e) = [state |-> e.to, value |-> Larger(v, w)] /\ Larger(v, w) \in Int
    BY <1>1, <1>2, <1>3 DEF RunStep, Larger
  <2>2. CASE g = AnyReturn
    BY <1>1, <1>3, <2>1, <2>2 DEF Run, RunOK, Encoded, Move
  <2>3. CASE g # AnyReturn
    <3>1. Encoded(g, r)[2] = (IF v >= threshold THEN 1 ELSE 0)
      BY <1>3, <2>3 DEF Encoded, Sums
    <3>2. Move(g, Encoded(g, r), e) = <<e.to, IF v >= threshold \/ w >= threshold THEN 1 ELSE 0>>
      <4> DEFINE p == Encoded(g, r)[2]
      <4>1. Move(g, Encoded(g, r), e) = <<e.to, StepProg(p, w)>>
        BY <2>3 DEF Move
      <4>2. StepProg(p, w) = IF p = 1 \/ w >= threshold THEN 1 ELSE 0
        BY <1>3 DEF StepProg, Sums
      <4>3. p = 1 <=> v >= threshold
        BY <3>1
      <4> QED
        BY <4>1, <4>2, <4>3
    <3>3. Encoded(g, RunStep(r, e)) = <<e.to, IF Larger(v, w) >= threshold THEN 1 ELSE 0>>
      BY <1>3, <2>1, <2>3 DEF Encoded, Sums
    <3>4. Larger(v, w) >= threshold <=> v >= threshold \/ w >= threshold
      BY <1>1, <1>2 DEF Larger
    <3> QED
      BY <1>1, <1>3, <2>1, <3>2, <3>3, <3>4 DEF Run, RunOK
  <2> QED
    BY <2>2, <2>3
<1>4. CASE finVal = "Min"
  <2>1. RunStep(r, e) = [state |-> e.to, value |-> Smaller(v, w)] /\ Smaller(v, w) \in Int
    BY <1>1, <1>2, <1>4 DEF RunStep, Smaller
  <2>2. CASE g = AnyReturn
    BY <1>1, <1>4, <2>1, <2>2 DEF Run, RunOK, Encoded, Move
  <2>3. CASE g # AnyReturn
    <3>1. Encoded(g, r)[2] = (IF v >= threshold THEN 1 ELSE 0)
      BY <1>4, <2>3 DEF Encoded, Sums
    <3>2. Move(g, Encoded(g, r), e) = <<e.to, IF v >= threshold /\ w >= threshold THEN 1 ELSE 0>>
      <4> DEFINE p == Encoded(g, r)[2]
      <4>1. Move(g, Encoded(g, r), e) = <<e.to, StepProg(p, w)>>
        BY <2>3 DEF Move
      <4>2. StepProg(p, w) = IF p = 1 /\ w >= threshold THEN 1 ELSE 0
        BY <1>4 DEF StepProg, Sums
      <4>3. p = 1 <=> v >= threshold
        BY <3>1
      <4> QED
        BY <4>1, <4>2, <4>3
    <3>3. Encoded(g, RunStep(r, e)) = <<e.to, IF Smaller(v, w) >= threshold THEN 1 ELSE 0>>
      BY <1>4, <2>1, <2>3 DEF Encoded, Sums
    <3>4. Smaller(v, w) >= threshold <=> v >= threshold /\ w >= threshold
      BY <1>1, <1>2 DEF Smaller
    <3> QED
      BY <1>1, <1>4, <2>1, <3>2, <3>3, <3>4 DEF Run, RunOK
  <2> QED
    BY <2>2, <2>3
<1>5. CASE finVal \in Sums
  <2> DEFINE n == Cost(w)
             v2 == RunStep(r, e).value
  <2>1. /\ RunStep(r, e) = [state |-> e.to, value |-> v2]
        /\ v2 \in Int /\ RunOK(RunStep(r, e))
        /\ Cost(v2) = Smaller(Cost(v) + n, MaxSum)
    <3>1. CASE finVal = "SumPlus"
      <4>1. RunStep(r, e) = [state |-> e.to, value |-> Smaller(v + n, MaxSum)]
        BY <3>1 DEF RunStep
      <4>2. v >= 0
        BY <3>1 DEF RunOK
      <4>3. Smaller(v + n, MaxSum) >= 0 /\ Smaller(v + n, MaxSum) \in Int
        BY <1>2, <4>2 DEF Smaller
      <4>4. Cost(Smaller(v + n, MaxSum)) = Smaller(v + n, MaxSum) /\ Cost(v) = v
        BY <1>2, <4>2, <4>3 DEF Cost
      <4> QED
        BY <3>1, <4>1, <4>3, <4>4 DEF RunOK
    <3>2. CASE finVal = "SumMinus"
      <4>1. RunStep(r, e) = [state |-> e.to, value |-> Larger(v - n, -MaxSum)]
        BY <3>2 DEF RunStep
      <4>2. v <= 0
        BY <3>2 DEF RunOK
      <4>3. Larger(v - n, -MaxSum) <= 0 /\ Larger(v - n, -MaxSum) \in Int
        BY <1>2, <4>2 DEF Larger
      <4>4. Cost(v) = -v /\ Cost(Larger(v - n, -MaxSum)) = -Larger(v - n, -MaxSum)
        BY <1>2, <4>2, <4>3 DEF Cost
      <4>5. -Larger(v - n, -MaxSum) = Smaller(-v + n, MaxSum)
        BY <1>2 DEF Larger, Smaller
      <4> QED
        BY <3>2, <4>1, <4>3, <4>4, <4>5 DEF RunOK
    <3> QED
      BY <1>5, <3>1, <3>2 DEF Sums
  <2>2. RunStep(r, e) \in Run /\ RunStep(r, e).state = e.to
    BY <1>1, <2>1 DEF Run
  <2>3. CASE g = AnyReturn
    BY <2>1, <2>2, <2>3 DEF Encoded, Move
  <2>4. CASE g # AnyReturn
    <3>1. Encoded(g, r)[2] = Smaller(Cost(v), Cap)
      BY <1>5, <2>4 DEF Encoded
    <3>2. Move(g, Encoded(g, r), e) = <<e.to, Smaller(Smaller(Cost(v), Cap) + n, Cap)>>
      BY <1>5, <2>4, <3>1 DEF Move, StepProg, Sums
    <3>3. Encoded(g, RunStep(r, e)) = <<e.to, Smaller(Smaller(Cost(v) + n, MaxSum), Cap)>>
      BY <1>5, <2>1, <2>2, <2>4 DEF Encoded
    <3>4. Cost(v) \in Nat
      BY <1>2, CostType
    <3>5. Smaller(Smaller(Cost(v), Cap) + n, Cap) = Smaller(Smaller(Cost(v) + n, MaxSum), Cap)
      BY <1>2, <3>4 DEF Smaller
    <3> QED
      BY <2>1, <2>2, <3>2, <3>3, <3>5
  <2> QED
    BY <2>3, <2>4
<1> QED
  BY <1>3, <1>4, <1>5 DEF Input, Sums

\* thrext_discharge_ok decides whether a run returns what is guessed.
LEMMA EncodedReturn ==
  ASSUME Input, NEW g \in Guess, NEW r \in Run, RunOK(r), DischargeOK(g, Encoded(g, r)[2])
  PROVE  (g = AtLeast => r.value >= threshold) /\ (g = Below => r.value < threshold)
<1> DEFINE v == r.value
           p == Encoded(g, r)[2]
<1>1. v \in Int /\ threshold \in Int /\ Goal \in Nat /\ Cap \in Nat
  BY GoalType DEF Run, Input
<1>2. CASE g = AnyReturn
  BY <1>2 DEF AnyReturn, AtLeast, Below
<1>3. CASE g # AnyReturn /\ finVal \notin Sums
  <2>1. p = IF v >= threshold THEN 1 ELSE 0
    BY <1>3 DEF Encoded
  <2>2. p = g
    BY <1>3, GoalType DEF DischargeOK, Sums
  <2> QED
    BY <1>1, <2>1, <2>2 DEF AtLeast, Below
<1>4. CASE g # AnyReturn /\ finVal \in Sums
  <2>1. p = Smaller(Cost(v), Cap)
    BY <1>4 DEF Encoded
  <2>2. CASE finVal = "SumPlus"
    <3>1. v >= 0 /\ Cost(v) = v
      BY <1>1, <2>2 DEF RunOK, Cost
    <3>2. CASE Forced
      BY <1>1, <1>4, <2>2, <3>1, <3>2, GoalType DEF DischargeOK, ForcedGuess, AtLeast, Below
    <3>3. CASE ~Forced
      <4>1. Goal = threshold /\ Cap = Goal
        BY <2>2, <3>3, GoalType
      <4>2. g = AtLeast => p >= Goal
        BY <1>4, <2>2, <3>3 DEF DischargeOK, AtLeast, Below
      <4>3. g = Below => p < Goal
        BY <1>4, <2>2, <3>3 DEF DischargeOK, AtLeast, Below
      <4> QED
        BY <1>1, <2>1, <3>1, <4>1, <4>2, <4>3 DEF Smaller
    <3> QED
      BY <3>2, <3>3
  <2>3. CASE finVal = "SumMinus"
    <3>1. v <= 0 /\ Cost(v) = -v
      BY <1>1, <2>3 DEF RunOK, Cost
    <3>2. CASE Forced
      BY <1>1, <1>4, <2>3, <3>1, <3>2, GoalType DEF DischargeOK, ForcedGuess, AtLeast, Below
    <3>3. CASE ~Forced
      <4>1. Goal = -threshold /\ Cap = Goal + 1
        BY <2>3, <3>3, GoalType
      <4>2. g = AtLeast => p <= Goal
        BY <1>4, <2>3, <3>3 DEF DischargeOK, AtLeast, Below
      <4>3. g = Below => p >= Cap
        BY <1>4, <2>3, <3>3 DEF DischargeOK, AtLeast, Below
      <4> QED
        BY <1>1, <2>1, <3>1, <4>1, <4>2, <4>3 DEF Smaller
    <3> QED
      BY <3>2, <3>3
  <2> QED
    BY <1>4, <2>2, <2>3 DEF Sums
<1> QED
  BY <1>2, <1>3, <1>4

-----------------------------------------------------------------------------
(***************************************************************************)
(* Obligations                                                             *)
(***************************************************************************)

\* The obligation that stands for the runs R of child i.
Owing(i, g, R) == [child |-> i, guess |-> g, conf |-> Best(g, Alive(i, g, {Encoded(g, r) : r \in R}))]

\* The model owes for the tracked call what Owing says of its runs.
LEMMA OwedIsOwing == Owed = Owing(tracked.child, tracked.guess, tracked.runs)
BY DEF Owed, Owing, Alive

\* Runs that read a letter are runs.
LEMMA RunsAfterType ==
  ASSUME Input, NEW i \in Child, NEW R \in SUBSET Run, \A r \in R : RunOK(r), NEW a
  PROVE  RunsAfter(i, R, a) \in SUBSET Run /\ \A r \in RunsAfter(i, R, a) : RunOK(r)
<1> SUFFICES ASSUME NEW r \in R, NEW e \in ChildEdges(i, r.state, a)
             PROVE  RunStep(r, e) \in Run /\ RunOK(RunStep(r, e))
  BY DEF RunsAfter
<1>1. AnyReturn \in Guess
  BY DEF Guess
<1> QED
  BY <1>1, EncodedStep

\* The configurations of the runs after a letter are those that the
\* configurations of the runs before it move to.
LEMMA EncodedAfter ==
  ASSUME Input, NEW i \in Child, NEW g \in Guess, NEW R \in SUBSET Run, \A r \in R : RunOK(r), NEW a
  PROVE  {Encoded(g, q) : q \in RunsAfter(i, R, a)} = Moved(i, g, {Encoded(g, r) : r \in R}, a)
<1>1. ASSUME NEW r \in R, NEW e \in ChildEdges(i, r.state, a)
      PROVE  Encoded(g, RunStep(r, e)) = Move(g, Encoded(g, r), e) /\ Encoded(g, r)[1] = r.state
  BY EncodedStep, EncodedType
<1>2. ASSUME NEW q \in RunsAfter(i, R, a)
      PROVE  Encoded(g, q) \in Moved(i, g, {Encoded(g, r) : r \in R}, a)
  <2>1. PICK r \in R : q \in {RunStep(r, e) : e \in ChildEdges(i, r.state, a)}
    BY DEF RunsAfter
  <2>2. PICK e \in ChildEdges(i, r.state, a) : q = RunStep(r, e)
    BY <2>1
  <2>3. Encoded(g, q) = Move(g, Encoded(g, r), e) /\ e \in ChildEdges(i, Encoded(g, r)[1], a)
    BY <1>1, <2>2
  <2> QED
    BY <2>3 DEF Moved
<1>3. ASSUME NEW c \in Moved(i, g, {Encoded(g, r) : r \in R}, a)
      PROVE  c \in {Encoded(g, q) : q \in RunsAfter(i, R, a)}
  <2>1. PICK r \in R : c \in {Move(g, Encoded(g, r), e) : e \in ChildEdges(i, Encoded(g, r)[1], a)}
    BY DEF Moved
  <2>2. Encoded(g, r)[1] = r.state
    BY EncodedType
  <2>3. PICK e \in ChildEdges(i, r.state, a) : c = Move(g, Encoded(g, r), e)
    BY <2>1, <2>2
  <2>4. RunStep(r, e) \in RunsAfter(i, R, a)
    BY DEF RunsAfter
  <2> QED
    BY <1>1, <2>3, <2>4
<1> QED
  BY <1>2, <1>3

\* When an edge returns what is guessed for a configuration of a run, the run
\* returns it.
LEMMA EndingReturns ==
  ASSUME Input, NEW i \in Child, NEW g \in Guess, NEW R \in SUBSET Run, \A r \in R : RunOK(r), NEW a,
         NEW r \in R, NEW e \in ChildEdges(i, r.state, a),
         e.to \in ChildFinal(i), DischargeOK(g, Move(g, Encoded(g, r), e)[2])
  PROVE  Returning(i, RunsAfter(i, R, a), g)
<1> DEFINE q == RunStep(r, e)
<1>1. q \in Run /\ RunOK(q) /\ q.state = e.to /\ DischargeOK(g, Encoded(g, q)[2])
  BY EncodedStep
<1>2. (g = AtLeast => q.value >= threshold) /\ (g = Below => q.value < threshold)
  <2> HIDE DEF q
  <2> QED
    BY <1>1, EncodedReturn
<1>3. q \in RunsAfter(i, R, a)
  BY DEF RunsAfter
<1> QED
  <2> HIDE DEF q
  <2> QED
    BY <1>1, <1>2, <1>3 DEF Returning

\* A letter takes the obligation of a call to its obligation after the letter,
\* unless a run of the call returns what was guessed.
LEMMA KeptCall ==
  ASSUME ThresholdTypeOK, CutoffsInv, LiveInv, stage = "flatten",
         NEW i \in Child, NEW g \in Guess, NEW R \in SUBSET Run, \A r \in R : RunOK(r), NEW a,
         ~Returning(i, RunsAfter(i, R, a), g)
  PROVE  /\ ~Discharged(Owing(i, g, R), a)
         /\ Stepped(Owing(i, g, R), a) = Owing(i, g, RunsAfter(i, R, a))
<1> DEFINE X == {Encoded(g, r) : r \in R}
           x == Owing(i, g, R)
           kept == Best(g, Alive(i, g, X))
<1>0. Input
  BY InputType
<1>1. x.child = i /\ x.guess = g /\ x.conf = kept /\ x = [child |-> i, guess |-> g, conf |-> kept]
  BY DEF Owing
<1>2. kept \subseteq X /\ \A c \in kept : IsLive(i, g, c)
  BY DEF Best, Alive
<1>3. Running(x) = kept
  <2> HIDE DEF x, kept
  <2> QED
    BY <1>1, <1>2 DEF Running
<1>4. X \in SUBSET StateProgress /\ \A r \in R : Encoded(g, r)[1] = r.state
  BY <1>0, EncodedType
<1>5. ~Discharged(x, a)
  <2> SUFFICES ASSUME Discharged(x, a) PROVE FALSE
    OBVIOUS
  <2>1. PICK c \in kept : Ending(i, g, c, ChildEdges(i, c[1], a)) # {}
    <3> HIDE DEF x, kept
    <3> QED
      BY <1>1, <1>3 DEF Discharged, Returns
  <2>2. PICK r \in R : c = Encoded(g, r)
    BY <1>2
  <2>3. PICK e \in ChildEdges(i, r.state, a) :
          e.to \in ChildFinal(i) /\ DischargeOK(g, Move(g, Encoded(g, r), e)[2])
    BY <1>4, <2>1, <2>2 DEF Ending
  <2> QED
    BY <1>0, <2>3, EndingReturns
<1>6. Stepped(x, a) = [child |-> i, guess |-> g, conf |-> Frontier(i, g, kept, a)]
  <2> HIDE DEF x, kept
  <2> QED
    BY <1>1, <1>3 DEF Stepped
<1>7. Frontier(i, g, kept, a) = Best(g, Alive(i, g, Moved(i, g, kept, a)))
  BY DEF Frontier, Alive, Moved
<1>8. Best(g, Alive(i, g, Moved(i, g, kept, a))) = Best(g, Alive(i, g, Moved(i, g, X, a)))
  <2> HIDE DEF X
  <2> QED
    BY <1>4, FrontierSame
<1>9. Moved(i, g, X, a) = {Encoded(g, q) : q \in RunsAfter(i, R, a)}
  BY <1>0, EncodedAfter
<1> QED
  BY <1>5, <1>6, <1>7, <1>8, <1>9 DEF Owing

\* A run starts at the initial state of its child.
LEMMA StartRun ==
  ASSUME Input
  PROVE  Start \in Run /\ RunOK(Start) /\ Start.state = InitialChild
<1>1. Infinity \in Nat
  BY GoalType
<1>2. CASE finVal = "Max"
  <2>1. Start = [state |-> InitialChild, value |-> -Infinity]
    BY <1>2 DEF Start, Sums
  <2> QED
    BY <1>1, <1>2, <2>1, NestedAssumption DEF Run, RunOK
<1>3. CASE finVal = "Min"
  <2>1. Start = [state |-> InitialChild, value |-> Infinity]
    BY <1>3 DEF Start, Sums
  <2> QED
    BY <1>1, <1>3, <2>1, NestedAssumption DEF Run, RunOK
<1>4. CASE finVal \in Sums
  <2>1. Start = [state |-> InitialChild, value |-> 0]
    BY <1>4 DEF Start, Sums
  <2> QED
    BY <2>1, NestedAssumption DEF Run, RunOK
<1> QED
  BY <1>2, <1>3, <1>4 DEF Input, Sums

\* A call puts the obligation for its runs into the bag, unless one of them
\* returns what is guessed at once.
LEMMA SpawnedCall ==
  ASSUME Input, NEW i \in Child, NEW g \in Guess, NEW a,
         ~Returning(i, RunsAfter(i, {Start}, a), g)
  PROVE  Spawned(i, g, a) = {Owing(i, g, RunsAfter(i, {Start}, a))}
<1> DEFINE c == <<InitialChild, InitProg>>
           d == Encoded(g, Start)
<1>1. Start \in Run /\ RunOK(Start) /\ Start.state = InitialChild
  BY StartRun
<1>2. d[1] = InitialChild
  BY <1>1, EncodedType
<1>3. \A e : Move(g, c, e) = Move(g, d, e)
  <2>1. CASE g = AnyReturn
    BY <2>1 DEF Move
  <2>2. CASE g # AnyReturn
    <3>1. d[2] = InitProg
      <4>1. MaxSum \in Nat /\ Cap \in Nat /\ Infinity \in Nat /\ threshold \in Int
            /\ -MaxSum < threshold /\ threshold < MaxSum /\ MaxSum <= Infinity
        BY GoalType, ThresholdAssumption DEF Input
      <4>2. CASE finVal \in Sums
        <5>1. Start.value = 0 /\ Cost(0) = 0 /\ InitProg = 0
          BY <4>2 DEF Start, Sums, Cost, InitProg
        <5>2. d[2] = Smaller(Cost(Start.value), Cap)
          BY <2>2, <4>2 DEF Encoded
        <5> QED
          BY <4>1, <5>1, <5>2 DEF Smaller
      <4>3. CASE finVal = "Max"
        <5>1. Start.value = -Infinity /\ InitProg = 0
          BY <4>3 DEF Start, Sums, InitProg
        <5>2. d[2] = IF Start.value >= threshold THEN 1 ELSE 0
          BY <2>2, <4>3 DEF Encoded, Sums
        <5> QED
          BY <4>1, <5>1, <5>2
      <4>4. CASE finVal = "Min"
        <5>1. Start.value = Infinity /\ InitProg = 1
          BY <4>4 DEF Start, Sums, InitProg
        <5>2. d[2] = IF Start.value >= threshold THEN 1 ELSE 0
          BY <2>2, <4>4 DEF Encoded, Sums
        <5> QED
          BY <4>1, <5>1, <5>2
      <4> QED
        BY <4>2, <4>3, <4>4 DEF Input, Sums
    <3> QED
      BY <2>2, <3>1 DEF Move
  <2> QED
    BY <2>1, <2>2
<1>4. ~SpawnEmpty(i, g, a)
  <2> SUFFICES ASSUME SpawnEmpty(i, g, a) PROVE FALSE
    OBVIOUS
  <2>1. PICK e \in ChildEdges(i, InitialChild, a) :
          e.to \in ChildFinal(i) /\ DischargeOK(g, Move(g, c, e)[2])
    BY DEF SpawnEmpty, Returns, Fresh, Ending
  <2>2. DischargeOK(g, Move(g, d, e)[2])
    BY <1>3, <2>1
  <2>3. {Start} \in SUBSET Run /\ \A r \in {Start} : RunOK(r)
    BY <1>1
  <2> HIDE DEF c
  <2> QED
    BY <1>1, <2>1, <2>2, <2>3, EndingReturns
<1>5. SpawnConf(i, g, a) = Best(g, Alive(i, g, Moved(i, g, {d}, a)))
  <2>1. Moved(i, g, {c}, a) = Moved(i, g, {d}, a)
    BY <1>2, <1>3 DEF Moved
  <2>2. SpawnConf(i, g, a) = Best(g, Alive(i, g, Moved(i, g, {c}, a)))
    BY DEF SpawnConf, Frontier, Fresh, Alive, Moved
  <2> QED
    BY <2>1, <2>2
<1>6. Moved(i, g, {d}, a) = {Encoded(g, q) : q \in RunsAfter(i, {Start}, a)}
  <2>1. {Encoded(g, r) : r \in {Start}} = {d}
    OBVIOUS
  <2>2. {Start} \in SUBSET Run /\ \A r \in {Start} : RunOK(r)
    BY <1>1
  <2> QED
    BY <2>1, <2>2, EncodedAfter
<1> QED
  BY <1>4, <1>5, <1>6 DEF Spawned, Owing

-----------------------------------------------------------------------------
(***************************************************************************)
(* The tables                                                              *)
(***************************************************************************)

Idle == stage # "flatten" => P1 = {} /\ P2 = {} /\ tracked.status # "pending"

RunsInv == tracked.status = "pending" => tracked.child \in Child /\ \A r \in tracked.runs : RunOK(r)

Witnesses(bag) == {x \in bag : x.guess = AtLeast}

\* Witnesses are in one of the bags only, and equal.
WitnessAlone ==
  infVal = "Sup" => /\ Witnesses(P1) = {} \/ Witnesses(P2) = {}
                    /\ \A x, y \in Witnesses(P1) \cup Witnesses(P2) : x = y

Tables == CutoffsInv /\ LiveInv /\ Idle

Inv == ThresholdTypeOK /\ Tables /\ RunsInv /\ PendingBestKept /\ WitnessAlone

\* What follows from the input being the same.
LEMMA SameInput ==
  ASSUME UNCHANGED input
  PROVE  /\ nested' = nested /\ finVal' = finVal /\ infVal' = infVal /\ threshold' = threshold
         /\ Cap' = Cap /\ Goal' = Goal /\ Forced' = Forced /\ ForcedGuess' = ForcedGuess
         /\ \A i : ChildFinal(i)' = ChildFinal(i) /\ CanReturn(i)' = CanReturn(i)
         /\ \A g, p, q : Better(g, p, q)' <=> Better(g, p, q)
         /\ \A g, c, e : Move(g, c, e)' = Move(g, c, e)
         /\ \A g, p : DischargeOK(g, p)' <=> DischargeOK(g, p)
         /\ \A r : RunOK(r)' <=> RunOK(r)
<1>1. nested' = nested /\ finVal' = finVal /\ infVal' = infVal /\ threshold' = threshold
  BY DEF input
<1>2. Forced' = Forced /\ ForcedGuess' = ForcedGuess
  BY <1>1 DEF Forced, ForcedGuess
<1>3. Goal' = Goal /\ Cap' = Cap
  BY <1>1, <1>2 DEF Goal, Cap
<1>4. \A i : ChildFinal(i)' = ChildFinal(i) /\ CanReturn(i)' = CanReturn(i)
  BY <1>1 DEF ChildFinal, CanReturn, ChildGraph
<1>5. \A g, p, q : Better(g, p, q)' <=> Better(g, p, q)
  BY <1>1 DEF Better, PrefersLarger
<1>6. \A p, w : StepProg(p, w)' = StepProg(p, w)
  BY <1>1, <1>3 DEF StepProg
<1>7. \A g, c, e : Move(g, c, e)' = Move(g, c, e)
  BY <1>6 DEF Move
<1>8. \A g, p : DischargeOK(g, p)' <=> DischargeOK(g, p)
  BY <1>1, <1>2, <1>3 DEF DischargeOK
<1>9. \A r : RunOK(r)' <=> RunOK(r)
  BY <1>1 DEF RunOK
<1> QED
  BY <1>1, <1>2, <1>3, <1>4, <1>5, <1>7, <1>8, <1>9

\* The invariant holds at the start.
LEMMA InitInv == Init => Inv
<1> SUFFICES ASSUME Init PROVE Inv
  OBVIOUS
<1>1. /\ nested \in Nested /\ finVal \in FinVals /\ infVal \in InfVals /\ threshold \in Thresholds
      /\ stage = "tables" /\ live = {} /\ P1 = {} /\ P2 = {} /\ tracked = Untracked
      /\ least = [i \in Child |-> [s \in ChildState |-> IF s \in ChildFinal(i) THEN 0 ELSE Infinity]]
      /\ most = [i \in Child |-> [s \in ChildState |-> 0]]
      /\ raised = [i \in Child |-> CanReturn(i)]
      /\ parent = InitialParent /\ lastGuess = 0 /\ phase = "parent" /\ epochNonempty = FALSE
      /\ beat = FALSE
  BY DEF Init, GainSeeds
<1>2. Infinity \in Nat
  BY ThresholdAssumption
<1>3. ThresholdTypeOK
  <2>1. tracked \in Tracked
    BY <1>1 DEF Untracked, Tracked, Guess, Below
  <2>2. raised \in [Child -> SUBSET ChildState]
    BY <1>1 DEF CanReturn
  <2>3. least \in [Child -> [ChildState -> Nat]] /\ most \in [Child -> [ChildState -> Nat]]
    BY <1>1, <1>2
  <2>4. parent \in ParentState /\ lastGuess \in Guess \cup {SilentWeight} /\ phase \in Phase
    BY <1>1, NestedAssumption DEF Guess, Below, Phase
  <2> QED
    BY <1>1, <2>1, <2>2, <2>3, <2>4 DEF ThresholdTypeOK
<1>4. Input
  BY <1>3, InputType
<1>5. CutoffsInv
  <2> SUFFICES ASSUME NEW i \in Child
               PROVE  /\ \A s \in ChildFinal(i) : least[i][s] = 0
                      /\ \A s \in ChildState : most[i][s] <= Cap
                      /\ \A e \in nested.child[i].edges : e.to \in CanReturn(i) => e.to \in raised[i]
    BY <1>1 DEF CutoffsInv
  <2> QED
    BY <1>1, <1>4, FinalType, GoalType
<1>6. LiveInv
  BY <1>1 DEF LiveInv
<1>7. Idle /\ RunsInv /\ PendingBestKept
  BY <1>1 DEF Idle, RunsInv, PendingBestKept, Untracked
<1>8. WitnessAlone
  BY <1>1 DEF WitnessAlone, Witnesses
<1> QED
  BY <1>3, <1>5, <1>6, <1>7, <1>8 DEF Inv, Tables

\* What the next round of the search for the least makes of a state.
LEMMA LeastBelowFact ==
  ASSUME ThresholdTypeOK, NEW i \in Child, NEW s \in ChildState
  PROVE  /\ LeastBelow(i, s) \in Nat /\ LeastBelow(i, s) <= least[i][s]
         /\ \A e \in EdgesFrom(i, s) : LeastBelow(i, s) <= Add(least[i][e.to], Cost(e.weight))
<1> DEFINE S == {least[i][s]} \cup {Add(least[i][e.to], Cost(e.weight)) : e \in EdgesFrom(i, s)}
<1>1. S \in SUBSET Nat /\ S # {}
  <2>1. least[i][s] \in Nat /\ Input /\ Infinity \in Nat
    BY InputType, GoalType DEF ThresholdTypeOK
  <2>2. ASSUME NEW e \in EdgesFrom(i, s) PROVE Add(least[i][e.to], Cost(e.weight)) \in Nat
    <3>1. e.to \in ChildState /\ e.weight \in Int
      BY <2>1, EdgeType DEF EdgesFrom
    <3>2. least[i][e.to] \in Nat /\ Cost(e.weight) \in Nat
      BY <3>1, CostType DEF ThresholdTypeOK
    <3> QED
      BY <2>1, <3>2 DEF Add
  <2> QED
    BY <2>1, <2>2
<1>2. LeastBelow(i, s) = SmallestOf(S)
  BY DEF LeastBelow
<1>3. SmallestOf(S) \in S /\ \A y \in S : SmallestOf(S) <= y
  <2> HIDE DEF S
  <2> QED
    BY <1>1, SmallestFact
<1> QED
  BY <1>1, <1>2, <1>3

\* What the next round of the search for the most makes of a state.
LEMMA MostBelowFact ==
  ASSUME ThresholdTypeOK, CutoffsInv, finVal \in Sums, NEW i \in Child, NEW s \in ChildState
  PROVE  /\ MostBelow(i, s) \in Nat /\ MostBelow(i, s) <= Cap /\ most[i][s] <= MostBelow(i, s)
         /\ \A e \in EdgesFrom(i, s) :
              e.to \in raised[i] /\ s \in CanReturn(i)
                => Smaller(most[i][e.to] + Cost(e.weight), Cap) <= MostBelow(i, s)
<1> DEFINE E == {d \in EdgesFrom(i, s) : d.to \in raised[i] /\ s \in CanReturn(i)}
           S == {most[i][s]} \cup {Smaller(most[i][e.to] + Cost(e.weight), Cap) : e \in E}
<1>0. Input /\ Cap \in Nat
  BY InputType, GoalType
<1>1. S \in SUBSET Nat /\ S # {} /\ \A y \in S : y <= Cap
  <2>1. most[i][s] \in Nat /\ most[i][s] <= Cap
    BY DEF ThresholdTypeOK, CutoffsInv
  <2>2. ASSUME NEW e \in E
        PROVE  LET n == Smaller(most[i][e.to] + Cost(e.weight), Cap) IN n \in Nat /\ n <= Cap
    <3>1. e.to \in ChildState /\ e.weight \in Int
      BY <1>0, EdgeType DEF EdgesFrom
    <3>2. most[i][e.to] \in Nat /\ Cost(e.weight) \in Nat
      BY <3>1, CostType DEF ThresholdTypeOK
    <3> QED
      BY <1>0, <3>2 DEF Smaller
  <2> QED
    BY <2>1, <2>2
<1>2. MostBelow(i, s) = LargestOf(S)
  BY DEF MostBelow
<1>3. LargestOf(S) \in S /\ \A y \in S : y <= LargestOf(S)
  <2> HIDE DEF S
  <2> QED
    BY <1>0, <1>1, LargestFact
<1> QED
  BY <1>1, <1>2, <1>3

\* A round of the searches for the least and the most.
LEMMA GrowCutoffsInv == ASSUME Inv, GrowCutoffs PROVE Inv'
<1> USE DEF Inv, Tables
<1>1. /\ finVal \in Sums /\ stage = "tables" /\ UNCHANGED <<input, live, buchi, tracked, beat>>
      /\ least' = [i \in Child |-> [s \in ChildState |-> LeastBelow(i, s)]]
      /\ most' = [i \in Child |-> [s \in ChildState |-> MostBelow(i, s)]]
      /\ raised' = [i \in Child |-> {s \in ChildState : MostBelow(i, s) > most[i][s]}]
      /\ stage' = IF least' = least /\ most' = most THEN "flatten" ELSE "tables"
  BY DEF GrowCutoffs
<1>2. UNCHANGED input /\ Input
  BY <1>1, InputType
<1>3. /\ live' = live /\ P1' = P1 /\ P2' = P2 /\ parent' = parent /\ lastGuess' = lastGuess
      /\ phase' = phase /\ epochNonempty' = epochNonempty /\ tracked' = tracked /\ beat' = beat
  BY <1>1 DEF buchi
<1>4. ThresholdTypeOK'
  <2>1. least' \in [Child -> [ChildState -> Nat]] /\ most' \in [Child -> [ChildState -> Nat]]
    BY <1>1, LeastBelowFact, MostBelowFact
  <2>2. raised' \in [Child -> SUBSET ChildState] /\ stage' \in {"tables", "flatten"}
    BY <1>1
  <2>3. nested' = nested /\ finVal' = finVal /\ infVal' = infVal /\ threshold' = threshold
    BY <1>2, SameInput
  <2> QED
    BY <1>3, <2>1, <2>2, <2>3, Zenon DEF ThresholdTypeOK
<1>5. CutoffsInv'
  <2> SUFFICES ASSUME NEW i \in Child
      PROVE  /\ \A s \in ChildFinal(i) : least'[i][s] = 0
             /\ \A s \in ChildState : most'[i][s] <= Cap
             /\ \A e \in nested.child[i].edges :
                  e.from \in CanReturn(i) /\ e.to \in CanReturn(i) =>
                    \/ e.to \in raised'[i]
                    \/ Smaller(most'[i][e.to] + Cost(e.weight), Cap) <= most'[i][e.from]
             /\ stage' = "flatten" =>
                  /\ raised'[i] = {}
                  /\ \A e \in nested.child[i].edges :
                       least'[i][e.from] <= Add(least'[i][e.to], Cost(e.weight))
    <3>1. /\ nested' = nested /\ Cap' = Cap
          /\ \A i : ChildFinal(i)' = ChildFinal(i) /\ CanReturn(i)' = CanReturn(i)
      BY <1>2, SameInput
    <3> QED
      BY <3>1 DEF CutoffsInv
  <2>1. \A s \in ChildState : /\ least'[i][s] = LeastBelow(i, s) /\ most'[i][s] = MostBelow(i, s)
                              /\ (s \in raised'[i] <=> MostBelow(i, s) > most[i][s])
                              /\ least[i][s] \in Nat /\ most[i][s] \in Nat
    BY <1>1 DEF ThresholdTypeOK
  <2>2. ASSUME NEW s \in ChildFinal(i) PROVE least'[i][s] = 0
    <3>1. s \in ChildState /\ least[i][s] = 0
      BY <1>1, <1>2, FinalType DEF CutoffsInv
    <3>2. LeastBelow(i, s) \in Nat /\ LeastBelow(i, s) <= least[i][s]
      BY <3>1, LeastBelowFact
    <3> QED
      BY <2>1, <3>1, <3>2
  <2>3. ASSUME NEW s \in ChildState PROVE most'[i][s] <= Cap
    BY <1>1, <2>1, MostBelowFact
  <2>4. ASSUME NEW e \in nested.child[i].edges, e.from \in CanReturn(i), e.to \in CanReturn(i),
               e.to \notin raised'[i]
        PROVE  Smaller(most'[i][e.to] + Cost(e.weight), Cap) <= most'[i][e.from]
    <3>1. e.from \in ChildState /\ e.to \in ChildState /\ e \in EdgesFrom(i, e.from)
          /\ Cost(e.weight) \in Nat /\ Cap \in Nat
      BY <1>2, EdgeType, CostType, GoalType DEF EdgesFrom
    <3>2. MostBelow(i, e.to) = most[i][e.to]
      <4>1. MostBelow(i, e.to) \in Nat /\ most[i][e.to] <= MostBelow(i, e.to)
        BY <1>1, <3>1, MostBelowFact
      <4>2. ~(MostBelow(i, e.to) > most[i][e.to])
        BY <2>1, <2>4, <3>1
      <4> QED
        BY <2>1, <3>1, <4>1, <4>2
    <3>3. /\ MostBelow(i, e.from) \in Nat /\ most[i][e.from] <= MostBelow(i, e.from)
          /\ e.to \in raised[i] =>
               Smaller(most[i][e.to] + Cost(e.weight), Cap) <= MostBelow(i, e.from)
      BY <1>1, <2>4, <3>1, MostBelowFact
    <3>4. e.to \notin raised[i] => Smaller(most[i][e.to] + Cost(e.weight), Cap) <= most[i][e.from]
      BY <1>1, <2>4 DEF CutoffsInv
    <3>5. most[i][e.to] \in Nat /\ most[i][e.from] \in Nat
      BY <2>1, <3>1
    <3>6. Smaller(most[i][e.to] + Cost(e.weight), Cap) <= MostBelow(i, e.from)
      <4>1. Smaller(most[i][e.to] + Cost(e.weight), Cap) \in Nat
        BY <3>1, <3>5 DEF Smaller
      <4> QED
        BY <3>3, <3>4, <3>5, <4>1
    <3> QED
      BY <2>1, <3>1, <3>2, <3>6
  <2>5. ASSUME stage' = "flatten"
        PROVE  /\ raised'[i] = {}
               /\ \A e \in nested.child[i].edges :
                    least'[i][e.from] <= Add(least'[i][e.to], Cost(e.weight))
    <3>1. least' = least /\ most' = most
      BY <1>1, <2>5
    <3>2. raised'[i] = {}
      <4>1. \A s \in ChildState : ~(MostBelow(i, s) > most[i][s])
        BY <2>1, <3>1
      <4>2. raised'[i] = {s \in ChildState : MostBelow(i, s) > most[i][s]}
        BY <1>1
      <4> QED
        BY <4>1, <4>2
    <3>3. ASSUME NEW e \in nested.child[i].edges
          PROVE  least'[i][e.from] <= Add(least'[i][e.to], Cost(e.weight))
      <4>1. e.from \in ChildState /\ e \in EdgesFrom(i, e.from)
        BY <1>2, EdgeType DEF EdgesFrom
      <4>2. LeastBelow(i, e.from) <= Add(least[i][e.to], Cost(e.weight))
        BY <4>1, LeastBelowFact
      <4> QED
        BY <2>1, <3>1, <4>1, <4>2
    <3> QED
      BY <3>2, <3>3
  <2> QED
    BY <2>2, <2>3, <2>4, <2>5
<1>6. LiveInv'
  BY <1>1, <1>2, SameInput DEF LiveInv
<1>7. Idle' /\ RunsInv' /\ PendingBestKept'
  BY <1>1, <1>3 DEF Idle, RunsInv, PendingBestKept
<1>8. WitnessAlone'
  BY <1>1, <1>3 DEF Idle, WitnessAlone, Witnesses
<1> QED
  BY <1>4, <1>5, <1>6, <1>7, <1>8

\* What has a live successor, or returns what is guessed, has it with better
\* progress too.
LEMMA LiveNowBetter ==
  ASSUME ThresholdTypeOK, LiveInv, finVal \notin Sums, NEW t \in Target, LiveNow(t),
         NEW p \in {0, 1}, Better(t.guess, p, t.prog)
  PROVE  LiveNow([t EXCEPT !.prog = p])
<1> DEFINE i == t.child
           g == t.guess
           s == t.state
           u == [t EXCEPT !.prog = p]
           c == <<s, t.prog>>
           d == <<s, p>>
<1>1. /\ Input /\ i \in Child /\ g \in {Below, AtLeast} /\ s \in ChildState /\ t.prog \in {0, 1}
      /\ u.child = i /\ u.guess = g /\ u.state = s /\ u.prog = p
      /\ g \in Guess /\ g # AnyReturn
  BY InputType DEF Target, Guess, Below, AtLeast, AnyReturn
<1>2. Cap = 1 /\ 0 .. Cap = {0, 1}
  BY <1>1, GoalType
<1>3. ASSUME NEW e \in EdgesFrom(i, s)
      PROVE  /\ Move(g, c, e) = <<e.to, StepProg(t.prog, e.weight)>>
             /\ Move(g, d, e) = <<e.to, StepProg(p, e.weight)>>
             /\ StepProg(t.prog, e.weight) \in {0, 1} /\ StepProg(p, e.weight) \in {0, 1}
             /\ Better(g, StepProg(p, e.weight), StepProg(t.prog, e.weight))
  <2>1. e.weight \in Int
    BY <1>1, EdgeType DEF EdgesFrom
  <2>2. StepProg(t.prog, e.weight) \in {0, 1} /\ StepProg(p, e.weight) \in {0, 1}
    BY <1>1, <1>2, <2>1, StepProgType
  <2>3. /\ p <= t.prog => StepProg(p, e.weight) <= StepProg(t.prog, e.weight)
        /\ t.prog <= p => StepProg(t.prog, e.weight) <= StepProg(p, e.weight)
    BY <1>1, <1>2, <2>1, MoveBetter
  <2> QED
    BY <1>1, <2>2, <2>3 DEF Move, Better
<1>4. CASE Ending(i, g, c, EdgesFrom(i, s)) # {}
  <2>1. PICK e \in EdgesFrom(i, s) : e.to \in ChildFinal(i) /\ DischargeOK(g, Move(g, c, e)[2])
    BY <1>4 DEF Ending
  <2>2. DischargeOK(g, Move(g, d, e)[2])
    BY <1>1, <1>2, <1>3, <2>1, DischargeBetter
  <2>3. Ending(i, g, d, EdgesFrom(i, s)) # {}
    BY <2>1, <2>2 DEF Ending
  <2> QED
    BY <1>1, <2>3 DEF LiveNow
<1>5. CASE \E e \in EdgesFrom(i, s) : InLive(i, g, Move(g, c, e))
  <2>1. PICK e \in EdgesFrom(i, s) : InLive(i, g, Move(g, c, e))
    BY <1>5
  <2> DEFINE m == StepProg(t.prog, e.weight)
             n == StepProg(p, e.weight)
             v == [child |-> i, guess |-> g, state |-> e.to, prog |-> m]
  <2>2. v \in live
    BY <1>3, <2>1 DEF InLive
  <2>3. v.guess = g /\ v.prog = m /\ [v EXCEPT !.prog = n] = [child |-> i, guess |-> g, state |-> e.to, prog |-> n]
    OBVIOUS
  <2>4. [v EXCEPT !.prog = n] \in live
    <3>1. n \in {0, 1} /\ Better(v.guess, n, v.prog)
      BY <1>3, <2>3
    <3> HIDE DEF v, n
    <3> QED
      BY <2>2, <3>1 DEF LiveInv
  <2>5. InLive(i, g, Move(g, d, e))
    BY <1>3, <2>3, <2>4 DEF InLive
  <2> QED
    BY <1>1, <2>5 DEF LiveNow
<1> QED
  BY <1>4, <1>5 DEF LiveNow

\* A round of the search for live configurations.
LEMMA GrowLiveInv == ASSUME Inv, GrowLive PROVE Inv'
<1> USE DEF Inv, Tables
<1> DEFINE grown == {t \in Target : LiveNow(t)}
<1>1. /\ finVal \notin Sums /\ stage = "tables"
      /\ UNCHANGED <<input, least, most, raised, buchi, tracked, beat>>
      /\ live' = live \cup grown /\ stage' = IF grown \subseteq live THEN "flatten" ELSE "tables"
  BY DEF GrowLive
<1>2. UNCHANGED input /\ Input
  BY <1>1, InputType
<1>3. /\ least' = least /\ most' = most /\ raised' = raised
      /\ P1' = P1 /\ P2' = P2 /\ parent' = parent /\ lastGuess' = lastGuess
      /\ phase' = phase /\ epochNonempty' = epochNonempty /\ tracked' = tracked /\ beat' = beat
  BY <1>1 DEF buchi
<1>4. ThresholdTypeOK'
  <2>1. live' \subseteq Target /\ stage' \in {"tables", "flatten"}
    BY <1>1 DEF ThresholdTypeOK
  <2>2. nested' = nested /\ finVal' = finVal /\ infVal' = infVal /\ threshold' = threshold
    BY <1>2, SameInput
  <2> QED
    BY <1>3, <2>1, <2>2, Zenon DEF ThresholdTypeOK
<1>5. LiveInv'
  <2>1. ASSUME NEW t \in live', NEW p \in {0, 1}, Better(t.guess, p, t.prog)
        PROVE  [t EXCEPT !.prog = p] \in live'
    <3>1. CASE t \in live
      BY <1>1, <2>1, <3>1 DEF LiveInv
    <3>2. CASE t \in grown
      <4>1. LiveNow([t EXCEPT !.prog = p])
        BY <1>1, <2>1, <3>2, LiveNowBetter
      <4>2. [t EXCEPT !.prog = p] \in Target
        BY <3>2 DEF Target
      <4> QED
        BY <1>1, <4>1, <4>2
    <3> QED
      BY <1>1, <3>1, <3>2
  <2>2. ASSUME stage' = "flatten" PROVE live' = live /\ \A t \in Target : LiveNow(t) => t \in live
    BY <1>1, <2>2
  <2>3. ASSUME live' = live PROVE \A t : LiveNow(t)' <=> LiveNow(t)
    <3>1. \A i : ChildFinal(i)' = ChildFinal(i)
      BY <1>2, SameInput
    <3>2. \A g, c, e : Move(g, c, e)' = Move(g, c, e)
      BY <1>2, SameInput
    <3>3. \A g, p : DischargeOK(g, p)' <=> DischargeOK(g, p)
      BY <1>2, SameInput
    <3>4. \A i, s : EdgesFrom(i, s)' = EdgesFrom(i, s)
      BY <1>2, SameInput DEF EdgesFrom
    <3>5. \A i, g, c, E : Ending(i, g, c, E)' = Ending(i, g, c, E)
      BY <3>1, <3>2, <3>3 DEF Ending
    <3>6. \A i, g, c : InLive(i, g, c)' <=> InLive(i, g, c)
      BY <2>3 DEF InLive
    <3> QED
      BY <3>2, <3>4, <3>5, <3>6 DEF LiveNow
  <2> QED
    BY <1>2, <2>1, <2>2, <2>3, SameInput DEF LiveInv
<1>6. CutoffsInv'
  BY <1>1, <1>2, SameInput DEF CutoffsInv
<1>7. Idle' /\ RunsInv' /\ PendingBestKept'
  BY <1>1, <1>3 DEF Idle, RunsInv, PendingBestKept
<1>8. WitnessAlone'
  BY <1>1, <1>3 DEF Idle, WitnessAlone, Witnesses
<1> QED
  BY <1>4, <1>5, <1>6, <1>7, <1>8

-----------------------------------------------------------------------------
(***************************************************************************)
(* Letters                                                                 *)
(***************************************************************************)

\* The live configurations that others move to are configurations.
LEMMA FrontierType ==
  ASSUME Input, NEW i \in Child, NEW g \in Guess, NEW X \in SUBSET Config, NEW a
  PROVE  Frontier(i, g, X, a) \subseteq Config
<1> SUFFICES ASSUME NEW c \in X, NEW e \in ChildEdges(i, c[1], a)
             PROVE  Move(g, c, e) \in Config
  BY DEF Frontier, Best
<1>1. e.to \in ChildState /\ e.weight \in Int /\ c[2] \in Nat
  BY ChildEdgeType DEF Config
<1>2. StepProg(c[2], e.weight) \in Nat
  <2>1. Cap \in Nat /\ Cost(e.weight) \in Nat
    BY <1>1, GoalType, CostType
  <2>2. CASE finVal = "Max"
    BY <2>2 DEF StepProg, Sums
  <2>3. CASE finVal = "Min"
    BY <2>3 DEF StepProg, Sums
  <2>4. CASE finVal \in Sums
    <3>1. StepProg(c[2], e.weight) = Smaller(c[2] + Cost(e.weight), Cap)
      BY <2>4 DEF StepProg, Sums
    <3> QED
      BY <1>1, <2>1, <3>1 DEF Smaller
  <2> QED
    BY <2>2, <2>3, <2>4 DEF Input, Sums
<1> QED
  BY <1>1, <1>2 DEF Move, Config

\* Stepped obligations are obligations.
LEMMA StepBagType ==
  ASSUME ThresholdTypeOK, NEW bag \in SUBSET Obligation, NEW a
  PROVE  StepBag(bag, a) \subseteq Obligation
<1> SUFFICES ASSUME NEW x \in bag PROVE Stepped(x, a) \in Obligation
  BY DEF StepBag
<1>1. x.child \in Child /\ x.guess \in Guess /\ x.conf \in SUBSET Config
      /\ Stepped(x, a) = [child |-> x.child, guess |-> x.guess,
                          conf |-> Frontier(x.child, x.guess, Running(x), a)]
  BY DEF Obligation, Stepped
<1>2. Running(x) \in SUBSET Config
  BY <1>1 DEF Running
<1> QED
  BY <1>1, <1>2, InputType, FrontierType DEF Obligation

\* So are spawned ones.
LEMMA SpawnedType ==
  ASSUME ThresholdTypeOK, NEW i \in Child, NEW g \in Guess, NEW a
  PROVE  Spawned(i, g, a) \subseteq Obligation
<1>1. InitProg \in Nat
  BY DEF InitProg
<1>2. Fresh \in SUBSET Config
  BY <1>1, NestedAssumption DEF Fresh, Config
<1>3. SpawnConf(i, g, a) \subseteq Config
  BY <1>2, InputType, FrontierType DEF SpawnConf
<1> QED
  BY <1>3 DEF Spawned, Obligation

\* The bags after a letter, and the obligation of a call that is still pending.
LEMMA ReadBagsKeep ==
  ASSUME Inv, stage = "flatten", NEW a \in Symbol, NEW spawned \in SUBSET Obligation, ReadBags(a, spawned)
  PROVE  /\ P1' \in SUBSET Obligation /\ P2' \in SUBSET Obligation /\ spawned \subseteq P1'
         /\ /\ tracked.status = "pending"
            /\ ~Returning(tracked.child, RunsAfter(tracked.child, tracked.runs, a), tracked.guess)
            => Owing(tracked.child, tracked.guess, RunsAfter(tracked.child, tracked.runs, a))
                 \in P1' \cup P2'
<1> USE DEF Inv, Tables
<1>1. /\ P1' = IF P2 = {} THEN spawned ELSE StepBag(P1, a) \cup spawned
      /\ P2' = IF P2 = {} THEN StepBag(P1, a) ELSE StepBag(P2, a)
  BY DEF ReadBags
<1>2. P1' \in SUBSET Obligation /\ P2' \in SUBSET Obligation /\ spawned \subseteq P1'
  <2>1. P1 \in SUBSET Obligation /\ P2 \in SUBSET Obligation
    BY DEF ThresholdTypeOK
  <2>2. StepBag(P1, a) \subseteq Obligation /\ StepBag(P2, a) \subseteq Obligation
    BY <2>1, StepBagType
  <2> QED
    BY <1>1, <2>2
<1>3. ASSUME tracked.status = "pending",
             ~Returning(tracked.child, RunsAfter(tracked.child, tracked.runs, a), tracked.guess)
      PROVE  Owing(tracked.child, tracked.guess, RunsAfter(tracked.child, tracked.runs, a))
               \in P1' \cup P2'
  <2> DEFINE i == tracked.child
             g == tracked.guess
             R == tracked.runs
             x == Owing(i, g, R)
  <2>1. x \in P1 \cup P2
    BY <1>3, OwedIsOwing DEF PendingBestKept
  <2>2. i \in Child /\ g \in Guess /\ R \in SUBSET Run /\ \A r \in R : RunOK(r)
    BY <1>3 DEF RunsInv, ThresholdTypeOK, Tracked
  <2>3. ~Discharged(x, a) /\ Stepped(x, a) = Owing(i, g, RunsAfter(i, R, a))
    <3>1. ~Returning(i, RunsAfter(i, R, a), g)
      BY <1>3
    <3>2. ThresholdTypeOK /\ CutoffsInv /\ LiveInv
      OBVIOUS
    <3> HIDE DEF i, g, R, Inv, Tables
    <3> QED
      BY <2>2, <3>1, <3>2, KeptCall
  <2>4. Stepped(x, a) \in StepBag(P1, a) \cup StepBag(P2, a)
    <3> HIDE DEF x
    <3> QED
      BY <2>1, <2>3 DEF StepBag
  <2>5. P2 = {} => StepBag(P2, a) = {}
    BY DEF StepBag
  <2>6. StepBag(P1, a) \cup StepBag(P2, a) \subseteq P1' \cup P2'
    BY <1>1, <2>5
  <2> QED
    BY <2>3, <2>4, <2>6
<1> QED
  BY <1>2, <1>3

\* What a letter leaves of a witness is a witness.
LEMMA WitnessesStep ==
  ASSUME NEW bag \in SUBSET Obligation, NEW a, NEW y \in Witnesses(StepBag(bag, a))
  PROVE  \E x \in Witnesses(bag) : y = Stepped(x, a)
<1>1. PICK x \in bag : y = Stepped(x, a)
  BY DEF Witnesses, StepBag
<1>2. Stepped(x, a).guess = x.guess
  BY DEF Stepped, Obligation
<1> QED
  BY <1>1, <1>2 DEF Witnesses

\* One witness at a time: a call becomes the witness only when none is left.
LEMMA WitnessLetter ==
  ASSUME Inv, NEW a \in Symbol, NEW spawned \in SUBSET Obligation, ReadBags(a, spawned),
         \A x, y \in spawned : x = y,
         infVal = "Sup" => Witnesses(spawned) = {} \/ ~WitnessKept(a),
         infVal' = infVal
  PROVE  WitnessAlone'
<1> SUFFICES ASSUME infVal = "Sup"
             PROVE  /\ Witnesses(P1') = {} \/ Witnesses(P2') = {}
                    /\ \A x, y \in Witnesses(P1') \cup Witnesses(P2') : x = y
  BY DEF WitnessAlone, Witnesses
<1> DEFINE S1 == StepBag(P1, a)
           S2 == StepBag(P2, a)
<1>1. /\ P1' = IF P2 = {} THEN spawned ELSE S1 \cup spawned
      /\ P2' = IF P2 = {} THEN S1 ELSE S2
  BY DEF ReadBags
<1>2. /\ \A y \in Witnesses(S1) : \E x \in Witnesses(P1) : y = Stepped(x, a)
      /\ \A y \in Witnesses(S2) : \E x \in Witnesses(P2) : y = Stepped(x, a)
  BY WitnessesStep DEF Inv, ThresholdTypeOK
<1>3. /\ Witnesses(P1) = {} \/ Witnesses(P2) = {}
      /\ \A x, y \in Witnesses(P1) \cup Witnesses(P2) : x = y
  BY DEF Inv, WitnessAlone
<1>4. \A A, B : Witnesses(A \cup B) = Witnesses(A) \cup Witnesses(B)
  BY DEF Witnesses
<1> HIDE DEF S1, S2
<1>5. CASE Witnesses(spawned) = {}
  BY <1>1, <1>2, <1>3, <1>4, <1>5
<1>6. CASE ~WitnessKept(a)
  <2>1. Witnesses(S1) = {} /\ Witnesses(S2) = {}
    BY <1>6 DEF WitnessKept, Witnesses, S1, S2
  <2>2. \A x, y \in Witnesses(spawned) : x = y
    BY DEF Witnesses
  <2> QED
    BY <1>1, <1>4, <2>1, <2>2
<1> QED
  BY <1>5, <1>6

\* A tracked call has the fields it is tracked with.
LEMMA TrackType ==
  ASSUME NEW i \in Child, NEW g \in Guess, NEW R \in SUBSET Run
  PROVE  /\ Track(i, g, R) \in Tracked
         /\ Track(i, g, R).child = i /\ Track(i, g, R).guess = g /\ Track(i, g, R).runs = R
         /\ Track(i, g, R).status = "pending" <=> ~Returning(i, R, g)
<1>1. CASE Returning(i, R, g)
  BY <1>1 DEF Track, Tracked
<1>2. CASE ~Returning(i, R, g)
  BY <1>2 DEF Track, Tracked
<1> QED
  BY <1>1, <1>2

\* A step that leaves the tables alone preserves the invariant when the call
\* tracked after it, if it is pending, has its obligation in a bag.
LEMMA LetterInv ==
  ASSUME Inv, UNCHANGED <<input, stage, tables>>, stage = "flatten",
         P1' \in SUBSET Obligation, P2' \in SUBSET Obligation,
         parent' \in ParentState, lastGuess' \in Guess \cup {SilentWeight}, phase' \in Phase,
         epochNonempty' \in BOOLEAN, beat' \in BOOLEAN,
         tracked' \in Tracked, WitnessAlone',
         tracked'.status = "pending" =>
           /\ tracked'.child \in Child
           /\ \A r \in tracked'.runs : RunOK(r)
           /\ Owing(tracked'.child, tracked'.guess, tracked'.runs) \in P1' \cup P2'
  PROVE  Inv'
<1> USE DEF Inv, Tables
<1>1. UNCHANGED input
  OBVIOUS
<1>2. /\ least' = least /\ most' = most /\ raised' = raised /\ live' = live /\ stage' = stage
      /\ nested' = nested /\ finVal' = finVal /\ infVal' = infVal /\ threshold' = threshold
      /\ Cap' = Cap /\ Goal' = Goal /\ Forced' = Forced /\ ForcedGuess' = ForcedGuess
  BY <1>1, SameInput DEF tables
<1>3. ThresholdTypeOK'
  BY <1>2, Zenon DEF ThresholdTypeOK
<1>4. CutoffsInv'
  BY <1>1, <1>2, SameInput DEF CutoffsInv
<1>5. \A i, g, c : InLive(i, g, c)' <=> InLive(i, g, c)
  BY <1>2 DEF InLive
<1>6. LiveInv'
  <2>1. \A t : LiveNow(t)' <=> LiveNow(t)
    <3>1. \A i : ChildFinal(i)' = ChildFinal(i)
      BY <1>1, SameInput
    <3>2. \A g, c, e : Move(g, c, e)' = Move(g, c, e)
      BY <1>1, SameInput
    <3>3. \A g, p : DischargeOK(g, p)' <=> DischargeOK(g, p)
      BY <1>1, SameInput
    <3>4. \A i, s : EdgesFrom(i, s)' = EdgesFrom(i, s)
      BY <1>2 DEF EdgesFrom
    <3>5. \A i, g, c, E : Ending(i, g, c, E)' = Ending(i, g, c, E)
      BY <3>1, <3>2, <3>3 DEF Ending
    <3> QED
      BY <1>5, <3>2, <3>4, <3>5 DEF LiveNow
  <2> QED
    BY <1>1, <1>2, <2>1, SameInput DEF LiveInv
<1>7. Idle'
  BY <1>2 DEF Idle
<1>8. RunsInv'
  BY <1>1, SameInput DEF RunsInv
<1>9. PendingBestKept'
  <2>1. \A g, r : Encoded(g, r)' = Encoded(g, r)
    BY <1>2 DEF Encoded
  <2>2. \A i, g, c : IsLive(i, g, c)' <=> IsLive(i, g, c)
    <3>1. \A i : CanReturn(i)' = CanReturn(i)
      BY <1>1, SameInput
    <3> QED
      BY <1>2, <1>5, <3>1 DEF IsLive
  <2>3. \A g, X : Best(g, X)' = Best(g, X)
    BY <1>2 DEF Best, PrefersLarger
  <2>4. Owed' = Owing(tracked'.child, tracked'.guess, tracked'.runs)
    BY <2>1, <2>2, <2>3 DEF Owed, Owing, Alive
  <2> QED
    BY <2>4 DEF PendingBestKept
<1> QED
  BY <1>3, <1>4, <1>6, <1>7, <1>8, <1>9

\* What a letter makes of the call tracked before it.
LEMMA TrackedAfterKept ==
  ASSUME Inv, stage = "flatten", NEW a \in Symbol, NEW spawned \in SUBSET Obligation,
         ReadBags(a, spawned), tracked' = TrackedAfter(a)
  PROVE  /\ tracked' \in Tracked
         /\ tracked'.status = "pending" =>
              /\ tracked'.child \in Child
              /\ \A r \in tracked'.runs : RunOK(r)
              /\ Owing(tracked'.child, tracked'.guess, tracked'.runs) \in P1' \cup P2'
<1> USE DEF Inv, Tables
<1>1. CASE tracked.status = "pending"
  <2> DEFINE i == tracked.child
             g == tracked.guess
             R == RunsAfter(i, tracked.runs, a)
  <2>1. i \in Child /\ g \in Guess /\ tracked.runs \in SUBSET Run /\ \A r \in tracked.runs : RunOK(r)
    BY <1>1 DEF RunsInv, ThresholdTypeOK, Tracked
  <2>2. R \in SUBSET Run /\ \A r \in R : RunOK(r)
    BY <2>1, InputType, RunsAfterType
  <2>3. tracked' = Track(i, g, R)
    BY <1>1 DEF TrackedAfter
  <2>4. ~Returning(i, R, g) => Owing(i, g, R) \in P1' \cup P2'
    BY <1>1, ReadBagsKeep
  <2> HIDE DEF i, g, R
  <2> QED
    BY <2>1, <2>2, <2>3, <2>4, TrackType
<1>2. CASE tracked.status # "pending"
  BY <1>2 DEF TrackedAfter, ThresholdTypeOK
<1> QED
  BY <1>1, <1>2

\* What all edges do.
LEMMA EdgeFacts ==
  ASSUME Inv, NEW a \in Symbol, NEW e \in ParentEdges(parent, a), NEW spawned,
         NEW called \in BOOLEAN, Edge(a, e, spawned, called)
  PROVE  /\ stage = "flatten" /\ ReadBags(a, spawned) /\ UNCHANGED <<input, stage, tables>>
         /\ parent' \in ParentState /\ phase' \in Phase
         /\ epochNonempty' \in BOOLEAN /\ beat' \in BOOLEAN /\ infVal' = infVal
<1>1. stage = "flatten" /\ ReadBags(a, spawned) /\ UNCHANGED <<input, stage, tables>>
  BY DEF Edge
<1>2. parent' \in ParentState
  BY InputType DEF Edge, Inv, Input, NestedAutomaton, ParentEdge, ParentEdges
<1>3. phase' \in Phase
  BY DEF Edge, AdvancePhase, Phase, Inv, ThresholdTypeOK
<1>4. epochNonempty' \in BOOLEAN /\ beat' \in BOOLEAN
  BY Zenon DEF Edge, Inv, ThresholdTypeOK
<1>5. infVal' = infVal
  BY <1>1, SameInput
<1> QED
  BY <1>1, <1>2, <1>3, <1>4, <1>5

\* A parent edge without a call keeps the invariant.
LEMMA SilentEdgeInv ==
  ASSUME Inv, NEW a \in Symbol, NEW e \in ParentEdges(parent, a), SilentEdge(a, e)
  PROVE  Inv'
<1>1. Edge(a, e, {}, FALSE) /\ lastGuess' = SilentWeight /\ tracked' = TrackedAfter(a)
  BY DEF SilentEdge
<1>2. /\ stage = "flatten" /\ ReadBags(a, {}) /\ UNCHANGED <<input, stage, tables>>
      /\ parent' \in ParentState /\ phase' \in Phase
      /\ epochNonempty' \in BOOLEAN /\ beat' \in BOOLEAN /\ infVal' = infVal
  BY <1>1, EdgeFacts
<1>3. P1' \in SUBSET Obligation /\ P2' \in SUBSET Obligation
  BY <1>2, ReadBagsKeep
<1>4. WitnessAlone'
  <2>1. Witnesses({}) = {}
    BY DEF Witnesses
  <2> QED
    BY <1>2, <2>1, WitnessLetter
<1> QED
  BY <1>1, <1>2, <1>3, <1>4, TrackedAfterKept, LetterInv

\* A parent edge that calls keeps the invariant, whatever is guessed.
LEMMA CallEdgeInv ==
  ASSUME Inv, NEW a \in Symbol, NEW e \in ParentEdges(parent, a), NEW g \in Guess, CallEdge(a, e, g)
  PROVE  Inv'
<1> DEFINE i == e.call
           R == RunsAfter(i, {Start}, a)
           spawned == Spawned(i, g, a)
<1>1. /\ i \in Child /\ g \in Guesses(a) /\ Edge(a, e, spawned, TRUE) /\ lastGuess' = g
      /\ tracked' = TrackedAfter(a) \/ tracked' = Track(i, g, R)
  BY DEF CallEdge
<1>2. /\ stage = "flatten" /\ ReadBags(a, spawned) /\ UNCHANGED <<input, stage, tables>>
      /\ parent' \in ParentState /\ phase' \in Phase
      /\ epochNonempty' \in BOOLEAN /\ beat' \in BOOLEAN /\ infVal' = infVal
  <2> HIDE DEF spawned
  <2> QED
    BY <1>1, EdgeFacts
<1>3. ThresholdTypeOK /\ Input
  BY InputType DEF Inv
<1>4. spawned \in SUBSET Obligation
  BY <1>1, <1>3, SpawnedType
<1>5. P1' \in SUBSET Obligation /\ P2' \in SUBSET Obligation /\ spawned \subseteq P1'
  <2> HIDE DEF spawned
  <2> QED
    BY <1>2, <1>4, ReadBagsKeep
<1>6. WitnessAlone'
  <2>1. \A x, y \in spawned : x = y
    BY DEF Spawned
  <2>2. infVal = "Sup" => Witnesses(spawned) = {} \/ ~WitnessKept(a)
    <3>1. \A x \in spawned : x.guess = g
      BY DEF Spawned
    <3>2. infVal = "Sup" /\ WitnessKept(a) => g # AtLeast
      BY <1>1 DEF Guesses, AnyReturn, AtLeast
    <3> QED
      BY <3>1, <3>2 DEF Witnesses
  <2> HIDE DEF spawned
  <2> QED
    BY <1>2, <1>4, <2>1, <2>2, WitnessLetter
<1>7. CASE tracked' = TrackedAfter(a)
  <2> HIDE DEF spawned
  <2> QED
    BY <1>1, <1>2, <1>4, <1>5, <1>6, <1>7, TrackedAfterKept, LetterInv
<1>8. CASE tracked' = Track(i, g, R)
  <2>1. R \in SUBSET Run /\ \A r \in R : RunOK(r)
    <3>1. {Start} \in SUBSET Run /\ \A r \in {Start} : RunOK(r)
      BY <1>3, StartRun
    <3> QED
      BY <1>1, <1>3, <3>1, RunsAfterType
  <2>2. ~Returning(i, R, g) => Owing(i, g, R) \in P1' \cup P2'
    BY <1>1, <1>3, <1>5, SpawnedCall
  <2>3. /\ tracked' \in Tracked
        /\ tracked'.status = "pending" =>
             /\ tracked'.child \in Child
             /\ \A r \in tracked'.runs : RunOK(r)
             /\ Owing(tracked'.child, tracked'.guess, tracked'.runs) \in P1' \cup P2'
    <3> HIDE DEF R, i
    <3> QED
      BY <1>1, <1>8, <2>1, <2>2, TrackType
  <2> QED
    BY <1>1, <1>2, <1>5, <1>6, <2>3, LetterInv
<1> QED
  BY <1>1, <1>7, <1>8

\* Stuttering keeps the invariant.
LEMMA StutterInv == ASSUME Inv, UNCHANGED vars PROVE Inv'
<1> USE DEF Inv, Tables
<1>1. /\ UNCHANGED input /\ UNCHANGED <<input, stage, tables>>
      /\ least' = least /\ most' = most /\ raised' = raised /\ live' = live /\ stage' = stage
      /\ P1' = P1 /\ P2' = P2 /\ parent' = parent /\ lastGuess' = lastGuess
      /\ phase' = phase /\ epochNonempty' = epochNonempty /\ beat' = beat /\ tracked' = tracked
  BY DEF vars, buchi, tables
<1>2. /\ nested' = nested /\ finVal' = finVal /\ infVal' = infVal /\ threshold' = threshold
      /\ Cap' = Cap
  BY <1>1, SameInput
<1>3. WitnessAlone'
  BY <1>1, <1>2 DEF WitnessAlone, Witnesses
<1>4. CASE stage = "flatten"
  <2>1. tracked'.status = "pending" =>
          /\ tracked'.child \in Child
          /\ \A r \in tracked'.runs : RunOK(r)
          /\ Owing(tracked'.child, tracked'.guess, tracked'.runs) \in P1' \cup P2'
    BY <1>1, OwedIsOwing DEF RunsInv, PendingBestKept
  <2>2. /\ P1' \in SUBSET Obligation /\ P2' \in SUBSET Obligation
        /\ parent' \in ParentState /\ lastGuess' \in Guess \cup {SilentWeight} /\ phase' \in Phase
        /\ epochNonempty' \in BOOLEAN /\ beat' \in BOOLEAN /\ tracked' \in Tracked
    BY <1>1, Zenon DEF ThresholdTypeOK
  <2> QED
    BY <1>1, <1>3, <1>4, <2>1, <2>2, LetterInv
<1>5. CASE stage # "flatten"
  <2>1. ThresholdTypeOK'
    BY <1>1, <1>2, Zenon DEF ThresholdTypeOK
  <2>2. CutoffsInv'
    BY <1>1, <1>2, <1>5, SameInput DEF CutoffsInv
  <2>3. LiveInv'
    BY <1>1, <1>2, <1>5, SameInput DEF LiveInv
  <2>4. Idle' /\ RunsInv' /\ PendingBestKept'
    BY <1>1, <1>5 DEF Idle, RunsInv, PendingBestKept
  <2> QED
    BY <1>3, <2>1, <2>2, <2>3, <2>4
<1> QED
  BY <1>4, <1>5

\* Every step keeps the invariant.
LEMMA NextInv == ASSUME Inv, [Next]_vars PROVE Inv'
<1>1. CASE GrowCutoffs
  BY <1>1, GrowCutoffsInv
<1>2. CASE GrowLive
  BY <1>2, GrowLiveInv
<1>3. CASE Call
  BY <1>3, CallEdgeInv DEF Call
<1>4. CASE SilentStep
  BY <1>4, SilentEdgeInv DEF SilentStep
<1>5. CASE UNCHANGED vars
  BY <1>5, StutterInv
<1> QED
  BY <1>1, <1>2, <1>3, <1>4, <1>5 DEF Next, Letter

\* The threshold flattenings keep their state well formed; in particular the
\* costs of the ways to final states are numbers, the search for them included.
THEOREM ThresholdTypes == Spec => []ThresholdTypeOK
<1>1. Inv => ThresholdTypeOK
  BY DEF Inv
<1> QED
  BY <1>1, InitInv, NextInv, PTL DEF Spec

\* A call that has not returned is in one of the bags of a threshold
\* flattening with the best progress of all its runs for each state, although
\* the others are dropped after each letter (thrext_frontier_canonicalize).
THEOREM PendingBest == Spec => []PendingBestKept
<1>1. Inv => PendingBestKept
  BY DEF Inv
<1> QED
  BY <1>1, InitInv, NextInv, PTL DEF Spec

\* Under Sup there is one witness at a time (NestedAutomaton.cpp asserts that
\* one of its two slots is free), and it is the tracked call if that has
\* guessed to be one.
THEOREM WitnessIsOne == Spec => []OneWitness
<1>1. Inv => OneWitness
  <2> SUFFICES ASSUME Inv, infVal = "Sup"
               PROVE  LET witnesses == {x \in P1 \cup P2 : x.guess = AtLeast}
                      IN  /\ P1 \cap witnesses = {} \/ P2 \cap witnesses = {}
                          /\ \A x, y \in witnesses : x = y
                          /\ tracked.status = "pending" /\ tracked.guess = AtLeast
                               => witnesses = {Owed}
    BY DEF OneWitness
  <2> DEFINE W == {x \in P1 \cup P2 : x.guess = AtLeast}
  <2>1. W = Witnesses(P1) \cup Witnesses(P2) /\ P1 \cap W = Witnesses(P1) /\ P2 \cap W = Witnesses(P2)
    BY DEF Witnesses
  <2>2. Witnesses(P1) = {} \/ Witnesses(P2) = {}
    BY DEF Inv, WitnessAlone
  <2>3. \A x, y \in W : x = y
    BY <2>1 DEF Inv, WitnessAlone
  <2>4. ASSUME tracked.status = "pending", tracked.guess = AtLeast PROVE W = {Owed}
    <3>1. Owed \in P1 \cup P2 /\ Owed.guess = AtLeast
      BY <2>4 DEF Inv, PendingBestKept, Owed
    <3> QED
      BY <2>3, <3>1
  <2> QED
    BY <2>1, <2>2, <2>3, <2>4
<1> QED
  BY <1>1, InitInv, NextInv, PTL DEF Spec

-----------------------------------------------------------------------------
(***************************************************************************)
(* Live configurations return                                              *)
(***************************************************************************)

Runs == {r \in Run : RunOK(r)}

\* The runs X of child i that all letters keep together.
Kept(i, X) == X \in SUBSET Runs /\ \A a \in Symbol : RunsAfter(i, X, a) \subseteq X

\* The progress of a run of a sum.
Prog(r) == Smaller(Cost(r.value), Cap)

\* A run along an edge.
LEMMA AlongEdge ==
  ASSUME Input, NEW i \in Child, NEW X, Kept(i, X), NEW q \in X,
         NEW e \in nested.child[i].edges, e.from = q.state
  PROVE  /\ RunStep(q, e) \in X /\ RunStep(q, e).state = e.to
         /\ \A g \in Guess : Encoded(g, RunStep(q, e)) = Move(g, Encoded(g, q), e)
         /\ finVal \in Sums => Prog(RunStep(q, e)) = Smaller(Prog(q) + Cost(e.weight), Cap)
<1>1. q \in Run /\ RunOK(q) /\ X \in SUBSET Runs
  BY DEF Kept, Runs
<1>2. e.symbol \in Symbol
  BY DEF Input, NestedAutomaton, ChildAutomaton, ChildEdge
<1>3. e \in ChildEdges(i, q.state, e.symbol)
  BY DEF ChildEdges
<1>4. RunStep(q, e) \in RunsAfter(i, X, e.symbol)
  BY <1>3 DEF RunsAfter
<1>5. \A g \in Guess : /\ RunStep(q, e).state = e.to
                       /\ Encoded(g, RunStep(q, e)) = Move(g, Encoded(g, q), e)
  BY <1>1, <1>3, EncodedStep
<1>6. AtLeast \in Guess /\ AtLeast # AnyReturn
  BY DEF Guess, AtLeast, AnyReturn
<1>7. ASSUME finVal \in Sums
      PROVE  Prog(RunStep(q, e)) = Smaller(Prog(q) + Cost(e.weight), Cap)
  <2> DEFINE r == RunStep(q, e)
  <2>1. \A y : Encoded(AtLeast, y)[2] = Prog(y)
    BY <1>6, <1>7 DEF Encoded, Prog
  <2>2. Move(AtLeast, Encoded(AtLeast, q), e)[2] = StepProg(Encoded(AtLeast, q)[2], e.weight)
    BY <1>6 DEF Move
  <2>3. \A p, w : StepProg(p, w) = Smaller(p + Cost(w), Cap)
    BY <1>7 DEF StepProg, Sums
  <2> HIDE DEF r
  <2>4. Encoded(AtLeast, r) = Move(AtLeast, Encoded(AtLeast, q), e)
    BY <1>5, <1>6 DEF r
  <2>5. Prog(r) = StepProg(Prog(q), e.weight)
    BY <2>1, <2>2, <2>4
  <2> QED
    BY <2>3, <2>5 DEF r
<1> QED
  BY <1>2, <1>4, <1>5, <1>6, <1>7 DEF Kept

\* The progress of a run lies below the cap.
LEMMA ProgType ==
  ASSUME Input, NEW r \in Runs
  PROVE  Prog(r) \in Nat /\ Prog(r) <= Cap /\ Cap \in Nat
<1>1. Cap \in Nat /\ Cost(r.value) \in Nat
  BY GoalType, CostType DEF Runs, Run
<1> QED
  BY <1>1 DEF Prog, Smaller

\* From a state that reaches a final one a run is continued to a final state,
\* and no sum makes less progress by that.
LEMMA RunReturns ==
  ASSUME Input, NEW i \in Child, NEW X, Kept(i, X), NEW q \in X, q.state \in CanReturn(i)
  PROVE  \E r \in X : /\ r.state \in ChildFinal(i)
                      /\ finVal \in Sums => Prog(q) <= Prog(r)
<1> DEFINE Ahead(r) == finVal \in Sums => Prog(q) <= Prog(r)
           C == {s \in ChildState : \E r \in X : r.state = s /\ Ahead(r)}
           G == ChildGraph(i)
<1>1. \A r \in X : r \in Runs /\ r.state \in ChildState /\ Prog(r) \in Nat /\ Prog(r) <= Cap /\ Cap \in Nat
  BY ProgType DEF Kept, Runs, Run
<1>2. DOMAIN G = ChildState
  BY DEF ChildGraph
<1>3. q.state \in C
  BY <1>1
<1>4. ASSUME NEW s \in C, NEW t \in G[s]
      PROVE  t \in C
  <2>1. PICK e \in nested.child[i].edges : e.from = s /\ e.to = t
    BY DEF ChildGraph
  <2>2. PICK r \in X : r.state = s /\ Ahead(r)
    OBVIOUS
  <2> DEFINE y == RunStep(r, e)
  <2>3. y \in X /\ y.state = e.to
        /\ (finVal \in Sums => Prog(y) = Smaller(Prog(r) + Cost(e.weight), Cap))
    BY <2>1, <2>2, AlongEdge
  <2> HIDE DEF y
  <2>4. e.to \in ChildState /\ Cost(e.weight) \in Nat
    BY EdgeType, CostType
  <2>5. finVal \in Sums => Prog(r) <= Prog(y)
    BY <1>1, <2>3, <2>4 DEF Smaller
  <2>6. Ahead(y)
    BY <1>1, <2>2, <2>3, <2>5
  <2> QED
    BY <2>1, <2>3, <2>4, <2>6
<1>5. PICK t \in ChildFinal(i) : Reaches(G, q.state, t)
  BY DEF CanReturn
<1>6. t \in C
  <2>1. C \in SUBSET DOMAIN G
    BY <1>2
  <2> HIDE DEF C, G
  <2> QED
    BY <1>3, <1>4, <1>5, <2>1 DEF Reaches, Closed
<1> QED
  BY <1>6

\* A run that ends with progress for which thrext_discharge_ok holds returns.
LEMMA FinalReturns ==
  ASSUME Input, NEW i \in Child, NEW X, Kept(i, X), NEW g \in Guess,
         NEW r \in X, r.state \in ChildFinal(i), DischargeOK(g, Encoded(g, r)[2])
  PROVE  Returning(i, X, g)
<1>1. r \in Run /\ RunOK(r)
  BY DEF Kept, Runs
<1>2. (g = AtLeast => r.value >= threshold) /\ (g = Below => r.value < threshold)
  BY <1>1, EncodedReturn
<1> QED
  BY <1>2 DEF Returning

-----------------------------------------------------------------------------
(* What the tables promise is there                                        *)

LeastSound(i, s, n) ==
  n < Infinity =>
    \A X : Kept(i, X) => \A q \in X : q.state = s =>
      \E r \in X : r.state \in ChildFinal(i) /\ Prog(r) <= Prog(q) + n

MostSound(i, s, n) ==
  s \in CanReturn(i) =>
    \A X : Kept(i, X) => \A q \in X : q.state = s =>
      \E r \in X : r.state \in CanReturn(i) /\ Smaller(Prog(q) + n, Cap) <= Prog(r)

LiveSoundFor(t) ==
  \A X : Kept(t.child, X) => \A q \in X :
    Encoded(t.guess, q) = <<t.state, t.prog>> => Returning(t.child, X, t.guess)

TablesSound ==
  /\ finVal \in Sums =>
       \A i \in Child : /\ raised[i] \subseteq CanReturn(i)
                        /\ \A s \in ChildState : LeastSound(i, s, least[i][s]) /\ MostSound(i, s, most[i][s])
  /\ finVal \notin Sums => \A t \in live : LiveSoundFor(t)

\* What makes the tables sound is a matter of the input alone.
LEMMA SameSound ==
  ASSUME UNCHANGED input
  PROVE  /\ \A i, s, n : LeastSound(i, s, n)' <=> LeastSound(i, s, n)
         /\ \A i, s, n : MostSound(i, s, n)' <=> MostSound(i, s, n)
         /\ \A t : LiveSoundFor(t)' <=> LiveSoundFor(t)
<1>1. /\ nested' = nested /\ finVal' = finVal /\ threshold' = threshold /\ Cap' = Cap
      /\ \A i : ChildFinal(i)' = ChildFinal(i) /\ CanReturn(i)' = CanReturn(i)
      /\ \A r : RunOK(r)' <=> RunOK(r)
  BY SameInput
<1>2. Runs' = Runs
  BY <1>1 DEF Runs
<1>3. \A r, e : RunStep(r, e)' = RunStep(r, e)
  BY <1>1 DEF RunStep
<1>4. \A i, X, a : RunsAfter(i, X, a)' = RunsAfter(i, X, a)
  BY <1>1, <1>3 DEF RunsAfter, ChildEdges
<1>5. \A i, X : Kept(i, X)' <=> Kept(i, X)
  BY <1>2, <1>4 DEF Kept
<1>6. \A r : Prog(r)' = Prog(r)
  BY <1>1 DEF Prog
<1>7. \A g, r : Encoded(g, r)' = Encoded(g, r)
  BY <1>1 DEF Encoded
<1>8. \A i, X, g : Returning(i, X, g)' <=> Returning(i, X, g)
  BY <1>1 DEF Returning
<1>9. \A i, s, n : LeastSound(i, s, n)' <=> LeastSound(i, s, n)
  BY <1>1, <1>5, <1>6 DEF LeastSound
<1>10. \A i, s, n : MostSound(i, s, n)' <=> MostSound(i, s, n)
  BY <1>1, <1>5, <1>6 DEF MostSound
<1>11. \A t : LiveSoundFor(t)' <=> LiveSoundFor(t)
  BY <1>5, <1>7, <1>8 DEF LiveSoundFor
<1> QED
  BY <1>9, <1>10, <1>11

\* The tables are sound at the start.
LEMMA TablesSoundInit == Init => TablesSound
<1> SUFFICES ASSUME Init PROVE TablesSound
  OBVIOUS
<1>0. Input
  BY InitInv, InputType DEF Inv, Tables
<1>1. /\ least = [i \in Child |-> [s \in ChildState |-> IF s \in ChildFinal(i) THEN 0 ELSE Infinity]]
      /\ most = [i \in Child |-> [s \in ChildState |-> 0]]
      /\ raised = [i \in Child |-> CanReturn(i)] /\ live = {}
  BY DEF Init, GainSeeds
<1>2. \A i, X : Kept(i, X) => \A q \in X : Prog(q) \in Nat /\ Prog(q) <= Cap /\ Cap \in Nat
  BY <1>0, ProgType DEF Kept
<1>3. Infinity \in Nat
  BY ThresholdAssumption
<1>4. ASSUME NEW i \in Child, NEW s \in ChildState
      PROVE  LeastSound(i, s, least[i][s]) /\ MostSound(i, s, most[i][s])
  <2>1. least[i][s] = (IF s \in ChildFinal(i) THEN 0 ELSE Infinity) /\ most[i][s] = 0
    BY <1>1
  <2>2. LeastSound(i, s, least[i][s])
    <3> SUFFICES ASSUME least[i][s] < Infinity, NEW X, Kept(i, X), NEW q \in X, q.state = s
                 PROVE  q.state \in ChildFinal(i) /\ Prog(q) <= Prog(q) + least[i][s]
      BY DEF LeastSound
    <3>1. s \in ChildFinal(i)
      BY <1>3, <2>1
    <3> QED
      BY <1>2, <2>1, <3>1
  <2>3. MostSound(i, s, most[i][s])
    <3> SUFFICES ASSUME s \in CanReturn(i), NEW X, Kept(i, X), NEW q \in X, q.state = s
                 PROVE  q.state \in CanReturn(i) /\ Smaller(Prog(q) + most[i][s], Cap) <= Prog(q)
      BY DEF MostSound
    <3> QED
      BY <1>2, <2>1 DEF Smaller
  <2> QED
    BY <2>2, <2>3
<1> QED
  BY <1>1, <1>4 DEF TablesSound

\* What the searches compute is in the tables before or one edge away.
LEMMA LeastBelowIn ==
  ASSUME ThresholdTypeOK, NEW i \in Child, NEW s \in ChildState
  PROVE  \/ LeastBelow(i, s) = least[i][s]
         \/ \E e \in EdgesFrom(i, s) : LeastBelow(i, s) = Add(least[i][e.to], Cost(e.weight))
<1> DEFINE S == {least[i][s]} \cup {Add(least[i][e.to], Cost(e.weight)) : e \in EdgesFrom(i, s)}
<1>1. S \in SUBSET Nat /\ S # {}
  <2>1. least[i][s] \in Nat /\ Input /\ Infinity \in Nat
    BY InputType, GoalType DEF ThresholdTypeOK
  <2>2. ASSUME NEW e \in EdgesFrom(i, s) PROVE Add(least[i][e.to], Cost(e.weight)) \in Nat
    <3>1. e.to \in ChildState /\ e.weight \in Int
      BY <2>1, EdgeType DEF EdgesFrom
    <3>2. least[i][e.to] \in Nat /\ Cost(e.weight) \in Nat
      BY <3>1, CostType DEF ThresholdTypeOK
    <3> QED
      BY <2>1, <3>2 DEF Add
  <2> QED
    BY <2>1, <2>2
<1>2. SmallestOf(S) \in S
  <2> HIDE DEF S
  <2> QED
    BY <1>1, SmallestFact
<1> QED
  BY <1>2 DEF LeastBelow

\* The largest progress of a state is its old one or comes from an edge.
LEMMA MostBelowIn ==
  ASSUME ThresholdTypeOK, CutoffsInv, finVal \in Sums, NEW i \in Child, NEW s \in ChildState
  PROVE  \/ MostBelow(i, s) = most[i][s]
         \/ \E e \in EdgesFrom(i, s) :
              /\ e.to \in raised[i] /\ s \in CanReturn(i)
              /\ MostBelow(i, s) = Smaller(most[i][e.to] + Cost(e.weight), Cap)
<1> DEFINE E == {d \in EdgesFrom(i, s) : d.to \in raised[i] /\ s \in CanReturn(i)}
           S == {most[i][s]} \cup {Smaller(most[i][e.to] + Cost(e.weight), Cap) : e \in E}
<1>0. Input /\ Cap \in Nat
  BY InputType, GoalType
<1>1. S \in SUBSET Nat /\ S # {} /\ \A y \in S : y <= Cap
  <2>1. most[i][s] \in Nat /\ most[i][s] <= Cap
    BY DEF ThresholdTypeOK, CutoffsInv
  <2>2. ASSUME NEW e \in E
        PROVE  LET n == Smaller(most[i][e.to] + Cost(e.weight), Cap) IN n \in Nat /\ n <= Cap
    <3>1. e.to \in ChildState /\ e.weight \in Int
      BY <1>0, EdgeType DEF EdgesFrom
    <3>2. most[i][e.to] \in Nat /\ Cost(e.weight) \in Nat
      BY <3>1, CostType DEF ThresholdTypeOK
    <3> QED
      BY <1>0, <3>2 DEF Smaller
  <2> QED
    BY <2>1, <2>2
<1>2. LargestOf(S) \in S
  <2> HIDE DEF S
  <2> QED
    BY <1>0, <1>1, LargestFact
<1> QED
  BY <1>2 DEF MostBelow

\* An edge adds its cost to the least progress of its target.
LEMMA LeastEdge ==
  ASSUME ThresholdTypeOK, finVal \in Sums, NEW i \in Child, NEW s \in ChildState,
         NEW e \in EdgesFrom(i, s), LeastSound(i, e.to, least[i][e.to])
  PROVE  LeastSound(i, s, Add(least[i][e.to], Cost(e.weight)))
<1> DEFINE m == least[i][e.to]
           n == Cost(e.weight)
<1>0. Input /\ Infinity \in Nat /\ e \in nested.child[i].edges /\ e.from = s
  BY InputType, GoalType DEF EdgesFrom
<1>1. m \in Nat /\ n \in Nat
  BY <1>0, EdgeType, CostType DEF ThresholdTypeOK
<1> SUFFICES ASSUME Add(m, n) < Infinity, NEW X, Kept(i, X), NEW q \in X, q.state = s
             PROVE  \E r \in X : r.state \in ChildFinal(i) /\ Prog(r) <= Prog(q) + Add(m, n)
  BY DEF LeastSound
<1> DEFINE y == RunStep(q, e)
<1>2. y \in X /\ y.state = e.to /\ Prog(y) = Smaller(Prog(q) + n, Cap)
  BY <1>0, AlongEdge
<1>3. \A r \in X : Prog(r) \in Nat /\ Cap \in Nat
  BY <1>0, ProgType DEF Kept
<1> HIDE DEF y, n, m
<1>4. Add(m, n) = m + n /\ m < Infinity
  BY <1>0, <1>1 DEF Add
<1>5. PICK r \in X : r.state \in ChildFinal(i) /\ Prog(r) <= Prog(y) + m
  BY <1>2, <1>4 DEF LeastSound, m
<1>6. Prog(y) <= Prog(q) + n
  BY <1>1, <1>2, <1>3 DEF Smaller
<1>7. Prog(r) <= Prog(q) + Add(m, n)
  BY <1>1, <1>2, <1>3, <1>4, <1>5, <1>6
<1> QED
  BY <1>5, <1>7

\* An edge adds its cost to the largest progress of its target.
LEMMA MostEdge ==
  ASSUME ThresholdTypeOK, finVal \in Sums, NEW i \in Child, NEW s \in ChildState,
         NEW e \in EdgesFrom(i, s), e.to \in CanReturn(i), MostSound(i, e.to, most[i][e.to])
  PROVE  MostSound(i, s, Smaller(most[i][e.to] + Cost(e.weight), Cap))
<1> DEFINE m == most[i][e.to]
           n == Cost(e.weight)
<1>0. Input /\ e \in nested.child[i].edges /\ e.from = s
  BY InputType DEF EdgesFrom
<1>1. m \in Nat /\ n \in Nat
  BY <1>0, EdgeType, CostType DEF ThresholdTypeOK
<1> SUFFICES ASSUME NEW X, Kept(i, X), NEW q \in X, q.state = s
             PROVE  \E r \in X : /\ r.state \in CanReturn(i)
                                 /\ Smaller(Prog(q) + Smaller(m + n, Cap), Cap) <= Prog(r)
  BY DEF MostSound
<1> DEFINE y == RunStep(q, e)
<1>2. y \in X /\ y.state = e.to /\ Prog(y) = Smaller(Prog(q) + n, Cap)
  BY <1>0, AlongEdge
<1>3. \A r \in X : Prog(r) \in Nat /\ Cap \in Nat
  BY <1>0, ProgType DEF Kept
<1> HIDE DEF y, n, m
<1>4. PICK r \in X : r.state \in CanReturn(i) /\ Smaller(Prog(y) + m, Cap) <= Prog(r)
  BY <1>2 DEF MostSound, m
<1>5. Smaller(Prog(q) + Smaller(m + n, Cap), Cap) <= Prog(r)
  BY <1>1, <1>2, <1>3, <1>4 DEF Smaller
<1> QED
  BY <1>4, <1>5

\* Without sums, a configuration that is live at once is soundly live.
LEMMA LiveNowSound ==
  ASSUME ThresholdTypeOK, finVal \notin Sums, TablesSound, NEW t \in Target, LiveNow(t)
  PROVE  LiveSoundFor(t)
<1> DEFINE i == t.child
           g == t.guess
           here == <<t.state, t.prog>>
<1>0. Input /\ i \in Child /\ g \in Guess
  BY InputType DEF Target, Guess
<1> SUFFICES ASSUME NEW X, Kept(i, X), NEW q \in X, Encoded(g, q) = here
             PROVE  Returning(i, X, g)
  BY DEF LiveSoundFor
<1>1. q.state = t.state
  BY DEF Encoded
<1>2. CASE Ending(i, g, here, EdgesFrom(i, t.state)) # {}
  <2>1. PICK e \in EdgesFrom(i, t.state) : e.to \in ChildFinal(i) /\ DischargeOK(g, Move(g, here, e)[2])
    BY <1>2 DEF Ending
  <2> DEFINE r == RunStep(q, e)
  <2>2. e \in nested.child[i].edges /\ e.from = q.state
    BY <1>1 DEF EdgesFrom
  <2>3. r \in X /\ r.state = e.to /\ Encoded(g, r) = Move(g, Encoded(g, q), e)
    BY <1>0, <2>2, AlongEdge
  <2>4. DischargeOK(g, Encoded(g, r)[2])
    BY <2>1, <2>3
  <2> HIDE DEF r, i, g
  <2> QED
    BY <1>0, <2>1, <2>3, <2>4, FinalReturns
<1>3. CASE \E e \in EdgesFrom(i, t.state) : InLive(i, g, Move(g, here, e))
  <2>1. PICK e \in EdgesFrom(i, t.state) : InLive(i, g, Move(g, here, e))
    BY <1>3
  <2> DEFINE r == RunStep(q, e)
             c == Move(g, here, e)
             u == [child |-> i, guess |-> g, state |-> c[1], prog |-> c[2]]
  <2>2. e \in nested.child[i].edges /\ e.from = q.state
    BY <1>1 DEF EdgesFrom
  <2>3. r \in X /\ Encoded(g, r) = Move(g, Encoded(g, q), e)
    BY <1>0, <2>2, AlongEdge
  <2>4. u \in live /\ u.child = i /\ u.guess = g /\ <<u.state, u.prog>> = c
    BY <2>1 DEF InLive, Move
  <2> HIDE DEF u, r
  <2>5. LiveSoundFor(u) /\ Encoded(g, r) = c
    BY <2>3, <2>4 DEF TablesSound
  <2> HIDE DEF c
  <2> QED
    BY <2>3, <2>4, <2>5 DEF LiveSoundFor
<1> QED
  BY <1>2, <1>3 DEF LiveNow

\* Every step keeps the tables sound.
LEMMA TablesSoundNext ==
  ASSUME Inv, TablesSound, [Next]_vars
  PROVE  TablesSound'
<1> USE DEF Inv, Tables
<1>1. CASE GrowCutoffs
  <2>1. /\ finVal \in Sums /\ UNCHANGED input
        /\ least' = [i \in Child |-> [s \in ChildState |-> LeastBelow(i, s)]]
        /\ most' = [i \in Child |-> [s \in ChildState |-> MostBelow(i, s)]]
        /\ raised' = [i \in Child |-> {s \in ChildState : MostBelow(i, s) > most[i][s]}]
    BY <1>1 DEF GrowCutoffs
  <2>2. finVal' = finVal /\ \A i : CanReturn(i)' = CanReturn(i)
    BY <2>1, SameInput
  <2>3. ASSUME NEW i \in Child, NEW s \in ChildState
        PROVE  /\ LeastSound(i, s, LeastBelow(i, s))
               /\ MostSound(i, s, MostBelow(i, s))
               /\ MostBelow(i, s) > most[i][s] => s \in CanReturn(i)
    <3>1. LeastSound(i, s, least[i][s]) /\ MostSound(i, s, most[i][s]) /\ raised[i] \subseteq CanReturn(i)
      BY <2>1 DEF TablesSound
    <3>2. \A e \in EdgesFrom(i, s) : e.to \in ChildState
      BY InputType, EdgeType DEF EdgesFrom
    <3>3. \A e \in EdgesFrom(i, s) : LeastSound(i, e.to, least[i][e.to]) /\ MostSound(i, e.to, most[i][e.to])
      BY <2>1, <3>2 DEF TablesSound
    <3>4. LeastSound(i, s, LeastBelow(i, s))
      <4>1. CASE LeastBelow(i, s) = least[i][s]
        BY <3>1, <4>1
      <4>2. CASE \E e \in EdgesFrom(i, s) : LeastBelow(i, s) = Add(least[i][e.to], Cost(e.weight))
        BY <2>1, <3>3, <4>2, LeastEdge
      <4> QED
        BY <4>1, <4>2, LeastBelowIn
    <3>5. MostSound(i, s, MostBelow(i, s)) /\ (MostBelow(i, s) > most[i][s] => s \in CanReturn(i))
      <4>1. CASE MostBelow(i, s) = most[i][s]
        <5>1. ~(MostBelow(i, s) > most[i][s])
          BY <4>1 DEF ThresholdTypeOK
        <5> QED
          BY <3>1, <4>1, <5>1
      <4>2. CASE \E e \in EdgesFrom(i, s) :
                   /\ e.to \in raised[i] /\ s \in CanReturn(i)
                   /\ MostBelow(i, s) = Smaller(most[i][e.to] + Cost(e.weight), Cap)
        BY <2>1, <3>1, <3>3, <4>2, MostEdge
      <4> QED
        BY <2>1, <4>1, <4>2, MostBelowIn
    <3> QED
      BY <3>4, <3>5
  <2>4. \A i \in Child : /\ raised'[i] \subseteq CanReturn(i)
                         /\ \A s \in ChildState : /\ LeastSound(i, s, least'[i][s])
                                                  /\ MostSound(i, s, most'[i][s])
    BY <2>1, <2>3
  <2> QED
    BY <2>1, <2>2, <2>4, SameSound DEF TablesSound
<1>2. CASE GrowLive
  <2>1. finVal \notin Sums /\ UNCHANGED input /\ live' = live \cup {t \in Target : LiveNow(t)}
    BY <1>2 DEF GrowLive
  <2>2. \A t \in live' : LiveSoundFor(t)
    BY <2>1, LiveNowSound DEF TablesSound
  <2>3. finVal' = finVal
    BY <2>1, SameInput
  <2> QED
    BY <2>1, <2>2, <2>3, SameSound DEF TablesSound
<1>3. CASE Letter \/ UNCHANGED vars
  <2>1. UNCHANGED <<input, least, most, raised, live>>
    BY <1>3 DEF Letter, Call, SilentStep, CallEdge, SilentEdge, Edge, vars, tables
  <2>2. finVal' = finVal /\ \A i : CanReturn(i)' = CanReturn(i)
    BY <2>1, SameInput
  <2> QED
    BY <2>1, <2>2, SameSound DEF TablesSound
<1> QED
  BY <1>1, <1>2, <1>3 DEF Next

-----------------------------------------------------------------------------
(* Refused letters                                                         *)

\* Among runs that all letters keep together, one that is live returns.
LEMMA AliveReturns ==
  ASSUME ThresholdTypeOK, CutoffsInv, TablesSound, NEW i \in Child, NEW X, Kept(i, X), NEW g \in Guess,
         NEW q \in X, IsLive(i, g, Encoded(g, q))
  PROVE  Returning(i, X, g)
<1> DEFINE s == q.state
           p == Encoded(g, q)[2]
<1>0. Input
  BY InputType
<1>1. /\ Goal \in Nat /\ Cap \in Nat /\ Goal <= Cap /\ Cap <= Infinity /\ Infinity \in Nat
      /\ (finVal \notin Sums => ~Forced)
      /\ (finVal = "SumPlus" /\ ~Forced => Goal = Cap)
      /\ (finVal = "SumMinus" /\ ~Forced => Cap = Goal + 1)
  BY <1>0, GoalType
<1>2. q \in Run /\ s \in ChildState /\ Encoded(g, q) = <<s, p>>
  BY DEF Kept, Runs, Run, Encoded
<1>3. \A r \in X : /\ r \in Runs /\ RunOK(r) /\ r.value \in Int
                   /\ Prog(r) \in Nat /\ Prog(r) <= Cap
  BY <1>0, ProgType DEF Kept, Runs, Run
<1>4. s \in CanReturn(i)
  BY <1>2 DEF IsLive
<1>5. CASE g = AnyReturn
  <2>1. PICK r \in X : r.state \in ChildFinal(i)
    BY <1>0, <1>4, RunReturns
  <2> QED
    BY <1>5, <2>1 DEF Returning, AnyReturn, AtLeast, Below
<1>6. CASE g # AnyReturn /\ Forced
  <2>1. g = ForcedGuess
    BY <1>2, <1>6 DEF IsLive
  <2>2. PICK r \in X : r.state \in ChildFinal(i)
    BY <1>0, <1>4, RunReturns
  <2>3. DischargeOK(g, Encoded(g, r)[2])
    BY <1>6, <2>1 DEF DischargeOK
  <2> QED
    BY <1>0, <2>2, <2>3, FinalReturns
<1>7. CASE g # AnyReturn /\ ~Forced /\ finVal \notin Sums
  <2>1. InLive(i, g, <<s, p>>)
    BY <1>2, <1>7 DEF IsLive, Sums
  <2> DEFINE t == [child |-> i, guess |-> g, state |-> s, prog |-> p]
  <2>2. t \in live
    BY <2>1 DEF InLive
  <2>3. t.child = i /\ t.guess = g /\ Encoded(g, q) = <<t.state, t.prog>>
    BY <1>2
  <2> HIDE DEF t
  <2> QED
    BY <1>7, <2>2, <2>3 DEF TablesSound, LiveSoundFor
<1>8. CASE g # AnyReturn /\ ~Forced /\ finVal \in Sums
  <2> DEFINE m == most[i][s]
             n == least[i][s]
  <2>0. \A r : Encoded(g, r)[2] = Prog(r)
    BY <1>8 DEF Encoded, Prog
  <2>1. m \in Nat /\ n \in Nat /\ p = Prog(q) /\ g \in {Below, AtLeast}
    BY <1>2, <1>8, <2>0 DEF ThresholdTypeOK, Guess
  <2>2. LeastSound(i, s, n) /\ MostSound(i, s, m)
    BY <1>2, <1>8 DEF TablesSound
  <2>3. \/ finVal = "SumPlus" /\ g = AtLeast /\ Smaller(p + m, Cap) >= Goal
        \/ finVal = "SumPlus" /\ g = Below /\ Add(p, n) < Goal
        \/ finVal = "SumMinus" /\ g = AtLeast /\ Add(p, n) <= Goal
        \/ finVal = "SumMinus" /\ g = Below /\ Smaller(p + m, Cap) >= Cap
    BY <1>2, <1>8 DEF IsLive, Sums
  <2>4. CASE Smaller(p + m, Cap) >= Cap /\ (g = AtLeast <=> finVal = "SumPlus")
    <3>1. PICK r \in X : r.state \in CanReturn(i) /\ Smaller(Prog(q) + m, Cap) <= Prog(r)
      BY <1>4, <2>2 DEF MostSound
    <3>2. PICK y \in X : y.state \in ChildFinal(i) /\ Prog(r) <= Prog(y)
      BY <1>0, <1>8, <3>1, RunReturns
    <3>3. Smaller(Prog(q) + m, Cap) \in Nat
      BY <1>1, <1>3, <2>1 DEF Smaller
    <3>4. Prog(y) >= Cap /\ Prog(y) >= Goal
      BY <1>1, <1>3, <2>1, <2>4, <3>1, <3>2, <3>3
    <3>5. DischargeOK(g, Prog(y))
      BY <1>8, <2>1, <2>4, <3>4 DEF DischargeOK, Sums
    <3> QED
      BY <1>0, <2>0, <3>2, <3>5, FinalReturns
  <2>5. CASE Add(p, n) < Cap /\ Add(p, n) <= Goal /\ (g = Below => Add(p, n) < Goal)
             /\ (g = Below <=> finVal = "SumPlus")
    <3>1. n < Infinity /\ Add(p, n) = p + n
      BY <1>1, <1>3, <2>1, <2>5 DEF Add
    <3>2. PICK y \in X : y.state \in ChildFinal(i) /\ Prog(y) <= Prog(q) + n
      BY <2>2, <3>1 DEF LeastSound
    <3>3. Prog(y) <= Goal /\ (g = Below => Prog(y) < Goal)
      BY <1>1, <1>3, <2>1, <2>5, <3>1, <3>2
    <3>4. DischargeOK(g, Prog(y))
      BY <1>8, <2>1, <2>5, <3>3 DEF DischargeOK, Sums
    <3> QED
      BY <1>0, <2>0, <3>2, <3>4, FinalReturns
  <2>6. Add(p, n) \in Int
    BY <1>1, <1>3, <2>1 DEF Add
  <2>7. AtLeast # Below
    BY DEF AtLeast, Below
  <2> HIDE DEF p, n, m
  <2> QED
    BY <1>1, <1>8, <2>3, <2>4, <2>5, <2>6, <2>7
<1> QED
  BY <1>1, <1>5, <1>6, <1>7, <1>8

\* A run that returns what is guessed has progress for which
\* thrext_discharge_ok holds.
LEMMA ReturnEncoded ==
  ASSUME Input, NEW g \in Guess, NEW r \in Run, RunOK(r),
         g = AtLeast => r.value >= threshold, g = Below => r.value < threshold
  PROVE  DischargeOK(g, Encoded(g, r)[2])
<1> DEFINE v == r.value
           p == Encoded(g, r)[2]
<1>1. v \in Int /\ threshold \in Int /\ Goal \in Nat /\ Cap \in Nat
  BY GoalType DEF Run, Input
<1>2. CASE g = AnyReturn
  BY <1>2 DEF DischargeOK
<1>3. CASE g # AnyReturn /\ finVal \notin Sums
  <2>1. p = IF v >= threshold THEN 1 ELSE 0
    BY <1>3 DEF Encoded
  <2>2. g \in {Below, AtLeast}
    BY <1>3 DEF Guess
  <2>3. p = g
    BY <1>1, <2>1, <2>2 DEF Below, AtLeast
  <2>4. ~Forced /\ finVal \in {"Max", "Min"}
    BY <1>3, GoalType DEF Input, Sums
  <2> QED
    BY <2>3, <2>4 DEF DischargeOK
<1>4. CASE g # AnyReturn /\ finVal \in Sums
  <2>1. p = Smaller(Cost(v), Cap)
    BY <1>4 DEF Encoded
  <2>2. g \in {Below, AtLeast} /\ AtLeast # Below
    BY <1>4 DEF Guess, AtLeast, Below
  <2>3. CASE finVal = "SumPlus"
    <3>1. v >= 0 /\ Cost(v) = v
      BY <1>1, <2>3 DEF RunOK, Cost
    <3>2. CASE Forced
      <4>1. threshold <= 0
        BY <2>3, <3>2, GoalType
      <4>2. g = AtLeast
        BY <1>1, <2>2, <3>1, <4>1
      <4> QED
        BY <2>3, <3>2, <4>2 DEF DischargeOK, ForcedGuess
    <3>3. CASE ~Forced
      <4>1. Goal = threshold /\ Cap = Goal
        BY <2>3, <3>3, GoalType
      <4>2. g = AtLeast => p >= Goal
        BY <1>1, <2>1, <3>1, <4>1 DEF Smaller
      <4>3. g = Below => p < Goal
        BY <1>1, <2>1, <3>1, <4>1 DEF Smaller
      <4> QED
        BY <2>2, <2>3, <3>3, <4>2, <4>3 DEF DischargeOK
    <3> QED
      BY <3>2, <3>3
  <2>4. CASE finVal = "SumMinus"
    <3>1. v <= 0 /\ Cost(v) = -v
      BY <1>1, <2>4 DEF RunOK, Cost
    <3>2. CASE Forced
      <4>1. threshold > 0
        BY <2>4, <3>2, GoalType
      <4>2. g = Below
        BY <1>1, <2>2, <3>1, <4>1
      <4> QED
        BY <2>4, <3>2, <4>2 DEF DischargeOK, ForcedGuess
    <3>3. CASE ~Forced
      <4>1. Goal = -threshold /\ Cap = Goal + 1
        BY <2>4, <3>3, GoalType
      <4>2. g = AtLeast => p <= Goal
        BY <1>1, <2>1, <3>1, <4>1 DEF Smaller
      <4>3. g = Below => p >= Cap
        BY <1>1, <2>1, <3>1, <4>1 DEF Smaller
      <4> QED
        BY <2>2, <2>4, <3>3, <4>2, <4>3 DEF DischargeOK
    <3> QED
      BY <3>2, <3>3
  <2> QED
    BY <1>4, <2>3, <2>4 DEF Sums
<1> QED
  BY <1>2, <1>3, <1>4

\* A run that returns what is guessed was live before its last letter.
LEMMA ReturnLive ==
  ASSUME ThresholdTypeOK, CutoffsInv, LiveInv, stage = "flatten",
         NEW i \in Child, NEW g \in Guess, NEW r \in Runs, NEW a, NEW e \in ChildEdges(i, r.state, a),
         \/ IsLive(i, g, Encoded(g, RunStep(r, e)))
         \/ e.to \in ChildFinal(i) /\ DischargeOK(g, Encoded(g, RunStep(r, e))[2])
  PROVE  IsLive(i, g, Encoded(g, r))
<1> DEFINE p == Encoded(g, r)[2]
<1>0. Input /\ r \in Run /\ RunOK(r)
  BY InputType DEF Runs
<1>1. Encoded(g, RunStep(r, e)) = Move(g, Encoded(g, r), e)
  BY <1>0, EncodedStep
<1>2. Encoded(g, r) \in StateProgress /\ Encoded(g, r)[1] = r.state
  BY <1>0, EncodedType
<1>3. e \in nested.child[i].edges /\ e.from = r.state
  BY <1>0, ChildEdgeType
<1>4. Encoded(g, r) = <<e.from, p>> /\ p \in 0 .. Cap
  BY <1>2, <1>3 DEF StateProgress
<1> HIDE DEF p
<1>5. \/ IsLive(i, g, Move(g, <<e.from, p>>, e))
      \/ e.to \in ChildFinal(i) /\ DischargeOK(g, Move(g, <<e.from, p>>, e)[2])
  BY <1>1, <1>4
<1>6. IsLive(i, g, <<e.from, p>>)
  BY <1>3, <1>4, <1>5, LiveBackward
<1> QED
  BY <1>4, <1>6

\* The best of the configurations of a call is discharged when one of its runs
\* returns what is guessed.
LEMMA ReturningDischarged ==
  ASSUME ThresholdTypeOK, CutoffsInv, LiveInv, stage = "flatten",
         NEW i \in Child, NEW g \in Guess, NEW R \in SUBSET Runs, NEW a,
         Returning(i, RunsAfter(i, R, a), g)
  PROVE  Discharged(Owing(i, g, R), a)
<1> DEFINE X == {Encoded(g, r) : r \in R}
           x == Owing(i, g, R)
           kept == Best(g, Alive(i, g, X))
<1>0. Input
  BY InputType
<1>1. PICK y \in RunsAfter(i, R, a) : /\ y.state \in ChildFinal(i)
                                      /\ g = AtLeast => y.value >= threshold
                                      /\ g = Below => y.value < threshold
  BY DEF Returning
<1>2. PICK r \in R : y \in {RunStep(r, e) : e \in ChildEdges(i, r.state, a)}
  BY DEF RunsAfter
<1>3. PICK e \in ChildEdges(i, r.state, a) : y = RunStep(r, e)
  BY <1>2
<1>4. r \in Runs /\ r \in Run /\ RunOK(r)
  BY DEF Runs
<1>5. y \in Run /\ RunOK(y) /\ y.state = e.to /\ Encoded(g, y) = Move(g, Encoded(g, r), e)
  BY <1>0, <1>3, <1>4, EncodedStep
<1>6. DischargeOK(g, Encoded(g, y)[2])
  BY <1>0, <1>1, <1>5, ReturnEncoded
<1>7. IsLive(i, g, Encoded(g, r))
  BY <1>1, <1>3, <1>4, <1>5, <1>6, ReturnLive
<1>8. X \in SUBSET StateProgress /\ Encoded(g, r)[1] = r.state
  <2>1. \A u \in R : Encoded(g, u) \in StateProgress
    BY <1>0, EncodedType DEF Runs
  <2> QED
    BY <1>0, <1>4, <2>1, EncodedType
<1> DEFINE c == Encoded(g, r)
           Y == Alive(i, g, X)
<1>9. c \in Y /\ Y \in SUBSET StateProgress
  BY <1>7, <1>8 DEF Alive
<1>10. PICK d \in kept : d[1] = c[1] /\ Better(g, d[2], c[2])
  <2> HIDE DEF c, Y
  <2>1. \E d \in Best(g, Y) : d[1] = c[1] /\ Better(g, d[2], c[2])
    BY <1>0, <1>9, BestExists
  <2> QED
    BY <2>1 DEF Y
<1>11. d \in Y /\ IsLive(i, g, d) /\ d[2] \in 0 .. Cap /\ c[2] \in 0 .. Cap
  BY <1>9 DEF Best, Alive, StateProgress
<1>12. e.weight \in Int /\ d[1] = r.state
  BY <1>0, <1>8, <1>10, ChildEdgeType
<1> HIDE DEF c, kept, Y, X
<1>13. DischargeOK(g, Move(g, d, e)[2])
  <2>1. CASE g = AnyReturn
    BY <2>1 DEF DischargeOK
  <2>2. CASE g # AnyReturn
    <3> DEFINE m == StepProg(d[2], e.weight)
               n == StepProg(c[2], e.weight)
    <3>1. Move(g, d, e)[2] = m /\ Move(g, c, e)[2] = n
      BY <2>2 DEF Move
    <3>2. m \in 0 .. Cap /\ n \in 0 .. Cap
      BY <1>0, <1>11, <1>12, StepProgType
    <3>3. Better(g, m, n)
      <4>1. d[2] <= c[2] => m <= n
        BY <1>0, <1>11, <1>12, MoveBetter
      <4>2. c[2] <= d[2] => n <= m
        BY <1>0, <1>11, <1>12, MoveBetter
      <4> HIDE DEF m, n
      <4> QED
        BY <1>10, <4>1, <4>2 DEF Better
    <3>4. DischargeOK(g, n)
      BY <1>5, <1>6, <3>1 DEF c
    <3> HIDE DEF m, n
    <3> QED
      BY <1>0, <3>1, <3>2, <3>3, <3>4, DischargeBetter
  <2> QED
    BY <2>1, <2>2
<1>14. e \in Ending(i, g, d, ChildEdges(i, d[1], a))
  BY <1>1, <1>5, <1>12, <1>13 DEF Ending
<1>15. x.child = i /\ x.guess = g /\ x.conf = kept
  BY DEF Owing, kept, X
<1>16. d \in Running(x)
  BY <1>11, <1>15 DEF Running
<1> HIDE DEF x
<1>17. Returns(i, g, Running(x), a)
  BY <1>14, <1>16 DEF Returns
<1>18. Discharged(x, a)
  BY <1>15, <1>17 DEF Discharged
<1> QED
  BY <1>18 DEF x

\* What RunsWithin computes, letter by letter.
LEMMA RunsWithinSteps ==
  ASSUME Input, NEW i \in Child, NEW R \in SUBSET Runs
  PROVE  /\ RunsWithin(i, R)[0] = R
         /\ \A n \in Nat : RunsWithin(i, R)[n + 1] =
              RunsWithin(i, R)[n] \cup UNION {RunsAfter(i, RunsWithin(i, R)[n], a) : a \in Symbol}
         /\ \A n \in Nat : RunsWithin(i, R)[n] \in SUBSET Runs
<1> DEFINE S == SUBSET Runs
           More(Q) == Q \cup UNION {RunsAfter(i, Q, a) : a \in Symbol}
           step == [x \in Nat \X S |-> More(x[2])]
           Def(h) == [n \in Nat |-> IF n = 0 THEN R ELSE More(h[n - 1])]
           W == RunsWithin(i, R)
<1>1. \A Q \in S : More(Q) \in S
  <2> SUFFICES ASSUME NEW Q \in S, NEW a \in Symbol PROVE RunsAfter(i, Q, a) \in S
    OBVIOUS
  <2>1. Q \in SUBSET Run /\ \A r \in Q : RunOK(r)
    BY DEF Runs
  <2> QED
    BY <2>1, RunsAfterType DEF Runs
<1>2. W = CHOOSE h : h = Def(h)
  BY DEF RunsWithin
<1> HIDE DEF More, W
<1>3. step \in [Nat \X S -> S]
  BY <1>1
<1>4. \A n \in Nat, Q \in S : step[<<n, Q>>] = More(Q)
  OBVIOUS
<1>5. R \in S
  OBVIOUS
<1> HIDE DEF step, S
<1>6. PICK h : IteratesForever(h, S, R, step)
  BY <1>3, <1>5, RecursionForever
<1>7. h \in [Nat -> S] /\ h[0] = R /\ \A n \in Nat : h[n + 1] = More(h[n])
  <2>1. h \in [Nat -> S] /\ h[0] = R /\ \A n \in Nat : h[n + 1] = step[<<n + 1, h[n]>>]
    BY <1>6 DEF IteratesForever
  <2>2. ASSUME NEW n \in Nat
        PROVE  h[n + 1] = More(h[n])
    <3>1. n + 1 \in Nat /\ h[n] \in S
      BY <2>1
    <3> QED
      BY <1>4, <2>1, <3>1
  <2> QED
    BY <2>1, <2>2
<1>8. h = Def(h)
  <2>1. ASSUME NEW n \in Nat
        PROVE  h[n] = Def(h)[n]
    <3>1. CASE n = 0
      BY <1>7, <3>1
    <3>2. CASE n # 0
      <4>1. n - 1 \in Nat /\ (n - 1) + 1 = n
        BY <3>2
      <4>2. h[(n - 1) + 1] = More(h[n - 1])
        BY <1>7, <4>1
      <4> QED
        BY <3>2, <4>1, <4>2
    <3> QED
      BY <3>1, <3>2
  <2> QED
    BY <1>7, <2>1
<1>9. W = Def(W)
  BY <1>2, <1>8
<1>10. W[0] = R /\ \A n \in Nat : W[n + 1] = More(W[n])
  <2>1. \A n \in Nat : Def(W)[n] = IF n = 0 THEN R ELSE More(W[n - 1])
    OBVIOUS
  <2> HIDE DEF Def
  <2>2. \A n \in Nat : W[n] = IF n = 0 THEN R ELSE More(W[n - 1])
    BY <1>9, <2>1
  <2>3. ASSUME NEW n \in Nat
        PROVE  W[n + 1] = More(W[n])
    <3>1. n + 1 \in Nat /\ n + 1 # 0 /\ (n + 1) - 1 = n
      OBVIOUS
    <3> QED
      BY <2>2, <3>1
  <2> QED
    BY <2>2, <2>3
<1>11. \A n \in Nat : W[n] \in S
  <2> DEFINE T == {n \in Nat : W[n] \in S}
  <2>1. 0 \in T
    BY <1>5, <1>10
  <2>2. \A n \in Nat : n \in T => n + 1 \in T
    BY <1>1, <1>10
  <2> HIDE DEF T
  <2>3. Nat \subseteq T
    BY <2>1, <2>2, SetInduction
  <2> QED
    BY <2>3 DEF T
<1> QED
  BY <1>10, <1>11 DEF W, More, S

\* All letters keep the later runs together.
LEMMA LaterKept ==
  ASSUME Input, Lengths = Nat, NEW i \in Child, NEW R \in SUBSET Runs
  PROVE  R \subseteq Later(i, R) /\ Kept(i, Later(i, R))
<1> DEFINE W == RunsWithin(i, R)
           L == Later(i, R)
<1>1. /\ W[0] = R
      /\ \A n \in Nat : W[n + 1] = W[n] \cup UNION {RunsAfter(i, W[n], a) : a \in Symbol}
      /\ \A n \in Nat : W[n] \in SUBSET Runs
  BY RunsWithinSteps
<1>2. L = UNION {W[n] : n \in Nat}
  BY DEF Later
<1> HIDE DEF W, L
<1>3. R \subseteq L /\ L \in SUBSET Runs
  BY <1>1, <1>2
<1>4. ASSUME NEW a \in Symbol, NEW y \in RunsAfter(i, L, a)
      PROVE  y \in L
  <2>1. PICK r \in L : \E e \in ChildEdges(i, r.state, a) : y = RunStep(r, e)
    BY DEF RunsAfter
  <2>2. PICK n \in Nat : r \in W[n]
    BY <1>2
  <2>3. y \in RunsAfter(i, W[n], a)
    BY <2>1, <2>2 DEF RunsAfter
  <2>4. y \in W[n + 1] /\ n + 1 \in Nat
    BY <1>1, <2>3
  <2> QED
    BY <1>2, <2>4
<1> QED
  BY <1>3, <1>4 DEF L, Kept

\* Runs of child i none of which can return what is guessed.
Hopeless(i, g, Q) ==
  \A q \in Q : /\ ~IsLive(i, g, Encoded(g, q))
               /\ ~(q.state \in ChildFinal(i) /\ DischargeOK(g, Encoded(g, q)[2]))

\* Runs that can no longer return the guess cannot after another letter.
LEMMA HopelessAfter ==
  ASSUME ThresholdTypeOK, CutoffsInv, LiveInv, stage = "flatten",
         NEW i \in Child, NEW g \in Guess, NEW Q \in SUBSET Runs, Hopeless(i, g, Q), NEW a
  PROVE  Hopeless(i, g, RunsAfter(i, Q, a))
<1> SUFFICES ASSUME NEW r \in Q, NEW e \in ChildEdges(i, r.state, a),
                    \/ IsLive(i, g, Encoded(g, RunStep(r, e)))
                    \/ /\ RunStep(r, e).state \in ChildFinal(i)
                       /\ DischargeOK(g, Encoded(g, RunStep(r, e))[2])
             PROVE  FALSE
  BY DEF Hopeless, RunsAfter
<1>1. RunStep(r, e).state = e.to
  BY InputType, EncodedStep DEF Runs
<1>2. IsLive(i, g, Encoded(g, r))
  BY <1>1, ReturnLive
<1> QED
  BY <1>2 DEF Hopeless

\* Hence they never return it.
LEMMA HopelessLater ==
  ASSUME ThresholdTypeOK, CutoffsInv, LiveInv, stage = "flatten", Lengths = Nat,
         NEW i \in Child, NEW g \in Guess, NEW R \in SUBSET Runs, Hopeless(i, g, R)
  PROVE  ~Returning(i, Later(i, R), g)
<1> DEFINE W == RunsWithin(i, R)
           T == {n \in Nat : Hopeless(i, g, W[n])}
<1>1. /\ W[0] = R
      /\ \A n \in Nat : W[n + 1] = W[n] \cup UNION {RunsAfter(i, W[n], a) : a \in Symbol}
      /\ \A n \in Nat : W[n] \in SUBSET Runs
  BY InputType, RunsWithinSteps
<1>2. Later(i, R) = UNION {W[n] : n \in Nat}
  BY DEF Later
<1> HIDE DEF W
<1>3. 0 \in T
  BY <1>1
<1>4. ASSUME NEW n \in Nat, n \in T
      PROVE  n + 1 \in T
  <2> DEFINE Q == W[n]
  <2>1. Q \in SUBSET Runs /\ Hopeless(i, g, Q)
    BY <1>1, <1>4
  <2>2. W[n + 1] = Q \cup UNION {RunsAfter(i, Q, a) : a \in Symbol}
    BY <1>1
  <2> HIDE DEF Q
  <2>3. \A a \in Symbol : Hopeless(i, g, RunsAfter(i, Q, a))
    BY <2>1, HopelessAfter
  <2>4. Hopeless(i, g, W[n + 1])
    BY <2>1, <2>2, <2>3 DEF Hopeless
  <2> QED
    BY <2>4
<1> HIDE DEF T
<1>5. Nat \subseteq T
  BY <1>3, <1>4, SetInduction
<1>6. ASSUME Returning(i, Later(i, R), g)
      PROVE  FALSE
  <2>1. PICK r \in Later(i, R) : /\ r.state \in ChildFinal(i)
                                 /\ g = AtLeast => r.value >= threshold
                                 /\ g = Below => r.value < threshold
    BY <1>6 DEF Returning
  <2>2. PICK n \in Nat : r \in W[n]
    BY <1>2
  <2>3. r \in Run /\ RunOK(r) /\ Hopeless(i, g, W[n])
    BY <1>1, <1>5, <2>2 DEF Runs, T
  <2>4. DischargeOK(g, Encoded(g, r)[2])
    BY <2>1, <2>3, InputType, ReturnEncoded
  <2> QED
    BY <2>1, <2>2, <2>3, <2>4 DEF Hopeless
<1> QED
  BY <1>6

\* The obligation of a call is refused just when the call can no longer return
\* what is guessed.
LEMMA RefusedOwing ==
  ASSUME ThresholdTypeOK, CutoffsInv, LiveInv, TablesSound, stage = "flatten", Lengths = Nat,
         NEW i \in Child, NEW g \in Guess, NEW R \in SUBSET Runs, NEW a \in Symbol
  PROVE  Refused(Owing(i, g, R), a) <=> ~Returning(i, Later(i, RunsAfter(i, R, a)), g)
<1> DEFINE Q == RunsAfter(i, R, a)
           x == Owing(i, g, R)
<1>0. Input
  BY InputType
<1>1. R \in SUBSET Run /\ \A r \in R : RunOK(r)
  BY DEF Runs
<1>2. Q \in SUBSET Runs
  BY <1>0, <1>1, RunsAfterType DEF Runs
<1>3. Returning(i, Q, g) => Discharged(x, a)
  BY ReturningDischarged
<1>4. ~Returning(i, Q, g) => ~Discharged(x, a) /\ Stepped(x, a) = Owing(i, g, Q)
  BY <1>1, KeptCall
<1> HIDE DEF Q, x
<1>5. Q \subseteq Later(i, Q) /\ Kept(i, Later(i, Q))
  BY <1>0, <1>2, LaterKept
<1>6. CASE Returning(i, Q, g)
  <2>1. Returning(i, Later(i, Q), g)
    BY <1>5, <1>6 DEF Returning
  <2> QED
    BY <1>3, <1>6, <2>1 DEF Refused, Q, x
<1> DEFINE X == {Encoded(g, q) : q \in Q}
           Y == Alive(i, g, X)
<1>7. Owing(i, g, Q).conf = Best(g, Y)
  BY DEF Owing
<1>8. CASE ~Returning(i, Q, g) /\ Stepped(x, a).conf # {}
  <2>1. PICK q \in Q : IsLive(i, g, Encoded(g, q))
    BY <1>4, <1>7, <1>8 DEF Best, Alive
  <2>2. Returning(i, Later(i, Q), g)
    BY <1>5, <2>1, AliveReturns
  <2> QED
    BY <1>8, <2>2 DEF Refused, Q, x
<1>9. CASE ~Returning(i, Q, g) /\ Stepped(x, a).conf = {}
  <2>1. ASSUME NEW q \in Q, IsLive(i, g, Encoded(g, q))
        PROVE  FALSE
    <3>1. Y \in SUBSET StateProgress /\ Encoded(g, q) \in Y
      <4>1. \A u \in Q : Encoded(g, u) \in StateProgress
        BY <1>0, <1>2, EncodedType DEF Runs
      <4> QED
        BY <2>1, <4>1 DEF Alive
    <3>2. Best(g, Y) = {}
      BY <1>4, <1>7, <1>9
    <3> HIDE DEF X, Y
    <3> QED
      BY <1>0, <3>1, <3>2, BestExists
  <2>2. ASSUME NEW q \in Q, q.state \in ChildFinal(i), DischargeOK(g, Encoded(g, q)[2])
        PROVE  FALSE
    <3>1. q \in Run /\ RunOK(q)
      BY <1>2 DEF Runs
    <3>2. (g = AtLeast => q.value >= threshold) /\ (g = Below => q.value < threshold)
      BY <1>0, <2>2, <3>1, EncodedReturn
    <3> QED
      BY <1>9, <2>2, <3>2 DEF Returning
  <2>3. Hopeless(i, g, Q)
    BY <2>1, <2>2 DEF Hopeless
  <2>4. ~Returning(i, Later(i, Q), g)
    BY <1>2, <2>3, HopelessLater
  <2> QED
    BY <1>4, <1>9, <2>4 DEF Refused, Q, x
<1> QED
  BY <1>6, <1>8, <1>9

\* A letter is refused exactly when no continuation returns the guess.
LEMMA InvRefused == ASSUME Inv, TablesSound, Lengths = Nat PROVE RefusedExactly
<1> USE DEF Inv, Tables
<1> DEFINE i == tracked.child
           g == tracked.guess
           R == tracked.runs
<1> SUFFICES ASSUME tracked.status = "pending", NEW a \in Symbol
             PROVE  Refused(Owing(i, g, R), a) <=> ~Returning(i, Later(i, RunsAfter(i, R, a)), g)
  BY OwedIsOwing DEF RefusedExactly
<1>1. i \in Child /\ g \in Guess /\ R \in SUBSET Runs
  BY DEF RunsInv, ThresholdTypeOK, Tracked, Runs
<1>2. stage = "flatten"
  BY DEF Idle
<1> HIDE DEF i, g, R
<1> QED
  BY <1>1, <1>2, RefusedOwing

\* A letter is refused on account of a pending call exactly when, having read
\* it, none of its runs can return what was guessed any more, whatever follows:
\* the cut-offs and the table of live configurations decide it.
THEOREM RefusedCorrect == Lengths = Nat => (Spec => []RefusedExactly)
<1> SUFFICES ASSUME Lengths = Nat PROVE Spec => []RefusedExactly
  OBVIOUS
<1>1. Inv /\ TablesSound /\ [Next]_vars => Inv' /\ TablesSound'
  BY NextInv, TablesSoundNext
<1>2. Inv /\ TablesSound => RefusedExactly
  BY InvRefused
<1> QED
  BY <1>1, <1>2, InitInv, TablesSoundInit, PTL DEF Spec
=============================================================================
