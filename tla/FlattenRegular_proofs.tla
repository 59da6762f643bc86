----------------------- MODULE FlattenRegular_proofs -----------------------
(***************************************************************************)
(* flatten_regular keeps every call that has not returned, for all nested  *)
(* automata, value functions and bounds: whatever the bags P1 and P2 go    *)
(* through, one of them holds the guess of the call and exactly the runs   *)
(* of its child that can still return it.                                  *)
(*                                                                         *)
(* Two facts about the tables carry the argument.  The accumulated values  *)
(* of configurations mirror those of runs, bounds crossed included, which  *)
(* needs guesses within the bounds (ReachedInv).  And a configuration that *)
(* is not live has no live successor (LiveClosed), so that dropping it     *)
(* before a letter loses nothing after it.                                 *)
(*                                                                         *)
(* The tables hold no more than that either: a live configuration returns  *)
(* its guess on some word (LiveSound), what is guessed for a child is what *)
(* one of its runs returns (ReachedSound).  So a letter is refused only    *)
(* when a guess cannot be met any more (RefusedCorrect), and the values    *)
(* guessed are those that words return (ReturnsCorrect).                   *)
(***************************************************************************)
EXTENDS FlattenRegular, DataInduction

\* Sums and the bounds they crossed stay within the bounds.
ReachedInv ==
  finVal = "SumB" => \A r \in reached : r.v.value \in -bound .. bound /\ r.v.hit \in -bound .. bound

ReturnsInv ==
  finVal = "SumB" => \A i \in Child : returns[i] \subseteq -bound .. bound

\* The tables are complete once the automaton is built.
LiveClosed ==
  stage = "flatten" => \A t \in Target : LiveSeed(t) \/ LiveBefore(t) => t \in live

Idle == stage # "flatten" => P1 = {} /\ P2 = {} /\ tracked.status # "pending"

\* A run whose value and bound crossed belong together.
RunOK(r) == IF finVal = "SumB" THEN r.crossed # 0 \/ r.value \in -bound .. bound
                               ELSE r.crossed = 0 /\ r.value \in Weights \cup {Acc0}

TrackedInv ==
  tracked.status = "pending" =>
    /\ tracked.child \in Child
    /\ tracked.guess \in returns[tracked.child]
    /\ \A r \in tracked.runs : RunOK(r)

Tables == ReachedInv /\ ReturnsInv /\ LiveClosed /\ Idle

Inv == FlattenTypeOK /\ Tables /\ TrackedInv /\ PendingCallKept

\* What does not change and what the constants are.
Input == nested \in NestedAutomaton /\ finVal \in {"Max", "Min", "SumB"} /\ bound \in Nat

\* The type invariant of the run gives that of its input.
LEMMA InputType == FlattenTypeOK => Input
BY NestedAssumption, FlattenAssumption DEF FlattenTypeOK, Input

-----------------------------------------------------------------------------
(***************************************************************************)
(* Values                                                                  *)
(***************************************************************************)

\* A child's edges are edges.
LEMMA ChildEdgeType ==
  ASSUME Input, NEW i \in Child, NEW s, NEW a, NEW e \in ChildEdges(i, s, a)
  PROVE  /\ e \in nested.child[i].edges
         /\ e.from = s /\ e.to \in ChildState /\ e.weight \in Weights /\ e.weight \in Int
         /\ -Infinity < e.weight /\ e.weight < Infinity
<1>1. nested.child[i].edges \subseteq ChildEdge
  BY DEF Input, NestedAutomaton, ChildAutomaton
<1>2. e \in nested.child[i].edges /\ e.from = s
  BY DEF ChildEdges
<1> QED
  BY <1>1, <1>2, NestedAssumption, FlattenAssumption DEF ChildEdge

\* The initial accumulated value is an accumulated value.
LEMMA Acc0Type == Input => Acc0 \in Int /\ Acc0 \in Acc
BY FlattenAssumption DEF Input, Acc0, Acc

\* transitionFunction stays among the accumulated values.
LEMMA AccumulateType ==
  ASSUME Input, NEW acc \in Acc, NEW w \in Weights
  PROVE  Accumulate(acc, w) \in Acc /\ Accumulate(acc, w) \in Int
<1>0. bound \in Nat /\ Acc0 \in Int
  BY Acc0Type DEF Input
<1>1. w \in Int /\ Acc \subseteq Int
  BY <1>0, NestedAssumption DEF Acc
<1>2. CASE finVal = "SumB"
  <2>1. acc \in -bound - 1 .. bound + 1 /\ bound \in Nat
    BY <1>2 DEF Acc, Input
  <2>2. CASE acc \in {bound + 1, -bound - 1}
    BY <1>1, <1>2, <2>1, <2>2 DEF Accumulate, Acc
  <2>3. CASE acc \notin {bound + 1, -bound - 1}
    <3>1. Accumulate(acc, w) = Smaller(Larger(acc + w, -bound - 1), bound + 1)
      BY <1>2, <2>3 DEF Accumulate
    <3> QED
      BY <1>1, <1>2, <2>1, <3>1 DEF Acc, Smaller, Larger
  <2> QED
    BY <2>2, <2>3
<1>3. CASE finVal # "SumB"
  <2>1. Accumulate(acc, w) \in {acc, w}
    BY <1>3 DEF Accumulate, Larger, Smaller, Input
  <2> QED
    BY <1>1, <1>3, <2>1 DEF Acc
<1> QED
  BY <1>2, <1>3

\* A step of a run is a step of the configuration that encodes it.
LEMMA EncodedStep ==
  ASSUME Input, NEW r \in Run, RunOK(r), NEW i \in Child, NEW a, NEW e \in ChildEdges(i, r.state, a)
  PROVE  /\ RunStep(r, e) \in Run
         /\ RunOK(RunStep(r, e))
         /\ RunStep(r, e).state = e.to
         /\ Encoded(r)[2] \in Acc
         /\ Encoded(RunStep(r, e)) = <<e.to, Accumulate(Encoded(r)[2], e.weight)>>
<1> DEFINE w == e.weight
<1>1. w \in Int /\ e.to \in ChildState /\ w \in Weights
  BY ChildEdgeType
<1>2. r.value \in Int /\ r.crossed \in {-1, 0, 1} /\ r = [state |-> r.state, value |-> r.value, crossed |-> r.crossed]
  BY DEF Run
<1>3. CASE finVal # "SumB"
  <2>1. r.crossed = 0 /\ r.value \in Weights \cup {Acc0}
    BY <1>3 DEF RunOK
  <2>2. Encoded(r)[2] = r.value
    BY <2>1 DEF Encoded
  <2>3. CASE finVal = "Max"
    <3>1. RunStep(r, e) = [state |-> e.to, value |-> Larger(r.value, w), crossed |-> 0]
      BY <1>2, <2>1, <2>3 DEF RunStep
    <3>2. Accumulate(r.value, w) = Larger(r.value, w)
      BY <2>3 DEF Accumulate
    <3>3. Larger(r.value, w) \in Int /\ Larger(r.value, w) \in Weights \cup {Acc0}
      BY <1>1, <1>2, <2>1 DEF Larger
    <3> QED
      BY <1>1, <2>1, <2>2, <2>3, <3>1, <3>2, <3>3 DEF Run, RunOK, Encoded, Acc
  <2>4. CASE finVal = "Min"
    <3>1. RunStep(r, e) = [state |-> e.to, value |-> Smaller(r.value, w), crossed |-> 0]
      BY <1>2, <2>1, <2>4 DEF RunStep
    <3>2. Accumulate(r.value, w) = Smaller(r.value, w)
      BY <2>4 DEF Accumulate
    <3>3. Smaller(r.value, w) \in Int /\ Smaller(r.value, w) \in Weights \cup {Acc0}
      BY <1>1, <1>2, <2>1 DEF Smaller
    <3> QED
      BY <1>1, <2>1, <2>2, <2>4, <3>1, <3>2, <3>3 DEF Run, RunOK, Encoded, Acc
  <2> QED
    BY <1>3, <2>3, <2>4 DEF Input
<1>4. CASE finVal = "SumB"
  <2>1. bound \in Nat /\ Acc = -bound - 1 .. bound + 1
    BY <1>4 DEF Input, Acc
  <2>2. CASE r.crossed # 0
    <3>1. RunStep(r, e) = [state |-> e.to, value |-> r.value, crossed |-> r.crossed]
      BY <1>2, <1>4, <2>2 DEF RunStep
    <3>2. Encoded(r)[2] \in {bound + 1, -bound - 1}
      BY <1>2, <2>1, <2>2 DEF Encoded
    <3>3. Accumulate(Encoded(r)[2], w) = Encoded(r)[2]
      BY <1>4, <3>2 DEF Accumulate
    <3>4. Encoded(RunStep(r, e)) = <<e.to, Encoded(r)[2]>>
      <4>1. RunStep(r, e).state = e.to /\ RunStep(r, e).crossed = r.crossed
        BY <3>1
      <4> QED
        BY <2>2, <4>1 DEF Encoded
    <3>5. Encoded(r)[2] \in Acc
      BY <2>1, <3>2
    <3>6. RunStep(r, e) \in Run
      BY <1>1, <1>2, <3>1 DEF Run
    <3> QED
      BY <1>4, <2>2, <3>1, <3>3, <3>4, <3>5, <3>6 DEF RunOK
  <2>3. CASE r.crossed = 0
    <3>1. r.value \in -bound .. bound
      BY <1>4, <2>3 DEF RunOK
    <3>2. Encoded(r)[2] = r.value /\ r.value \in Acc
      BY <2>1, <2>3, <3>1 DEF Encoded
    <3>3. Accumulate(r.value, w) = Smaller(Larger(r.value + w, -bound - 1), bound + 1)
      <4>1. r.value \notin {bound + 1, -bound - 1}
        BY <2>1, <3>1
      <4> QED
        BY <1>4, <4>1 DEF Accumulate
    <3>4. CASE r.value + w > bound
      <4>0. ~(r.value + w < -bound)
        BY <1>1, <1>2, <2>1, <3>4
      <4>1. RunStep(r, e) = [state |-> e.to, value |-> 0, crossed |-> 1]
        BY <1>4, <2>3, <3>4, <4>0 DEF RunStep
      <4>2. Accumulate(r.value, w) = bound + 1
        BY <1>1, <1>2, <2>1, <3>3, <3>4 DEF Smaller, Larger
      <4>3. Encoded(RunStep(r, e)) = <<e.to, bound + 1>>
        BY <2>1, <4>1 DEF Encoded
      <4>4. RunStep(r, e) \in Run
        BY <1>1, <4>1 DEF Run
      <4> QED
        BY <1>4, <3>2, <4>1, <4>2, <4>3, <4>4 DEF RunOK
    <3>5. CASE r.value + w < -bound
      <4>0. ~(r.value + w > bound)
        BY <1>1, <1>2, <2>1, <3>5
      <4>1. RunStep(r, e) = [state |-> e.to, value |-> 0, crossed |-> -1]
        BY <1>4, <2>3, <3>5, <4>0 DEF RunStep
      <4>2. Accumulate(r.value, w) = -bound - 1
        BY <1>1, <1>2, <2>1, <3>3, <3>5 DEF Smaller, Larger
      <4>3. Encoded(RunStep(r, e)) = <<e.to, -bound - 1>>
        BY <2>1, <4>1 DEF Encoded
      <4>4. RunStep(r, e) \in Run
        BY <1>1, <4>1 DEF Run
      <4> QED
        BY <1>4, <3>2, <4>1, <4>2, <4>3, <4>4 DEF RunOK
    <3>6. CASE ~(r.value + w > bound) /\ ~(r.value + w < -bound)
      <4>1. RunStep(r, e) = [state |-> e.to, value |-> r.value + w, crossed |-> 0]
        BY <1>2, <1>4, <2>3, <3>6 DEF RunStep
      <4>2. Accumulate(r.value, w) = r.value + w /\ r.value + w \in -bound .. bound
        BY <1>1, <1>2, <2>1, <3>3, <3>6 DEF Smaller, Larger
      <4>3. Encoded(RunStep(r, e)) = <<e.to, r.value + w>>
        BY <4>1 DEF Encoded
      <4>4. RunStep(r, e) \in Run
        BY <1>1, <4>1, <4>2, <2>1 DEF Run
      <4> QED
        BY <1>4, <3>2, <4>1, <4>2, <4>3, <4>4 DEF RunOK
    <3> QED
      BY <3>4, <3>5, <3>6
  <2> QED
    BY <2>2, <2>3
<1> QED
  BY <1>3, <1>4

\* discharge_ok_finite decides what a run returns.
LEMMA EncodedResult ==
  ASSUME Input, NEW r \in Run, RunOK(r), NEW g \in Int, finVal = "SumB" => g \in -bound .. bound
  PROVE  DischargeOK(Encoded(r)[2], g) <=> Result(r) = g
<1>1. r.value \in Int /\ r.crossed \in {-1, 0, 1} /\ bound \in Nat
  BY DEF Run, Input
<1>2. CASE r.crossed = 0
  <2>1. Encoded(r)[2] = r.value /\ Result(r) = r.value
    BY <1>2 DEF Encoded, Result
  <2>2. finVal = "SumB" => r.value \in -bound .. bound
    BY <1>2 DEF RunOK
  <2> QED
    BY <1>1, <2>1, <2>2 DEF DischargeOK
<1>3. CASE r.crossed = 1
  <2>1. Encoded(r)[2] = bound + 1 /\ Result(r) = bound /\ finVal = "SumB"
    BY <1>1, <1>3 DEF Encoded, Result, RunOK
  <2> QED
    BY <1>1, <2>1 DEF DischargeOK
<1>4. CASE r.crossed = -1
  <2>1. Encoded(r)[2] = -bound - 1 /\ Result(r) = -bound /\ finVal = "SumB"
    BY <1>1, <1>4 DEF Encoded, Result, RunOK
  <2> QED
    BY <1>1, <2>1 DEF DischargeOK
<1> QED
  BY <1>1, <1>2, <1>3, <1>4

\* Guesses are within the bounds.
LEMMA GuessType ==
  ASSUME FlattenTypeOK, ReturnsInv, NEW i \in Child, NEW g \in returns[i]
  PROVE  g \in Int /\ (finVal = "SumB" => g \in -bound .. bound)
BY DEF FlattenTypeOK, ReturnsInv

\* The runs that read a letter are runs.
LEMMA RunsAfterType ==
  ASSUME Input, NEW i \in Child, NEW R \in SUBSET Run, \A r \in R : RunOK(r), NEW a
  PROVE  RunsAfter(i, R, a) \in SUBSET Run /\ \A r \in RunsAfter(i, R, a) : RunOK(r)
<1> SUFFICES ASSUME NEW r \in R, NEW e \in ChildEdges(i, r.state, a)
             PROVE  RunStep(r, e) \in Run /\ RunOK(RunStep(r, e))
  BY DEF RunsAfter
<1> QED
  BY EncodedStep

\* A run starts at the initial state of its child.
LEMMA StartRun ==
  ASSUME Input
  PROVE  Start \in Run /\ RunOK(Start) /\ Start.state = InitialChild
         /\ Encoded(Start)[2] = Acc0
<1>1. Acc0 \in Int /\ InitialChild \in ChildState
  BY Acc0Type, NestedAssumption
<1>2. Start \in Run /\ Start.state = InitialChild /\ Encoded(Start)[2] = Acc0
  BY <1>1 DEF Start, Run, Encoded
<1>3. Start.value = Acc0 /\ Start.crossed = 0
  BY DEF Start
<1>4. CASE finVal = "SumB"
  <2>1. Acc0 = 0 /\ bound \in Nat
    BY <1>4 DEF Acc0, Input
  <2>2. Acc0 \in -bound .. bound
    BY <2>1
  <2> QED
    BY <1>2, <1>3, <1>4, <2>2 DEF RunOK
<1>5. CASE finVal # "SumB"
  BY <1>2, <1>3, <1>5 DEF RunOK
<1> QED
  BY <1>4, <1>5

-----------------------------------------------------------------------------
(***************************************************************************)
(* Obligations                                                             *)
(***************************************************************************)

\* The entry of a bag that stands for the runs R of a child.
StandsFor(x, i, g, R) ==
  x.child = i /\ x.guess = g /\ x.conf = {c \in {Encoded(r) : r \in R} : IsLive(i, g, c)}

\* A configuration with a live successor, or with an edge that ends the run
\* with the guessed value, is live.
LEMMA LiveBackward ==
  ASSUME FlattenTypeOK, LiveClosed, stage = "flatten",
         NEW i \in Child, NEW g \in returns[i], NEW s \in ChildState, NEW acc \in Acc, NEW a,
         NEW e \in ChildEdges(i, s, a),
         \/ IsLive(i, g, <<e.to, Accumulate(acc, e.weight)>>)
         \/ e.to \in ChildFinal(i) /\ DischargeOK(Accumulate(acc, e.weight), g)
  PROVE  IsLive(i, g, <<s, acc>>)
<1> DEFINE t == [child |-> i, guess |-> g, state |-> s, acc |-> acc]
<1>1. t \in Target
  BY DEF Target
<1>2. e \in nested.child[i].edges /\ e.from = s
  BY DEF ChildEdges
<1>3. CASE IsLive(i, g, <<e.to, Accumulate(acc, e.weight)>>)
  <2>1. t.child = i /\ t.guess = g /\ t.state = s /\ t.acc = acc
    OBVIOUS
  <2>2. LiveBefore(t)
    BY <1>2, <1>3, <2>1 DEF LiveBefore
  <2> QED
    BY <1>1, <2>2 DEF LiveClosed, IsLive
<1>4. CASE e.to \in ChildFinal(i) /\ DischargeOK(Accumulate(acc, e.weight), g)
  <2>1. e \in Ending(i, g, s, acc, nested.child[i].edges)
    BY <1>2, <1>4 DEF Ending
  <2>2. LiveSeed(t)
    BY <2>1 DEF LiveSeed
  <2> QED
    BY <1>1, <2>2 DEF LiveClosed, IsLive
<1> QED
  BY <1>3, <1>4

\* A letter takes an entry to one for the runs that read the letter, unless
\* one of them returns the guessed value.
LEMMA KeptCall ==
  ASSUME FlattenTypeOK, ReturnsInv, LiveClosed, stage = "flatten",
         NEW i \in Child, NEW g \in returns[i], NEW R \in SUBSET Run, \A r \in R : RunOK(r),
         NEW x, x = [child |-> i, guess |-> g, conf |-> x.conf], StandsFor(x, i, g, R),
         NEW a, ~Returning(i, RunsAfter(i, R, a), g)
  PROVE  ~Discharged(x, a) /\ StandsFor(Stepped(x, a), i, g, RunsAfter(i, R, a))
<1>0. Input /\ g \in Int /\ (finVal = "SumB" => g \in -bound .. bound)
  BY InputType, GuessType
<1>1. ASSUME NEW r \in R, NEW e \in ChildEdges(i, r.state, a)
      PROVE  /\ RunStep(r, e) \in RunsAfter(i, R, a)
             /\ Encoded(RunStep(r, e)) = <<e.to, Accumulate(Encoded(r)[2], e.weight)>>
             /\ Encoded(r) = <<r.state, Encoded(r)[2]>> /\ r.state \in ChildState
             /\ Encoded(r)[2] \in Acc
             /\ RunStep(r, e) \in Run /\ RunOK(RunStep(r, e)) /\ RunStep(r, e).state = e.to
  <2>1. RunStep(r, e) \in RunsAfter(i, R, a)
    BY DEF RunsAfter
  <2>2. Encoded(r) = <<r.state, Encoded(r)[2]>>
    BY DEF Encoded
  <2>3. r.state \in ChildState
    BY DEF Run
  <2> QED
    BY <1>0, <2>1, <2>2, <2>3, EncodedStep
<1>2. ~Discharged(x, a)
  <2> SUFFICES ASSUME Discharged(x, a) PROVE FALSE
    OBVIOUS
  <2>1. PICK c \in x.conf : Ending(x.child, x.guess, c[1], c[2], ChildEdges(x.child, c[1], a)) # {}
    BY DEF Discharged
  <2>2. PICK r \in R : c = Encoded(r)
    BY DEF StandsFor
  <2>3. c[1] = r.state
    BY <2>2 DEF Encoded
  <2>4. PICK e \in ChildEdges(i, r.state, a) :
           e.to \in ChildFinal(i) /\ DischargeOK(Accumulate(Encoded(r)[2], e.weight), g)
    BY <2>1, <2>2, <2>3 DEF Ending, StandsFor
  <2>5. Encoded(RunStep(r, e))[2] = Accumulate(Encoded(r)[2], e.weight)
    BY <1>1
  <2>6. Result(RunStep(r, e)) = g
    BY <1>0, <1>1, <2>4, <2>5, EncodedResult
  <2> QED
    BY <1>1, <2>4, <2>6 DEF Returning
<1>3. Stepped(x, a) = [child |-> i, guess |-> g, conf |-> StepConf(i, g, x.conf, a)]
  BY DEF Stepped, StandsFor
<1>4. ASSUME NEW c \in StepConf(i, g, x.conf, a)
      PROVE  c \in {Encoded(r) : r \in RunsAfter(i, R, a)} /\ IsLive(i, g, c)
  <2>1. PICK d \in x.conf : c \in {<<e.to, Accumulate(d[2], e.weight)>> : e \in ChildEdges(i, d[1], a)}
    BY DEF StepConf
  <2>2. PICK r \in R : d = Encoded(r)
    BY DEF StandsFor
  <2>3. d[1] = r.state
    BY <2>2 DEF Encoded
  <2>4. PICK e \in ChildEdges(i, r.state, a) : c = <<e.to, Accumulate(Encoded(r)[2], e.weight)>>
    BY <2>1, <2>2, <2>3
  <2>5. c = Encoded(RunStep(r, e))
    BY <1>1, <2>4
  <2> QED
    BY <1>1, <2>5 DEF StepConf
<1>5. ASSUME NEW q \in RunsAfter(i, R, a), IsLive(i, g, Encoded(q))
      PROVE  Encoded(q) \in StepConf(i, g, x.conf, a)
  <2>1. PICK r \in R : q \in {RunStep(r, e) : e \in ChildEdges(i, r.state, a)}
    BY DEF RunsAfter
  <2>2. PICK e \in ChildEdges(i, r.state, a) : q = RunStep(r, e)
    BY <2>1
  <2>3. Encoded(q) = <<e.to, Accumulate(Encoded(r)[2], e.weight)>>
    BY <1>1, <2>2
  <2>4. IsLive(i, g, <<r.state, Encoded(r)[2]>>)
    <3> DEFINE acc == Encoded(r)[2]
    <3>1. acc \in Acc /\ r.state \in ChildState
      BY <1>1
    <3>2. IsLive(i, g, <<e.to, Accumulate(acc, e.weight)>>)
      BY <1>5, <2>3
    <3> HIDE DEF acc
    <3>3. IsLive(i, g, <<r.state, acc>>)
      BY <3>1, <3>2, LiveBackward
    <3> QED
      BY <3>3 DEF acc
  <2>5. Encoded(r) \in {d \in x.conf : IsLive(i, g, d)}
    BY <1>1, <2>4 DEF StandsFor
  <2>6. Encoded(r)[1] = r.state
    BY DEF Encoded
  <2> QED
    BY <1>5, <2>3, <2>5, <2>6 DEF StepConf
<1>6. StepConf(i, g, x.conf, a) = {c \in {Encoded(r) : r \in RunsAfter(i, R, a)} : IsLive(i, g, c)}
  BY <1>4, <1>5
<1> QED
  BY <1>2, <1>3, <1>6 DEF StandsFor

\* A call puts an entry for its runs into the bag, unless one of them returns
\* the guessed value at once.
LEMMA SpawnedCall ==
  ASSUME FlattenTypeOK, ReturnsInv,
         NEW i \in Child, NEW g \in returns[i], NEW a,
         ~Returning(i, RunsAfter(i, {Start}, a), g)
  PROVE  \E x \in Spawned(i, g, a) : StandsFor(x, i, g, RunsAfter(i, {Start}, a))
<1>0. Input /\ g \in Int /\ (finVal = "SumB" => g \in -bound .. bound)
  BY InputType, GuessType
<1>1. ASSUME NEW e \in ChildEdges(i, InitialChild, a)
      PROVE  /\ RunStep(Start, e) \in Run /\ RunOK(RunStep(Start, e))
             /\ RunStep(Start, e).state = e.to
             /\ Encoded(RunStep(Start, e)) = <<e.to, Accumulate(Acc0, e.weight)>>
  <2>1. Start \in Run /\ RunOK(Start) /\ Start.state = InitialChild /\ Encoded(Start)[2] = Acc0
    BY <1>0, StartRun
  <2>2. e \in ChildEdges(i, Start.state, a)
    BY <2>1
  <2> QED
    BY <1>0, <2>1, <2>2, EncodedStep
<1>2. RunsAfter(i, {Start}, a) = {RunStep(Start, e) : e \in ChildEdges(i, InitialChild, a)}
  BY <1>0, StartRun DEF RunsAfter
<1>3. ~SpawnEmpty(i, g, a)
  <2> SUFFICES ASSUME SpawnEmpty(i, g, a) PROVE FALSE
    OBVIOUS
  <2>1. PICK e \in ChildEdges(i, InitialChild, a) :
           e.to \in ChildFinal(i) /\ DischargeOK(Accumulate(Acc0, e.weight), g)
    BY DEF SpawnEmpty, Ending
  <2>2. Encoded(RunStep(Start, e))[2] = Accumulate(Acc0, e.weight)
    BY <1>1
  <2>3. Result(RunStep(Start, e)) = g
    BY <1>0, <1>1, <2>1, <2>2, EncodedResult
  <2> QED
    BY <1>1, <1>2, <2>1, <2>3 DEF Returning
<1>4. {<<e.to, Accumulate(Acc0, e.weight)>> : e \in ChildEdges(i, InitialChild, a)}
        = {Encoded(r) : r \in RunsAfter(i, {Start}, a)}
  BY <1>1, <1>2
<1> DEFINE x == [child |-> i, guess |-> g, conf |-> SpawnConf(i, g, a)]
<1>5. x \in Spawned(i, g, a)
  BY <1>3 DEF Spawned
<1>6. StandsFor(x, i, g, RunsAfter(i, {Start}, a))
  BY <1>4 DEF StandsFor, SpawnConf
<1> QED
  BY <1>5, <1>6

-----------------------------------------------------------------------------
(***************************************************************************)
(* The tables                                                              *)
(***************************************************************************)

ReachedType == [child : Child, parent : ParentState, state : ChildState, v : [value : Int, hit : Int]]

\* What the operators below read is not written once it is chosen.
LEMMA SameInput ==
  ASSUME UNCHANGED input
  PROVE  /\ nested' = nested /\ finVal' = finVal /\ bound' = bound
         /\ Acc0' = Acc0 /\ Acc' = Acc
BY DEF input, Acc0, Acc

\* Values stay integers, and sums and bounds crossed within the bounds.
LEMMA ReturnStepType ==
  ASSUME Input, NEW v \in [value : Int, hit : Int], NEW w \in Weights,
         finVal = "SumB" => v.value \in -bound .. bound /\ v.hit \in -bound .. bound
  PROVE  /\ ReturnStep(v, w) \in [value : Int, hit : Int]
         /\ finVal = "SumB" => /\ ReturnStep(v, w).value \in -bound .. bound
                               /\ ReturnStep(v, w).hit \in -bound .. bound
<1>1. w \in Int /\ bound \in Nat /\ v.value \in Int /\ v.hit \in Int
  BY NestedAssumption DEF Input
<1>2. v = [value |-> v.value, hit |-> v.hit]
  OBVIOUS
<1>3. CASE finVal = "Max"
  <2>1. ReturnStep(v, w) = [value |-> Larger(v.value, w), hit |-> v.hit]
    BY <1>2, <1>3 DEF ReturnStep
  <2> QED
    BY <1>1, <1>3, <2>1 DEF Larger
<1>4. CASE finVal = "Min"
  <2>1. ReturnStep(v, w) = [value |-> Smaller(v.value, w), hit |-> v.hit]
    BY <1>2, <1>4 DEF ReturnStep
  <2> QED
    BY <1>1, <1>4, <2>1 DEF Smaller
<1>5. CASE finVal = "SumB"
  <2> DEFINE raw == v.value + w
  <2>1. CASE v.hit # 0
    <3>1. ReturnStep(v, w) = [value |-> ApplyBound(raw), hit |-> v.hit]
      BY <1>2, <1>5, <2>1 DEF ReturnStep
    <3>2. ApplyBound(raw) \in -bound .. bound
      BY <1>1 DEF ApplyBound, Larger, Smaller
    <3> QED
      BY <1>1, <1>5, <3>1, <3>2
  <2>2. CASE v.hit = 0 /\ raw > bound
    <3>1. ~(raw < -bound)
      BY <1>1, <2>2
    <3>2. ReturnStep(v, w) = [value |-> bound, hit |-> bound]
      BY <1>5, <2>2, <3>1 DEF ReturnStep
    <3> QED
      BY <1>1, <3>2
  <2>3. CASE v.hit = 0 /\ raw < -bound
    <3>1. ~(raw > bound)
      BY <1>1, <2>3
    <3>2. ReturnStep(v, w) = [value |-> -bound, hit |-> -bound]
      BY <1>5, <2>3, <3>1 DEF ReturnStep
    <3> QED
      BY <1>1, <3>2
  <2>4. CASE v.hit = 0 /\ ~(raw > bound) /\ ~(raw < -bound)
    <3>1. ReturnStep(v, w) = [value |-> raw, hit |-> v.hit]
      BY <1>2, <1>5, <2>4 DEF ReturnStep
    <3> QED
      BY <1>1, <1>5, <2>4, <3>1
  <2> QED
    BY <2>1, <2>2, <2>3, <2>4
<1> QED
  BY <1>3, <1>4, <1>5 DEF Input

\* Where the search for return values starts and goes on.
LEMMA SeedsType ==
  ASSUME Input
  PROVE  /\ Seeds \subseteq ReachedType
         /\ finVal = "SumB" => \A r \in Seeds : r.v.value \in -bound .. bound /\ r.v.hit \in -bound .. bound
<1> DEFINE v == [value |-> Acc0, hit |-> 0]
<1> SUFFICES ASSUME NEW e \in nested.edges, e.call \in Child,
                    NEW c \in ChildEdges(e.call, InitialChild, e.symbol)
             PROVE  LET r == [child |-> e.call, parent |-> e.to, state |-> c.to,
                              v |-> ReturnStep(v, c.weight)]
                    IN  /\ r \in ReachedType
                        /\ finVal = "SumB" => r.v.value \in -bound .. bound /\ r.v.hit \in -bound .. bound
  BY DEF Seeds
<1>1. v \in [value : Int, hit : Int]
  BY Acc0Type
<1>2. finVal = "SumB" => v.value \in -bound .. bound /\ v.hit \in -bound .. bound
  <2> SUFFICES ASSUME finVal = "SumB" PROVE v.value = 0 /\ v.hit = 0 /\ 0 \in -bound .. bound
    OBVIOUS
  <2>1. Acc0 = 0 /\ bound \in Nat
    BY DEF Acc0, Input
  <2> QED
    BY <2>1
<1>3. c.to \in ChildState /\ c.weight \in Weights
  BY ChildEdgeType
<1>4. e.to \in ParentState
  BY DEF Input, NestedAutomaton, ParentEdge
<1> HIDE DEF v
<1> QED
  BY <1>1, <1>2, <1>3, <1>4, ReturnStepType DEF ReachedType

\* The search for return values stays among its configurations.
LEMMA OnwardsType ==
  ASSUME Input, NEW r \in ReachedType,
         finVal = "SumB" => r.v.value \in -bound .. bound /\ r.v.hit \in -bound .. bound
  PROVE  /\ Onwards(r) \subseteq ReachedType
         /\ finVal = "SumB" => \A x \in Onwards(r) : x.v.value \in -bound .. bound /\ x.v.hit \in -bound .. bound
<1>0. r.child \in Child /\ r.v \in [value : Int, hit : Int]
  BY DEF ReachedType
<1> SUFFICES ASSUME NEW a \in Symbol, NEW e \in ParentEdges(r.parent, a),
                    NEW c \in ChildEdges(r.child, r.state, a)
             PROVE  LET x == [child |-> r.child, parent |-> e.to, state |-> c.to,
                              v |-> ReturnStep(r.v, c.weight)]
                    IN  /\ x \in ReachedType
                        /\ finVal = "SumB" => x.v.value \in -bound .. bound /\ x.v.hit \in -bound .. bound
  BY DEF Onwards
<1>1. c.to \in ChildState /\ c.weight \in Weights
  BY <1>0, ChildEdgeType
<1>2. e.to \in ParentState
  BY DEF Input, NestedAutomaton, ParentEdge, ParentEdges
<1> QED
  BY <1>0, <1>1, <1>2, ReturnStepType DEF ReachedType

\* The invariant holds at the start.
LEMMA InitInv == Init => Inv
<1> SUFFICES ASSUME Init PROVE Inv
  OBVIOUS
<1>1. bound \in Nat
  BY FlattenAssumption DEF Init
<1>2. tracked \in Tracked
  BY DEF Init, Untracked, Tracked
<1>3. FlattenTypeOK
  <2>1. returns \in [Child -> SUBSET Int]
    BY DEF Init
  <2>2. /\ reached = {} /\ live = {} /\ P1 = {} /\ P2 = {}
        /\ stage = "returns" /\ phase \in Phase /\ epochSeen = FALSE /\ P1Seen = FALSE /\ beat = FALSE
        /\ parent \in ParentState /\ lastGuess = 0 /\ nested \in Nested /\ finVal \in FinVals
    BY NestedAssumption DEF Init, Phase
  <2>3. \A S : reached \subseteq S /\ live \subseteq S /\ P1 \subseteq S /\ P2 \subseteq S
    BY <2>2
  <2>4. lastGuess \in Int
    BY <2>2, SMT
  <2>5. epochSeen \in BOOLEAN /\ P1Seen \in BOOLEAN /\ beat \in BOOLEAN
        /\ stage \in {"returns", "live", "flatten"}
    BY <2>2, Zenon
  <2> QED
    BY <1>1, <1>2, <2>1, <2>2, <2>3, <2>4, <2>5, Zenon DEF FlattenTypeOK
<1>4. Tables
  BY DEF Init, Tables, ReachedInv, ReturnsInv, LiveClosed, Idle, Untracked
<1>5. TrackedInv /\ PendingCallKept
  BY DEF Init, TrackedInv, PendingCallKept, Untracked
<1> QED
  BY <1>3, <1>4, <1>5 DEF Inv

\* A round of the search for return values keeps the invariant.
LEMMA GrowReturnsInv ==
  ASSUME Inv, GrowReturns
  PROVE  Inv'
<1> USE DEF Inv, Tables
<1> DEFINE grown == reached \cup Seeds \cup UNION {Onwards(r) : r \in reached}
<1>0. Input
  BY InputType
<1>1. /\ reached' = grown /\ stage' \in {"returns", "live"} /\ stage = "returns"
      /\ UNCHANGED <<input, live, buchi, tracked, beat>>
      /\ returns' = [i \in Child |->
              {ReturnValue(r.v) : r \in {x \in grown : x.child = i /\ x.state \in ChildFinal(i)}}]
  BY DEF GrowReturns
<1>2. /\ nested' = nested /\ finVal' = finVal /\ bound' = bound /\ live' = live /\ tracked' = tracked
      /\ Acc' = Acc /\ P1' = P1 /\ P2' = P2 /\ parent' = parent /\ lastGuess' = lastGuess
      /\ phase' = phase /\ epochSeen' = epochSeen /\ P1Seen' = P1Seen /\ beat' = beat
  BY <1>1, SameInput DEF buchi, input
<1>3. /\ grown \subseteq ReachedType
      /\ finVal = "SumB" => \A r \in grown : r.v.value \in -bound .. bound /\ r.v.hit \in -bound .. bound
  <2>1. reached \subseteq ReachedType
    BY DEF FlattenTypeOK, ReachedType
  <2> QED
    BY <1>0, <2>1, SeedsType, OnwardsType DEF ReachedInv
<1>4. /\ returns' \in [Child -> SUBSET Int]
      /\ finVal = "SumB" => \A i \in Child : returns'[i] \subseteq -bound .. bound
  <2>1. ASSUME NEW r \in grown
        PROVE  ReturnValue(r.v) \in Int /\ (finVal = "SumB" => ReturnValue(r.v) \in -bound .. bound)
    BY <1>3 DEF ReturnValue, ReachedType
  <2> HIDE DEF grown
  <2> QED
    BY <1>1, <2>1
<1>5. ReachedInv' /\ ReturnsInv'
  BY <1>1, <1>2, <1>3, <1>4 DEF ReachedInv, ReturnsInv
<1>6. LiveClosed' /\ Idle'
  BY <1>1, <1>2 DEF LiveClosed, Idle
<1>7. TrackedInv' /\ PendingCallKept'
  BY <1>1, <1>2 DEF TrackedInv, PendingCallKept, Idle
<1>8. FlattenTypeOK'
  BY <1>1, <1>2, <1>3, <1>4 DEF FlattenTypeOK, ReachedType, Obligation, Config
<1> QED
  BY <1>5, <1>6, <1>7, <1>8

\* A round of the search for live configurations keeps the invariant.
LEMMA GrowLiveInv ==
  ASSUME Inv, GrowLive
  PROVE  Inv'
<1> USE DEF Inv, Tables
<1> DEFINE grown == {t \in Target : LiveSeed(t) \/ LiveBefore(t)}
<1>1. /\ stage = "live" /\ live' = live \cup grown
      /\ stage' = IF grown \subseteq live THEN "flatten" ELSE "live"
      /\ UNCHANGED <<input, reached, returns, buchi, tracked, beat>>
  BY DEF GrowLive
<1>2. /\ nested' = nested /\ finVal' = finVal /\ bound' = bound /\ reached' = reached
      /\ returns' = returns /\ tracked' = tracked
      /\ Acc' = Acc /\ P1' = P1 /\ P2' = P2 /\ parent' = parent /\ lastGuess' = lastGuess
      /\ phase' = phase /\ epochSeen' = epochSeen /\ P1Seen' = P1Seen /\ beat' = beat
  BY <1>1, SameInput DEF buchi, input
<1>3. Target' = Target
  BY <1>2 DEF Target
<1>4. live' \subseteq [child : Child, guess : Int, state : ChildState, acc : Acc]
  <2>1. UNION {returns[i] : i \in Child} \subseteq Int
    BY DEF FlattenTypeOK
  <2>2. Target \subseteq [child : Child, guess : Int, state : ChildState, acc : Acc]
    BY <2>1 DEF Target
  <2>3. grown \subseteq Target
    OBVIOUS
  <2> HIDE DEF grown
  <2> QED
    BY <1>1, <2>2, <2>3 DEF FlattenTypeOK
<1>5. LiveClosed'
  <2> SUFFICES ASSUME stage' = "flatten", NEW t \in Target, (LiveSeed(t) \/ LiveBefore(t))'
               PROVE  t \in live'
    BY <1>3 DEF LiveClosed
  <2>1. grown \subseteq live
    BY <1>1
  <2>2. live' = live
    BY <1>1, <2>1
  <2>0. \A acc, w : Accumulate(acc, w)' = Accumulate(acc, w)
    BY <1>2 DEF Accumulate
  <2>3. LiveSeed(t)' <=> LiveSeed(t)
    BY <1>2, <2>0 DEF LiveSeed, Ending, ChildFinal, DischargeOK
  <2>4. LiveBefore(t)' <=> LiveBefore(t)
    BY <1>2, <2>0, <2>2 DEF LiveBefore, IsLive
  <2> QED
    BY <2>1, <2>2, <2>3, <2>4
<1>6. ReachedInv' /\ ReturnsInv'
  BY <1>2 DEF ReachedInv, ReturnsInv
<1>7. Idle' /\ TrackedInv' /\ PendingCallKept'
  BY <1>1, <1>2 DEF Idle, TrackedInv, PendingCallKept
<1>8. FlattenTypeOK'
  BY <1>1, <1>2, <1>4 DEF FlattenTypeOK, Obligation, Config
<1> QED
  BY <1>5, <1>6, <1>7, <1>8

-----------------------------------------------------------------------------
(***************************************************************************)
(* Letters                                                                 *)
(***************************************************************************)

\* Live configurations are configurations.
LEMMA LiveConfig ==
  ASSUME FlattenTypeOK, NEW i, NEW g, NEW s, NEW acc, IsLive(i, g, <<s, acc>>)
  PROVE  <<s, acc>> \in Config
<1>1. [child |-> i, guess |-> g, state |-> s, acc |-> acc]
        \in [child : Child, guess : Int, state : ChildState, acc : Acc]
  BY DEF IsLive, FlattenTypeOK
<1>2. s \in ChildState /\ acc \in Acc
  BY <1>1
<1> QED
  BY <1>2 DEF Config

\* Stepped obligations are obligations.
LEMMA StepBagType ==
  ASSUME FlattenTypeOK, NEW bag \in SUBSET Obligation, NEW a
  PROVE  StepBag(bag, a) \subseteq Obligation
<1> SUFFICES ASSUME NEW x \in bag PROVE Stepped(x, a) \in Obligation
  BY DEF StepBag
<1>1. x.child \in Child /\ x.guess \in Int
      /\ Stepped(x, a) = [child |-> x.child, guess |-> x.guess,
                          conf |-> StepConf(x.child, x.guess, x.conf, a)]
  BY DEF Obligation, Stepped
<1>2. ASSUME NEW c \in StepConf(x.child, x.guess, x.conf, a) PROVE c \in Config
  <2>1. PICK d \in x.conf : \E e \in ChildEdges(x.child, d[1], a) :
           c = <<e.to, Accumulate(d[2], e.weight)>> /\ IsLive(x.child, x.guess, c)
    BY DEF StepConf
  <2> QED
    BY <2>1, LiveConfig
<1> QED
  BY <1>1, <1>2 DEF Obligation

\* So are spawned ones.
LEMMA SpawnedType ==
  ASSUME FlattenTypeOK, NEW i \in Child, NEW g \in Int, NEW a
  PROVE  Spawned(i, g, a) \subseteq Obligation
<1>1. ASSUME NEW c \in SpawnConf(i, g, a) PROVE c \in Config
  <2>1. PICK e \in ChildEdges(i, InitialChild, a) :
           c = <<e.to, Accumulate(Acc0, e.weight)>> /\ IsLive(i, g, c)
    BY DEF SpawnConf
  <2> QED
    BY <2>1, LiveConfig
<1> QED
  BY <1>1 DEF Spawned, Obligation

\* The bags after a letter, and the entry of a call that is still pending.
LEMMA ReadBagsKeep ==
  ASSUME Inv, stage = "flatten", NEW a \in Symbol, NEW spawned \in SUBSET Obligation, ReadBags(a, spawned)
  PROVE  /\ P1' \in SUBSET Obligation /\ P2' \in SUBSET Obligation /\ spawned \subseteq P1'
         /\ /\ tracked.status = "pending"
            /\ ~Returning(tracked.child, RunsAfter(tracked.child, tracked.runs, a), tracked.guess)
            => \E x \in P1' \cup P2' :
                 StandsFor(x, tracked.child, tracked.guess, RunsAfter(tracked.child, tracked.runs, a))
<1> USE DEF Inv, Tables
<1>1. P1' \in SUBSET Obligation /\ P2' \in SUBSET Obligation /\ spawned \subseteq P1'
  <2>1. P1 \in SUBSET Obligation /\ P2 \in SUBSET Obligation
    BY DEF FlattenTypeOK
  <2>2. StepBag(P1, a) \subseteq Obligation /\ StepBag(P2, a) \subseteq Obligation
    BY <2>1, StepBagType
  <2>3. /\ P1' = IF P2 = {} THEN spawned ELSE StepBag(P1, a) \cup spawned
        /\ P2' = IF P2 = {} THEN StepBag(P1, a) ELSE StepBag(P2, a)
    BY DEF ReadBags
  <2> QED
    BY <2>2, <2>3
<1>2. ASSUME tracked.status = "pending",
             ~Returning(tracked.child, RunsAfter(tracked.child, tracked.runs, a), tracked.guess)
      PROVE  \E x \in P1' \cup P2' :
               StandsFor(x, tracked.child, tracked.guess, RunsAfter(tracked.child, tracked.runs, a))
  <2> DEFINE i == tracked.child
             g == tracked.guess
             R == tracked.runs
  <2>1. PICK x \in P1 \cup P2 : StandsFor(x, i, g, R)
    BY <1>2 DEF PendingCallKept, StandsFor
  <2>2. x = [child |-> i, guess |-> g, conf |-> x.conf]
    <3>1. x \in Obligation
      BY DEF FlattenTypeOK
    <3>2. x = [child |-> x.child, guess |-> x.guess, conf |-> x.conf]
      BY <3>1 DEF Obligation
    <3> QED
      BY <2>1, <3>2 DEF StandsFor
  <2>3. i \in Child /\ g \in returns[i] /\ \A r \in R : RunOK(r)
    BY <1>2 DEF TrackedInv
  <2>4. R \in SUBSET Run
    BY DEF FlattenTypeOK, Tracked
  <2>5. ~Discharged(x, a) /\ StandsFor(Stepped(x, a), i, g, RunsAfter(i, R, a))
    <3>1. ~Returning(i, RunsAfter(i, R, a), g)
      BY <1>2
    <3>2. FlattenTypeOK /\ ReturnsInv /\ LiveClosed
      OBVIOUS
    <3> HIDE DEF i, g, R, Inv, Tables
    <3> QED
      BY <2>1, <2>2, <2>3, <2>4, <3>1, <3>2, KeptCall
  <2>6. Stepped(x, a) \in StepBag(P1, a) \cup StepBag(P2, a)
    BY <2>5 DEF StepBag
  <2>7. P2 = {} => StepBag(P2, a) = {}
    BY DEF StepBag
  <2>8. StepBag(P1, a) \cup StepBag(P2, a) \subseteq P1' \cup P2'
    BY <2>7 DEF ReadBags
  <2> QED
    BY <2>5, <2>6, <2>8
<1> QED
  BY <1>1, <1>2

\* Tracking the runs R of a call of child i.
LEMMA TrackType ==
  ASSUME NEW i \in Child, NEW g \in Int, NEW R \in SUBSET Run
  PROVE  /\ Track(i, g, R) \in Tracked
         /\ Track(i, g, R).child = i /\ Track(i, g, R).guess = g /\ Track(i, g, R).runs = R
         /\ Track(i, g, R).status = "pending" <=> ~Returning(i, R, g)
<1>1. CASE Returning(i, R, g)
  BY <1>1 DEF Track, Tracked
<1>2. CASE ~Returning(i, R, g)
  BY <1>2 DEF Track, Tracked
<1> QED
  BY <1>1, <1>2

\* A letter preserves the invariant when the call tracked after it, if it is
\* pending, is still in a bag.
LEMMA LetterInv ==
  ASSUME Inv, UNCHANGED <<input, stage, tables>>, stage = "flatten",
         P1' \in SUBSET Obligation, P2' \in SUBSET Obligation,
         parent' \in ParentState, lastGuess' \in Int, phase' \in Phase,
         epochSeen' \in BOOLEAN, P1Seen' \in BOOLEAN, beat' \in BOOLEAN,
         tracked' \in Tracked,
         tracked'.status = "pending" =>
           /\ tracked'.child \in Child
           /\ tracked'.guess \in returns[tracked'.child]
           /\ \A r \in tracked'.runs : RunOK(r)
           /\ \E x \in P1' \cup P2' :
                StandsFor(x, tracked'.child, tracked'.guess, tracked'.runs)
  PROVE  Inv'
<1> USE DEF Inv, Tables
<1>1. /\ nested' = nested /\ finVal' = finVal /\ bound' = bound /\ Acc' = Acc /\ Acc0' = Acc0
      /\ reached' = reached /\ returns' = returns /\ live' = live /\ stage' = stage
  BY SameInput DEF tables
<1>2. FlattenTypeOK'
  BY <1>1, Zenon DEF FlattenTypeOK, Obligation, Config
<1>3. ReachedInv' /\ ReturnsInv' /\ Idle'
  BY <1>1 DEF ReachedInv, ReturnsInv, Idle
<1>4. LiveClosed'
  <2>0. Target' = Target
    BY <1>1 DEF Target
  <2>1. \A acc, w : Accumulate(acc, w)' = Accumulate(acc, w)
    BY <1>1 DEF Accumulate
  <2>2. \A t : LiveSeed(t)' <=> LiveSeed(t)
    BY <1>1, <2>1 DEF LiveSeed, Ending, ChildFinal, DischargeOK
  <2>3. \A t : LiveBefore(t)' <=> LiveBefore(t)
    BY <1>1, <2>1 DEF LiveBefore, IsLive
  <2> QED
    BY <1>1, <2>0, <2>2, <2>3 DEF LiveClosed
<1>5. \A r : RunOK(r)' <=> RunOK(r)
  BY <1>1 DEF RunOK
<1>6. TrackedInv'
  BY <1>1, <1>5 DEF TrackedInv
<1>7. PendingCallKept'
  <2>1. \A r : Encoded(r)' = Encoded(r)
    BY <1>1 DEF Encoded
  <2>2. \A i, g, c : IsLive(i, g, c)' <=> IsLive(i, g, c)
    BY <1>1 DEF IsLive
  <2> SUFFICES ASSUME tracked'.status = "pending"
               PROVE  \E x \in P1' \cup P2' :
                        /\ x.child = tracked'.child
                        /\ x.guess = tracked'.guess
                        /\ x.conf = {c \in {Encoded(r)' : r \in tracked'.runs} :
                                       IsLive(x.child, x.guess, c)'}
    BY DEF PendingCallKept
  <2>3. PICK x \in P1' \cup P2' : StandsFor(x, tracked'.child, tracked'.guess, tracked'.runs)
    OBVIOUS
  <2> QED
    BY <2>1, <2>2, <2>3 DEF StandsFor
<1> QED
  BY <1>2, <1>3, <1>4, <1>6, <1>7

\* What a letter makes of the call tracked before it.
LEMMA TrackedAfterKept ==
  ASSUME Inv, stage = "flatten", NEW a \in Symbol, NEW spawned \in SUBSET Obligation,
         ReadBags(a, spawned), tracked' = TrackedAfter(a)
  PROVE  /\ tracked' \in Tracked
         /\ tracked'.status = "pending" =>
              /\ tracked'.child \in Child
              /\ tracked'.guess \in returns[tracked'.child]
              /\ \A r \in tracked'.runs : RunOK(r)
              /\ \E x \in P1' \cup P2' :
                   StandsFor(x, tracked'.child, tracked'.guess, tracked'.runs)
<1> USE DEF Inv, Tables
<1>1. CASE tracked.status = "pending"
  <2> DEFINE i == tracked.child
             g == tracked.guess
             R == RunsAfter(i, tracked.runs, a)
  <2>1. i \in Child /\ g \in returns[i] /\ \A r \in tracked.runs : RunOK(r)
    BY <1>1 DEF TrackedInv
  <2>2. R \in SUBSET Run /\ \A r \in R : RunOK(r)
    <3>1. tracked.runs \in SUBSET Run /\ Input
      BY InputType DEF FlattenTypeOK, Tracked
    <3> QED
      BY <2>1, <3>1, RunsAfterType
  <2>3. g \in Int
    BY DEF FlattenTypeOK, Tracked
  <2>4. tracked' = Track(i, g, R)
    BY <1>1 DEF TrackedAfter
  <2>5. ~Returning(i, R, g) => \E x \in P1' \cup P2' : StandsFor(x, i, g, R)
    BY <1>1, ReadBagsKeep
  <2> HIDE DEF i, g, R
  <2> QED
    BY <2>1, <2>2, <2>3, <2>4, <2>5, TrackType
<1>2. CASE tracked.status # "pending"
  BY <1>2 DEF TrackedAfter, FlattenTypeOK
<1> QED
  BY <1>1, <1>2

\* A parent edge without a call keeps the invariant.
LEMMA SilentEdgeInv ==
  ASSUME Inv, NEW a \in Symbol, NEW e \in ParentEdges(parent, a), SilentEdge(a, e)
  PROVE  Inv'
<1>1. ReadBags(a, {}) /\ stage = "flatten" /\ tracked' = TrackedAfter(a)
  BY DEF SilentEdge
<1>2. P1' \in SUBSET Obligation /\ P2' \in SUBSET Obligation
  BY <1>1, ReadBagsKeep
<1>3. parent' \in ParentState
  BY InputType DEF SilentEdge, Inv, Input, NestedAutomaton, ParentEdge, ParentEdges
<1>4. lastGuess' \in Int
  BY NestedAssumption DEF SilentEdge
<1>5. phase' \in Phase
  BY DEF SilentEdge, AdvancePhase, Phase, Inv, FlattenTypeOK
<1>6. epochSeen' \in BOOLEAN /\ P1Seen' \in BOOLEAN /\ beat' \in BOOLEAN
  BY Zenon DEF SilentEdge, EpochBase, Inv, FlattenTypeOK
<1>7. UNCHANGED <<input, stage, tables>>
  BY DEF SilentEdge
<1> QED
  BY <1>1, <1>2, <1>3, <1>4, <1>5, <1>6, <1>7, TrackedAfterKept, LetterInv

\* A parent edge that calls keeps the invariant, whatever is guessed.
LEMMA CallEdgeInv ==
  ASSUME Inv, NEW a \in Symbol, NEW e \in ParentEdges(parent, a), e.call \in Child,
         NEW g \in returns[e.call], CallEdge(a, e, g)
  PROVE  Inv'
<1> DEFINE i == e.call
           R == RunsAfter(i, {Start}, a)
<1>1. ReadBags(a, Spawned(i, g, a)) /\ stage = "flatten"
  BY DEF CallEdge
<1>2. g \in Int /\ Input /\ FlattenTypeOK /\ ReturnsInv
  BY GuessType, InputType DEF Inv, Tables
<1>3. Spawned(i, g, a) \in SUBSET Obligation
  BY <1>2, SpawnedType
<1>4. P1' \in SUBSET Obligation /\ P2' \in SUBSET Obligation /\ Spawned(i, g, a) \subseteq P1'
  BY <1>1, <1>3, ReadBagsKeep
<1>5. parent' \in ParentState
  BY <1>2 DEF CallEdge, Input, NestedAutomaton, ParentEdge, ParentEdges
<1>6. lastGuess' \in Int
  BY <1>2 DEF CallEdge
<1>7. phase' \in Phase
  BY DEF CallEdge, AdvancePhase, Phase, Inv, FlattenTypeOK
<1>8. epochSeen' \in BOOLEAN /\ P1Seen' \in BOOLEAN /\ beat' \in BOOLEAN
  BY Zenon DEF CallEdge, Inv, FlattenTypeOK
<1>9. UNCHANGED <<input, stage, tables>>
  BY DEF CallEdge
<1>10. CASE tracked' = TrackedAfter(a)
  BY <1>1, <1>3, <1>4, <1>5, <1>6, <1>7, <1>8, <1>9, <1>10, TrackedAfterKept, LetterInv
<1>11. CASE tracked' = Track(i, g, R)
  <2>1. R \in SUBSET Run /\ \A r \in R : RunOK(r)
    <3>1. {Start} \in SUBSET Run /\ \A r \in {Start} : RunOK(r)
      BY <1>2, StartRun
    <3> QED
      BY <1>2, <3>1, RunsAfterType
  <2>2. ~Returning(i, R, g) => \E x \in P1' \cup P2' : StandsFor(x, i, g, R)
    BY <1>2, <1>4, SpawnedCall
  <2>3. /\ tracked' \in Tracked
        /\ tracked'.status = "pending" =>
             /\ tracked'.child \in Child
             /\ tracked'.guess \in returns[tracked'.child]
             /\ \A r \in tracked'.runs : RunOK(r)
             /\ \E x \in P1' \cup P2' :
                  StandsFor(x, tracked'.child, tracked'.guess, tracked'.runs)
    <3> HIDE DEF R
    <3> QED
      BY <1>2, <1>11, <2>1, <2>2, TrackType
  <2> QED
    BY <1>1, <1>4, <1>5, <1>6, <1>7, <1>8, <1>9, <2>3, LetterInv
<1> QED
  BY <1>10, <1>11 DEF CallEdge

\* Stuttering keeps the invariant.
LEMMA StutterInv == ASSUME Inv, UNCHANGED vars PROVE Inv'
<1> USE DEF Inv, Tables
<1>1. /\ UNCHANGED <<input, stage, tables>> /\ reached' = reached /\ returns' = returns /\ live' = live
      /\ P1' = P1 /\ P2' = P2 /\ parent' = parent /\ lastGuess' = lastGuess
      /\ phase' = phase /\ epochSeen' = epochSeen /\ P1Seen' = P1Seen /\ beat' = beat
      /\ tracked' = tracked /\ stage' = stage
  BY DEF vars, buchi, tables
<1>2. /\ nested' = nested /\ finVal' = finVal /\ bound' = bound /\ Acc' = Acc
  BY <1>1, SameInput
<1>3. CASE stage = "flatten"
  <2>1. tracked.status = "pending" =>
           \E x \in P1 \cup P2 : StandsFor(x, tracked.child, tracked.guess, tracked.runs)
    BY DEF PendingCallKept, StandsFor
  <2>2. tracked'.status = "pending" =>
          /\ tracked'.child \in Child
          /\ tracked'.guess \in returns[tracked'.child]
          /\ \A r \in tracked'.runs : RunOK(r)
          /\ \E x \in P1' \cup P2' :
               StandsFor(x, tracked'.child, tracked'.guess, tracked'.runs)
    BY <1>1, <2>1 DEF TrackedInv
  <2>3. /\ P1' \in SUBSET Obligation /\ P2' \in SUBSET Obligation
        /\ parent' \in ParentState /\ lastGuess' \in Int /\ phase' \in Phase
        /\ epochSeen' \in BOOLEAN /\ P1Seen' \in BOOLEAN /\ beat' \in BOOLEAN
        /\ tracked' \in Tracked
    BY <1>1, Zenon DEF FlattenTypeOK
  <2> QED
    BY <1>1, <1>3, <2>2, <2>3, LetterInv
<1>4. CASE stage # "flatten"
  <2>1. FlattenTypeOK'
    BY <1>1, <1>2, Zenon DEF FlattenTypeOK, Obligation, Config
  <2>2. ReachedInv' /\ ReturnsInv' /\ LiveClosed' /\ Idle'
    BY <1>1, <1>2, <1>4 DEF ReachedInv, ReturnsInv, LiveClosed, Idle
  <2>3. TrackedInv' /\ PendingCallKept'
    BY <1>1, <1>4 DEF TrackedInv, PendingCallKept, Idle
  <2> QED
    BY <2>1, <2>2, <2>3
<1> QED
  BY <1>3, <1>4

\* Every step keeps the invariant.
LEMMA NextInv == ASSUME Inv, [Next]_vars PROVE Inv'
<1>1. CASE GrowReturns
  BY <1>1, GrowReturnsInv
<1>2. CASE GrowLive
  BY <1>2, GrowLiveInv
<1>3. CASE Call
  <2>0. PICK a \in Symbol : \E e \in ParentEdges(parent, a) :
           \E g \in IF e.call \in Child THEN returns[e.call] ELSE {} : CallEdge(a, e, g)
    BY <1>3 DEF Call
  <2>1. PICK e \in ParentEdges(parent, a) :
           \E g \in IF e.call \in Child THEN returns[e.call] ELSE {} : CallEdge(a, e, g)
    BY <2>0
  <2>2. PICK g \in IF e.call \in Child THEN returns[e.call] ELSE {} : CallEdge(a, e, g)
    BY <2>1
  <2>3. e.call \in Child /\ g \in returns[e.call]
    BY <2>2
  <2> QED
    BY <2>2, <2>3, CallEdgeInv
<1>4. CASE SilentStep
  BY <1>4, SilentEdgeInv DEF SilentStep
<1>5. CASE UNCHANGED vars
  BY <1>5, StutterInv
<1> QED
  BY <1>1, <1>2, <1>3, <1>4, <1>5 DEF Next, Letter

\* flatten_regular keeps its state well formed: the guesses, configurations and
\* tables it works with are what their types say.
THEOREM FlattenTypes == Spec => []FlattenTypeOK
<1>1. Inv => FlattenTypeOK
  BY DEF Inv
<1> QED
  BY <1>1, InitInv, NextInv, PTL DEF Spec

\* A call that has not returned is in one of the bags of flatten_regular, with
\* its guess and just those runs of its child that can still return it.
THEOREM PendingCallsKept == Spec => []PendingCallKept
<1>1. Inv => PendingCallKept
  BY DEF Inv
<1> QED
  BY <1>1, InitInv, NextInv, PTL DEF Spec

\* No guess for a bounded sum is beyond the bound: the value of a sum that has
\* crossed its bound is the bound.
THEOREM GuessesBounded == Spec => []ReturnsInv
<1>1. Inv => ReturnsInv
  BY DEF Inv, Tables
<1> QED
  BY <1>1, InitInv, NextInv, PTL DEF Spec

-----------------------------------------------------------------------------
(***************************************************************************)
(* Refused letters                                                         *)
(***************************************************************************)

Runs == {r \in Run : RunOK(r)}

\* Among runs that all letters keep together, one from a live configuration
\* returns its guess.
LiveSoundFor(t) ==
  \A X \in SUBSET Runs :
    /\ \A a \in Symbol : RunsAfter(t.child, X, a) \subseteq X
    /\ \E q \in X : Encoded(q) = <<t.state, t.acc>>
    => Returning(t.child, X, t.guess)

LiveSound == (stage = "returns" => live = {}) /\ \A t \in live : LiveSoundFor(t)

\* What makes a live configuration sound is a matter of the input alone.
LEMMA SameLiveSound ==
  ASSUME UNCHANGED input, NEW t
  PROVE  LiveSoundFor(t)' <=> LiveSoundFor(t)
<1>1. nested' = nested /\ finVal' = finVal /\ bound' = bound /\ Acc0' = Acc0
  BY SameInput
<1>2. \A r : RunOK(r)' <=> RunOK(r)
  BY <1>1 DEF RunOK
<1>3. \A r : Encoded(r)' = Encoded(r)
  BY <1>1 DEF Encoded
<1>4. \A r, e : RunStep(r, e)' = RunStep(r, e)
  BY <1>1 DEF RunStep
<1>5. \A i, X, a : RunsAfter(i, X, a)' = RunsAfter(i, X, a)
  BY <1>1, <1>4 DEF RunsAfter, ChildEdges
<1>6. \A r : Result(r)' = Result(r)
  BY <1>1 DEF Result
<1>7. \A i, X, g : Returning(i, X, g)' <=> Returning(i, X, g)
  BY <1>1, <1>6 DEF Returning, ChildFinal
<1>8. Runs' = Runs
  BY <1>2 DEF Runs
<1> QED
  BY <1>3, <1>5, <1>7, <1>8 DEF LiveSoundFor

\* A run along an edge.
LEMMA AlongEdge ==
  ASSUME Input, NEW i \in Child, NEW X \in SUBSET Runs,
         \A a \in Symbol : RunsAfter(i, X, a) \subseteq X,
         NEW q \in X, NEW s, NEW acc, Encoded(q) = <<s, acc>>,
         NEW e \in nested.child[i].edges, e.from = s
  PROVE  /\ RunStep(q, e) \in X /\ RunStep(q, e).state = e.to
         /\ Encoded(RunStep(q, e)) = <<e.to, Accumulate(acc, e.weight)>>
<1>1. q \in Run /\ RunOK(q)
  BY DEF Runs
<1>2. q.state = s /\ Encoded(q)[2] = acc
  BY DEF Encoded
<1>3. e.symbol \in Symbol
  BY DEF Input, NestedAutomaton, ChildAutomaton, ChildEdge
<1>4. e \in ChildEdges(i, q.state, e.symbol)
  BY <1>2 DEF ChildEdges
<1>5. RunStep(q, e) \in RunsAfter(i, X, e.symbol)
  BY <1>4 DEF RunsAfter
<1>6. /\ RunStep(q, e).state = e.to
      /\ Encoded(RunStep(q, e)) = <<e.to, Accumulate(Encoded(q)[2], e.weight)>>
  BY <1>1, <1>4, EncodedStep
<1> QED
  BY <1>2, <1>3, <1>5, <1>6

\* A configuration that has returned the guess is soundly live.
LEMMA SeedSound ==
  ASSUME FlattenTypeOK, ReturnsInv, NEW t \in Target, LiveSeed(t)
  PROVE  LiveSoundFor(t)
<1>0. Input /\ t.child \in Child
  BY InputType DEF Target
<1>1. t.guess \in Int /\ (finVal = "SumB" => t.guess \in -bound .. bound)
  BY <1>0, GuessType DEF LiveSeed
<1>2. PICK e \in nested.child[t.child].edges :
        e.from = t.state /\ e.to \in ChildFinal(t.child) /\ DischargeOK(Accumulate(t.acc, e.weight), t.guess)
  BY DEF LiveSeed, Ending
<1> SUFFICES ASSUME NEW X \in SUBSET Runs, \A a \in Symbol : RunsAfter(t.child, X, a) \subseteq X,
                    NEW q \in X, Encoded(q) = <<t.state, t.acc>>
             PROVE  Returning(t.child, X, t.guess)
  BY DEF LiveSoundFor
<1> DEFINE r == RunStep(q, e)
<1>3. r \in X /\ r.state = e.to /\ Encoded(r) = <<e.to, Accumulate(t.acc, e.weight)>>
  BY <1>0, <1>2, AlongEdge
<1> HIDE DEF r
<1>4. r \in Run /\ RunOK(r) /\ Encoded(r)[2] = Accumulate(t.acc, e.weight)
  BY <1>3 DEF Runs
<1>5. Result(r) = t.guess
  BY <1>0, <1>1, <1>2, <1>4, EncodedResult
<1> QED
  BY <1>2, <1>3, <1>5 DEF Returning

\* So is one with an edge to a live one.
LEMMA BeforeSound ==
  ASSUME FlattenTypeOK, LiveSound, NEW t \in Target, LiveBefore(t)
  PROVE  LiveSoundFor(t)
<1>0. Input /\ t.child \in Child
  BY InputType DEF Target
<1>1. PICK e \in nested.child[t.child].edges :
        e.from = t.state /\ IsLive(t.child, t.guess, <<e.to, Accumulate(t.acc, e.weight)>>)
  BY DEF LiveBefore
<1> DEFINE u == [child |-> t.child, guess |-> t.guess, state |-> e.to, acc |-> Accumulate(t.acc, e.weight)]
<1>2. u \in live /\ LiveSoundFor(u)
  BY <1>1 DEF IsLive, LiveSound
<1> SUFFICES ASSUME NEW X \in SUBSET Runs, \A a \in Symbol : RunsAfter(t.child, X, a) \subseteq X,
                    NEW q \in X, Encoded(q) = <<t.state, t.acc>>
             PROVE  Returning(t.child, X, t.guess)
  BY DEF LiveSoundFor
<1>3. RunStep(q, e) \in X /\ Encoded(RunStep(q, e)) = <<e.to, Accumulate(t.acc, e.weight)>>
  BY <1>0, <1>1, AlongEdge
<1>4. u.child = t.child /\ u.guess = t.guess /\ u.state = e.to /\ u.acc = Accumulate(t.acc, e.weight)
  OBVIOUS
<1> HIDE DEF u
<1> QED
  BY <1>2, <1>3, <1>4 DEF LiveSoundFor

\* Live configurations stay sound.
LEMMA LiveSoundNext == ASSUME Inv, LiveSound, [Next]_vars PROVE LiveSound'
<1>1. CASE GrowReturns
  <2>1. live = {} /\ live' = live
    BY <1>1 DEF GrowReturns, LiveSound
  <2> QED
    BY <2>1 DEF LiveSound
<1>2. CASE GrowLive
  <2>1. /\ UNCHANGED input /\ stage' # "returns"
        /\ live' = live \cup {t \in Target : LiveSeed(t) \/ LiveBefore(t)}
    BY <1>2 DEF GrowLive
  <2>2. \A t \in live' : LiveSoundFor(t)
    BY <2>1, SeedSound, BeforeSound DEF Inv, Tables, LiveSound
  <2> QED
    BY <2>1, <2>2, SameLiveSound DEF LiveSound
<1>3. CASE Letter \/ UNCHANGED vars
  <2>1. UNCHANGED <<input, live, stage>>
    BY <1>3 DEF Letter, Call, SilentStep, CallEdge, SilentEdge, vars, tables
  <2> QED
    BY <2>1, SameLiveSound DEF LiveSound
<1> QED
  BY <1>1, <1>2, <1>3 DEF Next

\* An entry is discharged just when a run that reads the letter returns the
\* guess.
LEMMA DischargedReturns ==
  ASSUME FlattenTypeOK, ReturnsInv, LiveClosed, stage = "flatten",
         NEW i \in Child, NEW g \in returns[i], NEW R \in SUBSET Runs,
         NEW x, x = [child |-> i, guess |-> g, conf |-> x.conf], StandsFor(x, i, g, R),
         NEW a
  PROVE  Discharged(x, a) <=> Returning(i, RunsAfter(i, R, a), g)
<1>0. Input /\ g \in Int /\ (finVal = "SumB" => g \in -bound .. bound)
  BY InputType, GuessType
<1>1. R \in SUBSET Run /\ \A r \in R : RunOK(r)
  BY DEF Runs
<1>2. ~Returning(i, RunsAfter(i, R, a), g) => ~Discharged(x, a)
  BY <1>1, KeptCall
<1>3. ASSUME Returning(i, RunsAfter(i, R, a), g)
      PROVE  Discharged(x, a)
  <2>1. PICK r \in R : \E e \in ChildEdges(i, r.state, a) :
          RunStep(r, e).state \in ChildFinal(i) /\ Result(RunStep(r, e)) = g
    BY <1>3 DEF Returning, RunsAfter
  <2>2. PICK e \in ChildEdges(i, r.state, a) :
          RunStep(r, e).state \in ChildFinal(i) /\ Result(RunStep(r, e)) = g
    BY <2>1
  <2> DEFINE q == RunStep(r, e)
             acc == Encoded(r)[2]
  <2>3. /\ q \in Run /\ RunOK(q) /\ q.state = e.to /\ acc \in Acc
        /\ Encoded(q) = <<e.to, Accumulate(acc, e.weight)>>
    BY <1>0, <1>1, EncodedStep
  <2>4. q.state \in ChildFinal(i) /\ Result(q) = g
    BY <2>2
  <2>5. Encoded(r) = <<r.state, acc>> /\ r.state \in ChildState
    BY <1>1 DEF Encoded, Run
  <2> HIDE DEF q, acc
  <2>6. DischargeOK(Encoded(q)[2], g)
    BY <1>0, <2>3, <2>4, EncodedResult
  <2>7. e.to \in ChildFinal(i) /\ DischargeOK(Accumulate(acc, e.weight), g)
    BY <2>3, <2>4, <2>6
  <2>8. IsLive(i, g, <<r.state, acc>>)
    BY <2>3, <2>5, <2>7, LiveBackward
  <2>9. <<r.state, acc>> \in x.conf
    BY <2>5, <2>8 DEF StandsFor
  <2>10. e \in Ending(i, g, r.state, acc, ChildEdges(i, r.state, a))
    BY <2>7 DEF Ending, ChildEdges
  <2> DEFINE c == <<r.state, acc>>
  <2>11. c[1] = r.state /\ c[2] = acc /\ c \in x.conf /\ IsLive(x.child, x.guess, c)
    BY <2>8, <2>9 DEF StandsFor
  <2>12. x.child = i /\ x.guess = g
    BY DEF StandsFor
  <2> HIDE DEF c
  <2>13. Ending(x.child, x.guess, c[1], c[2], ChildEdges(x.child, c[1], a)) # {}
    BY <2>10, <2>11, <2>12
  <2> QED
    BY <2>11, <2>13 DEF Discharged
<1> QED
  BY <1>2, <1>3

\* What RunsWithin computes, letter by letter.
LEMMA RunsWithinSteps ==
  ASSUME Input, NEW i \in Child, NEW R \in SUBSET Runs
  PROVE  /\ RunsWithin(i, R)[0] = R
         /\ \A n \in Nat : RunsWithin(i, R)[n + 1] =
              RunsWithin(i, R)[n] \cup UNION {RunsAfter(i, RunsWithin(i, R)[n], a) : a \in Symbol}
         /\ \A n \in Nat : RunsWithin(i, R)[n] \in SUBSET Runs
<1> DEFINE S == SUBSET Runs
           More(Q) == Q \cup UNION {RunsAfter(i, Q, a) : a \in Symbol}
           step == [x \in Nat \X S |-> More(x[2])]
           Def(h) == [n \in Nat |-> IF n = 0 THEN R ELSE More(h[n - 1])]
           W == RunsWithin(i, R)
<1>1. \A Q \in S : More(Q) \in S
  <2> SUFFICES ASSUME NEW Q \in S, NEW a \in Symbol PROVE RunsAfter(i, Q, a) \in S
    OBVIOUS
  <2>1. Q \in SUBSET Run /\ \A r \in Q : RunOK(r)
    BY DEF Runs
  <2> QED
    BY <2>1, RunsAfterType DEF Runs
<1>2. W = CHOOSE h : h = Def(h)
  BY DEF RunsWithin
<1> HIDE DEF More, W
<1>3. step \in [Nat \X S -> S]
  BY <1>1
<1>4. \A n \in Nat, Q \in S : step[<<n, Q>>] = More(Q)
  OBVIOUS
<1>5. R \in S
  OBVIOUS
<1> HIDE DEF step, S
<1>6. PICK h : IteratesForever(h, S, R, step)
  BY <1>3, <1>5, RecursionForever
<1>7. h \in [Nat -> S] /\ h[0] = R /\ \A n \in Nat : h[n + 1] = More(h[n])
  <2>1. h \in [Nat -> S] /\ h[0] = R /\ \A n \in Nat : h[n + 1] = step[<<n + 1, h[n]>>]
    BY <1>6 DEF IteratesForever
  <2>2. ASSUME NEW n \in Nat
        PROVE  h[n + 1] = More(h[n])
    <3>1. n + 1 \in Nat /\ h[n] \in S
      BY <2>1
    <3> QED
      BY <1>4, <2>1, <3>1
  <2> QED
    BY <2>1, <2>2
<1>8. h = Def(h)
  <2>1. ASSUME NEW n \in Nat
        PROVE  h[n] = Def(h)[n]
    <3>1. CASE n = 0
      BY <1>7, <3>1
    <3>2. CASE n # 0
      <4>1. n - 1 \in Nat /\ (n - 1) + 1 = n
        BY <3>2
      <4>2. h[(n - 1) + 1] = More(h[n - 1])
        BY <1>7, <4>1
      <4> QED
        BY <3>2, <4>1, <4>2
    <3> QED
      BY <3>1, <3>2
  <2> QED
    BY <1>7, <2>1
<1>9. W = Def(W)
  BY <1>2, <1>8
<1>10. W[0] = R /\ \A n \in Nat : W[n + 1] = More(W[n])
  <2>1. \A n \in Nat : Def(W)[n] = IF n = 0 THEN R ELSE More(W[n - 1])
    OBVIOUS
  <2> HIDE DEF Def
  <2>2. \A n \in Nat : W[n] = IF n = 0 THEN R ELSE More(W[n - 1])
    BY <1>9, <2>1
  <2>3. ASSUME NEW n \in Nat
        PROVE  W[n + 1] = More(W[n])
    <3>1. n + 1 \in Nat /\ n + 1 # 0 /\ (n + 1) - 1 = n
      OBVIOUS
    <3> QED
      BY <2>2, <3>1
  <2> QED
    BY <2>2, <2>3
<1>11. \A n \in Nat : W[n] \in S
  <2> DEFINE T == {n \in Nat : W[n] \in S}
  <2>1. 0 \in T
    BY <1>5, <1>10
  <2>2. \A n \in Nat : n \in T => n + 1 \in T
    BY <1>1, <1>10
  <2> HIDE DEF T
  <2>3. Nat \subseteq T
    BY <2>1, <2>2, SetInduction
  <2> QED
    BY <2>3 DEF T
<1> QED
  BY <1>10, <1>11 DEF W, More, S

\* All letters keep the later runs together.
LEMMA LaterClosed ==
  ASSUME Input, Lengths = Nat, NEW i \in Child, NEW R \in SUBSET Runs
  PROVE  /\ R \subseteq Later(i, R)
         /\ Later(i, R) \in SUBSET Runs
         /\ \A a \in Symbol : RunsAfter(i, Later(i, R), a) \subseteq Later(i, R)
<1> DEFINE W == RunsWithin(i, R)
           L == Later(i, R)
<1>1. /\ W[0] = R
      /\ \A n \in Nat : W[n + 1] = W[n] \cup UNION {RunsAfter(i, W[n], a) : a \in Symbol}
      /\ \A n \in Nat : W[n] \in SUBSET Runs
  BY RunsWithinSteps
<1>2. L = UNION {W[n] : n \in Nat}
  BY DEF Later
<1> HIDE DEF W, L
<1>3. R \subseteq L /\ L \in SUBSET Runs
  BY <1>1, <1>2
<1>4. ASSUME NEW a \in Symbol, NEW y \in RunsAfter(i, L, a)
      PROVE  y \in L
  <2>1. PICK r \in L : \E e \in ChildEdges(i, r.state, a) : y = RunStep(r, e)
    BY DEF RunsAfter
  <2>2. PICK n \in Nat : r \in W[n]
    BY <1>2
  <2>3. y \in RunsAfter(i, W[n], a)
    BY <2>1, <2>2 DEF RunsAfter
  <2>4. y \in W[n + 1] /\ n + 1 \in Nat
    BY <1>1, <2>3
  <2> QED
    BY <1>2, <2>4
<1> QED
  BY <1>3, <1>4 DEF L

\* Runs of child i none of which can return g.
Hopeless(i, g, Q) ==
  \A q \in Q : /\ ~IsLive(i, g, Encoded(q))
               /\ ~(q.state \in ChildFinal(i) /\ Result(q) = g)

\* Runs that can no longer return the guess cannot after another letter.
LEMMA HopelessAfter ==
  ASSUME FlattenTypeOK, ReturnsInv, LiveClosed, stage = "flatten",
         NEW i \in Child, NEW g \in returns[i], NEW Q \in SUBSET Runs, Hopeless(i, g, Q), NEW a
  PROVE  Hopeless(i, g, RunsAfter(i, Q, a))
<1>0. Input /\ g \in Int /\ (finVal = "SumB" => g \in -bound .. bound)
  BY InputType, GuessType
<1> SUFFICES ASSUME NEW r \in Q, NEW e \in ChildEdges(i, r.state, a),
                    \/ IsLive(i, g, Encoded(RunStep(r, e)))
                    \/ RunStep(r, e).state \in ChildFinal(i) /\ Result(RunStep(r, e)) = g
             PROVE  FALSE
  BY DEF Hopeless, RunsAfter
<1> DEFINE q == RunStep(r, e)
           acc == Encoded(r)[2]
<1>1. r \in Run /\ RunOK(r)
  BY DEF Runs
<1>2. /\ q \in Run /\ RunOK(q) /\ q.state = e.to /\ acc \in Acc
      /\ Encoded(q) = <<e.to, Accumulate(acc, e.weight)>>
  BY <1>0, <1>1, EncodedStep
<1>3. Encoded(r) = <<r.state, acc>> /\ r.state \in ChildState
  BY <1>1 DEF Encoded, Run
<1>4. IsLive(i, g, Encoded(q)) \/ (q.state \in ChildFinal(i) /\ Result(q) = g)
  OBVIOUS
<1> HIDE DEF q, acc
<1>5. \/ IsLive(i, g, <<e.to, Accumulate(acc, e.weight)>>)
      \/ e.to \in ChildFinal(i) /\ DischargeOK(Accumulate(acc, e.weight), g)
  <2>1. Result(q) = g => DischargeOK(Encoded(q)[2], g)
    BY <1>0, <1>2, EncodedResult
  <2>2. Encoded(q)[2] = Accumulate(acc, e.weight)
    BY <1>2
  <2> QED
    BY <1>2, <1>4, <2>1, <2>2
<1>6. IsLive(i, g, <<r.state, acc>>)
  BY <1>2, <1>3, <1>5, LiveBackward
<1> QED
  BY <1>3, <1>6 DEF Hopeless

\* Hence they never return it.
LEMMA HopelessLater ==
  ASSUME FlattenTypeOK, ReturnsInv, LiveClosed, stage = "flatten", Lengths = Nat,
         NEW i \in Child, NEW g \in returns[i], NEW R \in SUBSET Runs, Hopeless(i, g, R)
  PROVE  ~Returning(i, Later(i, R), g)
<1> DEFINE W == RunsWithin(i, R)
           T == {n \in Nat : Hopeless(i, g, W[n])}
<1>1. /\ W[0] = R
      /\ \A n \in Nat : W[n + 1] = W[n] \cup UNION {RunsAfter(i, W[n], a) : a \in Symbol}
      /\ \A n \in Nat : W[n] \in SUBSET Runs
  BY InputType, RunsWithinSteps
<1>2. Later(i, R) = UNION {W[n] : n \in Nat}
  BY DEF Later
<1> HIDE DEF W
<1>3. 0 \in T
  BY <1>1
<1>4. ASSUME NEW n \in Nat, n \in T
      PROVE  n + 1 \in T
  <2> DEFINE Q == W[n]
  <2>1. Q \in SUBSET Runs /\ Hopeless(i, g, Q)
    BY <1>1, <1>4
  <2>2. W[n + 1] = Q \cup UNION {RunsAfter(i, Q, a) : a \in Symbol}
    BY <1>1
  <2> HIDE DEF Q
  <2>3. \A a \in Symbol : Hopeless(i, g, RunsAfter(i, Q, a))
    BY <2>1, HopelessAfter
  <2>4. Hopeless(i, g, W[n + 1])
    BY <2>1, <2>2, <2>3 DEF Hopeless
  <2> QED
    BY <2>4
<1> HIDE DEF T
<1>5. Nat \subseteq T
  BY <1>3, <1>4, SetInduction
<1> QED
  BY <1>2, <1>5 DEF T, Hopeless, Returning

\* An entry is refused just when the call it stands for can no longer return.
LEMMA RefusedEntry ==
  ASSUME FlattenTypeOK, ReturnsInv, LiveClosed, LiveSound, stage = "flatten", Lengths = Nat,
         NEW i \in Child, NEW g \in returns[i], NEW R \in SUBSET Runs,
         NEW x, x = [child |-> i, guess |-> g, conf |-> x.conf], StandsFor(x, i, g, R),
         NEW a \in Symbol
  PROVE  Refused(x, a) <=> ~Returning(i, Later(i, RunsAfter(i, R, a)), g)
<1> DEFINE Q == RunsAfter(i, R, a)
<1>0. Input
  BY InputType
<1>1. R \in SUBSET Run /\ \A r \in R : RunOK(r)
  BY DEF Runs
<1>2. Q \in SUBSET Runs
  BY <1>0, <1>1, RunsAfterType DEF Runs
<1>3. Discharged(x, a) <=> Returning(i, Q, g)
  BY DischargedReturns
<1>4. ~Returning(i, Q, g) => StandsFor(Stepped(x, a), i, g, Q)
  BY <1>1, KeptCall
<1> HIDE DEF Q
<1>5. Q \subseteq Later(i, Q) /\ Later(i, Q) \in SUBSET Runs
      /\ \A b \in Symbol : RunsAfter(i, Later(i, Q), b) \subseteq Later(i, Q)
  BY <1>0, <1>2, LaterClosed
<1>6. CASE Returning(i, Q, g)
  <2>1. Returning(i, Later(i, Q), g)
    BY <1>5, <1>6 DEF Returning
  <2> QED
    BY <1>3, <1>6, <2>1 DEF Refused, Q
<1>7. CASE ~Returning(i, Q, g) /\ Stepped(x, a).conf # {}
  <2>1. PICK q \in Q : IsLive(i, g, Encoded(q))
    BY <1>4, <1>7 DEF StandsFor
  <2> DEFINE t == [child |-> i, guess |-> g, state |-> Encoded(q)[1], acc |-> Encoded(q)[2]]
  <2>2. t \in live
    BY <2>1 DEF IsLive
  <2>3. t.child = i /\ t.guess = g /\ Encoded(q) = <<t.state, t.acc>>
    BY DEF Encoded
  <2> HIDE DEF t
  <2>4. Returning(i, Later(i, Q), g)
    BY <1>5, <2>2, <2>3 DEF LiveSound, LiveSoundFor
  <2> QED
    BY <1>7, <2>4 DEF Refused, Q
<1>8. CASE ~Returning(i, Q, g) /\ Stepped(x, a).conf = {}
  <2>1. Hopeless(i, g, Q)
    BY <1>4, <1>8 DEF StandsFor, Hopeless, Returning
  <2>2. ~Returning(i, Later(i, Q), g)
    BY <1>2, <2>1, HopelessLater
  <2> QED
    BY <1>3, <1>8, <2>2 DEF Refused, Q
<1> QED
  BY <1>6, <1>7, <1>8 DEF Q

\* A letter is refused exactly when no continuation returns the guess.
LEMMA InvRefused == ASSUME Inv, LiveSound, Lengths = Nat PROVE RefusedExactly
<1> USE DEF Inv, Tables
<1> DEFINE i == tracked.child
           g == tracked.guess
           R == tracked.runs
<1> SUFFICES ASSUME tracked.status = "pending", NEW a \in Symbol
             PROVE  (\E x \in P1 \cup P2 : StandsFor(x, i, g, R) /\ Refused(x, a))
                    <=> ~Returning(i, Later(i, RunsAfter(i, R, a)), g)
  BY DEF RefusedExactly, StandsFor
<1>1. i \in Child /\ g \in returns[i] /\ \A r \in R : RunOK(r)
  BY DEF TrackedInv
<1>2. R \in SUBSET Runs
  BY <1>1 DEF FlattenTypeOK, Tracked, Runs
<1>3. stage = "flatten"
  BY DEF Idle
<1>4. PICK y \in P1 \cup P2 : StandsFor(y, i, g, R)
  BY DEF PendingCallKept, StandsFor
<1>5. ASSUME NEW x \in P1 \cup P2, StandsFor(x, i, g, R)
      PROVE  x = [child |-> i, guess |-> g, conf |-> x.conf]
  <2>1. x \in Obligation
    BY DEF FlattenTypeOK
  <2>2. x = [child |-> x.child, guess |-> x.guess, conf |-> x.conf]
    BY <2>1 DEF Obligation
  <2> QED
    BY <1>5, <2>2 DEF StandsFor
<1>6. ASSUME NEW x \in P1 \cup P2, StandsFor(x, i, g, R)
      PROVE  Refused(x, a) <=> ~Returning(i, Later(i, RunsAfter(i, R, a)), g)
  <2>1. x = [child |-> i, guess |-> g, conf |-> x.conf]
    BY <1>5, <1>6
  <2>2. FlattenTypeOK /\ ReturnsInv /\ LiveClosed
    OBVIOUS
  <2> HIDE DEF i, g, R, Inv, Tables
  <2> QED
    BY <1>1, <1>2, <1>3, <1>6, <2>1, <2>2, RefusedEntry
<1> QED
  BY <1>4, <1>6

\* A letter is refused on account of a pending call exactly when, having read
\* it, its child can no longer return what was guessed, whatever follows.
THEOREM RefusedCorrect == Lengths = Nat => (Spec => []RefusedExactly)
<1> SUFFICES ASSUME Lengths = Nat PROVE Spec => []RefusedExactly
  OBVIOUS
<1>1. Init => LiveSound
  BY DEF Init, LiveSound
<1>2. Inv /\ LiveSound /\ [Next]_vars => Inv' /\ LiveSound'
  BY NextInv, LiveSoundNext
<1>3. Inv /\ LiveSound => RefusedExactly
  BY InvRefused
<1> QED
  BY <1>1, <1>2, <1>3, InitInv, PTL DEF Spec

-----------------------------------------------------------------------------
(***************************************************************************)
(* Return values                                                           *)
(***************************************************************************)

\* The value v of the search stands for the run y.
Same(v, y) ==
  /\ y.crossed = 0 => v.hit = 0 /\ v.value = y.value
  /\ y.crossed # 0 => v.hit = y.crossed * bound /\ (bound = 0 => v.value = 0)

Value == [value : Int, hit : Int]

\* A value of the search and a run that agree return the same.
LEMMA SameResult ==
  ASSUME Input, NEW v \in Value, NEW y \in Runs, Same(v, y)
  PROVE  ReturnValue(v) = Result(y)
<1>1. v.value \in Int /\ v.hit \in Int /\ y.value \in Int /\ y.crossed \in {-1, 0, 1} /\ bound \in Nat
  BY DEF Value, Runs, Run, Input
<1>2. CASE y.crossed = 0
  BY <1>2 DEF Same, ReturnValue, Result
<1>3. CASE y.crossed # 0 /\ bound = 0
  <2>1. y.crossed * bound = 0
    BY <1>1, <1>3
  <2> QED
    BY <1>3, <2>1 DEF Same, ReturnValue, Result
<1>4. CASE y.crossed # 0 /\ bound # 0
  <2>1. y.crossed * bound # 0
    BY <1>1, <1>4
  <2> QED
    BY <1>4, <2>1 DEF Same, ReturnValue, Result
<1> QED
  BY <1>2, <1>3, <1>4

\* They agree at the start.
LEMMA SameStart == Input => Same([value |-> Acc0, hit |-> 0], Start)
BY DEF Same, Start

\* The steps of the search mirror those of runs.
LEMMA SameStep ==
  ASSUME Input, NEW v \in Value, NEW y \in Runs, Same(v, y), NEW e, e.weight \in Int
  PROVE  Same(ReturnStep(v, e.weight), RunStep(y, e))
<1> DEFINE w == e.weight
           s == e.to
<1>1. v.value \in Int /\ v.hit \in Int /\ y.value \in Int /\ y.crossed \in {-1, 0, 1} /\ bound \in Nat
  BY DEF Value, Runs, Run, Input
<1>2. v = [value |-> v.value, hit |-> v.hit]
  BY DEF Value
<1>3. y = [state |-> y.state, value |-> y.value, crossed |-> y.crossed] /\ RunOK(y)
  BY DEF Runs, Run
<1>4. w \in Int
  OBVIOUS
<1>5. CASE finVal = "Max"
  <2>1. y.crossed = 0
    BY <1>3, <1>5 DEF RunOK
  <2>2. RunStep(y, e) = [state |-> s, value |-> Larger(y.value, w), crossed |-> 0]
    BY <1>3, <1>5, <2>1 DEF RunStep
  <2>3. ReturnStep(v, w) = [value |-> Larger(y.value, w), hit |-> 0]
    BY <1>2, <1>5, <2>1 DEF ReturnStep, Same
  <2>4. ReturnStep(v, w).value = Larger(y.value, w) /\ ReturnStep(v, w).hit = 0
    BY <2>3
  <2>5. RunStep(y, e).value = Larger(y.value, w) /\ RunStep(y, e).crossed = 0
    BY <2>2
  <2> QED
    BY <2>4, <2>5 DEF Same
<1>6. CASE finVal = "Min"
  <2>1. y.crossed = 0
    BY <1>3, <1>6 DEF RunOK
  <2>2. RunStep(y, e) = [state |-> s, value |-> Smaller(y.value, w), crossed |-> 0]
    BY <1>3, <1>6, <2>1 DEF RunStep
  <2>3. ReturnStep(v, w) = [value |-> Smaller(y.value, w), hit |-> 0]
    BY <1>2, <1>6, <2>1 DEF ReturnStep, Same
  <2>4. ReturnStep(v, w).value = Smaller(y.value, w) /\ ReturnStep(v, w).hit = 0
    BY <2>3
  <2>5. RunStep(y, e).value = Smaller(y.value, w) /\ RunStep(y, e).crossed = 0
    BY <2>2
  <2> QED
    BY <2>4, <2>5 DEF Same
<1>7. CASE finVal = "SumB"
  <2>1. CASE y.crossed # 0 /\ bound # 0
    <3>1. v.hit = y.crossed * bound /\ v.hit # 0
      BY <1>1, <2>1 DEF Same
    <3>2. ReturnStep(v, w) = [value |-> ApplyBound(v.value + w), hit |-> v.hit]
      BY <1>2, <1>7, <3>1 DEF ReturnStep
    <3>3. RunStep(y, e) = [state |-> s, value |-> y.value, crossed |-> y.crossed]
      BY <1>3, <1>7, <2>1 DEF RunStep
    <3>4. ReturnStep(v, w).hit = y.crossed * bound
      BY <3>1, <3>2
    <3>5. RunStep(y, e).crossed = y.crossed
      BY <3>3
    <3> QED
      BY <2>1, <3>4, <3>5 DEF Same
  <2>2. CASE y.crossed # 0 /\ bound = 0
    <3>1. v.hit = 0 /\ v.value = 0
      BY <1>1, <2>2 DEF Same
    <3>2. ReturnStep(v, w) = [value |-> 0, hit |-> 0]
      <4>1. v.value + w = w /\ -bound = 0
        <5>1. \A m \in Int : 0 + m = m
          OBVIOUS
        <5>2. -bound = 0
          <6>1. bound <= 0 /\ bound >= 0
            BY <1>1, <2>2
          <6>2. -bound \in Int /\ -bound >= 0 /\ -bound <= 0
            BY <1>1, <6>1
          <6> QED
            BY <6>2
        <5> QED
          BY <1>4, <3>1, <5>1, <5>2
      <4>2. CASE w > 0
        BY <1>4, <1>7, <2>2, <3>1, <4>1, <4>2 DEF ReturnStep
      <4>3. CASE w < 0
        <5>1. ~(w > 0)
          BY <1>4, <4>3
        <5> QED
          BY <1>4, <1>7, <2>2, <3>1, <4>1, <4>3, <5>1 DEF ReturnStep
      <4>4. CASE w = 0
        <5>1. ~(w > 0) /\ ~(w < 0)
          BY <4>4
        <5> QED
          BY <1>2, <1>7, <2>2, <3>1, <4>1, <4>4, <5>1 DEF ReturnStep
      <4> QED
        BY <1>4, <4>2, <4>3, <4>4
    <3>3. RunStep(y, e) = [state |-> s, value |-> y.value, crossed |-> y.crossed]
      BY <1>3, <1>7, <2>2 DEF RunStep
    <3>4. ReturnStep(v, w).hit = 0 /\ ReturnStep(v, w).value = 0
      BY <3>2
    <3>5. RunStep(y, e).crossed = y.crossed /\ y.crossed * bound = 0
      BY <1>1, <2>2, <3>3
    <3> QED
      BY <2>2, <3>4, <3>5 DEF Same
  <2>3. CASE y.crossed = 0
    <3>0. v.hit = 0 /\ v.value = y.value
      BY <2>3 DEF Same
    <3>1. CASE y.value + w > bound
      <4>0. ~(y.value + w < -bound)
        BY <1>1, <1>4, <3>1
      <4>1. RunStep(y, e) = [state |-> s, value |-> 0, crossed |-> 1]
        BY <1>7, <2>3, <3>1, <4>0 DEF RunStep
      <4>2. ReturnStep(v, w) = [value |-> bound, hit |-> bound]
        BY <1>7, <3>0, <3>1, <4>0 DEF ReturnStep
      <4>3. RunStep(y, e).crossed = 1 /\ ReturnStep(v, w).value = bound /\ ReturnStep(v, w).hit = bound
        BY <4>1, <4>2
      <4>4. 1 * bound = bound
        BY <1>1
      <4> QED
        BY <4>3, <4>4 DEF Same
    <3>2. CASE y.value + w < -bound
      <4>0. ~(y.value + w > bound)
        BY <1>1, <1>4, <3>2
      <4> DEFINE c == -1
      <4>1. RunStep(y, e) = [state |-> s, value |-> 0, crossed |-> c]
        BY <1>7, <2>3, <3>2, <4>0 DEF RunStep
      <4>2. ReturnStep(v, w) = [value |-> -bound, hit |-> -bound]
        BY <1>7, <3>0, <3>2, <4>0 DEF ReturnStep
      <4>3. RunStep(y, e).crossed = c /\ ReturnStep(v, w).value = -bound /\ ReturnStep(v, w).hit = -bound
        BY <4>1, <4>2
      <4>4. c * bound = -bound /\ (bound = 0 => -bound = 0) /\ c # 0
        BY <1>1
      <4> HIDE DEF c
      <4> QED
        BY <4>3, <4>4 DEF Same
    <3>3. CASE ~(y.value + w > bound) /\ ~(y.value + w < -bound)
      <4>1. RunStep(y, e) = [state |-> s, value |-> y.value + w, crossed |-> 0]
        BY <1>3, <1>7, <2>3, <3>3 DEF RunStep
      <4>2. ReturnStep(v, w) = [value |-> y.value + w, hit |-> 0]
        BY <1>2, <1>7, <3>0, <3>3 DEF ReturnStep
      <4>3. /\ RunStep(y, e).crossed = 0 /\ RunStep(y, e).value = y.value + w
            /\ ReturnStep(v, w).value = y.value + w /\ ReturnStep(v, w).hit = 0
        BY <4>1, <4>2
      <4> QED
        BY <4>3 DEF Same
    <3> QED
      BY <3>1, <3>2, <3>3
  <2> QED
    BY <2>1, <2>2, <2>3
<1> QED
  BY <1>5, <1>6, <1>7 DEF Input

\* Parents and runs.
Boths == ParentState \X Runs

\* Where the calls of child i that can be accepting are after their letter.
Calls(i) ==
  UNION {{<<e.to, RunStep(Start, c)>> : c \in ChildEdges(i, InitialChild, e.symbol)} :
           e \in {d \in nested.edges : d.call = i /\ d.to \in Good}}

\* The entry r of the search stands for an element of X.
Stands(r, X) == \E y \in X : y[1] = r.parent /\ y[2].state = r.state /\ Same(r.v, y[2])

\* It does for all sets of parents and runs that calls start in and letters
\* stay in.
ReachedSoundFor(r) ==
  \A X \in SUBSET Boths : Calls(r.child) \subseteq X /\ BothAfter(r.child, X) \subseteq X => Stands(r, X)

ReachedSound == \A r \in reached : ReachedSoundFor(r)

\* The search is complete when the return values are used.
ReachedClosed ==
  stage # "returns" =>
    /\ Seeds \subseteq reached
    /\ \A r \in reached : Onwards(r) \subseteq reached
    /\ \A i \in Child :
         returns[i] = {ReturnValue(r.v) : r \in {x \in reached : x.child = i /\ x.state \in ChildFinal(i)}}

\* Parent and child read a letter together.
LEMMA BothAfterMember ==
  ASSUME NEW i, NEW X, NEW z
  PROVE  z \in BothAfter(i, X) <=>
           \E x \in X, a \in Symbol : \E d \in ParentEdges(x[1], a), c \in ChildEdges(i, x[2].state, a) :
             d.to \in Good /\ z = <<d.to, RunStep(x[2], c)>>
<1> DEFINE G(x, a) == {y \in ParentEdges(x[1], a) : y.to \in Good}
           B(x, a) == {<<d.to, RunStep(x[2], c)>> : d \in G(x, a), c \in ChildEdges(i, x[2].state, a)}
<1>1. BothAfter(i, X) = UNION {B(x, a) : x \in X, a \in Symbol}
  BY DEF BothAfter
<1>2. \A x, a : z \in B(x, a) <=>
         \E d \in ParentEdges(x[1], a), c \in ChildEdges(i, x[2].state, a) :
           d.to \in Good /\ z = <<d.to, RunStep(x[2], c)>>
  OBVIOUS
<1> HIDE DEF B
<1>3. z \in BothAfter(i, X) <=> \E x \in X, a \in Symbol : z \in B(x, a)
  BY <1>1
<1> QED
  BY <1>2, <1>3

\* What makes a reached configuration sound is a matter of the input alone.
LEMMA SameReached ==
  ASSUME UNCHANGED input, NEW r
  PROVE  /\ ReachedSoundFor(r)' <=> ReachedSoundFor(r)
         /\ Seeds' = Seeds /\ Onwards(r)' = Onwards(r)
<1>1. nested' = nested /\ finVal' = finVal /\ bound' = bound /\ Acc0' = Acc0 /\ Good' = Good
  BY SameInput DEF Good, ProperAccepting, ParentGraph
<1>2. \A q : RunOK(q)' <=> RunOK(q)
  BY <1>1 DEF RunOK
<1>3. \A q, e : RunStep(q, e)' = RunStep(q, e)
  BY <1>1 DEF RunStep
<1>4. Start' = Start
  BY <1>1 DEF Start
<1>5. \A i : Calls(i)' = Calls(i)
  BY <1>1, <1>3, <1>4 DEF Calls, ChildEdges
<1>6. \A i, X : BothAfter(i, X)' = BothAfter(i, X)
  BY <1>1, <1>3 DEF BothAfter, ChildEdges, ParentEdges
<1>7. \A v, y : Same(v, y)' <=> Same(v, y)
  BY <1>1 DEF Same
<1>8. Boths' = Boths
  BY <1>2 DEF Boths, Runs
<1>9. \A v, w : ReturnStep(v, w)' = ReturnStep(v, w)
  BY <1>1 DEF ReturnStep, ApplyBound
<1>10. Seeds' = Seeds
  BY <1>1, <1>9 DEF Seeds, ChildEdges
<1>11. Onwards(r)' = Onwards(r)
  BY <1>1, <1>9 DEF Onwards, ChildEdges, ParentEdges
<1>12. ReachedSoundFor(r)' <=> ReachedSoundFor(r)
  BY <1>5, <1>6, <1>7, <1>8 DEF ReachedSoundFor, Stands
<1> QED
  BY <1>10, <1>11, <1>12

\* The configurations the search starts from stand for calls.
LEMMA SeedsSound ==
  ASSUME Input, NEW r \in Seeds
  PROVE  ReachedSoundFor(r)
<1>1. PICK e \in nested.edges :
        /\ e.call \in Child /\ e.to \in Good
        /\ \E c \in ChildEdges(e.call, InitialChild, e.symbol) :
             r = [child |-> e.call, parent |-> e.to, state |-> c.to,
                  v |-> ReturnStep([value |-> Acc0, hit |-> 0], c.weight)]
  BY DEF Seeds
<1>2. PICK c \in ChildEdges(e.call, InitialChild, e.symbol) :
        r = [child |-> e.call, parent |-> e.to, state |-> c.to,
             v |-> ReturnStep([value |-> Acc0, hit |-> 0], c.weight)]
  BY <1>1
<1> DEFINE i == e.call
           v == [value |-> Acc0, hit |-> 0]
           y == RunStep(Start, c)
<1>3. Start \in Runs /\ Start.state = InitialChild /\ Start \in Run /\ RunOK(Start)
  BY StartRun DEF Runs
<1>4. c.weight \in Int /\ y.state = c.to
  BY <1>1, <1>3, ChildEdgeType, EncodedStep
<1>5. v \in Value
  BY Acc0Type DEF Value
<1>6. Same(ReturnStep(v, c.weight), y)
  <2>1. Same(v, Start)
    BY SameStart
  <2> HIDE DEF v
  <2> QED
    BY <1>3, <1>4, <1>5, <2>1, SameStep
<1>7. r.child = i /\ r.parent = e.to /\ r.state = c.to /\ r.v = ReturnStep(v, c.weight)
  BY <1>2
<1>8. <<e.to, y>> \in Calls(i)
  BY <1>1 DEF Calls
<1> SUFFICES ASSUME NEW X \in SUBSET Boths, Calls(r.child) \subseteq X
             PROVE  Stands(r, X)
  BY DEF ReachedSoundFor
<1> DEFINE z == <<e.to, y>>
<1>9. z \in X /\ z[1] = e.to /\ z[2] = y
  BY <1>7, <1>8
<1> HIDE DEF y, v, z
<1> QED
  BY <1>4, <1>6, <1>7, <1>9 DEF Stands

\* So do those it goes on to.
LEMMA OnwardsSound ==
  ASSUME Input, NEW r \in ReachedType, ReachedSoundFor(r), NEW u \in Onwards(r)
  PROVE  ReachedSoundFor(u)
<1>0. r.child \in Child /\ r.v \in Value
  BY DEF ReachedType, Value
<1>1. PICK a \in Symbol : \E e \in ParentEdges(r.parent, a), c \in ChildEdges(r.child, r.state, a) :
        /\ e.to \in Good
        /\ u = [child |-> r.child, parent |-> e.to, state |-> c.to, v |-> ReturnStep(r.v, c.weight)]
  BY DEF Onwards
<1>2. PICK e \in ParentEdges(r.parent, a), c \in ChildEdges(r.child, r.state, a) :
        /\ e.to \in Good
        /\ u = [child |-> r.child, parent |-> e.to, state |-> c.to, v |-> ReturnStep(r.v, c.weight)]
  BY <1>1
<1>3. u.child = r.child /\ u.parent = e.to /\ u.state = c.to /\ u.v = ReturnStep(r.v, c.weight)
  BY <1>2
<1> SUFFICES ASSUME NEW X \in SUBSET Boths, Calls(r.child) \subseteq X, BothAfter(r.child, X) \subseteq X
             PROVE  Stands(u, X)
  BY <1>3 DEF ReachedSoundFor
<1>4. PICK y \in X : y[1] = r.parent /\ y[2].state = r.state /\ Same(r.v, y[2])
  BY DEF ReachedSoundFor, Stands
<1>5. y[2] \in Runs /\ y[2] \in Run /\ RunOK(y[2])
  BY DEF Boths, Runs
<1> DEFINE q == RunStep(y[2], c)
           z == <<e.to, q>>
<1>6. c.weight \in Int /\ q.state = c.to
  BY <1>0, <1>4, <1>5, ChildEdgeType, EncodedStep
<1>7. Same(ReturnStep(r.v, c.weight), q)
  BY <1>0, <1>4, <1>5, <1>6, SameStep
<1>8. z \in BothAfter(r.child, X)
  <2>1. e \in ParentEdges(y[1], a) /\ e.to \in Good /\ c \in ChildEdges(r.child, y[2].state, a)
    BY <1>2, <1>4
  <2> QED
    BY <2>1, BothAfterMember
<1>9. z \in X /\ z[1] = e.to /\ z[2] = q
  BY <1>8
<1> HIDE DEF q, z
<1> QED
  BY <1>3, <1>6, <1>7, <1>9 DEF Stands

\* What is reached stays sound, and is closed when the search is over.
LEMMA ReachedNext ==
  ASSUME Inv, ReachedSound, ReachedClosed, [Next]_vars
  PROVE  ReachedSound' /\ ReachedClosed'
<1>0. Input /\ reached \subseteq ReachedType
  BY InputType DEF Inv, FlattenTypeOK, ReachedType
<1>1. CASE GrowReturns
  <2> DEFINE grown == reached \cup Seeds \cup UNION {Onwards(r) : r \in reached}
  <2>1. /\ UNCHANGED input /\ reached' = grown
        /\ stage' = IF grown = reached THEN "live" ELSE "returns"
        /\ returns' = [i \in Child |->
              {ReturnValue(r.v) : r \in {x \in grown : x.child = i /\ x.state \in ChildFinal(i)}}]
    BY <1>1 DEF GrowReturns
  <2>2. \A r \in grown : ReachedSoundFor(r)
    BY <1>0, SeedsSound, OnwardsSound DEF ReachedSound
  <2>3. ReachedSound'
    BY <2>1, <2>2, SameReached DEF ReachedSound
  <2>4. ReachedClosed'
    <3>1. CASE grown = reached
      <4>1. Seeds \subseteq grown /\ \A r \in grown : Onwards(r) \subseteq grown
        BY <3>1
      <4>2. \A i \in Child : ChildFinal(i)' = ChildFinal(i)
        BY <2>1, SameInput DEF ChildFinal
      <4> HIDE DEF grown
      <4>3. \A i \in Child : returns'[i] =
              {ReturnValue(r.v) : r \in {x \in reached' : x.child = i /\ x.state \in ChildFinal(i)'}}
        BY <2>1, <4>2
      <4>4. \A v : ReturnValue(v)' = ReturnValue(v)
        BY DEF ReturnValue
      <4> QED
        BY <2>1, <4>1, <4>3, <4>4, SameReached DEF ReachedClosed
    <3>2. CASE grown # reached
      BY <2>1, <3>2 DEF ReachedClosed
    <3> QED
      BY <3>1, <3>2
  <2> QED
    BY <2>3, <2>4
<1>2. CASE GrowLive \/ Letter \/ UNCHANGED vars
  <2>1. UNCHANGED <<input, reached, returns>> /\ (stage' # "returns" => stage # "returns")
    BY <1>2 DEF GrowLive, Letter, Call, SilentStep, CallEdge, SilentEdge, vars, tables
  <2>2. \A i \in Child : ChildFinal(i)' = ChildFinal(i)
    BY <2>1, SameInput DEF ChildFinal
  <2> QED
    BY <2>1, <2>2, SameReached DEF ReachedSound, ReachedClosed, ReturnValue
<1> QED
  BY <1>1, <1>2 DEF Next

\* The runs that parents and runs move to are runs.
LEMMA BothAfterType ==
  ASSUME Input, NEW i \in Child, NEW X \in SUBSET Boths
  PROVE  BothAfter(i, X) \in SUBSET Boths
<1> SUFFICES ASSUME NEW z \in BothAfter(i, X) PROVE z \in Boths
  OBVIOUS
<1>1. PICK x \in X, a \in Symbol : \E d \in ParentEdges(x[1], a), c \in ChildEdges(i, x[2].state, a) :
        d.to \in Good /\ z = <<d.to, RunStep(x[2], c)>>
  BY BothAfterMember
<1>2. PICK d \in ParentEdges(x[1], a), c \in ChildEdges(i, x[2].state, a) :
        d.to \in Good /\ z = <<d.to, RunStep(x[2], c)>>
  BY <1>1
<1>3. x[2] \in Run /\ RunOK(x[2])
  BY DEF Boths, Runs
<1>4. RunStep(x[2], c) \in Runs
  BY <1>3, EncodedStep DEF Runs
<1>5. d.to \in ParentState
  BY <1>2 DEF Good
<1> QED
  BY <1>2, <1>4, <1>5 DEF Boths

FirstCalls(e) == {<<e.to, RunStep(Start, c)>> : c \in ChildEdges(e.call, InitialChild, e.symbol)}

\* The first letter of a call leads to pairs of a parent state and a run.
LEMMA FirstCallsType ==
  ASSUME Input, NEW e \in nested.edges, e.call \in Child
  PROVE  FirstCalls(e) \in SUBSET Boths
<1>1. e.to \in ParentState
  BY DEF Input, NestedAutomaton, ParentEdge
<1>2. Start \in Run /\ RunOK(Start) /\ Start.state = InitialChild
  BY StartRun
<1>3. \A c \in ChildEdges(e.call, InitialChild, e.symbol) : RunStep(Start, c) \in Runs
  BY <1>2, EncodedStep DEF Runs
<1> QED
  BY <1>1, <1>3 DEF FirstCalls, Boths

\* What CallsWithin computes, letter by letter.
LEMMA CallsWithinSteps ==
  ASSUME Input, NEW e \in nested.edges, e.call \in Child
  PROVE  /\ CallsWithin(e)[0] = FirstCalls(e)
         /\ \A n \in Nat : CallsWithin(e)[n + 1] = CallsWithin(e)[n] \cup BothAfter(e.call, CallsWithin(e)[n])
         /\ \A n \in Nat : CallsWithin(e)[n] \in SUBSET Boths
<1> DEFINE S == SUBSET Boths
           base == FirstCalls(e)
           More(Q) == Q \cup BothAfter(e.call, Q)
           step == [x \in Nat \X S |-> More(x[2])]
           Def(h) == [n \in Nat |-> IF n = 0 THEN base ELSE More(h[n - 1])]
           W == CallsWithin(e)
<1>1. \A Q \in S : More(Q) \in S
  BY BothAfterType
<1>2. W = CHOOSE h : h = Def(h)
  BY DEF CallsWithin, FirstCalls
<1> HIDE DEF More, W
<1>3. step \in [Nat \X S -> S]
  BY <1>1
<1>4. \A n \in Nat, Q \in S : step[<<n, Q>>] = More(Q)
  OBVIOUS
<1>5. base \in S
  BY FirstCallsType
<1> HIDE DEF step, S, base
<1>6. PICK h : IteratesForever(h, S, base, step)
  BY <1>3, <1>5, RecursionForever
<1>7. h \in [Nat -> S] /\ h[0] = base /\ \A n \in Nat : h[n + 1] = More(h[n])
  <2>1. h \in [Nat -> S] /\ h[0] = base /\ \A n \in Nat : h[n + 1] = step[<<n + 1, h[n]>>]
    BY <1>6 DEF IteratesForever
  <2>2. ASSUME NEW n \in Nat
        PROVE  h[n + 1] = More(h[n])
    <3>1. n + 1 \in Nat /\ h[n] \in S
      BY <2>1
    <3> QED
      BY <1>4, <2>1, <3>1
  <2> QED
    BY <2>1, <2>2
<1>8. h = Def(h)
  <2>1. ASSUME NEW n \in Nat
        PROVE  h[n] = Def(h)[n]
    <3>1. CASE n = 0
      BY <1>7, <3>1
    <3>2. CASE n # 0
      <4>1. n - 1 \in Nat /\ (n - 1) + 1 = n
        BY <3>2
      <4>2. h[(n - 1) + 1] = More(h[n - 1])
        BY <1>7, <4>1
      <4> QED
        BY <3>2, <4>1, <4>2
    <3> QED
      BY <3>1, <3>2
  <2> QED
    BY <1>7, <2>1
<1>9. W = Def(W)
  BY <1>2, <1>8
<1>10. W[0] = base /\ \A n \in Nat : W[n + 1] = More(W[n])
  <2>1. \A n \in Nat : Def(W)[n] = IF n = 0 THEN base ELSE More(W[n - 1])
    OBVIOUS
  <2> HIDE DEF Def
  <2>2. \A n \in Nat : W[n] = IF n = 0 THEN base ELSE More(W[n - 1])
    BY <1>9, <2>1
  <2>3. ASSUME NEW n \in Nat
        PROVE  W[n + 1] = More(W[n])
    <3>1. n + 1 \in Nat /\ n + 1 # 0 /\ (n + 1) - 1 = n
      OBVIOUS
    <3> QED
      BY <2>2, <3>1
  <2> QED
    BY <2>2, <2>3
<1>11. \A n \in Nat : W[n] \in S
  <2> DEFINE T == {n \in Nat : W[n] \in S}
  <2>1. 0 \in T
    BY <1>5, <1>10
  <2>2. \A n \in Nat : n \in T => n + 1 \in T
    BY <1>1, <1>10
  <2> HIDE DEF T
  <2>3. Nat \subseteq T
    BY <2>1, <2>2, SetInduction
  <2> QED
    BY <2>3 DEF T
<1> QED
  BY <1>10, <1>11 DEF W, More, S, base

\* The calls of child i after their letter, and after any letters that follow.
AllCalls(i) == UNION {LaterCalls(e) : e \in {d \in nested.edges : d.call = i}}

\* All calls of a child contain their continuations.
LEMMA AllCallsClosed ==
  ASSUME Input, Lengths = Nat, NEW i \in Child
  PROVE  AllCalls(i) \in SUBSET Boths /\ Calls(i) \subseteq AllCalls(i)
         /\ BothAfter(i, AllCalls(i)) \subseteq AllCalls(i)
<1> DEFINE E == {d \in nested.edges : d.call = i /\ d.to \in Good}
           W == [e \in E |-> CallsWithin(e)]
           A == AllCalls(i)
<1>1. A = UNION {UNION {W[e][n] : n \in Nat} : e \in E}
  <2>1. \A e \in nested.edges : e.to \notin Good => LaterCalls(e) = {}
    BY DEF LaterCalls
  <2>2. \A e \in E : LaterCalls(e) = UNION {W[e][n] : n \in Nat}
    BY DEF LaterCalls
  <2>3. A = UNION {LaterCalls(e) : e \in E}
    BY <2>1 DEF AllCalls
  <2> HIDE DEF A, W, E
  <2> QED
    BY <2>2, <2>3
<1>2. \A e \in E : /\ W[e][0] = FirstCalls(e)
                   /\ \A n \in Nat : W[e][n + 1] = W[e][n] \cup BothAfter(i, W[e][n])
                   /\ \A n \in Nat : W[e][n] \in SUBSET Boths
  <2> SUFFICES ASSUME NEW e \in E
               PROVE  /\ CallsWithin(e)[0] = FirstCalls(e)
                      /\ \A n \in Nat : CallsWithin(e)[n + 1] = CallsWithin(e)[n] \cup BothAfter(i, CallsWithin(e)[n])
                      /\ \A n \in Nat : CallsWithin(e)[n] \in SUBSET Boths
    OBVIOUS
  <2>1. e \in nested.edges /\ e.call = i
    OBVIOUS
  <2> QED
    BY <2>1, CallsWithinSteps
<1>3. Calls(i) = UNION {FirstCalls(e) : e \in E}
  BY DEF Calls, FirstCalls
<1> HIDE DEF W, A, E
<1>4. A \in SUBSET Boths
  BY <1>1, <1>2
<1>5. Calls(i) \subseteq A
  <2> SUFFICES ASSUME NEW e \in E, NEW z \in FirstCalls(e) PROVE z \in A
    BY <1>3
  <2>1. z \in W[e][0] /\ 0 \in Nat
    BY <1>2
  <2> QED
    BY <1>1, <2>1
<1>6. ASSUME NEW z \in BothAfter(i, A)
      PROVE  z \in A
  <2>1. PICK x \in A : \E a \in Symbol :
          \E d \in ParentEdges(x[1], a), c \in ChildEdges(i, x[2].state, a) :
             d.to \in Good /\ z = <<d.to, RunStep(x[2], c)>>
    BY BothAfterMember
  <2>2. PICK e \in E, n \in Nat : x \in W[e][n]
    BY <1>1
  <2>3. z \in BothAfter(i, W[e][n])
    BY <2>1, <2>2, BothAfterMember
  <2>4. z \in W[e][n + 1] /\ n + 1 \in Nat
    BY <1>2, <2>3
  <2> QED
    BY <1>1, <2>4
<1> QED
  BY <1>4, <1>5, <1>6 DEF A

\* The search has an entry for each of the parents and runs of X.
Found(i, X) ==
  \A x \in X : \E r \in reached : r.child = i /\ r.parent = x[1] /\ r.state = x[2].state /\ Same(r.v, x[2])

\* The search finds the first letter of every call.
LEMMA FirstFound ==
  ASSUME Input, ReachedClosed, stage # "returns",
         NEW e \in nested.edges, e.call \in Child, e.to \in Good
  PROVE  Found(e.call, FirstCalls(e))
<1> SUFFICES ASSUME NEW c \in ChildEdges(e.call, InitialChild, e.symbol)
             PROVE  \E r \in reached : /\ r.child = e.call /\ r.parent = e.to
                                       /\ r.state = RunStep(Start, c).state
                                       /\ Same(r.v, RunStep(Start, c))
  <2>1. ASSUME NEW c \in ChildEdges(e.call, InitialChild, e.symbol), NEW x, x = <<e.to, RunStep(Start, c)>>
        PROVE  x[1] = e.to /\ x[2] = RunStep(Start, c)
    BY <2>1
  <2> QED
    BY <2>1 DEF Found, FirstCalls
<1> DEFINE v == [value |-> Acc0, hit |-> 0]
           q == RunStep(Start, c)
           r == [child |-> e.call, parent |-> e.to, state |-> c.to, v |-> ReturnStep(v, c.weight)]
<1>1. Start \in Runs /\ Start.state = InitialChild /\ Start \in Run /\ RunOK(Start)
  BY StartRun DEF Runs
<1>2. c.weight \in Int /\ q.state = c.to
  BY <1>1, ChildEdgeType, EncodedStep
<1>3. v \in Value
  BY Acc0Type DEF Value
<1>4. Same(ReturnStep(v, c.weight), q)
  <2>1. Same(v, Start)
    BY SameStart
  <2> HIDE DEF v
  <2> QED
    BY <1>1, <1>2, <1>3, <2>1, SameStep
<1>5. r \in Seeds
  <2> DEFINE p == <<e, c>>
             D == {d \in nested.edges : d.call \in Child /\ d.to \in Good}
             P == UNION {{d} \X ChildEdges(d.call, InitialChild, d.symbol) : d \in D}
  <2>1. p \in P /\ p[1] = e /\ p[2] = c
    <3>1. e \in D
      OBVIOUS
    <3> HIDE DEF D
    <3> QED
      BY <3>1
  <2>2. Seeds = {[child |-> m[1].call, parent |-> m[1].to, state |-> m[2].to,
                  v |-> ReturnStep(v, m[2].weight)] : m \in P}
    BY DEF Seeds
  <2> HIDE DEF p, P, v
  <2> QED
    BY <2>1, <2>2
<1>6. r \in reached
  BY <1>5 DEF ReachedClosed
<1>7. r.child = e.call /\ r.parent = e.to /\ r.state = c.to /\ r.v = ReturnStep(v, c.weight)
  OBVIOUS
<1> HIDE DEF q, v, r
<1>8. r.state = q.state /\ Same(r.v, q)
  BY <1>2, <1>4, <1>7
<1> QED
  BY <1>6, <1>7, <1>8 DEF q

\* With a set of calls it finds their continuations.
LEMMA AfterFound ==
  ASSUME Input, ReachedClosed, stage # "returns", reached \subseteq ReachedType,
         NEW i \in Child, NEW X \in SUBSET Boths, Found(i, X)
  PROVE  Found(i, BothAfter(i, X))
<1> SUFFICES ASSUME NEW z \in BothAfter(i, X)
             PROVE  \E r \in reached : r.child = i /\ r.parent = z[1] /\ r.state = z[2].state /\ Same(r.v, z[2])
  BY DEF Found
<1>1. PICK x \in X, a \in Symbol : \E d \in ParentEdges(x[1], a), c \in ChildEdges(i, x[2].state, a) :
        d.to \in Good /\ z = <<d.to, RunStep(x[2], c)>>
  BY BothAfterMember
<1>2. PICK d \in ParentEdges(x[1], a), c \in ChildEdges(i, x[2].state, a) :
        d.to \in Good /\ z = <<d.to, RunStep(x[2], c)>>
  BY <1>1
<1>3. PICK r \in reached : r.child = i /\ r.parent = x[1] /\ r.state = x[2].state /\ Same(r.v, x[2])
  BY DEF Found
<1> DEFINE y == x[2]
           q == RunStep(y, c)
           u == [child |-> r.child, parent |-> d.to, state |-> c.to, v |-> ReturnStep(r.v, c.weight)]
<1>4. y \in Runs /\ y \in Run /\ RunOK(y)
  BY DEF Boths, Runs
<1>5. c.weight \in Int /\ q.state = c.to
  BY <1>4, ChildEdgeType, EncodedStep
<1>6. r.v \in Value
  BY DEF ReachedType, Value
<1>7. Same(ReturnStep(r.v, c.weight), q)
  <2>1. Same(r.v, y)
    BY <1>3
  <2> HIDE DEF y
  <2> QED
    BY <1>4, <1>5, <1>6, <2>1, SameStep
<1>8. u \in Onwards(r)
  <2>1. d \in {e \in ParentEdges(r.parent, a) : e.to \in Good} /\ c \in ChildEdges(r.child, r.state, a)
    BY <1>2, <1>3
  <2> DEFINE p == <<d, c>>
             P == UNION {{e \in ParentEdges(r.parent, b) : e.to \in Good} \X ChildEdges(r.child, r.state, b) : b \in Symbol}
  <2>2. p \in P /\ p[1] = d /\ p[2] = c
    BY <2>1
  <2>3. Onwards(r) = {[child |-> r.child, parent |-> m[1].to, state |-> m[2].to,
                       v |-> ReturnStep(r.v, m[2].weight)] : m \in P}
    BY DEF Onwards
  <2> HIDE DEF p, P
  <2> QED
    BY <2>2, <2>3
<1>9. u \in reached
  BY <1>8 DEF ReachedClosed
<1>10. u.child = i /\ u.parent = d.to /\ u.state = c.to /\ u.v = ReturnStep(r.v, c.weight)
  BY <1>3
<1>11. z[1] = d.to /\ z[2] = q
  BY <1>2
<1> HIDE DEF u, q
<1>12. u.parent = z[1] /\ u.state = z[2].state /\ Same(u.v, z[2])
  BY <1>5, <1>7, <1>10, <1>11
<1> QED
  BY <1>9, <1>10, <1>12

\* Hence it finds every call.
LEMMA AllFound ==
  ASSUME Input, ReachedClosed, stage # "returns", reached \subseteq ReachedType, Lengths = Nat,
         NEW i \in Child
  PROVE  Found(i, AllCalls(i))
<1>1. ASSUME NEW e \in nested.edges, e.call = i, e.to \in Good, NEW n \in Nat
      PROVE  Found(i, CallsWithin(e)[n])
  <2> DEFINE W == CallsWithin(e)
             T == {m \in Nat : Found(i, W[m])}
  <2>1. /\ W[0] = FirstCalls(e)
        /\ \A m \in Nat : W[m + 1] = W[m] \cup BothAfter(i, W[m])
        /\ \A m \in Nat : W[m] \in SUBSET Boths
    BY <1>1, CallsWithinSteps
  <2> HIDE DEF W
  <2>2. 0 \in T
    BY <1>1, <2>1, FirstFound
  <2>3. ASSUME NEW m \in Nat, m \in T
        PROVE  m + 1 \in T
    <3> DEFINE Q == W[m]
    <3>1. Found(i, Q) /\ Q \in SUBSET Boths /\ W[m + 1] = Q \cup BothAfter(i, Q)
      BY <2>1, <2>3
    <3> HIDE DEF Q
    <3>2. Found(i, BothAfter(i, Q))
      BY <3>1, AfterFound
    <3>3. Found(i, Q \cup BothAfter(i, Q))
      BY <3>1, <3>2 DEF Found
    <3>4. m + 1 \in Nat /\ Found(i, W[m + 1])
      BY <3>1, <3>3
    <3> QED
      BY <3>4
  <2> HIDE DEF T
  <2>4. Nat \subseteq T
    BY <2>2, <2>3, SetInduction
  <2> QED
    BY <2>4 DEF T, W
<1>2. ASSUME NEW x \in AllCalls(i)
      PROVE  \E e \in nested.edges, n \in Nat : e.call = i /\ e.to \in Good /\ x \in CallsWithin(e)[n]
  <2>1. PICK e \in nested.edges : e.call = i /\ x \in LaterCalls(e)
    BY DEF AllCalls
  <2> QED
    BY <2>1 DEF LaterCalls
<1>3. ASSUME NEW x \in AllCalls(i)
      PROVE  \E r \in reached : r.child = i /\ r.parent = x[1] /\ r.state = x[2].state /\ Same(r.v, x[2])
  <2>1. PICK e \in nested.edges, n \in Nat : e.call = i /\ e.to \in Good /\ x \in CallsWithin(e)[n]
    BY <1>2
  <2> DEFINE Q == CallsWithin(e)[n]
  <2>2. Found(i, Q) /\ x \in Q
    BY <1>1, <2>1
  <2> HIDE DEF Q
  <2> QED
    BY <2>2 DEF Found
<1> QED
  BY <1>3 DEF Found

\* The return values found are those of the calls.
LEMMA InvReturns ==
  ASSUME Inv, ReachedSound, ReachedClosed, Lengths = Nat
  PROVE  ReturnsExact
<1>0. Input /\ reached \subseteq ReachedType
  BY InputType DEF Inv, FlattenTypeOK, ReachedType
<1> SUFFICES ASSUME stage = "live", NEW i \in Child
             PROVE  returns[i] = {Result(x[2]) : x \in {y \in AllCalls(i) : y[2].state \in ChildFinal(i)}}
  BY DEF ReturnsExact, AllCalls
<1>1. returns[i] = {ReturnValue(r.v) : r \in {x \in reached : x.child = i /\ x.state \in ChildFinal(i)}}
  BY DEF ReachedClosed
<1>2. AllCalls(i) \in SUBSET Boths /\ Calls(i) \subseteq AllCalls(i) /\ BothAfter(i, AllCalls(i)) \subseteq AllCalls(i)
  BY <1>0, AllCallsClosed
<1>3. ASSUME NEW r \in reached, r.child = i, r.state \in ChildFinal(i)
      PROVE  \E x \in AllCalls(i) : x[2].state \in ChildFinal(i) /\ Result(x[2]) = ReturnValue(r.v)
  <2>1. PICK x \in AllCalls(i) : x[2].state = r.state /\ Same(r.v, x[2])
    BY <1>2, <1>3 DEF ReachedSound, ReachedSoundFor, Stands
  <2>2. x[2] \in Runs /\ r.v \in Value
    BY <1>0, <1>2 DEF Boths, ReachedType, Value
  <2> QED
    BY <1>0, <1>3, <2>1, <2>2, SameResult
<1>4. ASSUME NEW x \in AllCalls(i), x[2].state \in ChildFinal(i)
      PROVE  \E r \in reached : r.child = i /\ r.state \in ChildFinal(i) /\ ReturnValue(r.v) = Result(x[2])
  <2>1. PICK r \in reached : r.child = i /\ r.state = x[2].state /\ Same(r.v, x[2])
    BY <1>0, AllFound DEF Found
  <2>2. x[2] \in Runs /\ r.v \in Value
    BY <1>0, <1>2 DEF Boths, ReachedType, Value
  <2> QED
    BY <1>0, <1>4, <2>1, <2>2, SameResult
<1> QED
  BY <1>1, <1>3, <1>4

\* The values guessed for a child are exactly those that its runs return along
\* words on which the parent can still be accepting, however long.
THEOREM ReturnsCorrect == Lengths = Nat => (Spec => []ReturnsExact)
<1> SUFFICES ASSUME Lengths = Nat PROVE Spec => []ReturnsExact
  OBVIOUS
<1>1. Init => ReachedSound /\ ReachedClosed
  BY DEF Init, ReachedSound, ReachedClosed
<1>2. Inv /\ ReachedSound /\ ReachedClosed /\ [Next]_vars => Inv' /\ ReachedSound' /\ ReachedClosed'
  BY NextInv, ReachedNext
<1>3. Inv /\ ReachedSound /\ ReachedClosed => ReturnsExact
  BY InvReturns
<1> QED
  BY <1>1, <1>2, <1>3, InitInv, PTL DEF Spec
=============================================================================
