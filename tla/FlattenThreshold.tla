-------------------------- MODULE FlattenThreshold --------------------------
(***************************************************************************)
(* The flattenings of nested automata that decide one threshold x, for     *)
(* children with Max, Min, SumPlus or SumMinus under a parent with Inf or  *)
(* Sup: flatten_MinMax_Inf_cached, flatten_SumPlusMinus_Inf_cached,        *)
(* flatten_MinMax_Sup_witness_cached, flatten_SumPlusMinus_Sup_witness_-   *)
(* cached.                                                                 *)
(*                                                                         *)
(* What a call guesses is whether its child returns a value of at least x  *)
(* (1) or less (0), and this is the weight of the edge.  For Sup one call  *)
(* with such a value is enough: at most one running call at a time is the  *)
(* witness and guesses 1, of all others only the return matters (the code  *)
(* keeps them in bags of their own, B1 and B2, next to the slots W1 and W2 *)
(* of the witness; here a guess of its own tells them apart).              *)
(*                                                                         *)
(* A configuration is a state of the child and the progress of a run       *)
(* towards x, and an obligation keeps the best progress for each state.    *)
(* tracked follows one call by the definition of the runs of its child, as *)
(* in FlattenRegular.                                                      *)
(***************************************************************************)
EXTENDS NestedAutomata

CONSTANTS FinVals,     \* the value functions of the children
          InfVals,     \* those of the parent
          Thresholds,
          Infinity,    \* THREXT_INF, above all sums of weights
          MaxSum,      \* sums beyond it are not told apart by the runs, for TLC
          Lengths      \* how far the reference definitions look: Nat, or a bound for TLC

ASSUME ThresholdAssumption ==
  /\ FinVals \subseteq {"Max", "Min", "SumPlus", "SumMinus"}
  /\ InfVals \subseteq {"Inf", "Sup"}
  /\ Thresholds \subseteq Int
  /\ MaxSum \in Nat
  /\ \A x \in Thresholds : -MaxSum < x /\ x < MaxSum
  /\ Infinity \in Nat /\ MaxSum <= Infinity
  /\ Lengths \subseteq Nat

VARIABLES
  finVal, infVal, threshold,
  stage,         \* "tables": computing the next three; "flatten"
  least, most,   \* min_extra, max_extra: costs of the ways to final states
  raised,        \* the queue of the search for max_extra
  live,          \* mm_live
  parent, lastGuess, P1, P2, phase, epochNonempty,   \* Key
  tracked,       \* one call, by the definition of its child's runs
  beat           \* flips at each letter

input == <<nested, finVal, infVal, threshold>>
tables == <<least, most, raised, live>>
buchi == <<parent, lastGuess, P1, P2, phase, epochNonempty>>
vars == <<input, stage, tables, buchi, tracked, beat>>

Larger(x, y) == IF x >= y THEN x ELSE y
Smaller(x, y) == IF x <= y THEN x ELSE y
LargestOf(S) == CHOOSE x \in S : \A y \in S : x >= y
SmallestOf(S) == CHOOSE x \in S : \A y \in S : x <= y

Below == 0
AtLeast == 1
AnyReturn == 2    \* what a call that is no witness guesses
Guess == {Below, AtLeast, AnyReturn}

Sums == {"SumPlus", "SumMinus"}

-----------------------------------------------------------------------------
(* Progress                                                                *)

\* The sum is on one side of the threshold whatever the letters.
Forced == \/ finVal = "SumPlus" /\ threshold <= 0
          \/ finVal = "SumMinus" /\ threshold > 0
ForcedGuess == IF finVal = "SumPlus" THEN AtLeast ELSE Below

Goal == CASE Forced -> 0
          [] finVal = "SumPlus" /\ ~Forced -> threshold
          [] finVal = "SumMinus" /\ ~Forced -> -threshold
          [] OTHER -> 1

\* Where progress stops: beyond it nothing changes any more.
Cap == IF finVal = "SumMinus" /\ ~Forced THEN Goal + 1 ELSE Goal

\* thrext_init_prog
InitProg == IF finVal = "Min" THEN 1 ELSE 0

Cost(w) == IF w < 0 THEN -w ELSE w

\* thrext_step_prog
StepProg(prog, w) ==
  CASE finVal = "Max" -> IF prog = 1 \/ w >= threshold THEN 1 ELSE 0
    [] finVal = "Min" -> IF prog = 1 /\ w >= threshold THEN 1 ELSE 0
    [] finVal \in Sums -> Smaller(prog + Cost(w), Cap)

Move(guess, c, e) == <<e.to, IF guess = AnyReturn THEN 0 ELSE StepProg(c[2], e.weight)>>

\* Fault: a sum that has just crossed the threshold still counts.
DischargeOKLate(guess, prog) ==
  \/ guess = AnyReturn
  \/ Forced /\ guess = ForcedGuess
  \/ /\ ~Forced
     /\ \/ finVal \in {"Max", "Min"} /\ prog = guess
        \/ finVal = "SumPlus" /\ guess = AtLeast /\ prog >= Goal
        \/ finVal = "SumPlus" /\ guess = Below /\ prog < Goal
        \/ finVal = "SumMinus" /\ guess = AtLeast /\ prog <= Cap
        \/ finVal = "SumMinus" /\ guess = Below /\ prog >= Cap

\* thrext_discharge_ok: a run that stops here returns what was guessed.
DischargeOK(guess, prog) ==
  \/ guess = AnyReturn
  \/ Forced /\ guess = ForcedGuess
  \/ /\ ~Forced
     /\ \/ finVal \in {"Max", "Min"} /\ prog = guess
        \/ finVal = "SumPlus" /\ guess = AtLeast /\ prog >= Goal
        \/ finVal = "SumPlus" /\ guess = Below /\ prog < Goal
        \/ finVal = "SumMinus" /\ guess = AtLeast /\ prog <= Goal
        \/ finVal = "SumMinus" /\ guess = Below /\ prog >= Cap

-----------------------------------------------------------------------------
(* Live configurations: those from which a run can return what was guessed *)

ChildGraph(i) == [s \in ChildState |-> {e.to : e \in {d \in nested.child[i].edges : d.from = s}}]

\* ChildTables::live
CanReturn(i) == {s \in ChildState : \E t \in ChildFinal(i) : Reaches(ChildGraph(i), s, t)}

\* Fault: the search for the most starts from the final states alone.
GainSeedsFinal(i) == ChildFinal(i)

\* Every live state: a gain may hide behind an exit that costs nothing.
GainSeeds(i) == CanReturn(i)

EdgesFrom(i, s) == {e \in nested.child[i].edges : e.from = s}

Add(m, n) == IF m = Infinity \/ n = Infinity THEN Infinity ELSE m + n

LeastBelow(i, s) ==
  SmallestOf({least[i][s]} \cup {Add(least[i][e.to], Cost(e.weight)) : e \in EdgesFrom(i, s)})

\* Over edges within live states whose target was raised last.
MostBelow(i, s) ==
  LargestOf({most[i][s]} \cup
    {Smaller(most[i][e.to] + Cost(e.weight), Cap) :
       e \in {d \in EdgesFrom(i, s) : d.to \in raised[i] /\ s \in CanReturn(i)}})

\* thrext_build_sum_cutoffs: the least cost from a state to a final one, and
\* the most, up to the cap.
GrowCutoffs ==
  /\ stage = "tables"
  /\ finVal \in Sums
  /\ least' = [i \in Child |-> [s \in ChildState |-> LeastBelow(i, s)]]
  /\ most' = [i \in Child |-> [s \in ChildState |-> MostBelow(i, s)]]
  /\ raised' = [i \in Child |-> {s \in ChildState : MostBelow(i, s) > most[i][s]}]
  /\ stage' = IF least' = least /\ most' = most THEN "flatten" ELSE "tables"
  /\ UNCHANGED <<input, live, buchi, tracked, beat>>

Target == [child : Child, guess : {Below, AtLeast}, state : ChildState, prog : {0, 1}]

Ending(i, guess, c, E) ==
  {e \in E : e.to \in ChildFinal(i) /\ DischargeOK(guess, Move(guess, c, e)[2])}

InLive(i, guess, c) == [child |-> i, guess |-> guess, state |-> c[1], prog |-> c[2]] \in live

LiveNow(t) ==
  LET here == <<t.state, t.prog>>
  IN  \/ Ending(t.child, t.guess, here, EdgesFrom(t.child, t.state)) # {}
      \/ \E e \in EdgesFrom(t.child, t.state) : InLive(t.child, t.guess, Move(t.guess, here, e))

\* thrext_build_mm_live: reverse search from the edges that return the guess.
GrowLive ==
  /\ stage = "tables"
  /\ finVal \notin Sums
  /\ LET grown == {t \in Target : LiveNow(t)}
     IN  /\ live' = live \cup grown
         /\ stage' = IF grown \subseteq live THEN "flatten" ELSE "tables"
  /\ UNCHANGED <<input, least, most, raised, buchi, tracked, beat>>

\* thrext_is_live
IsLive(i, guess, c) ==
  LET fewest == Add(c[2], least[i][c[1]])
      furthest == Smaller(c[2] + most[i][c[1]], Cap)
  IN  /\ c[1] \in CanReturn(i)
      /\ \/ guess = AnyReturn
         \/ Forced /\ guess = ForcedGuess
         \/ /\ ~Forced
            /\ \/ finVal \in {"Max", "Min"} /\ InLive(i, guess, c)
               \/ finVal = "SumPlus" /\ guess = AtLeast /\ furthest >= Goal
               \/ finVal = "SumPlus" /\ guess = Below /\ fewest < Goal
               \/ finVal = "SumMinus" /\ guess = AtLeast /\ fewest <= Goal
               \/ finVal = "SumMinus" /\ guess = Below /\ furthest >= Cap

-----------------------------------------------------------------------------
(* Obligations                                                             *)

\* Fault: more progress is better whatever was guessed.
PrefersLargerAlways(guess) == TRUE

\* thrext_prefers_larger
PrefersLarger(guess) == IF finVal = "SumMinus" THEN guess = Below ELSE guess = AtLeast

\* thrext_frontier_canonicalize: the best progress for each state.
Best(guess, conf) ==
  {c \in conf : \A d \in conf : d[1] = c[1] =>
                  IF PrefersLarger(guess) THEN d[2] <= c[2] ELSE c[2] <= d[2]}

\* The live configurations that conf moves to on a, one for each state.
Frontier(i, guess, conf, a) ==
  Best(guess, {c \in UNION {{Move(guess, d, e) : e \in ChildEdges(i, d[1], a)} : d \in conf} :
                 IsLive(i, guess, c)})

Returns(i, guess, conf, a) == \E c \in conf : Ending(i, guess, c, ChildEdges(i, c[1], a)) # {}

\* thrext_step_frontier, for an obligation x
Running(x) == {c \in x.conf : IsLive(x.child, x.guess, c)}
Discharged(x, a) == Returns(x.child, x.guess, Running(x), a)
Stepped(x, a) == [x EXCEPT !.conf = Frontier(x.child, x.guess, Running(x), a)]
Refused(x, a) == ~Discharged(x, a) /\ Stepped(x, a).conf = {}

\* step_bag
StepFails(bag, a) == \E x \in bag : Refused(x, a)
StepBag(bag, a) == {Stepped(x, a) : x \in {y \in bag : ~Discharged(y, a)}}
AnyDischarged(bag, a) == \E x \in bag : Discharged(x, a)

\* thrext_spawn_frontier, spawn_term_obligation
Fresh == {<<InitialChild, InitProg>>}
SpawnEmpty(i, guess, a) == Returns(i, guess, Fresh, a)
SpawnConf(i, guess, a) == Frontier(i, guess, Fresh, a)
SpawnRejected(i, guess, a) == ~SpawnEmpty(i, guess, a) /\ SpawnConf(i, guess, a) = {}
Spawned(i, guess, a) ==
  IF SpawnEmpty(i, guess, a) THEN {}
  ELSE {[child |-> i, guess |-> guess, conf |-> SpawnConf(i, guess, a)]}

-----------------------------------------------------------------------------
(* The runs of a child, by definition                                      *)

\* A run is where it is and its value so far.
RunStep(r, e) ==
  [state |-> e.to,
   value |-> CASE finVal = "Max" -> Larger(r.value, e.weight)
               [] finVal = "Min" -> Smaller(r.value, e.weight)
               [] finVal = "SumPlus" -> Smaller(r.value + Cost(e.weight), MaxSum)
               [] finVal = "SumMinus" -> Larger(r.value - Cost(e.weight), -MaxSum)]

Start == [state |-> InitialChild,
          value |-> CASE finVal = "Max" -> -Infinity
                      [] finVal = "Min" -> Infinity
                      [] finVal \in Sums -> 0]

RunsAfter(i, R, a) == UNION {{RunStep(r, e) : e \in ChildEdges(i, r.state, a)} : r \in R}

\* Some of the runs R of child i returns what is guessed.
Returning(i, R, guess) ==
  \E r \in R : /\ r.state \in ChildFinal(i)
               /\ guess = AtLeast => r.value >= threshold
               /\ guess = Below => r.value < threshold

Untracked == [status |-> "none", child |-> NoChild, guess |-> 0, runs |-> {}]

Track(i, guess, R) ==
  [status |-> IF Returning(i, R, guess) THEN "returned" ELSE "pending",
   child |-> i, guess |-> guess, runs |-> R]

TrackedAfter(a) ==
  IF tracked.status = "pending"
    THEN Track(tracked.child, tracked.guess, RunsAfter(tracked.child, tracked.runs, a))
    ELSE tracked

-----------------------------------------------------------------------------
(* The flattened automaton                                                 *)

Checkpoint == phase = "empty" /\ P2 = {}
Accepting == stage = "flatten" /\ Checkpoint /\ epochNonempty

\* Fault: an epoch begins with what the one before it saw.
EpochBaseKept == epochNonempty

\* Obligations that take the place of P2 at a checkpoint are of the new epoch.
EpochBase == IF Checkpoint THEN P1 # {} ELSE epochNonempty

\* Fault: P1 never takes the place of P2.
ReadBagsApart(a, spawned) ==
  /\ ~StepFails(P1, a)
  /\ ~StepFails(P2, a)
  /\ P1' = StepBag(P1, a) \cup spawned
  /\ P2' = StepBag(P2, a)

\* Both bags read a, P1 taking the place of an empty P2.
ReadBags(a, spawned) ==
  /\ ~StepFails(P1, a)
  /\ ~StepFails(P2, a)
  /\ P1' = IF P2 = {} THEN spawned ELSE StepBag(P1, a) \cup spawned
  /\ P2' = IF P2 = {} THEN StepBag(P1, a) ELSE StepBag(P2, a)

\* Fault: only the slot of the older witness is looked at.
WitnessKeptOlder(a) == \E x \in StepBag(P2, a) : x.guess = AtLeast

\* post_has_witness: the witness is still running after a.
WitnessKept(a) == \E x \in StepBag(P1, a) \cup StepBag(P2, a) : x.guess = AtLeast

\* What a call may guess.
Guesses(a) == CASE infVal = "Inf" -> {Below, AtLeast}
                [] infVal = "Sup" -> IF WitnessKept(a) THEN {AnyReturn} ELSE {AnyReturn, AtLeast}

Edge(a, e, spawned, called) ==
  /\ stage = "flatten"
  /\ ReadBags(a, spawned)
  /\ epochNonempty' = (EpochBase \/ AnyDischarged(P2, a) \/ called)
  /\ parent' = e.to
  /\ phase' = AdvancePhase(phase, parent \in nested.final, P2 = {})
  /\ beat' = ~beat
  /\ UNCHANGED <<input, stage, tables>>

\* A parent edge that calls no child.
SilentEdge(a, e) ==
  /\ e.call \notin Child
  /\ Edge(a, e, {}, FALSE)
  /\ lastGuess' = SilentWeight
  /\ tracked' = TrackedAfter(a)

\* A parent edge that calls child e.call.
CallEdge(a, e, guess) ==
  /\ e.call \in Child
  /\ guess \in Guesses(a)
  /\ ~SpawnRejected(e.call, guess, a)
  /\ Edge(a, e, Spawned(e.call, guess, a), TRUE)
  /\ lastGuess' = guess
  /\ \/ tracked' = TrackedAfter(a)
     \/ /\ tracked.status = "none"
        /\ tracked' = Track(e.call, guess, RunsAfter(e.call, {Start}, a))

-----------------------------------------------------------------------------
Init ==
  /\ nested \in Nested
  /\ finVal \in FinVals
  /\ infVal \in InfVals
  /\ threshold \in Thresholds
  /\ stage = "tables"
  /\ least = [i \in Child |-> [s \in ChildState |-> IF s \in ChildFinal(i) THEN 0 ELSE Infinity]]
  /\ most = [i \in Child |-> [s \in ChildState |-> 0]]
  /\ raised = [i \in Child |-> GainSeeds(i)]
  /\ live = {}
  /\ parent = InitialParent
  /\ lastGuess = 0
  /\ P1 = {}
  /\ P2 = {}
  /\ phase = "parent"
  /\ epochNonempty = FALSE
  /\ tracked = Untracked
  /\ beat = FALSE

Call == \E a \in Symbol : \E e \in ParentEdges(parent, a) : \E guess \in Guess : CallEdge(a, e, guess)
SilentStep == \E a \in Symbol : \E e \in ParentEdges(parent, a) : SilentEdge(a, e)
Letter == Call \/ SilentStep

Next == GrowCutoffs \/ GrowLive \/ Letter

\* The tables are computed to their end; letters are read as the word has them.
Spec == Init /\ [][Next]_vars /\ WF_vars(GrowCutoffs) /\ WF_vars(GrowLive)

-----------------------------------------------------------------------------
(* Properties *)

Config == ChildState \X Nat
Obligation == [child : Child, guess : Guess, conf : SUBSET Config]
Run == [state : ChildState, value : Int]
Tracked == [status : {"none", "pending", "returned"}, child : Child \cup {NoChild},
            guess : Guess, runs : SUBSET Run]

ThresholdTypeOK ==
  /\ nested \in Nested /\ finVal \in FinVals /\ infVal \in InfVals /\ threshold \in Thresholds
  /\ stage \in {"tables", "flatten"}
  /\ least \in [Child -> [ChildState -> Nat]]
  /\ most \in [Child -> [ChildState -> Nat]]
  /\ raised \in [Child -> SUBSET ChildState]
  /\ live \subseteq Target
  /\ parent \in ParentState /\ lastGuess \in Guess \cup {SilentWeight}
  /\ P1 \subseteq Obligation /\ P2 \subseteq Obligation
  /\ phase \in Phase /\ epochNonempty \in BOOLEAN
  /\ tracked \in Tracked
  /\ beat \in BOOLEAN

\* The progress of a run.
Encoded(guess, r) ==
  <<r.state,
    CASE guess = AnyReturn -> 0
      [] guess # AnyReturn /\ finVal \in Sums -> Smaller(Cost(r.value), Cap)
      [] OTHER -> IF r.value >= threshold THEN 1 ELSE 0>>

\* The obligation a pending call should be.
Owed == [child |-> tracked.child, guess |-> tracked.guess,
         conf |-> Best(tracked.guess,
                       {c \in {Encoded(tracked.guess, r) : r \in tracked.runs} :
                          IsLive(tracked.child, tracked.guess, c)})]

\* A call that has not returned is in one of the bags: with its guess, and for
\* each state with the best of those of ALL its child's runs that can still
\* return it.  Dropping the others after each letter loses nothing.
PendingBestKept == tracked.status = "pending" => Owed \in P1 \cup P2

\* The runs that follow the runs R of child i within n letters, of any word.
RunsWithin(i, R) ==
  LET within[n \in Nat] ==
        IF n = 0 THEN R
        ELSE LET before == within[n - 1]
             IN  before \cup UNION {RunsAfter(i, before, a) : a \in Symbol}
  IN  within

Later(i, R) == UNION {RunsWithin(i, R)[n] : n \in Lengths}

\* A letter is refused on account of a pending call exactly when, having read
\* it, none of its child's runs can return what was guessed any more, however
\* the cut-offs on the sums still to come were computed.
RefusedExactly ==
  tracked.status = "pending" =>
    \A a \in Symbol :
      Refused(Owed, a) <=>
        ~Returning(tracked.child, Later(tracked.child, RunsAfter(tracked.child, tracked.runs, a)),
                   tracked.guess)

\* Under Sup one witness runs at a time (NestedAutomaton.cpp asserts it), and
\* once it has returned its place is free.
OneWitness ==
  infVal = "Sup" =>
    LET witnesses == {x \in P1 \cup P2 : x.guess = AtLeast}
    IN  /\ P1 \cap witnesses = {} \/ P2 \cap witnesses = {}
        /\ \A x, y \in witnesses : x = y
        /\ tracked.status = "pending" /\ tracked.guess = AtLeast => witnesses = {Owed}

\* A letter is read; it is read on an edge that is not silent.
Reads == beat' # beat
ReadsCall == beat' # beat /\ lastGuess' # SilentWeight

\* On an accepting run of the flattened automaton every call returns what was
\* guessed for it.
CallsReturn ==
  []<><<Reads /\ Accepting>>_vars => (tracked.status = "pending" ~> tracked.status = "returned")

\* An accepting run of the flattened automaton is one on which the parent is
\* accepting and calls children infinitely often, although a discharged
\* obligation also counts for its epoch.
AcceptedRunsCall ==
  []<><<Reads /\ Accepting>>_vars => []<>(parent \in nested.final) /\ []<><<ReadsCall>>_vars

\* A run on which the parent is accepting, calls children infinitely often and
\* the bag of the older calls empties infinitely often is accepted.
FairRunsAccepted ==
  []<>(parent \in nested.final) /\ []<><<ReadsCall>>_vars /\ []<>(P2 = {}) => []<>Accepting
=============================================================================
