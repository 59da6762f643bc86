------------------------------ MODULE TopValue ------------------------------
(***************************************************************************)
(* Automaton::compute_Top for all value functions and what is built on it. *)
(* For deterministic automata compute_Bottom negates the weights in place, *)
(* asks for the top of the dual value function and negates them back, and  *)
(* isConstant compares the two values.  Otherwise compute_Bottom tries the *)
(* weights from the largest down, and isConstant asks whether all words    *)
(* reach the top; for averages, whether they reach it on edges that best   *)
(* cycles are made of (isLimAvgConstant).                                  *)
(*                                                                         *)
(* The automaton is trimmed and complete, as Automaton::build leaves it,   *)
(* and all its states are final.                                           *)
(***************************************************************************)
EXTENDS TopSafety, TopReach, LimitAverage

CONSTANTS initial,
          Weights,      \* the values of the weights, ascending: id i has Weights[i]
          MinDomain,    \* Automaton::min_domain
          MaxDomain,    \* Automaton::max_domain
          MaxEdges,     \* bound on the number of edges, for TLC
          Calls,        \* the calls made on deterministic automata: <<method, value function>>
          ChoiceCalls,  \* and on others
          MaxPeriod     \* bound on the periods of the reference definition, for TLC

Ids == 1 .. Len(Weights)
Methods == {"getTopValue", "getBottomValue", "isConstant"}
Extrema == {"Inf", "Sup", "LimInf", "LimSup"}
Averages == {"LimInfAvg", "LimSupAvg"}
ValueFunctions == Extrema \cup Averages
Edge == [from : State, symbol : Symbol, id : Ids, to : State]

ASSUME InitialAssumption == initial \in State
ASSUME WeightsAssumption ==
  /\ MinDomain \in Int /\ MaxDomain \in Int
  /\ Weights \in Seq(MinDomain .. MaxDomain)
  /\ \A i, j \in Ids : i < j => Weights[i] < Weights[j]
\* For averages weights are in units in which all averages are integers.
ASSUME UnitAssumption ==
  (\E c \in Calls \cup ChoiceCalls : c[2] \in Averages) =>
    \A i \in Ids, n \in 1 .. Cardinality(State) : Weights[i] % n = 0
ASSUME BoundsAssumption == MaxEdges \in Nat /\ MaxPeriod \in Nat
ASSUME CallsAssumption ==
  /\ Calls \cup ChoiceCalls \subseteq Methods \X ValueFunctions
  /\ \A g \in Averages : <<"getBottomValue", g>> \notin ChoiceCalls

VARIABLES
  call,     \* the call made, never changed
  weights,  \* the ids in the order of Automaton::weights
  pc,       \* "top", "bottom", "dual", "undo", "relax" or "done"
  step,     \* "idle", "safety", "reach" or "karp": where compute_Top is
  untried,  \* the weights that compute_Bottom has not tried
  top,      \* what getTopValue returned
  bottom    \* what getBottomValue returned

callVars == <<call, weights, pc, step, untried, top, bottom>>
vars == <<graphVars, values, safetyVars, reachVars, avgVars, distVars, callVars>>

method == call[1]
f == call[2]

Dual(g) == CASE g = "Inf" -> "Sup" [] g = "Sup" -> "Inf"
             [] g = "LimInf" -> "LimSup" [] g = "LimSup" -> "LimInf"
             [] g = "LimInfAvg" -> "LimSupAvg" [] g = "LimSupAvg" -> "LimInfAvg"

\* The value function compute_Top is called with.
current_f == IF pc = "dual" THEN Dual(f) ELSE f

Deterministic ==
  \A s \in State, a \in Symbol : Cardinality({e \in edges : e.from = s /\ e.symbol = a}) = 1

-----------------------------------------------------------------------------
(* compute_Top *)

RunsTop == pc \in {"top", "dual"}

TopStart ==
  /\ RunsTop
  /\ step = "idle"
  /\ \/ /\ current_f \in {"Inf", "LimInf"}
        /\ step' = "safety"
        /\ SafetyStart(current_f = "LimInf")
        /\ UNCHANGED <<reachVars, avgVars>>
     \/ /\ current_f \in {"Sup", "LimSup"}
        /\ step' = "reach"
        /\ ReachStart(current_f = "LimSup")
        /\ UNCHANGED <<safetyVars, avgVars>>
     \/ /\ current_f \in Averages
        /\ step' = "karp"
        /\ KarpStart
        /\ UNCHANGED <<in_scc, values, safetyVars, reachVars>>
  /\ UNCHANGED <<edges, value, domain, distVars, call, weights, pc, untried, top, bottom>>

TopSafetyStep ==
  /\ step = "safety"
  /\ SafetyStep
  /\ UNCHANGED <<reachVars, avgVars, distVars, callVars>>

TopReachStep ==
  /\ step = "reach"
  /\ ReachStep
  /\ UNCHANGED <<safetyVars, avgVars, distVars, callVars>>

TopKarpStep ==
  /\ step = "karp"
  /\ KarpRow
  /\ UNCHANGED <<safetyVars, reachVars, distVars, callVars>>

\* top_LimInf: the best value of a state of the component.
LimInfValues == [C \in Components |-> Max({domain.min} \cup {values[s] : s \in C})]

\* What compute_Top returns when its algorithm is over.
Answer ==
  CASE current_f = "Inf"    -> values[initial]
    [] current_f = "LimInf" -> TopDag(LimInfValues, initial)
    [] current_f \in Averages -> TopDag(AvgValues, initial)
    [] OTHER                -> TopDag(top_values, initial)

\* The algorithm compute_Top has called is over.
AlgorithmOver ==
  \/ step = "safety" /\ SafetyOver
  \/ step = "reach" /\ ReachOver
  \/ step = "karp" /\ KarpOver

\* What the caller of getTopValue does next.
AfterTop ==
  CASE method = "getTopValue" -> "done"
    [] method = "isConstant" /\ Deterministic -> "bottom"
    [] method = "isConstant" /\ ~Deterministic -> IF f \in Averages THEN "relax" ELSE "done"

\* getTopValue returns to its caller, compute_Top to compute_Bottom.
TopReturn ==
  /\ AlgorithmOver
  /\ step' = "idle"
  /\ IF pc = "top"
     THEN /\ top' = Answer
          /\ pc' = AfterTop
          /\ IF AfterTop = "relax" THEN RelaxStart ELSE UNCHANGED distVars
          /\ UNCHANGED bottom
     ELSE /\ bottom' = -Answer
          /\ pc' = "undo"
          /\ UNCHANGED <<distVars, top>>
  /\ UNCHANGED <<graphVars, values, safetyVars, reachVars, avgVars, call, weights, untried>>

-----------------------------------------------------------------------------
(* compute_Bottom, for a deterministic automaton *)

Negated(v) == [i \in DOMAIN v |-> -v[i]]

\* Fault: the bounds of the domain are negated where they stand.
InvertDomainInPlace ==
  /\ value' = Negated(value)
  /\ weights' = Reverse(weights)
  /\ domain' = [min |-> -domain.min, max |-> -domain.max]

\* invert_weights: every Weight object is negated and keeps its id, the array
\* of weights is reversed, and the bounds of the domain change places.
InvertWeights ==
  /\ value' = Negated(value)
  /\ weights' = Reverse(weights)
  /\ domain' = [min |-> -domain.max, max |-> -domain.min]

BottomInvert ==
  /\ pc = "bottom"
  /\ Deterministic
  /\ InvertWeights
  /\ pc' = "dual"
  /\ UNCHANGED <<edges, in_scc, values, safetyVars, reachVars, avgVars, distVars,
                 call, step, untried, top, bottom>>

\* Fault: the weights stay negated.
UndoNothing == UNCHANGED <<value, weights, domain>>

UndoInvert == InvertWeights

BottomUndo ==
  /\ pc = "undo"
  /\ UndoInvert
  /\ pc' = "done"
  /\ UNCHANGED <<edges, in_scc, values, safetyVars, reachVars, avgVars, distVars,
                 call, step, untried, top, bottom>>

-----------------------------------------------------------------------------
(* Automata with a choice.  isUniversal asks FORKLIFT, whose answer        *)
(* Inclusion.tla shows to be what the words of the automaton say.          *)

\* What a word does to runs: where they lead from where, and whether all or
\* some of their edges are in H.
Profile(H, a) ==
  {[from |-> e.from, all |-> e \in H, some |-> e \in H, to |-> e.to] : e \in {d \in edges : d.symbol = a}}

Then(P, Q) ==
  {[from |-> x[1].from, all |-> x[1].all /\ x[2].all, some |-> x[1].some \/ x[2].some, to |-> x[2].to] :
     x \in {y \in P \X Q : y[1].to = y[2].from}}

\* What words do to runs: those of one symbol, and those a symbol longer.
Moves == [from : State, all : BOOLEAN, some : BOOLEAN, to : State]
Profiles(H) ==
  LET longer(found) == found \cup {Then(P, Profile(H, a)) : P \in found, a \in Symbol}
      closure[found \in SUBSET SUBSET Moves] ==
        IF longer(found) = found THEN found ELSE closure[longer(found)]
  IN  closure[{Profile(H, a) : a \in Symbol}]

\* A run that does u and then v for ever has the value for g of edges in H.
Keeps(g, u, v) ==
  CASE g = "Inf" -> u.all /\ v.all
    [] g = "Sup" -> u.some \/ v.some
    [] g = "LimInf" -> v.all
    [] g = "LimSup" -> v.some

\* Every word has such a run.  A word is some w v1 v2 ... where all vi do the
\* same to runs as any number of them.
Universal(H, g) ==
  LET words == Profiles(H)
  IN  \A V \in {P \in words : Then(P, P) = P} : \A U \in {P \in words : Then(P, V) = P} :
        \E u \in U, v \in V :
          u.from = initial /\ u.to = v.from /\ v.to = v.from /\ Keeps(g, u, v)

\* isUniversal(f, x)
isUniversal(x) == Universal({e \in edges : value[e.id] >= x}, f)

\* compute_Bottom tries the largest weight left, and returns what it tried last.
BottomTry ==
  /\ pc = "bottom"
  /\ ~Deterministic
  /\ untried' = untried - 1
  /\ LET x == value[weights[untried]]
     IN  IF isUniversal(x) \/ untried = 1
         THEN bottom' = x /\ pc' = "done"
         ELSE UNCHANGED <<bottom, pc>>
  /\ UNCHANGED <<graphVars, values, safetyVars, reachVars, avgVars, distVars, call, weights, step, top>>

\* isLimAvgConstant
ConstantRelax ==
  /\ pc = "relax"
  /\ IF RelaxOver
     THEN pc' = "done" /\ UNCHANGED <<graphVars, values, distVars>>
     ELSE pc' = "relax" /\ \E e \in edges : Relax(e, top)
  /\ UNCHANGED <<safetyVars, reachVars, avgVars, call, weights, step, untried, top, bottom>>

Terminated == pc = "done" /\ UNCHANGED vars

\* What isConstant returns.
isConstant ==
  IF Deterministic THEN top = bottom
  ELSE IF f \in Averages THEN Universal(Tight(top), "LimInf")
  ELSE isUniversal(top)

-----------------------------------------------------------------------------
\* Complete automata with at most MaxEdges edges.
Parallel ==
  {E \in SUBSET (Ids \X State) :
     Cardinality(E) \in 1 .. 1 + MaxEdges - Cardinality(State \X Symbol)}

EdgesOf(out) ==
  UNION {{[from |-> p[1], symbol |-> p[2], id |-> x[1], to |-> x[2]] : x \in out[p]} :
           p \in State \X Symbol}

Init ==
  /\ \E out \in [State \X Symbol -> Parallel] : edges = EdgesOf(out)
  /\ Cardinality(edges) <= MaxEdges
  /\ \A s \in State : Reaches(succ, initial, s)
  /\ call \in IF Deterministic THEN Calls ELSE ChoiceCalls
  /\ value = Weights
  /\ weights = [i \in Ids |-> i]
  /\ domain = [min |-> MinDomain, max |-> MaxDomain]
  /\ pc = IF method = "getBottomValue" THEN "bottom" ELSE "top"
  /\ step = "idle"
  /\ untried = Len(Weights)
  /\ top = None
  /\ bottom = None
  /\ in_scc = FALSE
  /\ values = [s \in State |-> MinDomain]
  /\ lists = {}
  /\ calls = <<>>
  /\ done_edge = {}
  /\ counters = [s \in State |-> [a \in Symbol |-> 0]]
  /\ done_symbol = [s \in State |-> 0]
  /\ value_symbol = [s \in State |-> [a \in Symbol |-> MinDomain]]
  /\ spot = {}
  /\ frames = <<>>
  /\ top_values = <<>>
  /\ origin = None
  /\ distance = <<>>
  /\ dist = [s \in State |-> 0]
  /\ round = 0
  /\ todo = {}

Next ==
  \/ TopStart
  \/ TopSafetyStep
  \/ TopReachStep
  \/ TopKarpStep
  \/ TopReturn
  \/ BottomInvert
  \/ BottomUndo
  \/ BottomTry
  \/ ConstantRelax
  \/ Terminated

\* The call is sequential: it goes on as long as it can.
Spec == Init /\ [][Next]_vars /\ WF_vars(Next)

-----------------------------------------------------------------------------
(* What the values are, by the words of the automaton *)

Values == {Weights[i] : i \in Ids}
weightOf(e) == Weights[e.id]

AtLeast(x) == {e \in edges : weightOf(e) >= x}
AtMost(x) == {e \in edges : weightOf(e) <= x}

\* From every state of C an edge of H leads back into C: a run can stay in C
\* for ever on edges of H.
CanStay(C, H) == \A s \in C : \E e \in H : e.from = s /\ e.to \in C
Within == {e \in edges : SameTag(e.from, e.to)}

\* The averages of the weights of cycles.
Cycles ==
  UNION {{w \in [1 .. k -> edges] : /\ \A j \in 1 .. k - 1 : w[j].to = w[j + 1].from
                                    /\ w[k].to = w[1].from} : k \in 1 .. size}
MeanOf(w) == FoldSeq(LAMBDA e, sum : sum + weightOf(e), 0, w) \div Len(w)
CycleMeans == {MeanOf(w) : w \in Cycles}

InfTop ==
  Max({x \in Values : \E C \in SUBSET State : initial \in C /\ CanStay(C, AtLeast(x))})
SupTop == Max({weightOf(e) : e \in edges})
LimInfTop == Max({x \in Values : \E C \in SUBSET State : C # {} /\ CanStay(C, AtLeast(x))})
LimSupTop == Max({weightOf(e) : e \in Within})

\* The supremum of the values of all runs: what getTopValue promises.
TrueTop ==
  CASE f = "Inf" -> InfTop
    [] f = "Sup" -> SupTop
    [] f = "LimInf" -> LimInfTop
    [] f = "LimSup" -> LimSupTop
    [] f \in Averages -> Max(CycleMeans)

InfBottom == Min({weightOf(e) : e \in edges})
SupBottom ==
  Min({x \in Values : \E C \in SUBSET State : initial \in C /\ CanStay(C, AtMost(x))})
LimInfBottom == Min({weightOf(e) : e \in Within})
LimSupBottom == Min({x \in Values : \E C \in SUBSET State : C # {} /\ CanStay(C, AtMost(x))})

\* What all words have a run for, where there is a choice of runs.
ChoiceBottom == Max({x \in Values : Universal(AtLeast(x), f)})

\* The infimum of the values of all words.
TrueBottom ==
  IF ~Deterministic THEN ChoiceBottom
  ELSE CASE f = "Inf" -> InfBottom
         [] f = "Sup" -> SupBottom
         [] f = "LimInf" -> LimInfBottom
         [] f = "LimSup" -> LimSupBottom
         [] f \in Averages -> Min(CycleMeans)

\* The heaviest runs over a word from each state to each.
Heaviest(P) == {r \in P : \A q \in P : q.from = r.from /\ q.to = r.to => q.weight <= r.weight}
Joined(P, Q) ==
  Heaviest({[from |-> x[1].from, weight |-> x[1].weight + x[2].weight, to |-> x[2].to] :
              x \in {y \in P \X Q : y[1].to = y[2].from}})
RunsOf(a) == Heaviest({[from |-> e.from, weight |-> weightOf(e), to |-> e.to] : e \in {d \in edges : d.symbol = a}})
Standing == {[from |-> s, weight |-> 0, to |-> s] : s \in State}
RunsOver(word) == FoldSeq(LAMBDA a, P : Joined(P, RunsOf(a)), Standing, word)

\* Some run over u v v v ... has an average of at least x.
AverageReaches(u, v, x) ==
  LET times[k \in 0 .. size] == IF k = 0 THEN Standing ELSE Joined(times[k - 1], RunsOver(v))
      before == Joined(RunsOver(u), UNION {times[k] : k \in 0 .. size})
  IN  \E k \in 1 .. size : \E r \in times[k] :
        /\ r.from = r.to
        /\ r.weight >= x * k * Len(v)
        /\ \E b \in before : b.from = initial /\ b.to = r.from

WordsUpTo(n) == UNION {[1 .. k -> Symbol] : k \in 0 .. n}

\* All words have the value of the top.
AllReachTop ==
  IF ~Deterministic /\ f \in Averages
    THEN \A u \in WordsUpTo(size), v \in WordsUpTo(MaxPeriod) \ {<<>>} : AverageReaches(u, v, TrueTop)
    ELSE TrueBottom >= TrueTop

-----------------------------------------------------------------------------
(* Properties *)

TypeOK ==
  /\ edges \subseteq Edge
  /\ call \in Calls \cup ChoiceCalls
  /\ value \in [Ids -> Int]
  /\ domain \in [min : Int, max : Int]
  /\ weights \in Seq(Ids)
  /\ in_scc \in BOOLEAN
  /\ values \in [State -> Int]
  /\ pc \in {"top", "bottom", "dual", "undo", "relax", "done"}
  /\ step \in {"idle", "safety", "reach", "karp"}
  /\ untried \in 0 .. Len(Weights)
  /\ lists \subseteq edges
  /\ done_edge \subseteq edges
  /\ calls \in Seq(SUBSET edges)
  /\ counters \in [State -> [Symbol -> Nat]]
  /\ done_symbol \in [State -> 0 .. Cardinality(Symbol)]
  /\ value_symbol \in [State -> [Symbol -> Int]]
  /\ spot \subseteq State
  /\ frames \in Seq([state : State, todo : SUBSET edges])
  /\ DOMAIN top_values \subseteq Components
  /\ origin \in State \cup {None}
  /\ distance \in Seq([State -> Int])
  /\ dist \in [State -> Int]
  /\ round \in 0 .. size
  /\ todo \subseteq edges

\* getTopValue returns the supremum over all runs, for each value function.
TopExact == top # None => top = TrueTop

\* getBottomValue returns the infimum over all words: by way of the dual value
\* function on negated weights, or by trying the weights.
BottomExact == bottom # None => bottom = TrueBottom

\* "Checks if Universal(A, Top_A)" (Automaton.h:215), where Universal(A, x)
\* "checks if A(w) >= x for all w" (Automaton.h:205).
ConstantIsUniversal ==
  pc = "done" /\ method = "isConstant" => (isConstant <=> AllReachTop)

\* The caller of getBottomValue finds the automaton as it left it.
WeightsRestored ==
  pc = "done" => /\ value = Weights
                 /\ weights = [i \in Ids |-> i]
                 /\ domain = [min |-> MinDomain, max |-> MaxDomain]

\* The call returns.
Terminates == <>(pc = "done")
=============================================================================
