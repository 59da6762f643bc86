---------------------------- MODULE RemoveSilent ----------------------------
(***************************************************************************)
(* Automaton::removeSilentTransitions: a copy of an automaton in which     *)
(* edges of weight SILENT are replaced by an extremal weight or compressed *)
(* away, and compute_SCC, which the constructor of the copy calls on       *)
(* states that still carry the component numbers of the original.          *)
(*                                                                         *)
(* The original is an automaton its constructor has numbered (the numbers  *)
(* are any that ComputeSCC.tla allows), as a flattening of a nested        *)
(* automaton builds it: every state is reachable, letters may be refused.  *)
(* In what flatten_regular and the threshold flattenings build, accepted   *)
(* runs call for ever (AcceptedRunsCall of their modules), so that no      *)
(* cycle of silent edges goes through a final state.  flatten_Avg_SumMinus *)
(* makes a state final when the parent's is, and silent every edge that    *)
(* calls no child: there such cycles exist.                                *)
(***************************************************************************)
EXTENDS Integers, FiniteSets, FiniteSetsExt, SCCGraph

CONSTANTS State, initial, None,
          Symbol,
          Weights,     \* the non-silent weights
          SILENT,      \* a weight larger than every other
          MinDomain, MaxDomain,
          Calls,       \* the calls made: <<value function, withShortcuts, callsRequired>>
          Automata,    \* the originals, each as the set of its edges
          MaxFinal     \* bound on the number of final states, for TLC

ASSUME WeightsAssumption ==
  /\ Weights \subseteq MinDomain .. MaxDomain
  /\ SILENT > MaxDomain + 1

ValueFunctions == {"Inf", "Sup", "LimInf", "LimSup", "LimInfAvg", "LimSupAvg"}
ASSUME CallsAssumption == Calls \subseteq ValueFunctions \X BOOLEAN \X BOOLEAN

Edge == [from : State, symbol : Symbol, weight : Weights \cup {SILENT}, to : State]
ASSUME AutomataAssumption == Automata \subseteq SUBSET Edge

VARIABLES
  edges,     \* the edges: of the original, then of the copy
  source,    \* the edges of the original
  call,      \* the call made
  built,     \* whether the copy exists
  succ, final, pc, callStack, spot, low, time, stack, stackMem, tag, nb_SCCs,
  origin, nexts, final_SCCs   \* see ComputeSCC

SCC == INSTANCE ComputeSCC WITH MaxOut <- Cardinality(State)

silentVars == <<source, call>>
vars == <<edges, source, call, built, SCC!vars>>

f == call[1]
withShortcuts == call[2]

\* Whether the flattening made final only what sees calls again and again.
callsRequired == call[3]

-----------------------------------------------------------------------------
\* The graph of a set of edges.
Graph(E) == [s \in State |-> {e.to : e \in {d \in E : d.from = s}}]
ReachesBy(E, s, t) == Reaches(Graph(E), s, t)

Silent == {e \in edges : e.weight = SILENT}

\* A weight that no other can tie with and that never decides the value.
Replacement == IF f \in {"Inf", "LimInf"} THEN MaxDomain + 1 ELSE MinDomain - 1

\* Fault: the component need not be accepting.
InternalToAny == {e \in Silent : tag[e.from] = tag[e.to]}

\* The silent edges within an accepting component.
Internal == {e \in Silent : tag[e.from] = tag[e.to] /\ final_SCCs[tag[e.from]]}

\* removeSilentTransitionsHelperStandard(_prefixIndependent): the edges in R
\* get the replacement weight.
Replaced(R) ==
  {IF e \in R THEN [e EXCEPT !.weight = Replacement] ELSE e : e \in edges}

\* Fault: only the silent edges before a step are compressed into it.
BestBefore(S, p, a, r) ==
  {e.weight : e \in {d \in edges \ Silent : d.symbol = a /\ ReachesBy(S, p, d.from) /\ d.to = r}}

\* The weights of the steps silent* a silent* from p to r, the silent edges
\* being those in S.
Best(S, p, a, r) ==
  {e.weight : e \in {d \in edges \ Silent :
                       d.symbol = a /\ ReachesBy(S, p, d.from) /\ ReachesBy(S, d.to, r)}}

\* The weights of the edges of E from p to r.
Kept(E, p, a, r) == {e.weight : e \in {d \in E : d.from = p /\ d.symbol = a /\ d.to = r}}

\* Triples of a source, a symbol and a target.
Step == State \X Symbol \X State

\* One edge per step: the largest of the weights W[step].
LargestOf(W) ==
  {[from |-> x[1], symbol |-> x[2], weight |-> Max(W[x]), to |-> x[3]] :
     x \in {y \in Step : W[y] # {}}}

\* removeSilentTransitionsHelperLimitAverage
Compressed == LargestOf([x \in Step |-> Best(Silent, x[1], x[2], x[3])])

\* removeSilentTransitionsHelperLimitAverage_prefixIndependent: silent edges
\* that are not internal to an accepting component stay.
CompressedWithin ==
  LargestOf([x \in Step |-> Best(Internal, x[1], x[2], x[3])
                              \cup Kept(edges \ Internal, x[1], x[2], x[3])])

\* The edges of the copy.
NonSilent ==
  CASE f \in {"LimInfAvg", "LimSupAvg"} -> IF withShortcuts THEN CompressedWithin ELSE Compressed
    [] f \in {"LimInf", "LimSup"} -> Replaced(IF withShortcuts THEN Internal ELSE Silent)
    [] OTHER -> Replaced(Silent)

\* Build the copy and enter its compute_SCC.  State(State*) copies my_scc.
RemoveSilentTransitions ==
  /\ ~built
  /\ built' = TRUE
  /\ edges' = NonSilent
  /\ succ' = Graph(edges')
  /\ pc' = "tag"
  /\ callStack' = <<SCC!NewFrame(initial)>>
  /\ nb_SCCs' = 0
  /\ origin' = <<>>
  /\ final_SCCs' = <<>>
  /\ UNCHANGED <<silentVars, final, tag, spot, low, time, stack, stackMem, nexts>>

ComputeSCC ==
  /\ built
  /\ SCC!Next
  /\ UNCHANGED <<edges, silentVars, built>>

-----------------------------------------------------------------------------
\* No cycle of silent edges goes through a final state: so it is where accepted
\* runs must call, and only there is it assumed.
SilentCyclesReject(E) ==
  LET S == {e \in E : e.weight = SILENT}
  IN  \A e \in S : e.from \in final => ~ReachesBy(S, e.to, e.from)

Init ==
  /\ edges \in Automata
  /\ source = edges
  /\ succ = Graph(edges)
  /\ \A s \in State : Reaches(succ, initial, s)
  /\ built = FALSE
  /\ pc = "done"
  /\ tag \in [State -> 0 .. Cardinality(State) - 1]
  /\ nb_SCCs = Cardinality({tag[s] : s \in State})
  /\ SCC!TagsOrdered /\ SCC!TagsReachable /\ SCC!TagsAreComponents
  /\ final \in SUBSET State \ {{}}
  /\ Cardinality(final) <= MaxFinal
  /\ final_SCCs = [k \in 0 .. nb_SCCs - 1 |-> \E s \in final : tag[s] = k]
  /\ callStack = <<>>
  /\ spot = [s \in State |-> -1]
  /\ low = [s \in State |-> -1]
  /\ time = 0
  /\ stack = <<>>
  /\ stackMem = [s \in State |-> FALSE]
  /\ origin = [k \in DOMAIN final_SCCs |-> None]
  /\ nexts = {}
  /\ call \in IF SilentCyclesReject(edges) THEN Calls ELSE {c \in Calls : ~c[3]}

Next == RemoveSilentTransitions \/ ComputeSCC

\* The call is sequential: it goes on as long as it can.
Spec == Init /\ [][Next]_vars /\ WF_vars(Next)

-----------------------------------------------------------------------------
(* The value of an automaton: the best value of an accepting run, over the *)
(* non-silent weights of the run                                           *)

\* States on a cycle of E with a final state and a non-silent edge.
Recurrent(E) ==
  {s \in State : \E e \in E, t \in final :
     /\ e.weight # SILENT
     /\ ReachesBy(E, s, e.from) /\ ReachesBy(E, e.to, t) /\ ReachesBy(E, t, s)}

\* The edges of E that a run of which no weight is below x may take.
AtLeast(E, x) == {e \in E : e.weight >= x}

\* The non-silent edges of E of weight x or more.
Rewarding(E, x) == {e \in E : e.weight >= x /\ e.weight # SILENT}

\* The edges of E on cycles with a final state.
OnAccepting(E) == {e \in E : e.from \in Recurrent(E) /\ ReachesBy(E, e.to, e.from)}

\* The simple cycles of E, each as the set of its edges.
Cycles(E) ==
  {C \in SUBSET E \ {{}} :
     \A e \in C : /\ Cardinality({d \in C : d.from = e.from}) = 1
                  /\ \A d \in C : ReachesBy(C, e.to, d.from)}

\* The sum over a cycle of the weights' distances to the mean p / q, times q.
Excess(C, p, q) == FoldSet(LAMBDA e, sum : e.weight * q - p + sum, 0,
                                        {e \in C : e.weight # SILENT})

\* Some accepting run of the automaton with edges E has the value p / q or more.
Attains(E, p, q) ==
  CASE f = "Inf"    -> \E s \in Recurrent(AtLeast(E, p)) : ReachesBy(AtLeast(E, p), initial, s)
    [] f = "Sup"    -> \E e \in Rewarding(E, p), s \in Recurrent(E) : ReachesBy(E, e.to, s)
    [] f = "LimInf" -> Recurrent(AtLeast(E, p)) # {}
    [] f = "LimSup" -> Rewarding(OnAccepting(E), p) # {}
    [] OTHER        -> \E C \in Cycles(OnAccepting(E)) :
                         (\E e \in C : e.weight # SILENT) /\ Excess(C, p, q) >= 0

-----------------------------------------------------------------------------
(* Properties *)

TypeOK ==
  /\ edges \subseteq [from : State, symbol : Symbol, to : State,
                      weight : (MinDomain - 1 .. MaxDomain + 1) \cup {SILENT}]
  /\ built \in BOOLEAN
  /\ SCC!TypeOK

\* Every state is reached in the copy.  It is not when all edges of a component
\* are silent and internal to it: the compression drops them and has no step to
\* put in their place.
NothingLost == \A s \in State : Reaches(succ, initial, s)

\* The numbers compute_SCC leaves on the copy are those of the copy's graph,
\* not those its states brought along: wherever accepted runs must call, no
\* state is lost and keeps an old number (README.md: "tag == -1: unreachable
\* state").  Where they need not (SumMinus averages), that much holds of the
\* copies that lose no state.
TagsRefreshed ==
  built /\ pc = "done" /\ (callsRequired \/ NothingLost) => SCC!TagsAreComponents /\ SCC!TagsReachable
=============================================================================
