----------------------------- MODULE NonEmptiness -----------------------------
(***************************************************************************)
(* Automaton::isNonEmpty_withFinal, the question the decision pipeline     *)
(* asks of the automaton without silent transitions that RemoveSilent      *)
(* leaves: has some accepting run a value of at least p / q?               *)
(*                                                                         *)
(* For LimSup the answer is read off the components compute_SCC has just   *)
(* numbered; Inf, Sup and LimInf explore pairs of a state and a bound on   *)
(* the weights of the run and ask for LimSup there (toLimSup); averages    *)
(* compute the maximal mean of the cycles of each accepting component.     *)
(* Nothing observes these computations, so they are operators here.        *)
(***************************************************************************)
EXTENDS RemoveSilent, Sequences, SequencesExt

\* The calls of NestedAutomaton::isNonEmpty and isUniversal: silent edges are
\* replaced everywhere for Inf and Sup and when the flattened automaton only
\* tells values above a threshold from others (monotoneThresholdBackend).  The
\* last component tells which flattening built the automaton: all but
\* flatten_Avg_SumMinus demand calls of an accepted run.
PipelineCall(infVal, monotoneThreshold, callsDemanded) ==
  <<infVal, ~monotoneThreshold /\ infVal \notin {"Inf", "Sup"}, callsDemanded>>

\* empty_language_bottom_value, the lowest float
Bottom == MinDomain - 2

\* The least set that contains S and, with each n, the nodes Next(n).
Closure(S, Succ(_), size) ==
  LET within[k \in 0 .. size] ==
        IF k = 0 THEN S
        ELSE LET before == within[k - 1] IN before \cup UNION {Succ(n) : n \in before}
  IN  within[size]

-----------------------------------------------------------------------------
(* LimSup: the largest weight within an accepting component                *)

\* The edges top_reachably_scc_new takes from s: those to states of its
\* component.
WithinComponent(s) == {e \in edges : e.from = s /\ tag[e.to] = tag[s]}

\* The states the search from s marks.  What it leaves at s is the largest
\* weight of their edges: children hand theirs on when they are left.
Searched(s) == Closure({s}, LAMBDA t : {e.to : e \in WithinComponent(t)}, Cardinality(State))

\* top_LimSup_with_final
TopLimSup ==
  LET accepting == {k \in DOMAIN final_SCCs : final_SCCs[k]}
  IN  Max({Bottom} \cup UNION {{e.weight : e \in WithinComponent(s)} :
                                 s \in UNION {Searched(origin[k]) : k \in accepting}})

-----------------------------------------------------------------------------
(* Inf, Sup and LimInf: by LimSup of the pairs of a state and a bound      *)

\* The weights of the copy in the order of their ids: the helper that works
\* within accepting components appends the replacement, the other puts it in
\* the place of SILENT, the largest.
WeightIds ==
  SetToSortSeq(Weights, <) \o
    IF f \in {"LimInf", "LimSup"} /\ withShortcuts THEN <<SILENT, Replacement>> ELSE <<Replacement>>

\* Fault: LimInf starts from the last weight, like Inf.
FirstBoundLast == IF f = "Sup" THEN WeightIds[1] ELSE WeightIds[Len(WeightIds)]

\* The bound before the first edge.
FirstBound == IF f = "Inf" THEN WeightIds[Len(WeightIds)] ELSE WeightIds[1]

\* explore_Inf, explore_Sup: the least (largest) weight so far.  explore_LimInf:
\* a bound below all weights to come, which may be raised to the weight of an
\* edge.  The weight of the new edge is the bound it leads to.
Explore(n) ==
  LET out == {e \in edges : e.from = n[1]}
  IN  CASE f = "Inf" -> {<<e.to, Min({n[2], e.weight})>> : e \in out}
        [] f = "Sup" -> {<<e.to, Max({n[2], e.weight})>> : e \in out}
        [] f = "LimInf" -> UNION {{<<e.to, n[2]>>, <<e.to, e.weight>>} : e \in {d \in out : d.weight >= n[2]}}

\* top_LimSup_with_final of what toLimSup returns.  Its constructor numbers the
\* components again; the state that makes it complete is not final.
TopExplored ==
  LET size == Cardinality(State) * (Cardinality(Weights) + 2)
      explored == Closure({<<initial, FirstBound>>}, Explore, size)
      after == [n \in explored |-> Closure({n}, Explore, size)]
      accepting == {n \in explored : \E t \in after[n] : t[1] \in final /\ n \in after[t]}
  IN  Max({Bottom} \cup {m[2] : m \in {x \in explored : \E n \in accepting : x \in Explore(n) /\ n \in after[x]}})

\* compute_top_with_final
Top == IF f = "LimSup" THEN TopLimSup ELSE TopExplored

-----------------------------------------------------------------------------
(* Averages: Karp's maximal mean cycle in each accepting component         *)

Averages == {"LimInfAvg", "LimSupAvg"}

NoWalk == -1000000

StatesOf(k) == {s \in State : tag[s] = k}
EdgesOf(k) == {e \in edges : tag[e.from] = k /\ tag[e.to] = k}

\* The largest weight of a walk of n edges from src to each state of component
\* k.
Walks(k, src) ==
  LET walk[n \in 0 .. Cardinality(StatesOf(k))] ==
        IF n = 0 THEN [v \in StatesOf(k) |-> IF v = src THEN 0 ELSE NoWalk]
        ELSE LET shorter == walk[n - 1]
             IN  [v \in StatesOf(k) |->
                    Max({NoWalk} \cup {shorter[e.from] + e.weight :
                           e \in {d \in EdgesOf(k) : d.to = v /\ shorter[d.from] # NoWalk}})]
  IN  walk

\* max_mean_cycle_on_scc from src is at least p / q: for some state, the least
\* of the means of what longest walks to it add to shorter ones is.
MeanAtLeast(k, src, p, q) ==
  LET N == Cardinality(StatesOf(k))
      walk == Walks(k, src)
  IN  /\ EdgesOf(k) # {}
      /\ \E v \in StatesOf(k) :
           LET shorter == {n \in 0 .. N - 1 : walk[n][v] # NoWalk}
           IN  /\ walk[N][v] # NoWalk
               /\ shorter # {}
               /\ \A n \in shorter : (walk[N][v] - walk[n][v]) * q >= p * (N - n)

\* The states the searches of the components may start from: the code takes
\* the first of each.
Sources == {src \in [DOMAIN final_SCCs -> State] : \A k \in DOMAIN src : tag[src[k]] = k}

\* emptiness_LimAvg_with_final
LimAvgAtLeast(src, p, q) == \E k \in DOMAIN final_SCCs : final_SCCs[k] /\ MeanAtLeast(k, src[k], p, q)

-----------------------------------------------------------------------------
(* Properties *)

\* The answer is that the accepting runs of the original demand, for every
\* threshold and whichever states the searches of the components start from.
Exact ==
  IF f \in Averages
    THEN \A q \in 1 .. Cardinality(State) : \A p \in MinDomain * q .. MaxDomain * q : \A src \in Sources :
           LimAvgAtLeast(src, p, q) <=> Attains(source, p, q)
    ELSE LET top == Top IN \A x \in MinDomain .. MaxDomain : top >= x <=> Attains(source, x, 1)

\* The question is answered as the values of the original's accepting runs
\* demand, whatever was done to its silent edges: no replacement weight and no
\* edge left silent decides it, no cycle is lost, joined or made by a
\* compression, and the bounds explored start on the right side of all weights.
\* This holds of every original whose accepted runs must call, and of the
\* others (SumMinus averages) when the compression leaves all states reachable.
AnswerExact == built /\ pc = "done" /\ (callsRequired \/ NothingLost) => Exact

\* The same with no condition on the original: what README.md says of every
\* flattening ("encodes both conditions ... into the accepting-state set") is
\* all that removeSilentTransitions may rely on, so its answer must be right
\* for each.  An old number beyond the new table makes the code write and read
\* outside its arrays; those ends of a call are left out.
AnswerExactForAll ==
  built /\ pc = "done" /\ (\A s \in State : tag[s] < nb_SCCs) => Exact
=============================================================================
