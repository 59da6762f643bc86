------------------------------ MODULE PreSync ------------------------------
(***************************************************************************)
(* What NestedAutomaton::isNonEmpty does with a nested automaton before it *)
(* synchronizes the children, for averages of sums of negative weights     *)
(* (SumMinus).                                                             *)
(*                                                                         *)
(* First no final state of a child is left with edges: it becomes a state  *)
(* to stop at and a state to go on from.  A deterministic automaton is     *)
(* then completed with sinks; any other is made deterministic by letters   *)
(* that choose, for each state of each automaton, one of its edges.        *)
(*                                                                         *)
(* Children have the same states here, so that the ids of the states of    *)
(* one child are those of another, and one table of weights.               *)
(***************************************************************************)
EXTENDS NestedAutomata, Sequences

CONSTANTS Sink,       \* the state @sink@
          MaxLength   \* bound on the words of ReturnsKept, for TLC

ASSUME PreSyncAssumption ==
  /\ Sink \notin ParentState \cup ChildState
  /\ IsFiniteSet(Child) /\ Child = 1..Cardinality(Child)
  /\ MaxLength \in Nat

VARIABLES
  stage,    \* what has been done: "given", "split", "flatten"
  child,    \* the children now: states, initial, edges, final
  letters   \* the letters: the symbol, the edges taken of parent and children

preSync == <<stage, child, letters>>

On(E, a) == {e \in E : e.symbol = a}
In(E, s) == {e \in E : e.from = s}

-----------------------------------------------------------------------------
(* splitContinuableChildFinals *)

\* child_state_has_outgoing, of a final state
Splits(c, s) == s \in c.final /\ In(c.edges, s) # {}

SourceOf(c, s) == IF Splits(c, s) THEN <<s, "cont">> ELSE <<s, "copy">>

\* Fault: an edge to a state that is split leads to one of the two.
TargetsOfOne(c, s) == IF Splits(c, s) THEN {<<s, "stop">>} ELSE {<<s, "copy">>}

TargetsOf(c, s) == IF Splits(c, s) THEN {<<s, "stop">>, <<s, "cont">>} ELSE {<<s, "copy">>}

\* copy_child_with_continuable_final_split
SplitChild(c) ==
  [states  |-> UNION {TargetsOf(c, s) : s \in ChildState},
   initial |-> SourceOf(c, InitialChild),
   edges   |-> UNION {{[from |-> SourceOf(c, e.from), symbol |-> e.symbol,
                        weight |-> e.weight, to |-> t] : t \in TargetsOf(c, e.to)} :
                        e \in c.edges},
   final   |-> UNION {TargetsOf(c, s) \ {<<s, "cont">>} : s \in c.final}]

Split ==
  /\ stage = "given"
  /\ child' = [i \in Child |-> SplitChild(nested.child[i])]
  /\ stage' = "split"
  /\ UNCHANGED <<nested, letters>>

-----------------------------------------------------------------------------
(* makeCompleteNested *)

AtMostOne(E) == \A d, e \in E : d.from = e.from /\ d.symbol = e.symbol => d = e

\* isDeterministicNested
Deterministic ==
  /\ AtMostOne(nested.edges)
  /\ \A i \in Child : /\ AtMostOne(child[i].edges)
                      /\ \A e \in child[i].edges : e.from \notin child[i].final

Missing(S, E) == {x \in S \X Symbol : On(In(E, x[1]), x[2]) = {}}

\* Missing edges go to a sink that is not final; those of the parent call no
\* child, those of the children weigh nothing.
CompleteParent ==
  nested.edges \cup
    {[from |-> x[1], symbol |-> x[2], call |-> NoChild, to |-> Sink] :
       x \in IF Missing(ParentState, nested.edges) = {} THEN {}
             ELSE Missing(ParentState \cup {Sink}, nested.edges)}

CompleteChild(c) ==
  LET open == c.states \ c.final
      sink == <<Sink, "copy">>
      missing == IF Missing(open, c.edges) = {} THEN {} ELSE Missing(open \cup {sink}, c.edges)
  IN  [c EXCEPT !.states = @ \cup {x[1] : x \in missing},
                !.edges = @ \cup {[from |-> x[1], symbol |-> x[2], weight |-> 0, to |-> sink] :
                                    x \in missing}]

\* A deterministic automaton keeps its letters: all edges on a symbol.
Complete ==
  /\ stage = "split"
  /\ Deterministic
  /\ child' = [i \in Child |-> CompleteChild(child[i])]
  /\ letters' = {[symbol |-> a,
                  parent |-> On(CompleteParent, a),
                  child |-> [i \in Child |-> On(child'[i].edges, a)]] : a \in Symbol}
  /\ stage' = "flatten"
  /\ UNCHANGED nested

-----------------------------------------------------------------------------
(* determinizeWithMacroAlphabet *)

\* generateResolvers: one edge for each state that has any.
EdgeChoices(E) ==
  {F \in SUBSET E : AtMostOne(F) /\ {e.from : e \in F} = {e.from : e \in E}}

ChildChoices(a) ==
  {f \in [Child -> UNION {EdgeChoices(On(child[i].edges, a)) : i \in Child}] :
     \A i \in Child : f[i] \in EdgeChoices(On(child[i].edges, a))}

\* The edges are taken in the order of the children, and an empty set of
\* edges is passed over without passing over a child.
Attributed(f) ==
  LET busy == {i \in Child : f[i] # {}}
      rank(i) == Cardinality({j \in busy : j <= i})
      taken(k) == UNION {f[i] : i \in {j \in busy : rank(j) = k}}
  IN  [k \in Child |-> {e \in taken(k) : e.from \in child[k].states /\ e.to \in child[k].states}]

Determinize ==
  /\ stage = "split"
  /\ ~Deterministic
  /\ letters' = UNION {{[symbol |-> a, parent |-> P, child |-> Attributed(f)] :
                          P \in EdgeChoices(On(nested.edges, a)), f \in ChildChoices(a)} : a \in Symbol}
  /\ stage' = "flatten"
  /\ UNCHANGED <<nested, child>>

-----------------------------------------------------------------------------
PreSyncInit ==
  /\ nested \in Nested
  /\ stage = "given"
  /\ child = [i \in Child |-> [states |-> ChildState, initial |-> InitialChild,
                             edges |-> nested.child[i].edges, final |-> nested.child[i].final]]
  /\ letters = {}

PreSyncNext == Split \/ Complete \/ Determinize

-----------------------------------------------------------------------------
(* Properties *)

\* Where runs that read a word by these edges are, and their sums, letter by
\* letter.
Steps(E, R) == UNION {{<<e.to, x[2] + e.weight>> : e \in In(E, x[1])} : x \in R}

After(edges, start, u) ==
  LET after[n \in 0..Len(u)] == IF n = 0 THEN {<<start, 0>>} ELSE Steps(edges[u[n]], after[n - 1])
  IN  after

Returned(edges, start, final, u) ==
  {x[2] : x \in {y \in After(edges, start, u)[Len(u)] : y[1] \in final}}

\* The edges of child i: as given, and by the letters.
GivenEdges(i) == [a \in Symbol |-> On(nested.child[i].edges, a)]
LetterEdges(i) == [a \in Symbol |-> UNION {m.child[i] : m \in {l \in letters : l.symbol = a}}]

\* Splitting, completing and determinizing change nothing of what a child can
\* return: for each word, the sums of its runs that end in a final state.
ReturnsKept ==
  stage = "flatten" =>
    \A i \in Child, n \in 1..MaxLength : \A u \in [1..n -> Symbol] :
      Returned(LetterEdges(i), child[i].initial, child[i].final, u) =
        Returned(GivenEdges(i), InitialChild, nested.child[i].final, u)
=============================================================================
