--------------------------- MODULE NestedAutomata ---------------------------
(***************************************************************************)
(* Nested automata: a parent automaton over infinite words whose edges     *)
(* carry, instead of a weight, the number of the child automaton they      *)
(* call.  The child reads the word from the letter of the call on and may  *)
(* return at any of its final states with a value computed from the        *)
(* weights of its edges.  A call numbered 0 calls no child: the step is    *)
(* silent.                                                                 *)
(*                                                                         *)
(* A run is accepting when the parent visits final states infinitely       *)
(* often, calls children infinitely often, and every child called returns. *)
(***************************************************************************)
EXTENDS Integers, FiniteSets, SCCGraph

CONSTANTS ParentState, InitialParent,
          ChildState, InitialChild,
          Child,          \* the numbers of the children that are not silent
          SilentWeight,   \* the number a parent edge of weight SILENT has
          Symbol,
          Weights,        \* the weights of the edges of children
          Nested          \* the nested automata considered

NoChild == 0

ParentEdge == [from : ParentState, symbol : Symbol,
               call : Child \cup {NoChild, SilentWeight}, to : ParentState]
ChildEdge == [from : ChildState, symbol : Symbol, weight : Weights, to : ChildState]

ChildAutomaton == [edges : SUBSET ChildEdge, final : SUBSET ChildState]

NestedAutomaton == [edges : SUBSET ParentEdge, final : SUBSET ParentState,
                    child : [Child -> ChildAutomaton]]

ASSUME NestedAssumption ==
  /\ InitialParent \in ParentState
  /\ InitialChild \in ChildState
  /\ Child \subseteq Nat \ {NoChild}
  /\ SilentWeight \in Nat \ (Child \cup {NoChild})
  /\ Weights \subseteq Int
  /\ Nested \subseteq NestedAutomaton

VARIABLE nested   \* the nested automaton at hand

ParentEdges(q, a) == {e \in nested.edges : e.from = q /\ e.symbol = a}
ChildEdges(i, s, a) == {e \in nested.child[i].edges : e.from = s /\ e.symbol = a}
ChildFinal(i) == nested.child[i].final

ParentGraph == [q \in ParentState |-> {e.to : e \in {d \in nested.edges : d.from = q}}]

\* A component with a final state and an edge within it.
ProperAccepting(q) ==
  /\ \E t \in nested.final : Mutual(ParentGraph, q, t)
  /\ \E u \in ParentState : /\ Mutual(ParentGraph, q, u)
                            /\ \E v \in ParentGraph[u] : Mutual(ParentGraph, q, v)

\* computeParentGoodMask: from where the parent can still visit final states
\* infinitely often.
Good == {q \in ParentState :
           \E t \in ParentState : Reaches(ParentGraph, q, t) /\ ProperAccepting(t)}

-----------------------------------------------------------------------------
(* The phases of a flattened automaton, common to all flattenings: wait    *)
(* for a final state of the parent, then for the older bag of obligations  *)
(* to be empty, and again.                                                 *)

Phase == {"parent", "empty"}

\* Fault: a final state counts only while the older bag is empty.
AdvancePhaseTogether(phase, parentFinal, empty) ==
  CASE phase = "parent" -> IF parentFinal /\ empty THEN "empty" ELSE "parent"
    [] phase = "empty"  -> IF empty THEN "parent" ELSE "empty"

AdvancePhase(phase, parentFinal, empty) ==
  CASE phase = "parent" -> IF parentFinal THEN "empty" ELSE "parent"
    [] phase = "empty"  -> IF empty THEN "parent" ELSE "empty"
=============================================================================
