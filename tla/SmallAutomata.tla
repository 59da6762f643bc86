--------------------------- MODULE SmallAutomata ---------------------------
(***************************************************************************)
(* Automata of two states for the runs about inclusion.                    *)
(***************************************************************************)
EXTENDS Naturals, FiniteSets

Ids == {0, 1}
LowHigh == {1, 2}
EdgesOf(ids, letters, weights) == [from : ids, symbol : letters, weight : weights, to : ids]

E(s, a, w, t) == [from |-> s, symbol |-> a, weight |-> w, to |-> t]

\* A has a deterministic cycle of both states in the first two, leaves the
\* initial state for good in the third, which has two edges of different weight
\* between the same states, and has a choice in the last.
SomeA ==
  {{E(0, 0, 1, 1), E(0, 1, 2, 0), E(1, 0, 1, 0), E(1, 1, 1, 1)},
   {E(0, 0, 2, 0), E(0, 1, 1, 1), E(1, 0, 1, 0), E(1, 1, 2, 0)},
   {E(0, 0, 1, 0), E(0, 0, 1, 1), E(0, 1, 1, 0), E(1, 0, 1, 1), E(1, 0, 2, 1), E(1, 1, 1, 1)},
   {E(0, 0, 1, 1), E(0, 1, 1, 0), E(1, 0, 1, 0), E(1, 0, 2, 1), E(1, 1, 2, 0)}}

\* B guesses at symbol 0 in its initial state; two of its edges are heavy.
GuessingB ==
  {G \in SUBSET EdgesOf(Ids, Ids, LowHigh) :
     /\ Cardinality(G) = 5
     /\ \A s \in Ids, a \in Ids : \E e \in G : e.from = s /\ e.symbol = a
     /\ \A t \in Ids : \E e \in G : e.from = 0 /\ e.symbol = 0 /\ e.to = t
     /\ Cardinality({e \in G : e.weight = 2}) = 2}
=============================================================================
