--------------------------- MODULE WeightedGraph ---------------------------
(***************************************************************************)
(* The part of an Automaton that the top-value algorithms share.           *)
(*                                                                         *)
(* Two states have the same tag when each reaches the other:               *)
(* ComputeSCC.tla establishes it.                                          *)
(***************************************************************************)
EXTENDS Integers, Sequences, FiniteSets, SequencesExt, SCCGraph

CONSTANTS State, Symbol, None

ASSUME StateAssumption == IsFiniteSet(State) /\ None \notin State
ASSUME SymbolAssumption == IsFiniteSet(Symbol) /\ Symbol # {}

VARIABLES
  edges,    \* the edges: from, symbol, id of the weight, to
  value,    \* Weight::value of each weight id
  domain,   \* Automaton::min_domain and max_domain
  in_scc,   \* whether the running algorithm keeps to the edges in components
  values    \* the value the running algorithm has for each state

graphVars == <<edges, value, domain, in_scc>>

succ == [s \in State |-> {e.to : e \in {d \in edges : d.from = s}}]
SameTag(s, t) == Mutual(succ, s, t)
Component(s) == {t \in State : SameTag(s, t)}
Components == {Component(s) : s \in State}
=============================================================================
