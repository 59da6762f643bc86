---------------------------- MODULE TwoAutomata ----------------------------
(***************************************************************************)
(* The two automata whose inclusion FORKLIFT decides, as its fixpoints see *)
(* them.                                                                   *)
(***************************************************************************)
EXTENDS Integers, Sequences, FiniteSets

CONSTANTS
  StateA, StateB,  \* the states of A and of B
  Symbol, Weight,  \* the ids of the symbols, the weights
  InitA, InitB,    \* the initial states
  GraphsA, GraphsB \* the sets of edges that A and B are taken from

Edge(S) == [from : S, symbol : Symbol, weight : Weight, to : S]

ASSUME AutomataAssumption ==
  /\ InitA \in StateA
  /\ InitB \in StateB
  /\ Symbol \subseteq Nat
  /\ Weight \subseteq Int
  /\ GraphsA \subseteq SUBSET Edge(StateA)
  /\ GraphsB \subseteq SUBSET Edge(StateB)

VARIABLES
  edgesA, edgesB   \* the edges: from, symbol, weight, to
=============================================================================
