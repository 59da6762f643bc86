------------------------------ MODULE SCCOrder ------------------------------
(***************************************************************************)
(* What the rest of QuAK relies on when it reads State::getTag(): the      *)
(* components of the reachable part of the graph are numbered one at a     *)
(* time, 0, 1, 2, ..., and a component gets its number only when every     *)
(* edge that leaves it leads into components numbered before.              *)
(*                                                                         *)
(* Nothing here says how components are found; ComputeSCC.tla models       *)
(* the search of Automaton::compute_SCC and implements this module.        *)
(***************************************************************************)
EXTENDS Integers, SCCGraph

CONSTANTS State, initial

VARIABLES succ,     \* the graph: the successors of each state
          tag,      \* the number of a state's component, -1 for none
          nb_SCCs   \* how many components have been numbered

vars == <<succ, tag, nb_SCCs>>

TypeOK ==
  /\ succ \in [State -> SUBSET State]
  /\ tag \in [State -> Int]
  /\ nb_SCCs \in Nat

Init ==
  /\ succ \in [State -> SUBSET State]
  /\ tag = [s \in State |-> -1]
  /\ nb_SCCs = 0

(***************************************************************************)
(* Number one whole component that only later-numbered ones can reach.     *)
(***************************************************************************)
Number(C) ==
  /\ C # {}
  /\ \A s \in C : /\ tag[s] = -1
                  /\ Reaches(succ, initial, s)
                  /\ succ[s] \subseteq C \cup {t \in State : tag[t] # -1}
  /\ \A s, t \in C : Reaches(succ, s, t)
  /\ tag' = [s \in State |-> IF s \in C THEN nb_SCCs ELSE tag[s]]
  /\ nb_SCCs' = nb_SCCs + 1
  /\ UNCHANGED succ

Next == \E C \in SUBSET State : Number(C)

\* The numbers that may be given out, and that all of them are given out.
Safety == Init /\ [][Next]_vars
Spec == Safety /\ WF_vars(Next)
=============================================================================
