------------------------------ MODULE SCCGraph ------------------------------
(***************************************************************************)
(* Reachability in the graph of an automaton, given as the function that   *)
(* maps each state to the set of states its edges lead to.                 *)
(*                                                                         *)
(* Reaches says that t lies in every set that contains s and is closed     *)
(* under edges: the least such set is the set of states reachable from s.  *)
(* Stated this way, facts about it need no induction on paths.             *)
(***************************************************************************)

Closed(succ, C) == \A u \in C : succ[u] \subseteq C

Reaches(succ, s, t) ==
  \A C \in SUBSET (DOMAIN succ) : s \in C /\ Closed(succ, C) => t \in C

Mutual(succ, s, t) == Reaches(succ, s, t) /\ Reaches(succ, t, s)
=============================================================================
