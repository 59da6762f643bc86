------------------------------ MODULE TopReach ------------------------------
(***************************************************************************)
(* Automaton::top_reachably_scc, run from the origin of every component:   *)
(* the largest weight in the component (and, unless in_scc, on the edges   *)
(* that leave it), gathered at the origin by a depth-first search with an  *)
(* explicit stack; then top_dag, which lets every component take over the  *)
(* largest value of the components it leads to.                            *)
(*                                                                         *)
(* The search starts from any state of a component: ComputeSCC.tla shows   *)
(* the origin to be one of them.  The components are searched in any       *)
(* order, for their searches do not meet.                                  *)
(***************************************************************************)
EXTENDS WeightedGraph

VARIABLES
  spot,        \* the states visited
  frames,      \* the call stack: a state and the edges it has left
  top_values,  \* the value of each component
  origin       \* the origin of the component being searched

reachVars == <<spot, frames, top_values, origin>>

Frame(s) == [state |-> s, todo |-> {e \in edges : e.from = s}]
current == Last(frames).state

\* Fault: the edge is not left behind.
PastNothing(e) == frames

\* The frames once the current one has moved past edge e.
Past(e) == [frames EXCEPT ![Len(frames)].todo = @ \ {e}]

\* top_reachably up to its loop over the components.
ReachStart(scc) ==
  /\ in_scc' = scc
  /\ values' = [s \in State |-> domain.min]
  /\ spot' = {}
  /\ frames' = <<>>
  /\ origin' = None
  /\ top_values' = <<>>

Unsearched == Components \ DOMAIN top_values

\* top_reachably_scc is called for a component, with s as its origin.
ReachCall(s) ==
  /\ origin = None
  /\ Component(s) \in Unsearched
  /\ origin' = s
  /\ IF s \in spot
     THEN UNCHANGED <<spot, frames>>
     ELSE /\ spot' = spot \cup {s}
          /\ frames' = <<Frame(s)>>
  /\ UNCHANGED <<graphVars, values, top_values>>

\* An edge within the component to a state not visited: search it first, and
\* come back to this edge.
ReachDescend(e) ==
  /\ frames # <<>>
  /\ e \in Last(frames).todo
  /\ SameTag(e.from, e.to)
  /\ e.to \notin spot
  /\ spot' = spot \cup {e.to}
  /\ frames' = Append(frames, Frame(e.to))
  /\ UNCHANGED <<graphVars, values, top_values, origin>>

\* What the current state knows once edge e within the component is looked at.
Gathered(e) == Max({values[current], value[e.id], values[e.to]})

ReachGather(e) ==
  /\ frames # <<>>
  /\ e \in Last(frames).todo
  /\ SameTag(e.from, e.to)
  /\ e.to \in spot
  /\ values' = [values EXCEPT ![current] = Gathered(e)]
  /\ frames' = Past(e)
  /\ UNCHANGED <<graphVars, spot, top_values, origin>>

\* An edge that leaves the component counts by its weight, unless in_scc.
ReachLeave(e) ==
  /\ frames # <<>>
  /\ e \in Last(frames).todo
  /\ ~SameTag(e.from, e.to)
  /\ values' = IF in_scc
               THEN values
               ELSE [values EXCEPT ![current] = Max({@, value[e.id]})]
  /\ frames' = Past(e)
  /\ UNCHANGED <<graphVars, spot, top_values, origin>>

ReachReturn ==
  /\ frames # <<>>
  /\ Last(frames).todo = {}
  /\ frames' = SubSeq(frames, 1, Len(frames) - 1)
  /\ UNCHANGED <<graphVars, values, spot, top_values, origin>>

\* Back in top_reachably: the value of the origin is that of its component.
ReachRecord ==
  /\ frames = <<>>
  /\ origin # None
  /\ top_values' = [C \in DOMAIN top_values \cup {Component(origin)} |->
                      IF C \in DOMAIN top_values THEN top_values[C] ELSE values[origin]]
  /\ origin' = None
  /\ UNCHANGED <<graphVars, values, spot, frames>>

ReachStep ==
  \/ \E s \in State : ReachCall(s)
  \/ \E e \in edges : ReachDescend(e)
  \/ \E e \in edges : ReachGather(e)
  \/ \E e \in edges : ReachLeave(e)
  \/ ReachReturn
  \/ ReachRecord

ReachOver == frames = <<>> /\ origin = None /\ Unsearched = {}

\* Fault: only the component of s itself counts.
TopDagHere(tv, s) == tv[Component(s)]

\* top_dag from the component of s: the largest value of any it leads to.
TopDag(tv, s) == Max({tv[Component(t)] : t \in {u \in State : Reaches(succ, s, u)}})
=============================================================================
