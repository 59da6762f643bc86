----------------------------- MODULE Membership -----------------------------
(***************************************************************************)
(* FORKLIFT's fast_membership: from a state of U, is there a run of B over *)
(* the period, repeated for ever, that passes a final state and an edge of *)
(* at least the threshold again and again?                                 *)
(*                                                                         *)
(* A search of the product of B with the positions of the period (dfs1)    *)
(* starts, each time it leaves a final state, a second search (dfs2) for a *)
(* cycle back to it.  Their marks are the global sets S and C.  The calls  *)
(* of the recursive functions are the elements of outer and inner.         *)
(***************************************************************************)
EXTENDS Lasso, SequencesExt

CONSTANTS
  StateB, Symbol, Weight,
  Graphs,    \* the sets of edges of B to take
  Starts,    \* the sets U
  Periods,   \* the periods, non-empty words
  None

EdgeB == [from : StateB, symbol : Symbol, weight : Weight, to : StateB]

ASSUME MembershipAssumption ==
  /\ Weight \subseteq Int
  /\ \A G \in Graphs : G \subseteq EdgeB /\ IsFiniteSet(G)
  /\ Starts \subseteq SUBSET StateB
  /\ \A p \in Periods : p \in Seq(Symbol) /\ p # <<>>
  /\ None \notin BOOLEAN \cup (StateB \X Nat)

VARIABLES
  edgesB, final, U, period, threshold,  \* the arguments
  unstarted,  \* the states of U that the loop of fast_membership has left
  S,          \* the marks of dfs1: states of the product
  C,          \* the marks of dfs2: those, and whether the threshold was seen
  outer,      \* the calls of dfs1: state of the product, edges left
  inner,      \* the calls of membership_query_final_cycle
  root,       \* the state of the product that dfs2 looks for
  result

arguments == <<edgesB, final, U, period, threshold>>
vars == <<arguments, unstarted, S, C, outer, inner, root, result>>

\* Positions count from 1.
After(i) == IF i = Len(period) THEN 1 ELSE i + 1

\* A state of the product, and what an edge makes of it.
Node(s, i) == <<s, i>>
Along(n, e) == Node(e.to, After(n[2]))
EdgesOf(n) == {e \in edgesB : e.from = n[1] /\ e.symbol = period[n[2]]}

Call(n) == [node |-> n, todo |-> EdgesOf(n)]
CycleCall(n, seen) == [node |-> n, seen |-> seen, todo |-> EdgesOf(n)]

\* Fault: the edge is taken again.
TakenNot(calls, e) == calls

\* The calls once the last one has taken edge e.
Taken(calls, e) == [calls EXCEPT ![Len(calls)].todo = @ \ {e}]

Init ==
  /\ edgesB \in Graphs
  /\ final \in SUBSET StateB
  /\ U \in Starts
  /\ period \in Periods
  /\ threshold \in Weight
  /\ unstarted = U
  /\ S = {} /\ C = {}
  /\ outer = <<>> /\ inner = <<>>
  /\ root = None
  /\ result = None

\* The loop of fast_membership.  A start that is marked already is searched
\* again, unlike a successor.
Start(s) ==
  /\ result = None
  /\ outer = <<>>
  /\ s \in unstarted
  /\ unstarted' = unstarted \ {s}
  /\ S' = S \cup {Node(s, 1)}
  /\ outer' = <<Call(Node(s, 1))>>
  /\ UNCHANGED <<arguments, C, inner, root, result>>

Deeper(e) ==
  /\ outer # <<>>
  /\ root = None
  /\ e \in Last(outer).todo
  /\ LET n == Along(Last(outer).node, e)
     IN IF n \in S
        THEN outer' = Taken(outer, e) /\ UNCHANGED S
        ELSE outer' = Append(Taken(outer, e), Call(n)) /\ S' = S \cup {n}
  /\ UNCHANGED <<arguments, unstarted, C, inner, root, result>>

\* Fault: the marks of an earlier dfs2 are kept.
MarksKept == C

\* The marks dfs2 starts with.
Unmarked == {}

\* dfs1 is about to leave a state.
Leaving == outer # <<>> /\ root = None /\ Last(outer).todo = {}

\* dfs1 has searched all successors of a final state: dfs2.
SecondSearch ==
  /\ Leaving
  /\ Last(outer).node[1] \in final
  /\ root' = Last(outer).node
  /\ C' = Unmarked \cup {<<root', FALSE>>}
  /\ inner' = <<CycleCall(root', FALSE)>>
  /\ UNCHANGED <<arguments, unstarted, S, outer, result>>

\* Fault: the edge taken alone decides.
SeenOnEdge(call, e) == e.weight >= threshold

Seen(call, e) == call.seen \/ e.weight >= threshold

\* An edge of the second search: it closes a cycle, or leads to a call.  The
\* call returns at once when its key is marked.
Follow(e) ==
  /\ inner # <<>>
  /\ result = None
  /\ e \in Last(inner).todo
  /\ LET n == Along(Last(inner).node, e)
         seen == Seen(Last(inner), e)
     IN IF seen /\ n = root
        THEN result' = TRUE /\ UNCHANGED <<C, inner>>
        ELSE /\ UNCHANGED result
             /\ IF <<n, seen>> \in C
                THEN inner' = Taken(inner, e) /\ UNCHANGED C
                ELSE /\ inner' = Append(Taken(inner, e), CycleCall(n, seen))
                     /\ C' = C \cup {<<n, seen>>}
  /\ UNCHANGED <<arguments, unstarted, S, outer, root>>

Back ==
  /\ inner # <<>>
  /\ result = None
  /\ Last(inner).todo = {}
  /\ inner' = Front(inner)
  /\ UNCHANGED <<arguments, unstarted, S, C, outer, root, result>>

\* dfs1 leaves a state that is not final, or whose second search found nothing.
Leave ==
  /\ outer # <<>>
  /\ inner = <<>>
  /\ IF root = None
     THEN Last(outer).todo = {} /\ Last(outer).node[1] \notin final
     ELSE TRUE
  /\ outer' = Front(outer)
  /\ root' = None
  /\ UNCHANGED <<arguments, unstarted, S, C, inner, result>>

NoRun ==
  /\ result = None
  /\ outer = <<>>
  /\ unstarted = {}
  /\ result' = FALSE
  /\ UNCHANGED <<arguments, unstarted, S, C, outer, inner, root>>

Next ==
  \/ \E s \in unstarted : Start(s)
  \/ \E e \in edgesB : Deeper(e)
  \/ SecondSearch
  \/ \E e \in edgesB : Follow(e)
  \/ Back
  \/ Leave
  \/ NoRun

Spec == Init /\ [][Next]_vars /\ WF_vars(Next)
-----------------------------------------------------------------------------
(***************************************************************************)
(* Properties                                                              *)
(***************************************************************************)

ProductNode == StateB \X (1..Len(period))

\* Calls are marked, the second search runs below the state it is for, and
\* each path of calls is a path of the product.
TypeOK ==
  /\ S \subseteq ProductNode
  /\ C \subseteq ProductNode \X BOOLEAN
  /\ result \in {TRUE, FALSE, None}
  /\ \A k \in 1..Len(outer) : outer[k].node \in S
  /\ \A k \in 1..Len(inner) : <<inner[k].node, inner[k].seen>> \in C
  /\ root # None => root = Last(outer).node
  /\ inner # <<>> => root # None

\* Clearing the marks of the second search for each final state, and never
\* those of the first, gives the right answer whatever the order of edges.
MembershipExact ==
  result # None =>
    result = Accepts(WordProfile(edgesB, final, period), U, threshold)

\* The two searches end.
Terminates == <>(result # None)
=============================================================================
