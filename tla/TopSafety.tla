----------------------------- MODULE TopSafety -----------------------------
(***************************************************************************)
(* Automaton::top_safety_scc and top_safety_scc_recursive: the best        *)
(* infimum a run from each state can keep (in_scc: without leaving the     *)
(* component of the state).  Edges are taken list by list in the order of  *)
(* their weight IDS; an edge taken is given up, a state whose edges are    *)
(* all given up gets its value for good, and then the edges that lead to   *)
(* it are given up in turn.                                                *)
(*                                                                         *)
(* The edges of a list and of a state are in the order of their            *)
(* addresses: any order is allowed here.                                   *)
(***************************************************************************)
EXTENDS WeightedGraph

VARIABLES
  lists,        \* the edges in the lists, one list per weight id
  calls,        \* the predecessor edges left to each active recursive call
  done_edge,    \* the edges given up
  counters,     \* edges not given up of each state and symbol
  done_symbol,  \* symbols not done of each state
  value_symbol  \* the value of each state and symbol

safetyVars == <<lists, calls, done_edge, counters, done_symbol, value_symbol>>

\* The edges that count: all, or those within a component.
Considered == IF in_scc THEN {e \in edges : SameTag(e.from, e.to)} ELSE edges

Outgoing(s, a) == {e \in Considered : e.from = s /\ e.symbol = a}

Incoming(s) == {e \in Considered : e.to = s}

\* top_safety_scc up to its main loop, for a call with parameter in_scc = scc.
SafetyStart(scc) ==
  /\ in_scc' = scc
  /\ LET out(s, a) == {e \in edges : /\ e.from = s /\ e.symbol = a
                                     /\ scc => SameTag(s, e.to)}
     IN  /\ lists' = UNION {out(s, a) : s \in State, a \in Symbol}
         /\ counters' = [s \in State |-> [a \in Symbol |-> Cardinality(out(s, a))]]
  /\ done_symbol' = [s \in State |-> Cardinality({a \in Symbol : counters'[s][a] > 0})]
  /\ value_symbol' = [s \in State |-> [a \in Symbol |-> domain.min]]
  /\ values' = [s \in State |-> IF done_symbol'[s] = 0 THEN domain.min ELSE domain.max]
  /\ done_edge' = {}
  /\ calls' = <<>>

\* Fault: the value of the target is not looked at.
WorthAlone(e) == value[e.id]

\* What an edge is worth: its weight, or the value of its target if smaller.
Worth(e) == Min({value[e.id], values[e.to]})

\* The value of symbol a at s, once all its edges are given up.
SymbolValue(s, a) == Max({value_symbol[s][a]} \cup {Worth(e) : e \in Outgoing(s, a)})

\* The value of s when a is the last of its symbols to be done.
StateValue(s, a) ==
  Max({SymbolValue(s, a)} \cup {value_symbol[s][b] : b \in Symbol \ {a}})

Done(e) == e \in done_edge

\* top_safety_scc_recursive(e) up to the loop over the predecessors, called
\* when rest is what the calls it returns to have left.
GiveUp(e, rest) ==
  LET s == e.from
      a == e.symbol
      symbolDone == counters[s][a] = 1
      stateDone  == symbolDone /\ done_symbol[s] = 1
  IN  IF Done(e)
      THEN /\ calls' = rest
           /\ UNCHANGED <<values, done_edge, counters, done_symbol, value_symbol>>
      ELSE /\ done_edge' = done_edge \cup {e}
           /\ counters' = [counters EXCEPT ![s][a] = @ - 1]
           /\ value_symbol' = IF symbolDone
                              THEN [value_symbol EXCEPT ![s][a] = SymbolValue(s, a)]
                              ELSE value_symbol
           /\ done_symbol' = IF symbolDone
                             THEN [done_symbol EXCEPT ![s] = @ - 1]
                             ELSE done_symbol
           /\ values' = IF stateDone
                        THEN [values EXCEPT ![s] = StateValue(s, a)]
                        ELSE values
           /\ calls' = IF stateDone THEN Append(rest, Incoming(s)) ELSE rest

\* The list being emptied: the one of the smallest id that is not empty.
NextList == {e \in lists : \A d \in lists : e.id <= d.id}

\* The main loop takes an edge off a list.
SafetyTake(e) ==
  /\ calls = <<>>
  /\ e \in NextList
  /\ lists' = lists \ {e}
  /\ GiveUp(e, <<>>)
  /\ UNCHANGED graphVars

\* An active call gives up an edge that leads to its state.
SafetyRecur(e) ==
  /\ calls # <<>>
  /\ e \in Last(calls)
  /\ GiveUp(e, [calls EXCEPT ![Len(calls)] = @ \ {e}])
  /\ UNCHANGED <<graphVars, lists>>

\* An active call returns.
SafetyReturn ==
  /\ calls # <<>>
  /\ Last(calls) = {}
  /\ calls' = SubSeq(calls, 1, Len(calls) - 1)
  /\ UNCHANGED <<graphVars, values, lists, done_edge, counters, done_symbol, value_symbol>>

SafetyStep ==
  \/ \E e \in edges : SafetyTake(e)
  \/ \E e \in edges : SafetyRecur(e)
  \/ SafetyReturn

SafetyOver == calls = <<>> /\ lists = {}
=============================================================================
