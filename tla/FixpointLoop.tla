---------------------------- MODULE FixpointLoop ----------------------------
(***************************************************************************)
(* FORKLIFT's fixpoint over loops: for a state of A, a set W of states of  *)
(* B and a first symbol, the contexts of the words that start with the     *)
(* symbol, by the state they lead A to.  A context says between which      *)
(* states of B a word leads, with which largest weight, and whether by a   *)
(* final state.  A word is kept unless another does no more for B and no   *)
(* less for A.                                                             *)
(*                                                                         *)
(* Weights of B stand for their ids: Automaton sorts its weights, so that  *)
(* ids are ordered as values are.                                          *)
(***************************************************************************)
EXTENDS TwoAutomata, SCCGraph

CONSTANTS
  StartSets,   \* the sets W of states of B to start from
  MaxLength    \* words of LoopExact are no longer than this

ASSUME LoopAssumption == StartSets \subseteq SUBSET StateB /\ MaxLength \in Nat \ {0}

VARIABLES
  finalB,          \* the final states of B
  contexts,        \* content: state of A, context, word, largest weight of A
  fresh,           \* updates: the entries that the running round moves
  held,            \* buffer: the entries the next round will move
  from,            \* what the fixpoint was made for: state, set, first symbol
  moves            \* what is left of the round: an entry and an edge of A

loopTables == <<contexts, fresh, held, moves, from>>
loopGraphs == <<edgesA, edgesB, finalB>>

Larger(v, w) == IF v < w THEN w ELSE v

\* INCLUSION_SCC_SEARCH_ACTIVE: A stays in one component.
succA == [s \in StateA |-> {e.to : e \in {d \in edgesA : d.from = s}}]
SameTag(s, t) == Mutual(succA, s, t)
LoopEdges == {e \in edgesA : SameTag(e.from, e.to)}

\* ContextOf: `first` relates states by any path, `second` by the paths with a
\* final state on them.
FirstContext(W, a) ==
  LET steps == {e \in edgesB : e.from \in W /\ e.symbol = a}
      triples(E) == {<<e.from, e.to, e.weight>> : e \in E}
  IN [first |-> triples(steps),
      second |-> triples({e \in steps : e.from \in finalB \/ e.to \in finalB})]

\* A relation after one more symbol.
Extended(r, a) ==
  UNION {{<<t[1], e.to, Larger(t[3], e.weight)>> :
            e \in {d \in edgesB : d.from = t[2] /\ d.symbol = a}} : t \in r}

NextContext(c, a) ==
  [first |-> Extended(c.first, a) \cup Extended(c.second, a),
   second |-> {t \in Extended(c.first, a) : t[2] \in finalB} \cup Extended(c.second, a)]

Covered(r, q) ==
  \A t \in r : \E u \in q : u[1] = t[1] /\ u[2] = t[2] /\ t[3] <= u[3]

\* Fault: the weight of A is not compared.
SmallerContext(x, y) ==
  /\ Covered(x.context.first, y.context.first)
  /\ Covered(x.context.second, y.context.second)

\* ContextOf::smaller_than, with the weights of A.
Smaller(x, y) ==
  /\ y.value <= x.value
  /\ Covered(x.context.first, y.context.first)
  /\ Covered(x.context.second, y.context.second)

LoopMoved(u, e) ==
  [state |-> e.to,
   context |-> NextContext(u.context, e.symbol),
   word |-> Append(u.word, e.symbol),
   value |-> Larger(u.value, e.weight)]

\* Fault: another context at the state is reason enough.
LoopRejectedAny(n) == \E x \in contexts : x.state = n.state

LoopRejected(n) == \E x \in contexts : x.state = n.state /\ Smaller(x, n)

\* Fault: all other entries of the state go.
LoopDominatedAll(n) == {x \in contexts : x.state = n.state}

LoopDominated(n) ==
  {x \in contexts : x.state = n.state /\ Smaller(n, x) /\ ~Smaller(x, n)}

LoopRound(entries) == {m \in entries \X LoopEdges : m[2].from = m[1].state}

\* The entries the constructor puts into content and updates, with plain add.
Firsts(s, W, a) ==
  {[state |-> e.to, context |-> FirstContext(W, a), word |-> <<a>>, value |-> e.weight] :
     e \in {d \in LoopEdges : d.from = s /\ d.symbol = a}}

\* The constructor and the first call of apply.
LoopStart(s, W, a) ==
  /\ from' = [state |-> s, set |-> W, symbol |-> a]
  /\ contexts' = Firsts(s, W, a)
  /\ fresh' = Firsts(s, W, a)
  /\ held' = {}
  /\ moves' = LoopRound(Firsts(s, W, a))

LoopNextInRound(u, e) ==
  \A m \in moves : m[1].state = u.state => e.symbol <= m[2].symbol

\* addIfMin removes what the new entry dominates as it looks for an entry that
\* rejects it: some of that may be lost before the rejection.
LoopReject(u, e) ==
  /\ <<u, e>> \in moves
  /\ LoopNextInRound(u, e)
  /\ LoopRejected(LoopMoved(u, e))
  /\ \E lost \in SUBSET LoopDominated(LoopMoved(u, e)) : contexts' = contexts \ lost
  /\ moves' = moves \ {<<u, e>>}
  /\ UNCHANGED <<fresh, held, from>>

LoopAdd(u, e) ==
  /\ <<u, e>> \in moves
  /\ LoopNextInRound(u, e)
  /\ ~LoopRejected(LoopMoved(u, e))
  /\ contexts' = (contexts \ LoopDominated(LoopMoved(u, e))) \cup {LoopMoved(u, e)}
  /\ held' = held \cup {LoopMoved(u, e)}
  /\ moves' = moves \ {<<u, e>>}
  /\ UNCHANGED <<fresh, from>>

\* Fault: the buffer is not cleared.
HeldAfterSwapKept == held

\* What is left in the buffer when it becomes the updates of the next round.
HeldAfterSwap == {}

LoopSwap ==
  /\ moves = {}
  /\ fresh # {}
  /\ fresh' = held
  /\ held' = HeldAfterSwap
  /\ moves' = LoopRound(held)
  /\ UNCHANGED <<contexts, from>>

LoopStep ==
  /\ \/ \E m \in moves : LoopReject(m[1], m[2])
     \/ \E m \in moves : LoopAdd(m[1], m[2])
     \/ LoopSwap
  /\ UNCHANGED loopGraphs

LoopOver == moves = {} /\ fresh = {}

LoopInit ==
  /\ edgesA \in GraphsA
  /\ edgesB \in GraphsB
  /\ finalB \in SUBSET StateB
  /\ from \in [state : StateA, set : StartSets, symbol : Symbol]
  /\ contexts = Firsts(from.state, from.set, from.symbol)
  /\ fresh = contexts
  /\ held = {}
  /\ moves = LoopRound(contexts)

LoopSpec ==
  LoopInit /\ [][LoopStep]_<<loopGraphs, loopTables>> /\ WF_<<loopGraphs, loopTables>>(LoopStep)
-----------------------------------------------------------------------------
(***************************************************************************)
(* Properties                                                              *)
(***************************************************************************)

Triple == StateB \X StateB \X Weight
LoopEntry ==
  [state : StateA, context : [first : SUBSET Triple, second : SUBSET Triple],
   word : Seq(Symbol), value : Weight]

\* Every table holds entries; a round is over the updates and edges of A.
LoopTypeOK ==
  /\ edgesA \in GraphsA /\ edgesB \in GraphsB
  /\ from \in [state : StateA, set : SUBSET StateB, symbol : Symbol]
  /\ contexts \subseteq LoopEntry
  /\ fresh \subseteq LoopEntry
  /\ held \subseteq LoopEntry
  /\ \A m \in moves : m[1] \in fresh /\ m[2] \in LoopEdges /\ m[2].from = m[1].state

\* Entry y stands for x.
StandsFor(y, x) == y.state = x.state /\ Smaller(y, x)

\* What pruning must not break, though the entries of the constructor are
\* comparable, and some may be lost to an entry that is then rejected: what a
\* kept entry leads to is still to be looked at, waits with it, or is
\* accounted for; so are the entries of the constructor.
LoopPending ==
  /\ \A x \in contexts, e \in LoopEdges :
       e.from = x.state =>
         \/ x \in held
         \/ <<x, e>> \in moves
         \/ \E y \in contexts : StandsFor(y, LoopMoved(x, e))
  /\ \A x \in Firsts(from.state, from.set, from.symbol) :
       \E y \in contexts : StandsFor(y, x)

\* The entries, unpruned, of the words of n symbols after the first.
Unpruned[n \in Nat] ==
  IF n = 0 THEN Firsts(from.state, from.set, from.symbol)
  ELSE {LoopMoved(m[1], m[2]) : m \in LoopRound(Unpruned[n - 1])}

\* When the fixpoint is reached, every word of A round the component has an
\* entry that stands for it, and every entry is what its word does.
LoopExact ==
  LoopOver =>
    /\ \A n \in 0..(MaxLength - 1) : \A x \in Unpruned[n] :
         \E y \in contexts : StandsFor(y, x)
    /\ \A y \in contexts : y \in Unpruned[Len(y.word) - 1]
=============================================================================
