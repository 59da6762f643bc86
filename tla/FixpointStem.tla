---------------------------- MODULE FixpointStem ----------------------------
(***************************************************************************)
(* FORKLIFT's first fixpoints: for each state of A, which sets of states   *)
(* of B do the words reach that lead A there?  The sets kept are minimal,  *)
(* or maximal when the inclusion is reversed, and each comes with a word.  *)
(*                                                                         *)
(* One call of apply is one round over the entries of updates: each is     *)
(* moved along every edge of A, one step at a time, and what enters the    *)
(* antichain is also put into the buffer, the updates of the next round.   *)
(* An entry that loses its place in content stays in updates and buffer.   *)
(***************************************************************************)
EXTENDS TwoAutomata

VARIABLES
  reversed,        \* reversed_inclusion: maximal sets are kept
  content,         \* the entries kept: state of A, set of states of B, word
  updates,         \* the entries that the running round moves
  buffer,          \* the entries the next round will move
  todo             \* what is left of the round: an entry and an edge of A

stemTables == <<content, updates, buffer, todo>>
stemVars == <<edgesA, edgesB, reversed, stemTables>>

Entry == [state : StateA, set : SUBSET StateB, word : Seq(Symbol)]

\* TargetOf: the states that symbol a leads to from T.
Post(T, a) == {e.to : e \in {d \in edgesB : d.from \in T /\ d.symbol = a}}

\* With S in the antichain, T need not be.
Extreme(S, T) == IF reversed THEN T \subseteq S ELSE S \subseteq T

\* Fault: the word is not extended.
MovedSameWord(u, e) ==
  [state |-> e.to, set |-> Post(u.set, e.symbol), word |-> u.word]

\* Entry u moved along an edge.
Moved(u, e) ==
  [state |-> e.to, set |-> Post(u.set, e.symbol), word |-> Append(u.word, e.symbol)]

\* Fault: another set at the state is reason enough.
RejectedAny(n) == \E x \in content : x.state = n.state

Rejected(n) == \E x \in content : x.state = n.state /\ Extreme(x.set, n.set)

\* Faults: nothing is removed; more is removed.
DominatedNone(n) == {}
DominatedAll(n) == {x \in content : x.state = n.state}

Dominated(n) ==
  {x \in content : /\ x.state = n.state
                   /\ Extreme(n.set, x.set)
                   /\ ~Extreme(x.set, n.set)}

Round(entries) == {w \in entries \X edgesA : w[2].from = w[1].state}

FirstEntry == [state |-> InitA, set |-> {InitB}, word |-> <<>>]

\* The constructor, and the first call of apply.
StemInit ==
  /\ edgesA \in GraphsA
  /\ edgesB \in GraphsB
  /\ reversed \in BOOLEAN
  /\ content = {FirstEntry}
  /\ updates = {FirstEntry}
  /\ buffer = {}
  /\ todo = Round({FirstEntry})

\* The symbols of a state are taken in the order of their ids; states and the
\* entries and edges of a state in the order of addresses, that is, in any.
\* (States may take turns here, which is more than the loops of apply do.)
NextInRound(u, e) ==
  \A w \in todo : w[1].state = u.state => e.symbol <= w[2].symbol

\* addIfMin and addIfMax look through the entries of the state in the order of
\* addresses.  They remove what the new entry dominates as they go, so a
\* rejection may come after some of that is lost.
StemReject(u, e) ==
  /\ <<u, e>> \in todo
  /\ NextInRound(u, e)
  /\ Rejected(Moved(u, e))
  /\ \E lost \in SUBSET Dominated(Moved(u, e)) : content' = content \ lost
  /\ todo' = todo \ {<<u, e>>}
  /\ UNCHANGED <<edgesA, edgesB, reversed, updates, buffer>>

StemAdd(u, e) ==
  /\ <<u, e>> \in todo
  /\ NextInRound(u, e)
  /\ ~Rejected(Moved(u, e))
  /\ content' = (content \ Dominated(Moved(u, e))) \cup {Moved(u, e)}
  /\ buffer' = buffer \cup {Moved(u, e)}
  /\ todo' = todo \ {<<u, e>>}
  /\ UNCHANGED <<edgesA, edgesB, reversed, updates>>

\* Fault: the buffer is not cleared.
AfterSwapKept == buffer

\* What is left in the buffer when it becomes the updates of the next round.
AfterSwap == {}

\* The end of apply, and its next call if there is one.
StemSwap ==
  /\ todo = {}
  /\ updates # {}
  /\ updates' = buffer
  /\ buffer' = AfterSwap
  /\ todo' = Round(buffer)
  /\ UNCHANGED <<edgesA, edgesB, reversed, content>>

StemStep ==
  \/ \E w \in todo : StemReject(w[1], w[2])
  \/ \E w \in todo : StemAdd(w[1], w[2])
  \/ StemSwap

StemOver == todo = {} /\ updates = {}

StemSpec == StemInit /\ [][StemStep]_stemVars /\ WF_stemVars(StemStep)
-----------------------------------------------------------------------------
(***************************************************************************)
(* Properties                                                              *)
(***************************************************************************)

\* Every table holds entries; a round is over the updates and edges of A.
StemTypeOK ==
  /\ edgesA \in GraphsA
  /\ edgesB \in GraphsB
  /\ reversed \in BOOLEAN
  /\ content \subseteq Entry
  /\ updates \subseteq Entry
  /\ buffer \subseteq Entry
  /\ \A w \in todo : w[1] \in updates /\ w[2] \in edgesA /\ w[2].from = w[1].state

\* The pairs of a state of A and a set of states of B that words lead to: the
\* least set that has the initial pair and is closed under the edges of A.
Pair == StateA \X SUBSET StateB
InitPair == <<InitA, {InitB}>>
PairOf(x) == <<x.state, x.set>>
Successor(p, e) == <<e.to, Post(p[2], e.symbol)>>
ClosedPairs(C) == \A p \in C, e \in edgesA : e.from = p[1] => Successor(p, e) \in C
Pairs == {p \in Pair : \A C \in SUBSET Pair : InitPair \in C /\ ClosedPairs(C) => p \in C}

\* Pair p need not be kept where q is.
Better(q, p) == q[1] = p[1] /\ Extreme(q[2], p[2])

\* No two entries of the antichain are comparable: a rejection (addIfMin,
\* addIfMax) never comes after an entry has been removed.
Antichain ==
  \A x, y \in content : x # y /\ x.state = y.state => ~Extreme(x.set, y.set)

\* What pruning must not break: whatever an entry leads to is still to be
\* looked at, or waits in the buffer with the entry, or is accounted for.
Pending ==
  \A x \in content, e \in edgesA :
    e.from = x.state =>
      \/ x \in buffer
      \/ <<x, e>> \in todo
      \/ \E y \in content : Better(PairOf(y), Successor(PairOf(x), e))

\* When the fixpoint is reached the pairs kept are exactly the extreme ones
\* among all the pairs that words lead to, though entries were pruned while
\* they still waited to be moved.
StemExact ==
  StemOver =>
    {PairOf(x) : x \in content} =
      {p \in Pairs : \A q \in Pairs : Better(q, p) => q = p}

\* The pairs that the words of length k lead to along word, for each k.
OneOn(a, pairs) ==
  UNION {{Successor(p, e) : e \in {d \in edgesA : d.from = p[1] /\ d.symbol = a}} : p \in pairs}
Led(word) ==
  LET led[k \in 0..Len(word)] == IF k = 0 THEN {InitPair} ELSE OneOn(word[k], led[k - 1])
  IN led

\* The word kept with a pair leads A and B to it, also after its pair has
\* been given up and found again by another word.
WordsLead ==
  \A x \in content \cup updates \cup buffer : PairOf(x) \in Led(x.word)[Len(x.word)]
=============================================================================
