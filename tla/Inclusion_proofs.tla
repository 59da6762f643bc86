-------------------------- MODULE Inclusion_proofs --------------------------
(***************************************************************************)
(* Proofs about the inclusion of FORKLIFT, for all automata A and B and    *)
(* every order of steps: first its two kinds of fixpoints, each for        *)
(* itself, then inclusion as a whole.  Its witnesses are right; so is its  *)
(* answer, wherever the states it leaves out do not matter.                *)
(***************************************************************************)
EXTENDS Inclusion, DataInduction

-----------------------------------------------------------------------------
(***************************************************************************)
(* The antichain that the stem fixpoint ends with is exactly the set of    *)
(* extreme pairs of a state of A and a set of states of B that words lead  *)
(* to, for minimal and for maximal sets; and the word kept with an entry   *)
(* leads to its pair.                                                      *)
(***************************************************************************)

\* The entries stand for pairs that words lead to.
Sound == \A x \in content \cup updates \cup buffer : PairOf(x) \in Pairs

\* Words start: the initial pair is accounted for.
Started == \E y \in content : Better(PairOf(y), InitPair)

\* A round that adds to the buffer has updates.
Rounds == buffer # {} => updates # {}

StemInv ==
  /\ StemTypeOK
  /\ Antichain
  /\ Pending
  /\ Sound
  /\ Started
  /\ Rounds

-----------------------------------------------------------------------------
(***************************************************************************)
(* Sets, pairs and steps                                                   *)
(***************************************************************************)

\* The order of the antichain is a partial order, for either direction.
LEMMA ExtremeOrder ==
  /\ \A S : Extreme(S, S)
  /\ \A S, T, U : Extreme(S, T) /\ Extreme(T, U) => Extreme(S, U)
  /\ \A S, T : Extreme(S, T) /\ Extreme(T, S) => S = T
BY DEF Extreme

\* TargetOf is monotonic, so that a set may stand for all that it dominates.
LEMMA PostMonotonic ==
  ASSUME NEW S, NEW T, NEW a, Extreme(S, T)
  PROVE Extreme(Post(S, a), Post(T, a))
BY DEF Extreme, Post

\* Edges of A join states of A, with symbols; states reached in B are B's.
LEMMA EdgeTypes ==
  ASSUME StemTypeOK
  PROVE /\ \A e \in edgesA : e.from \in StateA /\ e.to \in StateA /\ e.symbol \in Symbol
        /\ \A e \in edgesB : e.to \in StateB
BY AutomataAssumption DEF StemTypeOK, Edge

\* TargetOf holds states of B.
LEMMA PostTypes ==
  ASSUME StemTypeOK, NEW S, NEW a
  PROVE Post(S, a) \in SUBSET StateB
BY EdgeTypes DEF Post

\* An entry moved along an edge is an entry.
LEMMA MovedEntry ==
  ASSUME StemTypeOK, NEW u \in Entry, NEW e \in edgesA
  PROVE /\ Moved(u, e) \in Entry
        /\ PairOf(Moved(u, e)) = Successor(PairOf(u), e)
<1>1. e.to \in StateA /\ e.symbol \in Symbol
  BY EdgeTypes
<1>2. Post(u.set, e.symbol) \in SUBSET StateB
  BY PostTypes
<1>3. Append(u.word, e.symbol) \in Seq(Symbol)
  BY <1>1 DEF Entry
<1> QED
  BY <1>1, <1>2, <1>3 DEF Moved, Entry, PairOf, Successor

\* The pairs that words lead to contain the initial one and their successors.
LEMMA PairsClosed ==
  ASSUME StemTypeOK
  PROVE /\ InitPair \in Pairs
        /\ ClosedPairs(Pairs)
<1>1. InitPair \in Pairs
  BY AutomataAssumption DEF InitPair, Pairs, Pair
<1>2. ClosedPairs(Pairs)
  <2> SUFFICES ASSUME NEW p \in Pairs, NEW e \in edgesA, e.from = p[1]
               PROVE Successor(p, e) \in Pairs
    BY DEF ClosedPairs
  <2>1. Successor(p, e) \in Pair
    BY EdgeTypes, PostTypes DEF Successor, Pair
  <2>2. ASSUME NEW C \in SUBSET Pair, InitPair \in C, ClosedPairs(C)
        PROVE Successor(p, e) \in C
    <3>1. p \in C
      BY <2>2 DEF Pairs
    <3> QED
      BY <3>1, <2>2 DEF ClosedPairs
  <2> QED
    BY <2>1, <2>2 DEF Pairs
<1> QED
  BY <1>1, <1>2

\* In an antichain an entry that is rejected dominates nothing.
LEMMA NothingLost ==
  ASSUME Antichain, NEW n, Rejected(n)
  PROVE Dominated(n) = {}
<1> SUFFICES ASSUME NEW y \in Dominated(n)
             PROVE FALSE
  OBVIOUS
<1>1. PICK x \in content : x.state = n.state /\ Extreme(x.set, n.set)
  BY DEF Rejected
<1>2. y \in content /\ y.state = n.state /\ Extreme(n.set, y.set) /\ ~Extreme(y.set, n.set)
  BY DEF Dominated
<1>3. Extreme(x.set, y.set)
  BY <1>1, <1>2, ExtremeOrder
<1>4. x # y
  BY <1>1, <1>2
<1> QED
  BY <1>1, <1>2, <1>3, <1>4 DEF Antichain

-----------------------------------------------------------------------------
(***************************************************************************)
(* The inductive invariant                                                 *)
(***************************************************************************)

\* The constructor of FixpointStem establishes the invariant.
LEMMA InitInv ==
  ASSUME StemInit
  PROVE StemInv
<1>1. FirstEntry \in Entry
  BY AutomataAssumption DEF FirstEntry, Entry
<1>2. StemTypeOK
  BY <1>1 DEF StemInit, StemTypeOK, Round
<1>3. PairOf(FirstEntry) = InitPair
  BY DEF FirstEntry, PairOf, InitPair
<1>4. Antichain
  BY DEF StemInit, Antichain
<1>5. Pending
  BY DEF StemInit, Pending, Round
<1>6. Sound
  BY <1>2, <1>3, PairsClosed DEF StemInit, Sound
<1>7. Started
  BY <1>3, ExtremeOrder DEF StemInit, Started, Better
<1>8. Rounds
  BY DEF StemInit, Rounds
<1> QED
  BY <1>2, <1>4, <1>5, <1>6, <1>7, <1>8 DEF StemInv

\* The graphs and the direction stay as they are, and with them the pairs.
LEMMA SameGraphs ==
  ASSUME UNCHANGED <<edgesA, edgesB, reversed>>
  PROVE /\ Pairs' = Pairs
        /\ \A S, T : Extreme(S, T)' = Extreme(S, T)
        /\ \A q, p : Better(q, p)' = Better(q, p)
        /\ \A p, e : Successor(p, e)' = Successor(p, e)
        /\ Entry' = Entry
<1>1. \A T, a : Post(T, a)' = Post(T, a)
  BY DEF Post
<1>2. \A p, e : Successor(p, e)' = Successor(p, e)
  BY <1>1 DEF Successor
<1>3. \A C : ClosedPairs(C)' = ClosedPairs(C)
  BY <1>2 DEF ClosedPairs
<1>4. Pairs' = Pairs
  BY <1>3 DEF Pairs
<1>5. \A S, T : Extreme(S, T)' = Extreme(S, T)
  BY DEF Extreme
<1>6. \A q, p : Better(q, p)' = Better(q, p)
  BY <1>5 DEF Better
<1> QED
  BY <1>2, <1>4, <1>5, <1>6 DEF Entry

\* What Pending asks of the next state, in terms of this one.
LEMMA NextPending ==
  ASSUME UNCHANGED <<edgesA, edgesB, reversed>>,
         \A x \in content', e \in edgesA :
           e.from = x.state =>
             \/ x \in buffer'
             \/ <<x, e>> \in todo'
             \/ \E y \in content' : Better(PairOf(y), Successor(PairOf(x), e))
  PROVE Pending'
BY DEF Pending, Better, Extreme, PairOf, Successor, Post

\* addIfExtreme rejects an entry: nothing is lost, and another accounts for it.
LEMMA RejectPreserves ==
  ASSUME StemInv, NEW u, NEW e, StemReject(u, e)
  PROVE StemInv'
<1> DEFINE n == Moved(u, e)
<1>1. <<u, e>> \in todo /\ Rejected(n) /\ todo' = todo \ {<<u, e>>}
  BY DEF StemReject
<1>2. content' = content
  <2>1. Dominated(n) = {}
    BY <1>1, NothingLost DEF StemInv
  <2> QED
    BY <2>1 DEF StemReject
<1>3. UNCHANGED <<edgesA, edgesB, reversed, content, updates, buffer>>
  BY <1>2 DEF StemReject
<1>4. u \in updates /\ e \in edgesA /\ e.from = u.state
  <2>1. \A w \in todo : w[1] \in updates /\ w[2] \in edgesA /\ w[2].from = w[1].state
    BY DEF StemInv, StemTypeOK
  <2> QED
    BY <1>1, <2>1
<1>5. u \in Entry
  BY <1>4 DEF StemInv, StemTypeOK
<1>6. StemTypeOK'
  BY <1>1, <1>3, SameGraphs DEF StemInv, StemTypeOK
<1>7. Antichain'
  BY <1>3, SameGraphs DEF StemInv, Antichain
<1>8. Pending'
  <2> SUFFICES ASSUME NEW x \in content, NEW d \in edgesA, d.from = x.state,
                      x \notin buffer, <<x, d>> \notin todo'
               PROVE \E y \in content : Better(PairOf(y), Successor(PairOf(x), d))
    BY <1>3, NextPending
  <2>1. CASE <<x, d>> = <<u, e>>
    <3>1. x = u /\ d = e
      BY <2>1
    <3>2. PICK y \in content : y.state = n.state /\ Extreme(y.set, n.set)
      BY <1>1 DEF Rejected
    <3>3. Better(PairOf(y), PairOf(n))
      BY <3>2 DEF Better, PairOf
    <3>4. PairOf(n) = Successor(PairOf(u), e)
      BY <1>4, <1>5, MovedEntry DEF StemInv
    <3> QED
      BY <3>1, <3>3, <3>4
  <2>2. CASE <<x, d>> # <<u, e>>
    <3>1. <<x, d>> \notin todo
      BY <1>1, <2>2
    <3> QED
      BY <3>1 DEF StemInv, Pending
  <2> QED
    BY <2>1, <2>2
<1>9. Sound'
  BY <1>3, SameGraphs DEF StemInv, Sound, PairOf
<1>10. Started'
  BY <1>3, SameGraphs DEF StemInv, Started, InitPair, PairOf
<1>11. Rounds'
  BY <1>3 DEF StemInv, Rounds
<1> QED
  BY <1>6, <1>7, <1>8, <1>9, <1>10, <1>11 DEF StemInv

\* What was accounted for still is: what is removed from the antichain is
\* dominated by what enters it.
LEMMA AddPreserves ==
  ASSUME StemInv, NEW u, NEW e, StemAdd(u, e)
  PROVE StemInv'
<1> DEFINE n == Moved(u, e)
<1>1. /\ <<u, e>> \in todo
      /\ ~Rejected(n)
      /\ todo' = todo \ {<<u, e>>}
      /\ content' = (content \ Dominated(n)) \cup {n}
      /\ buffer' = buffer \cup {n}
      /\ UNCHANGED <<edgesA, edgesB, reversed, updates>>
  BY DEF StemAdd
<1>2. u \in updates /\ e \in edgesA /\ e.from = u.state
  <2>1. \A w \in todo : w[1] \in updates /\ w[2] \in edgesA /\ w[2].from = w[1].state
    BY DEF StemInv, StemTypeOK
  <2> QED
    BY <1>1, <2>1
<1>3. u \in Entry
  BY <1>2 DEF StemInv, StemTypeOK
<1>4. n \in Entry /\ PairOf(n) = Successor(PairOf(u), e)
  BY <1>2, <1>3, MovedEntry DEF StemInv
<1>5. ASSUME NEW y \in content, NEW p, Better(PairOf(y), p)
      PROVE \E z \in content' : Better(PairOf(z), p)
  <2>1. CASE y \in Dominated(n)
    <3>1. Better(PairOf(n), PairOf(y))
      BY <2>1 DEF Dominated, Better, PairOf
    <3>2. Better(PairOf(n), p)
      BY <1>5, <3>1, ExtremeOrder DEF Better
    <3> QED
      BY <1>1, <3>2
  <2>2. CASE y \notin Dominated(n)
    BY <1>1, <1>5, <2>2
  <2> QED
    BY <2>1, <2>2
<1>6. StemTypeOK'
  BY <1>1, <1>4, SameGraphs DEF StemInv, StemTypeOK
<1>7. Antichain'
  <2> SUFFICES ASSUME NEW x \in content', NEW y \in content', x # y, x.state = y.state
               PROVE ~Extreme(x.set, y.set)
    BY <1>1, SameGraphs DEF Antichain
  <2>1. CASE x = n
    <3>1. y \in content /\ y \notin Dominated(n)
      BY <1>1, <2>1
    <3>2. ~Extreme(y.set, n.set)
      BY <1>1, <2>1, <3>1 DEF Rejected
    <3> QED
      BY <2>1, <3>1, <3>2 DEF Dominated
  <2>2. CASE y = n
    BY <1>1, <2>2 DEF Rejected
  <2>3. CASE x # n /\ y # n
    BY <1>1, <2>3 DEF StemInv, Antichain
  <2> QED
    BY <2>1, <2>2, <2>3
<1>8. Pending'
  <2> SUFFICES ASSUME NEW x \in content', NEW d \in edgesA, d.from = x.state,
                      x \notin buffer', <<x, d>> \notin todo'
               PROVE \E z \in content' : Better(PairOf(z), Successor(PairOf(x), d))
    BY <1>1, NextPending
  <2>1. x \in content /\ x \notin buffer
    BY <1>1
  <2>2. CASE <<x, d>> = <<u, e>>
    <3>1. x = u /\ d = e
      BY <2>2
    <3>2. Better(PairOf(n), PairOf(n))
      BY ExtremeOrder DEF Better
    <3> QED
      BY <1>1, <1>4, <3>1, <3>2
  <2>3. CASE <<x, d>> # <<u, e>>
    <3>1. <<x, d>> \notin todo
      BY <1>1, <2>3
    <3>2. PICK y \in content : Better(PairOf(y), Successor(PairOf(x), d))
      BY <2>1, <3>1 DEF StemInv, Pending
    <3> QED
      BY <1>5, <3>2
  <2> QED
    BY <2>2, <2>3
<1>9. Sound'
  <2>1. PairOf(n) \in Pairs
    <3>1. PairOf(u) \in Pairs
      BY <1>2 DEF StemInv, Sound
    <3>2. e.from = PairOf(u)[1]
      BY <1>2 DEF PairOf
    <3>3. ClosedPairs(Pairs)
      BY PairsClosed DEF StemInv
    <3> QED
      BY <1>2, <1>4, <3>1, <3>2, <3>3 DEF ClosedPairs
  <2>2. \A x \in content \cup updates \cup buffer : PairOf(x) \in Pairs
    BY DEF StemInv, Sound
  <2>3. \A x \in content' \cup updates' \cup buffer' : PairOf(x) \in Pairs
    BY <1>1, <2>1, <2>2
  <2> QED
    BY <1>1, <2>3, SameGraphs DEF Sound, PairOf
<1>10. Started'
  <2>1. PICK y \in content : Better(PairOf(y), InitPair)
    BY DEF StemInv, Started
  <2>2. PICK z \in content' : Better(PairOf(z), InitPair)
    BY <1>5, <2>1
  <2> QED
    BY <1>1, <2>2, SameGraphs DEF Started, InitPair, PairOf
<1>11. Rounds'
  BY <1>1, <1>2 DEF Rounds
<1> QED
  BY <1>6, <1>7, <1>8, <1>9, <1>10, <1>11 DEF StemInv

\* A new round takes up what waits in the buffer.
LEMMA SwapPreserves ==
  ASSUME StemInv, StemSwap
  PROVE StemInv'
<1>1. /\ todo = {} /\ updates' = buffer /\ buffer' = {} /\ todo' = Round(buffer)
      /\ UNCHANGED <<edgesA, edgesB, reversed, content>>
  BY DEF StemSwap, AfterSwap
<1>2. StemTypeOK'
  <2>1. \A w \in todo' : w[1] \in updates' /\ w[2] \in edgesA' /\ w[2].from = w[1].state
    BY <1>1 DEF Round
  <2> QED
    BY <1>1, <2>1, SameGraphs DEF StemInv, StemTypeOK
<1>3. Antichain'
  BY <1>1, SameGraphs DEF StemInv, Antichain
<1>4. Pending'
  <2> SUFFICES ASSUME NEW x \in content, NEW d \in edgesA, d.from = x.state, <<x, d>> \notin todo'
               PROVE \E y \in content : Better(PairOf(y), Successor(PairOf(x), d))
    BY <1>1, NextPending
  <2>1. x \notin buffer
    BY <1>1 DEF Round
  <2> QED
    BY <1>1, <2>1 DEF StemInv, Pending
<1>5. Sound'
  BY <1>1, SameGraphs DEF StemInv, Sound, PairOf
<1>6. Started'
  BY <1>1, SameGraphs DEF StemInv, Started, InitPair, PairOf
<1>7. Rounds'
  BY <1>1 DEF Rounds
<1> QED
  BY <1>2, <1>3, <1>4, <1>5, <1>6, <1>7 DEF StemInv

\* A step keeps the invariant.
LEMMA StemNext ==
  ASSUME StemInv, [StemStep]_stemVars
  PROVE StemInv'
<1>1. CASE \E w \in todo : StemReject(w[1], w[2])
  BY <1>1, RejectPreserves
<1>2. CASE \E w \in todo : StemAdd(w[1], w[2])
  BY <1>2, AddPreserves
<1>3. CASE StemSwap
  BY <1>3, SwapPreserves
<1>4. CASE UNCHANGED stemVars
  <2>1. UNCHANGED <<edgesA, edgesB, reversed, content, updates, buffer, todo>>
    BY <1>4 DEF stemVars, stemTables
  <2>2. StemTypeOK' /\ Antichain'
    BY <2>1, SameGraphs DEF StemInv, StemTypeOK, Antichain
  <2>3. Pending'
    BY <2>1, NextPending DEF StemInv, Pending
  <2>4. Sound' /\ Started' /\ Rounds'
    BY <2>1, SameGraphs DEF StemInv, Sound, Started, Rounds, InitPair, PairOf
  <2> QED
    BY <2>2, <2>3, <2>4 DEF StemInv
<1> QED
  BY <1>1, <1>2, <1>3, <1>4 DEF StemStep

\* The invariant holds throughout the fixpoint.
THEOREM StemInvHolds == StemSpec => []StemInv
<1>1. StemInit => StemInv
  BY InitInv
<1>2. StemInv /\ [StemStep]_stemVars => StemInv'
  BY StemNext
<1> QED
  BY <1>1, <1>2, PTL DEF StemSpec

-----------------------------------------------------------------------------
(***************************************************************************)
(* What the fixpoint ends with                                             *)
(***************************************************************************)

\* When nothing is pending, every pair that words lead to is accounted for.
LEMMA AllCovered ==
  ASSUME StemInv, StemOver
  PROVE \A p \in Pairs : \E y \in content : Better(PairOf(y), p)
<1> DEFINE C == {p \in Pair : \E y \in content : Better(PairOf(y), p)}
<1>1. InitPair \in C
  BY AutomataAssumption DEF StemInv, Started, InitPair, Pair
<1>2. ClosedPairs(C)
  <2> SUFFICES ASSUME NEW p \in C, NEW e \in edgesA, e.from = p[1]
               PROVE Successor(p, e) \in C
    BY DEF ClosedPairs
  <2>1. PICK y \in content : Better(PairOf(y), p)
    OBVIOUS
  <2>2. y.state = p[1] /\ Extreme(y.set, p[2])
    BY <2>1 DEF Better, PairOf
  <2>3. PICK z \in content : Better(PairOf(z), Successor(PairOf(y), e))
    <3>1. buffer = {} /\ todo = {}
      BY DEF StemInv, Rounds, StemOver
    <3> QED
      BY <2>2, <3>1 DEF StemInv, Pending
  <2>4. Better(Successor(PairOf(y), e), Successor(p, e))
    BY <2>2, PostMonotonic DEF Better, Successor, PairOf
  <2>5. Better(PairOf(z), Successor(p, e))
    BY <2>3, <2>4, ExtremeOrder DEF Better
  <2>6. Successor(p, e) \in Pair
    BY EdgeTypes, PostTypes DEF StemInv, Successor, Pair
  <2> QED
    BY <2>5, <2>6
<1>3. C \in SUBSET Pair
  OBVIOUS
<1> QED
  BY <1>1, <1>2, <1>3 DEF Pairs

\* Two pairs each of which may stand for the other are the same.
LEMMA BetterOrder ==
  /\ \A p, q, r : Better(p, q) /\ Better(q, r) => Better(p, r)
  /\ \A p, q \in Pair : Better(p, q) /\ Better(q, p) => p = q
<1>1. \A p, q, r : Better(p, q) /\ Better(q, r) => Better(p, r)
  BY ExtremeOrder DEF Better
<1>2. ASSUME NEW p \in Pair, NEW q \in Pair, Better(p, q), Better(q, p)
      PROVE p = q
  <2>1. p[1] = q[1] /\ p[2] = q[2]
    BY <1>2, ExtremeOrder DEF Better
  <2> QED
    BY <2>1 DEF Pair
<1> QED
  BY <1>1, <1>2

\* Two entries of the antichain whose pairs are comparable are the same.
LEMMA Incomparable ==
  ASSUME StemInv, NEW x \in content, NEW y \in content, Better(PairOf(x), PairOf(y))
  PROVE x = y
BY DEF StemInv, Antichain, Better, PairOf

\* With everything accounted for and no two entries comparable, the entries are
\* the extreme pairs.
LEMMA ExactAtTheEnd ==
  ASSUME StemInv
  PROVE StemExact
<1> SUFFICES ASSUME StemOver
             PROVE {PairOf(x) : x \in content} =
                     {p \in Pairs : \A q \in Pairs : Better(q, p) => q = p}
  BY DEF StemExact
<1>1. Pairs \subseteq Pair
  BY DEF Pairs
<1>2. ASSUME NEW x \in content
      PROVE /\ PairOf(x) \in Pairs
            /\ \A q \in Pairs : Better(q, PairOf(x)) => q = PairOf(x)
  <2>1. PairOf(x) \in Pairs
    BY DEF StemInv, Sound
  <2>2. ASSUME NEW q \in Pairs, Better(q, PairOf(x))
        PROVE q = PairOf(x)
    <3>1. PICK y \in content : Better(PairOf(y), q)
      BY AllCovered
    <3>2. y = x
      BY <2>2, <3>1, BetterOrder, Incomparable
    <3> QED
      BY <1>1, <2>1, <2>2, <3>1, <3>2, BetterOrder
  <2> QED
    BY <2>1, <2>2
<1>3. ASSUME NEW p \in Pairs, \A q \in Pairs : Better(q, p) => q = p
      PROVE \E x \in content : p = PairOf(x)
  <2>1. PICK y \in content : Better(PairOf(y), p)
    BY AllCovered
  <2>2. PairOf(y) \in Pairs
    BY <1>2
  <2> QED
    BY <1>3, <2>1, <2>2
<1> QED
  BY <1>2, <1>3

\* FixpointStem::addIfExtreme: the entries of the antichain are always
\* incomparable, so that no rejection comes after a removal.
THEOREM AntichainHolds == StemSpec => []Antichain
<1>1. StemInv => Antichain
  BY DEF StemInv
<1> QED
  BY <1>1, StemInvHolds, PTL

\* FixpointStem::apply: an entry pruned while it waits loses no pair.
THEOREM NothingForgotten == StemSpec => []Pending
<1>1. StemInv => Pending
  BY DEF StemInv
<1> QED
  BY <1>1, StemInvHolds, PTL

\* The tables are what the code takes them for.
THEOREM StemTypeCorrect == StemSpec => []StemTypeOK
<1>1. StemInv => StemTypeOK
  BY DEF StemInv
<1> QED
  BY <1>1, StemInvHolds, PTL

\* The fixpoint of FixpointStem: exactly the extreme pairs, for all automata.
THEOREM StemCorrect == StemSpec => []StemExact
<1>1. StemInv => StemExact
  BY ExactAtTheEnd
<1> QED
  BY <1>1, StemInvHolds, PTL
-----------------------------------------------------------------------------
(***************************************************************************)
(* The words                                                               *)
(***************************************************************************)

\* One more symbol leads pairs to pairs.
LEMMA OneOnTypes ==
  ASSUME StemTypeOK, NEW a, NEW pairs \in SUBSET Pair
  PROVE OneOn(a, pairs) \in SUBSET Pair
<1> SUFFICES ASSUME NEW p \in pairs, NEW e \in edgesA
             PROVE Successor(p, e) \in Pair
  BY DEF OneOn
<1> QED
  BY EdgeTypes, PostTypes DEF Successor, Pair

\* What Led computes, symbol by symbol.
LEMMA LedSteps ==
  ASSUME StemTypeOK, NEW word \in Seq(Symbol)
  PROVE /\ Led(word)[0] = {InitPair}
        /\ \A k \in 1..Len(word) : Led(word)[k] = OneOn(word[k], Led(word)[k - 1])
<1> DEFINE N == Len(word)
           Def(h) == [k \in 0..N |-> IF k = 0 THEN {InitPair} ELSE OneOn(word[k], h[k - 1])]
           step == [x \in (1..N) \X SUBSET Pair |-> OneOn(word[x[1]], x[2])]
<1>1. N \in Nat
  OBVIOUS
<1>2. {InitPair} \in SUBSET Pair
  BY AutomataAssumption DEF InitPair, Pair
<1>3. step \in [(1..N) \X SUBSET Pair -> SUBSET Pair]
  BY OneOnTypes
<1>4. \A k \in 1..N, ps \in SUBSET Pair : step[<<k, ps>>] = OneOn(word[k], ps)
  OBVIOUS
<1> DEFINE base == {InitPair}
<1> HIDE DEF step, N, base
<1>5. PICK h : Iterates(h, N, SUBSET Pair, base, step)
  <2>1. base \in SUBSET Pair
    BY <1>2 DEF base
  <2> QED
    BY <1>1, <2>1, <1>3, Recursion
<1>6. \A k \in 1..N : h[k] = OneOn(word[k], h[k - 1])
  <2> SUFFICES ASSUME NEW k \in 1..N
               PROVE h[k] = OneOn(word[k], h[k - 1])
    OBVIOUS
  <2>1. h[k - 1] \in SUBSET Pair
    BY <1>1, <1>5 DEF Iterates
  <2> QED
    BY <1>4, <1>5, <2>1 DEF Iterates
<1>7. h = Def(h)
  <2>1. \A k \in 0..N : h[k] = Def(h)[k]
    BY <1>1, <1>5, <1>6 DEF base, Iterates
  <2> QED
    BY <2>1, <1>5 DEF Iterates
<1>8. Led(word) = Def(Led(word))
  <2> DEFINE g == CHOOSE x : x = Def(x)
  <2>1. g = Def(g)
    BY <1>7
  <2>2. Led(word) = g
    BY DEF Led, N
  <2> QED
    BY <2>1, <2>2
<1> HIDE DEF N
<1>9. Led(word)[0] = {InitPair} /\ \A k \in 1..N : Led(word)[k] = OneOn(word[k], Led(word)[k - 1])
  <2> DEFINE L == Led(word)
  <2> HIDE DEF L
  <2>1. L = Def(L)
    BY <1>8 DEF L
  <2>2. \A k \in 0..N : Def(L)[k] = IF k = 0 THEN {InitPair} ELSE OneOn(word[k], L[k - 1])
    OBVIOUS
  <2> HIDE DEF Def
  <2>3. L[0] = {InitPair} /\ \A k \in 1..N : L[k] = OneOn(word[k], L[k - 1])
    BY <1>1, <2>1, <2>2
  <2> QED
    BY <2>3 DEF L
<1> QED
  BY <1>9 DEF N

\* A longer word leads where it led before, and on by its last symbol.
LEMMA LedAppend ==
  ASSUME StemTypeOK, NEW word \in Seq(Symbol), NEW a \in Symbol
  PROVE Led(Append(word, a))[Len(word) + 1] = OneOn(a, Led(word)[Len(word)])
<1> DEFINE N == Len(word)
           longer == Append(word, a)
           T == {k \in 0..N : Led(longer)[k] = Led(word)[k]}
<1>1. /\ longer \in Seq(Symbol) /\ Len(longer) = N + 1 /\ N \in Nat
      /\ longer[N + 1] = a
      /\ \A k \in 1..N : longer[k] = word[k]
  OBVIOUS
<1> HIDE DEF longer, N
<1>2. 0 \in T
  <2>1. Led(longer)[0] = {InitPair}
    BY <1>1, LedSteps
  <2>2. Led(word)[0] = {InitPair}
    BY LedSteps
  <2>3. 0 \in 0..N /\ Led(longer)[0] = Led(word)[0]
    BY <1>1, <2>1, <2>2
  <2> QED
    BY <2>3
<1>3. ASSUME NEW k \in 0..(N - 1), k \in T
      PROVE k + 1 \in T
  <2>1. k + 1 \in 1..N /\ k + 1 \in 1..(N + 1) /\ (k + 1) - 1 = k
    BY <1>1
  <2>2. Led(longer)[k + 1] = OneOn(longer[k + 1], Led(longer)[k])
    BY <1>1, <2>1, LedSteps
  <2>3. Led(word)[k + 1] = OneOn(word[k + 1], Led(word)[k])
    BY <2>1, LedSteps DEF N
  <2> QED
    BY <1>1, <1>3, <2>1, <2>2, <2>3
<1> HIDE DEF T
<1>4. N \in T
  <2>1. 0..N \subseteq T
    BY <1>1, <1>2, <1>3, BoundedInduction
  <2> QED
    BY <1>1, <2>1
<1>5. Led(longer)[N + 1] = OneOn(longer[N + 1], Led(longer)[N])
  BY <1>1, LedSteps
<1> QED
  BY <1>1, <1>4, <1>5 DEF T, N, longer

\* The graphs stay as they are, and so does what words lead to.
LEMMA SameLed ==
  ASSUME UNCHANGED <<edgesA, edgesB>>, NEW word
  PROVE Led(word)' = Led(word)
BY DEF Led, OneOn, Successor, Post, InitPair

\* An entry moved along an edge is led to by its longer word.
LEMMA MovedLed ==
  ASSUME StemTypeOK, NEW u \in Entry, PairOf(u) \in Led(u.word)[Len(u.word)],
         NEW e \in edgesA, e.from = u.state
  PROVE PairOf(Moved(u, e)) \in Led(Moved(u, e).word)[Len(Moved(u, e).word)]
<1>1. u.word \in Seq(Symbol) /\ e.symbol \in Symbol /\ e.from = PairOf(u)[1]
  BY EdgeTypes DEF Entry, PairOf
<1>2. Moved(u, e).word = Append(u.word, e.symbol)
  BY DEF Moved
<1>3. Len(Moved(u, e).word) = Len(u.word) + 1
  BY <1>1, <1>2
<1>4. Led(Moved(u, e).word)[Len(Moved(u, e).word)] = OneOn(e.symbol, Led(u.word)[Len(u.word)])
  BY <1>1, <1>2, <1>3, LedAppend
<1>5. Successor(PairOf(u), e) \in OneOn(e.symbol, Led(u.word)[Len(u.word)])
  BY <1>1 DEF OneOn
<1> QED
  BY <1>4, <1>5, MovedEntry

\* The words are right at first.
LEMMA WordsStart ==
  ASSUME StemInit
  PROVE WordsLead
<1>1. StemTypeOK
  BY InitInv DEF StemInv
<1>2. FirstEntry.word \in Seq(Symbol) /\ Len(FirstEntry.word) = 0 /\ PairOf(FirstEntry) = InitPair
  BY DEF FirstEntry, PairOf, InitPair
<1>3. Led(FirstEntry.word)[0] = {InitPair}
  BY <1>1, <1>2, LedSteps
<1>4. content \cup updates \cup buffer = {FirstEntry}
  BY DEF StemInit
<1> QED
  BY <1>2, <1>3, <1>4 DEF WordsLead

\* A step keeps them right.
LEMMA WordsNext ==
  ASSUME StemInv, WordsLead, [StemStep]_stemVars
  PROVE WordsLead'
<1> DEFINE LedTo(x) == PairOf(x) \in Led(x.word)[Len(x.word)]
<1>1. UNCHANGED <<edgesA, edgesB>>
  BY DEF StemStep, StemReject, StemAdd, StemSwap, stemVars, stemTables
<1>2. \A x : LedTo(x)' <=> LedTo(x)
  <2>1. ASSUME NEW x
        PROVE LedTo(x)' <=> LedTo(x)
    <3>1. Led(x.word)' = Led(x.word)
      BY <1>1, SameLed
    <3> QED
      BY <3>1 DEF PairOf
  <2> QED
    BY <2>1
<1> SUFFICES ASSUME NEW x \in content' \cup updates' \cup buffer'
             PROVE LedTo(x)
  BY <1>2 DEF WordsLead
<1>3. \A y \in content \cup updates \cup buffer : LedTo(y)
  BY DEF WordsLead
<1> HIDE DEF LedTo
<1>4. CASE \E w \in todo : StemReject(w[1], w[2])
  BY <1>3, <1>4 DEF StemReject
<1>5. CASE \E w \in todo : StemAdd(w[1], w[2])
  <2>1. PICK w \in todo : StemAdd(w[1], w[2])
    BY <1>5
  <2>2. x \in content \cup updates \cup buffer \/ x = Moved(w[1], w[2])
    BY <2>1 DEF StemAdd
  <2>3. w[1] \in updates /\ w[1] \in Entry /\ w[2] \in edgesA /\ w[2].from = w[1].state
    BY DEF StemInv, StemTypeOK
  <2>4. LedTo(w[1])
    BY <1>3, <2>3
  <2>5. LedTo(Moved(w[1], w[2]))
    BY <2>3, <2>4, MovedLed DEF LedTo, StemInv
  <2> QED
    BY <1>3, <2>2, <2>5
<1>6. CASE StemSwap
  BY <1>3, <1>6 DEF StemSwap, AfterSwap
<1>7. CASE UNCHANGED stemVars
  BY <1>3, <1>7 DEF stemVars, stemTables
<1> QED
  BY <1>4, <1>5, <1>6, <1>7 DEF StemStep

\* FixpointStem::apply: the word of an entry leads A and B to its pair, for
\* every automaton, also when the pair was given up and found again.
THEOREM WordsCorrect == StemSpec => []WordsLead
<1>1. StemInit => WordsLead
  BY WordsStart
<1>2. StemInv /\ WordsLead /\ [StemStep]_stemVars => WordsLead'
  BY WordsNext
<1> QED
  BY <1>1, <1>2, StemInvHolds, PTL DEF StemSpec

-----------------------------------------------------------------------------
(***************************************************************************)
(* The loop fixpoint prunes nothing that is not accounted for, though its  *)
(* entries start out comparable and a rejection may come after some have   *)
(* been removed.  At its end an entry stands for every loop of A, of       *)
(* whatever length.                                                        *)
(***************************************************************************)

LoopInv == LoopTypeOK /\ LoopPending

-----------------------------------------------------------------------------
(***************************************************************************)
(* Types                                                                   *)
(***************************************************************************)

\* The graphs do not change.
Graphs == edgesA \in GraphsA /\ edgesB \in GraphsB

\* Edges of both automata join their states.
LEMMA LoopEdgeTypes ==
  ASSUME Graphs
  PROVE /\ \A e \in LoopEdges : e \in Edge(StateA)
        /\ \A e \in edgesB : e \in Edge(StateB)
BY AutomataAssumption DEF Graphs, LoopEdges

\* The larger of two weights is one of them.
LEMMA LargerType ==
  ASSUME NEW v \in Weight, NEW w \in Weight
  PROVE Larger(v, w) \in Weight
BY DEF Larger

\* ContextOf relates states of B by weights of B.
LEMMA ExtendedType ==
  ASSUME Graphs, NEW r \in SUBSET Triple, NEW a
  PROVE Extended(r, a) \in SUBSET Triple
<1> SUFFICES ASSUME NEW t \in r, NEW e \in edgesB
             PROVE <<t[1], e.to, Larger(t[3], e.weight)>> \in Triple
  BY DEF Extended
<1>1. t[1] \in StateB /\ t[3] \in Weight
  BY DEF Triple
<1>2. e.to \in StateB /\ e.weight \in Weight
  BY LoopEdgeTypes DEF Edge
<1> QED
  BY <1>1, <1>2, LargerType DEF Triple

\* The constructor of FixpointLoop makes entries.
LEMMA FirstsType ==
  ASSUME Graphs, NEW s \in StateA, NEW W, NEW a \in Symbol
  PROVE Firsts(s, W, a) \subseteq LoopEntry
<1>1. FirstContext(W, a) \in [first : SUBSET Triple, second : SUBSET Triple]
  <2>1. \A e \in edgesB : <<e.from, e.to, e.weight>> \in Triple
    BY LoopEdgeTypes DEF Edge, Triple
  <2> QED
    BY <2>1 DEF FirstContext
<1>2. \A e \in LoopEdges : e.to \in StateA /\ e.weight \in Weight
  BY LoopEdgeTypes DEF Edge
<1>3. <<a>> \in Seq(Symbol)
  OBVIOUS
<1>4. ASSUME NEW e \in LoopEdges
      PROVE [state |-> e.to, context |-> FirstContext(W, a), word |-> <<a>>, value |-> e.weight]
              \in LoopEntry
  BY <1>1, <1>2, <1>3 DEF LoopEntry
<1> QED
  BY <1>4 DEF Firsts

\* An entry moved along an edge is an entry.
LEMMA LoopMovedType ==
  ASSUME Graphs, NEW u \in LoopEntry, NEW e \in LoopEdges
  PROVE LoopMoved(u, e) \in LoopEntry
<1>1. e.to \in StateA /\ e.symbol \in Symbol /\ e.weight \in Weight
  BY LoopEdgeTypes DEF Edge
<1>2. NextContext(u.context, e.symbol) \in [first : SUBSET Triple, second : SUBSET Triple]
  <2>1. u.context.first \in SUBSET Triple /\ u.context.second \in SUBSET Triple
    BY DEF LoopEntry
  <2>2. /\ Extended(u.context.first, e.symbol) \in SUBSET Triple
        /\ Extended(u.context.second, e.symbol) \in SUBSET Triple
    BY <2>1, ExtendedType
  <2> QED
    BY <2>2 DEF NextContext
<1>3. Append(u.word, e.symbol) \in Seq(Symbol)
  BY <1>1 DEF LoopEntry
<1>4. Larger(u.value, e.weight) \in Weight
  BY <1>1, LargerType DEF LoopEntry
<1> QED
  BY <1>1, <1>2, <1>3, <1>4 DEF LoopMoved, LoopEntry

-----------------------------------------------------------------------------
(***************************************************************************)
(* The order of entries                                                    *)
(***************************************************************************)

\* To be covered is reflexive and transitive.
LEMMA CoveredOrder ==
  /\ \A r \in SUBSET Triple : Covered(r, r)
  /\ \A r, q, p \in SUBSET Triple : Covered(r, q) /\ Covered(q, p) => Covered(r, p)
<1>1. \A t \in Triple : t[3] \in Int
  BY AutomataAssumption DEF Triple
<1>2. ASSUME NEW r \in SUBSET Triple
      PROVE Covered(r, r)
  <2> SUFFICES ASSUME NEW t \in r
               PROVE \E u \in r : u[1] = t[1] /\ u[2] = t[2] /\ t[3] <= u[3]
    BY DEF Covered
  <2>1. t[3] <= t[3]
    BY <1>1
  <2> QED
    BY <2>1
<1>3. ASSUME NEW r \in SUBSET Triple, NEW q \in SUBSET Triple, NEW p \in SUBSET Triple,
             Covered(r, q), Covered(q, p)
      PROVE Covered(r, p)
  <2> SUFFICES ASSUME NEW t \in r
               PROVE \E u \in p : u[1] = t[1] /\ u[2] = t[2] /\ t[3] <= u[3]
    BY DEF Covered
  <2>1. PICK v \in q : v[1] = t[1] /\ v[2] = t[2] /\ t[3] <= v[3]
    BY <1>3 DEF Covered
  <2>2. PICK u \in p : u[1] = v[1] /\ u[2] = v[2] /\ v[3] <= u[3]
    BY <1>3 DEF Covered
  <2>3. t[3] \in Int /\ v[3] \in Int /\ u[3] \in Int
    BY <1>1
  <2>4. t[3] <= u[3]
    BY <2>1, <2>2, <2>3
  <2> QED
    BY <2>1, <2>2, <2>4
<1> QED
  BY <1>2, <1>3

\* ContextOf::smaller_than is reflexive and transitive.
LEMMA StandsForOrder ==
  /\ \A x \in LoopEntry : StandsFor(x, x)
  /\ \A x, y, z \in LoopEntry : StandsFor(x, y) /\ StandsFor(y, z) => StandsFor(x, z)
<1>1. \A x \in LoopEntry : /\ x.value \in Int
                           /\ x.context.first \in SUBSET Triple
                           /\ x.context.second \in SUBSET Triple
  BY AutomataAssumption DEF LoopEntry
<1>2. \A x \in LoopEntry : StandsFor(x, x)
  BY <1>1, CoveredOrder DEF StandsFor, Smaller
<1>3. ASSUME NEW x \in LoopEntry, NEW y \in LoopEntry, NEW z \in LoopEntry,
             StandsFor(x, y), StandsFor(y, z)
      PROVE StandsFor(x, z)
  <2>1. z.value <= x.value
    BY <1>1, <1>3 DEF StandsFor, Smaller
  <2>2. /\ Covered(x.context.first, z.context.first)
        /\ Covered(x.context.second, z.context.second)
    BY <1>1, <1>3, CoveredOrder DEF StandsFor, Smaller
  <2> QED
    BY <1>3, <2>1, <2>2 DEF StandsFor, Smaller
<1> QED
  BY <1>2, <1>3

-----------------------------------------------------------------------------
(***************************************************************************)
(* The invariant                                                           *)
(***************************************************************************)

\* The fixpoint as the constructor and the first call of apply leave it, for any
\* set of states of B.
LoopBegun ==
  /\ Graphs
  /\ from \in [state : StateA, set : SUBSET StateB, symbol : Symbol]
  /\ contexts = Firsts(from.state, from.set, from.symbol)
  /\ fresh = contexts
  /\ held = {}
  /\ moves = LoopRound(contexts)

\* LoopInit is a case of that.
LEMMA LoopInitBegun == LoopInit => LoopBegun
BY LoopAssumption DEF LoopInit, LoopBegun, Graphs

\* The constructor establishes the invariant, with entries that may be comparable.
LEMMA LoopInitInv ==
  ASSUME LoopBegun
  PROVE LoopInv
<1>1. Graphs
  BY DEF LoopBegun
<1>2. contexts \subseteq LoopEntry
  BY <1>1, FirstsType DEF LoopBegun
<1>3. LoopTypeOK
  BY <1>1, <1>2 DEF LoopBegun, LoopTypeOK, LoopRound, Graphs
<1>4. LoopPending
  BY <1>2, StandsForOrder DEF LoopBegun, LoopPending, LoopRound
<1> QED
  BY <1>3, <1>4 DEF LoopInv

\* What LoopPending asks of the next state, in terms of this one.
LEMMA NextLoopPending ==
  ASSUME UNCHANGED <<loopGraphs, from>>,
         \A x \in contexts', e \in LoopEdges :
           e.from = x.state =>
             \/ x \in held'
             \/ <<x, e>> \in moves'
             \/ \E y \in contexts' : StandsFor(y, LoopMoved(x, e)),
         \A x \in Firsts(from.state, from.set, from.symbol) :
           \E y \in contexts' : StandsFor(y, x)
  PROVE LoopPending'
<1>1. LoopEdges' = LoopEdges
  BY DEF LoopEdges, SameTag, succA, loopGraphs
<1>2. \A x, e : LoopMoved(x, e)' = LoopMoved(x, e)
  BY DEF LoopMoved, NextContext, Extended, loopGraphs
<1>3. Firsts(from.state, from.set, from.symbol)' = Firsts(from.state, from.set, from.symbol)
  BY <1>1 DEF Firsts, FirstContext, loopGraphs
<1> QED
  BY <1>1, <1>2, <1>3 DEF LoopPending

\* The components of A stay as they are.
LEMMA SameLoopGraphs ==
  ASSUME UNCHANGED loopGraphs
  PROVE LoopEdges' = LoopEdges
BY DEF LoopEdges, SameTag, succA, loopGraphs

\* A move of the round is that of an entry along an edge of its state.
LEMMA MoveTypes ==
  ASSUME LoopInv, NEW u, NEW e, <<u, e>> \in moves
  PROVE /\ u \in fresh /\ u \in LoopEntry /\ e \in LoopEdges /\ e.from = u.state
        /\ LoopMoved(u, e) \in LoopEntry
        /\ contexts \subseteq LoopEntry
<1>1. \A m \in moves : m[1] \in fresh /\ m[2] \in LoopEdges /\ m[2].from = m[1].state
  BY DEF LoopInv, LoopTypeOK
<1>2. u \in fresh /\ e \in LoopEdges /\ e.from = u.state
  BY <1>1
<1>3. u \in LoopEntry /\ contexts \subseteq LoopEntry
  BY <1>2 DEF LoopInv, LoopTypeOK
<1>4. Graphs
  BY DEF LoopInv, LoopTypeOK, Graphs
<1> QED
  BY <1>2, <1>3, <1>4, LoopMovedType

\* A step that keeps something standing for all that was kept, and for what it
\* moved, keeps everything accounted for.
LEMMA StandIn ==
  ASSUME LoopInv, UNCHANGED <<loopGraphs, from>>,
         NEW u, NEW e, <<u, e>> \in moves, moves' = moves \ {<<u, e>>},
         \A y \in contexts : \E z \in contexts' : StandsFor(z, y),
         \E z \in contexts' : StandsFor(z, LoopMoved(u, e)),
         contexts' \subseteq LoopEntry,
         \A x \in contexts' : x \in contexts \/ x \in held',
         held \subseteq held'
  PROVE LoopPending'
<1>1. Graphs
  BY DEF LoopInv, LoopTypeOK, Graphs
<1>2. ASSUME NEW x \in LoopEntry, \E y \in contexts : StandsFor(y, x)
      PROVE \E z \in contexts' : StandsFor(z, x)
  <2>1. PICK y \in contexts : StandsFor(y, x)
    BY <1>2
  <2>2. PICK z \in contexts' : StandsFor(z, y)
    OBVIOUS
  <2>3. y \in LoopEntry
    BY DEF LoopInv, LoopTypeOK
  <2> QED
    BY <1>2, <2>1, <2>2, <2>3, StandsForOrder
<1>3. ASSUME NEW x \in contexts', NEW d \in LoopEdges, d.from = x.state,
             x \notin held', <<x, d>> \notin moves'
      PROVE \E y \in contexts' : StandsFor(y, LoopMoved(x, d))
  <2>1. x \in contexts /\ x \notin held /\ x \in LoopEntry
    BY <1>3
  <2>2. CASE <<x, d>> = <<u, e>>
    BY <2>2
  <2>3. CASE <<x, d>> # <<u, e>>
    <3>1. <<x, d>> \notin moves
      BY <1>3, <2>3
    <3>2. \E y \in contexts : StandsFor(y, LoopMoved(x, d))
      BY <1>3, <2>1, <3>1 DEF LoopInv, LoopPending
    <3>3. LoopMoved(x, d) \in LoopEntry
      BY <1>1, <2>1, LoopMovedType
    <3> QED
      BY <1>2, <3>2, <3>3
  <2> QED
    BY <2>2, <2>3
<1>4. ASSUME NEW x \in Firsts(from.state, from.set, from.symbol)
      PROVE \E y \in contexts' : StandsFor(y, x)
  <2>1. x \in LoopEntry
    <3>1. from.state \in StateA /\ from.symbol \in Symbol
      BY DEF LoopInv, LoopTypeOK
    <3> QED
      BY <1>1, <3>1, FirstsType
  <2>2. \E y \in contexts : StandsFor(y, x)
    BY DEF LoopInv, LoopPending
  <2> QED
    BY <1>2, <2>1, <2>2
<1> QED
  BY <1>3, <1>4, NextLoopPending

\* A rejection: what rejects an entry is not among what the entry dominates,
\* and stands for all of that.
LEMMA LoopRejectPreserves ==
  ASSUME LoopInv, NEW u, NEW e, LoopReject(u, e), UNCHANGED loopGraphs
  PROVE LoopInv'
<1> DEFINE n == LoopMoved(u, e)
<1>1. /\ <<u, e>> \in moves
      /\ moves' = moves \ {<<u, e>>}
      /\ UNCHANGED <<fresh, held, from>>
  BY DEF LoopReject
<1>2. PICK lost \in SUBSET LoopDominated(n) : contexts' = contexts \ lost
  BY DEF LoopReject
<1>3. PICK x \in contexts : x.state = n.state /\ Smaller(x, n)
  BY DEF LoopReject, LoopRejected
<1>4. x \in contexts' /\ StandsFor(x, n)
  BY <1>2, <1>3 DEF LoopDominated, StandsFor
<1>5. ASSUME NEW y \in contexts
      PROVE \E z \in contexts' : StandsFor(z, y)
  <2>1. y \in LoopEntry /\ x \in LoopEntry /\ n \in LoopEntry
    BY <1>1, MoveTypes
  <2>2. CASE y \in lost
    <3>1. StandsFor(n, y)
      BY <1>2, <2>2 DEF LoopDominated, StandsFor
    <3> QED
      BY <1>4, <2>1, <3>1, StandsForOrder
  <2>3. CASE y \notin lost
    BY <1>2, <2>1, <2>3, StandsForOrder
  <2> QED
    BY <2>2, <2>3
<1>6. LoopPending'
  <2>1. contexts' \subseteq LoopEntry
    BY <1>1, <1>2, MoveTypes
  <2> QED
    BY <1>1, <1>2, <1>4, <1>5, <2>1, StandIn
<1>7. LoopTypeOK'
  <2>1. contexts' \subseteq LoopEntry
    BY <1>1, <1>2, MoveTypes
  <2> QED
    BY <1>1, <2>1, SameLoopGraphs DEF LoopInv, LoopTypeOK, LoopEntry, Triple, loopGraphs
<1> QED
  BY <1>6, <1>7 DEF LoopInv

\* addIfMin adds an entry, which stands for all that it removes.
LEMMA LoopAddPreserves ==
  ASSUME LoopInv, NEW u, NEW e, LoopAdd(u, e), UNCHANGED loopGraphs
  PROVE LoopInv'
<1> DEFINE n == LoopMoved(u, e)
<1>1. /\ <<u, e>> \in moves
      /\ moves' = moves \ {<<u, e>>}
      /\ contexts' = (contexts \ LoopDominated(n)) \cup {n}
      /\ held' = held \cup {n}
      /\ UNCHANGED <<fresh, from>>
  BY DEF LoopAdd
<1>2. n \in LoopEntry /\ contexts \subseteq LoopEntry
  BY <1>1, MoveTypes
<1>3. StandsFor(n, n)
  BY <1>2, StandsForOrder
<1>4. ASSUME NEW y \in contexts
      PROVE \E z \in contexts' : StandsFor(z, y)
  <2>1. CASE y \in LoopDominated(n)
    BY <1>1, <2>1 DEF LoopDominated, StandsFor
  <2>2. CASE y \notin LoopDominated(n)
    BY <1>1, <1>2, <2>2, StandsForOrder
  <2> QED
    BY <2>1, <2>2
<1>5. LoopPending'
  <2>1. contexts' \subseteq LoopEntry
    BY <1>1, <1>2
  <2>2. \E z \in contexts' : StandsFor(z, n)
    BY <1>1, <1>3
  <2>3. \A x \in contexts' : x \in contexts \/ x \in held'
    BY <1>1
  <2> QED
    BY <1>1, <1>4, <2>1, <2>2, <2>3, StandIn
<1>6. LoopTypeOK'
  <2>1. contexts' \subseteq LoopEntry /\ held' \subseteq LoopEntry
    BY <1>1, <1>2 DEF LoopInv, LoopTypeOK
  <2> QED
    BY <1>1, <2>1, SameLoopGraphs DEF LoopInv, LoopTypeOK, LoopEntry, Triple, loopGraphs
<1> QED
  BY <1>5, <1>6 DEF LoopInv

\* A new round takes up what waits in the buffer.
LEMMA LoopSwapPreserves ==
  ASSUME LoopInv, LoopSwap, UNCHANGED loopGraphs
  PROVE LoopInv'
<1>1. /\ moves = {} /\ fresh' = held /\ held' = {} /\ moves' = LoopRound(held)
      /\ UNCHANGED <<contexts, from>>
  BY DEF LoopSwap, HeldAfterSwap
<1>2. LoopPending'
  <2>1. ASSUME NEW x \in contexts, NEW d \in LoopEdges, d.from = x.state, <<x, d>> \notin moves'
        PROVE \E y \in contexts : StandsFor(y, LoopMoved(x, d))
    <3>1. x \notin held
      BY <1>1, <2>1 DEF LoopRound
    <3> QED
      BY <1>1, <2>1, <3>1 DEF LoopInv, LoopPending
  <2>2. \A x \in Firsts(from.state, from.set, from.symbol) : \E y \in contexts : StandsFor(y, x)
    BY DEF LoopInv, LoopPending
  <2> QED
    BY <1>1, <2>1, <2>2, NextLoopPending
<1>3. LoopTypeOK'
  <2>1. \A m \in moves' : m[1] \in fresh' /\ m[2] \in LoopEdges /\ m[2].from = m[1].state
    BY <1>1 DEF LoopRound
  <2> QED
    BY <1>1, <2>1, SameLoopGraphs DEF LoopInv, LoopTypeOK, LoopEntry, Triple, loopGraphs
<1> QED
  BY <1>2, <1>3 DEF LoopInv

\* A step keeps the invariant.
LEMMA LoopNext ==
  ASSUME LoopInv, [LoopStep]_<<loopGraphs, loopTables>>
  PROVE LoopInv'
<1>1. CASE \E m \in moves : LoopReject(m[1], m[2]) /\ UNCHANGED loopGraphs
  BY <1>1, LoopRejectPreserves
<1>2. CASE \E m \in moves : LoopAdd(m[1], m[2]) /\ UNCHANGED loopGraphs
  BY <1>2, LoopAddPreserves
<1>3. CASE LoopSwap /\ UNCHANGED loopGraphs
  BY <1>3, LoopSwapPreserves
<1>4. CASE UNCHANGED <<loopGraphs, loopTables>>
  <2>1. UNCHANGED <<loopGraphs, contexts, fresh, held, moves, from>>
    BY <1>4 DEF loopTables
  <2>2. LoopPending'
    BY <2>1, NextLoopPending DEF LoopInv, LoopPending
  <2>3. LoopTypeOK'
    BY <2>1, SameLoopGraphs DEF LoopInv, LoopTypeOK, LoopEntry, Triple, loopGraphs
  <2> QED
    BY <2>2, <2>3 DEF LoopInv
<1> QED
  BY <1>1, <1>2, <1>3, <1>4 DEF LoopStep

\* The invariant holds throughout the fixpoint.
THEOREM LoopInvHolds == LoopSpec => []LoopInv
<1>1. LoopInit => LoopInv
  BY LoopInitBegun, LoopInitInv
<1>2. LoopInv /\ [LoopStep]_<<loopGraphs, loopTables>> => LoopInv'
  BY LoopNext
<1> QED
  BY <1>1, <1>2, PTL DEF LoopSpec

\* The tables are what the code takes them for.
THEOREM LoopTypeCorrect == LoopSpec => []LoopTypeOK
<1>1. LoopInv => LoopTypeOK
  BY DEF LoopInv
<1> QED
  BY <1>1, LoopInvHolds, PTL

\* FixpointLoop::apply and PostContextVariable::addIfMin: whatever is pruned,
\* and whatever an insertion that fails has removed before, is accounted for.
THEOREM NoContextForgotten == LoopSpec => []LoopPending
<1>1. LoopInv => LoopPending
  BY DEF LoopInv
<1> QED
  BY <1>1, LoopInvHolds, PTL
-----------------------------------------------------------------------------
(***************************************************************************)
(* What stands for an entry goes on standing for it                        *)
(***************************************************************************)

\* One more symbol keeps a relation covered.
LEMMA ExtendedCovered ==
  ASSUME Graphs, NEW r \in SUBSET Triple, NEW q \in SUBSET Triple, Covered(r, q), NEW a
  PROVE Covered(Extended(r, a), Extended(q, a))
<1> SUFFICES ASSUME NEW t \in r, NEW e \in edgesB, e.from = t[2], e.symbol = a
             PROVE \E u \in Extended(q, a) :
                     u[1] = t[1] /\ u[2] = e.to /\ Larger(t[3], e.weight) <= u[3]
  BY DEF Extended, Covered
<1>1. PICK u \in q : u[1] = t[1] /\ u[2] = t[2] /\ t[3] <= u[3]
  BY DEF Covered
<1>2. t[3] \in Int /\ u[3] \in Int /\ e.weight \in Int
  BY AutomataAssumption, LoopEdgeTypes DEF Triple, Edge
<1>3. Larger(t[3], e.weight) <= Larger(u[3], e.weight)
  BY <1>1, <1>2 DEF Larger
<1>4. <<u[1], e.to, Larger(u[3], e.weight)>> \in Extended(q, a)
  BY <1>1 DEF Extended
<1> QED
  BY <1>1, <1>3, <1>4

\* A whole context stays covered.
LEMMA ContextCovered ==
  ASSUME Graphs, NEW c, NEW d, NEW a,
         c.first \in SUBSET Triple, c.second \in SUBSET Triple,
         d.first \in SUBSET Triple, d.second \in SUBSET Triple,
         Covered(c.first, d.first), Covered(c.second, d.second)
  PROVE /\ Covered(NextContext(c, a).first, NextContext(d, a).first)
        /\ Covered(NextContext(c, a).second, NextContext(d, a).second)
<1> DEFINE cf == Extended(c.first, a)
           cs == Extended(c.second, a)
           df == Extended(d.first, a)
           ds == Extended(d.second, a)
<1>1. Covered(cf, df) /\ Covered(cs, ds)
  BY ExtendedCovered
<1>2. NextContext(c, a) = [first |-> cf \cup cs, second |-> {t \in cf : t[2] \in finalB} \cup cs]
  BY DEF NextContext
<1>3. NextContext(d, a) = [first |-> df \cup ds, second |-> {t \in df : t[2] \in finalB} \cup ds]
  BY DEF NextContext
<1> HIDE DEF cf, cs, df, ds
<1>4. Covered(cf \cup cs, df \cup ds)
  BY <1>1 DEF Covered
<1>5. Covered({t \in cf : t[2] \in finalB} \cup cs, {t \in df : t[2] \in finalB} \cup ds)
  BY <1>1 DEF Covered
<1> QED
  BY <1>2, <1>3, <1>4, <1>5

\* ContextOf::smaller_than is kept by one more edge of A.
LEMMA MovedStandsFor ==
  ASSUME Graphs, NEW x \in LoopEntry, NEW y \in LoopEntry, StandsFor(y, x), NEW e \in LoopEdges
  PROVE StandsFor(LoopMoved(y, e), LoopMoved(x, e))
<1>1. /\ x.context.first \in SUBSET Triple /\ x.context.second \in SUBSET Triple
      /\ y.context.first \in SUBSET Triple /\ y.context.second \in SUBSET Triple
      /\ x.value \in Int /\ y.value \in Int /\ e.weight \in Int
  BY AutomataAssumption, LoopEdgeTypes DEF LoopEntry, Edge
<1>2. /\ Covered(y.context.first, x.context.first)
      /\ Covered(y.context.second, x.context.second)
      /\ x.value <= y.value
  BY DEF StandsFor, Smaller
<1>3. /\ Covered(NextContext(y.context, e.symbol).first, NextContext(x.context, e.symbol).first)
      /\ Covered(NextContext(y.context, e.symbol).second, NextContext(x.context, e.symbol).second)
  BY <1>1, <1>2, ContextCovered
<1>4. Larger(x.value, e.weight) <= Larger(y.value, e.weight)
  BY <1>1, <1>2 DEF Larger
<1> QED
  BY <1>3, <1>4 DEF StandsFor, Smaller, LoopMoved

-----------------------------------------------------------------------------
(***************************************************************************)
(* The entries of all words                                                *)
(***************************************************************************)

\* Entries moved along all edges of a round are entries.
MovedAll(entries) == {LoopMoved(m[1], m[2]) : m \in LoopRound(entries)}

\* What a round makes of entries are entries.
LEMMA MovedAllType ==
  ASSUME Graphs, NEW entries \in SUBSET LoopEntry
  PROVE MovedAll(entries) \in SUBSET LoopEntry
<1> SUFFICES ASSUME NEW m \in LoopRound(entries)
             PROVE LoopMoved(m[1], m[2]) \in LoopEntry
  BY DEF MovedAll
<1>1. m[1] \in LoopEntry /\ m[2] \in LoopEdges
  BY DEF LoopRound
<1> QED
  BY <1>1, LoopMovedType

\* What Unpruned computes, symbol by symbol.
LEMMA UnprunedSteps ==
  ASSUME LoopTypeOK
  PROVE /\ Unpruned[0] = Firsts(from.state, from.set, from.symbol)
        /\ \A n \in Nat : Unpruned[n + 1] = MovedAll(Unpruned[n])
        /\ \A n \in Nat : Unpruned[n] \subseteq LoopEntry
<1> DEFINE S == SUBSET LoopEntry
           base == Firsts(from.state, from.set, from.symbol)
           step == [x \in Nat \X S |-> MovedAll(x[2])]
           Def(h) == [n \in Nat |-> IF n = 0 THEN base ELSE MovedAll(h[n - 1])]
<1>1. Graphs
  BY DEF LoopTypeOK, Graphs
<1>2. base \in S
  <2>1. from.state \in StateA /\ from.symbol \in Symbol
    BY DEF LoopTypeOK
  <2> QED
    BY <1>1, <2>1, FirstsType
<1>3. step \in [Nat \X S -> S]
  BY <1>1, MovedAllType
<1>4. \A n \in Nat, x \in S : step[<<n, x>>] = MovedAll(x)
  OBVIOUS
<1>5. Unpruned = CHOOSE h : h = Def(h)
  BY DEF Unpruned, MovedAll
<1> HIDE DEF step, base, S
<1>6. PICK h : IteratesForever(h, S, base, step)
  BY <1>2, <1>3, RecursionForever
<1>7. h \in [Nat -> S] /\ h[0] = base /\ \A n \in Nat : h[n + 1] = MovedAll(h[n])
  <2>1. h \in [Nat -> S] /\ h[0] = base /\ \A n \in Nat : h[n + 1] = step[<<n + 1, h[n]>>]
    BY <1>6 DEF IteratesForever
  <2>2. ASSUME NEW n \in Nat
        PROVE h[n + 1] = MovedAll(h[n])
    <3>1. n + 1 \in Nat /\ h[n] \in S
      BY <2>1
    <3> QED
      BY <1>4, <2>1, <3>1
  <2> QED
    BY <2>1, <2>2
<1>8. h = Def(h)
  <2>1. ASSUME NEW n \in Nat
        PROVE h[n] = Def(h)[n]
    <3>1. CASE n = 0
      BY <1>7, <3>1
    <3>2. CASE n # 0
      <4>1. n - 1 \in Nat /\ (n - 1) + 1 = n
        BY <3>2
      <4>2. h[(n - 1) + 1] = MovedAll(h[n - 1])
        BY <1>7, <4>1
      <4> QED
        BY <3>2, <4>1, <4>2
    <3> QED
      BY <3>1, <3>2
  <2> QED
    BY <1>7, <2>1
<1>9. Unpruned = Def(Unpruned)
  BY <1>5, <1>8
<1> DEFINE U == Unpruned
<1> HIDE DEF U
<1>10. U[0] = base /\ \A n \in Nat : U[n + 1] = MovedAll(U[n])
  <2>1. U = Def(U)
    BY <1>9 DEF U
  <2>2. \A n \in Nat : Def(U)[n] = IF n = 0 THEN base ELSE MovedAll(U[n - 1])
    OBVIOUS
  <2> HIDE DEF Def
  <2>3. \A n \in Nat : U[n] = IF n = 0 THEN base ELSE MovedAll(U[n - 1])
    BY <2>1, <2>2
  <2>4. ASSUME NEW n \in Nat
        PROVE U[n + 1] = MovedAll(U[n])
    <3>1. n + 1 \in Nat /\ n + 1 # 0 /\ (n + 1) - 1 = n
      OBVIOUS
    <3> QED
      BY <2>3, <3>1
  <2> QED
    BY <2>3, <2>4
<1>11. \A n \in Nat : U[n] \in S
  <2> DEFINE T == {n \in Nat : U[n] \in S}
  <2>1. 0 \in T
    BY <1>2, <1>10
  <2>2. \A n \in Nat : n \in T => n + 1 \in T
    BY <1>1, <1>10, MovedAllType DEF S
  <2> HIDE DEF T
  <2>3. Nat \subseteq T
    BY <2>1, <2>2, SetInduction
  <2> QED
    BY <2>3 DEF T
<1> QED
  BY <1>10, <1>11 DEF U, base, S

\* The graphs and the origin stay as they are, and so do the entries of words.
LEMMA SameUnpruned ==
  ASSUME UNCHANGED <<loopGraphs, from>>
  PROVE Unpruned' = Unpruned
BY DEF Unpruned, LoopRound, LoopMoved, NextContext, Extended, LoopEdges, SameTag, succA,
       Firsts, FirstContext, loopGraphs

-----------------------------------------------------------------------------
(***************************************************************************)
(* What the fixpoint ends with                                             *)
(***************************************************************************)

\* An entry is what its word does, and a round that adds to the buffer has
\* updates.
IsWord(x) == x.word # <<>> /\ x \in Unpruned[Len(x.word) - 1]
LoopWords ==
  /\ \A x \in contexts \cup fresh \cup held : IsWord(x)
  /\ held # {} => fresh # {}

\* The entries of the constructor have words of one symbol.
LEMMA FirstWords ==
  ASSUME LoopTypeOK, NEW x \in Firsts(from.state, from.set, from.symbol)
  PROVE IsWord(x)
<1>1. x.word # <<>> /\ Len(x.word) = 1
  <2>1. x.word = <<from.symbol>>
    BY DEF Firsts
  <2> QED
    BY <2>1
<1>2. x \in Unpruned[0]
  BY UnprunedSteps
<1> QED
  BY <1>1, <1>2 DEF IsWord

\* An entry moved along an edge is what its longer word does.
LEMMA MovedWords ==
  ASSUME LoopTypeOK, NEW u \in LoopEntry, IsWord(u), NEW e \in LoopEdges, e.from = u.state
  PROVE IsWord(LoopMoved(u, e))
<1> DEFINE n == Len(u.word) - 1
<1>1. u.word \in Seq(Symbol) /\ e.symbol \in Symbol
  <2>1. Graphs
    BY DEF LoopTypeOK, Graphs
  <2> QED
    BY <2>1, LoopEdgeTypes DEF LoopEntry, Edge
<1>2. LoopMoved(u, e).word = Append(u.word, e.symbol)
  BY DEF LoopMoved
<1>3. /\ LoopMoved(u, e).word # <<>>
      /\ Len(LoopMoved(u, e).word) - 1 = n + 1
      /\ n \in Nat
  BY <1>1, <1>2 DEF IsWord
<1>4. <<u, e>> \in LoopRound(Unpruned[n])
  BY DEF IsWord, LoopRound
<1>5. LoopMoved(u, e) \in MovedAll(Unpruned[n])
  BY <1>4 DEF MovedAll
<1>6. LoopMoved(u, e) \in Unpruned[n + 1]
  BY <1>3, <1>5, UnprunedSteps
<1> QED
  BY <1>3, <1>6 DEF IsWord

\* The words are right at first.
LEMMA LoopWordsStart ==
  ASSUME LoopBegun
  PROVE LoopWords
<1>1. LoopTypeOK
  BY LoopInitInv DEF LoopInv
<1>2. \A x \in contexts \cup fresh \cup held :
        x \in Firsts(from.state, from.set, from.symbol)
  BY DEF LoopBegun
<1>3. held = {}
  BY DEF LoopBegun
<1> QED
  BY <1>1, <1>2, <1>3, FirstWords DEF LoopWords

\* A step keeps them right.
LEMMA LoopWordsNext ==
  ASSUME LoopInv, LoopWords, [LoopStep]_<<loopGraphs, loopTables>>
  PROVE LoopWords'
<1>1. UNCHANGED <<loopGraphs, from>>
  BY DEF LoopStep, LoopReject, LoopAdd, LoopSwap, loopTables
<1>2. \A x : IsWord(x)' <=> IsWord(x)
  BY <1>1, SameUnpruned DEF IsWord
<1> SUFFICES /\ \A x \in contexts' \cup fresh' \cup held' : IsWord(x)
             /\ held' # {} => fresh' # {}
  BY <1>2 DEF LoopWords
<1>3. /\ \A x \in contexts \cup fresh \cup held : IsWord(x)
      /\ held # {} => fresh # {}
  BY DEF LoopWords
<1>4. CASE \E m \in moves : LoopReject(m[1], m[2])
  BY <1>3, <1>4 DEF LoopReject
<1>5. CASE \E m \in moves : LoopAdd(m[1], m[2])
  <2>1. PICK m \in moves : LoopAdd(m[1], m[2])
    BY <1>5
  <2>2. /\ contexts' \subseteq contexts \cup {LoopMoved(m[1], m[2])}
        /\ held' = held \cup {LoopMoved(m[1], m[2])}
        /\ fresh' = fresh
    BY <2>1 DEF LoopAdd
  <2>3. m[1] \in fresh /\ m[1] \in LoopEntry /\ m[2] \in LoopEdges /\ m[2].from = m[1].state
    BY DEF LoopInv, LoopTypeOK
  <2>4. IsWord(LoopMoved(m[1], m[2]))
    BY <1>3, <2>3, MovedWords DEF LoopInv
  <2> QED
    BY <1>3, <2>2, <2>3, <2>4
<1>6. CASE LoopSwap
  BY <1>3, <1>6 DEF LoopSwap, HeldAfterSwap
<1>7. CASE UNCHANGED loopTables
  BY <1>3, <1>7 DEF loopTables
<1> QED
  BY <1>4, <1>5, <1>6, <1>7 DEF LoopStep

\* The words are right throughout the fixpoint.
THEOREM LoopWordsHold == LoopSpec => []LoopWords
<1>1. LoopInit => LoopWords
  BY LoopInitBegun, LoopWordsStart
<1>2. LoopInv /\ LoopWords /\ [LoopStep]_<<loopGraphs, loopTables>> => LoopWords'
  BY LoopWordsNext
<1> QED
  BY <1>1, <1>2, LoopInvHolds, PTL DEF LoopSpec

\* When nothing is pending, every word has an entry that stands for it,
\* however long it is.
LEMMA AllWordsCovered ==
  ASSUME LoopInv, LoopWords, LoopOver, NEW n \in Nat, NEW x \in Unpruned[n]
  PROVE \E y \in contexts : StandsFor(y, x)
<1> DEFINE T == {k \in Nat : \A z \in Unpruned[k] : \E y \in contexts : StandsFor(y, z)}
<1>1. LoopTypeOK /\ Graphs /\ contexts \subseteq LoopEntry /\ held = {} /\ moves = {}
  BY DEF LoopInv, LoopTypeOK, Graphs, LoopWords, LoopOver
<1>2. 0 \in T
  BY <1>1, UnprunedSteps DEF LoopInv, LoopPending
<1>3. ASSUME NEW k \in Nat, k \in T
      PROVE k + 1 \in T
  <2> SUFFICES ASSUME NEW z \in Unpruned[k + 1]
               PROVE \E y \in contexts : StandsFor(y, z)
    OBVIOUS
  <2>1. z \in MovedAll(Unpruned[k])
    BY <1>1, UnprunedSteps
  <2>2. PICK m \in LoopRound(Unpruned[k]) : z = LoopMoved(m[1], m[2])
    BY <2>1 DEF MovedAll
  <2>3. m[1] \in Unpruned[k] /\ m[2] \in LoopEdges /\ m[2].from = m[1].state
    BY DEF LoopRound
  <2>4. PICK v \in contexts : StandsFor(v, m[1])
    BY <1>3, <2>3
  <2>5. m[1] \in LoopEntry /\ v \in LoopEntry
    BY <1>1, <2>3, UnprunedSteps
  <2>6. m[2].from = v.state
    BY <2>3, <2>4 DEF StandsFor
  <2>7. PICK y \in contexts : StandsFor(y, LoopMoved(v, m[2]))
    BY <1>1, <2>3, <2>6 DEF LoopInv, LoopPending
  <2>8. StandsFor(LoopMoved(v, m[2]), LoopMoved(m[1], m[2]))
    BY <1>1, <2>3, <2>4, <2>5, MovedStandsFor
  <2>9. y \in LoopEntry /\ LoopMoved(v, m[2]) \in LoopEntry /\ LoopMoved(m[1], m[2]) \in LoopEntry
    BY <1>1, <2>3, <2>5, LoopMovedType
  <2> QED
    BY <2>2, <2>7, <2>8, <2>9, StandsForOrder
<1> HIDE DEF T
<1>4. Nat \subseteq T
  BY <1>2, <1>3, SetInduction
<1> QED
  BY <1>4 DEF T

\* The fixpoint of FixpointLoop: every word of A round its component, of
\* whatever length, has an entry that stands for it, and every entry is what
\* its word does.
THEOREM LoopCorrect == LoopSpec => []LoopExact
<1>1. LoopInv /\ LoopWords => LoopExact
  <2> SUFFICES ASSUME LoopInv, LoopWords, LoopOver
               PROVE /\ \A n \in 0..(MaxLength - 1) : \A x \in Unpruned[n] :
                           \E y \in contexts : StandsFor(y, x)
                     /\ \A y \in contexts : y \in Unpruned[Len(y.word) - 1]
    BY DEF LoopExact
  <2>1. \A n \in 0..(MaxLength - 1) : n \in Nat
    BY LoopAssumption
  <2> QED
    BY <2>1, AllWordsCovered DEF LoopWords, IsWord
<1> QED
  BY <1>1, LoopInvHolds, LoopWordsHold, PTL

-----------------------------------------------------------------------------
(***************************************************************************)
(* Words and their profiles                                                *)
(***************************************************************************)

Words == {w \in Seq(Symbol) : w # <<>>}

\* What a word does in A and in B.
InA(w) == WordProfile(edgesA, finalA, w)
InB(w) == WordProfile(edgesB, finalB, w)

\* What inclusion is given.
Inputs ==
  /\ edgesA \in GraphsA /\ edgesB \in GraphsB
  /\ finalA \in SUBSET StateA /\ finalB \in SUBSET StateB
  /\ minDomain \in Int

\* Automata of finitely many states, symbols and weights have finitely many edges.
LEMMA EdgesFinite ==
  ASSUME NEW S, IsFiniteSet(S)
  PROVE  IsFiniteSet(Edge(S))
<1> DEFINE D == (S \X Symbol) \X (Weight \X S)
           f == [p \in D |-> [from |-> p[1][1], symbol |-> p[1][2], weight |-> p[2][1], to |-> p[2][2]]]
<1>1. IsFiniteSet(D)
  BY InclusionAssumption, FinitePairs
<1>2. Edge(S) \subseteq {f[p] : p \in D}
  <2> SUFFICES ASSUME NEW e \in Edge(S)
               PROVE  \E p \in D : f[p] = e
    OBVIOUS
  <2> DEFINE p == <<<<e.from, e.symbol>>, <<e.weight, e.to>>>>
  <2>1. p \in D
    BY DEF Edge
  <2>2. f[p] = [from |-> e.from, symbol |-> e.symbol, weight |-> e.weight, to |-> e.to]
    BY <2>1
  <2>3. f[p] = e
    BY <2>2 DEF Edge
  <2> QED
    BY <2>1, <2>3
<1>3. IsFiniteSet({f[p] : p \in D})
  <2> HIDE DEF f, D
  <2> QED
    BY <1>1, FiniteImage
<1> QED
  BY <1>2, <1>3, FS_Subset

\* What the edges are.
LEMMA InputEdges ==
  ASSUME Inputs
  PROVE  /\ Linking(edgesA, StateA) /\ IsFiniteSet(edgesA)
         /\ Linking(edgesB, StateB) /\ IsFiniteSet(edgesB)
         /\ \A e \in edgesA : e \in Edge(StateA)
         /\ \A e \in edgesB : e \in Edge(StateB)
<1>1. edgesA \subseteq Edge(StateA) /\ edgesB \subseteq Edge(StateB)
  BY AutomataAssumption DEF Inputs
<1>2. IsFiniteSet(Edge(StateA)) /\ IsFiniteSet(Edge(StateB))
  BY InclusionAssumption, EdgesFinite
<1>3. IsFiniteSet(edgesA) /\ IsFiniteSet(edgesB)
  BY <1>1, <1>2, FS_Subset
<1>4. Linking(edgesA, StateA) /\ Linking(edgesB, StateB)
  BY <1>1, AutomataAssumption DEF Linking, Edge
<1> QED
  BY <1>1, <1>3, <1>4

\* What the profiles of words are.
LEMMA Profiles ==
  ASSUME Inputs, NEW w \in Words
  PROVE  /\ InA(w) \in SUBSET PathsIn(StateA) /\ IsFiniteSet(InA(w))
         /\ InB(w) \in SUBSET PathsIn(StateB) /\ IsFiniteSet(InB(w))
         /\ \A x \in InA(w) : x[3] \in Weight
         /\ \A x \in InB(w) : x[3] \in Weight
         /\ \A x \in InA(w) : x[1] \in finalA \/ x[2] \in finalA => x[4]
         /\ \A x \in InB(w) : x[1] \in finalB \/ x[2] \in finalB => x[4]
<1>1. w \in Seq(Symbol) /\ w # <<>>
  BY DEF Words
<1>2. \A e \in edgesA : e.weight \in Weight
  BY InputEdges DEF Edge
<1>3. \A e \in edgesB : e.weight \in Weight
  BY InputEdges DEF Edge
<1>4. InA(w) \in SUBSET PathsIn(StateA) /\ IsFiniteSet(InA(w))
  BY <1>1, InputEdges, WordLinks, WordFinite DEF InA
<1>5. InB(w) \in SUBSET PathsIn(StateB) /\ IsFiniteSet(InB(w))
  BY <1>1, InputEdges, WordLinks, WordFinite DEF InB
<1>6. \A x \in InA(w) : x[3] \in Weight
  BY <1>1, <1>2, InputEdges, WordWeights DEF InA
<1>7. \A x \in InB(w) : x[3] \in Weight
  BY <1>1, <1>3, InputEdges, WordWeights DEF InB
<1>8. \A x \in InA(w) : x[1] \in finalA \/ x[2] \in finalA => x[4]
  BY <1>1, InputEdges, ProfileEnds DEF InA
<1>9. \A x \in InB(w) : x[1] \in finalB \/ x[2] \in finalB => x[4]
  BY <1>1, InputEdges, ProfileEnds DEF InB
<1> QED
  BY <1>4, <1>5, <1>6, <1>7, <1>8, <1>9

\* Words in a row.
LEMMA InARow ==
  ASSUME Inputs, NEW v \in Words, NEW w \in Words
  PROVE  /\ v \o w \in Words
         /\ InA(v \o w) = Compose(InA(v), InA(w))
         /\ InB(v \o w) = Compose(InB(v), InB(w))
<1>1. v \in Seq(Symbol) /\ v # <<>> /\ w \in Seq(Symbol) /\ w # <<>>
  BY DEF Words
<1>2. v \o w \in Seq(Symbol) /\ v \o w # <<>> /\ InA(v \o w) = Compose(InA(v), InA(w))
  BY <1>1, InputEdges, WordConcat DEF InA
<1>3. InB(v \o w) = Compose(InB(v), InB(w))
  BY <1>1, InputEdges, WordConcat DEF InB
<1> QED
  BY <1>2, <1>3 DEF Words

\* Words of one symbol, and of one more.
LEMMA OneMore ==
  ASSUME Inputs, NEW a \in Symbol
  PROVE  /\ <<a>> \in Words
         /\ InA(<<a>>) = LetterProfile(edgesA, finalA, a)
         /\ InB(<<a>>) = LetterProfile(edgesB, finalB, a)
         /\ \A w \in Words :
              /\ Append(w, a) \in Words
              /\ InA(Append(w, a)) = Compose(InA(w), InA(<<a>>))
              /\ InB(Append(w, a)) = Compose(InB(w), InB(<<a>>))
<1>1. <<a>> \in Seq(Symbol) /\ <<a>> # <<>>
  OBVIOUS
<1>2. InA(<<a>>) = LetterProfile(edgesA, finalA, a)
  BY InputEdges, WordOne DEF InA
<1>3. InB(<<a>>) = LetterProfile(edgesB, finalB, a)
  BY InputEdges, WordOne DEF InB
<1>4. ASSUME NEW w \in Words
      PROVE  /\ Append(w, a) \in Words
             /\ InA(Append(w, a)) = Compose(InA(w), InA(<<a>>))
             /\ InB(Append(w, a)) = Compose(InB(w), InB(<<a>>))
  <2>1. w \in Seq(Symbol) /\ w # <<>>
    BY DEF Words
  <2>2. Append(w, a) \in Seq(Symbol) /\ Append(w, a) # <<>>
    BY <2>1
  <2>3. InA(Append(w, a)) = Compose(InA(w), InA(<<a>>))
    BY <1>2, <2>1, InputEdges, WordAppend DEF InA
  <2>4. InB(Append(w, a)) = Compose(InB(w), InB(<<a>>))
    BY <1>3, <2>1, InputEdges, WordAppend DEF InB
  <2> QED
    BY <2>2, <2>3, <2>4 DEF Words
<1>5. <<a>> \in Words
  BY <1>1 DEF Words
<1> QED
  BY <1>2, <1>3, <1>4, <1>5

\* What holds for words of one symbol, and then for longer ones, holds for all.
LEMMA AllWords ==
  ASSUME NEW T, \A a \in Symbol : <<a>> \in T,
         \A w \in Words, a \in Symbol : w \in T => Append(w, a) \in T
  PROVE  Words \subseteq T
BY WordInduction DEF Words

-----------------------------------------------------------------------------
(***************************************************************************)
(* The loops that LanguageIncluded quantifies over are those of words      *)
(***************************************************************************)

\* p is the path of a word from s.
OfWord(p, s) ==
  \E w \in Words, b \in BOOLEAN : p.profile = InB(w) /\ <<s, p.to, p.value, b>> \in InA(w)

\* There are finitely many paths with their profiles.
LEMMA PathsFinite == IsFiniteSet(Path)
<1> DEFINE M == SUBSET (StateB \X StateB \X Weight \X BOOLEAN)
           D == (StateA \X Weight) \X M
           f == [x \in D |-> [to |-> x[1][1], value |-> x[1][2], profile |-> x[2]]]
           N == ((StateB \X StateB) \X Weight) \X BOOLEAN
           g == [x \in N |-> <<x[1][1][1], x[1][1][2], x[1][2], x[2]>>]
<1>1. IsFiniteSet(BOOLEAN)
  <2>1. BOOLEAN = {TRUE, FALSE}
    OBVIOUS
  <2>2. IsFiniteSet({TRUE} \cup {FALSE})
    BY FS_Singleton, FS_Union
  <2>3. {TRUE} \cup {FALSE} = {TRUE, FALSE}
    OBVIOUS
  <2> QED
    BY <2>1, <2>2, <2>3
<1>2. IsFiniteSet(N)
  <2>1. IsFiniteSet(StateB) /\ IsFiniteSet(Weight)
    BY InclusionAssumption
  <2>2. IsFiniteSet(StateB \X StateB)
    BY <2>1, FinitePairs
  <2>3. IsFiniteSet((StateB \X StateB) \X Weight)
    BY <2>1, <2>2, FinitePairs
  <2> QED
    BY <1>1, <2>3, FinitePairs
<1>3. IsFiniteSet({g[x] : x \in N})
  <2> HIDE DEF g, N
  <2> QED
    BY <1>2, FiniteImage
<1>4. StateB \X StateB \X Weight \X BOOLEAN \subseteq {g[x] : x \in N}
  <2> SUFFICES ASSUME NEW q \in StateB, NEW r \in StateB, NEW c \in Weight, NEW b \in BOOLEAN
               PROVE  <<q, r, c, b>> \in {g[x] : x \in N}
    OBVIOUS
  <2> DEFINE x == <<<<<<q, r>>, c>>, b>>
  <2>1. x \in N /\ g[x] = <<q, r, c, b>>
    OBVIOUS
  <2> HIDE DEF x, g, N
  <2> QED
    BY <2>1
<1>5. IsFiniteSet(M)
  BY <1>3, <1>4, FS_Subset, FS_SUBSET
<1>6. IsFiniteSet(D)
  <2> HIDE DEF M
  <2>1. IsFiniteSet(StateA) /\ IsFiniteSet(Weight)
    BY InclusionAssumption
  <2>2. IsFiniteSet(StateA \X Weight)
    BY <2>1, FinitePairs
  <2> QED
    BY <1>5, <2>2, FinitePairs
<1>7. IsFiniteSet({f[x] : x \in D})
  <2> HIDE DEF f, D
  <2> QED
    BY <1>6, FiniteImage
<1>8. Path \subseteq {f[x] : x \in D}
  <2> SUFFICES ASSUME NEW p \in Path
               PROVE  p \in {f[x] : x \in D}
    OBVIOUS
  <2> DEFINE x == <<<<p.to, p.value>>, p.profile>>
  <2>1. x \in D
    BY DEF Path
  <2>2. f[x] = [to |-> p.to, value |-> p.value, profile |-> p.profile]
    BY <2>1
  <2>3. p = [to |-> p.to, value |-> p.value, profile |-> p.profile]
    BY DEF Path
  <2> HIDE DEF x, f, D
  <2> QED
    BY <2>1, <2>2, <2>3
<1> QED
  BY <1>7, <1>8, FS_Subset

\* The profile of a word in B is one that a Path has.
LEMMA ProfileOfPath ==
  ASSUME Inputs, NEW w \in Words
  PROVE  InB(w) \in SUBSET (StateB \X StateB \X Weight \X BOOLEAN)
<1> SUFFICES ASSUME NEW x \in InB(w)
             PROVE  x \in StateB \X StateB \X Weight \X BOOLEAN
  OBVIOUS
<1>1. x \in PathsIn(StateB) /\ x[3] \in Weight
  BY Profiles
<1>2. x[1] \in StateB /\ x[2] \in StateB /\ x[4] \in BOOLEAN /\ x = <<x[1], x[2], x[3], x[4]>>
  BY <1>1, LinkParts
<1> HIDE DEF InB
<1> QED
  BY <1>1, <1>2

\* Steps are the paths of words of one symbol.
LEMMA StepsAre ==
  ASSUME Inputs, NEW s
  PROVE  /\ \A p \in Steps(s) : \E a \in Symbol, b \in BOOLEAN :
              p.profile = InB(<<a>>) /\ <<s, p.to, p.value, b>> \in InA(<<a>>) /\ p \in Path
         /\ \A a \in Symbol : \A x \in InA(<<a>>) : x[1] = s =>
              [to |-> x[2], value |-> x[3], profile |-> InB(<<a>>)] \in Steps(s)
<1>1. ASSUME NEW p \in Steps(s)
      PROVE  \E a \in Symbol, b \in BOOLEAN :
               p.profile = InB(<<a>>) /\ <<s, p.to, p.value, b>> \in InA(<<a>>) /\ p \in Path
  <2>1. PICK e \in edgesA : /\ e.from = s
                            /\ p = [to |-> e.to, value |-> e.weight,
                                    profile |-> LetterProfile(edgesB, finalB, e.symbol)]
    BY DEF Steps
  <2>2. e.symbol \in Symbol /\ e.to \in StateA /\ e.weight \in Weight
    BY InputEdges DEF Edge
  <2> DEFINE b == e.from \in finalA \/ e.to \in finalA
  <2>3. p.profile = InB(<<e.symbol>>)
    BY <2>1, <2>2, OneMore
  <2>4. <<e.from, e.to, e.weight, b>> \in InA(<<e.symbol>>)
    BY <2>2, LetterHas, OneMore
  <2>5. b \in BOOLEAN
    OBVIOUS
  <2>6. p.profile \in SUBSET (StateB \X StateB \X Weight \X BOOLEAN)
    BY <2>2, <2>3, OneMore, ProfileOfPath
  <2>7. p \in Path
    <3>1. p.profile = LetterProfile(edgesB, finalB, e.symbol)
      BY <2>1
    <3> QED
      BY <2>1, <2>2, <2>6, <3>1 DEF Path
  <2>8. p.to = e.to /\ p.value = e.weight
    BY <2>1
  <2> HIDE DEF b
  <2> QED
    BY <2>1, <2>2, <2>3, <2>4, <2>5, <2>7, <2>8
<1>2. ASSUME NEW a \in Symbol, NEW x \in InA(<<a>>), x[1] = s
      PROVE  [to |-> x[2], value |-> x[3], profile |-> InB(<<a>>)] \in Steps(s)
  <2>1. x \in LetterProfile(edgesA, finalA, a)
    BY OneMore
  <2>2. PICK e \in edgesA : e.symbol = a /\ x = <<e.from, e.to, e.weight, e.from \in finalA \/ e.to \in finalA>>
    BY <2>1, LetterHas
  <2>3. e.from = s /\ x[2] = e.to /\ x[3] = e.weight
    BY <1>2, <2>2
  <2>4. InB(<<a>>) = LetterProfile(edgesB, finalB, e.symbol)
    BY <2>2, OneMore
  <2> QED
    BY <2>3, <2>4 DEF Steps
<1> QED
  BY <1>1, <1>2

\* A path continued is that of a longer word.
LEMMA ContinuedIs ==
  ASSUME Inputs, NEW s \in StateA, NEW p, OfWord(p, s), NEW q \in Steps(p.to)
  PROVE  OfWord(Continued(p, q), s) /\ Continued(p, q) \in Path
<1>1. PICK w \in Words, b \in BOOLEAN : p.profile = InB(w) /\ <<s, p.to, p.value, b>> \in InA(w)
  BY DEF OfWord
<1>2. PICK a \in Symbol, c \in BOOLEAN :
        q.profile = InB(<<a>>) /\ <<p.to, q.to, q.value, c>> \in InA(<<a>>)
  BY StepsAre
<1> DEFINE n == Continued(p, q)
           x == <<s, p.to, p.value, b>>
           y == <<p.to, q.to, q.value, c>>
<1>3. n.to = q.to /\ n.value = Larger(p.value, q.value) /\ n.profile = Compose(p.profile, q.profile)
      /\ n = [to |-> n.to, value |-> n.value, profile |-> n.profile]
  BY DEF Continued
<1>4. Append(w, a) \in Words /\ n.profile = InB(Append(w, a))
  BY <1>1, <1>2, <1>3, OneMore
<1>5. y[1] = x[2] /\ Join(x, y) = <<s, n.to, n.value, b \/ c>>
  BY <1>3 DEF Join, Larger
<1>6. Join(x, y) \in InA(Append(w, a))
  <2>1. x \in InA(w) /\ y \in InA(<<a>>)
    BY <1>1, <1>2
  <2>2. InA(Append(w, a)) = Compose(InA(w), InA(<<a>>))
    BY <1>1, OneMore
  <2> HIDE DEF x, y
  <2> QED
    BY <1>5, <2>1, <2>2, ComposeHas
<1>7. (b \/ c) \in BOOLEAN
  OBVIOUS
<1> DEFINE d == b \/ c
<1>8. d \in BOOLEAN /\ <<s, n.to, n.value, d>> \in InA(Append(w, a))
  BY <1>5, <1>6, <1>7
<1> HIDE DEF n, d
<1>9. OfWord(n, s)
  BY <1>4, <1>8 DEF OfWord
<1>10. n \in Path
  <2>1. n.profile \in SUBSET (StateB \X StateB \X Weight \X BOOLEAN)
    BY <1>4, ProfileOfPath
  <2>2. <<s, n.to, n.value, d>> \in PathsIn(StateA) /\ <<s, n.to, n.value, d>>[3] \in Weight
    BY <1>4, <1>8, Profiles
  <2>3. n.to \in StateA /\ n.value \in Weight
    BY <2>2 DEF PathsIn
  <2> QED
    BY <1>3, <2>1, <2>3 DEF Path, n
<1> QED
  BY <1>9, <1>10 DEF n

\* A path continued is a path.
LEMMA ContinuedType ==
  ASSUME NEW p \in Path, NEW q \in Path
  PROVE  Continued(p, q) \in Path
<1> DEFINE M == StateB \X StateB \X Weight \X BOOLEAN
<1>1. p.value \in Weight /\ q.value \in Weight /\ q.to \in StateA
      /\ p.profile \in SUBSET M /\ q.profile \in SUBSET M
  BY DEF Path
<1>2. ASSUME NEW x \in M, NEW y \in M
      PROVE  Join(x, y) \in M
  <2>1. x[1] \in StateB /\ y[2] \in StateB /\ x[3] \in Weight /\ y[3] \in Weight
        /\ x[4] \in BOOLEAN /\ y[4] \in BOOLEAN
    OBVIOUS
  <2>2. (IF x[3] < y[3] THEN y[3] ELSE x[3]) \in Weight /\ (x[4] \/ y[4]) \in BOOLEAN
    BY <2>1
  <2> QED
    BY <2>1, <2>2 DEF Join
<1>3. \A x \in p.profile, y \in q.profile : Join(x, y) \in M
  BY <1>1, <1>2
<1>4. Compose(p.profile, q.profile) \in SUBSET M
  BY <1>3, ComposeHas
<1>5. Larger(p.value, q.value) \in Weight
  BY <1>1 DEF Larger
<1> QED
  BY <1>1, <1>4, <1>5 DEF Continued, Path

\* The loops from a state are those of words, and of all words.
LEMMA LoopsAre ==
  ASSUME Inputs, NEW s \in StateA
  PROVE  /\ \A p \in LoopsFrom(s) : OfWord(p, s) /\ p.to = s
         /\ \A w \in Words : \A x \in InA(w) : x[1] = s /\ x[2] = s =>
              [to |-> s, value |-> x[3], profile |-> InB(w)] \in LoopsFrom(s)
<1> DEFINE S == Path
           next(all) == all \cup UNION {{Continued(p, q) : q \in Steps(p.to)} : p \in all}
           g == [all \in SUBSET S |-> next(all)]
           Def(c) == [all \in SUBSET S |-> IF next(all) = all THEN all ELSE c[next(all)]]
           c == CHOOSE h : h = Def(h)
           first == Steps(s)
<1>1. LoopsFrom(s) = {p \in c[first] : p.to = s}
  BY DEF LoopsFrom
<1>2. IsFiniteSet(S)
  BY PathsFinite
<1>3. \A t : Steps(t) \in SUBSET S
  BY StepsAre
<1>4. \A A \in SUBSET S : next(A) \in SUBSET S /\ A \subseteq next(A)
  <2> SUFFICES ASSUME NEW A \in SUBSET S, NEW p \in A, NEW q \in Steps(p.to)
               PROVE  Continued(p, q) \in S
    OBVIOUS
  <2> QED
    BY <1>3, ContinuedType
<1>5. \A A, p, q : p \in A /\ q \in Steps(p.to) => Continued(p, q) \in next(A)
  OBVIOUS
<1>6. \A A : \A r \in next(A) : r \in A \/ \E p \in A : \E q : q \in Steps(p.to) /\ r = Continued(p, q)
  OBVIOUS
<1> HIDE DEF next, S
<1>7. g \in [SUBSET S -> SUBSET S] /\ \A A \in SUBSET S : g[A] = next(A) /\ A \subseteq g[A]
  BY <1>4
<1>8. \A h : h = Def(h) <=> Saturates(h, g, S)
  BY <1>7 DEF Saturates
<1> HIDE DEF g, Def
<1>9. \E h : h = Def(h)
  BY <1>2, <1>7, <1>8, SaturationExists
<1>10. c = Def(c)
  BY <1>9
<1> HIDE DEF c
<1>11. Saturates(c, g, S)
  BY <1>8, <1>10
<1>12. g \in [SUBSET S -> SUBSET S] /\ \A A \in SUBSET S : A \subseteq g[A]
  BY <1>7
<1>13. /\ c[first] \in SUBSET S /\ g[c[first]] = c[first]
       /\ \A E \in SUBSET SUBSET S : first \in E /\ (\A A \in E : g[A] \in E) => c[first] \in E
  <2>1. first \in SUBSET S
    BY <1>3
  <2>2. \A A \in SUBSET S :
          /\ c[A] \in SUBSET S /\ g[c[A]] = c[A]
          /\ \A E \in SUBSET SUBSET S : A \in E /\ (\A X \in E : g[X] \in E) => c[A] \in E
    BY <1>2, <1>11, <1>12, SaturationIs
  <2> HIDE DEF first
  <2> QED
    BY <2>1, <2>2
<1>14. first \in SUBSET S
  BY <1>3
<1>15. \A p \in first : OfWord(p, s)
  <2> SUFFICES ASSUME NEW p \in Steps(s)
               PROVE  OfWord(p, s)
    OBVIOUS
  <2>1. PICK a \in Symbol, b \in BOOLEAN : p.profile = InB(<<a>>) /\ <<s, p.to, p.value, b>> \in InA(<<a>>)
    BY StepsAre
  <2>2. <<a>> \in Words
    BY <2>1, OneMore
  <2> DEFINE w == <<a>>
  <2>3. w \in Words /\ p.profile = InB(w) /\ <<s, p.to, p.value, b>> \in InA(w)
    BY <2>1, <2>2
  <2> HIDE DEF w
  <2> QED
    BY <2>3 DEF OfWord
<1> HIDE DEF first
<1> DEFINE L == c[first]
<1>16. \A p \in L : OfWord(p, s)
  <2> DEFINE E == {A \in SUBSET S : \A p \in A : OfWord(p, s)}
  <2>1. \A A \in E : next(A) \in E
    <3> SUFFICES ASSUME NEW A \in E, NEW r \in next(A)
                 PROVE  OfWord(r, s)
      BY <1>4
    <3>1. CASE r \in A
      BY <3>1
    <3>2. CASE \E p \in A : \E q : q \in Steps(p.to) /\ r = Continued(p, q)
      <4>1. PICK p \in A : \E q \in Steps(p.to) : r = Continued(p, q)
        BY <3>2
      <4>2. PICK q \in Steps(p.to) : r = Continued(p, q)
        BY <4>1
      <4>3. OfWord(p, s)
        BY <4>1
      <4> QED
        BY <4>2, <4>3, ContinuedIs
    <3> QED
      BY <1>6, <3>1, <3>2
  <2>2. first \in E /\ E \in SUBSET SUBSET S
    BY <1>14, <1>15
  <2> HIDE DEF E
  <2>3. \A A \in E : g[A] \in E
    BY <1>7, <2>1, <2>2
  <2>4. L \in E
    BY <1>13, <2>2, <2>3
  <2> QED
    BY <2>4 DEF E
<1>17. first \subseteq L
  <2> DEFINE E == {A \in SUBSET S : first \subseteq A}
  <2>1. \A A \in E : next(A) \in E
    BY <1>4
  <2>2. first \in E /\ E \in SUBSET SUBSET S
    BY <1>14
  <2> HIDE DEF E
  <2>3. \A A \in E : g[A] \in E
    BY <1>7, <2>1, <2>2
  <2>4. L \in E
    BY <1>13, <2>2, <2>3
  <2> QED
    BY <2>4 DEF E
<1>18. next(L) = L
  BY <1>7, <1>13
<1>19. \A p \in L : \A q : q \in Steps(p.to) => Continued(p, q) \in L
  BY <1>5, <1>18
<1> HIDE DEF L
<1> DEFINE PathOf(w, x) == [to |-> x[2], value |-> x[3], profile |-> InB(w)]
           T == {w \in Words : \A x \in InA(w) : x[1] = s => PathOf(w, x) \in L}
<1>20. ASSUME NEW a \in Symbol
       PROVE  <<a>> \in T
  <2>1. <<a>> \in Words
    BY OneMore
  <2>2. ASSUME NEW x \in InA(<<a>>), x[1] = s
        PROVE  PathOf(<<a>>, x) \in L
    BY <1>17, <2>2, StepsAre DEF first
  <2> QED
    BY <2>1, <2>2
<1>21. ASSUME NEW w \in Words, NEW a \in Symbol, w \in T
       PROVE  Append(w, a) \in T
  <2>1. Append(w, a) \in Words /\ InA(Append(w, a)) = Compose(InA(w), InA(<<a>>))
        /\ InB(Append(w, a)) = Compose(InB(w), InB(<<a>>)) /\ <<a>> \in Words
    BY OneMore
  <2>2. ASSUME NEW z \in InA(Append(w, a)), z[1] = s
        PROVE  PathOf(Append(w, a), z) \in L
    <3>1. PICK x \in InA(w), y \in InA(<<a>>) : y[1] = x[2] /\ z = Join(x, y)
      BY <2>1, ComposeHas
    <3>2. x \in PathsIn(StateA) /\ y \in PathsIn(StateA)
      BY <2>1, <3>1, Profiles
    <3>3. z[1] = x[1] /\ z[2] = y[2] /\ z[3] = (IF x[3] < y[3] THEN y[3] ELSE x[3])
      BY <3>1, <3>2, JoinIs
    <3> DEFINE p == PathOf(w, x)
               q == [to |-> y[2], value |-> y[3], profile |-> InB(<<a>>)]
    <3>4. p \in L
      BY <1>21, <2>2, <3>1, <3>3
    <3>5. q \in Steps(p.to)
      <4>1. p.to = x[2]
        OBVIOUS
      <4>2. q \in Steps(x[2])
        BY <3>1, StepsAre
      <4> QED
        BY <4>1, <4>2
    <3>6. Continued(p, q) = PathOf(Append(w, a), z)
      BY <2>1, <3>3 DEF Continued, Larger
    <3> HIDE DEF p, q
    <3> QED
      BY <1>19, <3>4, <3>5, <3>6
  <2> HIDE DEF PathOf
  <2> QED
    BY <2>1, <2>2
<1> HIDE DEF T
<1>22. Words \subseteq T
  BY <1>20, <1>21, AllWords
<1>23. ASSUME NEW w \in Words, NEW x \in InA(w), x[1] = s, x[2] = s
       PROVE  [to |-> s, value |-> x[3], profile |-> InB(w)] \in L
  BY <1>22, <1>23 DEF T
<1>24. LoopsFrom(s) = {p \in L : p.to = s}
  BY <1>1 DEF L
<1> QED
  BY <1>16, <1>23, <1>24

-----------------------------------------------------------------------------
(***************************************************************************)
(* Where stems lead                                                        *)
(***************************************************************************)

\* The states after the beginnings of a stem.
Along(h, edges, start, u) ==
  /\ h[0] = {start}
  /\ \A k \in 1..Len(u) : h[k] = {e.to : e \in {d \in edges : d.from \in h[k - 1] /\ d.symbol = u[k]}}

\* AfterStem goes through them.
LEMMA AfterAlong ==
  ASSUME NEW D, NEW edges, \A e \in edges : e.to \in D, NEW start \in D, NEW u \in Seq(Symbol)
  PROVE  \E h : Along(h, edges, start, u) /\ AfterStem(edges, start, u) = h[Len(u)]
<1> DEFINE N == Len(u)
           on(k, U) == {e.to : e \in {d \in edges : d.from \in U /\ d.symbol = u[k]}}
           Def(h) == [k \in 0..N |-> IF k = 0 THEN {start} ELSE on(k, h[k - 1])]
           S == SUBSET D
           step == [x \in (1..N) \X S |-> on(x[1], x[2])]
           base == {start}
<1>1. N \in Nat
  OBVIOUS
<1>2. \A k, U : on(k, U) \in S
  OBVIOUS
<1>3. AfterStem(edges, start, u) = (CHOOSE g : g = Def(g))[N]
  BY DEF AfterStem
<1>4. base \in S
  OBVIOUS
<1> HIDE DEF on, N, S
<1>5. step \in [(1..N) \X S -> S]
  BY <1>2
<1>6. \A k \in 1..N, U \in S : step[<<k, U>>] = on(k, U)
  OBVIOUS
<1> HIDE DEF step, base
<1>7. PICK h : Iterates(h, N, S, base, step)
  BY <1>1, <1>4, <1>5, Recursion
<1>8. \A k \in 1..N : h[k] = on(k, h[k - 1])
  <2> SUFFICES ASSUME NEW k \in 1..N
               PROVE  h[k] = on(k, h[k - 1])
    OBVIOUS
  <2>1. h[k - 1] \in S
    BY <1>1, <1>7 DEF Iterates
  <2> QED
    BY <1>6, <1>7, <2>1 DEF Iterates
<1>9. h = Def(h)
  <2>1. \A k \in 0..N : h[k] = Def(h)[k]
    BY <1>1, <1>7, <1>8 DEF base, Iterates
  <2> QED
    BY <2>1, <1>7 DEF Iterates
<1> DEFINE g == CHOOSE x : x = Def(x)
<1>10. g = Def(g)
  BY <1>9
<1>11. AfterStem(edges, start, u) = g[N]
  BY <1>3
<1> HIDE DEF g
<1>12. \A k \in 0..N : Def(g)[k] = IF k = 0 THEN {start} ELSE on(k, g[k - 1])
  OBVIOUS
<1> HIDE DEF Def
<1>13. g[0] = {start} /\ \A k \in 1..N : g[k] = on(k, g[k - 1])
  BY <1>1, <1>10, <1>12
<1>14. Along(g, edges, start, u)
  BY <1>13 DEF Along, on, N
<1> QED
  BY <1>11, <1>14 DEF N

\* A pair that a stem leads to has a state that it leads A to, and the states
\* that it leads B to.
LEMMA StemLeads ==
  ASSUME StemTypeOK, NEW u \in Seq(Symbol), NEW p \in Led(u)[Len(u)]
  PROVE  p[1] \in AfterStem(edgesA, InitA, u) /\ p[2] = AfterStem(edgesB, InitB, u)
<1> DEFINE N == Len(u)
<1>1. PICK h : Along(h, edgesA, InitA, u) /\ AfterStem(edgesA, InitA, u) = h[Len(u)]
  BY EdgeTypes, AutomataAssumption, AfterAlong
<1>2. PICK g : Along(g, edgesB, InitB, u) /\ AfterStem(edgesB, InitB, u) = g[Len(u)]
  BY EdgeTypes, AutomataAssumption, AfterAlong
<1> DEFINE T == {k \in 0..N : \A q \in Led(u)[k] : q[1] \in h[k] /\ q[2] = g[k]}
<1>3. N \in Nat
  OBVIOUS
<1>4. 0 \in T
  <2>1. Led(u)[0] = {InitPair}
    BY LedSteps
  <2>2. h[0] = {InitA} /\ g[0] = {InitB}
    BY <1>1, <1>2 DEF Along
  <2>3. InitPair[1] = InitA /\ InitPair[2] = {InitB} /\ 0 \in 0..N
    BY <1>3 DEF InitPair
  <2>4. \A q \in Led(u)[0] : q[1] \in h[0] /\ q[2] = g[0]
    BY <2>1, <2>2, <2>3
  <2> QED
    BY <2>3, <2>4
<1>5. \A k \in 0..(N - 1) : k \in T => k + 1 \in T
  <2> SUFFICES ASSUME NEW k \in 0..(N - 1), k \in T, NEW q \in Led(u)[k + 1]
               PROVE  q[1] \in h[k + 1] /\ q[2] = g[k + 1]
    BY <1>3
  <2>1. k + 1 \in 1..N /\ (k + 1) - 1 = k
    BY <1>3
  <2>2. Led(u)[k + 1] = OneOn(u[k + 1], Led(u)[k])
    BY <2>1, LedSteps
  <2>3. PICK r \in Led(u)[k], e \in edgesA : e.from = r[1] /\ e.symbol = u[k + 1] /\ q = Successor(r, e)
    BY <2>2 DEF OneOn
  <2>4. r[1] \in h[k] /\ r[2] = g[k]
    BY <2>3
  <2>5. h[k + 1] = {d.to : d \in {c \in edgesA : c.from \in h[k] /\ c.symbol = u[k + 1]}}
    BY <1>1, <2>1 DEF Along
  <2>6. g[k + 1] = {d.to : d \in {c \in edgesB : c.from \in g[k] /\ c.symbol = u[k + 1]}}
    BY <1>2, <2>1 DEF Along
  <2>7. q[1] = e.to /\ q[2] = Post(g[k], u[k + 1])
    BY <2>3, <2>4 DEF Successor
  <2> QED
    BY <2>3, <2>4, <2>5, <2>6, <2>7 DEF Post
<1> HIDE DEF T, N
<1>6. N \in T
  <2>1. 0..N \subseteq T
    BY <1>3, <1>4, <1>5, BoundedInduction
  <2> QED
    BY <1>3, <2>1
<1> QED
  BY <1>1, <1>2, <1>6 DEF T, N

-----------------------------------------------------------------------------
(***************************************************************************)
(* Words lead pairs to pairs                                               *)
(***************************************************************************)

\* TargetOf is what the profile of a symbol says.
LEMMA PostIs ==
  ASSUME Inputs, NEW a \in Symbol, NEW U
  PROVE  Post(U, a) = Image(InB(<<a>>), U)
<1>1. InB(<<a>>) = LetterProfile(edgesB, finalB, a)
  BY OneMore
<1>2. ASSUME NEW t \in Post(U, a)
      PROVE  t \in Image(InB(<<a>>), U)
  <2>1. PICK e \in edgesB : e.from \in U /\ e.symbol = a /\ e.to = t
    BY DEF Post
  <2>2. <<e.from, e.to, e.weight, e.from \in finalB \/ e.to \in finalB>> \in InB(<<a>>)
    BY <1>1, <2>1, LetterHas
  <2>3. <<e.from, e.to, e.weight, e.from \in finalB \/ e.to \in finalB>>[2] \in Image(InB(<<a>>), U)
    BY <2>1, <2>2, ImageHas
  <2> QED
    BY <2>1, <2>3
<1>3. ASSUME NEW t \in Image(InB(<<a>>), U)
      PROVE  t \in Post(U, a)
  <2>1. PICK x \in InB(<<a>>) : x[1] \in U /\ x[2] = t
    BY ImageHas
  <2>2. PICK e \in edgesB : e.symbol = a /\ x = <<e.from, e.to, e.weight, e.from \in finalB \/ e.to \in finalB>>
    BY <1>1, <2>1, LetterHas
  <2> QED
    BY <2>1, <2>2 DEF Post
<1> QED
  BY <1>2, <1>3

\* A path of A along a word leads a pair to a pair.
LEMMA PairsAlong ==
  ASSUME Inputs, StemTypeOK
  PROVE  \A w \in Words : \A x \in InA(w), p \in Pairs :
           x[1] = p[1] => <<x[2], Image(InB(w), p[2])>> \in Pairs
<1> DEFINE T == {w \in Words : \A x \in InA(w), p \in Pairs :
                   x[1] = p[1] => <<x[2], Image(InB(w), p[2])>> \in Pairs}
<1>1. \A p \in Pairs, e \in edgesA : e.from = p[1] => <<e.to, Post(p[2], e.symbol)>> \in Pairs
  BY PairsClosed DEF ClosedPairs, Successor
<1>2. ASSUME NEW a \in Symbol, NEW x \in InA(<<a>>), NEW p \in Pairs, x[1] = p[1]
      PROVE  <<x[2], Image(InB(<<a>>), p[2])>> \in Pairs
  <2>1. PICK e \in edgesA : e.symbol = a /\ x = <<e.from, e.to, e.weight, e.from \in finalA \/ e.to \in finalA>>
    BY OneMore, LetterHas
  <2>2. e.from = p[1] /\ x[2] = e.to
    BY <1>2, <2>1
  <2>3. <<e.to, Post(p[2], a)>> \in Pairs
    BY <1>1, <2>1, <2>2
  <2> QED
    BY <2>2, <2>3, PostIs
<1>3. \A a \in Symbol : <<a>> \in T
  BY <1>2, OneMore
<1>4. ASSUME NEW w \in Words, NEW a \in Symbol, w \in T
      PROVE  Append(w, a) \in T
  <2>1. /\ Append(w, a) \in Words /\ <<a>> \in Words
        /\ InA(Append(w, a)) = Compose(InA(w), InA(<<a>>))
        /\ InB(Append(w, a)) = Compose(InB(w), InB(<<a>>))
    BY OneMore
  <2> SUFFICES ASSUME NEW x \in InA(Append(w, a)), NEW p \in Pairs, x[1] = p[1]
               PROVE  <<x[2], Image(InB(Append(w, a)), p[2])>> \in Pairs
    BY <2>1
  <2>2. PICK y \in InA(w), z \in InA(<<a>>) : z[1] = y[2] /\ x = Join(y, z)
    BY <2>1, ComposeHas
  <2>3. y \in PathsIn(StateA) /\ z \in PathsIn(StateA)
    BY <2>1, <2>2, Profiles
  <2>4. x[1] = y[1] /\ x[2] = z[2]
    BY <2>2, <2>3, JoinIs
  <2>5. <<y[2], Image(InB(w), p[2])>> \in Pairs
    BY <1>4, <2>2, <2>4
  <2>6. <<y[2], Image(InB(w), p[2])>>[1] = z[1] /\ <<y[2], Image(InB(w), p[2])>>[2] = Image(InB(w), p[2])
    BY <2>2
  <2>7. <<z[2], Image(InB(<<a>>), Image(InB(w), p[2]))>> \in Pairs
    BY <1>2, <2>2, <2>5, <2>6
  <2>8. InB(w) \in SUBSET PathsIn(StateB) /\ InB(<<a>>) \in SUBSET PathsIn(StateB)
    BY <2>1, Profiles
  <2>9. Image(InB(Append(w, a)), p[2]) = Image(InB(<<a>>), Image(InB(w), p[2]))
    BY <2>1, <2>8, ImageCompose
  <2> QED
    BY <2>4, <2>7, <2>9
<1> HIDE DEF T
<1>5. Words \subseteq T
  BY <1>3, <1>4, AllWords
<1> QED
  BY <1>5 DEF T

\* When B has an edge for every state and symbol, its sets are never empty.
LEMMA SetsNotEmpty ==
  ASSUME Inputs, StemTypeOK, \A q \in StateB, a \in Symbol : \E e \in edgesB : e.from = q /\ e.symbol = a
  PROVE  \A p \in Pairs : p[2] # {}
<1> DEFINE C == {p \in Pair : p[2] # {}}
<1>1. InitPair \in C
  BY AutomataAssumption DEF InitPair, Pair
<1>2. ClosedPairs(C)
  <2> SUFFICES ASSUME NEW p \in C, NEW e \in edgesA, e.from = p[1]
               PROVE  Successor(p, e) \in C
    BY DEF ClosedPairs
  <2>1. PICK q \in p[2] : q \in StateB
    BY DEF Pair
  <2>2. e.symbol \in Symbol /\ e.to \in StateA
    BY EdgeTypes
  <2>3. PICK d \in edgesB : d.from = q /\ d.symbol = e.symbol
    BY <2>1, <2>2
  <2>4. d.to \in Post(p[2], e.symbol)
    BY <2>1, <2>3 DEF Post
  <2>5. Post(p[2], e.symbol) \in SUBSET StateB
    BY PostTypes
  <2> QED
    BY <2>2, <2>4, <2>5 DEF Successor, Pair
<1>3. C \in SUBSET Pair
  OBVIOUS
<1> HIDE DEF C
<1>4. Pairs \subseteq C
  BY <1>1, <1>2, <1>3 DEF Pairs
<1> QED
  BY <1>4 DEF C

-----------------------------------------------------------------------------
(***************************************************************************)
(* The entries of the loop fixpoint are those of words                     *)
(***************************************************************************)

\* What the states of a set are led to, and by which weights: the paths of a
\* word without their last part; and those by a final state alone.
Trace(w, W) == {<<x[1], x[2], x[3]>> : x \in {y \in InB(w) : y[1] \in W}}
FinalTrace(w, W) == {<<x[1], x[2], x[3]>> : x \in {y \in InB(w) : y[1] \in W /\ y[4]}}

\* An entry is what its word does, in A and in B.
EntryOf(x) ==
  /\ x.word \in Words
  /\ x.word[1] = from.symbol
  /\ \E b \in BOOLEAN : <<from.state, x.state, x.value, b>> \in InA(x.word)
  /\ x.context.first = Trace(x.word, from.set)
  /\ x.context.second = FinalTrace(x.word, from.set)

\* What is needed of the fixpoint here.
Origin == Inputs /\ from.state \in StateA /\ from.symbol \in Symbol

\* The edges of the loop fixpoint are edges.
LEMMA LoopEdgesIn ==
  /\ LoopEdges \subseteq edgesA
  /\ \A e \in edgesA : Reaches(succA, e.from, e.to) /\ Reaches(succA, e.to, e.from) => e \in LoopEdges
BY DEF LoopEdges, SameTag, Mutual

\* The contexts that the constructor makes.
LEMMA FirstTraces ==
  ASSUME Inputs, NEW a \in Symbol, NEW W
  PROVE  FirstContext(W, a).first = Trace(<<a>>, W) /\ FirstContext(W, a).second = FinalTrace(<<a>>, W)
<1> DEFINE path(e) == <<e.from, e.to, e.weight, e.from \in finalB \/ e.to \in finalB>>
<1>1. InB(<<a>>) = LetterProfile(edgesB, finalB, a)
  BY OneMore
<1>2. \A x \in InB(<<a>>) : \E e \in edgesB : e.symbol = a /\ x = path(e)
  BY <1>1, LetterHas
<1>3. \A e \in edgesB : e.symbol = a => path(e) \in InB(<<a>>)
  BY <1>1, LetterHas
<1>4. \A e : path(e)[1] = e.from /\ path(e)[2] = e.to /\ path(e)[3] = e.weight
             /\ path(e)[4] = (e.from \in finalB \/ e.to \in finalB)
  OBVIOUS
<1> HIDE DEF path
<1>5. FirstContext(W, a).first =
        {<<e.from, e.to, e.weight>> : e \in {d \in edgesB : d.from \in W /\ d.symbol = a}}
  BY DEF FirstContext
<1>6. FirstContext(W, a).second =
        {<<e.from, e.to, e.weight>> :
           e \in {d \in edgesB : d.from \in W /\ d.symbol = a /\ (d.from \in finalB \/ d.to \in finalB)}}
  BY DEF FirstContext
<1>7. ASSUME NEW t \in FirstContext(W, a).first
      PROVE  t \in Trace(<<a>>, W)
  <2>1. PICK e \in edgesB : e.from \in W /\ e.symbol = a /\ t = <<e.from, e.to, e.weight>>
    BY <1>5
  <2>2. path(e) \in InB(<<a>>) /\ path(e)[1] \in W /\ t = <<path(e)[1], path(e)[2], path(e)[3]>>
    BY <1>3, <1>4, <2>1
  <2> QED
    BY <2>2 DEF Trace
<1>8. ASSUME NEW t \in Trace(<<a>>, W)
      PROVE  t \in FirstContext(W, a).first
  <2>1. PICK x \in InB(<<a>>) : x[1] \in W /\ t = <<x[1], x[2], x[3]>>
    BY DEF Trace
  <2>2. PICK e \in edgesB : e.symbol = a /\ x = path(e)
    BY <1>2, <2>1
  <2>3. e.from \in W /\ t = <<e.from, e.to, e.weight>>
    BY <1>4, <2>1, <2>2
  <2> QED
    BY <1>5, <2>2, <2>3
<1>9. ASSUME NEW t \in FirstContext(W, a).second
      PROVE  t \in FinalTrace(<<a>>, W)
  <2>1. PICK e \in edgesB : /\ e.from \in W /\ e.symbol = a /\ (e.from \in finalB \/ e.to \in finalB)
                            /\ t = <<e.from, e.to, e.weight>>
    BY <1>6
  <2>2. path(e) \in InB(<<a>>) /\ path(e)[1] \in W /\ path(e)[4] /\ t = <<path(e)[1], path(e)[2], path(e)[3]>>
    BY <1>3, <1>4, <2>1
  <2> QED
    BY <2>2 DEF FinalTrace
<1>10. ASSUME NEW t \in FinalTrace(<<a>>, W)
       PROVE  t \in FirstContext(W, a).second
  <2>1. PICK x \in InB(<<a>>) : x[1] \in W /\ x[4] /\ t = <<x[1], x[2], x[3]>>
    BY DEF FinalTrace
  <2>2. PICK e \in edgesB : e.symbol = a /\ x = path(e)
    BY <1>2, <2>1
  <2>3. e.from \in W /\ (e.from \in finalB \/ e.to \in finalB) /\ t = <<e.from, e.to, e.weight>>
    BY <1>4, <2>1, <2>2
  <2> QED
    BY <1>6, <2>2, <2>3
<1> QED
  BY <1>7, <1>8, <1>9, <1>10

\* Extended goes on by one more symbol.
LEMMA ExtendedHas ==
  ASSUME NEW r, NEW a
  PROVE  /\ \A t \in Extended(r, a) : \E u \in r, e \in edgesB :
              e.from = u[2] /\ e.symbol = a /\ t = <<u[1], e.to, Larger(u[3], e.weight)>>
         /\ \A u \in r, e \in edgesB : e.from = u[2] /\ e.symbol = a =>
              <<u[1], e.to, Larger(u[3], e.weight)>> \in Extended(r, a)
BY DEF Extended

\* The paths of a longer word are those of the word with an edge more.
LongerPath(x, e) ==
  <<x[1], e.to, Larger(x[3], e.weight), x[4] \/ e.to \in finalB>>
LEMMA LongerHas ==
  ASSUME Inputs, NEW w \in Words, NEW a \in Symbol
  PROVE  /\ \A z \in InB(Append(w, a)) : \E x \in InB(w), e \in edgesB :
              e.from = x[2] /\ e.symbol = a /\ z = LongerPath(x, e)
         /\ \A x \in InB(w), e \in edgesB : e.from = x[2] /\ e.symbol = a =>
              LongerPath(x, e) \in InB(Append(w, a))
<1> DEFINE path(e) == <<e.from, e.to, e.weight, e.from \in finalB \/ e.to \in finalB>>
<1>1. InB(<<a>>) = LetterProfile(edgesB, finalB, a) /\ InB(Append(w, a)) = Compose(InB(w), InB(<<a>>))
  BY OneMore
<1>2. \A x \in InB(<<a>>) : \E e \in edgesB : e.symbol = a /\ x = path(e)
  BY <1>1, LetterHas
<1>3. \A e \in edgesB : e.symbol = a => path(e) \in InB(<<a>>)
  BY <1>1, LetterHas
<1>4. \A e : path(e)[1] = e.from /\ path(e)[2] = e.to /\ path(e)[3] = e.weight
             /\ path(e)[4] = (e.from \in finalB \/ e.to \in finalB)
  OBVIOUS
<1>5. ASSUME NEW x \in InB(w), NEW e \in edgesB, e.from = x[2]
      PROVE  Join(x, path(e)) = LongerPath(x, e)
  <2>1. x \in PathsIn(StateB) /\ (x[2] \in finalB => x[4])
    BY Profiles
  <2>2. x[4] \in BOOLEAN
    BY <2>1, LinkParts
  <2>3. (x[4] \/ (e.from \in finalB \/ e.to \in finalB)) = (x[4] \/ e.to \in finalB)
    BY <1>5, <2>1, <2>2
  <2>4. Join(x, path(e)) = <<x[1], path(e)[2], IF x[3] < path(e)[3] THEN path(e)[3] ELSE x[3], x[4] \/ path(e)[4]>>
    BY DEF Join
  <2> QED
    BY <1>4, <2>3, <2>4 DEF LongerPath, Larger
<1> HIDE DEF path
<1>6. ASSUME NEW z \in InB(Append(w, a))
      PROVE  \E x \in InB(w), e \in edgesB : e.from = x[2] /\ e.symbol = a /\ z = LongerPath(x, e)
  <2>1. PICK x \in InB(w), y \in InB(<<a>>) : y[1] = x[2] /\ z = Join(x, y)
    BY <1>1, ComposeHas
  <2>2. PICK e \in edgesB : e.symbol = a /\ y = path(e)
    BY <1>2, <2>1
  <2>3. e.from = x[2]
    BY <1>4, <2>1, <2>2
  <2> QED
    BY <1>5, <2>1, <2>2, <2>3
<1>7. ASSUME NEW x \in InB(w), NEW e \in edgesB, e.from = x[2], e.symbol = a
      PROVE  LongerPath(x, e) \in InB(Append(w, a))
  <2>1. path(e) \in InB(<<a>>) /\ path(e)[1] = x[2]
    BY <1>3, <1>4, <1>7
  <2>2. Join(x, path(e)) \in InB(Append(w, a))
    BY <1>1, <2>1, ComposeHas
  <2> QED
    BY <1>5, <1>7, <2>2
<1> QED
  BY <1>6, <1>7

\* A context that goes on by one more symbol is that of the longer word.
LEMMA NextTraces ==
  ASSUME Inputs, NEW w \in Words, NEW a \in Symbol, NEW W, NEW c,
         c.first = Trace(w, W), c.second = FinalTrace(w, W)
  PROVE  /\ NextContext(c, a).first = Trace(Append(w, a), W)
         /\ NextContext(c, a).second = FinalTrace(Append(w, a), W)
<1>1. /\ NextContext(c, a).first = Extended(c.first, a) \cup Extended(c.second, a)
      /\ NextContext(c, a).second = {t \in Extended(c.first, a) : t[2] \in finalB} \cup Extended(c.second, a)
  BY DEF NextContext
<1>2. \A x, e : /\ LongerPath(x, e)[1] = x[1] /\ LongerPath(x, e)[2] = e.to
                /\ LongerPath(x, e)[3] = Larger(x[3], e.weight)
                /\ LongerPath(x, e)[4] = (x[4] \/ e.to \in finalB)
  BY DEF LongerPath
<1>3. /\ \A t \in c.first : \E x \in InB(w) : x[1] \in W /\ t = <<x[1], x[2], x[3]>>
      /\ \A x \in InB(w) : x[1] \in W => <<x[1], x[2], x[3]>> \in c.first
  BY DEF Trace
<1>4. /\ \A t \in c.second : \E x \in InB(w) : x[1] \in W /\ x[4] /\ t = <<x[1], x[2], x[3]>>
      /\ \A x \in InB(w) : x[1] \in W /\ x[4] => <<x[1], x[2], x[3]>> \in c.second
  BY DEF FinalTrace
<1>5. c.second \subseteq c.first
  BY <1>3, <1>4
<1>6. Extended(c.second, a) \subseteq Extended(c.first, a)
  BY <1>5 DEF Extended
<1>7. ASSUME NEW t \in Extended(c.first, a)
      PROVE  \E z \in InB(Append(w, a)) : z[1] \in W /\ t = <<z[1], z[2], z[3]>> /\ (t[2] \in finalB => z[4])
  <2>1. PICK u \in c.first, e \in edgesB :
          e.from = u[2] /\ e.symbol = a /\ t = <<u[1], e.to, Larger(u[3], e.weight)>>
    BY ExtendedHas
  <2>2. PICK x \in InB(w) : x[1] \in W /\ u = <<x[1], x[2], x[3]>>
    BY <1>3, <2>1
  <2>3. u[1] = x[1] /\ u[2] = x[2] /\ u[3] = x[3] /\ t[2] = e.to
    BY <2>1, <2>2
  <2> DEFINE z == LongerPath(x, e)
  <2>4. z \in InB(Append(w, a))
    BY <2>1, <2>2, <2>3, LongerHas
  <2>5. z[1] = x[1] /\ z[2] = e.to /\ z[3] = Larger(x[3], e.weight) /\ z[4] = (x[4] \/ e.to \in finalB)
    BY <1>2
  <2> HIDE DEF z
  <2>6. t = <<z[1], z[2], z[3]>> /\ z[1] \in W
    BY <2>1, <2>2, <2>3, <2>5
  <2>7. t[2] \in finalB => z[4]
    BY <2>2, <2>3, <2>5
  <2> QED
    BY <2>4, <2>6, <2>7
<1>8. ASSUME NEW t \in Extended(c.second, a)
      PROVE  \E z \in InB(Append(w, a)) : z[1] \in W /\ t = <<z[1], z[2], z[3]>> /\ z[4]
  <2>1. PICK u \in c.second, e \in edgesB :
          e.from = u[2] /\ e.symbol = a /\ t = <<u[1], e.to, Larger(u[3], e.weight)>>
    BY ExtendedHas
  <2>2. PICK x \in InB(w) : x[1] \in W /\ x[4] /\ u = <<x[1], x[2], x[3]>>
    BY <1>4, <2>1
  <2>3. u[1] = x[1] /\ u[2] = x[2] /\ u[3] = x[3]
    BY <2>2
  <2> DEFINE z == LongerPath(x, e)
  <2>4. z \in InB(Append(w, a))
    BY <2>1, <2>2, <2>3, LongerHas
  <2>5. z[1] = x[1] /\ z[2] = e.to /\ z[3] = Larger(x[3], e.weight) /\ z[4] = (x[4] \/ e.to \in finalB)
    BY <1>2
  <2> HIDE DEF z
  <2>6. t = <<z[1], z[2], z[3]>> /\ z[1] \in W
    BY <2>1, <2>2, <2>3, <2>5
  <2>7. z[4]
    BY <2>2, <2>3, <2>5
  <2> QED
    BY <2>4, <2>6, <2>7
<1>9. ASSUME NEW z \in InB(Append(w, a)), z[1] \in W
      PROVE  /\ <<z[1], z[2], z[3]>> \in Extended(c.first, a)
             /\ z[4] => z[2] \in finalB \/ <<z[1], z[2], z[3]>> \in Extended(c.second, a)
  <2>1. PICK x \in InB(w), e \in edgesB : e.from = x[2] /\ e.symbol = a /\ z = LongerPath(x, e)
    BY LongerHas
  <2>2. z[1] = x[1] /\ z[2] = e.to /\ z[3] = Larger(x[3], e.weight) /\ z[4] = (x[4] \/ e.to \in finalB)
    BY <1>2, <2>1
  <2> DEFINE u == <<x[1], x[2], x[3]>>
  <2>3. u[1] = x[1] /\ u[2] = x[2] /\ u[3] = x[3]
    OBVIOUS
  <2>4. u \in c.first /\ (x[4] => u \in c.second)
    BY <1>3, <1>4, <1>9, <2>1, <2>2
  <2> HIDE DEF u
  <2>5. <<u[1], e.to, Larger(u[3], e.weight)>> = <<z[1], z[2], z[3]>>
    BY <2>2, <2>3
  <2>6. <<z[1], z[2], z[3]>> \in Extended(c.first, a)
    BY <2>1, <2>3, <2>4, <2>5, ExtendedHas
  <2>7. x[4] => <<z[1], z[2], z[3]>> \in Extended(c.second, a)
    BY <2>1, <2>3, <2>4, <2>5, ExtendedHas
  <2> QED
    BY <2>2, <2>6, <2>7
<1>10. NextContext(c, a).first = Trace(Append(w, a), W)
  <2>1. ASSUME NEW t \in NextContext(c, a).first
        PROVE  t \in Trace(Append(w, a), W)
    BY <1>1, <1>6, <1>7 DEF Trace
  <2>2. ASSUME NEW t \in Trace(Append(w, a), W)
        PROVE  t \in NextContext(c, a).first
    BY <1>1, <1>9 DEF Trace
  <2> QED
    BY <2>1, <2>2
<1>11. NextContext(c, a).second = FinalTrace(Append(w, a), W)
  <2>1. ASSUME NEW t \in NextContext(c, a).second
        PROVE  t \in FinalTrace(Append(w, a), W)
    BY <1>1, <1>7, <1>8 DEF FinalTrace
  <2>2. ASSUME NEW t \in FinalTrace(Append(w, a), W)
        PROVE  t \in NextContext(c, a).second
    <3>1. PICK z \in InB(Append(w, a)) : z[1] \in W /\ z[4] /\ t = <<z[1], z[2], z[3]>>
      BY DEF FinalTrace
    <3>2. t[2] = z[2]
      BY <3>1
    <3> QED
      BY <1>1, <1>9, <3>1, <3>2
  <2> QED
    BY <2>1, <2>2
<1> QED
  BY <1>10, <1>11

\* What starts a word goes on to start the longer ones.
LEMMA FirstOfLonger ==
  ASSUME NEW w \in Words, NEW a \in Symbol
  PROVE  Append(w, a)[1] = w[1]
<1>1. w \in Seq(Symbol) /\ w # <<>>
  BY DEF Words
<1> QED
  BY <1>1

\* The path of A, along the edge of a word of one symbol.
LEMMA EdgePath ==
  ASSUME Inputs, NEW e \in edgesA
  PROVE  <<e.from, e.to, e.weight, e.from \in finalA \/ e.to \in finalA>> \in InA(<<e.symbol>>)
<1>1. e.symbol \in Symbol
  BY InputEdges DEF Edge
<1>2. InA(<<e.symbol>>) = LetterProfile(edgesA, finalA, e.symbol)
  BY <1>1, OneMore
<1> QED
  BY <1>2, LetterHas

\* The entries of the constructor are those of words of one symbol.
LEMMA FirstEntries ==
  ASSUME Origin, NEW x \in Firsts(from.state, from.set, from.symbol)
  PROVE  EntryOf(x)
<1> DEFINE a == from.symbol
<1>1. a \in Symbol /\ Inputs
  BY DEF Origin
<1>2. PICK e \in LoopEdges : /\ e.from = from.state /\ e.symbol = a
        /\ x = [state |-> e.to, context |-> FirstContext(from.set, a), word |-> <<a>>, value |-> e.weight]
  BY DEF Firsts
<1> HIDE DEF a
<1>3. x.state = e.to /\ x.context = FirstContext(from.set, a) /\ x.word = <<a>> /\ x.value = e.weight
  BY <1>2
<1>4. x.context.first = Trace(<<a>>, from.set) /\ x.context.second = FinalTrace(<<a>>, from.set)
  BY <1>1, <1>3, FirstTraces
<1>5. e \in edgesA
  BY LoopEdgesIn
<1>6. <<e.from, e.to, e.weight, e.from \in finalA \/ e.to \in finalA>> \in InA(<<e.symbol>>)
  BY <1>1, <1>5, EdgePath
<1>7. \E b \in BOOLEAN : <<from.state, x.state, x.value, b>> \in InA(x.word)
  BY <1>2, <1>3, <1>6
<1>8. <<a>> \in Words /\ <<a>>[1] = a
  BY <1>1, OneMore
<1> QED
  BY <1>3, <1>4, <1>7, <1>8 DEF EntryOf, a

\* An entry moved along an edge is that of the longer word.
LEMMA MovedEntryOf ==
  ASSUME Origin, NEW u \in LoopEntry, EntryOf(u), NEW e \in LoopEdges, e.from = u.state
  PROVE  EntryOf(LoopMoved(u, e))
<1> DEFINE x == LoopMoved(u, e)
           a == e.symbol
<1>1. /\ x.state = e.to /\ x.context = NextContext(u.context, a)
      /\ x.word = Append(u.word, a) /\ x.value = Larger(u.value, e.weight)
  BY DEF LoopMoved
<1>2. Inputs /\ e \in edgesA /\ u.word \in Words
  BY LoopEdgesIn DEF Origin, EntryOf
<1>3. a \in Symbol /\ e.from \in StateA
  BY <1>2, InputEdges DEF Edge
<1> HIDE DEF x
<1>4. x.context.first = Trace(x.word, from.set) /\ x.context.second = FinalTrace(x.word, from.set)
  <2>1. u.context.first = Trace(u.word, from.set) /\ u.context.second = FinalTrace(u.word, from.set)
    BY DEF EntryOf
  <2> QED
    BY <1>1, <1>2, <1>3, <2>1, NextTraces
<1>5. x.word \in Words /\ InA(x.word) = Compose(InA(u.word), InA(<<a>>)) /\ <<a>> \in Words
  BY <1>1, <1>2, <1>3, OneMore
<1>6. x.word[1] = from.symbol
  BY <1>1, <1>2, <1>3, FirstOfLonger DEF EntryOf
<1>7. \E b \in BOOLEAN : <<from.state, x.state, x.value, b>> \in InA(x.word)
  <2>1. PICK b \in BOOLEAN : <<from.state, u.state, u.value, b>> \in InA(u.word)
    BY DEF EntryOf
  <2> DEFINE y == <<from.state, u.state, u.value, b>>
             z == <<e.from, e.to, e.weight, e.from \in finalA \/ e.to \in finalA>>
  <2>2. y \in InA(u.word) /\ z \in InA(<<a>>)
    BY <1>2, <2>1, EdgePath
  <2>3. y[2] = z[1]
    OBVIOUS
  <2>4. Join(y, z) \in InA(x.word)
    BY <1>5, <2>2, <2>3, ComposeHas
  <2>5. Join(y, z) = <<from.state, e.to, Larger(u.value, e.weight), b \/ (e.from \in finalA \/ e.to \in finalA)>>
    BY DEF Join, Larger
  <2> QED
    BY <1>1, <2>4, <2>5
<1> QED
  BY <1>4, <1>5, <1>6, <1>7 DEF EntryOf, x

\* All the entries are those of words.
LEMMA EntriesAre ==
  ASSUME Origin, LoopTypeOK
  PROVE  \A n \in Nat : \A x \in Unpruned[n] : EntryOf(x)
<1> DEFINE T == {n \in Nat : \A x \in Unpruned[n] : EntryOf(x)}
<1>1. 0 \in T
  <2>1. Unpruned[0] = Firsts(from.state, from.set, from.symbol)
    BY UnprunedSteps
  <2> QED
    BY <2>1, FirstEntries
<1>2. ASSUME NEW n \in Nat, n \in T
      PROVE  n + 1 \in T
  <2>1. Unpruned[n + 1] = MovedAll(Unpruned[n]) /\ Unpruned[n] \subseteq LoopEntry
    BY UnprunedSteps
  <2> SUFFICES ASSUME NEW x \in MovedAll(Unpruned[n])
               PROVE  EntryOf(x)
    BY <2>1
  <2>2. PICK m \in LoopRound(Unpruned[n]) : x = LoopMoved(m[1], m[2])
    BY DEF MovedAll
  <2>3. m[1] \in Unpruned[n] /\ m[2] \in LoopEdges /\ m[2].from = m[1].state
    BY <2>2 DEF LoopRound
  <2>4. m[1] \in LoopEntry /\ EntryOf(m[1])
    BY <1>2, <2>1, <2>3
  <2> QED
    BY <2>2, <2>3, <2>4, MovedEntryOf
<1> HIDE DEF T
<1>3. Nat \subseteq T
  BY <1>1, <1>2, SetInduction
<1> QED
  BY <1>3 DEF T

\* The states of A and where their edges lead.
LEMMA GraphOfA ==
  ASSUME Inputs
  PROVE  IsGraph(succA, StateA) /\ \A e \in edgesA : e.to \in succA[e.from]
<1>1. \A e \in edgesA : e.from \in StateA /\ e.to \in StateA
  BY InputEdges DEF Edge
<1> QED
  BY <1>1 DEF IsGraph, succA

\* A path of A along a word that starts with the symbol, from the state, to a
\* state from which it is reached again, has an entry.
HasEntry(w, x) == \E n \in Nat : \E y \in Unpruned[n] : y.word = w /\ y.state = x[2] /\ y.value = x[3]
Returning(w, x) == x[1] = from.state /\ w[1] = from.symbol /\ Reaches(succA, x[2], from.state)
LEMMA AllEntries ==
  ASSUME Origin, LoopTypeOK
  PROVE  \A w \in Words : \A x \in InA(w) : Returning(w, x) => HasEntry(w, x)
<1> DEFINE T == {w \in Words : \A x \in InA(w) : Returning(w, x) => HasEntry(w, x)}
<1>1. Inputs
  BY DEF Origin
<1>2. IsGraph(succA, StateA) /\ \A e \in edgesA : e.to \in succA[e.from]
  BY <1>1, GraphOfA
<1>3. \A e \in edgesA : e.from \in StateA /\ e.symbol \in Symbol /\ Reaches(succA, e.from, e.to)
  BY <1>1, <1>2, InputEdges, ReachesSuccessor DEF Edge
<1>4. ASSUME NEW a \in Symbol, NEW x \in InA(<<a>>), Returning(<<a>>, x)
      PROVE  HasEntry(<<a>>, x)
  <2>1. PICK e \in edgesA : e.symbol = a /\ x = <<e.from, e.to, e.weight, e.from \in finalA \/ e.to \in finalA>>
    BY <1>1, OneMore, LetterHas
  <2>2. x[1] = e.from /\ x[2] = e.to /\ x[3] = e.weight /\ <<a>>[1] = a
    BY <2>1
  <2>3. e \in LoopEdges
    BY <1>3, <1>4, <2>2, LoopEdgesIn DEF Returning
  <2> DEFINE y == [state |-> e.to, context |-> FirstContext(from.set, a), word |-> <<a>>, value |-> e.weight]
  <2>4. y \in Firsts(from.state, from.set, from.symbol)
    BY <1>4, <2>1, <2>2, <2>3 DEF Firsts, Returning
  <2>5. y \in Unpruned[0] /\ y.word = <<a>> /\ y.state = x[2] /\ y.value = x[3]
    BY <2>2, <2>4, UnprunedSteps
  <2> QED
    BY <2>5 DEF HasEntry
<1>5. \A a \in Symbol : <<a>> \in T
  BY <1>1, <1>4, OneMore
<1>6. ASSUME NEW w \in Words, NEW a \in Symbol, w \in T
      PROVE  Append(w, a) \in T
  <2>1. /\ Append(w, a) \in Words /\ <<a>> \in Words
        /\ InA(Append(w, a)) = Compose(InA(w), InA(<<a>>))
        /\ InA(<<a>>) = LetterProfile(edgesA, finalA, a)
    BY <1>1, OneMore
  <2> SUFFICES ASSUME NEW x \in InA(Append(w, a)), Returning(Append(w, a), x)
               PROVE  HasEntry(Append(w, a), x)
    BY <2>1
  <2>2. PICK y \in InA(w), z \in InA(<<a>>) : z[1] = y[2] /\ x = Join(y, z)
    BY <2>1, ComposeHas
  <2>3. PICK e \in edgesA : e.symbol = a /\ z = <<e.from, e.to, e.weight, e.from \in finalA \/ e.to \in finalA>>
    BY <2>1, <2>2, LetterHas
  <2>4. z[1] = e.from /\ z[2] = e.to /\ z[3] = e.weight
    BY <2>3
  <2>5. y \in PathsIn(StateA) /\ z \in PathsIn(StateA)
    BY <1>1, <2>1, <2>2, Profiles
  <2>6. x[1] = y[1] /\ x[2] = e.to /\ x[3] = Larger(y[3], e.weight) /\ y[2] = e.from
    BY <2>2, <2>4, <2>5, JoinIs DEF Larger
  <2>7. Reaches(succA, e.from, from.state)
    BY <1>2, <1>3, <2>6, ReachesTransitive DEF Returning
  <2>8. Returning(w, y)
    BY <2>6, <2>7, FirstOfLonger DEF Returning
  <2>9. Reaches(succA, from.state, e.from)
    <3>1. w \in Seq(Symbol) /\ w # <<>>
      BY DEF Words
    <3>2. Reaches(succA, y[1], y[2])
      BY <1>1, <1>2, <2>2, <3>1, InputEdges, WordReaches DEF InA
    <3> QED
      BY <2>6, <2>8, <3>2 DEF Returning
  <2>10. e \in LoopEdges
    <3>1. Reaches(succA, e.to, e.from)
      BY <1>2, <2>6, <2>9, ReachesTransitive DEF Returning
    <3> QED
      BY <1>3, <3>1, LoopEdgesIn
  <2>11. PICK n \in Nat : \E v \in Unpruned[n] : v.word = w /\ v.state = y[2] /\ v.value = y[3]
    BY <1>6, <2>2, <2>8 DEF HasEntry
  <2>12. PICK v \in Unpruned[n] : v.word = w /\ v.state = y[2] /\ v.value = y[3]
    BY <2>11
  <2> DEFINE u == LoopMoved(v, e)
  <2>13. u \in MovedAll(Unpruned[n])
    <3>1. <<v, e>> \in LoopRound(Unpruned[n])
      BY <2>6, <2>10, <2>12 DEF LoopRound
    <3> QED
      BY <3>1 DEF MovedAll
  <2>14. u \in Unpruned[n + 1] /\ n + 1 \in Nat
    BY <2>11, <2>13, UnprunedSteps
  <2>15. u.word = Append(w, a) /\ u.state = x[2] /\ u.value = x[3]
    BY <2>3, <2>6, <2>12 DEF LoopMoved
  <2> HIDE DEF u
  <2> QED
    BY <2>14, <2>15 DEF HasEntry
<1> HIDE DEF T
<1>7. Words \subseteq T
  BY <1>5, <1>6, AllWords
<1> QED
  BY <1>7 DEF T

-----------------------------------------------------------------------------
(***************************************************************************)
(* What the end of a loop fixpoint says                                    *)
(***************************************************************************)

\* Loops of words that start with a symbol, from s back to s and from W into
\* W, are accepted from every set of postI within W.
LoopOf(w, l, s, a) == l \in InA(w) /\ l[1] = s /\ l[2] = s /\ w[1] = a
SymbolPassed(s, W, a) ==
  \A w \in Words : \A l \in InA(w) :
    LoopOf(w, l, s, a) /\ Image(InB(w), W) \subseteq W =>
      \A y \in postI : y.state = s /\ y.set \subseteq W => Accepts(InB(w), y.set, l[3])

\* The entries kept are those of words.
LEMMA KeptEntries ==
  ASSUME Inputs, LoopInv, LoopWords, NEW y \in contexts
  PROVE  EntryOf(y) /\ y \in LoopEntry
<1>1. y \in Unpruned[Len(y.word) - 1] /\ y.word # <<>>
  BY DEF LoopWords, IsWord
<1>2. y \in LoopEntry /\ LoopTypeOK
  BY DEF LoopInv, LoopTypeOK
<1>3. Len(y.word) - 1 \in Nat
  BY <1>1, <1>2 DEF LoopEntry
<1>4. Origin
  BY <1>2 DEF Origin, LoopTypeOK
<1> QED
  BY <1>1, <1>2, <1>3, <1>4, EntriesAre

\* What an entry stands for, B does with it no more than with that.
LEMMA StandsDominates ==
  ASSUME Inputs, NEW v \in Words, NEW w \in Words, NEW W, Image(InB(w), W) \subseteq W,
         Covered(Trace(v, W), Trace(w, W)), Covered(FinalTrace(v, W), FinalTrace(w, W))
  PROVE  DominatedIn(InB(v), InB(w), W)
<1> SUFFICES ASSUME NEW x \in InB(v), x[1] \in W
             PROVE  x[2] \in W /\ \E y \in InB(w) : NoLess(y, x)
  BY DEF DominatedIn
<1> DEFINE t == <<x[1], x[2], x[3]>>
<1>1. t[1] = x[1] /\ t[2] = x[2] /\ t[3] = x[3]
  OBVIOUS
<1>2. t \in Trace(v, W) /\ (x[4] => t \in FinalTrace(v, W))
  BY DEF Trace, FinalTrace
<1> HIDE DEF t
<1>3. PICK u \in Trace(w, W) : u[1] = x[1] /\ u[2] = x[2] /\ x[3] <= u[3]
  BY <1>1, <1>2 DEF Covered
<1>4. PICK y \in InB(w) : y[1] \in W /\ u = <<y[1], y[2], y[3]>>
  BY DEF Trace
<1>5. u[1] = y[1] /\ u[2] = y[2] /\ u[3] = y[3]
  BY <1>4
<1>6. x[2] \in W
  BY <1>3, <1>4, <1>5, ImageHas
<1>7. CASE ~x[4]
  BY <1>3, <1>4, <1>5, <1>6, <1>7 DEF NoLess
<1>8. CASE x[4]
  <2>1. PICK q \in FinalTrace(w, W) : q[1] = x[1] /\ q[2] = x[2] /\ x[3] <= q[3]
    BY <1>1, <1>2, <1>8 DEF Covered
  <2>2. PICK z \in InB(w) : z[1] \in W /\ z[4] /\ q = <<z[1], z[2], z[3]>>
    BY DEF FinalTrace
  <2>3. q[1] = z[1] /\ q[2] = z[2] /\ q[3] = z[3]
    BY <2>2
  <2> QED
    BY <1>6, <2>1, <2>2, <2>3 DEF NoLess
<1> QED
  BY <1>7, <1>8

\* When the fixpoint is over and nothing is rejected, the symbol has passed.
LEMMA PassedSymbol ==
  ASSUME Inputs, LoopInv, LoopWords, LoopOver, Rejects = {}, postI \subseteq Entry,
         from.state = job.state, from.set = job.set
  PROVE  SymbolPassed(job.state, job.set, from.symbol)
<1> DEFINE s == job.state
           W == job.set
           a == from.symbol
<1> SUFFICES ASSUME NEW w \in Words, NEW l \in InA(w), LoopOf(w, l, s, a), Image(InB(w), W) \subseteq W,
                    NEW c \in postI, c.state = s, c.set \subseteq W
             PROVE  Accepts(InB(w), c.set, l[3])
  BY DEF SymbolPassed
<1>1. LoopTypeOK /\ Origin
  BY DEF LoopInv, LoopTypeOK, Origin
<1>2. IsGraph(succA, StateA) /\ s \in StateA
  BY <1>1, GraphOfA DEF Origin
<1>3. Returning(w, l)
  BY <1>2, ReachesItself DEF LoopOf, Returning
<1>4. PICK n \in Nat : \E x \in Unpruned[n] : x.word = w /\ x.state = l[2] /\ x.value = l[3]
  BY <1>1, <1>3, AllEntries DEF HasEntry
<1>5. PICK x \in Unpruned[n] : x.word = w /\ x.state = s /\ x.value = l[3]
  BY <1>4 DEF LoopOf
<1>6. PICK y \in contexts : StandsFor(y, x)
  BY <1>4, <1>5, AllWordsCovered
<1>7. EntryOf(x) /\ EntryOf(y) /\ x \in LoopEntry /\ y \in LoopEntry
  BY <1>1, <1>4, <1>5, <1>6, KeptEntries, EntriesAre, UnprunedSteps
<1>8. y.state = s /\ x.value <= y.value /\ Covered(y.context.first, x.context.first)
      /\ Covered(y.context.second, x.context.second)
  BY <1>5, <1>6 DEF StandsFor, Smaller
<1>9. y.word \in Words /\ y.context.first = Trace(y.word, W) /\ y.context.second = FinalTrace(y.word, W)
  BY <1>7 DEF EntryOf
<1>10. x.context.first = Trace(w, W) /\ x.context.second = FinalTrace(w, W)
  BY <1>5, <1>7 DEF EntryOf
<1>11. DominatedIn(InB(y.word), InB(w), W)
  BY <1>8, <1>9, <1>10, StandsDominates
<1>12. relevance_test(W, y.context)
  <2> SUFFICES ASSUME NEW t \in Trace(y.word, W)
               PROVE  t[2] \in W
    BY <1>9 DEF relevance_test
  <2>1. PICK q \in InB(y.word) : q[1] \in W /\ t = <<q[1], q[2], q[3]>>
    BY DEF Trace
  <2>2. q[2] \in W /\ t[2] = q[2]
    BY <1>11, <2>1 DEF DominatedIn
  <2> QED
    BY <2>2
<1>13. fast_membership(c.set, y.word, y.value)
  <2>1. <<c, y>> \in postI \X contexts
    BY <1>6
  <2>2. <<c, y>>[1] = c /\ <<c, y>>[2] = y
    OBVIOUS
  <2>3. <<c, y>> \notin Rejects
    OBVIOUS
  <2> QED
    BY <1>8, <1>12, <2>1, <2>2, <2>3 DEF Rejects
<1>14. Accepts(InB(y.word), c.set, y.value)
  BY <1>13 DEF fast_membership, InB
<1>15. /\ InB(w) \in SUBSET PathsIn(StateB) /\ IsFiniteSet(InB(w))
       /\ InB(y.word) \in SUBSET PathsIn(StateB) /\ IsFiniteSet(InB(y.word))
  BY <1>9, Profiles
<1>16. y.value \in Int /\ x.value \in Int
  BY <1>7, AutomataAssumption DEF LoopEntry
<1>17. Accepts(InB(w), c.set, y.value)
  BY <1>11, <1>14, <1>15, <1>16, AcceptsDominated
<1>18. Accepts(InB(w), c.set, x.value)
  BY <1>8, <1>15, <1>16, <1>17, AcceptsMore
<1> QED
  BY <1>5, <1>18

-----------------------------------------------------------------------------
(***************************************************************************)
(* What a rejection says                                                   *)
(***************************************************************************)

\* The word of U u and the period v refute the inclusion.
Refuting(u, v) ==
  \E t \in Weight :
    /\ Accepts(InA(v), AfterStem(edgesA, InitA, u), t)
    /\ ~Accepts(InB(v), AfterStem(edgesB, InitB, u), t)

\* A pair of a set U and a loop V that are rejected are a counterexample, and
\* the words kept with them say which.
LEMMA RejectedRefutes ==
  ASSUME Inputs, StemTypeOK, LoopInv, LoopWords, NEW c \in Rejects,
         postI \subseteq Entry, \A y \in postI : PairOf(y) \in Pairs /\ PairOf(y) \in Led(y.word)[Len(y.word)],
         from.state = job.state, from.set = job.set, job.state \in finalA
  PROVE  ~LanguageIncluded /\ Refuting(c[1].word, c[2].word)
<1> DEFINE s == job.state
           y == c[1]
           z == c[2]
<1>1. /\ y \in postI /\ z \in contexts /\ y.state = s /\ z.state = s
      /\ ~fast_membership(y.set, z.word, z.value)
  BY DEF Rejects
<1>2. ~Accepts(InB(z.word), y.set, z.value)
  BY <1>1 DEF fast_membership, InB
<1> HIDE DEF y, z
<1>3. EntryOf(z) /\ z \in LoopEntry
  BY <1>1, KeptEntries
<1>4. z.word \in Words /\ z.value \in Weight
  BY <1>3 DEF EntryOf, LoopEntry
<1>5. PICK b \in BOOLEAN : <<s, s, z.value, b>> \in InA(z.word)
  BY <1>1, <1>3 DEF EntryOf
<1> DEFINE l == <<s, s, z.value, b>>
<1>6. l \in InA(z.word) /\ l[1] = s /\ l[2] = s /\ l[3] = z.value
  BY <1>5
<1>7. l[4]
  BY <1>4, <1>6, Profiles
<1> HIDE DEF l
<1>8. PairOf(y) \in Pairs /\ PairOf(y)[1] = s /\ PairOf(y)[2] = y.set
  BY <1>1 DEF PairOf
<1>9. ~LanguageIncluded
  <2>1. s \in StateA
    BY DEF Inputs
  <2> DEFINE loop == [to |-> s, value |-> l[3], profile |-> InB(z.word)]
  <2>2. loop \in LoopsFrom(s)
    BY <1>4, <1>6, <2>1, LoopsAre
  <2>3. loop.profile = InB(z.word) /\ loop.value = z.value
    BY <1>6
  <2> HIDE DEF loop
  <2>4. ~Accepts(loop.profile, PairOf(y)[2], loop.value)
    BY <1>2, <1>8, <2>3
  <2> QED
    BY <1>8, <2>2, <2>4 DEF LanguageIncluded
<1>10. Refuting(y.word, z.word)
  <2>1. y.word \in Seq(Symbol)
    BY <1>1 DEF Entry
  <2>2. s \in AfterStem(edgesA, InitA, y.word) /\ y.set = AfterStem(edgesB, InitB, y.word)
    BY <1>1, <1>8, <2>1, StemLeads
  <2>3. Accepts(InA(z.word), AfterStem(edgesA, InitA, y.word), z.value)
    <3>1. l \in Repeated(InA(z.word))
      BY <1>4, <1>6, Profiles, RepeatedIs
    <3>2. l[3] >= z.value
      <4>1. z.value \in Int
        BY <1>4, AutomataAssumption
      <4>2. \A i \in Int : i >= i
        OBVIOUS
      <4> QED
        BY <1>6, <4>1, <4>2
    <3>3. AcceptedBy(l, InA(z.word), AfterStem(edgesA, InitA, y.word), z.value)
      BY <1>6, <1>7, <2>2, <3>1, <3>2 DEF AcceptedBy
    <3> QED
      BY <3>3, AcceptsIs
  <2> QED
    BY <1>2, <1>4, <2>2, <2>3 DEF Refuting
<1> QED
  BY <1>9, <1>10 DEF y, z

-----------------------------------------------------------------------------
(***************************************************************************)
(* The inductive invariant                                                 *)
(***************************************************************************)

\* What inclusion is given does not change.
Given ==
  /\ Inputs
  /\ \E x \in Settings : finalA = x.finalA /\ finalB = x.finalB /\ minDomain = x.minDomain

\* The stem fixpoints, with maximal sets first.
Stems ==
  /\ StemTypeOK /\ WordsLead
  /\ phase \in {"postIrev", "postI"} => StemInv
  /\ phase = "postIrev" => reversed = TRUE
  /\ phase = "postI" => reversed = FALSE

\* What they leave: entries for pairs that words lead to, and for every such
\* pair one with a larger set in the first, with a smaller one in the second,
\* whose words lead to their pairs.
Maximal(S) ==
  /\ S \subseteq Entry
  /\ \A x \in S : PairOf(x) \in Pairs
  /\ \A p \in Pairs : \E y \in S : y.state = p[1] /\ p[2] \subseteq y.set
Minimal(S) ==
  /\ S \subseteq Entry
  /\ \A x \in S : PairOf(x) \in Pairs /\ PairOf(x) \in Led(x.word)[Len(x.word)]
  /\ \A p \in Pairs : \E y \in S : y.state = p[1] /\ y.set \subseteq p[2]
Antichains ==
  /\ phase \in {"postI", "loops"} => Maximal(postIrev)
  /\ phase = "loops" => Minimal(postI)

\* A maximal entry that is to be tried waits, has been tried with the symbols
\* left behind so far, or with all.
Passes(x, S) == \A a \in S : SymbolPassed(x.state, x.set, a)
Jobs ==
  phase = "loops" =>
    /\ jobs \subseteq postIrev
    /\ \A x \in jobs : Tried(x.state)
    /\ job # None => job \in postIrev /\ Tried(job.state)
    /\ \A x \in postIrev : Tried(x.state) =>
         x \in jobs \/ (x = job /\ Passes(x, Symbol \ symbols)) \/ Passes(x, Symbol)

\* The loop fixpoint is that of the job and its first symbol.
Trying ==
  /\ job = None => contexts = {} /\ fresh = {} /\ held = {} /\ moves = {}
  /\ job # None =>
       /\ phase = "loops"
       /\ symbols \in SUBSET Symbol /\ symbols # {}
       /\ from = [state |-> job.state, set |-> job.set, symbol |-> Least(symbols)]
       /\ LoopInv /\ LoopWords

\* No lasso through a final state that is tried is missing in B.
TriedIncluded ==
  \A s \in finalA : Tried(s) =>
    \A p \in {q \in Pairs : q[1] = s}, l \in LoopsFrom(s) :
      Accepts(l.profile, p[2], l.value)

Answers ==
  /\ phase \in {"postIrev", "postI", "loops", "returned"}
  /\ phase # "returned" => result = None /\ witness = None
  /\ phase = "returned" => result \in BOOLEAN
  /\ result = FALSE =>
       /\ witness \in Seq(Symbol) \X Seq(Symbol)
       /\ ~LanguageIncluded
       /\ Refuting(witness[1], witness[2])
  /\ result = TRUE => witness = None /\ TriedIncluded

InclusionInv == Given /\ Stems /\ Antichains /\ Jobs /\ Trying /\ Answers

-----------------------------------------------------------------------------
(***************************************************************************)
(* What does not change with the automata                                  *)
(***************************************************************************)

\* The pairs depend on the edges alone.
LEMMA SamePairs ==
  ASSUME UNCHANGED <<edgesA, edgesB>>
  PROVE  Pairs' = Pairs
<1>1. \A p, e : Successor(p, e)' = Successor(p, e)
  BY DEF Successor, Post
<1>2. \A C : ClosedPairs(C)' = ClosedPairs(C)
  BY <1>1 DEF ClosedPairs
<1> QED
  BY <1>2 DEF Pairs

\* With the same automata everything said of words stays as it is.
LEMMA SameAutomata ==
  ASSUME UNCHANGED automata
  PROVE  /\ Given' <=> Given
         /\ \A w : InA(w)' = InA(w) /\ InB(w)' = InB(w)
         /\ \A s : Tried(s)' <=> Tried(s)
         /\ \A s : LoopsFrom(s)' = LoopsFrom(s)
         /\ LanguageIncluded' <=> LanguageIncluded
         /\ TriedIncluded' <=> TriedIncluded
         /\ \A u, v : Refuting(u, v)' <=> Refuting(u, v)
         /\ \A S : (Maximal(S)' <=> Maximal(S)) /\ (Minimal(S)' <=> Minimal(S))
<1>1. UNCHANGED <<edgesA, edgesB, finalA, finalB, minDomain>>
  BY DEF automata
<1>2. Pairs' = Pairs
  BY <1>1, SamePairs
<1>3. Given' <=> Given
  BY <1>1 DEF Given, Inputs
<1>4. \A w : InA(w)' = InA(w) /\ InB(w)' = InB(w)
  BY <1>1 DEF InA, InB
<1>5. \A s : Tried(s)' <=> Tried(s)
  BY <1>1 DEF Tried, MaxWeightValue
<1>6. \A s : LoopsFrom(s)' = LoopsFrom(s)
  BY <1>1 DEF LoopsFrom, Steps
<1>7. LanguageIncluded' <=> LanguageIncluded
  BY <1>1, <1>2, <1>6 DEF LanguageIncluded
<1>8. TriedIncluded' <=> TriedIncluded
  BY <1>1, <1>2, <1>5, <1>6 DEF TriedIncluded
<1>9. \A u, v : Refuting(u, v)' <=> Refuting(u, v)
  BY <1>1, <1>4 DEF Refuting
<1>10. \A S : Maximal(S)' <=> Maximal(S)
  BY <1>2 DEF Maximal
<1>11. \A u : Led(u)' = Led(u)
  BY <1>1, SameLed
<1>12. \A S : Minimal(S)' <=> Minimal(S)
  BY <1>2, <1>11 DEF Minimal, PairOf
<1> QED
  BY <1>3, <1>4, <1>5, <1>6, <1>7, <1>8, <1>9, <1>10, <1>12

\* And with the same minimal sets what has passed has passed.
LEMMA SamePassed ==
  ASSUME UNCHANGED automata, UNCHANGED postI
  PROVE  \A x, S : Passes(x, S)' <=> Passes(x, S)
<1>1. \A w : InA(w)' = InA(w) /\ InB(w)' = InB(w)
  BY SameAutomata
<1>2. \A s, W, a : SymbolPassed(s, W, a)' <=> SymbolPassed(s, W, a)
  BY <1>1 DEF SymbolPassed, LoopOf
<1> QED
  BY <1>2 DEF Passes

\* The stem fixpoint as it begins.
LEMMA StemBegins == StemInit => StemInv /\ WordsLead
BY InitInv, WordsStart

\* The same in the next state.
LEMMA StemBeginsNext ==
  ASSUME StemInit'
  PROVE  StemInv' /\ WordsLead'
<1>1. (StemInit => StemInv /\ WordsLead)'
  BY StemBegins, PTL
<1> QED
  BY <1>1

\* The loop fixpoint as it begins.
LEMMA LoopBegins == LoopBegun => LoopInv /\ LoopWords
BY LoopInitInv, LoopWordsStart

\* A call of its constructor.
LEMMA LoopBeginsNext ==
  ASSUME UNCHANGED loopGraphs, Inputs, NEW s \in StateA, NEW W \in SUBSET StateB, NEW a \in Symbol,
         LoopStart(s, W, a)
  PROVE  LoopInv' /\ LoopWords' /\ from' = [state |-> s, set |-> W, symbol |-> a]
<1>1. UNCHANGED <<edgesA, edgesB, finalB>>
  BY DEF loopGraphs
<1>2. /\ from' = [state |-> s, set |-> W, symbol |-> a]
      /\ contexts' = Firsts(s, W, a)
      /\ fresh' = Firsts(s, W, a)
      /\ held' = {}
      /\ moves' = LoopRound(Firsts(s, W, a))
  BY DEF LoopStart
<1>3. LoopEdges' = LoopEdges
  BY SameLoopGraphs
<1>4. \A t, V, b : Firsts(t, V, b)' = Firsts(t, V, b)
  BY <1>1, <1>3 DEF Firsts, FirstContext
<1>5. \A S : LoopRound(S)' = LoopRound(S)
  BY <1>3 DEF LoopRound
<1>6. LoopBegun'
  <2>1. Graphs'
    BY <1>1 DEF Graphs, Inputs
  <2>2. from' \in [state : StateA, set : SUBSET StateB, symbol : Symbol]
    BY <1>2
  <2>3. from'.state = s /\ from'.set = W /\ from'.symbol = a
    BY <1>2
  <2>4. contexts' = Firsts(from.state, from.set, from.symbol)'
    BY <1>2, <1>4, <2>3
  <2>5. moves' = LoopRound(contexts)'
    BY <1>2, <1>5
  <2> QED
    BY <1>2, <2>1, <2>2, <2>4, <2>5 DEF LoopBegun
<1>7. (LoopBegun => LoopInv /\ LoopWords)'
  BY LoopBegins, PTL
<1> QED
  BY <1>2, <1>6, <1>7

-----------------------------------------------------------------------------
(***************************************************************************)
(* When all jobs are done                                                  *)
(***************************************************************************)

\* The antichains account for all pairs, and every maximal set kept at s has
\* passed for every symbol.
AllPassed(s) ==
  /\ Inputs /\ StemTypeOK /\ Maximal(postIrev) /\ Minimal(postI)
  /\ \A x \in postIrev : x.state = s => Passes(x, Symbol)

\* A word that leads A from s to s with the same weight as v, and B nowhere
\* that repetitions of v do not.
Turn(w, v, l) ==
  /\ w \in Words /\ w[1] = v[1]
  /\ InB(w) \subseteq Repeated(InB(v))
  /\ \E b \in BOOLEAN : <<l[1], l[1], l[3], b>> \in InA(w)

\* The first symbol of a word, and of words in a row.
LEMMA FirstSymbol ==
  ASSUME NEW v \in Words, NEW w \in Words
  PROVE  v[1] \in Symbol /\ (v \o w)[1] = v[1]
<1>1. v \in Seq(Symbol) /\ v # <<>> /\ w \in Seq(Symbol)
  BY DEF Words
<1> QED
  BY <1>1

\* The word itself is one, and two in a row are one.
LEMMA Turns ==
  ASSUME Inputs, NEW v \in Words, NEW l \in InA(v), l[1] = l[2]
  PROVE  /\ Turn(v, v, l)
         /\ \A w1, w2 : Turn(w1, v, l) /\ Turn(w2, v, l) => Turn(w1 \o w2, v, l)
<1> DEFINE P == InB(v)
<1>1. P \in SUBSET PathsIn(StateB) /\ IsFiniteSet(P)
  BY Profiles
<1>2. l \in PathsIn(StateA) /\ l[3] \in Int
  BY Profiles, AutomataAssumption
<1>3. Turn(v, v, l)
  <2>1. P \subseteq Repeated(P)
    BY <1>1, RepeatedIs
  <2>2. l = <<l[1], l[2], l[3], l[4]>> /\ l[4] \in BOOLEAN
    BY <1>2, LinkParts
  <2> QED
    BY <2>1, <2>2 DEF Turn
<1>4. ASSUME NEW w1, NEW w2, Turn(w1, v, l), Turn(w2, v, l)
      PROVE  Turn(w1 \o w2, v, l)
  <2>1. w1 \in Words /\ w2 \in Words
    BY <1>4 DEF Turn
  <2>2. /\ w1 \o w2 \in Words
        /\ InA(w1 \o w2) = Compose(InA(w1), InA(w2))
        /\ InB(w1 \o w2) = Compose(InB(w1), InB(w2))
    BY <2>1, InARow
  <2>3. (w1 \o w2)[1] = v[1]
    BY <1>4, <2>1, FirstSymbol DEF Turn
  <2>4. InB(w1 \o w2) \subseteq Repeated(P)
    <3>1. Compose(InB(w1), InB(w2)) \subseteq Compose(Repeated(P), Repeated(P))
      BY <1>4, ComposeMonotonic DEF Turn
    <3>2. Compose(Repeated(P), Repeated(P)) \subseteq Repeated(P)
      BY <1>1, RepeatedTwice
    <3> QED
      BY <2>2, <3>1, <3>2
  <2>5. PICK b1 \in BOOLEAN : <<l[1], l[1], l[3], b1>> \in InA(w1)
    BY <1>4 DEF Turn
  <2>6. PICK b2 \in BOOLEAN : <<l[1], l[1], l[3], b2>> \in InA(w2)
    BY <1>4 DEF Turn
  <2> DEFINE x == <<l[1], l[1], l[3], b1>>
             y == <<l[1], l[1], l[3], b2>>
  <2>7. Join(x, y) \in Compose(InA(w1), InA(w2))
    <3>1. x \in InA(w1) /\ y \in InA(w2)
      BY <2>5, <2>6
    <3>2. y[1] = x[2]
      OBVIOUS
    <3> QED
      BY <3>1, <3>2, ComposeHas
  <2>8. Join(x, y) = <<l[1], l[1], l[3], b1 \/ b2>>
    BY DEF Join
  <2> QED
    BY <2>2, <2>3, <2>4, <2>7, <2>8 DEF Turn
<1> QED
  BY <1>3, <1>4

\* The maximal sets kept at s, and which of them such words lead into which.
KeptAt(s) == {x.set : x \in {y \in postIrev : y.state = s}}
LedInto(v, l) == {d \in KeptAt(l[1]) \X KeptAt(l[1]) :
                 \E w : Turn(w, v, l) /\ Image(InB(w), d[1]) \subseteq d[2]}

\* From every maximal set they lead into one that they lead into itself.
LEMMA MaximalRecurs ==
  ASSUME NEW s, AllPassed(s), NEW v \in Words, NEW l \in InA(v), l[1] = s, l[2] = s, NEW W \in KeptAt(s)
  PROVE  \E V \in KeptAt(s) : <<W, V>> \in LedInto(v, l) /\ <<V, V>> \in LedInto(v, l)
<1> DEFINE D == KeptAt(s)
           R == LedInto(v, l)
<1>1. Inputs /\ StemTypeOK /\ Maximal(postIrev)
  BY DEF AllPassed
<1>2. \A w1, w2 : Turn(w1, v, l) /\ Turn(w2, v, l) => Turn(w1 \o w2, v, l)
  BY <1>1, Turns
<1>3. Turn(v, v, l)
  BY <1>1, Turns
<1>4. IsFiniteSet(D)
  <2>1. D \subseteq SUBSET StateB
    BY <1>1 DEF Maximal, Entry, KeptAt
  <2>2. IsFiniteSet(SUBSET StateB)
    BY InclusionAssumption, FS_SUBSET
  <2> QED
    BY <2>1, <2>2, FS_Subset
<1>5. \A X, Y \in D : (\E w : Turn(w, v, l) /\ Image(InB(w), X) \subseteq Y) => <<X, Y>> \in R
  BY DEF LedInto
<1>6. \A X, Y : <<X, Y>> \in R => \E w : Turn(w, v, l) /\ Image(InB(w), X) \subseteq Y
  BY DEF LedInto
<1>7. \A X \in D : \E Y \in D : <<X, Y>> \in R
  <2> SUFFICES ASSUME NEW X \in D
               PROVE  \E Y \in D : <<X, Y>> \in R
    OBVIOUS
  <2>1. PICK x \in postIrev : x.state = s /\ x.set = X
    BY DEF KeptAt
  <2>2. PairOf(x) \in Pairs /\ PairOf(x)[1] = s /\ PairOf(x)[2] = X
    BY <1>1, <2>1 DEF Maximal, PairOf
  <2>3. <<l[2], Image(InB(v), PairOf(x)[2])>> \in Pairs
    BY <1>1, <2>2, PairsAlong
  <2>4. PICK y \in postIrev : y.state = s /\ Image(InB(v), X) \subseteq y.set
    BY <1>1, <2>2, <2>3 DEF Maximal
  <2>5. y.set \in D
    BY <2>4 DEF KeptAt
  <2> QED
    BY <1>3, <1>5, <2>4, <2>5
<1>8. \A X, Y, Z \in D : <<X, Y>> \in R /\ <<Y, Z>> \in R => <<X, Z>> \in R
  <2> SUFFICES ASSUME NEW X \in D, NEW Y \in D, NEW Z \in D, <<X, Y>> \in R, <<Y, Z>> \in R
               PROVE  <<X, Z>> \in R
    OBVIOUS
  <2>1. PICK w1 : Turn(w1, v, l) /\ Image(InB(w1), X) \subseteq Y
    BY <1>6
  <2>2. PICK w2 : Turn(w2, v, l) /\ Image(InB(w2), Y) \subseteq Z
    BY <1>6
  <2>3. w1 \in Words /\ w2 \in Words
    BY <2>1, <2>2 DEF Turn
  <2>4. InB(w1 \o w2) = Compose(InB(w1), InB(w2))
    BY <1>1, <2>3, InARow
  <2>5. InB(w1) \in SUBSET PathsIn(StateB) /\ InB(w2) \in SUBSET PathsIn(StateB)
    BY <1>1, <2>3, Profiles
  <2>6. Image(InB(w1 \o w2), X) = Image(InB(w2), Image(InB(w1), X))
    BY <2>4, <2>5, ImageCompose
  <2>7. Image(InB(w2), Image(InB(w1), X)) \subseteq Image(InB(w2), Y)
    BY <2>1, ImageMonotonic
  <2>8. Turn(w1 \o w2, v, l)
    BY <1>2, <2>1, <2>2
  <2>9. Image(InB(w1 \o w2), X) \subseteq Z
    BY <2>2, <2>6, <2>7
  <2> QED
    BY <1>5, <2>8, <2>9
<1> HIDE DEF D, R
<1>9. \A X \in D : \E Y \in D : <<X, Y>> \in R /\ <<Y, Y>> \in R
  BY <1>4, <1>7, <1>8, Recurrence
<1> QED
  BY <1>9 DEF D, R

\* Then every loop from s is accepted where words lead to.
LEMMA LoopAccepted ==
  ASSUME NEW s, AllPassed(s), NEW v \in Words, NEW l \in InA(v), l[1] = s, l[2] = s,
         NEW p \in Pairs, p[1] = s
  PROVE  Accepts(InB(v), p[2], l[3])
<1> DEFINE t == l[3]
<1>1. Inputs /\ StemTypeOK /\ Maximal(postIrev) /\ Minimal(postI)
  BY DEF AllPassed
<1>2. PICK x0 \in postIrev : x0.state = s /\ p[2] \subseteq x0.set
  BY <1>1 DEF Maximal
<1>3. x0.set \in KeptAt(s)
  BY <1>2 DEF KeptAt
<1>4. PICK W \in KeptAt(s) : <<x0.set, W>> \in LedInto(v, l) /\ <<W, W>> \in LedInto(v, l)
  BY <1>3, MaximalRecurs
<1>5. PICK w1 : Turn(w1, v, l) /\ Image(InB(w1), x0.set) \subseteq W
  BY <1>4 DEF LedInto
<1>6. PICK w2 : Turn(w2, v, l) /\ Image(InB(w2), W) \subseteq W
  BY <1>4 DEF LedInto
<1>7. PICK x \in postIrev : x.state = s /\ x.set = W
  BY <1>4 DEF KeptAt
<1>8. w1 \in Words /\ w2 \in Words /\ w2[1] = v[1] /\ v[1] \in Symbol
  BY <1>5, <1>6, FirstSymbol DEF Turn
<1>9. SymbolPassed(s, W, v[1])
  BY <1>7, <1>8 DEF AllPassed, Passes
<1>10. PICK b1 \in BOOLEAN : <<s, s, t, b1>> \in InA(w1)
  BY <1>5 DEF Turn
<1>11. PICK b2 \in BOOLEAN : <<s, s, t, b2>> \in InA(w2)
  BY <1>6 DEF Turn
<1> DEFINE U == Image(InB(w1), p[2])
<1>12. <<s, U>> \in Pairs
  <2>1. <<s, s, t, b1>>[1] = p[1] /\ <<s, s, t, b1>>[2] = s
    OBVIOUS
  <2> QED
    BY <1>1, <1>8, <1>10, <2>1, PairsAlong
<1>13. U \subseteq W
  BY <1>2, <1>5, ImageMonotonic
<1> HIDE DEF U
<1>14. PICK y \in postI : y.state = s /\ y.set \subseteq U
  BY <1>1, <1>12 DEF Minimal
<1>15. Accepts(InB(w2), y.set, t)
  <2> DEFINE k == <<s, s, t, b2>>
  <2>1. k \in InA(w2) /\ k[1] = s /\ k[2] = s /\ k[3] = t
    BY <1>11
  <2> HIDE DEF k
  <2>2. LoopOf(w2, k, s, v[1])
    BY <1>8, <2>1 DEF LoopOf
  <2>3. Accepts(InB(w2), y.set, k[3])
    BY <1>6, <1>8, <1>9, <1>13, <1>14, <2>1, <2>2 DEF SymbolPassed
  <2> QED
    BY <2>1, <2>3
<1>16. /\ InB(v) \in SUBSET PathsIn(StateB) /\ IsFiniteSet(InB(v))
       /\ InB(w2) \in SUBSET PathsIn(StateB) /\ IsFiniteSet(InB(w2))
  BY <1>1, <1>8, Profiles
<1>17. t \in Int
  BY <1>1, Profiles, AutomataAssumption
<1> HIDE DEF t
<1>18. Accepts(InB(w2), U, t)
  BY <1>14, <1>15, <1>16, <1>17, AcceptsMore
<1>19. InB(w1) \subseteq Repeated(InB(v)) /\ InB(w2) \subseteq Repeated(InB(v))
  BY <1>5, <1>6 DEF Turn
<1>20. Accepts(InB(v), p[2], t)
  BY <1>16, <1>18, <1>19, AcceptsLater DEF U
<1> QED
  BY <1>20 DEF t

\* When every maximal set at a state that is tried has passed, no lasso that is
\* tried is missing in B.
LEMMA TriedAreIncluded ==
  ASSUME \A s : Tried(s) => AllPassed(s)
  PROVE  TriedIncluded
<1> SUFFICES ASSUME NEW s \in finalA, Tried(s), NEW p \in Pairs, p[1] = s, NEW l \in LoopsFrom(s)
             PROVE  Accepts(l.profile, p[2], l.value)
  BY DEF TriedIncluded
<1>1. AllPassed(s) /\ Inputs /\ s \in StateA
  BY DEF AllPassed, Inputs
<1>2. OfWord(l, s) /\ l.to = s
  BY <1>1, LoopsAre
<1>3. PICK w \in Words : \E b \in BOOLEAN : l.profile = InB(w) /\ <<s, l.to, l.value, b>> \in InA(w)
  BY <1>2 DEF OfWord
<1>4. PICK b \in BOOLEAN : l.profile = InB(w) /\ <<s, l.to, l.value, b>> \in InA(w)
  BY <1>3
<1> DEFINE k == <<s, l.to, l.value, b>>
<1>5. k \in InA(w) /\ k[1] = s /\ k[2] = s /\ k[3] = l.value
  BY <1>2, <1>4
<1> HIDE DEF k
<1>6. Accepts(InB(w), p[2], k[3])
  BY <1>1, <1>5, LoopAccepted
<1> QED
  BY <1>4, <1>5, <1>6

-----------------------------------------------------------------------------
(***************************************************************************)
(* The states left out                                                     *)
(***************************************************************************)

\* A path of A starts with an edge.
LEMMA PathStarts ==
  ASSUME Inputs
  PROVE  \A w \in Words : \A x \in InA(w) : \E e \in edgesA : e.from = x[1]
<1> DEFINE T == {w \in Words : \A x \in InA(w) : \E e \in edgesA : e.from = x[1]}
<1>1. ASSUME NEW a \in Symbol
      PROVE  <<a>> \in T
  <2>1. <<a>> \in Words /\ InA(<<a>>) = LetterProfile(edgesA, finalA, a)
    BY OneMore
  <2> SUFFICES ASSUME NEW x \in InA(<<a>>)
               PROVE  \E e \in edgesA : e.from = x[1]
    BY <2>1
  <2>2. PICK e \in edgesA : x = <<e.from, e.to, e.weight, e.from \in finalA \/ e.to \in finalA>>
    BY <2>1, LetterHas
  <2>3. x[1] = e.from
    BY <2>2
  <2> QED
    BY <2>3
<1>2. ASSUME NEW w \in Words, NEW a \in Symbol, w \in T
      PROVE  Append(w, a) \in T
  <2>1. /\ Append(w, a) \in Words /\ <<a>> \in Words
        /\ InA(Append(w, a)) = Compose(InA(w), InA(<<a>>))
    BY OneMore
  <2> SUFFICES ASSUME NEW x \in InA(Append(w, a))
               PROVE  \E e \in edgesA : e.from = x[1]
    BY <2>1
  <2>2. PICK y \in InA(w), z \in InA(<<a>>) : z[1] = y[2] /\ x = Join(y, z)
    BY <2>1, ComposeHas
  <2>3. y \in PathsIn(StateA) /\ z \in PathsIn(StateA)
    BY <2>1, <2>2, Profiles
  <2>4. x[1] = y[1]
    BY <2>2, <2>3, JoinIs
  <2> QED
    BY <1>2, <2>2, <2>4
<1> HIDE DEF T
<1>3. Words \subseteq T
  BY <1>1, <1>2, AllWords
<1> QED
  BY <1>3 DEF T

\* A final state with an edge above the least value of B is tried.
LEMMA HeavyTried ==
  ASSUME Inputs, NEW s \in finalA, NEW e \in edgesA, e.from = s, minDomain < e.weight
  PROVE  Tried(s)
<1> DEFINE edges == {d \in edgesA : d.from = s}
           f == [d \in edges |-> d.weight]
           out == {d.weight : d \in edges}
           Is(v) == v \in out /\ \A w \in out : w <= v
<1>1. IsFiniteSet(edgesA) /\ \A d \in edgesA : d.weight \in Int
  BY InputEdges, AutomataAssumption DEF Edge
<1>2. IsFiniteSet(edges)
  BY <1>1, FS_Subset
<1>3. IsFiniteSet(out)
  <2>1. IsFiniteSet({f[d] : d \in edges})
    <3> HIDE DEF f, edges
    <3> QED
      BY <1>2, FiniteImage
  <2>2. {f[d] : d \in edges} = out
    OBVIOUS
  <2> QED
    BY <2>1, <2>2
<1>4. out \subseteq Int /\ e.weight \in out
  BY <1>1
<1>5. MaxWeightValue(s) = CHOOSE v : Is(v)
  BY DEF MaxWeightValue
<1> HIDE DEF out
<1>6. \E v : Is(v)
  BY <1>3, <1>4, Greatest
<1>7. Is(MaxWeightValue(s))
  <2> DEFINE m == CHOOSE v : Is(v)
  <2>1. Is(m)
    BY <1>6
  <2> QED
    BY <1>5, <2>1
<1> DEFINE m == MaxWeightValue(s)
<1>8. m \in Int /\ e.weight <= m /\ e.weight \in Int /\ minDomain \in Int
  BY <1>4, <1>7 DEF Inputs
<1> HIDE DEF m
<1>9. minDomain < m
  BY <1>8
<1> QED
  BY <1>9 DEF Tried, m

\* What is asked of the automata given.
GivenSkipsNothing == \E x \in Settings :
  /\ finalA = x.finalA /\ finalB = x.finalB /\ minDomain = x.minDomain
  /\ NothingSkipped(edgesA, edgesB, x)

\* B has no value below its least, and every word has one.
LEMMA LeastAccepted ==
  ASSUME Inputs, StemTypeOK, finalB = StateB,
         \A s \in StateB, a \in Symbol : \E e \in edgesB : e.from = s /\ e.symbol = a,
         \A e \in edgesB : minDomain <= e.weight,
         NEW w \in Words, NEW p \in Pairs, NEW t \in Int, t <= minDomain
  PROVE  Accepts(InB(w), p[2], t)
<1> DEFINE P == InB(w)
<1>1. P \in SUBSET PathsIn(StateB) /\ IsFiniteSet(P)
  BY Profiles
<1>2. Serves(P, StateB, minDomain)
  <2>1. w \in Seq(Symbol) /\ w # <<>> /\ minDomain \in Int /\ Linking(edgesB, StateB)
    BY InputEdges DEF Words, Inputs
  <2>2. StateB \subseteq finalB
    OBVIOUS
  <2> QED
    BY <2>1, <2>2, WordTotal DEF InB
<1>3. p[2] \in SUBSET StateB /\ p[2] # {}
  BY SetsNotEmpty DEF Pairs, Pair
<1> HIDE DEF P
<1>4. \A q \in StateB : \E x \in P : x[1] = q
  BY <1>2 DEF Serves
<1>5. \A x \in P : x[3] >= t /\ x[4]
  <2> SUFFICES ASSUME NEW x \in P
               PROVE  x[3] >= t /\ x[4]
    OBVIOUS
  <2>1. x[3] >= minDomain /\ x[4] /\ minDomain \in Int
    BY <1>2 DEF Serves, Inputs
  <2>2. x[3] \in Int
    BY <1>1, LinkParts
  <2> QED
    BY <2>1, <2>2
<1>6. Accepts(P, p[2], t)
  BY <1>1, <1>3, <1>4, <1>5, InclusionAssumption, AcceptsTotal
<1> QED
  BY <1>6 DEF P

\* A loop whose weight lies further on may be turned round to start there.
LEMMA TurnedAccepted ==
  ASSUME Inputs, StemTypeOK, TriedIncluded, NEW p \in Pairs,
         NEW w1 \in Words, NEW w2 \in Words, NEW y \in InA(w1), NEW z \in InA(w2),
         y[1] = p[1], y[2] = z[1], z[2] = y[1], z[1] \in finalA, Tried(z[1])
  PROVE  Accepts(InB(w1 \o w2), p[2], Join(y, z)[3])
<1> DEFINE q == z[1]
           x == Join(z, y)
           U == Image(InB(w1), p[2])
<1>1. y \in PathsIn(StateA) /\ z \in PathsIn(StateA) /\ q \in StateA
  BY Profiles DEF Inputs
<1>2. y[3] \in Int /\ z[3] \in Int
  BY <1>1, LinkParts
<1>3. x[1] = q /\ x[2] = q /\ x[3] = Join(y, z)[3]
  <2>1. x[1] = z[1] /\ x[2] = y[2] /\ x[3] = IF z[3] < y[3] THEN y[3] ELSE z[3]
    BY <1>1, JoinIs
  <2>2. Join(y, z)[3] = IF y[3] < z[3] THEN z[3] ELSE y[3]
    BY <1>1, JoinIs
  <2> HIDE DEF x
  <2> QED
    BY <1>2, <2>1, <2>2
<1>4. /\ w2 \o w1 \in Words
      /\ InA(w2 \o w1) = Compose(InA(w2), InA(w1))
      /\ InB(w2 \o w1) = Compose(InB(w2), InB(w1))
      /\ InB(w1 \o w2) = Compose(InB(w1), InB(w2))
  BY InARow
<1>5. x \in InA(w2 \o w1)
  BY <1>4, ComposeHas
<1>6. <<y[2], U>> \in Pairs
  BY PairsAlong
<1> HIDE DEF x, U
<1> DEFINE loop == [to |-> q, value |-> x[3], profile |-> InB(w2 \o w1)]
           r == <<q, U>>
<1>7. loop \in LoopsFrom(q)
  BY <1>1, <1>3, <1>4, <1>5, LoopsAre
<1>8. loop.profile = InB(w2 \o w1) /\ loop.value = x[3]
  OBVIOUS
<1>9. r \in Pairs /\ r[1] = q /\ r[2] = U
  BY <1>6
<1> HIDE DEF loop, r
<1>10. Accepts(loop.profile, r[2], loop.value)
  BY <1>7, <1>9 DEF TriedIncluded
<1>11. Accepts(Compose(InB(w2), InB(w1)), Image(InB(w1), p[2]), x[3])
  BY <1>4, <1>8, <1>9, <1>10 DEF U
<1>12. /\ InB(w1) \in SUBSET PathsIn(StateB) /\ IsFiniteSet(InB(w1))
       /\ InB(w2) \in SUBSET PathsIn(StateB) /\ IsFiniteSet(InB(w2))
  BY Profiles
<1>13. Accepts(Compose(InB(w1), InB(w2)), p[2], x[3])
  BY <1>11, <1>12, AcceptsRotated
<1> QED
  BY <1>3, <1>4, <1>13

\* What the loop over the states leaves out matters not.
LEMMA NothingMissed ==
  ASSUME Inputs, StemTypeOK, GivenSkipsNothing, TriedIncluded
  PROVE  LanguageIncluded
<1> SUFFICES ASSUME NEW s \in finalA, NEW p \in Pairs, p[1] = s, NEW l \in LoopsFrom(s)
             PROVE  Accepts(l.profile, p[2], l.value)
  BY DEF LanguageIncluded
<1>1. PICK g \in Settings :
        /\ finalA = g.finalA /\ finalB = g.finalB /\ minDomain = g.minDomain
        /\ NothingSkipped(edgesA, edgesB, g)
  BY DEF GivenSkipsNothing
<1>2. CASE Tried(s)
  BY <1>2 DEF TriedIncluded
<1>3. s \in StateA
  BY DEF Inputs
<1>4. OfWord(l, s) /\ l.to = s
  BY <1>3, LoopsAre
<1>5. PICK w \in Words : \E b \in BOOLEAN : l.profile = InB(w) /\ <<s, l.to, l.value, b>> \in InA(w)
  BY <1>4 DEF OfWord
<1>6. PICK b \in BOOLEAN : l.profile = InB(w) /\ <<s, l.to, l.value, b>> \in InA(w)
  BY <1>5
<1> DEFINE x == <<s, l.to, l.value, b>>
<1>7. x \in InA(w) /\ x[1] = s /\ x[2] = s /\ x[3] = l.value
  BY <1>4, <1>6
<1> HIDE DEF x
<1>8. CASE \A e \in edgesA : e.from \in finalA => \E d \in edgesA : d.from = e.from /\ minDomain < d.weight
  <2>1. PICK e \in edgesA : e.from = s
    BY <1>7, PathStarts
  <2>2. PICK d \in edgesA : d.from = s /\ minDomain < d.weight
    BY <1>8, <2>1
  <2>3. Tried(s)
    BY <2>2, HeavyTried
  <2> QED
    BY <1>2, <2>3
<1>9. CASE /\ finalA = StateA /\ finalB = StateB
           /\ \A q \in StateB, a \in Symbol : \E e \in edgesB : e.from = q /\ e.symbol = a
           /\ \A e \in edgesB : minDomain <= e.weight
  <2>1. x[3] \in Int /\ minDomain \in Int
    BY <1>7, Profiles, AutomataAssumption DEF Inputs
  <2>2. CASE x[3] <= minDomain
    <3>1. Accepts(InB(w), p[2], x[3])
      BY <1>9, <2>1, <2>2, LeastAccepted
    <3> QED
      BY <1>6, <1>7, <3>1
  <2>3. CASE minDomain < x[3]
    <3>1. w \in Seq(Symbol) /\ w # <<>> /\ Linking(edgesA, StateA)
      BY InputEdges DEF Words
    <3>2. CASE Heavy(edgesA, x[1], x[3])
      <4>1. PICK e \in edgesA : e.from = s /\ e.weight = x[3]
        BY <1>7, <3>2 DEF Heavy
      <4>2. Tried(s)
        BY <2>3, <4>1, HeavyTried
      <4> QED
        BY <1>2, <4>2
    <3>3. CASE \E w1, w2 \in Seq(Symbol) : \E y, z :
                 w1 # <<>> /\ w2 # <<>> /\ Divided(edgesA, finalA, w, x, w1, w2, y, z)
      <4>1. PICK w1, w2 \in Seq(Symbol) : \E y, z :
              w1 # <<>> /\ w2 # <<>> /\ Divided(edgesA, finalA, w, x, w1, w2, y, z)
        BY <3>3
      <4>2. PICK y, z : w1 # <<>> /\ w2 # <<>> /\ Divided(edgesA, finalA, w, x, w1, w2, y, z)
        BY <4>1
      <4>3. w1 \in Words /\ w2 \in Words /\ w = w1 \o w2 /\ y \in InA(w1) /\ z \in InA(w2)
            /\ z[1] = y[2] /\ x = Join(y, z) /\ Heavy(edgesA, z[1], x[3])
        BY <4>1, <4>2 DEF Divided, Words, InA
      <4>4. y \in PathsIn(StateA) /\ z \in PathsIn(StateA)
        BY <4>3, Profiles
      <4>5. z[1] \in StateA /\ x[1] = y[1] /\ x[2] = z[2]
        BY <4>3, <4>4, JoinIs, LinkParts
      <4>6. PICK e \in edgesA : e.from = z[1] /\ e.weight = x[3]
        BY <4>3 DEF Heavy
      <4>7. z[1] \in finalA /\ Tried(z[1])
        BY <1>9, <2>3, <4>5, <4>6, HeavyTried
      <4>8. Accepts(InB(w1 \o w2), p[2], Join(y, z)[3])
        BY <1>7, <4>3, <4>5, <4>7, TurnedAccepted
      <4> QED
        BY <1>6, <1>7, <4>3, <4>8
    <3> QED
      BY <1>7, <3>1, <3>2, <3>3, HeaviestSplit DEF InA
  <2> QED
    BY <2>1, <2>2, <2>3
<1> QED
  BY <1>1, <1>8, <1>9 DEF NothingSkipped

-----------------------------------------------------------------------------
(***************************************************************************)
(* The invariant holds                                                     *)
(***************************************************************************)

\* At first.
LEMMA InclusionStarts ==
  ASSUME Init
  PROVE  InclusionInv
<1>1. StemInit /\ StemInv /\ WordsLead /\ reversed = TRUE /\ phase = "postIrev"
  BY InitInv, WordsStart DEF Init
<1>2. PICK x \in Settings : finalA = x.finalA /\ finalB = x.finalB /\ minDomain = x.minDomain
  BY DEF Init
<1>3. Given
  <2>1. x.finalA \in SUBSET StateA /\ x.finalB \in SUBSET StateB /\ x.minDomain \in Int
    BY InclusionAssumption
  <2>2. edgesA \in GraphsA /\ edgesB \in GraphsB
    BY <1>1 DEF StemInit
  <2> QED
    BY <1>2, <2>1, <2>2 DEF Given, Inputs
<1>4. Stems
  BY <1>1 DEF Stems, StemInv
<1>5. Antichains /\ Jobs
  BY <1>1 DEF Antichains, Jobs
<1>6. Trying
  BY DEF Init, Trying
<1>7. Answers
  <2>1. result = None /\ witness = None /\ result # FALSE /\ result # TRUE
    BY InclusionAssumption DEF Init
  <2> QED
    BY <1>1, <2>1 DEF Answers
<1> QED
  BY <1>3, <1>4, <1>5, <1>6, <1>7 DEF InclusionInv

\* Nothing has been answered before the return.
LEMMA Unanswered ==
  ASSUME InclusionInv, phase # "returned"
  PROVE  result = None /\ witness = None /\ result # FALSE /\ result # TRUE
BY InclusionAssumption DEF InclusionInv, Answers

\* What does not touch the answer leaves it right.
LEMMA AnswerStays ==
  ASSUME InclusionInv, UNCHANGED automata, UNCHANGED <<result, witness>>,
         phase # "returned", phase' \in {"postIrev", "postI", "loops"}
  PROVE  Answers'
<1>1. result' = None /\ witness' = None /\ result' # FALSE /\ result' # TRUE
  BY Unanswered
<1> QED
  BY <1>1 DEF Answers

\* A step of a stem fixpoint.
LEMMA StemKeeps ==
  ASSUME InclusionInv, Stem
  PROVE  InclusionInv'
<1>1. phase \in {"postIrev", "postI"} /\ StemStep
      /\ UNCHANGED <<finalA, finalB, minDomain, loopTables, loopControl, phase, result, witness>>
  BY DEF Stem
<1>2. UNCHANGED <<edgesA, edgesB, reversed>>
  BY <1>1 DEF StemStep, StemReject, StemAdd, StemSwap
<1>3. UNCHANGED automata
  BY <1>1, <1>2 DEF automata
<1>4. UNCHANGED <<postIrev, postI, jobs, job, symbols, contexts, fresh, held, moves, from, phase>>
  BY <1>1 DEF loopTables, loopControl
<1>5. Given' /\ \A S : (Maximal(S)' <=> Maximal(S)) /\ (Minimal(S)' <=> Minimal(S))
  BY <1>3, SameAutomata DEF InclusionInv
<1>6. StemInv /\ WordsLead
  BY <1>1 DEF InclusionInv, Stems
<1>7. StemInv'
  BY <1>1, <1>6, StemNext
<1>8. WordsLead'
  BY <1>1, <1>6, WordsNext
<1>9. Stems'
  <2>1. StemTypeOK'
    BY <1>7 DEF StemInv
  <2> QED
    BY <1>2, <1>4, <1>7, <1>8, <2>1 DEF InclusionInv, Stems
<1>10. Antichains' /\ Jobs'
  BY <1>1, <1>4, <1>5 DEF InclusionInv, Antichains, Jobs
<1>11. Trying'
  <2>1. job = None
    BY <1>1 DEF InclusionInv, Trying
  <2> QED
    BY <1>4, <2>1 DEF InclusionInv, Trying
<1>12. Answers'
  BY <1>1, <1>3, <1>4, AnswerStays
<1> QED
  BY <1>5, <1>9, <1>10, <1>11, <1>12 DEF InclusionInv

\* The first stem fixpoint ends with maximal sets, and the second begins.
LEMMA SecondStemKeeps ==
  ASSUME InclusionInv, SecondStem
  PROVE  InclusionInv'
<1>1. /\ phase = "postIrev" /\ StemOver
      /\ postIrev' = content /\ reversed' = FALSE
      /\ content' = {FirstEntry} /\ updates' = {FirstEntry} /\ buffer' = {}
      /\ todo' = Round({FirstEntry}) /\ phase' = "postI"
      /\ UNCHANGED automata
      /\ UNCHANGED <<contexts, fresh, held, moves, from, postI, jobs, job, symbols, result, witness>>
  BY DEF SecondStem, loopTables
<1>2. UNCHANGED <<edgesA, edgesB>>
  BY <1>1 DEF automata
<1>3. Given' /\ \A S : Maximal(S)' <=> Maximal(S)
  BY <1>1, SameAutomata DEF InclusionInv
<1>4. StemInv /\ WordsLead /\ reversed = TRUE
  BY <1>1 DEF InclusionInv, Stems
<1>5. StemInv' /\ WordsLead'
  <2>1. edgesA' \in GraphsA /\ edgesB' \in GraphsB
    BY <1>2 DEF InclusionInv, Given, Inputs
  <2>2. todo' = Round({FirstEntry})'
    BY <1>1, <1>2 DEF Round, FirstEntry
  <2>3. StemInit'
    BY <1>1, <2>1, <2>2 DEF StemInit, FirstEntry
  <2> QED
    BY <2>3, StemBeginsNext
<1>6. Stems'
  BY <1>1, <1>5 DEF Stems, StemInv
<1>7. Maximal(content)
  <2>1. content \subseteq Entry /\ \A x \in content : PairOf(x) \in Pairs
    BY <1>4 DEF StemInv, StemTypeOK, Sound
  <2>2. \A p \in Pairs : \E y \in content : Better(PairOf(y), p)
    BY <1>1, <1>4, AllCovered
  <2>3. \A p, y : Better(PairOf(y), p) => y.state = p[1] /\ p[2] \subseteq y.set
    BY <1>4 DEF Better, Extreme, PairOf
  <2> QED
    BY <2>1, <2>2, <2>3 DEF Maximal
<1>8. Antichains'
  BY <1>1, <1>3, <1>7 DEF Antichains
<1>9. Jobs'
  BY <1>1 DEF Jobs
<1>10. Trying'
  <2>1. job = None
    BY <1>1 DEF InclusionInv, Trying
  <2> QED
    BY <1>1, <2>1 DEF InclusionInv, Trying
<1>11. Answers'
  BY <1>1, AnswerStays
<1> QED
  BY <1>3, <1>6, <1>8, <1>9, <1>10, <1>11 DEF InclusionInv

\* The second ends with minimal sets, and all states to try have jobs.
LEMMA CombineKeeps ==
  ASSUME InclusionInv, Combine
  PROVE  InclusionInv'
<1>1. /\ phase = "postI" /\ StemOver /\ postI' = content /\ content' = {}
      /\ jobs' = {x \in postIrev : Tried(x.state)} /\ phase' = "loops"
      /\ UNCHANGED automata
      /\ UNCHANGED <<reversed, updates, buffer, todo, contexts, fresh, held, moves, from,
                     postIrev, job, symbols, result, witness>>
  BY DEF Combine, loopTables
<1>2. UNCHANGED <<edgesA, edgesB>>
  BY <1>1 DEF automata
<1>3. /\ Given'
      /\ \A S : (Maximal(S)' <=> Maximal(S)) /\ (Minimal(S)' <=> Minimal(S))
      /\ \A s : Tried(s)' <=> Tried(s)
  BY <1>1, SameAutomata DEF InclusionInv
<1>4. StemInv /\ WordsLead /\ reversed = FALSE
  BY <1>1 DEF InclusionInv, Stems
<1>5. Stems'
  <2>1. StemTypeOK'
    <3>1. Entry' = Entry
      BY DEF Entry
    <3> QED
      BY <1>1, <1>2, <1>4, <3>1 DEF StemInv, StemTypeOK
  <2>2. WordsLead'
    <3>1. \A u : Led(u)' = Led(u)
      BY <1>2, SameLed
    <3> QED
      BY <1>1, <1>4, <3>1 DEF WordsLead, PairOf
  <2> QED
    BY <1>1, <2>1, <2>2 DEF Stems
<1>6. Minimal(content)
  <2>1. content \subseteq Entry /\ \A x \in content : PairOf(x) \in Pairs /\ PairOf(x) \in Led(x.word)[Len(x.word)]
    BY <1>4 DEF StemInv, StemTypeOK, Sound, WordsLead
  <2>2. \A p \in Pairs : \E y \in content : Better(PairOf(y), p)
    BY <1>1, <1>4, AllCovered
  <2>3. \A p, y : Better(PairOf(y), p) => y.state = p[1] /\ y.set \subseteq p[2]
    BY <1>4 DEF Better, Extreme, PairOf
  <2> QED
    BY <2>1, <2>2, <2>3 DEF Minimal
<1>7. Antichains'
  <2>1. Maximal(postIrev)
    BY <1>1 DEF InclusionInv, Antichains
  <2> QED
    BY <1>1, <1>3, <1>6, <2>1 DEF Antichains
<1>8. job = None
  BY <1>1 DEF InclusionInv, Trying
<1>9. Jobs'
  BY <1>1, <1>3, <1>8 DEF Jobs
<1>10. Trying'
  BY <1>1, <1>8 DEF InclusionInv, Trying
<1>11. Answers'
  BY <1>1, AnswerStays
<1> QED
  BY <1>3, <1>5, <1>7, <1>9, <1>10, <1>11 DEF InclusionInv

\* The stem fixpoints are over.
LEMMA StemsKeep ==
  ASSUME InclusionInv, phase = "loops", phase' \in {"loops", "returned"}, UNCHANGED automata,
         UNCHANGED <<reversed, content, updates, buffer, todo>>
  PROVE  Given' /\ Stems'
<1>1. UNCHANGED <<edgesA, edgesB>>
  BY DEF automata
<1>2. Given'
  BY SameAutomata DEF InclusionInv
<1>3. StemTypeOK /\ WordsLead
  BY DEF InclusionInv, Stems
<1>4. StemTypeOK'
  <2>1. Entry' = Entry
    BY DEF Entry
  <2> QED
    BY <1>1, <1>3, <2>1 DEF StemTypeOK
<1>5. WordsLead'
  <2>1. \A u : Led(u)' = Led(u)
    BY <1>1, SameLed
  <2> QED
    BY <1>3, <2>1 DEF WordsLead, PairOf
<1> QED
  BY <1>2, <1>4, <1>5 DEF Stems

\* What a step of the loops leaves alone.
LEMMA LoopsKeep ==
  ASSUME InclusionInv, phase = "loops", phase' = "loops", UNCHANGED automata,
         UNCHANGED <<reversed, content, updates, buffer, todo, postIrev, postI, result, witness>>
  PROVE  Given' /\ Stems' /\ Antichains' /\ Answers'
<1>1. Given' /\ Stems'
  BY StemsKeep
<1>2. \A S : (Maximal(S)' <=> Maximal(S)) /\ (Minimal(S)' <=> Minimal(S))
  BY SameAutomata
<1>3. Antichains'
  BY <1>2 DEF InclusionInv, Antichains
<1>4. Answers'
  BY AnswerStays
<1> QED
  BY <1>1, <1>3, <1>4

\* The least of a set of symbols is one of them.
LEMMA LeastSymbol ==
  ASSUME NEW S \in SUBSET Symbol, S # {}
  PROVE  Least(S) \in S
<1> DEFINE Is(a) == a \in S /\ \A b \in S : a <= b
<1>1. \E a : Is(a)
  BY AutomataAssumption, LeastNat
<1>2. Least(S) = CHOOSE a : Is(a)
  BY DEF Least
<1> DEFINE m == CHOOSE a : Is(a)
<1>3. Is(m)
  BY <1>1
<1> QED
  BY <1>2, <1>3

\* What a job is.
LEMMA JobIs ==
  ASSUME InclusionInv, job # None
  PROVE  /\ phase = "loops" /\ Inputs /\ StemTypeOK
         /\ job \in postIrev /\ job \in Entry /\ Tried(job.state)
         /\ symbols \in SUBSET Symbol /\ symbols # {} /\ Least(symbols) \in symbols
         /\ from.state = job.state /\ from.set = job.set /\ from.symbol = Least(symbols)
         /\ LoopInv /\ LoopWords
         /\ Maximal(postIrev) /\ Minimal(postI)
<1>1. /\ phase = "loops" /\ symbols \in SUBSET Symbol /\ symbols # {}
      /\ from = [state |-> job.state, set |-> job.set, symbol |-> Least(symbols)]
      /\ LoopInv /\ LoopWords
  BY DEF InclusionInv, Trying
<1>2. job \in postIrev /\ Tried(job.state)
  BY <1>1 DEF InclusionInv, Jobs
<1>3. Inputs /\ StemTypeOK /\ Maximal(postIrev) /\ Minimal(postI)
  BY <1>1 DEF InclusionInv, Given, Stems, Antichains
<1>4. job \in Entry
  BY <1>2, <1>3 DEF Maximal
<1>5. from.state = job.state /\ from.set = job.set /\ from.symbol = Least(symbols)
  BY <1>1
<1>6. Least(symbols) \in symbols
  BY <1>1, LeastSymbol
<1> QED
  BY <1>1, <1>2, <1>3, <1>4, <1>5, <1>6

\* A job is taken up, with all symbols.
LEMMA NextJobKeeps ==
  ASSUME InclusionInv, NEW w, NextJob(w)
  PROVE  InclusionInv'
<1>1. /\ phase = "loops" /\ job = None /\ w \in jobs
      /\ jobs' = jobs \ {w} /\ job' = w /\ symbols' = Symbol
      /\ LoopStart(w.state, w.set, Least(Symbol))
      /\ UNCHANGED automata
      /\ UNCHANGED <<reversed, content, updates, buffer, todo, postIrev, postI, phase, result, witness>>
  BY DEF NextJob, stemTables
<1>2. /\ Inputs /\ Maximal(postIrev) /\ w \in postIrev /\ Tried(w.state) /\ jobs \subseteq postIrev
      /\ \A x \in jobs : Tried(x.state)
      /\ \A x \in postIrev : Tried(x.state) =>
           x \in jobs \/ (x = job /\ Passes(x, Symbol \ symbols)) \/ Passes(x, Symbol)
  BY <1>1 DEF InclusionInv, Given, Antichains, Jobs
<1>3. postIrev \subseteq Entry /\ w.state \in StateA /\ w.set \in SUBSET StateB
  BY <1>2 DEF Maximal, Entry
<1>4. \A x \in postIrev : x # None
  BY <1>3, InclusionAssumption
<1>5. Given' /\ Stems' /\ Antichains' /\ Answers'
  BY <1>1, LoopsKeep
<1>6. Least(Symbol) \in Symbol
  BY InclusionAssumption, LeastSymbol
<1>7. LoopInv' /\ LoopWords' /\ from' = [state |-> w.state, set |-> w.set, symbol |-> Least(Symbol)]
  <2>1. UNCHANGED loopGraphs
    BY <1>1 DEF automata, loopGraphs
  <2> QED
    BY <1>1, <1>2, <1>3, <1>6, <2>1, LoopBeginsNext
<1>8. Trying'
  BY <1>1, <1>2, <1>4, <1>7, InclusionAssumption DEF Trying
<1>9. (\A x, S : Passes(x, S)' <=> Passes(x, S)) /\ (\A s : Tried(s)' <=> Tried(s))
  BY <1>1, SamePassed, SameAutomata
<1>10. Jobs'
  <2>1. Passes(w, Symbol \ Symbol)
    BY DEF Passes
  <2>2. \A x \in postIrev : Tried(x.state) =>
          x \in jobs \ {w} \/ (x = w /\ Passes(x, Symbol \ Symbol)) \/ Passes(x, Symbol)
    BY <1>1, <1>2, <1>4, <2>1
  <2> QED
    BY <1>1, <1>2, <1>9, <2>2 DEF Jobs
<1> QED
  BY <1>5, <1>8, <1>10 DEF InclusionInv

\* A step of the loop fixpoint.
LEMMA LoopKeeps ==
  ASSUME InclusionInv, Loop
  PROVE  InclusionInv'
<1>1. /\ phase = "loops" /\ LoopStep
      /\ UNCHANGED <<finalA, minDomain>>
      /\ UNCHANGED <<reversed, content, updates, buffer, todo, postIrev, postI, jobs, job, symbols,
                     phase, result, witness>>
  BY DEF Loop, stemTables, loopControl
<1>2. UNCHANGED loopGraphs /\ UNCHANGED from
  BY <1>1 DEF LoopStep, LoopReject, LoopAdd, LoopSwap
<1>3. UNCHANGED automata
  BY <1>1, <1>2 DEF loopGraphs, automata
<1>4. Given' /\ Stems' /\ Antichains' /\ Answers'
  BY <1>1, <1>3, LoopsKeep
<1>5. (\A x, S : Passes(x, S)' <=> Passes(x, S)) /\ (\A s : Tried(s)' <=> Tried(s))
  BY <1>1, <1>3, SamePassed, SameAutomata
<1>6. Jobs'
  BY <1>1, <1>5 DEF InclusionInv, Jobs
<1>7. job # None
  <2>1. moves # {} \/ fresh # {}
    BY <1>1 DEF LoopStep, LoopSwap
  <2> QED
    BY <2>1 DEF InclusionInv, Trying
<1>8. LoopInv /\ LoopWords
  BY <1>7, JobIs
<1>9. LoopInv'
  BY <1>1, <1>8, LoopNext
<1>10. LoopWords'
  BY <1>1, <1>8, LoopWordsNext
<1>11. Trying'
  BY <1>1, <1>2, <1>7, <1>9, <1>10 DEF InclusionInv, Trying
<1> QED
  BY <1>4, <1>6, <1>11 DEF InclusionInv

\* A symbol passes.
LEMMA PassedKeeps ==
  ASSUME InclusionInv, Passed
  PROVE  InclusionInv'
<1>1. /\ phase = "loops" /\ job # None /\ LoopOver /\ Rejects = {}
      /\ symbols' = symbols \ {Least(symbols)}
      /\ UNCHANGED automata
      /\ UNCHANGED <<reversed, content, updates, buffer, todo, postIrev, postI, jobs, phase, result, witness>>
      /\ symbols' = {} => job' = None /\ NoTables
      /\ symbols' # {} => LoopStart(job.state, job.set, Least(symbols')) /\ UNCHANGED job
  BY DEF Passed, stemTables
<1>2. /\ Inputs /\ StemTypeOK /\ job \in postIrev /\ job \in Entry /\ Tried(job.state)
      /\ symbols \in SUBSET Symbol /\ symbols # {} /\ Least(symbols) \in symbols
      /\ from.state = job.state /\ from.set = job.set /\ from.symbol = Least(symbols)
      /\ LoopInv /\ LoopWords /\ Maximal(postIrev) /\ Minimal(postI)
  BY <1>1, JobIs
<1>3. Given' /\ Stems' /\ Antichains' /\ Answers'
  BY <1>1, LoopsKeep
<1>4. SymbolPassed(job.state, job.set, Least(symbols))
  <2>1. postI \subseteq Entry
    BY <1>2 DEF Minimal
  <2> QED
    BY <1>1, <1>2, <2>1, PassedSymbol
<1>5. /\ jobs \subseteq postIrev
      /\ \A x \in jobs : Tried(x.state)
      /\ \A x \in postIrev : Tried(x.state) =>
           x \in jobs \/ (x = job /\ Passes(x, Symbol \ symbols)) \/ Passes(x, Symbol)
  BY <1>1 DEF InclusionInv, Jobs
<1>6. Passes(job, Symbol \ symbols) => Passes(job, Symbol \ symbols')
  BY <1>1, <1>4 DEF Passes
<1>7. (\A x, S : Passes(x, S)' <=> Passes(x, S)) /\ (\A s : Tried(s)' <=> Tried(s))
  BY <1>1, SamePassed, SameAutomata
<1>8. CASE symbols' = {}
  <2>1. job' = None /\ contexts' = {} /\ fresh' = {} /\ held' = {} /\ moves' = {}
    BY <1>1, <1>8 DEF NoTables
  <2>2. Trying'
    BY <2>1 DEF Trying
  <2>3. Passes(job, Symbol \ symbols') => Passes(job, Symbol)
    BY <1>8 DEF Passes
  <2>4. \A x \in postIrev : Tried(x.state) => x \in jobs \/ Passes(x, Symbol)
    BY <1>5, <1>6, <2>3
  <2>5. Jobs'
    BY <1>1, <1>5, <1>7, <2>1, <2>4 DEF Jobs
  <2> QED
    BY <1>3, <2>2, <2>5 DEF InclusionInv
<1>9. CASE symbols' # {}
  <2>1. LoopStart(job.state, job.set, Least(symbols')) /\ job' = job
    BY <1>1, <1>9
  <2>2. symbols' \in SUBSET Symbol
    BY <1>1, <1>2
  <2>3. Least(symbols') \in symbols' /\ Least(symbols') \in Symbol
    BY <1>9, <2>2, LeastSymbol
  <2>4. job.state \in StateA /\ job.set \in SUBSET StateB
    BY <1>2 DEF Entry
  <2>5. LoopInv' /\ LoopWords' /\ from' = [state |-> job.state, set |-> job.set, symbol |-> Least(symbols')]
    <3>1. UNCHANGED loopGraphs
      BY <1>1 DEF automata, loopGraphs
    <3> QED
      BY <1>2, <2>1, <2>3, <2>4, <3>1, LoopBeginsNext
  <2>6. Trying'
    BY <1>1, <1>9, <2>1, <2>2, <2>5 DEF Trying
  <2>7. Jobs'
    BY <1>1, <1>2, <1>5, <1>6, <1>7, <2>1 DEF Jobs
  <2> QED
    BY <1>3, <2>6, <2>7 DEF InclusionInv
<1> QED
  BY <1>8, <1>9

\* What a return leaves.
LEMMA ReturnKeeps ==
  ASSUME InclusionInv, phase = "loops", NEW answer, NEW lasso, Return(answer, lasso)
  PROVE  /\ Given' /\ Stems' /\ Antichains' /\ Jobs' /\ Trying'
         /\ phase' = "returned" /\ result' = answer /\ witness' = lasso /\ UNCHANGED automata
<1>1. /\ phase' = "returned" /\ result' = answer /\ witness' = lasso /\ job' = None
      /\ contexts' = {} /\ fresh' = {} /\ held' = {} /\ moves' = {}
      /\ UNCHANGED automata /\ UNCHANGED <<reversed, content, updates, buffer, todo>>
  BY DEF Return, NoTables, stemTables
<1>2. Given' /\ Stems'
  BY <1>1, StemsKeep
<1>3. Antichains' /\ Jobs' /\ Trying'
  BY <1>1 DEF Antichains, Jobs, Trying
<1> QED
  BY <1>1, <1>2, <1>3

\* A rejection is a counterexample.
LEMMA RefutedKeeps ==
  ASSUME InclusionInv, Refuted
  PROVE  InclusionInv'
<1>1. PICK c \in Rejects : phase = "loops" /\ job # None /\ Return(FALSE, <<c[1].word, c[2].word>>)
  BY DEF Refuted
<1>2. /\ Inputs /\ StemTypeOK /\ Tried(job.state) /\ from.state = job.state /\ from.set = job.set
      /\ LoopInv /\ LoopWords /\ Minimal(postI)
  BY <1>1, JobIs
<1>3. ~LanguageIncluded /\ Refuting(c[1].word, c[2].word)
  BY <1>2, RejectedRefutes DEF Minimal, Tried
<1>4. c[1].word \in Seq(Symbol) /\ c[2].word \in Seq(Symbol)
  <2>1. c[1] \in postI /\ c[2] \in contexts
    BY DEF Rejects
  <2>2. postI \subseteq Entry /\ contexts \subseteq LoopEntry
    BY <1>2 DEF Minimal, LoopInv, LoopTypeOK
  <2> QED
    BY <2>1, <2>2 DEF Entry, LoopEntry
<1> DEFINE u == c[1].word
           v == c[2].word
           lasso == <<u, v>>
<1> HIDE DEF u, v
<1>5. lasso \in Seq(Symbol) \X Seq(Symbol) /\ lasso[1] = u /\ lasso[2] = v
  BY <1>4 DEF u, v
<1>6. Return(FALSE, lasso)
  BY <1>1 DEF u, v
<1> HIDE DEF lasso
<1>7. /\ Given' /\ Stems' /\ Antichains' /\ Jobs' /\ Trying'
      /\ phase' = "returned" /\ result' = FALSE /\ witness' = lasso /\ UNCHANGED automata
  BY <1>1, <1>6, ReturnKeeps
<1>8. ~LanguageIncluded'
  BY <1>3, <1>7, SameAutomata
<1>9. Refuting(witness[1], witness[2])'
  <2>1. \A x, y : Refuting(x, y)' <=> Refuting(x, y)
    BY <1>7, SameAutomata
  <2>2. Refuting(u, v)
    BY <1>3 DEF u, v
  <2>3. witness'[1] = u /\ witness'[2] = v
    BY <1>5, <1>7
  <2> QED
    BY <2>1, <2>2, <2>3
<1>10. Answers'
  BY <1>5, <1>7, <1>8, <1>9 DEF Answers
<1> QED
  BY <1>7, <1>10 DEF InclusionInv

\* When no job is left everything has passed.
LEMMA IncludedKeeps ==
  ASSUME InclusionInv, Included
  PROVE  InclusionInv'
<1>1. phase = "loops" /\ job = None /\ jobs = {} /\ Return(TRUE, None)
  BY DEF Included
<1>2. Inputs /\ StemTypeOK /\ Maximal(postIrev) /\ Minimal(postI)
  BY <1>1 DEF InclusionInv, Given, Stems, Antichains
<1>3. \A x \in postIrev : x # None
  BY <1>2, InclusionAssumption DEF Maximal
<1>4. \A x \in postIrev : Tried(x.state) => Passes(x, Symbol)
  BY <1>1, <1>3 DEF InclusionInv, Jobs
<1>5. \A s : Tried(s) => AllPassed(s)
  BY <1>2, <1>4 DEF AllPassed
<1>6. TriedIncluded
  BY <1>5, TriedAreIncluded
<1>7. /\ Given' /\ Stems' /\ Antichains' /\ Jobs' /\ Trying'
      /\ phase' = "returned" /\ result' = TRUE /\ witness' = None /\ UNCHANGED automata
  BY <1>1, ReturnKeeps
<1>8. TriedIncluded'
  BY <1>6, <1>7, SameAutomata
<1>9. Answers'
  BY <1>7, <1>8 DEF Answers
<1> QED
  BY <1>7, <1>9 DEF InclusionInv

\* Nothing happens.
LEMMA StutterKeeps ==
  ASSUME InclusionInv, UNCHANGED vars
  PROVE  InclusionInv'
<1>1. UNCHANGED automata
      /\ UNCHANGED <<reversed, content, updates, buffer, todo, contexts, fresh, held, moves, from,
                     postIrev, postI, jobs, job, symbols, phase, result, witness>>
  BY DEF vars, stemTables, loopTables, loopControl
<1>2. UNCHANGED <<edgesA, edgesB, finalA, finalB, minDomain>>
  BY <1>1 DEF automata
<1>3. /\ Given'
      /\ \A S : (Maximal(S)' <=> Maximal(S)) /\ (Minimal(S)' <=> Minimal(S))
      /\ \A s : Tried(s)' <=> Tried(s)
      /\ LanguageIncluded' <=> LanguageIncluded
      /\ TriedIncluded' <=> TriedIncluded
      /\ \A u, v : Refuting(u, v)' <=> Refuting(u, v)
  BY <1>1, SameAutomata DEF InclusionInv
<1>4. \A x, S : Passes(x, S)' <=> Passes(x, S)
  BY <1>1, SamePassed
<1>5. Stems'
  <2>1. [StemStep]_stemVars
    BY <1>1, <1>2 DEF stemVars, stemTables
  <2>2. StemInv => StemInv'
    BY <2>1, StemNext
  <2>3. Entry' = Entry /\ \A u : Led(u)' = Led(u)
    BY <1>2, SameLed DEF Entry
  <2>4. StemTypeOK' /\ WordsLead'
    BY <1>1, <1>2, <2>3 DEF InclusionInv, Stems, StemTypeOK, WordsLead, PairOf
  <2> QED
    BY <1>1, <2>2, <2>4 DEF InclusionInv, Stems
<1>6. Antichains'
  BY <1>1, <1>3 DEF InclusionInv, Antichains
<1>7. Jobs'
  BY <1>1, <1>3, <1>4 DEF InclusionInv, Jobs
<1>8. Trying'
  <2>1. [LoopStep]_<<loopGraphs, loopTables>>
    BY <1>1, <1>2 DEF loopGraphs, loopTables
  <2>2. LoopInv => LoopInv'
    BY <2>1, LoopNext
  <2>3. LoopInv /\ LoopWords => LoopWords'
    BY <2>1, LoopWordsNext
  <2> QED
    BY <1>1, <2>2, <2>3 DEF InclusionInv, Trying
<1>9. Answers'
  BY <1>1, <1>3 DEF InclusionInv, Answers
<1> QED
  BY <1>3, <1>5, <1>6, <1>7, <1>8, <1>9 DEF InclusionInv

\* The invariant holds throughout.
THEOREM InclusionInvHolds == Spec => []InclusionInv
<1>1. Init => InclusionInv
  BY InclusionStarts
<1>2. InclusionInv /\ [Next \/ Returned]_vars => InclusionInv'
  <2> SUFFICES ASSUME InclusionInv, [Next \/ Returned]_vars
               PROVE  InclusionInv'
    OBVIOUS
  <2>1. CASE Stem
    BY <2>1, StemKeeps
  <2>2. CASE SecondStem
    BY <2>2, SecondStemKeeps
  <2>3. CASE Combine
    BY <2>3, CombineKeeps
  <2>4. CASE \E w \in jobs : NextJob(w)
    BY <2>4, NextJobKeeps
  <2>5. CASE Loop
    BY <2>5, LoopKeeps
  <2>6. CASE Passed
    BY <2>6, PassedKeeps
  <2>7. CASE Refuted
    BY <2>7, RefutedKeeps
  <2>8. CASE Included
    BY <2>8, IncludedKeeps
  <2>9. CASE UNCHANGED vars
    BY <2>9, StutterKeeps
  <2> QED
    BY <2>1, <2>2, <2>3, <2>4, <2>5, <2>6, <2>7, <2>8, <2>9 DEF Next, Returned
<1> QED
  BY <1>1, <1>2, PTL DEF Spec

\* inclusion: the stem and the period it reports are a word with a higher value
\* in A than in B, for all automata and whatever entries were pruned.
THEOREM WitnessCorrect == Spec => []WitnessRefutes
<1>1. InclusionInv => WitnessRefutes
  BY DEF InclusionInv, Answers, WitnessRefutes, Refuting, InA, InB
<1> QED
  BY <1>1, InclusionInvHolds, PTL

\* inclusion: FALSE is never returned of automata for which inclusion holds.
THEOREM NoFalseAlarm == Spec => [](result = FALSE => ~LanguageIncluded)
<1>1. InclusionInv => (result = FALSE => ~LanguageIncluded)
  BY DEF InclusionInv, Answers
<1> QED
  BY <1>1, InclusionInvHolds, PTL

\* inclusion: whatever its answer TRUE covers, no lasso through a final state
\* that the loop over the states goes on with is missing in B.
THEOREM TriedCorrect == Spec => [](result = TRUE => TriedIncluded)
<1>1. InclusionInv => (result = TRUE => TriedIncluded)
  BY DEF InclusionInv, Answers
<1> QED
  BY <1>1, InclusionInvHolds, PTL

\* inclusion: its answer is right, whenever the loop over the states leaves out
\* nothing that matters of the automata given.
THEOREM AnswerCorrect == Spec => [](GivenSkipsNothing => InclusionExact)
<1>1. InclusionInv => (GivenSkipsNothing => InclusionExact)
  <2> SUFFICES ASSUME InclusionInv, GivenSkipsNothing, result # None
               PROVE  result = LanguageIncluded
    BY DEF InclusionExact
  <2>1. result \in BOOLEAN
    BY DEF InclusionInv, Answers
  <2>2. CASE result = FALSE
    <3>1. ~LanguageIncluded
      BY <2>2 DEF InclusionInv, Answers
    <3>2. LanguageIncluded = FALSE
      BY <3>1 DEF LanguageIncluded
    <3> QED
      BY <2>2, <3>2
  <2>3. CASE result = TRUE
    <3>1. TriedIncluded
      BY <2>3 DEF InclusionInv, Answers
    <3>2. Inputs /\ StemTypeOK
      BY DEF InclusionInv, Given, Stems
    <3>3. LanguageIncluded
      BY <3>1, <3>2, NothingMissed
    <3>4. LanguageIncluded = TRUE
      BY <3>3 DEF LanguageIncluded
    <3> QED
      BY <2>3, <3>4
  <2> QED
    BY <2>1, <2>2, <2>3
<1> QED
  BY <1>1, InclusionInvHolds, PTL

\* inclusion: its answer is right, when it leaves out nothing that matters of
\* any of the automata.
THEOREM InclusionCorrect ==
  ASSUME \A GA \in GraphsA, GB \in GraphsB, x \in Settings : NothingSkipped(GA, GB, x)
  PROVE  Spec => []InclusionExact
<1>1. InclusionInv => GivenSkipsNothing
  BY DEF InclusionInv, Given, Inputs, GivenSkipsNothing
<1> QED
  BY <1>1, InclusionInvHolds, AnswerCorrect, PTL

\* The tables of inclusion are what the code takes them for.
THEOREM InclusionTypes == Spec => []TypeOK
<1>1. InclusionInv => TypeOK
  <2> SUFFICES ASSUME InclusionInv
               PROVE  TypeOK
    OBVIOUS
  <2>1. StemTypeOK /\ phase \in {"postIrev", "postI", "loops", "returned"}
    BY DEF InclusionInv, Stems, Answers
  <2>2. \A x \in contexts \cup fresh \cup held : x.state \in StateA /\ x.word \in Seq(Symbol)
    <3>1. CASE job = None
      BY <3>1 DEF InclusionInv, Trying
    <3>2. CASE job # None
      BY <3>2, JobIs DEF LoopInv, LoopTypeOK, LoopEntry
    <3> QED
      BY <3>1, <3>2
  <2>3. phase \in {"postIrev", "postI"} => contexts = {} /\ job = None
    BY DEF InclusionInv, Trying
  <2>4. (result # None) = (phase = "returned")
    BY InclusionAssumption DEF InclusionInv, Answers
  <2>5. (result = FALSE) = (witness # None)
    <3>1. result = FALSE => witness # None
      BY InclusionAssumption DEF InclusionInv, Answers
    <3>2. witness # None => result = FALSE
      BY InclusionAssumption DEF InclusionInv, Answers
    <3> QED
      BY <3>1, <3>2
  <2> QED
    BY <2>1, <2>2, <2>3, <2>4, <2>5 DEF TypeOK
<1> QED
  BY <1>1, InclusionInvHolds, PTL
=============================================================================
