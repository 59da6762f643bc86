----------------------------- MODULE MCFixpoints -----------------------------
(***************************************************************************)
(* Either kind of fixpoint on its own.  The tables of the other kind are   *)
(* those of a fixpoint that has just been made, and stay so.               *)
(***************************************************************************)
EXTENDS FixpointStem, FixpointLoop, SmallAutomata

VARIABLE kind

\* Each state has an edge for each symbol; one weight will do for stems.
Plain == EdgesOf(Ids, Ids, {1})
CompleteGraphs ==
  {G \in SUBSET Plain :
     /\ Cardinality(G) \in 4..5
     /\ \A s \in Ids, a \in Ids : \E e \in G : e.from = s /\ e.symbol = a}

\* B need not be complete.
AnyGraphs == {G \in SUBSET Plain : Cardinality(G) = 5}

AllA == CompleteGraphs \cup SomeA
AllB == AnyGraphs \cup GuessingB
FromOneOrBoth == {{0}, {0, 1}}

Loop0 == [state |-> 0, set |-> {0}, symbol |-> 0]

LoopReady ==
  /\ contexts = Firsts(from.state, from.set, from.symbol)
  /\ fresh = contexts
  /\ held = {}
  /\ moves = LoopRound(contexts)

StemReady ==
  /\ content = {FirstEntry}
  /\ updates = {FirstEntry}
  /\ buffer = {}
  /\ todo = Round({FirstEntry})

MCInit ==
  \/ /\ kind = "stem"
     /\ edgesA \in CompleteGraphs
     /\ edgesB \in AnyGraphs
     /\ StemInit
     /\ finalB = {}
     /\ from = Loop0
     /\ LoopReady
  \/ /\ kind = "loop"
     /\ edgesA \in SomeA
     /\ edgesB \in GuessingB
     /\ LoopInit
     /\ finalB # {}
     /\ reversed = FALSE
     /\ StemReady

MCNext ==
  \/ kind = "stem" /\ StemStep /\ UNCHANGED <<finalB, loopTables, kind>>
  \/ kind = "loop" /\ LoopStep /\ UNCHANGED <<reversed, stemTables, kind>>

MCSpec ==
  /\ MCInit
  /\ [][MCNext]_<<kind, reversed, stemTables, loopGraphs, loopTables>>
  /\ WF_<<kind, reversed, stemTables, loopGraphs, loopTables>>(MCNext)

\* apply is not called for ever, whichever the fixpoint.
ApplyEnds == <>(IF kind = "stem" THEN StemOver ELSE LoopOver)
=============================================================================
