---------------------------- MODULE MCMembership ----------------------------
EXTENDS Membership

LowHigh == {1, 2}
Letters == {0, 1}

\* Three states and one symbol: one state has a choice, one edge is heavy.
OneSymbol ==
  {G \in SUBSET [from : {"p", "q", "r"}, symbol : {0}, weight : LowHigh, to : {"p", "q", "r"}] :
     /\ Cardinality(G) = 4
     /\ \A s \in StateB : \E e \in G : e.from = s
     /\ Cardinality({e \in G : e.weight = 2}) = 1}

\* Two states and two symbols: again one choice and one heavy edge.
TwoSymbols ==
  {G \in SUBSET [from : {"p", "q"}, symbol : Letters, weight : LowHigh, to : {"p", "q"}] :
     /\ Cardinality(G) = 5
     /\ \A s \in {"p", "q"}, a \in Letters : \E e \in G : e.from = s /\ e.symbol = a
     /\ Cardinality({e \in G : e.weight = 2}) = 1}

OneOrTwoSymbols == OneSymbol \cup TwoSymbols
OneOrTwoStates == {{"p"}, {"p", "q"}}
ShortPeriods == {<<0>>, <<0, 0>>, <<0, 1>>}
=============================================================================
