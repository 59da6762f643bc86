---------------------------- MODULE LimitAverage ----------------------------
(***************************************************************************)
(* Automaton::top_LimAvg, Karp's algorithm run on all components of the    *)
(* automaton at once, and the first half of isLimAvgConstant: potentials   *)
(* of the states against which the edges of best cycles stand out.         *)
(*                                                                         *)
(* Weights are in units small enough for the averages to be integers.      *)
(***************************************************************************)
EXTENDS WeightedGraph

VARIABLES
  distance,   \* the rows of the table: by length, the least weight of a negated walk
  dist,       \* dist of isLimAvgConstant
  round,      \* its rounds, counted from 0
  todo        \* the edges left in the round

avgVars == <<distance>>
distVars == <<dist, round, todo>>

size == Cardinality(State)

-----------------------------------------------------------------------------
(* top_LimAvg *)

\* Above all weights of negated walks.
infinity == Max({1, -(size * domain.min) + 1})

\* The first row: 0 at the origin of each component.
KarpStart ==
  \E origins \in {src \in [Components -> State] : \A C \in Components : src[C] \in C} :
    distance' = <<[s \in State |-> IF \E C \in Components : origins[C] = s THEN 0 ELSE infinity]>>

Longer(row, t) ==
  Min({infinity} \cup {row[e.from] - value[e.id] :
         e \in {d \in edges : d.to = t /\ SameTag(d.from, d.to) /\ row[d.from] # infinity}})

\* One length more.
KarpRow ==
  /\ Len(distance) <= size
  /\ distance' = Append(distance, [t \in State |-> Longer(Last(distance), t)])
  /\ UNCHANGED <<graphVars, values>>

KarpOver == Len(distance) = size + 1

\* Fault: the length of all walks but the first is divided by.
LengthsOneOff == 2 .. size

\* The lengths that are compared with the last.
Lengths == 1 .. size

\* What walks of the full length to s gain for each edge they have more than
\* others.
Gains(s) ==
  LET row == distance[size + 1]
  IN  IF row[s] = infinity THEN {}
      ELSE {(distance[n][s] - row[s]) \div (size + 1 - n) : n \in {m \in Lengths : distance[m][s] # infinity}}

AvgValues ==
  [C \in Components |->
     Max({domain.min} \cup {Min({domain.max} \cup Gains(s)) : s \in {t \in C : Gains(t) # {}}})]

-----------------------------------------------------------------------------
(* isLimAvgConstant up to the automaton Dist *)

RelaxStart ==
  /\ dist' = [s \in State |-> 0]
  /\ round' = 0
  /\ todo' = edges

\* An edge is looked at, reading what others of the round have just written.
Relax(e, top) ==
  /\ e \in todo
  /\ round < size
  /\ dist' = [dist EXCEPT ![e.to] = Min({@, dist[e.from] + top - value[e.id]})]
  /\ IF todo = {e}
     THEN round' = round + 1 /\ todo' = edges
     ELSE round' = round /\ todo' = todo \ {e}
  /\ UNCHANGED <<graphVars, values>>

RelaxOver == round = size

\* Fault: the potentials are not looked at.
TightAlone(top) == {e \in edges : value[e.id] = top}

\* The edges that get weight 1 in Dist, the others getting 0.
Tight(top) == {e \in edges : value[e.id] - dist[e.from] + dist[e.to] = top}
=============================================================================
