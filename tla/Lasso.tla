------------------------------- MODULE Lasso -------------------------------
(***************************************************************************)
(* What it means that an automaton accepts the word u v v v ... with a     *)
(* value of at least a threshold, when values are largest weights seen     *)
(* again and again: a definition by relations between states, which knows  *)
(* nothing of searches and marks.                                          *)
(*                                                                         *)
(* A profile holds <<from, to, largest weight, by a final state>> for the  *)
(* paths of one word.                                                      *)
(***************************************************************************)
EXTENDS Integers, Sequences, FiniteSets

LetterProfile(edges, final, a) ==
  {<<e.from, e.to, e.weight, e.from \in final \/ e.to \in final>> :
     e \in {d \in edges : d.symbol = a}}

Join(x, y) == <<x[1], y[2], IF x[3] < y[3] THEN y[3] ELSE x[3], x[4] \/ y[4]>>

Compose(P, Q) == UNION {{Join(x, y) : y \in {z \in Q : z[1] = x[2]}} : x \in P}

WordProfile(edges, final, v) ==
  LET upto[k \in 0..(Len(v) - 1)] ==
        IF k = 0 THEN LetterProfile(edges, final, v[1])
        ELSE Compose(upto[k - 1], LetterProfile(edges, final, v[k + 1]))
  IN upto[Len(v) - 1]

\* What there can be in a profile of any number of repetitions.
Combinations(P) ==
  {x[1] : x \in P} \X {x[2] : x \in P} \X {x[3] : x \in P} \X BOOLEAN

\* Any number of repetitions, at least one: until nothing is added.
Repeated(P) ==
  LET more[Q \in SUBSET Combinations(P)] ==
        LET next == Q \cup Compose(Q, P)
        IN IF next = Q THEN Q ELSE more[next]
  IN more[P]

\* From a state of U the word of profile P can be repeated for ever, seeing a
\* final state and a weight of at least the threshold again and again.
Accepts(P, U, threshold) ==
  LET paths == Repeated(P)
      reached == U \cup {x[2] : x \in {y \in paths : y[1] \in U}}
  IN \E x \in paths : x[1] = x[2] /\ x[1] \in reached /\ x[3] >= threshold /\ x[4]
=============================================================================
