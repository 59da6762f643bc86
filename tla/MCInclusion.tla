---------------------------- MODULE MCInclusion ----------------------------
EXTENDS Inclusion, SmallAutomata

Finals == {{0}, {1}, {0, 1}}

\* The loop over the states of A leaves out nothing that matters.
Safe ==
  {x \in [finalA : Finals, finalB : Finals, minDomain : {0, 1}] :
     \A GA \in GraphsA, GB \in GraphsB : NothingSkipped(GA, GB, x)}

\* Some state of A is not final, every state of B is.
Partial == [finalA : {{0}, {1}}, finalB : {Ids}, minDomain : {1}]
=============================================================================
