---------------------------- MODULE MCComputeSCC ----------------------------
EXTENDS ComputeSCC, TLC

\* Only the initial state plays a part of its own.
Symmetry == Permutations(State \ {initial})
=============================================================================
