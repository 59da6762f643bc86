---------------------------- MODULE MCNonEmptiness ----------------------------
EXTENDS NonEmptiness, TLC

\* Averages come from flattenings that keep values, never from a threshold one.
\* Of these, the one for SumMinus does not demand calls.
PipelineCalls ==
  {PipelineCall(v, t, TRUE) : v \in {"Inf", "Sup", "LimInf", "LimSup"}, t \in BOOLEAN}
    \cup {PipelineCall("LimInfAvg", FALSE, c) : c \in BOOLEAN}

SumMinusCalls == {PipelineCall("LimInfAvg", FALSE, FALSE)}

LowHigh == {1, 2}

EdgeOf(s, w, t) == [from |-> s, symbol |-> "a", weight |-> w, to |-> t]

\* Up to three edges, and four of which one leaves each state.
UpToFour ==
  {{x, y, z} : x, y, z \in Edge}
    \cup {{EdgeOf(s, out[s][1], out[s][2]) : s \in State} \cup {x} :
             out \in [State -> (Weights \cup {SILENT}) \X State], x \in Edge}

\* Loops that call at the first and at the last of four states, and silent
\* edges from one to the other by way of the two between, which they may join
\* to a cycle.
Four == 0 .. 3
Between == {EdgeOf(x[1], SILENT, x[2]) : x \in {<<0, 1>>, <<0, 2>>, <<1, 2>>, <<2, 1>>, <<1, 3>>, <<2, 3>>}}
Detours == {S \cup {EdgeOf(0, 1, 0), EdgeOf(3, 1, 3)} : S \in kSubset(4, Between)}

\* Only the initial state plays a part of its own.
Symmetry == Permutations(State \ {initial})
=============================================================================
