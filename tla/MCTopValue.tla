----------------------------- MODULE MCTopValue -----------------------------
EXTENDS TopValue

MCState == {"p", "q"}
MCSymbol == {"a", "b"}
MCWeights == <<2, 6>>

TopCalls ==
  ({"getTopValue"} \X ValueFunctions)
  \cup ({"getBottomValue", "isConstant"} \X ({"Inf", "LimInf"} \cup Averages))

\* isConstant asks for the top first.
TopChoiceCalls == ({"isConstant"} \X ValueFunctions) \cup ({"getBottomValue"} \X Extrema)

\* The calls that end in top_safety_scc on negated weights.
ConstantSupCalls == {"isConstant"} \X {"Sup", "LimSup"}
=============================================================================
