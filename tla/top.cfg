SPECIFICATION Spec
CONSTANTS
  State <- MCState
  Symbol <- MCSymbol
  initial = "p"
  Weights <- MCWeights
  MinDomain = 0
  MaxDomain = 8
  MaxEdges = 5
  None = None
  Calls <- TopCalls
  ChoiceCalls <- TopChoiceCalls
  MaxPeriod = 4
INVARIANTS TopExact BottomExact WeightsRestored ConstantIsUniversal
PROPERTIES Terminates
