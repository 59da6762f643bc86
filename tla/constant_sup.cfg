SPECIFICATION Spec
CONSTANTS
  State <- MCState
  Symbol <- MCSymbol
  initial = "p"
  Weights <- MCWeights
  MinDomain = 0
  MaxDomain = 8
  MaxEdges = 4
  None = None
  Calls <- ConstantSupCalls
  ChoiceCalls = {}
  MaxPeriod = 4
INVARIANTS ConstantIsUniversal
