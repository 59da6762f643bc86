SPECIFICATION Spec
CONSTANTS
  State <- Four
  initial = 0
  None = None
  Symbol = {"a"}
  Weights = {1}
  SILENT = 9
  MinDomain = 1
  MaxDomain = 1
  Calls <- SumMinusCalls
  Automata <- Detours
  MaxFinal = 1
INVARIANTS AnswerExactForAll
