SPECIFICATION Spec
CONSTANTS
  StateA <- Ids
  StateB <- Ids
  Symbol <- Ids
  Weight <- LowHigh
  InitA = 0
  InitB = 0
  GraphsA <- SomeA
  GraphsB <- GuessingB
  Settings <- Safe
  None = None
  StartSets = {}
  MaxLength = 1
INVARIANTS
  InclusionExact
  WitnessRefutes
