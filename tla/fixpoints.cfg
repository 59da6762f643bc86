SPECIFICATION MCSpec
CONSTANTS
  StateA <- Ids
  StateB <- Ids
  Symbol <- Ids
  Weight <- LowHigh
  InitA = 0
  InitB = 0
  GraphsA <- AllA
  GraphsB <- AllB
  StartSets <- FromOneOrBoth
  MaxLength = 4
INVARIANTS
  Antichain
  Pending
  StemExact
  WordsLead
  LoopPending
  LoopExact
PROPERTIES
  ApplyEnds
CHECK_DEADLOCK FALSE
