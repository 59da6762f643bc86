SPECIFICATION Spec
CONSTANTS
  p = p
  q = q
  c = c
  d = d
  a = a
  b = b
  ParentState = {p, q}
  InitialParent = p
  ChildState = {c, d}
  InitialChild = c
  Child = {1, 2}
  SilentWeight = 9
  Symbol = {a, b}
  Weights = {0, 1, 2}
  Nested <- SomeNested
  FinVals = {"Max", "Min", "SumPlus", "SumMinus"}
  InfVals = {"Inf", "Sup"}
  Thresholds <- SomeThresholds
  Infinity = 99
  MaxSum = 5
  Lengths = {8}
INVARIANTS PendingBestKept RefusedExactly OneWitness
PROPERTIES CallsReturn AcceptedRunsCall FairRunsAccepted
CHECK_DEADLOCK FALSE
