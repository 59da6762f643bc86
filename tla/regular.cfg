SPECIFICATION Spec
CONSTANTS
  p = p
  q = q
  c = c
  d = d
  a = a
  b = b
  ParentState = {p, q}
  InitialParent = p
  ChildState = {c, d}
  InitialChild = c
  Child = {1, 2}
  SilentWeight = 9
  Symbol = {a, b}
  Weights <- SomeWeights
  Nested <- SomeNested
  FinVals = {"Max", "Min", "SumB"}
  Bounds = {0, 1}
  Infinity = 9
  Lengths = {7}
INVARIANTS PendingCallKept RefusedExactly ReturnsExact
PROPERTIES CallsReturn AcceptedRunsCall FairRunsAccepted
CHECK_DEADLOCK FALSE
