SPECIFICATION Spec
CONSTANTS
  p = p
  q = q
  c = c
  d = d
  a = a
  b = b
  ParentState = {p, q}
  InitialParent = p
  ChildState = {c, d}
  InitialChild = c
  Child = {1, 2}
  SilentWeight = 9
  Symbol = {a, b}
  Weights <- SomeWeights
  Nested <- SomeNested
  Sink = Sink
  MaxLength = 4
  CBound = 3
  AccBound = 6
INVARIANTS EmittedExact RefusedExactly ReturnsKept
CHECK_DEADLOCK FALSE
