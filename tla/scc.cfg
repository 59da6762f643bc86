SPECIFICATION Spec
CONSTANTS
  a = a
  b = b
  c = c
  State = {a, b, c}
  initial = a
  MaxOut = 3
  None = None
INVARIANTS
  TagsAreComponents
  TagsOrdered
  TagsReachable
  DagIsQuotient
  FinalsExact
PROPERTIES
  ImplementsOrder
  Terminates
