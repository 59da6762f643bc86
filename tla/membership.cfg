SPECIFICATION Spec
CONSTANTS
  StateB = {"p", "q", "r"}
  Symbol <- Letters
  Weight <- LowHigh
  Graphs <- OneOrTwoSymbols
  Starts <- OneOrTwoStates
  Periods <- ShortPeriods
  None = None
INVARIANTS
  MembershipExact
PROPERTIES
  Terminates
CHECK_DEADLOCK FALSE
