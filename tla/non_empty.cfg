SPECIFICATION Spec
CONSTANTS
  i = i
  g = g
  h = h
  State = {i, g, h}
  initial = i
  None = None
  Symbol = {"a"}
  Weights <- LowHigh
  SILENT = 9
  MinDomain = 1
  MaxDomain = 2
  Calls <- PipelineCalls
  Automata <- UpToFour
  MaxFinal = 2
INVARIANTS AnswerExact TagsRefreshed
SYMMETRY Symmetry
