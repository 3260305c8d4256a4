CONSTANTS
  Conns = {a, b, c}
  Messages = {m}
  Capacity = 1
  None = None
SPECIFICATION Spec
INVARIANTS RepositoryChannelOpen SecondWriterHasCause QuietMeansClean
SYMMETRY Symmetry
CHECK_DEADLOCK FALSE
