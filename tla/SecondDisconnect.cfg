CONSTANTS
  Conns = {a, b}
  Messages = {m}
  Capacity = 1
  None = None
SPECIFICATION Spec
PROPERTIES DisconnectIsIdempotent
CHECK_DEADLOCK FALSE
