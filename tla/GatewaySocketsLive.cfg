CONSTANTS
  Conns = {a, b}
  Messages = {m, n}
  Capacity = 1
  None = None
SPECIFICATION FairSpec
INVARIANTS TypeOK DeliveredOnce
PROPERTIES QueuedArrivesOrConnectionEnds NoGoroutineLeak
CHECK_DEADLOCK FALSE
