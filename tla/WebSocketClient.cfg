CONSTANTS
  Accounts = {u, v}
  Sockets = {1, 2, 3}
  MaxTimers = 3
  MaxReconnectAttempts = 2
  None = None
SPECIFICATION FairSpec
INVARIANTS TypeOK OnlyCurrentIsHeard NothingLeftOpen OneReconnect ConnectionIsTrue
PROPERTY KeepsTrying
CHECK_DEADLOCK FALSE
