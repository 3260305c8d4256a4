INIT Init
NEXT Next
CONSTANTS
  MaxCalls = 2
  MaxTrouble = 0
  None = None
  Names = {n1, n2}
  MaxSaves = 2
  MaxEdits = 2
INVARIANT RoleIsRemoved
CHECK_DEADLOCK FALSE
