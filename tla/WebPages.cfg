CONSTANTS
  None = None
  MaxCalls = 3
  FewCalls = 2
  MaxTrouble = 1
  Days = {1, 2}
  MaxSlots = 2
  Sessions = {s1, s2}
  PageSize = 2
  MaxRatings = 3
  Files = {f1, f2}
  MaxEdits = 1
  Filters = {fa, fb}
  MaxPage = 3
  Size = 2
  Others = {u1, u2}
  Names = {n1, n2}
  MaxSaves = 2
  MaxFormEdits = 2
  MaxLoads = 4
SPECIFICATION Spec
INVARIANTS TypeOK BusyHasRequest  SavedIsTrue DoneOnce RefusedOnlyWhenStale
CHECK_DEADLOCK FALSE
