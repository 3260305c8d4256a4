CONSTANTS
  Tabs = {t1, t2}
  Accounts = {u, v}
  MaxPairs = 3
  MaxSignIns = 2
  None = None
  Temp = Temp
SPECIFICATION Spec
INVARIANTS TypeOK OneLivePerSignIn LogoutEndsSignIn TokensMatchUsers
SYMMETRY Symmetry
CHECK_DEADLOCK FALSE
