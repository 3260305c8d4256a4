CONSTANTS
  a = a
  b = b
  Peers = {a, b}
  Typed = {b}
  New = {3}
  chatOfOld <- ChatsOfOld
  PageSize = 1
  Calls = {k1, k2}
  None = None
SPECIFICATION Spec
INVARIANTS TypeOK WindowIsTrue MarksNameTheirChat SpinnerHasRequest ListedOnceUnderItsUser
SYMMETRY Symmetry
CHECK_DEADLOCK FALSE
