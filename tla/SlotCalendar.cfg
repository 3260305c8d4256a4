CONSTANTS
  Mentors = {m, n}
  SlotIds = {x, y}
  Ranges <- ThreeRanges
  Horizon = 2
  Absent = Absent
SPECIFICATION FairSpec
INVARIANTS TypeOK OverlapOnlyFromRace
PROPERTY CleanupUnlessRace
CHECK_DEADLOCK FALSE
