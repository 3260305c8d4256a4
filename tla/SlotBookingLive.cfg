CONSTANTS
  Slots = {s1}
  Students = {web, app}
  Mobile = {app}
  SessionIds = {i1}
  None = None
  MaxFaults = 1
SPECIFICATION FairSpec
PROPERTIES BookingEnds
CHECK_DEADLOCK FALSE
