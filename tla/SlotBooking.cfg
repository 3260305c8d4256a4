CONSTANTS
  Slots = {s1}
  Students = {web, app}
  Mobile = {app}
  SessionIds = {i1, i2}
  None = None
  MaxFaults = 1
SPECIFICATION Spec
INVARIANTS TypeOK OneSessionPerSlot WebFreesOnlyAfterCancel CancelExposesOnlyLaterBooking
PROPERTIES CancelRemovesOwn RatingNeedsPayment ImplementsLedger
CHECK_DEADLOCK FALSE
