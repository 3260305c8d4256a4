SPECIFICATION LoadSpec
CONSTANTS
  MaxCalls = 4
  MaxTrouble = 0
  None = None
  PageSize = 2
  MaxRatings = 2
PROPERTY CompleteStays
CHECK_DEADLOCK FALSE
