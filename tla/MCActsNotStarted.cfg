SPECIFICATION ActsSpec
CONSTANTS
  MaxNavigations = 2
  MaxUpsets = 1
  MaxRequests = 2
INVARIANT NotStartedMeansUntouched
CHECK_DEADLOCK FALSE
