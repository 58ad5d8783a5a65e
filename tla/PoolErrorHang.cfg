CONSTANTS
  N = 2
  IntWidth = 4
  MaxReady = 2
  InitJobs = 2
  MaxJobs = 2
  Waits <- WaitsForPrevious
  Failing = {1}
SPECIFICATION Spec
PROPERTY ExecuteReturns
CHECK_DEADLOCK FALSE
