CONSTANTS
  N = 3
  IntWidth = 4
  MaxReady = 1
  InitJobs = 4
  MaxJobs = 4
  Waits <- WaitsForPrevious
  Failing = {}
SPECIFICATION Spec
INVARIANTS
  FirstComeFirstServed
  NoSleeperWithJobs
  NoCandidateForSleepers
