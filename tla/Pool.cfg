CONSTANTS
  N = 2
  IntWidth = 4
  MaxReady = 2
  InitJobs = 1
  MaxJobs = 3
  Waits <- NoWaits
  Failing = {1, 2, 3}
SPECIFICATION Spec
INVARIANTS
  TypeOK
  JobsConserved
  CountMatchesQueues
  FinishedMeansDone
  TerminationTestSound
  NoStaleAnswer
PROPERTIES
  ExecuteReturns
  ErrorReported
  WorkPoolSafe
