CONSTANTS
  N = 2
  RunParallel = FALSE
  CopySrc <- SerialCopySrc
  New <- SerialNew
  Size <- SerialSize
  Lines <- SerialLines
  Src <- SerialSrc
  Target <- SerialTarget
  FileOf <- SerialFileOf
  OutputPath <- SerialPath
  ItemOf <- NoGroups
  TypeOf <- NoGroups
  StaticOf <- NoGroups
  Plugin <- NoGroups
  LinesPerJob = 2
  ItemsPerJob = 2
  MaxReady = 32
SPECIFICATION Spec
INVARIANT NothingForgotten
CHECK_DEADLOCK FALSE
