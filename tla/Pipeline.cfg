CONSTANTS
  N = 2
  RunParallel = TRUE
  CopySrc <- TwoCopySrc
  New <- TwoNew
  Size <- TwoSize
  Lines <- TwoLines
  Src <- TwoSrc
  Target <- TwoTarget
  FileOf <- TwoFileOf
  OutputPath <- TwoPath
  ItemOf <- TwoItemOf
  TypeOf <- TwoTypeOf
  StaticOf <- TwoStaticOf
  Plugin <- TwoPlugin
  LinesPerJob = 2
  ItemsPerJob = 2
  MaxReady = 32
SPECIFICATION Spec
INVARIANTS
  CacheHasReleaser
  NoBuilderBehind
  LinesBeforeItems
  GroupsComplete
  NothingForgotten
  LateUsesAreKnown
PROPERTY EndsUnlessHeldUp
CHECK_DEADLOCK FALSE
