CONSTANTS
  Paths <- AllPaths
  Configs <- Files
  Arguments <- AllArguments
SPECIFICATION Spec
INVARIANTS
  LookupsMatchArguments
  WritersKeepToThemselves
  SavedWhenComplete
