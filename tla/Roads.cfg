SPECIFICATION Spec
CONSTANTS
  Cities <- MCCities
  Adjust <- MCAdjust
INVARIANTS
  JunctionsStayFast
  Settled
  BuiltUpSpreads
PROPERTIES
  NeighboursKept
  StepsAdvance
