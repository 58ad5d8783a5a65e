SPECIFICATION Spec
CONSTANTS
  Cities <- MCCities
  Adjust <- MCAdjust
INVARIANT ReliefRoadsDecide
