CONSTANTS
  Names <- MCNames
  Files = {1, 2}
  Cases <- MCCases
SPECIFICATION Spec
INVARIANTS
  AnswersFollowDistinctTexts
  MapCompleteWhenRead
  FreedOnlyWhenShared
