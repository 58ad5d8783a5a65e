CONSTANTS
  Modes = {"own", "shared", "serial", "serialNew"}
  Files = {1, 2}
  Programs <- MCPrograms
  Rows <- MCRows
SPECIFICATION Spec
INVARIANTS
  MisreadsComeFromOthers
  ColumnsForAssignments
  RowsHoldAssignments
  FaultsOnlyInSerialNew
