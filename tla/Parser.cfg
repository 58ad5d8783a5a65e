CONSTANTS
  Atoms <- MCAtoms
  Words <- Formulas
  MaxLength = 9
SPECIFICATION Spec
INVARIANTS
  ParsedAsWritten
  MalformedFails
  FormulasAccepted
