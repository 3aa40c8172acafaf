CONSTANTS
  Plain = {"a", "z"}
  InDir = {"d/a"}
  Data = {"x", "y"}
  Size <- MCSize
  Foreign <- MCForeign
  MaxFiles = 3
  MaxCommands = 2
  UINT32_MAX = 3
  UINT16 = 3
SPECIFICATION Spec
INVARIANTS ExtractsInOrder CreatesFromInputs
CHECK_DEADLOCK FALSE
