SPECIFICATION Spec
CONSTANTS
  Sidecars = {"kicad", "freecad"}
  Documents = {d1}
  IdeBatches <- MCBatches
  MaxLines = 3
  PipeLines = 2
  SuiteSize = 2
INVARIANTS
  RepliesInOrder
  AppliedIsTraced
  NoFalseAlarm
PROPERTIES
  SuitesConclude
CHECK_DEADLOCK FALSE
