CONSTANTS
  XLEN = 4
  RobDepth = 2
  IqDepth = 2
  PhysRegs = 2
  ArchRegs = 2
  Empty = Empty
  ISSUE_WIDTH = 1
  OUT_OF_ORDER = FALSE
  BRANCH_AT_RETIRE = FALSE
  ENABLE_TRAPS = FALSE
  Requests <- EveryRequest
  Following <- Corners
SPECIFICATION UnitSpec
INVARIANTS IterationExact
PROPERTIES PortImplemented OperationFinishes
