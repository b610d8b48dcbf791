CONSTANTS
  XLEN = 16
  RobDepth = 2
  IqDepth = 2
  PhysRegs = 2
  ArchRegs = 2
  Empty = Empty
  ISSUE_WIDTH = 1
  OUT_OF_ORDER = FALSE
  BRANCH_AT_RETIRE = FALSE
  ENABLE_TRAPS = TRUE
  Canonical <- Instructions
  MaxFlips = 2
SPECIFICATION WordSpec
INVARIANT DecodersAgree
CHECK_DEADLOCK FALSE
