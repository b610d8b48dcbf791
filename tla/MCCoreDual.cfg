CONSTANTS
  XLEN = 16
  RobDepth = 4
  IqDepth = 3
  PhysRegs = 3
  ArchRegs = 3
  FifoDepth = 2
  Empty = Empty
  NoFetch = NoFetch
  NoWord = NoWord
  ISSUE_WIDTH = 2
  OUT_OF_ORDER = FALSE
  BRANCH_AT_RETIRE = FALSE
  ENABLE_TRAPS = FALSE
  Programs <- HazardPrograms
  Timings <- NormalTimings
  MaxInterrupts = 0
  MaxResets = 0
SPECIFICATION LockstepSpec
INVARIANTS TypeOK WindowContiguous BusyExact CoresAgree
PROPERTIES IssueInOrder IsaImplemented
