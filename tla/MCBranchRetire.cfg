CONSTANTS
  XLEN = 16
  RobDepth = 4
  IqDepth = 3
  PhysRegs = 6
  ArchRegs = 3
  FifoDepth = 2
  Empty = Empty
  NoFetch = NoFetch
  NoWord = NoWord
  ISSUE_WIDTH = 2
  OUT_OF_ORDER = TRUE
  BRANCH_AT_RETIRE = TRUE
  ENABLE_TRAPS = FALSE
  Programs <- BranchPrograms
  Timings <- NormalTimings
  MaxInterrupts = 0
  MaxResets = 1
SPECIFICATION FairLockstepSpec
INVARIANTS RegistersConserved MapsReplay CoresAgree
PROPERTIES IsaImplemented Progress
