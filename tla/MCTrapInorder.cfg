CONSTANTS
  XLEN = 16
  RobDepth = 4
  IqDepth = 2
  PhysRegs = 3
  ArchRegs = 3
  FifoDepth = 2
  Empty = Empty
  NoFetch = NoFetch
  NoWord = NoWord
  ISSUE_WIDTH = 2
  OUT_OF_ORDER = FALSE
  BRANCH_AT_RETIRE = FALSE
  ENABLE_TRAPS = TRUE
  Programs <- TrapPrograms
  Timings <- NormalTimings
  MaxInterrupts = 1
  MaxResets = 0
SPECIFICATION FairLockstepSpec
INVARIANTS SerialAlone CoresAgree
PROPERTIES IsaImplemented Progress
