CONSTANTS
  XLEN = 8
  RobDepth = 4
  IqDepth = 2
  PhysRegs = 3
  ArchRegs = 3
  FifoDepth = 2
  Empty = Empty
  NoFetch = NoFetch
  NoWord = NoWord
  ISSUE_WIDTH = 1
  OUT_OF_ORDER = FALSE
  BRANCH_AT_RETIRE = FALSE
  ENABLE_TRAPS = FALSE
  Programs <- SinglePrograms
  Timings <- BothTimings
  MaxInterrupts = 0
  MaxResets = 1
SPECIFICATION BenchSpec
INVARIANTS TestPasses

