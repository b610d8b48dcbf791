CONSTANTS
  PcModulus = 16
  NoFetch = NoFetch
  Nowhere = Nowhere
  NoWord = 0
  Programs <- MCPrograms
  Timings <- MCTimings
SPECIFICATION LiveSpec
PROPERTIES RedirectDrains StoppedBecomesIdle PathProgresses
