CONSTANTS
  PcModulus = 16
  NoFetch = NoFetch
  Nowhere = Nowhere
  NoWord = 0
  Programs <- MCPrograms
  Timings <- MCTimings
SPECIFICATION Spec
INVARIANTS TypeOK SingleRequest AddressesAgree
PROPERTIES AnswerTaken RequestStable StreamImplemented
