SPECIFICATION Spec
CONSTANTS
  MinCapacity = 2
  MaxCapacity = 3
  MaxTransfer = 2
  MaxOperations = 4
  MaxHistory = 4
  Workers = 2
  Cases <- AllCases
  MaxClock = 3
  MaxErrors = 1
INVARIANTS
  VerdictIsCorrect
  LawfulPasses
  CaptureIsWhole
  CounterexampleReduces
  NobodyWaitsForEver
