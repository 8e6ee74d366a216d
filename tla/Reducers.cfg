SPECIFICATION AnySpec
CONSTANTS
  Calls <- AllCalls
  Size = 6
  Workers = 2
  ReplayTrials = 2
  MaxBudget = 16
  Unused = Unused
INVARIANTS
  DraddIsLawful
  DraddIsConfirmed
  DraddIsMinimal
  ReductionIsSound
  ReductionIsMinimal
