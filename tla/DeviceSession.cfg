SPECIFICATION Spec
CONSTANTS
  MinCapacity = 2
  MaxCapacity = 3
  MaxTransfer = 3
  MaxOperations = 3
  Scenarios <- Plans
  Leftovers <- Held
  Faults = {"none", "false-eof", "reverse-read", "resize-loss"}
  MaxErrors = 2
INVARIANTS LawfulNotAccused DescriptorIsOwn ResultIsEarned
