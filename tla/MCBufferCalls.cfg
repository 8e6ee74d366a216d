SPECIFICATION FairSpec
CONSTANTS
  Byte = {a, b}
  Junk = Junk
  MinCapacity = 1
  MaxCapacity = 3
  MaxTransfer = 3
INVARIANT RingShape
PROPERTIES
  ImplementsFifo
  RepliesMatchContract
  CallsReturn
