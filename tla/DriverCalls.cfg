SPECIFICATION Spec
CONSTANTS
  r = r
  w = w
  c = c
  a = a
  b = b
  NoThread = NoThread
  Junk = Junk
  Byte = {a, b}
  Threads = {w, c}
  Ops <- CallOps
  NonblockFiles = {c}
  BadMemory = {w, c}
  Signalled = {}
  Counts = {0, 1, 3}
  Payloads <- PayloadsAB
  Capacities = {0, 1, 2, 3}
  Modes = {0, 1, 2}
  MinCapacity = 1
  MaxCapacity = 2
  MaxGeneration = 2
  CounterModulus <- NoCounters
INVARIANTS
  MutexDiscipline
PROPERTIES
  ImplementsFifo
  RepliesLinearize
