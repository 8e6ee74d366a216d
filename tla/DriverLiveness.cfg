SPECIFICATION FairSpec
CONSTANTS
  r = r
  w = w
  c = c
  a = a
  b = b
  NoThread = NoThread
  Junk = Junk
  Byte = {a}
  Threads = {r, w, c}
  Ops <- ServiceOps
  NonblockFiles = {}
  BadMemory = {}
  Signalled = {}
  Counts = {1}
  Payloads <- PayloadA
  Capacities = {2}
  Modes = {0, 1}
  MinCapacity = 1
  MaxCapacity = 2
  MaxGeneration = 1
  CounterModulus <- NoCounters
PROPERTIES
  ModeChangeReleases
  ReaderServed
  WriterServed
