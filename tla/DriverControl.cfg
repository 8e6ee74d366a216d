SPECIFICATION Spec
CONSTANTS
  r = r
  w = w
  c = c
  a = a
  b = b
  NoThread = NoThread
  Junk = Junk
  Byte = {a}
  Threads = {r, w, c}
  Ops <- ControlOps
  NonblockFiles = {}
  BadMemory = {}
  Signalled = {}
  Counts = {1, 2}
  Payloads <- PayloadAA
  Capacities = {1, 2}
  Modes = {0, 1}
  MinCapacity = 1
  MaxCapacity = 2
  MaxGeneration = 2
  CounterModulus <- NoCounters
INVARIANTS
  NoLostWakeup
  UnloadFindsNoCall
