SPECIFICATION Spec
CONSTANTS
  r = r
  w = w
  c = c
  a = a
  b = b
  NoThread = NoThread
  Junk = Junk
  Byte = {a}
  Threads = {r, w, c}
  Ops <- ContentionOps
  NonblockFiles = {}
  BadMemory = {r, w}
  Signalled = {r}
  Counts = {1, 2}
  Payloads <- PayloadAA
  Capacities = {}
  Modes = {}
  MinCapacity = 2
  MaxCapacity = 2
  MaxGeneration = 0
  CounterModulus <- ByteCounters
INVARIANTS
  NoFalseEof
  BytesAccountedFor
