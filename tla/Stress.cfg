SPECIFICATION Spec
CONSTANTS
  w1 = w1
  w2 = w2
  r1 = r1
  r2 = r2
  NoThread = NoThread
  Writers = {w1, w2}
  Readers = {r1, r2}
  Magic = 2
  Header = 3
  FrameSize = 4
  DeviceCapacity = 3
  ReadChunk = 3
  IdleLimit = 2
  Tests <- AllTests
INVARIANTS
  HealthyPasses
  NoReaderGivesUp
  PassMeansDelivered
PROPERTIES
  TestEnds
