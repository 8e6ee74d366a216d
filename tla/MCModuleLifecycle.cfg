SPECIFICATION LifeSpec
CONSTANTS
  Openers = {f1, f2, f3, f4}
INVARIANTS
  NothingDangles
  NothingLeaks
  FilesFindDevice
