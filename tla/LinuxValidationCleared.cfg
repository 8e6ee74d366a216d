SPECIFICATION Spec
CONSTANTS
  Absent = Absent
  Torn = Torn
  InitialLines = {0}
  LogSize = 1
  MaxLines = 2
  MaxErrors = 0
INVARIANT RolledOverDoesNotPass
CHECK_DEADLOCK FALSE
