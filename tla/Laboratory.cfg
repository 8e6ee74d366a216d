SPECIFICATION Spec
CONSTANTS
  Absent = Absent
  Torn = Torn
  Edited = Edited
  Unused = Unused
  Leader = leader
  Process = {leader, p1, p2, p3}
  InitialLines = {1, 2}
  LogSize = 2
  MaxLines = 4
  Operations = 4
  Workers = 2
  RunErrors = 3
  Jobs = 3
  MaxEdits = 2
  Size = 2
  Warmup = 2
  Iterations = 3
  Base = 2
  Marker = 1
  Capacity = 8
  MaxLeft = 7
  Durations = {1, 2}
  Repeats = 2
  MaxErrors = 2
INVARIANTS ValidationIsEarned EvidenceIsTrue StudyIsVerified BenchmarkIsHonest
PROPERTIES StepIsContained CommandsEnd
CHECK_DEADLOCK FALSE
