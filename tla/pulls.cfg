SPECIFICATION Spec
CONSTANTS
  a = a
  b = b
  j1 = j1
  j2 = j2
  Records = {a}
  Jobs = {j1, j2}
  Interval = 2
  MaxAttempts = 2
  MaxChanges = 2
  MaxFaults = 1
INVARIANTS
  TypeOK
  CursorPromise
  FullPullIsTheCache
PROPERTIES
  RunsEnd
  Converges
