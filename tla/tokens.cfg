SPECIFICATION Spec
CONSTANTS
  p1 = p1
  p2 = p2
  NoCaller = NoCaller
  Callers = {p1, p2}
  MaxConnections = 2
  MaxVersion = 2
  MaxFaults = 2
INVARIANTS
  TypeOK
  RefreshesKeepTheConnection
  ErrorIsEarned
  NotifiedOnce
PROPERTIES
  CallsEnd
  ErrorIsTold
