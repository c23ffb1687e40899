SPECIFICATION Spec
CONSTANTS
  r1 = r1
  r2 = r2
  l1 = l1
  l2 = l2
  l3 = l3
  Requests = {r1, r2}
  Links = {l1, l2, l3}
  EmailOf <- MCEmailOf
  MaxTime = 4
SYMMETRY Symmetry
INVARIANTS
  TypeOK
  ProjectionOfFacts
  OpenedAndRemovedOnce
  AgreesOnceConsumed
PROPERTIES
  SuspensionHolds
