SPECIFICATION Spec
CONSTANTS
  o1 = o1
  o2 = o2
  r1 = r1
  r2 = r2
  d1 = d1
  d2 = d2
  c1 = c1
  c2 = c2
  w1 = w1
  w2 = w2
  Orders = {o1, o2}
  Routes = {r1}
  Dates = {d1, d2}
  Clients = {c1, c2}
  Workers = {w1, w2}
  NoRun = NoRun
  NoDate = NoDate
  NoRoute = NoRoute
  NoOrder = NoOrder
  Requested <- MCRequested
  RouteOf <- MCPartlyRouted
  DropPosition <- MCSecondDrop
  MaxRequests = 2
  MaxAttempts = 2
SYMMETRY PartySymmetry
INVARIANTS
  FreshViewIsCurrent
PROPERTIES
  ReschedulesCloseUp
  ChangesOneAtATime
