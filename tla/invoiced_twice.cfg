SPECIFICATION Spec
CONSTANTS
  a = a
  b = b
  accepted = accepted
  retry = retry
  None = None
  Organisations = {a}
  Jobs = {accepted, retry}
  First = accepted
  MaxAttempts = 2
  MaxKeys = 2
  MaxFaults = 0
  MaxVoids = 1
  EditsWait = FALSE
INVARIANTS
  OneLiveInvoice
