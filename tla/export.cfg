SPECIFICATION Spec
CONSTANTS
  a = a
  b = b
  accepted = accepted
  retry = retry
  None = None
  Organisations = {a, b}
  Jobs = {accepted, retry}
  First = accepted
  MaxAttempts = 2
  MaxKeys = 2
  MaxFaults = 1
  MaxVoids = 1
  EditsWait = TRUE
SYMMETRY Symmetry
INVARIANTS
  TypeOK
  OneLiveInvoice
PROPERTIES
  InvoicedAsPromised
  AttemptsEndOpenly
