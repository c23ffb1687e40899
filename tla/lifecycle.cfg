SPECIFICATION Spec
CONSTANTS
  Admins = {a1}
  Drivers = {d1, d2}
  Syncs = {s1, s2}
  InvoiceFacts <- MCInvoiceFacts
  MaxChanges = 3
  MaxFaults = 1
  NoOne = NoOne
INVARIANTS
  TypeOK
  CompletionAgrees
  RecordedAsTold
PROPERTIES
  OneAtATime
  PaidDeliveryCompletes
