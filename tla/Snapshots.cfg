SPECIFICATION Spec
CONSTANTS
  ann = ann
  bob = bob
  Tenant = {ann, bob}
  Thread = {w1, w2}
  MaxChanges <- MCChanges
  SharedName = shared
  None = none
  w1 = w1
  w2 = w2
INVARIANTS TenantsApart ShowsFinished
PROPERTIES LockReturns
