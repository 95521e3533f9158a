SPECIFICATION Spec
CONSTANTS
  k1 = k1
  t1 = t1
  None = None
  Requests = {r1, r2, r3}
  Tenants = {t1, t2}
  FirstKeys = {k1}
  FirstOwner <- MCFirstOwner
  MaxFaults = 0
INVARIANTS
  NeverLockedOut
CHECK_DEADLOCK FALSE
