SPECIFICATION Spec
CONSTANTS
  w1 = w1 w2 = w2 w3 = w3 t1 = t1 t2 = t2
  Writers = {w1, w2}
  Tenants = {t1, t2}
  NONE = NONE
  RlsModes = {TRUE}
  MaxId = 4
INVARIANT TenantIsVerified
