SPECIFICATION Spec
CONSTANTS
  Tabs = {t1, t2}
  MAX_ADDRESSES = 3
  MaxRequests = 5
  MaxFailures = 1
SYMMETRY TabSymmetry
INVARIANTS
  TypeOK
  AtMostOneDefault
  HasDefault
  LimitHonoured
CHECK_DEADLOCK FALSE
