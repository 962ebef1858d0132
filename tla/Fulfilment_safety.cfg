SPECIFICATION FairSpec
CONSTANTS
  Admins = {a1, a2}
  FirstStatus = "PAID"
  MaxRequests = 3
  MaxFailures = 1
INVARIANTS
  TypeOK
  NoLabelAstray
PROPERTIES
  ProductionForward
  DeliveryReachesOrder
CHECK_DEADLOCK FALSE
