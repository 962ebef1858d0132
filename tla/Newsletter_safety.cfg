SPECIFICATION Spec
CONSTANTS
  MaxRows = 3
  MaxRequests = 4
  MaxFailures = 1
INVARIANTS
  KlaviyoMirrorsConsent
  UnsubscribedStays
CHECK_DEADLOCK FALSE
