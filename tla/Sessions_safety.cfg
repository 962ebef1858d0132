SPECIFICATION FairSpec
CONSTANTS
  Devices = {d1, d2}
  MaxRequests = 3
  MaxFailures = 1
INVARIANTS
  TypeOK
  OneSessionPerLogin
  EndedStaysEnded
PROPERTIES
  KeepsTheBook
  RegistrationCompletes
CHECK_DEADLOCK FALSE
