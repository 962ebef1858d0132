SPECIFICATION Spec
CONSTANTS
  Users = {u1, u2}
  MaxRequests = 5
  MaxFailures = 1
SYMMETRY UserSymmetry
INVARIANTS
  RatingMatchesReviews
CHECK_DEADLOCK FALSE
