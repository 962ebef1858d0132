\* Two pages of one browser.
SPECIFICATION Spec
CONSTANT Pages = {p1, p2}
SYMMETRY PageSymmetry
INVARIANTS
  TypeOK
  TrackersNeedConsent
  OptOutHolds
CHECK_DEADLOCK FALSE
