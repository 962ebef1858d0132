SPECIFICATION Spec
CONSTANTS
  Products = {p1, p2}
  Categories = {k1, k2}
  Codes = {d1}
  Ordered = {p1}
  Files = {f1, f2}
  MAX_IMAGES_PER_PRODUCT = 1
  None = None
  MaxRequests = 2
  MaxFailures = 1
SYMMETRY FileSymmetry
INVARIANTS
  TypeOK
  ListsCatchUp
  ChoiceStaysShown
CHECK_DEADLOCK FALSE
