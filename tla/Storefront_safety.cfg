SPECIFICATION Spec
CONSTANTS
  Products = {p1, p2}
  None = None
  MaxRequests = 4
  MaxFailures = 1
SYMMETRY ProductSymmetry
INVARIANTS
  TypeOK
  OrdersKeepTheirProducts
  OneMailPerReturn
  CheckoutSellsTheChosen
  HeartsAreSaved
CHECK_DEADLOCK FALSE
