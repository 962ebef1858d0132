\* Two orders placed and paid at the same time, two requests for a PaymentIntent.
SPECIFICATION Spec
CONSTANTS
  Orders = {o1, o2}
  Calls = {c1, c2}
  StartBalance = 1
  Subtotal = 2
  Shipping = 1
  DiscountValue = 2
  Limits = {0, 1}
  MaxIntents = 2
SYMMETRY CheckoutSymmetry
INVARIANTS
  TypeOK
  UsageMatchesOrders
  LimitHonoured
  BalanceMatchesOrders
  EveryChargeHasItsPayment
CHECK_DEADLOCK FALSE
