\* One handler at a time; it may die once; fair delivery.
SPECIFICATION FairSpec
CONSTANTS
  Orders = {o1}
  Workers = {w1}
  Total = 2
  Points = 1
  MaxFailures = 1
  Emitted = {"payment_intent.succeeded", "payment_intent.payment_failed",
             "charge.dispute.created"}
PROPERTIES
  FlowImplemented
  RefundAmountNeverShrinks
  StripeIsHeard
CHECK_DEADLOCK FALSE
