\* One handler at a time; it may die once.
SPECIFICATION Spec
CONSTANTS
  Orders = {o1}
  Workers = {w1}
  Total = 2
  Points = 1
  MaxFailures = 1
  Emitted = {"payment_intent.succeeded", "payment_intent.payment_failed",
             "charge.dispute.created", "tracker.delivered"}
PROPERTY RetryReturnsExistingRefund
CHECK_DEADLOCK FALSE
