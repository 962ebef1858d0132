\* Two handlers in flight, two partial refunds possible.
SPECIFICATION Spec
CONSTANTS
  Orders = {o1}
  Workers = {w1, w2}
  Total = 2
  Points = 1
  MaxFailures = 0
  Emitted = {"payment_intent.succeeded", "charge.dispute.created", "tracker.delivered"}
SYMMETRY WorkerSymmetry
VIEW SafetyView
INVARIANTS
  TypeOK
  MoneyBackedByStripe
  LedgerMatchesOrder
PROPERTIES
  OnlyOverwritesLeaveTheFlow
  RefundBookKept
CHECK_DEADLOCK FALSE
