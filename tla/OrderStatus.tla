---------------------------- MODULE OrderStatus ----------------------------
(***************************************************************************)
(* The two status enumerations of the shop and the whitelist of order      *)
(* status changes that every writer of Order.status consults.              *)
(***************************************************************************)

OrderStatuses ==
  {"PENDING", "PAID", "PROCESSING", "SHIPPED", "DELIVERED", "CANCELLED",
   "PARTIALLY_REFUNDED", "REFUNDED", "ON_HOLD"}

PaymentStatuses ==
  {"PENDING", "SUCCEEDED", "FAILED", "PARTIALLY_REFUNDED", "REFUNDED"}

ALLOWED_ORDER_STATUS_TRANSITIONS ==
  [ PENDING    |-> {"PAID", "CANCELLED", "ON_HOLD"},
    PAID       |-> {"PROCESSING", "CANCELLED", "PARTIALLY_REFUNDED", "ON_HOLD"},
    PROCESSING |-> {"SHIPPED", "CANCELLED", "PARTIALLY_REFUNDED", "ON_HOLD"},
    SHIPPED    |-> {"DELIVERED", "PARTIALLY_REFUNDED", "ON_HOLD"},
    DELIVERED  |-> {"REFUNDED", "PARTIALLY_REFUNDED", "ON_HOLD"},
    CANCELLED  |-> {"REFUNDED", "PARTIALLY_REFUNDED"},
    PARTIALLY_REFUNDED |-> {"REFUNDED"},
    REFUNDED   |-> {},
    ON_HOLD    |-> {"REFUNDED", "PARTIALLY_REFUNDED", "CANCELLED"} ]

isValidOrderStatusTransition(fromStatus, toStatus) ==
  toStatus \in ALLOWED_ORDER_STATUS_TRANSITIONS[fromStatus]
============================================================================
