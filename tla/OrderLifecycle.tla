--------------------------- MODULE OrderLifecycle ---------------------------
(***************************************************************************)
(* A placed order, its payment and the loyalty credit it earns, under      *)
(* every writer the API has: the admin's status and refund endpoints, the  *)
(* Stripe webhooks and the carrier (EasyPost) webhook.                     *)
(*                                                                         *)
(* Every handler first READS the order row, outside any transaction, then  *)
(* decides, and WRITES later: unconditionally, by primary key, in one      *)
(* database transaction.  A handler is therefore a job with a snapshot: a  *)
(* *Read action takes the snapshot, the matching *Commit action is the     *)
(* $transaction, and other handlers run in between.                        *)
(*                                                                         *)
(* Stripe is external: it captures a payment, executes refunds (at most    *)
(* the charged amount, replaying a known idempotency key) and delivers     *)
(* events at least once, in any order.                                     *)
(***************************************************************************)
EXTENDS Integers, FiniteSets, OrderStatus

CONSTANTS
  Orders,       \* the orders of one registered customer
  Workers,      \* request handlers that may be in flight at one time
  Total,        \* Order.total, in the unit refunds are requested in
  Points,       \* floor(subtotal): what a DELIVERED order earns; 0 for a guest
  MaxFailures,  \* how many handlers may die half-way (bounds the model)
  Emitted       \* the kinds of event the outside world emits (bounds the model)

ASSUME OrdersAssumption   == IsFiniteSet(Orders)
ASSUME TotalAssumption    == Total \in Nat \ {0}
ASSUME PointsAssumption   == Points \in Nat
ASSUME FailuresAssumption == MaxFailures \in Nat

VARIABLES
  status,         \* Order.status
  refundAmount,   \* Order.refundAmount (null is 0)
  pointsEarned,   \* Order.loyaltyPointsEarned
  newestHistory,  \* the newest OrderStatusHistory row of the order
  payment,        \* Payment.status
  balance,        \* User.loyaltyBalance
  ledger,         \* sum of LoyaltyTransaction.points of the order's rows
  captured,       \* Stripe: the PaymentIntent has succeeded
  refunded,       \* Stripe: charge.amount_refunded
  refundKeys,     \* Stripe: refunds remembered by idempotency key
  events,         \* webhook events emitted so far; any of them may come (again)
  acked,          \* the events a handler has answered with 200
  failedRefund,   \* amount of the admin's refund that Stripe did, the API did not
  failures,       \* handlers that have died so far
  job             \* what each handler is in the middle of

orderVars  == <<status, refundAmount, pointsEarned, newestHistory>>
loyalty    == <<balance, ledger>>
stripeVars == <<captured, refunded, refundKeys>>
vars == <<orderVars, payment, loyalty, stripeVars, events, acked, failedRefund,
          failures, job>>

----------------------------------------------------------------------------
Amounts == 0..Total

EventTypes == {"payment_intent.succeeded", "payment_intent.payment_failed",
               "charge.refunded", "charge.dispute.created", "tracker.delivered"}

ASSUME EmittedAssumption == Emitted \subseteq EventTypes \ {"charge.refunded"}

Event(type, o, amount) == [type |-> type, order |-> o, amount |-> amount]

Events == [type : EventTypes, order : Orders, amount : Amounts]

RefundKeys == [order : Orders, cumulative : Amounts, amount : Amounts]

Idle == [op |-> "idle"]

AdminOps == {"updateStatus", "createRefund", "refundCommit"}

(* seen: Order.status when the handler read the row.                       *)
(* amount: what the admin asked to refund.  cumulative: what the handler   *)
(* will write as Order.refundAmount.  retry: the admin repeats a refund    *)
(* that failed after Stripe had executed it.                               *)
Jobs == [op : AdminOps \cup EventTypes, order : Orders, seen : OrderStatuses,
         to : OrderStatuses, amount : Amounts, cumulative : Amounts,
         retry : BOOLEAN]

TypeOK ==
  /\ status        \in [Orders -> OrderStatuses]
  /\ refundAmount  \in [Orders -> Amounts]
  /\ pointsEarned  \in [Orders -> Nat]
  /\ newestHistory \in [Orders -> [from : OrderStatuses \cup {"none"}, to : OrderStatuses]]
  /\ payment       \in [Orders -> PaymentStatuses]
  /\ balance       \in Int
  /\ ledger        \in [Orders -> Int]
  /\ captured      \in [Orders -> BOOLEAN]
  /\ refunded      \in [Orders -> Amounts]
  /\ refundKeys    \subseteq RefundKeys
  /\ events        \subseteq Events
  /\ acked         \subseteq events
  /\ failedRefund  \in [Orders -> Amounts]
  /\ failures      \in 0..MaxFailures
  /\ job           \in [Workers -> Jobs \cup {Idle}]

(* Orders start as checkout leaves them: PENDING, with a PaymentIntent     *)
(* whose Payment row is PENDING.                                           *)
Init ==
  /\ status        = [o \in Orders |-> "PENDING"]
  /\ refundAmount  = [o \in Orders |-> 0]
  /\ pointsEarned  = [o \in Orders |-> 0]
  /\ newestHistory = [o \in Orders |-> [from |-> "none", to |-> "PENDING"]]
  /\ payment       = [o \in Orders |-> "PENDING"]
  /\ balance       = 0
  /\ ledger        = [o \in Orders |-> 0]
  /\ captured      = [o \in Orders |-> FALSE]
  /\ refunded      = [o \in Orders |-> 0]
  /\ refundKeys    = {}
  /\ events        = {}
  /\ acked         = {}
  /\ failedRefund  = [o \in Orders |-> 0]
  /\ failures      = 0
  /\ job           = [w \in Workers |-> Idle]

----------------------------------------------------------------------------
(* Handlers: beginning and ending.                                         *)

Begin(w, j) ==
  /\ job[w] = Idle
  /\ job' = [job EXCEPT ![w] = j]

End(w) == job' = [job EXCEPT ![w] = Idle]

(* order.update with the new status and the nested statusHistory.create.   *)
WriteStatus(o, from, to) ==
  /\ status' = [status EXCEPT ![o] = to]
  /\ newestHistory' = [newestHistory EXCEPT ![o] = [from |-> from, to |-> to]]

(* user.update {increment} and loyaltyTransaction.create.                  *)
PostPoints(o, points) ==
  /\ balance' = balance + points
  /\ ledger'  = [ledger EXCEPT ![o] = @ + points]

(* Mutant: the "already awarded" early return is forgotten. *)
awardForDelivered_Again(o) ==
  /\ pointsEarned' = [pointsEarned EXCEPT ![o] = Points]
  /\ PostPoints(o, Points)

awardForDelivered(o) ==
  IF pointsEarned[o] > 0
    THEN UNCHANGED <<pointsEarned, loyalty>>
    ELSE /\ pointsEarned' = [pointsEarned EXCEPT ![o] = Points]
         /\ PostPoints(o, Points)

(* Mutant: reverses what the order would have earned, not what it earned. *)
reverseForCancellationOrRefund_Unearned(o) ==
  /\ PostPoints(o, -Points)
  /\ pointsEarned' = [pointsEarned EXCEPT ![o] = @ - Points]

reverseForCancellationOrRefund(o) ==
  /\ PostPoints(o, -pointsEarned[o])
  /\ pointsEarned' = [pointsEarned EXCEPT ![o] = 0]

----------------------------------------------------------------------------
(* OrdersStatusService.updateStatus: the admin's "Change to ..." buttons.  *)

UpdateStatusRead(w, o, to) ==
  /\ isValidOrderStatusTransition(status[o], to)
  /\ Begin(w, [op |-> "updateStatus", order |-> o, seen |-> status[o], to |-> to,
               amount |-> 0, cumulative |-> 0, retry |-> FALSE])
  /\ UNCHANGED <<orderVars, payment, loyalty, stripeVars, events, acked,
                 failedRefund, failures>>

UpdateStatusCommit(w) ==
  LET j == job[w] IN
  /\ j.op = "updateStatus"
  /\ WriteStatus(j.order, j.seen, j.to)
  /\ \/ j.to = "DELIVERED" /\ awardForDelivered(j.order)
     \/ j.to = "CANCELLED" /\ reverseForCancellationOrRefund(j.order)
     \/ j.to \notin {"DELIVERED", "CANCELLED"} /\ UNCHANGED <<pointsEarned, loyalty>>
  /\ End(w)
  /\ UNCHANGED <<refundAmount, payment, stripeVars, events, acked, failedRefund, failures>>

----------------------------------------------------------------------------
(* OrdersRefundsService.refundOrder.                                       *)

(* Mutant: every refund taken for a full one. *)
refundTarget_AlwaysFull(amount) == "REFUNDED"

refundTarget(amount) == IF amount >= Total THEN "REFUNDED" ELSE "PARTIALLY_REFUNDED"

(* What the dialog of the order page sends: something, and no more than    *)
(* the page shows as left, which may be old.                               *)
RefundOrderModal == 1..Total

(* The amount left out in the request is the whole remainder: the largest  *)
(* amount the guard admits.                                                *)
RefundOrderRead(w, o, amount) ==
  /\ payment[o] \in {"SUCCEEDED", "PARTIALLY_REFUNDED"}
  /\ amount > 0
  /\ amount <= Total - refundAmount[o]
  /\ Begin(w, [op |-> "createRefund", order |-> o, seen |-> status[o],
               to |-> refundTarget(refundAmount[o] + amount),
               amount |-> amount, cumulative |-> refundAmount[o] + amount,
               retry |-> failedRefund[o] = amount])
  /\ failedRefund' = [failedRefund EXCEPT ![o] = 0]
  /\ UNCHANGED <<orderVars, payment, loyalty, stripeVars, events, acked, failures>>

(* A key Stripe has seen returns the refund it already made. *)
StripeReplaysRefund(j) ==
  /\ [order |-> j.order, cumulative |-> j.cumulative, amount |-> j.amount] \in refundKeys
  /\ UNCHANGED <<stripeVars, events>>

StripeKeyIsNew(j) ==
  \A k \in refundKeys : k.order = j.order => k.cumulative # j.cumulative

StripeExecutesRefund(o, amount) ==
  /\ captured[o]
  /\ refunded[o] + amount <= Total
  /\ refunded' = [refunded EXCEPT ![o] = @ + amount]
  /\ events' = events \cup {Event("charge.refunded", o, refunded[o] + amount)}

(* stripe.refunds.create answers; the whitelist is consulted only then,    *)
(* with the status read before the call.                                   *)
CreateRefundAnswered(w) ==
  LET j == job[w] IN
  /\ j.op = "createRefund"
  /\ \/ StripeReplaysRefund(j)
     \/ /\ StripeKeyIsNew(j)
        /\ StripeExecutesRefund(j.order, j.amount)
        /\ refundKeys' = refundKeys \cup
             {[order |-> j.order, cumulative |-> j.cumulative, amount |-> j.amount]}
        /\ UNCHANGED captured
  /\ IF isValidOrderStatusTransition(j.seen, j.to)
       THEN job' = [job EXCEPT ![w].op = "refundCommit"]
       ELSE End(w)
  /\ UNCHANGED <<orderVars, payment, loyalty, acked, failedRefund, failures>>

(* Stripe refuses: more than is left on the charge, or a key it knows with *)
(* other parameters.                                                       *)
CreateRefundRefused(w) ==
  LET j == job[w] IN
  /\ j.op = "createRefund"
  /\ \/ StripeKeyIsNew(j) /\ refunded[j.order] + j.amount > Total
     \/ \E k \in refundKeys : /\ k.order = j.order
                              /\ k.cumulative = j.cumulative
                              /\ k.amount # j.amount
  /\ End(w)
  /\ UNCHANGED <<orderVars, payment, loyalty, stripeVars, events, acked,
                 failedRefund, failures>>

(* Mutant: adds to the amount found at commit, not at the read. *)
RecordRefund_Increments(j) ==
  refundAmount' = [refundAmount EXCEPT ![j.order] = @ + j.amount]

RecordRefund(j) ==
  refundAmount' = [refundAmount EXCEPT ![j.order] = j.cumulative]

RefundOrderCommit(w) ==
  LET j == job[w] IN
  /\ j.op = "refundCommit"
  /\ payment' = [payment EXCEPT ![j.order] = j.to]
  /\ WriteStatus(j.order, j.seen, j.to)
  /\ RecordRefund(j)
  /\ reverseForCancellationOrRefund(j.order)
  /\ End(w)
  /\ UNCHANGED <<stripeVars, events, acked, failedRefund, failures>>

----------------------------------------------------------------------------
(* StripeWebhooksService and ShippingService.handleWebhook.                *)

(* What the handler of an event would move the order to. *)
EventTarget ==
  [ type \in EventTypes \ {"charge.refunded"} |->
      IF type = "payment_intent.succeeded" THEN "PAID"
      ELSE IF type = "payment_intent.payment_failed" THEN "CANCELLED"
      ELSE IF type = "charge.dispute.created" THEN "ON_HOLD"
      ELSE "DELIVERED" ]

TargetStatus(e) ==
  IF e.type = "charge.refunded" THEN refundTarget(e.amount) ELSE EventTarget[e.type]

(* The early returns: nothing to do, answered with 200. *)
AlreadyHandled(e) ==
  \/ e.type = "payment_intent.succeeded"      /\ payment[e.order] = "SUCCEEDED"
  \/ e.type = "payment_intent.payment_failed" /\ payment[e.order] = "FAILED"
  \/ e.type = "charge.refunded" /\ payment[e.order] = refundTarget(e.amount)
  \/ /\ e.type \in {"charge.dispute.created", "tracker.delivered"}
     /\ ~isValidOrderStatusTransition(status[e.order], TargetStatus(e))

WebhookSkip(e) ==
  /\ AlreadyHandled(e)
  /\ acked' = acked \cup {e}
  /\ UNCHANGED <<orderVars, payment, loyalty, stripeVars, events, failedRefund,
                 failures, job>>

(* Mutant: the event is answered when it is received. *)
WebhookRead_AnsweredFirst(w, e) ==
  /\ ~AlreadyHandled(e)
  /\ Begin(w, [op |-> e.type, order |-> e.order, seen |-> status[e.order],
               to |-> TargetStatus(e), amount |-> e.amount,
               cumulative |-> e.amount, retry |-> FALSE])
  /\ acked' = acked \cup {e}
  /\ UNCHANGED <<orderVars, payment, loyalty, stripeVars, events, failedRefund, failures>>

WebhookRead(w, e) ==
  /\ ~AlreadyHandled(e)
  /\ Begin(w, [op |-> e.type, order |-> e.order, seen |-> status[e.order],
               to |-> TargetStatus(e), amount |-> e.amount,
               cumulative |-> e.amount, retry |-> FALSE])
  /\ UNCHANGED <<orderVars, payment, loyalty, stripeVars, events, acked,
                 failedRefund, failures>>

WebhookDone(w) ==
  /\ acked' = acked \cup {Event(job[w].op, job[w].order, job[w].amount)}
  /\ End(w)
  /\ UNCHANGED <<pointsEarned, loyalty, stripeVars, events, failedRefund, failures>>

(* The payment row is written in any case, the order row only if the       *)
(* whitelist admits the move from the status read before.                  *)

(* Mutant: the whitelist is not consulted. *)
MoveAllowed_Unchecked(j) == TRUE

MoveAllowed(j) == isValidOrderStatusTransition(j.seen, j.to)

WriteStatusIfAllowed(j) ==
  IF MoveAllowed(j)
    THEN WriteStatus(j.order, j.seen, j.to)
    ELSE UNCHANGED <<status, newestHistory>>

PaymentIntentSucceededCommit(w) ==
  LET j == job[w] IN
  /\ j.op = "payment_intent.succeeded"
  /\ payment' = [payment EXCEPT ![j.order] = "SUCCEEDED"]
  /\ WriteStatusIfAllowed(j)
  /\ WebhookDone(w)
  /\ UNCHANGED refundAmount

PaymentIntentFailedCommit(w) ==
  LET j == job[w] IN
  /\ j.op = "payment_intent.payment_failed"
  /\ payment' = [payment EXCEPT ![j.order] = "FAILED"]
  /\ WriteStatusIfAllowed(j)
  /\ WebhookDone(w)
  /\ UNCHANGED refundAmount

ChargeRefundedCommit(w) ==
  LET j == job[w] IN
  /\ j.op = "charge.refunded"
  /\ payment' = [payment EXCEPT ![j.order] = j.to]
  /\ WriteStatusIfAllowed(j)
  /\ IF MoveAllowed(j) THEN RecordRefund(j) ELSE UNCHANGED refundAmount
  /\ WebhookDone(w)

ChargeDisputeCreatedCommit(w) ==
  /\ job[w].op = "charge.dispute.created"
  /\ WriteStatus(job[w].order, job[w].seen, "ON_HOLD")
  /\ WebhookDone(w)
  /\ UNCHANGED <<payment, refundAmount>>

TrackerDeliveredCommit(w) ==
  /\ job[w].op = "tracker.delivered"
  /\ WriteStatus(job[w].order, job[w].seen, "DELIVERED")
  /\ WebhookDone(w)
  /\ UNCHANGED <<payment, refundAmount>>

----------------------------------------------------------------------------
(* A handler dies before its commit: a crash, or the database is away.     *)
(* Stripe and EasyPost will redeliver; the admin may retry a refund.       *)
HandlerDies(w) ==
  /\ failures < MaxFailures
  /\ job[w] # Idle
  /\ failures' = failures + 1
  /\ failedRefund' = IF job[w].op = "refundCommit"
                       THEN [failedRefund EXCEPT ![job[w].order] = job[w].amount]
                       ELSE failedRefund
  /\ End(w)
  /\ UNCHANGED <<orderVars, payment, loyalty, stripeVars, events, acked>>

----------------------------------------------------------------------------
(* The world outside: the customer, the customer's bank, the carrier, and  *)
(* refunds made in the Stripe Dashboard.                                   *)

Emit(type, o) ==
  /\ type \in Emitted
  /\ Event(type, o, 0) \notin events
  /\ events' = events \cup {Event(type, o, 0)}

outsideUnchanged ==
  UNCHANGED <<orderVars, payment, loyalty, refundKeys, acked, failedRefund, failures, job>>

CustomerPays(o) ==
  /\ ~captured[o]
  /\ captured' = [captured EXCEPT ![o] = TRUE]
  /\ Emit("payment_intent.succeeded", o)
  /\ outsideUnchanged /\ UNCHANGED refunded

CustomerDeclined(o) ==
  /\ ~captured[o]
  /\ Emit("payment_intent.payment_failed", o)
  /\ outsideUnchanged /\ UNCHANGED <<captured, refunded>>

DisputeOpened(o) ==
  /\ captured[o]
  /\ Emit("charge.dispute.created", o)
  /\ outsideUnchanged /\ UNCHANGED <<captured, refunded>>

CarrierDelivers(o) ==
  /\ status[o] \in {"PAID", "PROCESSING", "SHIPPED"}
  /\ Emit("tracker.delivered", o)
  /\ outsideUnchanged /\ UNCHANGED <<captured, refunded>>

DashboardRefund(o, amount) ==
  /\ amount > 0
  /\ StripeExecutesRefund(o, amount)
  /\ outsideUnchanged /\ UNCHANGED captured

----------------------------------------------------------------------------
Handler(w) ==
  \/ UpdateStatusCommit(w)
  \/ CreateRefundAnswered(w)
  \/ CreateRefundRefused(w)
  \/ RefundOrderCommit(w)
  \/ PaymentIntentSucceededCommit(w)
  \/ PaymentIntentFailedCommit(w)
  \/ ChargeRefundedCommit(w)
  \/ ChargeDisputeCreatedCommit(w)
  \/ TrackerDeliveredCommit(w)

Outside(o) ==
  \/ CustomerPays(o)
  \/ CustomerDeclined(o)
  \/ DisputeOpened(o)
  \/ CarrierDelivers(o)
  \/ \E amount \in Amounts : DashboardRefund(o, amount)

Next ==
  \/ \E o \in Orders : Outside(o)
  \/ \E w \in Workers, o \in Orders, to \in OrderStatuses : UpdateStatusRead(w, o, to)
  \/ \E w \in Workers, o \in Orders, amount \in RefundOrderModal :
       RefundOrderRead(w, o, amount)
  \/ \E w \in Workers, e \in events : WebhookRead(w, e)
  \/ \E e \in events : WebhookSkip(e)
  \/ \E w \in Workers : Handler(w)
  \/ \E w \in Workers : HandlerDies(w)

Spec == Init /\ [][Next]_vars

(* Stripe and EasyPost deliver an event until it is answered with 200; a   *)
(* handler that has started finishes unless it dies.  Strong fairness for  *)
(* the delivery: the server takes every request, it has no fixed number of *)
(* handlers, so a delivery is never kept out for good by other work.       *)
Deliver(e) ==
  /\ e \in events \ acked
  /\ WebhookSkip(e) \/ \E w \in Workers : WebhookRead(w, e)

EmittedEvents ==
  {Event(type, o, 0) : type \in Emitted, o \in Orders}
    \cup {Event("charge.refunded", o, amount) : o \in Orders, amount \in 1..Total}

Fairness ==
  /\ \A w \in Workers : WF_vars(Handler(w))
  /\ \A e \in EmittedEvents : SF_vars(Deliver(e))

FairSpec == Spec /\ Fairness

----------------------------------------------------------------------------
(* Properties that hold however the handlers interleave.                   *)

(* The shop never records more money given back than Stripe has given      *)
(* back: whatever refund handlers and charge.refunded events overlap,      *)
(* Order.refundAmount stays at or below charge.amount_refunded.            *)
RefundAmountBackedByStripe ==
  \A o \in Orders : refundAmount[o] <= refunded[o]

(* Payment.status is never ahead of Stripe: SUCCEEDED needs a capture,     *)
(* FAILED a decline, REFUNDED the whole charge given back and              *)
(* PARTIALLY_REFUNDED some of it, whichever handler wrote it last.         *)
PaymentBackedByStripe ==
  \A o \in Orders :
    /\ payment[o] = "SUCCEEDED" => captured[o]
    /\ payment[o] = "FAILED" => Event("payment_intent.payment_failed", o, 0) \in events
    /\ payment[o] = "PARTIALLY_REFUNDED" => refunded[o] > 0
    /\ payment[o] = "REFUNDED" => refunded[o] = Total

(* What the shop says of money is backed by what happened at Stripe. *)
MoneyBackedByStripe == RefundAmountBackedByStripe /\ PaymentBackedByStripe

(* The loyalty rows of an order add up to the credit the order shows, and  *)
(* that is all or nothing: two handlers that both deliver, or one that     *)
(* delivers while another refunds, never credit or debit twice.  So the    *)
(* customer's balance is the sum of the rows, as schema.prisma:127 has it. *)
LedgerMatchesOrder ==
  /\ \A o \in Orders : ledger[o] = pointsEarned[o] /\ pointsEarned[o] \in {0, Points}
  /\ balance = Points * Cardinality({o \in Orders : ledger[o] # 0})

Flow == INSTANCE OrderFlow
          WITH Orders <- Orders, status <- status, newestHistory <- newestHistory

(* A handler writes over a status that it has not seen.  Of the status it  *)
(* has seen, its move is one of the whitelist.                             *)
Overwrites(w) ==
  /\ job[w] # Idle
  /\ job[w].seen # status[job[w].order]
  /\ \E to \in ALLOWED_ORDER_STATUS_TRANSITIONS[job[w].seen] :
       WriteStatus(job[w].order, job[w].seen, to)

(* Nothing but a status read too early takes an order out of its flow:     *)
(* with any handlers overlapping, each step is a step of the flow, or a    *)
(* handler's that would have been one when it read the order.              *)
OnlyOverwritesLeaveTheFlow ==
  [][[Flow!Next]_(Flow!flowVars) \/ \E w \in Workers : Overwrites(w)]_vars

Captured == {o \in Orders : captured[o]}

Declined == {o \in Orders : Event("payment_intent.payment_failed", o, 0) \in events}

Book == INSTANCE RefundBook
          WITH captured <- Captured, declined <- Declined, refunded <- refunded,
               recorded <- refundAmount, payment <- payment

(* However endpoint, events, replays and the Dashboard interleave, what is *)
(* written of the money is a book kept of Stripe's: an amount is recorded  *)
(* with the status that goes with it, and never before Stripe has given it *)
(* back.                                                                   *)
RefundBookKept == Book!Spec

(* Properties that hold while one handler runs at a time (one worker).     *)

(* Every writer of Order.status (admin, refund endpoint, four Stripe       *)
(* events, carrier) keeps to the order flow and leaves a true history row, *)
(* with duplicated and reordered events and with handlers that die.        *)
FlowImplemented == Flow!Spec

(* A late charge.refunded event never takes back what a later one has      *)
(* recorded: Order.refundAmount only grows.                                *)
RefundAmountNeverShrinks ==
  [][\A o \in Orders : refundAmount[o] <= refundAmount'[o]]_vars

(* Properties of the fair system.                                          *)

(* A captured payment moves its order out of PENDING, although the handler *)
(* of the event may die and the event may come after others.               *)
CaptureReachesOrder ==
  \A o \in Orders : captured[o] ~> status[o] # "PENDING"

(* When Stripe has given the whole charge back, the payment is some day    *)
(* recorded REFUNDED, even if the endpoint that asked for it failed and a  *)
(* partial refund was recorded before.  (Not for ever: a later delivery of *)
(* payment_intent.succeeded writes SUCCEEDED over it.)                     *)
FullRefundReachesPayment ==
  \A o \in Orders : <>(refunded[o] = Total) => <>(payment[o] = "REFUNDED")

(* A dispute takes the order out of fulfilment: ON_HOLD, or a status from  *)
(* which nothing is made or shipped any more.                              *)
DisputeStopsFulfilment ==
  \A o \in Orders :
    Event("charge.dispute.created", o, 0) \in events
      ~> status[o] \notin {"PENDING", "PAID", "PROCESSING", "SHIPPED", "DELIVERED"}

(* What Stripe knows reaches the order and the payment, because an event   *)
(* is delivered again until its handler has committed: captures, refunds   *)
(* and disputes alike, in whatever order they come.                        *)
StripeIsHeard ==
  CaptureReachesOrder /\ FullRefundReachesPayment /\ DisputeStopsFulfilment

----------------------------------------------------------------------------
(* What a comment claims and the code does not keep.                       *)

(* orders-refunds.service.ts: "an admin retry after a DB failure" returns  *)
(* "the existing refund, not a new one".                                   *)
RetryReturnsExistingRefund ==
  [][\A w \in Workers :
       (job[w].op = "createRefund" /\ job[w].retry /\ job'[w] # job[w])
         => refunded' = refunded]_vars
=============================================================================
