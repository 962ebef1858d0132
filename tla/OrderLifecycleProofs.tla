------------------------ MODULE OrderLifecycleProofs ------------------------
(***************************************************************************)
(* Theorems about OrderLifecycle for any orders, handlers, order total,    *)
(* points and number of failures: types, the ledgers of money and points,  *)
(* that it implements RefundBook, and that nothing but a status read too   *)
(* early keeps it from implementing OrderFlow.                             *)
(***************************************************************************)
EXTENDS OrderLifecycle, FiniteSetTheorems, TLAPS

(* What a handler in flight carries fits what it is about to do: a handler *)
(* of an event has an event that was emitted, and a refund's target status *)
(* follows from its cumulative amount.                                     *)
JobShape ==
  \A w \in Workers :
    /\ job[w].op \in EventTypes =>
         /\ Event(job[w].op, job[w].order, job[w].amount) \in events
         /\ job[w].cumulative = job[w].amount
    /\ job[w].op \in {"createRefund", "refundCommit", "charge.refunded"} =>
         job[w].to = refundTarget(job[w].cumulative)

TypeInv == TypeOK /\ JobShape

USE OrdersAssumption, TotalAssumption, PointsAssumption, FailuresAssumption, EmittedAssumption

(* The whitelist only leads from a status to statuses. *)
LEMMA WhitelistTyped ==
  ASSUME NEW from \in OrderStatuses, NEW to, isValidOrderStatusTransition(from, to)
  PROVE  to \in OrderStatuses
BY DEF OrderStatuses, isValidOrderStatusTransition, ALLOWED_ORDER_STATUS_TRANSITIONS

LEMMA RefundTargetTyped ==
  \A n \in Nat : /\ refundTarget(n) \in {"REFUNDED", "PARTIALLY_REFUNDED"}
                 /\ refundTarget(n) \in OrderStatuses
                 /\ refundTarget(n) \in PaymentStatuses
                 /\ refundTarget(n) = "REFUNDED" <=> n >= Total
BY DEF refundTarget, OrderStatuses, PaymentStatuses

LEMMA TargetTyped ==
  ASSUME NEW e \in Events
  PROVE  /\ TargetStatus(e) \in OrderStatuses
         /\ e.type = "charge.refunded" => TargetStatus(e) = refundTarget(e.amount)
BY RefundTargetTyped DEF TargetStatus, EventTarget, Events, EventTypes, OrderStatuses, Amounts

(* Beginning or ending a handler keeps the jobs well typed. *)
LEMMA BeginTyped ==
  ASSUME NEW w \in Workers, NEW j \in Jobs,
         job \in [Workers -> Jobs \cup {Idle}], Begin(w, j)
  PROVE  job' \in [Workers -> Jobs \cup {Idle}]
BY DEF Begin

LEMMA EndTyped ==
  ASSUME NEW w \in Workers, job \in [Workers -> Jobs \cup {Idle}], End(w)
  PROVE  job' \in [Workers -> Jobs \cup {Idle}]
BY DEF End

LEMMA JobTyped ==
  ASSUME TypeOK, NEW w \in Workers, job[w].op # "idle"
  PROVE  /\ job[w] \in Jobs
         /\ job[w].order \in Orders /\ job[w].seen \in OrderStatuses
         /\ job[w].to \in OrderStatuses /\ job[w].amount \in 0..Total
         /\ job[w].cumulative \in 0..Total
<1>1. job[w] # Idle
  BY DEF Idle
<1>2. job[w] \in Jobs
  BY <1>1 DEF TypeOK
<1>. QED
  BY <1>2 DEF Jobs, Amounts

----------------------------------------------------------------------------
(* Type correctness.  Every action is a step of its own.                   *)

LEMMA TypeInit == Init => TypeInv
BY DEF Init, TypeInv, TypeOK, JobShape, OrderStatuses, PaymentStatuses, Amounts,
       Idle, EventTypes

LEMMA TypeNext == TypeInv /\ [Next]_vars => TypeInv'
<1> SUFFICES ASSUME TypeOK, JobShape, [Next]_vars
             PROVE  TypeOK' /\ JobShape'
  BY DEF TypeInv
<1> USE DEF orderVars, loyalty, stripeVars
<1>1. ASSUME NEW w \in Workers, NEW o \in Orders, NEW to \in OrderStatuses,
             UpdateStatusRead(w, o, to)
      PROVE  TypeOK' /\ JobShape'
  <2> DEFINE j == [op |-> "updateStatus", order |-> o, seen |-> status[o], to |-> to,
                   amount |-> 0, cumulative |-> 0, retry |-> FALSE]
  <2>1. j \in Jobs
    BY DEF TypeOK, Jobs, AdminOps, Amounts
  <2>2. TypeOK'
    BY <1>1, <2>1 DEF UpdateStatusRead, Begin, TypeOK
  <2>3. JobShape'
    BY <1>1, <2>1 DEF UpdateStatusRead, Begin, JobShape, TypeOK, EventTypes
  <2>. QED
    BY <2>2, <2>3
<1>2. ASSUME NEW w \in Workers, UpdateStatusCommit(w)
      PROVE  TypeOK' /\ JobShape'
  <2>1. job[w].order \in Orders /\ job[w].to \in OrderStatuses /\ job[w].seen \in OrderStatuses
    BY <1>2, JobTyped DEF UpdateStatusCommit
  <2>2. TypeOK'
    BY <1>2, <2>1 DEF UpdateStatusCommit, WriteStatus, awardForDelivered, PostPoints,
       reverseForCancellationOrRefund, End, TypeOK
  <2>3. JobShape'
    BY <1>2 DEF UpdateStatusCommit, End, JobShape, TypeOK, Idle, EventTypes
  <2>. QED
    BY <2>2, <2>3
<1>3. ASSUME NEW w \in Workers, NEW o \in Orders, NEW amount \in RefundOrderModal,
             RefundOrderRead(w, o, amount)
      PROVE  TypeOK' /\ JobShape'
  <2> DEFINE n == refundAmount[o] + amount
             j == [op |-> "createRefund", order |-> o, seen |-> status[o],
                   to |-> refundTarget(n), amount |-> amount, cumulative |-> n,
                   retry |-> failedRefund[o] = amount]
  <2>1. n \in 0..Total /\ amount \in 0..Total
    BY <1>3 DEF RefundOrderRead, RefundOrderModal, TypeOK, Amounts
  <2>2. refundTarget(n) \in OrderStatuses
    BY <2>1, RefundTargetTyped
  <2>3. j \in Jobs
    <3>1. (failedRefund[o] = amount) \in BOOLEAN
      OBVIOUS
    <3>. QED
      BY <2>1, <2>2, <3>1 DEF TypeOK, Jobs, AdminOps, Amounts
  <2>4. Begin(w, j)
    BY <1>3 DEF RefundOrderRead
  <2>5. TypeOK'
    BY <1>3, <2>3, <2>4, BeginTyped DEF RefundOrderRead, RefundOrderModal, TypeOK, Amounts
  <2>6. JobShape'
    BY <1>3, <2>3, <2>4 DEF RefundOrderRead, Begin, JobShape, TypeOK, EventTypes
  <2>. QED
    BY <2>5, <2>6
<1>4. ASSUME NEW w \in Workers, NEW e \in events, WebhookRead(w, e)
      PROVE  TypeOK' /\ JobShape'
  <2> DEFINE j == [op |-> e.type, order |-> e.order, seen |-> status[e.order],
                   to |-> TargetStatus(e), amount |-> e.amount,
                   cumulative |-> e.amount, retry |-> FALSE]
  <2>1. e \in Events /\ e = Event(e.type, e.order, e.amount)
    BY DEF TypeOK, Events, Event
  <2>2. j \in Jobs
    BY <2>1, TargetTyped DEF TypeOK, Jobs, Events
  <2>3. Begin(w, j)
    BY <1>4 DEF WebhookRead
  <2>4. TypeOK'
    BY <1>4, <2>2, <2>3, BeginTyped DEF WebhookRead, TypeOK
  <2>5. JobShape'
    <3> SUFFICES ASSUME NEW v \in Workers
                 PROVE  JobShape!(v)'
      BY DEF JobShape
    <3>1. CASE v = w
      <4>1. job'[v] = j /\ events' = events
        BY <1>4, <2>3, <3>1 DEF Begin, TypeOK, WebhookRead
      <4>2. Event(j.op, j.order, j.amount) \in events
        BY <2>1
      <4>3. j.op \in {"createRefund", "refundCommit", "charge.refunded"} =>
              j.to = refundTarget(j.cumulative)
        BY <2>1, TargetTyped DEF Events, EventTypes
      <4>. QED
        BY <4>1, <4>2, <4>3
    <3>2. CASE v # w
      BY <1>4, <2>3, <3>2 DEF Begin, TypeOK, WebhookRead, JobShape
    <3>. QED
      BY <3>1, <3>2
  <2>. QED
    BY <2>4, <2>5
<1>5. ASSUME NEW e \in events, WebhookSkip(e)
      PROVE  TypeOK' /\ JobShape'
  BY <1>5 DEF WebhookSkip, TypeOK, JobShape
<1>6. ASSUME NEW w \in Workers, CreateRefundAnswered(w)
      PROVE  TypeOK' /\ JobShape'
  <2> DEFINE j == job[w]
  <2>1. j \in Jobs /\ j.order \in Orders /\ j.amount \in 0..Total /\ j.cumulative \in 0..Total
    BY <1>6, JobTyped DEF CreateRefundAnswered
  <2>2. job' \in [Workers -> Jobs \cup {Idle}]
    <3>1. [j EXCEPT !.op = "refundCommit"] \in Jobs
      BY <2>1 DEF Jobs, AdminOps
    <3>. QED
      BY <1>6, <3>1, EndTyped DEF CreateRefundAnswered, TypeOK
  <2>3. /\ events \subseteq events' /\ events' \subseteq Events
        /\ refunded' \in [Orders -> Amounts]
        /\ refundKeys' \subseteq RefundKeys /\ captured' = captured
    <3>1. CASE StripeReplaysRefund(j)
      BY <3>1 DEF StripeReplaysRefund, TypeOK
    <3>2. CASE StripeExecutesRefund(j.order, j.amount)
      <4>1. refunded[j.order] + j.amount \in Amounts
        BY <2>1, <3>2 DEF StripeExecutesRefund, TypeOK, Amounts
      <4>2. Event("charge.refunded", j.order, refunded[j.order] + j.amount) \in Events
        BY <2>1, <4>1 DEF Event, Events, EventTypes
      <4>3. [order |-> j.order, cumulative |-> j.cumulative, amount |-> j.amount] \in RefundKeys
        BY <2>1 DEF RefundKeys, Amounts
      <4>4. refunded' \in [Orders -> Amounts] /\ events' \subseteq Events /\ events \subseteq events'
        BY <2>1, <3>2, <4>1, <4>2 DEF StripeExecutesRefund, TypeOK
      <4>5. refundKeys' \subseteq RefundKeys
        BY <1>6, <4>3 DEF CreateRefundAnswered, StripeReplaysRefund, TypeOK
      <4>6. captured' = captured
        BY <1>6 DEF CreateRefundAnswered, StripeReplaysRefund
      <4>. QED
        BY <4>4, <4>5, <4>6
    <3>. QED
      BY <1>6, <3>1, <3>2 DEF CreateRefundAnswered
  <2>4. TypeOK'
    BY <1>6, <2>2, <2>3 DEF CreateRefundAnswered, TypeOK
  <2>5. JobShape'
    <3> SUFFICES ASSUME NEW v \in Workers
                 PROVE  JobShape!(v)'
      BY DEF JobShape
    <3>1. CASE v # w
      BY <1>6, <2>3, <3>1 DEF CreateRefundAnswered, End, TypeOK, JobShape
    <3>2. CASE v = w
      <4>1. job'[w] = [j EXCEPT !.op = "refundCommit"] \/ job'[w] = Idle
        BY <1>6 DEF CreateRefundAnswered, End, TypeOK
      <4>2. j.to = refundTarget(j.cumulative)
        BY <1>6 DEF CreateRefundAnswered, JobShape
      <4>3. CASE job'[w] = Idle
        BY <3>2, <4>3 DEF Idle, EventTypes
      <4>4. CASE job'[w] = [j EXCEPT !.op = "refundCommit"]
        <5>1. job'[w].op = "refundCommit" /\ job'[w].to = j.to /\ job'[w].cumulative = j.cumulative
          BY <2>1, <4>4 DEF Jobs
        <5>. QED
          BY <3>2, <4>2, <5>1 DEF EventTypes
      <4>. QED
        BY <4>1, <4>3, <4>4
    <3>. QED
      BY <3>1, <3>2
  <2>. QED
    BY <2>4, <2>5
<1>7. ASSUME NEW w \in Workers, CreateRefundRefused(w)
      PROVE  TypeOK' /\ JobShape'
  BY <1>7, EndTyped DEF CreateRefundRefused, End, TypeOK, JobShape, Idle, EventTypes
<1>8. ASSUME NEW w \in Workers, RefundOrderCommit(w)
      PROVE  TypeOK' /\ JobShape'
  <2>1. /\ job[w].order \in Orders /\ job[w].to \in OrderStatuses
        /\ job[w].seen \in OrderStatuses /\ job[w].cumulative \in Amounts
    BY <1>8, JobTyped DEF RefundOrderCommit, Amounts
  <2>2. job[w].to \in PaymentStatuses
    BY <1>8, <2>1, RefundTargetTyped DEF RefundOrderCommit, JobShape, Amounts
  <2>3. TypeOK'
    BY <1>8, <2>1, <2>2, EndTyped DEF RefundOrderCommit, WriteStatus, RecordRefund, PostPoints,
       reverseForCancellationOrRefund, TypeOK
  <2>4. JobShape'
    BY <1>8 DEF RefundOrderCommit, End, JobShape, TypeOK, Idle, EventTypes
  <2>. QED
    BY <2>3, <2>4
<1>9. ASSUME NEW w \in Workers, job[w].op \in EventTypes,
             \/ PaymentIntentSucceededCommit(w) \/ PaymentIntentFailedCommit(w)
             \/ ChargeRefundedCommit(w)
             \/ ChargeDisputeCreatedCommit(w) \/ TrackerDeliveredCommit(w)
      PROVE  TypeOK' /\ JobShape'
  <2> DEFINE j == job[w]
  <2>1. /\ j.order \in Orders /\ j.to \in OrderStatuses /\ j.seen \in OrderStatuses
        /\ j.cumulative \in Amounts
    BY <1>9, JobTyped DEF EventTypes, Amounts
  <2>2. Event(j.op, j.order, j.amount) \in events
    BY <1>9 DEF JobShape
  <2>3. j.op = "charge.refunded" => j.to \in PaymentStatuses
    BY <2>1, RefundTargetTyped DEF JobShape, Amounts
  <2>4. WebhookDone(w)
    BY <1>9 DEF PaymentIntentSucceededCommit, PaymentIntentFailedCommit,
       ChargeRefundedCommit, ChargeDisputeCreatedCommit, TrackerDeliveredCommit
  <2>5. payment' \in [Orders -> PaymentStatuses]
    BY <1>9, <2>1, <2>3 DEF PaymentIntentSucceededCommit, PaymentIntentFailedCommit,
       ChargeRefundedCommit, ChargeDisputeCreatedCommit, TrackerDeliveredCommit,
       TypeOK, PaymentStatuses
  <2>6. refundAmount' \in [Orders -> Amounts]
    BY <1>9, <2>1 DEF PaymentIntentSucceededCommit, PaymentIntentFailedCommit,
       ChargeRefundedCommit, ChargeDisputeCreatedCommit, TrackerDeliveredCommit,
       RecordRefund, TypeOK
  <2>7. \/ \E to \in OrderStatuses : WriteStatus(j.order, j.seen, to)
        \/ UNCHANGED <<status, newestHistory>>
    BY <1>9, <2>1 DEF PaymentIntentSucceededCommit, PaymentIntentFailedCommit,
       ChargeRefundedCommit, ChargeDisputeCreatedCommit, TrackerDeliveredCommit,
       WriteStatusIfAllowed, OrderStatuses
  <2>8. /\ status' \in [Orders -> OrderStatuses]
        /\ newestHistory' \in [Orders -> [from : OrderStatuses \cup {"none"}, to : OrderStatuses]]
    <3>1. ASSUME NEW to \in OrderStatuses, WriteStatus(j.order, j.seen, to)
          PROVE  <2>8
      BY <2>1, <3>1 DEF WriteStatus, TypeOK
    <3>2. ASSUME UNCHANGED <<status, newestHistory>>
          PROVE  <2>8
      BY <3>2 DEF TypeOK
    <3>. QED
      BY <2>7, <3>1, <3>2
  <2>9. TypeOK'
    BY <2>2, <2>4, <2>5, <2>6, <2>8, EndTyped DEF WebhookDone, TypeOK
  <2>10. JobShape'
    BY <2>4 DEF WebhookDone, End, JobShape, TypeOK, Idle, EventTypes
  <2>. QED
    BY <2>9, <2>10
<1>10. ASSUME NEW w \in Workers, HandlerDies(w)
       PROVE  TypeOK' /\ JobShape'
  <2>1. job[w].op = "refundCommit" => job[w].order \in Orders /\ job[w].amount \in Amounts
    BY JobTyped DEF Amounts
  <2>2. TypeOK'
    BY <1>10, <2>1, EndTyped DEF HandlerDies, TypeOK
  <2>3. JobShape'
    BY <1>10 DEF HandlerDies, End, JobShape, TypeOK, Idle, EventTypes
  <2>. QED
    BY <2>2, <2>3
<1>11. ASSUME NEW o \in Orders, Outside(o)
       PROVE  TypeOK' /\ JobShape'
  <2>1. /\ events \subseteq events' /\ events' \subseteq Events
        /\ captured' \in [Orders -> BOOLEAN] /\ refunded' \in [Orders -> Amounts]
    <3>1. ASSUME NEW type \in EventTypes
          PROVE  Event(type, o, 0) \in Events
      BY DEF Event, Events, Amounts
    <3>2. CASE CustomerPays(o) \/ CustomerDeclined(o) \/ DisputeOpened(o) \/ CarrierDelivers(o)
      BY <3>1, <3>2 DEF CustomerPays, CustomerDeclined, DisputeOpened, CarrierDelivers,
         Emit, EventTypes, TypeOK
    <3>3. ASSUME NEW amount \in Amounts, DashboardRefund(o, amount)
          PROVE  <2>1
      <4>1. refunded[o] + amount \in Amounts
        BY <3>3 DEF DashboardRefund, StripeExecutesRefund, TypeOK, Amounts
      <4>2. Event("charge.refunded", o, refunded[o] + amount) \in Events
        BY <4>1 DEF Event, Events, EventTypes
      <4>. QED
        BY <3>3, <4>1, <4>2 DEF DashboardRefund, StripeExecutesRefund, TypeOK
    <3>. QED
      BY <1>11, <3>2, <3>3 DEF Outside
  <2>2. outsideUnchanged
    BY <1>11 DEF Outside, CustomerPays, CustomerDeclined, DisputeOpened, CarrierDelivers,
       DashboardRefund
  <2>. QED
    BY <2>1, <2>2 DEF outsideUnchanged, TypeOK, JobShape
<1>12. CASE UNCHANGED vars
  BY <1>12 DEF vars, TypeOK, JobShape
<1>13. ASSUME NEW w \in Workers, Handler(w)
       PROVE  TypeOK' /\ JobShape'
  BY <1>2, <1>6, <1>7, <1>8, <1>9, <1>13 DEF Handler, PaymentIntentSucceededCommit,
     PaymentIntentFailedCommit, ChargeRefundedCommit, ChargeDisputeCreatedCommit,
     TrackerDeliveredCommit, EventTypes
<1>. QED
  BY <1>1, <1>3, <1>4, <1>5, <1>10, <1>11, <1>12, <1>13 DEF Next

(* Every reachable state is well typed: handlers that overlap never write  *)
(* an amount outside the order's total, or points below zero.              *)
THEOREM TypeCorrect == Spec => []TypeOK
<1>1. TypeInv => TypeOK
  BY DEF TypeInv
<1>. QED
  BY <1>1, TypeInit, TypeNext, PTL DEF Spec

----------------------------------------------------------------------------
(***************************************************************************)
(* What the shop records of money and of loyalty credit is backed by what  *)
(* happened: proofs for any orders, any number of concurrent handlers, any *)
(* order total and points, and any number of handlers that die.            *)
(***************************************************************************)

(* An event tells the truth about Stripe for ever: captures are not undone *)
(* and charge.amount_refunded only grows.                                  *)
EventsTrue ==
  \A e \in events :
    /\ e.type = "payment_intent.succeeded" => captured[e.order]
    /\ e.type = "charge.refunded" => 0 < e.amount /\ e.amount <= refunded[e.order]
    /\ e.type # "charge.refunded" => e.amount = 0

(* The cumulative amount a refund was asked under is covered by Stripe     *)
(* once Stripe knows its key.                                              *)
KeysTrue == \A k \in refundKeys : k.cumulative <= refunded[k.order]

(* What a refund handler is about to write was covered when it read the    *)
(* order, up to the amount it still asks Stripe for.                       *)
JobsTrue ==
  \A w \in Workers :
    /\ job[w].op = "createRefund" =>
         0 < job[w].amount /\ job[w].cumulative <= refunded[job[w].order] + job[w].amount
           /\ 0 < job[w].cumulative
    /\ job[w].op = "refundCommit" =>
         0 < job[w].cumulative /\ job[w].cumulative <= refunded[job[w].order]

MoneyInv ==
  /\ EventsTrue
  /\ KeysTrue
  /\ JobsTrue
  /\ RefundAmountBackedByStripe
  /\ PaymentBackedByStripe

----------------------------------------------------------------------------
(* Stripe's side only grows, and what is backed stays backed.              *)
StripeGrows ==
  /\ \A o \in Orders : refunded[o] <= refunded'[o] /\ (captured[o] => captured'[o])
  /\ events \subseteq events'

LEMMA StripeStands ==
  ASSUME TypeOK, EventsTrue, KeysTrue, UNCHANGED <<stripeVars, events>>
  PROVE  EventsTrue' /\ KeysTrue' /\ StripeGrows
BY DEF TypeOK, Amounts, EventsTrue, KeysTrue, StripeGrows, stripeVars

LEMMA JobEnds ==
  ASSUME TypeOK, JobsTrue, NEW w \in Workers, End(w), refunded' = refunded
  PROVE  JobsTrue'
BY DEF TypeOK, JobsTrue, End, Idle

(* A refund at Stripe, by whoever asked for it. *)
LEMMA RefundExecuted ==
  ASSUME TypeOK, EventsTrue, NEW o \in Orders, NEW amount \in 1..Total,
         StripeExecutesRefund(o, amount), captured' = captured
  PROVE  /\ EventsTrue'
         /\ StripeGrows
         /\ refunded'[o] = refunded[o] + amount
<1>1. /\ refunded'[o] = refunded[o] + amount
      /\ \A p \in Orders : p # o => refunded'[p] = refunded[p]
  BY DEF TypeOK, StripeExecutesRefund
<1>2. \A p \in Orders : refunded[p] \in 0..Total
  BY DEF TypeOK, Amounts
<1>3. StripeGrows
  BY <1>1, <1>2 DEF StripeExecutesRefund, StripeGrows
<1>4. EventsTrue'
  <2> SUFFICES ASSUME NEW e \in events'
               PROVE  /\ e.type = "payment_intent.succeeded" => captured[e.order]
                      /\ e.type = "charge.refunded" =>
                           0 < e.amount /\ e.amount <= refunded'[e.order]
                      /\ e.type # "charge.refunded" => e.amount = 0
    BY DEF EventsTrue
  <2>1. ASSUME e \in events
        PROVE  e.order \in Orders /\ e.amount \in 0..Total
    BY <2>1 DEF TypeOK, Events, Amounts
  <2>2. ASSUME e \in events
        PROVE  refunded[e.order] <= refunded'[e.order]
    BY <1>3, <2>1, <2>2 DEF StripeGrows
  <2>3. ASSUME e \in events
        PROVE  refunded'[e.order] \in 0..(2*Total)
    BY <1>1, <1>2, <2>1, <2>3
  <2>4. CASE e \in events
    BY <1>2, <2>1, <2>2, <2>3, <2>4 DEF EventsTrue
  <2>5. CASE e = Event("charge.refunded", o, refunded[o] + amount)
    BY <1>1, <1>2, <2>5 DEF Event
  <2>. QED
    BY <2>4, <2>5 DEF StripeExecutesRefund
<1>. QED
  BY <1>1, <1>3, <1>4

LEMMA BackedStays ==
  ASSUME TypeOK, refunded' \in [Orders -> Amounts], StripeGrows,
         RefundAmountBackedByStripe, PaymentBackedByStripe,
         UNCHANGED <<refundAmount, payment>>
  PROVE  RefundAmountBackedByStripe' /\ PaymentBackedByStripe'
<1>1. ASSUME NEW o \in Orders
      PROVE  /\ refunded[o] \in 0..Total /\ refunded'[o] \in 0..Total
             /\ refundAmount[o] \in 0..Total /\ refunded[o] <= refunded'[o]
  BY DEF TypeOK, Amounts, StripeGrows
<1>2. RefundAmountBackedByStripe'
  BY <1>1 DEF RefundAmountBackedByStripe
<1>3. ASSUME NEW o \in Orders
      PROVE  PaymentBackedByStripe!(o)'
  <2>1. payment[o] = "SUCCEEDED" => captured'[o]
    BY DEF PaymentBackedByStripe, StripeGrows
  <2>2. payment[o] = "FAILED" => Event("payment_intent.payment_failed", o, 0) \in events'
    BY DEF PaymentBackedByStripe, StripeGrows
  <2>3. /\ payment[o] = "PARTIALLY_REFUNDED" => refunded'[o] > 0
        /\ payment[o] = "REFUNDED" => refunded'[o] = Total
    BY <1>1 DEF PaymentBackedByStripe
  <2>. QED
    BY <2>1, <2>2, <2>3 DEF Event
<1>. QED
  BY <1>2, <1>3 DEF PaymentBackedByStripe

(* Writing a target that follows from a covered cumulative amount. *)
LEMMA RefundWritten ==
  ASSUME TypeOK, PaymentBackedByStripe, NEW o \in Orders, NEW n \in 1..Total,
         n <= refunded[o], UNCHANGED <<stripeVars, events>>,
         payment' = [payment EXCEPT ![o] = refundTarget(n)]
  PROVE  PaymentBackedByStripe'
<1>1. refunded' = refunded /\ captured' = captured /\ events' = events
  BY DEF stripeVars
<1>2. /\ refundTarget(n) \in {"REFUNDED", "PARTIALLY_REFUNDED"}
      /\ refundTarget(n) = "REFUNDED" => refunded[o] = Total
      /\ refunded[o] > 0
  <2>1. n \in Nat /\ n > 0 /\ refunded[o] \in 0..Total
    BY DEF TypeOK, Amounts
  <2>2. /\ refundTarget(n) \in {"REFUNDED", "PARTIALLY_REFUNDED"}
        /\ refundTarget(n) = "REFUNDED" => n >= Total
    BY <2>1, RefundTargetTyped
  <2>. QED
    BY <2>1, <2>2
<1>3. payment'[o] = refundTarget(n) /\ \A p \in Orders : p # o => payment'[p] = payment[p]
  BY DEF TypeOK
<1>. QED
  BY <1>1, <1>2, <1>3 DEF PaymentBackedByStripe

LEMMA AmountWritten ==
  ASSUME TypeOK, RefundAmountBackedByStripe, NEW o \in Orders, NEW n \in 1..Total,
         n <= refunded[o], refunded' = refunded,
         refundAmount' = [refundAmount EXCEPT ![o] = n]
  PROVE  RefundAmountBackedByStripe'
BY DEF TypeOK, Amounts, RefundAmountBackedByStripe

----------------------------------------------------------------------------
LEMMA MoneyInit == Init => MoneyInv
BY DEF Init, MoneyInv, EventsTrue, KeysTrue, JobsTrue, RefundAmountBackedByStripe,
       PaymentBackedByStripe, Idle

LEMMA MoneyNext == TypeInv /\ TypeInv' /\ MoneyInv /\ [Next]_vars => MoneyInv'
<1> SUFFICES ASSUME TypeOK, JobShape, TypeOK', EventsTrue, KeysTrue, JobsTrue,
                    RefundAmountBackedByStripe, PaymentBackedByStripe, [Next]_vars
             PROVE  MoneyInv'
  BY DEF TypeInv, MoneyInv
<1> USE DEF MoneyInv
<1>typed. refunded' \in [Orders -> Amounts]
  BY DEF TypeOK
<1>1. ASSUME NEW w \in Workers, NEW o \in Orders, NEW to \in OrderStatuses,
             UpdateStatusRead(w, o, to)
      PROVE  MoneyInv'
  <2>1. UNCHANGED <<stripeVars, events, refundAmount, payment>>
    BY <1>1 DEF UpdateStatusRead, orderVars
  <2>2. JobsTrue'
    BY <1>1 DEF UpdateStatusRead, Begin, TypeOK, JobsTrue, stripeVars
  <2>. QED
    BY <1>typed, <2>1, <2>2, StripeStands, BackedStays
<1>2. ASSUME NEW w \in Workers, UpdateStatusCommit(w)
      PROVE  MoneyInv'
  <2>1. UNCHANGED <<stripeVars, events, refundAmount, payment>> /\ End(w)
    BY <1>2 DEF UpdateStatusCommit
  <2>2. refunded' = refunded
    BY <2>1 DEF stripeVars
  <2>. QED
    BY <1>typed, <2>1, <2>2, StripeStands, BackedStays, JobEnds
<1>3. ASSUME NEW w \in Workers, NEW o \in Orders, NEW amount \in RefundOrderModal,
             RefundOrderRead(w, o, amount)
      PROVE  MoneyInv'
  <2>1. UNCHANGED <<stripeVars, events, refundAmount, payment>>
    BY <1>3 DEF RefundOrderRead, orderVars
  <2>2. refundAmount[o] \in 0..Total /\ refunded[o] \in 0..Total
        /\ amount \in 0..Total /\ 0 < amount /\ refundAmount[o] <= refunded[o]
    BY <1>3 DEF RefundOrderRead, RefundOrderModal, TypeOK, Amounts, RefundAmountBackedByStripe
  <2>3. JobsTrue'
    <3> SUFFICES ASSUME NEW v \in Workers
                 PROVE  JobsTrue!(v)'
      BY DEF JobsTrue
    <3>1. CASE v # w
      BY <1>3, <2>1, <3>1 DEF RefundOrderRead, Begin, TypeOK, JobsTrue, stripeVars
    <3>2. CASE v = w
      <4>1. /\ job'[w].op = "createRefund" /\ job'[w].order = o
            /\ job'[w].amount = amount /\ job'[w].cumulative = refundAmount[o] + amount
        BY <1>3 DEF RefundOrderRead, Begin, TypeOK
      <4>2. refunded' = refunded
        BY <2>1 DEF stripeVars
      <4>. QED
        BY <2>2, <3>2, <4>1, <4>2
    <3>. QED
      BY <3>1, <3>2
  <2>. QED
    BY <1>typed, <2>1, <2>3, StripeStands, BackedStays
<1>4. ASSUME NEW w \in Workers, NEW e \in events, WebhookRead(w, e)
      PROVE  MoneyInv'
  <2>1. UNCHANGED <<stripeVars, events, refundAmount, payment>>
    BY <1>4 DEF WebhookRead, orderVars
  <2>2. e.type \in EventTypes
    BY DEF TypeOK, Events
  <2>3. JobsTrue'
    BY <1>4, <2>2 DEF WebhookRead, Begin, TypeOK, JobsTrue, stripeVars, EventTypes
  <2>. QED
    BY <1>typed, <2>1, <2>3, StripeStands, BackedStays
<1>5. ASSUME NEW e \in events, WebhookSkip(e)
      PROVE  MoneyInv'
  <2>1. UNCHANGED <<stripeVars, events, refundAmount, payment, job>>
    BY <1>5 DEF WebhookSkip, orderVars
  <2>2. JobsTrue'
    BY <2>1 DEF JobsTrue, stripeVars
  <2>. QED
    BY <1>typed, <2>1, <2>2, StripeStands, BackedStays
<1>6. ASSUME NEW w \in Workers, CreateRefundAnswered(w)
      PROVE  MoneyInv'
  <2> DEFINE j == job[w]
  <2>1. /\ j \in Jobs /\ j.order \in Orders /\ j.cumulative \in 1..Total
        /\ j.amount \in 1..Total /\ j.cumulative <= refunded[j.order] + j.amount
    BY <1>6, JobTyped DEF CreateRefundAnswered, JobsTrue
  <2>2. UNCHANGED <<captured, refundAmount, payment>>
    BY <1>6 DEF CreateRefundAnswered, orderVars, StripeReplaysRefund, stripeVars
  <2>3. /\ EventsTrue' /\ KeysTrue' /\ StripeGrows
        /\ j.cumulative <= refunded'[j.order]
    <3>1. ASSUME StripeReplaysRefund(j)
          PROVE  <2>3
      <4>1. j.cumulative <= refunded[j.order]
        BY <3>1 DEF StripeReplaysRefund, KeysTrue
      <4>2. UNCHANGED <<stripeVars, events>> /\ refunded' = refunded
        BY <3>1 DEF StripeReplaysRefund, stripeVars
      <4>. QED
        BY <4>1, <4>2, StripeStands
    <3>2. ASSUME StripeExecutesRefund(j.order, j.amount),
                 refundKeys' = refundKeys \cup
                   {[order |-> j.order, cumulative |-> j.cumulative, amount |-> j.amount]}
          PROVE  <2>3
      <4>1. EventsTrue' /\ StripeGrows /\ refunded'[j.order] = refunded[j.order] + j.amount
        BY <2>1, <2>2, <3>2, RefundExecuted
      <4>2. j.cumulative <= refunded'[j.order]
        BY <2>1, <4>1
      <4>3. \A k \in refundKeys : k.cumulative \in Amounts /\ k.order \in Orders
        BY DEF TypeOK, RefundKeys
      <4>4. \A o \in Orders : refunded[o] \in 0..Total /\ refunded'[o] \in 0..Total
        BY <1>typed DEF TypeOK, Amounts
      <4>5. KeysTrue'
        BY <3>2, <4>1, <4>2, <4>3, <4>4 DEF KeysTrue, StripeGrows, Amounts
      <4>. QED
        BY <4>1, <4>2, <4>5
    <3>. QED
      BY <1>6, <3>1, <3>2 DEF CreateRefundAnswered
  <2>4. JobsTrue'
    <3> SUFFICES ASSUME NEW v \in Workers
                 PROVE  JobsTrue!(v)'
      BY DEF JobsTrue
    <3>1. ASSUME v # w
          PROVE  JobsTrue!(v)'
      <4>1. job'[v] = job[v]
        BY <1>6, <3>1 DEF CreateRefundAnswered, End, TypeOK
      <4>2. ASSUME job[v].op # "idle"
            PROVE  /\ refunded[job[v].order] <= refunded'[job[v].order]
                   /\ refunded[job[v].order] \in 0..Total
                   /\ refunded'[job[v].order] \in 0..Total
                   /\ job[v].amount \in 0..Total /\ job[v].cumulative \in 0..Total
        BY <1>typed, <2>3, <4>2, JobTyped DEF StripeGrows, TypeOK, Amounts
      <4>. QED
        BY <4>1, <4>2 DEF JobsTrue
    <3>2. ASSUME v = w
          PROVE  JobsTrue!(v)'
      <4>1. job'[w] = [j EXCEPT !.op = "refundCommit"] \/ job'[w] = Idle
        BY <1>6 DEF CreateRefundAnswered, End, TypeOK
      <4>2. ASSUME job'[w] = Idle
            PROVE  JobsTrue!(w)'
        BY <4>2 DEF Idle
      <4>3. ASSUME job'[w] = [j EXCEPT !.op = "refundCommit"]
            PROVE  JobsTrue!(w)'
        <5>1. /\ job'[w].op = "refundCommit" /\ job'[w].order = j.order
              /\ job'[w].cumulative = j.cumulative
          BY <2>1, <4>3 DEF Jobs
        <5>. QED
          BY <2>1, <2>3, <5>1
      <4>. QED
        BY <3>2, <4>1, <4>2, <4>3
    <3>. QED
      BY <3>1, <3>2
  <2>. QED
    BY <1>typed, <2>2, <2>3, <2>4, BackedStays
<1>7. ASSUME NEW w \in Workers, CreateRefundRefused(w)
      PROVE  MoneyInv'
  <2>1. UNCHANGED <<stripeVars, events, refundAmount, payment>> /\ End(w)
    BY <1>7 DEF CreateRefundRefused, orderVars
  <2>2. refunded' = refunded
    BY <2>1 DEF stripeVars
  <2>. QED
    BY <1>typed, <2>1, <2>2, StripeStands, BackedStays, JobEnds
<1>8. ASSUME NEW w \in Workers, RefundOrderCommit(w)
      PROVE  MoneyInv'
  <2> DEFINE j == job[w]
  <2>1. /\ j.order \in Orders /\ j.cumulative \in 1..Total
        /\ j.cumulative <= refunded[j.order] /\ j.to = refundTarget(j.cumulative)
    BY <1>8, JobTyped DEF RefundOrderCommit, JobsTrue, JobShape
  <2>2. UNCHANGED <<stripeVars, events>> /\ End(w)
    BY <1>8 DEF RefundOrderCommit
  <2>3. refunded' = refunded
    BY <2>2 DEF stripeVars
  <2>4. PaymentBackedByStripe' /\ RefundAmountBackedByStripe'
    BY <1>8, <2>1, <2>2, <2>3, RefundWritten, AmountWritten DEF RefundOrderCommit, RecordRefund
  <2>. QED
    BY <2>2, <2>3, <2>4, StripeStands, JobEnds
<1>9. ASSUME NEW w \in Workers,
             \/ PaymentIntentSucceededCommit(w) \/ PaymentIntentFailedCommit(w)
             \/ ChargeRefundedCommit(w)
             \/ ChargeDisputeCreatedCommit(w) \/ TrackerDeliveredCommit(w)
      PROVE  MoneyInv'
  <2> DEFINE j == job[w]
  <2>1. UNCHANGED <<stripeVars, events>> /\ End(w)
    BY <1>9 DEF PaymentIntentSucceededCommit, PaymentIntentFailedCommit, ChargeRefundedCommit,
       ChargeDisputeCreatedCommit, TrackerDeliveredCommit, WebhookDone
  <2>2. refunded' = refunded /\ captured' = captured
    BY <2>1 DEF stripeVars
  <2>3. j.op \in EventTypes
    BY <1>9 DEF PaymentIntentSucceededCommit, PaymentIntentFailedCommit, ChargeRefundedCommit,
       ChargeDisputeCreatedCommit, TrackerDeliveredCommit, EventTypes
  <2>4. /\ j.order \in Orders /\ j.amount \in 0..Total
        /\ Event(j.op, j.order, j.amount) \in events /\ j.cumulative = j.amount
        /\ j.op = "charge.refunded" => j.to = refundTarget(j.cumulative)
    BY <2>3, JobTyped DEF EventTypes, JobShape
  <2>5. /\ j.op = "payment_intent.succeeded" => captured[j.order]
        /\ j.op = "payment_intent.payment_failed" =>
             Event("payment_intent.payment_failed", j.order, 0) \in events
        /\ j.op = "charge.refunded" =>
             j.cumulative \in 1..Total /\ j.cumulative <= refunded[j.order]
    BY <2>4 DEF EventsTrue, Event
  <2>6. PaymentBackedByStripe'
    <3>1. ASSUME PaymentIntentSucceededCommit(w)
          PROVE  PaymentBackedByStripe'
      BY <2>1, <2>2, <2>4, <2>5, <3>1 DEF PaymentIntentSucceededCommit, PaymentBackedByStripe, TypeOK
    <3>2. ASSUME PaymentIntentFailedCommit(w)
          PROVE  PaymentBackedByStripe'
      BY <2>1, <2>2, <2>4, <2>5, <3>2 DEF PaymentIntentFailedCommit, PaymentBackedByStripe, TypeOK
    <3>3. ASSUME ChargeRefundedCommit(w)
          PROVE  PaymentBackedByStripe'
      BY <2>1, <2>4, <2>5, <3>3, RefundWritten DEF ChargeRefundedCommit
    <3>4. ASSUME ChargeDisputeCreatedCommit(w) \/ TrackerDeliveredCommit(w)
          PROVE  PaymentBackedByStripe'
      BY <2>1, <2>2, <3>4
         DEF ChargeDisputeCreatedCommit, TrackerDeliveredCommit, PaymentBackedByStripe
    <3>. QED
      BY <1>9, <3>1, <3>2, <3>3, <3>4
  <2>7. RefundAmountBackedByStripe'
    <3>1. ASSUME ChargeRefundedCommit(w), MoveAllowed(j)
          PROVE  RefundAmountBackedByStripe'
      BY <2>2, <2>4, <2>5, <3>1, AmountWritten DEF ChargeRefundedCommit, RecordRefund
    <3>2. ASSUME refundAmount' = refundAmount
          PROVE  RefundAmountBackedByStripe'
      BY <2>2, <3>2 DEF RefundAmountBackedByStripe
    <3>. QED
      BY <1>9, <3>1, <3>2 DEF PaymentIntentSucceededCommit, PaymentIntentFailedCommit,
         ChargeRefundedCommit, ChargeDisputeCreatedCommit, TrackerDeliveredCommit
  <2>. QED
    BY <2>1, <2>2, <2>6, <2>7, StripeStands, JobEnds
<1>10. ASSUME NEW w \in Workers, HandlerDies(w)
       PROVE  MoneyInv'
  <2>1. UNCHANGED <<stripeVars, events, refundAmount, payment>> /\ End(w)
    BY <1>10 DEF HandlerDies, orderVars
  <2>2. refunded' = refunded
    BY <2>1 DEF stripeVars
  <2>. QED
    BY <1>typed, <2>1, <2>2, StripeStands, BackedStays, JobEnds
<1>11. ASSUME NEW o \in Orders, Outside(o)
       PROVE  MoneyInv'
  <2>1. UNCHANGED <<refundAmount, payment, refundKeys, job>>
    BY <1>11 DEF Outside, CustomerPays, CustomerDeclined, DisputeOpened, CarrierDelivers,
       DashboardRefund, outsideUnchanged, orderVars
  <2>2. EventsTrue' /\ StripeGrows
    <3>1. ASSUME NEW type \in EventTypes \ {"charge.refunded"}, Emit(type, o),
                 refunded' = refunded,
                 \A p \in Orders : captured[p] => captured'[p],
                 type = "payment_intent.succeeded" => captured'[o]
          PROVE  EventsTrue' /\ StripeGrows
      <4>1. StripeGrows
        BY <3>1 DEF Emit, StripeGrows, TypeOK, Amounts
      <4>2. \A e \in events : e.order \in Orders
        BY DEF TypeOK, Events
      <4>3. EventsTrue'
        BY <3>1, <4>2 DEF Emit, EventsTrue, Event
      <4>. QED
        BY <4>1, <4>3
    <3>2. ASSUME CustomerPays(o)
          PROVE  EventsTrue' /\ StripeGrows
      BY <3>1, <3>2 DEF CustomerPays, EventTypes, TypeOK
    <3>3. ASSUME CustomerDeclined(o) \/ DisputeOpened(o) \/ CarrierDelivers(o)
          PROVE  EventsTrue' /\ StripeGrows
      BY <3>1, <3>3 DEF CustomerDeclined, DisputeOpened, CarrierDelivers, EventTypes
    <3>4. ASSUME NEW amount \in Amounts, DashboardRefund(o, amount)
          PROVE  EventsTrue' /\ StripeGrows
      <4>1. amount \in 1..Total
        BY <3>4 DEF DashboardRefund, Amounts
      <4>. QED
        BY <3>4, <4>1, RefundExecuted DEF DashboardRefund
    <3>. QED
      BY <1>11, <3>2, <3>3, <3>4 DEF Outside
  <2>3. \A p \in Orders : refunded[p] \in 0..Total /\ refunded'[p] \in 0..Total
    BY <1>typed DEF TypeOK, Amounts
  <2>4. KeysTrue'
    <3>1. \A k \in refundKeys : k.cumulative \in 0..Total /\ k.order \in Orders
      BY DEF TypeOK, RefundKeys, Amounts
    <3>. QED
      BY <2>1, <2>2, <2>3, <3>1 DEF KeysTrue, StripeGrows
  <2>5. JobsTrue'
    <3>1. \A v \in Workers : job[v].op # "idle" =>
            /\ job[v].order \in Orders /\ job[v].amount \in 0..Total
            /\ job[v].cumulative \in 0..Total
      BY JobTyped
    <3>. QED
      BY <2>1, <2>2, <2>3, <3>1 DEF JobsTrue, StripeGrows
  <2>. QED
    BY <1>typed, <2>1, <2>2, <2>4, <2>5, BackedStays
<1>12. ASSUME UNCHANGED vars
       PROVE  MoneyInv'
  <2>1. UNCHANGED <<stripeVars, events, refundAmount, payment, job>>
    BY <1>12 DEF vars, orderVars
  <2>2. JobsTrue'
    BY <2>1 DEF JobsTrue, stripeVars
  <2>. QED
    BY <1>typed, <2>1, <2>2, StripeStands, BackedStays
<1>13. ASSUME NEW w \in Workers, Handler(w)
       PROVE  MoneyInv'
  BY <1>2, <1>6, <1>7, <1>8, <1>9, <1>13 DEF Handler
<1>. QED
  BY <1>1, <1>3, <1>4, <1>5, <1>10, <1>11, <1>12, <1>13 DEF Next

(* Whatever handlers overlap, whatever events come twice, late or never:   *)
(* Order.refundAmount is at most what Stripe has given back, and           *)
(* Payment.status is never ahead of Stripe.                                *)
THEOREM MoneyIsBacked == Spec => []MoneyBackedByStripe
<1>1. MoneyInv => MoneyBackedByStripe
  BY DEF MoneyInv, MoneyBackedByStripe
<1>. QED
  BY <1>1, TypeInit, TypeNext, MoneyInit, MoneyNext, PTL DEF Spec

----------------------------------------------------------------------------
(* The refund book: every step is one of the book's, or leaves it alone.   *)

LEMMA StatusesAgree == \A n \in 1..Total : refundTarget(n) = Book!StatusFor(n)
BY DEF refundTarget, Book!StatusFor

LEMMA BookStands ==
  ASSUME UNCHANGED <<Captured, Declined, refunded, refundAmount, payment>>
  PROVE  UNCHANGED Book!bookVars
BY DEF Book!bookVars

LEMMA GivenBack ==
  ASSUME TypeInv, NEW o \in Orders, NEW amount \in Amounts, amount > 0,
         StripeExecutesRefund(o, amount), UNCHANGED <<captured, refundAmount, payment>>
  PROVE  \E n \in 1..Total : Book!GiveBack(o, n)
<1>1. /\ captured[o] /\ refunded[o] \in 0..Total /\ amount \in 1..Total - refunded[o]
      /\ refunded' = [refunded EXCEPT ![o] = @ + amount]
      /\ events' = events \cup {Event("charge.refunded", o, refunded[o] + amount)}
  BY DEF StripeExecutesRefund, TypeInv, TypeOK, Amounts
<1>2. UNCHANGED <<Captured, Declined>> /\ o \in Captured
  BY <1>1 DEF Captured, Declined, Event
<1>3. Book!GiveBack(o, amount)
  BY <1>1, <1>2 DEF Book!GiveBack
<1>4. amount \in 1..Total
  BY DEF Amounts
<1>. QED
  BY <1>3, <1>4

LEMMA Recorded ==
  ASSUME NEW o \in Orders, NEW amount \in 1..Total, amount <= refunded[o],
         refunded[o] \in 0..Total,
         payment' = [payment EXCEPT ![o] = refundTarget(amount)],
         UNCHANGED <<Captured, Declined, refunded>>
  PROVE  /\ UNCHANGED refundAmount => Book!NotePayment(o)
         /\ refundAmount' = [refundAmount EXCEPT ![o] = amount] => Book!RecordRefund(o, amount)
<1>1. amount \in 1..refunded[o]
  OBVIOUS
<1>2. refundTarget(amount) = Book!StatusFor(amount)
  BY StatusesAgree
<1>3. Book!Note(o, Book!StatusFor(amount))
  BY <1>2, Zenon DEF Book!Note
<1>. QED
  BY <1>1, <1>3 DEF Book!NotePayment, Book!RecordRefund

(* What Stripe does. *)
LEMMA StripeKeepsBook ==
  ASSUME TypeInv, NEW o \in Orders, Outside(o)
  PROVE  [Book!Next]_(Book!bookVars)
<1>. USE DEF TypeInv
<1>1. CASE CustomerPays(o)
  <2>1. /\ captured' = [captured EXCEPT ![o] = TRUE]
        /\ events' = events \cup {Event("payment_intent.succeeded", o, 0)}
        /\ UNCHANGED <<refunded, refundAmount, payment>>
    BY <1>1 DEF CustomerPays, Emit, outsideUnchanged, orderVars
  <2>2. Captured' = Captured \cup {o} /\ Declined' = Declined
    BY <2>1 DEF TypeOK, Captured, Declined, Event
  <2>. QED
    BY <2>1, <2>2 DEF Book!Next, Book!Capture
<1>2. CASE CustomerDeclined(o)
  <2>1. /\ ~captured[o]
        /\ events' = events \cup {Event("payment_intent.payment_failed", o, 0)}
        /\ UNCHANGED <<captured, refunded, refundAmount, payment>>
    BY <1>2 DEF CustomerDeclined, Emit, outsideUnchanged, orderVars
  <2>2. Captured' = Captured /\ Declined' = Declined \cup {o} /\ o \notin Captured
    BY <2>1 DEF Captured, Declined, Event
  <2>. QED
    BY <2>1, <2>2 DEF Book!Next, Book!Decline
<1>3. CASE DisputeOpened(o) \/ CarrierDelivers(o)
  <2>1. PICK type \in {"charge.dispute.created", "tracker.delivered"} :
          /\ events' = events \cup {Event(type, o, 0)}
          /\ UNCHANGED <<captured, refunded, refundAmount, payment>>
    BY <1>3 DEF DisputeOpened, CarrierDelivers, Emit, outsideUnchanged, orderVars
  <2>2. UNCHANGED <<Captured, Declined>>
    BY <2>1 DEF Captured, Declined, Event
  <2>. QED
    BY <2>1, <2>2, BookStands
<1>4. ASSUME NEW amount \in Amounts, DashboardRefund(o, amount)
      PROVE  [Book!Next]_(Book!bookVars)
  <2>1. /\ amount > 0 /\ StripeExecutesRefund(o, amount)
        /\ UNCHANGED <<captured, refundAmount, payment>>
    BY <1>4 DEF DashboardRefund, outsideUnchanged, orderVars
  <2>. QED
    BY <2>1, GivenBack DEF Book!Next
<1>. QED
  BY <1>1, <1>2, <1>3, <1>4 DEF Outside

(* What the handlers write.  An event tells the truth, so the payment is   *)
(* said to have succeeded, failed or been given back when it has.          *)
LEMMA HandlersKeepBook ==
  ASSUME TypeInv, MoneyInv, NEW w \in Workers, Handler(w)
  PROVE  [Book!Next]_(Book!bookVars)
<1>. USE DEF TypeInv
<1>. DEFINE j == job[w]
            o == job[w].order
<1>0. j.op # "idle" => /\ o \in Orders /\ j.cumulative \in 0..Total /\ j.amount \in 0..Total
                       /\ refunded[o] \in 0..Total
  BY JobTyped DEF TypeOK, Amounts
<1>1. UNCHANGED <<stripeVars, events>> => UNCHANGED <<Captured, Declined, refunded>>
  BY DEF stripeVars, Captured, Declined
<1>2. CASE CreateRefundAnswered(w)
  <2>1. j.op = "createRefund" /\ UNCHANGED <<refundAmount, payment>> /\ j.amount > 0
    BY <1>2 DEF CreateRefundAnswered, orderVars, MoneyInv, JobsTrue
  <2>2. CASE StripeReplaysRefund(j)
    BY <1>1, <2>1, <2>2, BookStands DEF StripeReplaysRefund
  <2>3. CASE StripeExecutesRefund(o, j.amount) /\ UNCHANGED captured
    BY <1>0, <2>1, <2>3, GivenBack DEF Book!Next, Amounts
  <2>. QED
    BY <1>2, <2>2, <2>3 DEF CreateRefundAnswered
<1>3. CASE CreateRefundRefused(w) \/ UpdateStatusCommit(w)
           \/ ChargeDisputeCreatedCommit(w) \/ TrackerDeliveredCommit(w)
  <2>1. UNCHANGED <<stripeVars, events, refundAmount, payment>>
    BY <1>3 DEF CreateRefundRefused, UpdateStatusCommit, ChargeDisputeCreatedCommit,
       TrackerDeliveredCommit, WebhookDone, orderVars
  <2>. QED
    BY <1>1, <2>1, BookStands
<1>4. CASE RefundOrderCommit(w)
  <2>1. /\ j.op = "refundCommit" /\ j.to = refundTarget(j.cumulative)
        /\ 0 < j.cumulative /\ j.cumulative <= refunded[o]
    BY <1>4 DEF RefundOrderCommit, JobShape, MoneyInv, JobsTrue
  <2>2. /\ payment' = [payment EXCEPT ![o] = j.to]
        /\ refundAmount' = [refundAmount EXCEPT ![o] = j.cumulative]
        /\ UNCHANGED <<stripeVars, events>>
    BY <1>4 DEF RefundOrderCommit, RecordRefund
  <2>3. o \in Orders /\ j.cumulative \in 1..Total
    BY <1>0, <2>1
  <2>4. Book!RecordRefund(o, j.cumulative)
    BY <1>0, <1>1, <2>1, <2>2, <2>3, Recorded
  <2>. QED
    BY <2>3, <2>4 DEF Book!Next
<1>5. CASE PaymentIntentSucceededCommit(w) \/ PaymentIntentFailedCommit(w)
  <2>1. /\ Event(j.op, o, j.amount) \in events
        /\ \/ j.op = "payment_intent.succeeded" /\ payment' = [payment EXCEPT ![o] = "SUCCEEDED"]
           \/ j.op = "payment_intent.payment_failed" /\ payment' = [payment EXCEPT ![o] = "FAILED"]
        /\ UNCHANGED <<stripeVars, events, refundAmount>>
    BY <1>5 DEF PaymentIntentSucceededCommit, PaymentIntentFailedCommit, WebhookDone, JobShape,
       EventTypes
  <2>2. /\ j.op = "payment_intent.succeeded" => o \in Captured
        /\ j.op = "payment_intent.payment_failed" => o \in Declined
    BY <1>0, <2>1 DEF MoneyInv, EventsTrue, Event, Captured, Declined
  <2>3. Book!NotePayment(o)
    BY <1>1, <2>1, <2>2 DEF Book!NotePayment, Book!Note
  <2>. QED
    BY <1>0, <2>1, <2>3 DEF Book!Next
<1>6. CASE ChargeRefundedCommit(w)
  <2>1. /\ j.op = "charge.refunded" /\ j.cumulative = j.amount /\ j.to = refundTarget(j.amount)
        /\ Event("charge.refunded", o, j.amount) \in events
    BY <1>6 DEF ChargeRefundedCommit, JobShape, EventTypes
  <2>2. 0 < j.amount /\ j.amount <= refunded[o]
    BY <2>1 DEF MoneyInv, EventsTrue, Event
  <2>3. /\ payment' = [payment EXCEPT ![o] = j.to]
        /\ \/ refundAmount' = [refundAmount EXCEPT ![o] = j.cumulative]
           \/ UNCHANGED refundAmount
        /\ UNCHANGED <<stripeVars, events>>
    BY <1>6 DEF ChargeRefundedCommit, WebhookDone, RecordRefund
  <2>4. o \in Orders /\ j.amount \in 1..Total
    BY <1>0, <2>1, <2>2
  <2>5. Book!NotePayment(o) \/ Book!RecordRefund(o, j.amount)
    BY <1>0, <1>1, <2>1, <2>2, <2>3, <2>4, Recorded
  <2>. QED
    BY <2>4, <2>5 DEF Book!Next
<1>. QED
  BY <1>2, <1>3, <1>4, <1>5, <1>6 DEF Handler

LEMMA BookNext ==
  TypeInv /\ MoneyInv /\ [Next]_vars => [Book!Next]_(Book!bookVars)
<1>. SUFFICES ASSUME TypeInv, MoneyInv, [Next]_vars
              PROVE  [Book!Next]_(Book!bookVars)
  OBVIOUS
<1>1. ASSUME UNCHANGED <<captured, refunded, events, refundAmount, payment>>
      PROVE  [Book!Next]_(Book!bookVars)
  BY <1>1, BookStands DEF Captured, Declined
<1>2. ASSUME ~\E o \in Orders : Outside(o), ~\E w \in Workers : Handler(w)
      PROVE  UNCHANGED <<captured, refunded, events, refundAmount, payment>>
  BY <1>2 DEF Next, UpdateStatusRead, RefundOrderRead, WebhookRead, WebhookSkip, HandlerDies,
     orderVars, stripeVars, vars
<1>. QED
  BY <1>1, <1>2, StripeKeepsBook, HandlersKeepBook

(* Whatever handlers, replays, late events and Dashboard refunds overlap,  *)
(* what the shop writes of an order's money keeps the refund book          *)
(* (RefundBookKept): no amount before Stripe has given it back, and each   *)
(* with its status of the payment.                                         *)
THEOREM BookIsKept == Spec => RefundBookKept
<1>1. Init => Book!Init
  BY DEF Init, Book!Init, Captured, Declined
<1>. QED
  BY <1>1, BookNext, TypeInit, TypeNext, MoneyInit, MoneyNext, PTL
  DEF Spec, RefundBookKept, Book!Spec

----------------------------------------------------------------------------
(* The loyalty credit: the status and the refund transactions write it.*)

Credited == {o \in Orders : ledger[o] # 0}

(* One credit more, one credit less. *)
LEMMA CreditsCounted ==
  ASSUME NEW o \in Orders, NEW S \in SUBSET Orders
  PROVE  /\ Cardinality(S) \in Nat
         /\ o \notin S => Points * Cardinality(S \cup {o}) = Points * Cardinality(S) + Points
         /\ o \in S => Points * Cardinality(S \ {o}) = Points * Cardinality(S) - Points
<1>1. IsFiniteSet(S)
  BY FS_Subset
<1>2. Cardinality(S) \in Nat
  BY <1>1, FS_CardinalityType
<1>3. ASSUME NEW n \in Int
      PROVE  Points * (n + 1) = Points * n + Points /\ Points * (n - 1) = Points * n - Points
  OBVIOUS
<1>4. o \notin S => Cardinality(S \cup {o}) = Cardinality(S) + 1
  BY <1>1, FS_AddElement
<1>5. o \in S => Cardinality(S \ {o}) = Cardinality(S) - 1
  BY <1>1, FS_RemoveElement
<1>. QED
  BY <1>2, <1>3, <1>4, <1>5

LEMMA AwardKeeps ==
  ASSUME TypeOK, LedgerMatchesOrder, NEW o \in Orders, awardForDelivered(o)
  PROVE  LedgerMatchesOrder'
<1>1. CASE pointsEarned[o] > 0 \/ Points = 0
  <2>1. UNCHANGED <<pointsEarned, ledger, balance>>
    BY <1>1 DEF awardForDelivered, PostPoints, loyalty, TypeOK, LedgerMatchesOrder
  <2>. QED
    BY <2>1 DEF LedgerMatchesOrder
<1>2. CASE ~(pointsEarned[o] > 0) /\ Points # 0
  <2>1. /\ pointsEarned[o] = 0 /\ ledger[o] = 0 /\ Points > 0
        /\ pointsEarned' = [pointsEarned EXCEPT ![o] = Points]
        /\ ledger' = [ledger EXCEPT ![o] = Points]
        /\ balance' = balance + Points
    BY <1>2 DEF awardForDelivered, PostPoints, TypeOK, LedgerMatchesOrder
  <2>2. Credited' = Credited \cup {o} /\ o \notin Credited
    BY <2>1 DEF Credited, TypeOK
  <2>3. balance' = Points * Cardinality(Credited')
    BY <2>1, <2>2, CreditsCounted DEF LedgerMatchesOrder, Credited
  <2>. QED
    BY <2>1, <2>3 DEF LedgerMatchesOrder, Credited, TypeOK
<1>. QED
  BY <1>1, <1>2

LEMMA ReverseKeeps ==
  ASSUME TypeOK, LedgerMatchesOrder, NEW o \in Orders, reverseForCancellationOrRefund(o)
  PROVE  LedgerMatchesOrder'
<1>1. CASE pointsEarned[o] = 0
  <2>1. UNCHANGED <<pointsEarned, ledger, balance>>
    BY <1>1 DEF reverseForCancellationOrRefund, PostPoints, TypeOK, LedgerMatchesOrder
  <2>. QED
    BY <2>1 DEF LedgerMatchesOrder
<1>2. CASE pointsEarned[o] # 0
  <2>1. pointsEarned[o] = Points /\ ledger[o] = Points /\ Points > 0 /\ ledger[o] - Points = 0
    BY <1>2 DEF LedgerMatchesOrder
  <2>2. /\ pointsEarned' = [pointsEarned EXCEPT ![o] = 0]
        /\ ledger' = [ledger EXCEPT ![o] = 0]
        /\ balance' = balance - Points
    BY <2>1 DEF reverseForCancellationOrRefund, PostPoints, TypeOK
  <2>3. Credited' = Credited \ {o} /\ o \in Credited
    BY <2>1, <2>2 DEF Credited, TypeOK
  <2>4. balance' = Points * Cardinality(Credited')
    BY <2>1, <2>2, <2>3, CreditsCounted DEF LedgerMatchesOrder, Credited
  <2>. QED
    BY <2>1, <2>2, <2>4 DEF LedgerMatchesOrder, Credited, TypeOK
<1>. QED
  BY <1>1, <1>2

LEMMA LedgerNext == TypeOK /\ LedgerMatchesOrder /\ [Next]_vars => LedgerMatchesOrder'
<1> SUFFICES ASSUME TypeOK, LedgerMatchesOrder, [Next]_vars
             PROVE  LedgerMatchesOrder'
  OBVIOUS
<1>1. ASSUME UNCHANGED <<pointsEarned, loyalty>>
      PROVE  LedgerMatchesOrder'
  BY <1>1 DEF loyalty, LedgerMatchesOrder
<1>2. ASSUME NEW w \in Workers, UpdateStatusCommit(w)
      PROVE  LedgerMatchesOrder'
  <2>1. job[w].order \in Orders
    BY <1>2, JobTyped DEF UpdateStatusCommit
  <2>. QED
    BY <1>1, <1>2, <2>1, AwardKeeps, ReverseKeeps DEF UpdateStatusCommit
<1>3. ASSUME NEW w \in Workers, RefundOrderCommit(w)
      PROVE  LedgerMatchesOrder'
  <2>1. job[w].order \in Orders
    BY <1>3, JobTyped DEF RefundOrderCommit
  <2>. QED
    BY <1>3, <2>1, ReverseKeeps DEF RefundOrderCommit
<1>4. ASSUME NEW w \in Workers, Handler(w), ~UpdateStatusCommit(w), ~RefundOrderCommit(w)
      PROVE  UNCHANGED <<pointsEarned, loyalty>>
  BY <1>4 DEF Handler, CreateRefundAnswered, CreateRefundRefused, PaymentIntentSucceededCommit,
     PaymentIntentFailedCommit, ChargeRefundedCommit, ChargeDisputeCreatedCommit,
     TrackerDeliveredCommit, WebhookDone, orderVars
<1>5. ASSUME NEW o \in Orders, Outside(o)
      PROVE  UNCHANGED <<pointsEarned, loyalty>>
  BY <1>5 DEF Outside, CustomerPays, CustomerDeclined, DisputeOpened, CarrierDelivers,
     DashboardRefund, outsideUnchanged, orderVars
<1>6. \/ \E o \in Orders : Outside(o)
      \/ \E w \in Workers : Handler(w)
      \/ UNCHANGED <<pointsEarned, loyalty>>
  BY DEF Next, UpdateStatusRead, RefundOrderRead, WebhookRead, WebhookSkip, HandlerDies,
     orderVars, vars
<1>. QED
  BY <1>1, <1>2, <1>3, <1>4, <1>5, <1>6

(* However deliveries, cancellations and refunds overlap, an order is      *)
(* credited once and debited what it was credited, and the balance of the  *)
(* customer is one credit for each order that stands credited.             *)
THEOREM LedgerMatches == Spec => []LedgerMatchesOrder
<1>1. Init => LedgerMatchesOrder
  <2>. SUFFICES ASSUME Init PROVE LedgerMatchesOrder
    OBVIOUS
  <2>1. {o \in Orders : ledger[o] # 0} = {}
    BY DEF Init
  <2>2. Points * Cardinality({o \in Orders : ledger[o] # 0}) = 0
    BY <2>1, FS_EmptySet
  <2>. QED
    BY <2>2 DEF Init, LedgerMatchesOrder
<1>2. TypeInv => TypeOK
  BY DEF TypeInv
<1>. QED
  BY <1>1, <1>2, TypeInit, TypeNext, LedgerNext, PTL DEF Spec

----------------------------------------------------------------------------
(***************************************************************************)
(* The order flow.  Each write of an order row is the whitelisted move     *)
(* from the status its handler has read (OrderWrites).  What is left to    *)
(* ask is whether that status is still there: if it is, for any number of  *)
(* handlers, the order lifecycle implements the order flow and the amount  *)
(* given back never shrinks; and it is, while no two handlers are in       *)
(* flight.                                                                 *)
(***************************************************************************)

orderRows == <<status, newestHistory, refundAmount>>

(* A handler that writes without asking the whitelist again asked before.  *)
Allowed(j) ==
  /\ j.op \in {"updateStatus", "refundCommit"} => isValidOrderStatusTransition(j.seen, j.to)
  /\ j.op = "charge.dispute.created" => isValidOrderStatusTransition(j.seen, "ON_HOLD")
  /\ j.op = "tracker.delivered" => isValidOrderStatusTransition(j.seen, "DELIVERED")

MoveWasAllowed == \A w \in Workers : Allowed(job[w])

LEMMA AllowedBegins ==
  ASSUME TypeOK, MoveWasAllowed, NEW w \in Workers, NEW j, Allowed(j), Begin(w, j)
  PROVE  MoveWasAllowed'
BY DEF TypeOK, MoveWasAllowed, Begin

LEMMA AllowedEnds ==
  ASSUME TypeOK, MoveWasAllowed, NEW w \in Workers, End(w)
  PROVE  MoveWasAllowed'
<1>1. Allowed(Idle)
  BY DEF Allowed, Idle
<1>. QED
  BY <1>1 DEF TypeOK, MoveWasAllowed, Allowed, End

(* The move of a handler, from the status that it read; the amount of a    *)
(* refund is recorded with it.                                             *)
Moves(w) ==
  /\ job[w] \in Jobs
  /\ \E to \in ALLOWED_ORDER_STATUS_TRANSITIONS[job[w].seen] :
       /\ WriteStatus(job[w].order, job[w].seen, to)
       /\ \/ UNCHANGED refundAmount
          \/ to = refundTarget(job[w].cumulative) /\ RecordRefund(job[w])

(* What a handler does to the order rows, and to the jobs. *)
LEMMA HandlerWrites ==
  ASSUME TypeInv, MoveWasAllowed, NEW w \in Workers, Handler(w)
  PROVE  /\ MoveWasAllowed'
         /\ UNCHANGED orderRows \/ Moves(w)
         /\ End(w) \/ (UNCHANGED orderRows /\ job' = [job EXCEPT ![w].op = "refundCommit"])
<1>. USE DEF TypeInv
<1>1. CASE CreateRefundAnswered(w)
  <2>1. UNCHANGED orderRows /\ job[w].op = "createRefund"
    BY <1>1 DEF CreateRefundAnswered, orderVars, orderRows
  <2>2. CASE End(w)
    BY <2>1, <2>2, AllowedEnds
  <2>3. CASE /\ isValidOrderStatusTransition(job[w].seen, job[w].to)
             /\ job' = [job EXCEPT ![w].op = "refundCommit"]
    <3>1. job[w] \in Jobs
      BY <2>1, JobTyped
    <3>2. Allowed([job[w] EXCEPT !.op = "refundCommit"])
      BY <2>3, <3>1 DEF Allowed, Jobs
    <3>3. MoveWasAllowed'
      BY <2>3, <3>1, <3>2 DEF TypeOK, MoveWasAllowed, Allowed
    <3>. QED
      BY <2>1, <2>3, <3>3
  <2>. QED
    BY <1>1, <2>2, <2>3 DEF CreateRefundAnswered
<1>2. CASE CreateRefundRefused(w)
  BY <1>2, AllowedEnds DEF CreateRefundRefused, orderVars, orderRows
<1>3. CASE UpdateStatusCommit(w)
  <2>1. job[w].op = "updateStatus" /\ End(w) /\ UNCHANGED refundAmount
        /\ WriteStatus(job[w].order, job[w].seen, job[w].to)
    BY <1>3 DEF UpdateStatusCommit
  <2>2. Moves(w)
    BY <2>1, JobTyped DEF Moves, MoveWasAllowed, Allowed, isValidOrderStatusTransition
  <2>. QED
    BY <2>1, <2>2, AllowedEnds
<1>4. CASE RefundOrderCommit(w)
  <2>1. job[w].op = "refundCommit" /\ End(w) /\ RecordRefund(job[w])
        /\ WriteStatus(job[w].order, job[w].seen, job[w].to)
    BY <1>4 DEF RefundOrderCommit
  <2>2. job[w].to = refundTarget(job[w].cumulative)
    BY <2>1 DEF JobShape
  <2>3. Moves(w)
    BY <2>1, <2>2, JobTyped DEF Moves, MoveWasAllowed, Allowed, isValidOrderStatusTransition
  <2>. QED
    BY <2>1, <2>3, AllowedEnds
<1>5. CASE PaymentIntentSucceededCommit(w) \/ PaymentIntentFailedCommit(w) \/ ChargeRefundedCommit(w)
  <2>1. /\ job[w].op # "idle" /\ End(w) /\ WriteStatusIfAllowed(job[w])
        /\ \/ UNCHANGED refundAmount
           \/ MoveAllowed(job[w]) /\ RecordRefund(job[w]) /\ job[w].op = "charge.refunded"
    BY <1>5 DEF PaymentIntentSucceededCommit, PaymentIntentFailedCommit, ChargeRefundedCommit,
       WebhookDone
  <2>2. CASE MoveAllowed(job[w])
    <3>1. /\ WriteStatus(job[w].order, job[w].seen, job[w].to)
          /\ job[w].to \in ALLOWED_ORDER_STATUS_TRANSITIONS[job[w].seen]
      BY <2>1, <2>2 DEF WriteStatusIfAllowed, MoveAllowed, isValidOrderStatusTransition
    <3>2. job[w].op = "charge.refunded" => job[w].to = refundTarget(job[w].cumulative)
      BY DEF JobShape
    <3>3. Moves(w)
      BY <2>1, <3>1, <3>2, JobTyped DEF Moves
    <3>. QED
      BY <2>1, <3>3, AllowedEnds
  <2>3. CASE ~MoveAllowed(job[w])
    BY <2>1, <2>3, AllowedEnds DEF WriteStatusIfAllowed, orderRows
  <2>. QED
    BY <2>2, <2>3
<1>6. CASE ChargeDisputeCreatedCommit(w) \/ TrackerDeliveredCommit(w)
  <2>1. PICK to \in {"ON_HOLD", "DELIVERED"} :
          /\ WriteStatus(job[w].order, job[w].seen, to)
          /\ to \in ALLOWED_ORDER_STATUS_TRANSITIONS[job[w].seen]
    BY <1>6 DEF ChargeDisputeCreatedCommit, TrackerDeliveredCommit, MoveWasAllowed, Allowed,
       isValidOrderStatusTransition
  <2>2. job[w].op # "idle" /\ End(w) /\ UNCHANGED refundAmount
    BY <1>6 DEF ChargeDisputeCreatedCommit, TrackerDeliveredCommit, WebhookDone
  <2>3. Moves(w)
    BY <2>1, <2>2, JobTyped DEF Moves
  <2>. QED
    BY <2>2, <2>3, AllowedEnds
<1>. QED
  BY <1>1, <1>2, <1>3, <1>4, <1>5, <1>6 DEF Handler

(* A handler begins with the status that it reads. *)
Begins ==
  \E w \in Workers, o \in Orders, j \in Jobs :
    Begin(w, j) /\ Allowed(j) /\ j.order = o /\ j.seen = status[o]

(* The steps by what they do to the order rows and the jobs. *)
LEMMA OtherSteps ==
  ASSUME TypeInv, TypeInv', [Next]_vars, ~\E w \in Workers : Handler(w)
  PROVE  /\ UNCHANGED orderRows
         /\ \/ UNCHANGED job
            \/ \E w \in Workers : End(w)
            \/ Begins
<1>. USE DEF TypeInv
<1>1. ASSUME NEW w \in Workers, NEW o \in Orders, NEW j, Begin(w, j), Allowed(j),
             j.op # "idle", j.order = o, j.seen = status[o]
      PROVE  Begins
  <2>1. job'[w] = j /\ j \in Jobs \cup {Idle}
    BY <1>1 DEF Begin, TypeOK
  <2>2. j \in Jobs
    BY <1>1, <2>1 DEF Begin, TypeOK, Idle
  <2>. QED
    BY <1>1, <2>2 DEF Begins
<1>2. ASSUME NEW w \in Workers, NEW o \in Orders, NEW to \in OrderStatuses,
             UpdateStatusRead(w, o, to)
      PROVE  UNCHANGED orderRows /\ Begins
  BY <1>1, <1>2 DEF UpdateStatusRead, orderVars, orderRows, Allowed
<1>3. ASSUME NEW w \in Workers, NEW o \in Orders, NEW amount \in RefundOrderModal,
             RefundOrderRead(w, o, amount)
      PROVE  UNCHANGED orderRows /\ Begins
  BY <1>1, <1>3 DEF RefundOrderRead, orderVars, orderRows, Allowed
<1>4. ASSUME NEW w \in Workers, NEW e \in events, WebhookRead(w, e)
      PROVE  UNCHANGED orderRows /\ Begins
  <2>1. e.type \in EventTypes /\ e.order \in Orders
    BY DEF TypeOK, Events
  <2>2. /\ e.type = "charge.dispute.created" =>
             isValidOrderStatusTransition(status[e.order], "ON_HOLD")
        /\ e.type = "tracker.delivered" =>
             isValidOrderStatusTransition(status[e.order], "DELIVERED")
    BY <1>4, <2>1 DEF WebhookRead, AlreadyHandled, TargetStatus, EventTarget, EventTypes
  <2>3. e.type \notin {"updateStatus", "refundCommit", "idle"}
    BY <2>1 DEF EventTypes
  <2>. QED
    BY <1>1, <1>4, <2>1, <2>2, <2>3 DEF WebhookRead, orderVars, orderRows, Allowed
<1>5. ASSUME NEW w \in Workers, HandlerDies(w)
      PROVE  UNCHANGED orderRows /\ \E v \in Workers : End(v)
  BY <1>5 DEF HandlerDies, orderVars, orderRows
<1>6. ASSUME NEW o \in Orders, Outside(o)
      PROVE  UNCHANGED orderRows /\ UNCHANGED job
  BY <1>6 DEF Outside, CustomerPays, CustomerDeclined, DisputeOpened, CarrierDelivers,
     DashboardRefund, outsideUnchanged, orderVars, orderRows
<1>7. ASSUME NEW e \in events, WebhookSkip(e)
      PROVE  UNCHANGED orderRows /\ UNCHANGED job
  BY <1>7 DEF WebhookSkip, orderVars, orderRows
<1>8. CASE UNCHANGED vars
  BY <1>8 DEF vars, orderVars, orderRows
<1>. QED
  BY <1>2, <1>3, <1>4, <1>5, <1>6, <1>7, <1>8 DEF Next

LEMMA AllowedInit == Init => MoveWasAllowed
BY DEF Init, MoveWasAllowed, Allowed, Idle

(* Whatever step is taken, an order row stays as it is, or is written with *)
(* the move of one handler.                                                *)
LEMMA OrderWrites ==
  TypeInv /\ TypeInv' /\ MoveWasAllowed /\ [Next]_vars
    => MoveWasAllowed' /\ (UNCHANGED orderRows \/ \E w \in Workers : Moves(w))
<1>. SUFFICES ASSUME TypeInv, TypeInv', MoveWasAllowed, [Next]_vars
              PROVE  MoveWasAllowed' /\ (UNCHANGED orderRows \/ \E w \in Workers : Moves(w))
  OBVIOUS
<1>1. CASE \E w \in Workers : Handler(w)
  BY <1>1, HandlerWrites
<1>2. CASE ~\E w \in Workers : Handler(w)
  <2>1. MoveWasAllowed'
    <3>1. UNCHANGED job => MoveWasAllowed'
      BY DEF MoveWasAllowed
    <3>. QED
      BY <1>2, <3>1, OtherSteps, AllowedBegins, AllowedEnds DEF Begins, TypeInv
  <2>. QED
    BY <1>2, <2>1, OtherSteps
<1>. QED
  BY <1>1, <1>2

----------------------------------------------------------------------------
OrderMoves == [Flow!Next]_(Flow!flowVars)

(* Every whitelisted move is a step of the order flow. *)
LEMMA MoveIsFlow ==
  ASSUME TypeOK, NEW o \in Orders, NEW to,
         isValidOrderStatusTransition(status[o], to), WriteStatus(o, status[o], to)
  PROVE  Flow!Next
<1>1. Flow!Move(o, to)
  BY DEF WriteStatus, Flow!Move
<1>2. status[o] \in OrderStatuses
  BY DEF TypeOK
<1>3. /\ Flow!Stages = {"PENDING", "PAID", "PROCESSING", "SHIPPED", "DELIVERED"}
      /\ Flow!Shipped = {"SHIPPED", "DELIVERED"}
  BY DEF Flow!Stages, Flow!Fulfilment, Flow!Shipped
<1>4. ASSUME NEW i \in 1..4, status[o] = Flow!Fulfilment[i], to = Flow!Fulfilment[i + 1]
      PROVE  Flow!Advance(o)
  BY <1>1, <1>4 DEF Flow!Advance, Flow!Fulfilment
<1>5. CASE <<status[o], to>> \in {<<"PENDING", "PAID">>, <<"PAID", "PROCESSING">>,
                                  <<"PROCESSING", "SHIPPED">>, <<"SHIPPED", "DELIVERED">>}
  <2>1. \E i \in 1..4 : status[o] = Flow!Fulfilment[i] /\ to = Flow!Fulfilment[i + 1]
    BY <1>5 DEF Flow!Fulfilment
  <2>. QED
    BY <1>4, <2>1 DEF Flow!Next
<1>6. CASE to = "CANCELLED"
  BY <1>1, <1>2, <1>3, <1>6 DEF Flow!Next, Flow!Cancel, isValidOrderStatusTransition,
     ALLOWED_ORDER_STATUS_TRANSITIONS, OrderStatuses
<1>7. CASE to = "ON_HOLD"
  BY <1>1, <1>2, <1>3, <1>7 DEF Flow!Next, Flow!Freeze, isValidOrderStatusTransition,
     ALLOWED_ORDER_STATUS_TRANSITIONS, OrderStatuses
<1>8. CASE to = "PARTIALLY_REFUNDED"
  BY <1>1, <1>2, <1>3, <1>8 DEF Flow!Next, Flow!RefundPart, isValidOrderStatusTransition,
     ALLOWED_ORDER_STATUS_TRANSITIONS, OrderStatuses
<1>9. CASE to = "REFUNDED"
  BY <1>1, <1>2, <1>9 DEF Flow!Next, Flow!RefundFully, isValidOrderStatusTransition,
     ALLOWED_ORDER_STATUS_TRANSITIONS, OrderStatuses
<1>. QED
  BY <1>2, <1>5, <1>6, <1>7, <1>8, <1>9 DEF isValidOrderStatusTransition,
     ALLOWED_ORDER_STATUS_TRANSITIONS, OrderStatuses

(* A move over the status that was read is a step of the flow, a move over *)
(* another one is an overwrite.                                            *)
LEMMA MoveOrOverwrite ==
  ASSUME TypeInv, NEW w \in Workers, Moves(w)
  PROVE  /\ job[w].seen = status[job[w].order] => Flow!Next
         /\ job[w].seen # status[job[w].order] => Overwrites(w)
<1>1. job[w] \in Jobs /\ job[w].order \in Orders /\ job[w] # Idle
  BY DEF Moves, Jobs, Idle
<1>2. PICK to \in ALLOWED_ORDER_STATUS_TRANSITIONS[job[w].seen] :
        WriteStatus(job[w].order, job[w].seen, to)
  BY DEF Moves
<1>3. job[w].seen = status[job[w].order] => Flow!Next
  BY <1>1, <1>2, MoveIsFlow DEF TypeInv, isValidOrderStatusTransition
<1>. QED
  BY <1>1, <1>2, <1>3 DEF Overwrites

LEMMA FlowOrOverwrite ==
  TypeInv /\ TypeInv' /\ MoveWasAllowed /\ [Next]_vars
    => OrderMoves \/ \E w \in Workers : Overwrites(w)
<1>1. UNCHANGED orderRows => OrderMoves
  BY DEF orderRows, OrderMoves, Flow!flowVars
<1>. QED
  BY <1>1, OrderWrites, MoveOrOverwrite DEF OrderMoves

(* Any number of handlers: each step is a step of the order flow, or that  *)
(* of a handler which found another status than it had read                *)
(* (OnlyOverwritesLeaveTheFlow).                                           *)
THEOREM OnlyOverwrites == Spec => OnlyOverwritesLeaveTheFlow
<1>1. TypeInv /\ TypeInv' /\ MoveWasAllowed /\ [Next]_vars
        => [[Flow!Next]_(Flow!flowVars) \/ \E w \in Workers : Overwrites(w)]_vars
  BY FlowOrOverwrite DEF OrderMoves
<1>2. TypeInv /\ TypeInv' /\ MoveWasAllowed /\ [Next]_vars => MoveWasAllowed'
  BY OrderWrites
<1>. QED
  BY <1>1, <1>2, TypeInit, TypeNext, AllowedInit, PTL DEF Spec, OnlyOverwritesLeaveTheFlow

----------------------------------------------------------------------------
(* No handler writes over what it has not seen, as if each update named    *)
(* the status that was read.                                               *)

NoOverwrites == \A w \in Workers : ~Overwrites(w)

(* The amount is only ever written together with a refund status, and no   *)
(* other status follows one.                                               *)
RefundShows ==
  \A o \in Orders :
    refundAmount[o] > 0 => status[o] \in {"PARTIALLY_REFUNDED", "REFUNDED"}

RefundGrows == \A o \in Orders : refundAmount[o] <= refundAmount'[o]

(* From a refunded order a move can only be the full refund, which records *)
(* no less; another order has no amount to lose.                           *)
LEMMA RefundMoves ==
  ASSUME TypeInv, RefundShows, NEW w \in Workers, Moves(w), job[w].seen = status[job[w].order]
  PROVE  RefundShows' /\ RefundGrows
<1>. DEFINE j == job[w]
            o == job[w].order
<1>1. /\ o \in Orders /\ j.cumulative \in 0..Total
      /\ status[o] \in OrderStatuses /\ refundAmount[o] \in 0..Total
  BY DEF Moves, Jobs, TypeInv, TypeOK, Amounts
<1>2. PICK to \in ALLOWED_ORDER_STATUS_TRANSITIONS[status[o]] :
        /\ WriteStatus(o, status[o], to)
        /\ UNCHANGED refundAmount \/ (to = refundTarget(j.cumulative) /\ RecordRefund(j))
  BY DEF Moves
<1>3. status[o] \in {"PARTIALLY_REFUNDED", "REFUNDED"} => to = "REFUNDED"
  BY <1>2 DEF ALLOWED_ORDER_STATUS_TRANSITIONS
<1>4. status' = [status EXCEPT ![o] = to]
  BY <1>2 DEF WriteStatus
<1>5. CASE UNCHANGED refundAmount
  BY <1>1, <1>3, <1>4, <1>5 DEF RefundShows, RefundGrows, TypeInv, TypeOK, Amounts
<1>6. CASE to = refundTarget(j.cumulative) /\ RecordRefund(j)
  <2>1. /\ to \in {"PARTIALLY_REFUNDED", "REFUNDED"}
        /\ to = "REFUNDED" => j.cumulative = Total
    BY <1>1, <1>6 DEF refundTarget
  <2>2. refundAmount[o] <= j.cumulative
    BY <1>1, <1>3, <2>1 DEF RefundShows
  <2>3. refundAmount' = [refundAmount EXCEPT ![o] = j.cumulative]
    BY <1>6 DEF RecordRefund
  <2>. QED
    BY <1>1, <1>4, <2>1, <2>2, <2>3 DEF RefundShows, RefundGrows, TypeInv, TypeOK, Amounts
<1>. QED
  BY <1>2, <1>5, <1>6

LEMMA RefundNext ==
  TypeInv /\ TypeInv' /\ MoveWasAllowed /\ RefundShows /\ [Next]_vars /\ NoOverwrites
    => RefundShows' /\ RefundGrows /\ OrderMoves
<1>. SUFFICES ASSUME TypeInv, TypeInv', MoveWasAllowed, RefundShows, [Next]_vars, NoOverwrites
              PROVE  RefundShows' /\ RefundGrows
  BY FlowOrOverwrite DEF NoOverwrites
<1>1. CASE UNCHANGED orderRows
  BY <1>1 DEF orderRows, RefundShows, RefundGrows, TypeInv, TypeOK, Amounts
<1>2. CASE \E w \in Workers : Moves(w)
  BY <1>2, RefundMoves, MoveOrOverwrite DEF NoOverwrites
<1>. QED
  BY <1>1, <1>2, OrderWrites

(* While every handler finds the status it has read, whatever the number   *)
(* of handlers in flight, all writers of Order.status keep to the order    *)
(* flow and leave true history rows, and no late event takes a recorded    *)
(* refund back.                                                            *)
THEOREM FlowWithoutOverwrites ==
  Spec /\ [][NoOverwrites]_vars => FlowImplemented /\ RefundAmountNeverShrinks
<1>. DEFINE Inv == TypeInv /\ MoveWasAllowed /\ RefundShows
<1>1. Init => Flow!Init /\ RefundShows
  BY DEF Init, Flow!Init, RefundShows
<1>2. Inv /\ TypeInv' /\ [Next]_vars /\ [NoOverwrites]_vars
        => /\ MoveWasAllowed' /\ RefundShows' /\ [Flow!Next]_(Flow!flowVars)
           /\ [\A o \in Orders : refundAmount[o] <= refundAmount'[o]]_vars
  <2>. SUFFICES ASSUME Inv, TypeInv', [Next]_vars, [NoOverwrites]_vars
                PROVE  /\ MoveWasAllowed' /\ RefundShows' /\ [Flow!Next]_(Flow!flowVars)
                       /\ [\A o \in Orders : refundAmount[o] <= refundAmount'[o]]_vars
    OBVIOUS
  <2>1. MoveWasAllowed'
    BY OrderWrites
  <2>2. CASE NoOverwrites
    BY <2>1, <2>2, RefundNext DEF OrderMoves, RefundGrows
  <2>3. CASE UNCHANGED vars
    BY <2>1, <2>3 DEF vars, orderVars, RefundShows, Flow!flowVars
  <2>. QED
    BY <2>2, <2>3
<1>. QED
  BY <1>1, <1>2, TypeInit, TypeNext, AllowedInit, PTL
  DEF Spec, FlowImplemented, Flow!Spec, RefundAmountNeverShrinks

----------------------------------------------------------------------------
(* While no two handlers are in flight, nobody else writes. *)

OneHandler == \A v, w \in Workers : v = w

(* What the handler has read is still so. *)
SeenIsCurrent ==
  \A w \in Workers : job[w] # Idle => job[w].seen = status[job[w].order]

LEMMA SeenStaysCurrent ==
  OneHandler /\ TypeInv /\ TypeInv' /\ MoveWasAllowed /\ SeenIsCurrent /\ [Next]_vars
    => SeenIsCurrent' /\ NoOverwrites
<1>. SUFFICES ASSUME OneHandler, TypeInv, TypeInv', MoveWasAllowed, SeenIsCurrent, [Next]_vars
              PROVE  SeenIsCurrent'
  BY DEF SeenIsCurrent, NoOverwrites, Overwrites
<1>1. ASSUME NEW w \in Workers, End(w)
      PROVE  SeenIsCurrent'
  BY <1>1 DEF OneHandler, TypeInv, TypeOK, End, SeenIsCurrent
<1>2. ASSUME NEW w \in Workers, Handler(w)
      PROVE  SeenIsCurrent'
  <2>1. CASE UNCHANGED orderRows /\ job' = [job EXCEPT ![w].op = "refundCommit"]
    <3>1. \A v \in Workers : v = w
      BY DEF OneHandler
    <3>2. CASE job[w] \in Jobs
      BY <2>1, <3>1, <3>2 DEF SeenIsCurrent, TypeInv, TypeOK, Jobs, orderRows, Idle
    <3>3. CASE job[w] = Idle
      BY <1>2, <3>3 DEF Idle, Handler, UpdateStatusCommit, CreateRefundAnswered,
         CreateRefundRefused, RefundOrderCommit, PaymentIntentSucceededCommit,
         PaymentIntentFailedCommit, ChargeRefundedCommit, ChargeDisputeCreatedCommit,
         TrackerDeliveredCommit
    <3>. QED
      BY <3>2, <3>3 DEF TypeInv, TypeOK
  <2>. QED
    BY <1>1, <1>2, <2>1, HandlerWrites
<1>3. CASE ~\E w \in Workers : Handler(w)
  <2>1. UNCHANGED orderRows
    BY <1>3, OtherSteps
  <2>2. UNCHANGED job => SeenIsCurrent'
    BY <2>1 DEF orderRows, SeenIsCurrent
  <2>3. ASSUME Begins
        PROVE  SeenIsCurrent'
    <3>1. PICK w \in Workers, j \in Jobs : Begin(w, j) /\ j.seen = status[j.order]
      BY <2>3 DEF Begins
    <3>2. \A v \in Workers : job'[v] = j
      BY <3>1 DEF Begin, OneHandler, TypeInv, TypeOK
    <3>. QED
      BY <2>1, <3>1, <3>2 DEF orderRows, SeenIsCurrent
  <2>. QED
    BY <1>1, <1>3, <2>2, <2>3, OtherSteps
<1>. QED
  BY <1>2, <1>3

LEMMA SerialIsCurrent ==
  ASSUME OneHandler
  PROVE  Spec => [][NoOverwrites]_vars
<1>1. Init => SeenIsCurrent
  BY DEF Init, SeenIsCurrent
<1>2. TypeInv /\ TypeInv' /\ MoveWasAllowed /\ SeenIsCurrent /\ [Next]_vars
        => SeenIsCurrent' /\ MoveWasAllowed' /\ [NoOverwrites]_vars
  BY SeenStaysCurrent, OrderWrites
<1>. QED
  BY <1>1, <1>2, TypeInit, TypeNext, AllowedInit, PTL DEF Spec

(* One handler at a time, every writer of Order.status keeps to the order  *)
(* flow and leaves a true history row.                                     *)
THEOREM SerialImplementsFlow ==
  ASSUME OneHandler
  PROVE  Spec => FlowImplemented
BY SerialIsCurrent, FlowWithoutOverwrites, PTL

(* One handler at a time, a late charge.refunded event never takes back    *)
(* what was recorded.                                                      *)
THEOREM SerialRefundGrows ==
  ASSUME OneHandler
  PROVE  Spec => RefundAmountNeverShrinks
BY SerialIsCurrent, FlowWithoutOverwrites, PTL
=============================================================================
