------------------------------ MODULE Checkout ------------------------------
(***************************************************************************)
(* From the payment step of the web checkout to the charge: the order is   *)
(* created with the customer's loyalty points and a discount code, a       *)
(* PaymentIntent is made for it, the terms are accepted, the customer pays.*)
(*                                                                         *)
(* One registered customer; every mount of the payment step places one     *)
(* order, so an order stands for the mount that asks for it, and several   *)
(* mounts (tabs, or "back" and "continue") overlap.  Money and points are  *)
(* both counted in cents: a point is worth one.                            *)
(***************************************************************************)
EXTENDS Integers, FiniteSets, Functions

CONSTANTS
  Orders,        \* mounts of the payment step, and the orders they place
  Calls,         \* createPaymentIntent requests that may be in flight
  StartBalance,  \* User.loyaltyBalance before
  Subtotal, Shipping, \* of every cart
  DiscountValue, \* of the FIXED_AMOUNT code
  Limits,        \* values Discount.maxUsages takes; 0 is null, no limit
  MaxIntents     \* PaymentIntents Stripe makes per order (bounds the model)

ASSUME OrdersAssumption == IsFiniteSet(Orders)
ASSUME BalanceAssumption == StartBalance \in Nat
ASSUME CartAssumption ==
  Subtotal \in Nat /\ Shipping \in Nat /\ DiscountValue \in Nat \ {0}
ASSUME LimitsAssumption == Limits \subseteq Nat
ASSUME IntentsAssumption == MaxIntents \in Nat

VARIABLES
  checkout,    \* what POST /orders has come to, for each mount
  total,       \* Order.total of a placed order
  balance,     \* User.loyaltyBalance
  usageCount,  \* Discount.usageCount
  maxUsages,   \* Discount.maxUsages
  limitsHad,   \* every value maxUsages has had (history)
  codeState,   \* active; inactive (or expired); deleted
  pending,     \* placed orders still in status PENDING
  job,         \* what each createPaymentIntent request is in the middle of
  intents,     \* Stripe: how many PaymentIntents were made for the order
  keyed,       \* Stripe: the one remembered under create-intent-<orderId>
  paymentRow,  \* Payment.stripeId of the order (0: no row)
  secrets,     \* PaymentIntents whose client secret a browser was given
  terms,       \* orders with an OrderTerms row
  charged      \* Stripe: PaymentIntents that have been paid

discountVars == <<usageCount, maxUsages, limitsHad, codeState>>
orderVars    == <<checkout, total, balance, pending>>
intentVars   == <<job, intents, keyed, paymentRow, secrets>>
vars == <<discountVars, orderVars, intentVars, terms, charged>>

----------------------------------------------------------------------------
Stages == {"none", "create", "apply", "placed", "failed"}

Idle == [op |-> "idle"]

Jobs == [op : {"ask", "insert"}, order : Orders, intent : 0..MaxIntents]

(* redeem: points the buyer asked for; points: pointsToRedeem; limit: the  *)
(* maxUsages the transaction has read.                                     *)
TypeOK ==
  /\ checkout \in [Orders -> [stage : Stages, redeem : Nat, points : Int,
                              code : BOOLEAN, limit : Nat]]
  /\ total \in [Orders -> Nat]
  /\ balance \in Int
  /\ usageCount \in Nat
  /\ maxUsages \in Limits
  /\ limitsHad \subseteq Limits
  /\ codeState \in {"active", "inactive", "deleted"}
  /\ pending \subseteq Orders
  /\ job \in [Calls -> Jobs \cup {Idle}]
  /\ intents \in [Orders -> 0..MaxIntents]
  /\ keyed \in [Orders -> 0..MaxIntents]
  /\ paymentRow \in [Orders -> 0..MaxIntents]
  /\ secrets \in [Orders -> SUBSET (0..MaxIntents)]
  /\ terms \subseteq Orders
  /\ charged \in [Orders -> SUBSET (0..MaxIntents)]

Init ==
  /\ checkout = [o \in Orders |-> [stage |-> "none", redeem |-> 0, points |-> 0,
                                   code |-> FALSE, limit |-> 0]]
  /\ total = [o \in Orders |-> 0]
  /\ balance = StartBalance
  /\ usageCount = 0
  /\ maxUsages \in Limits
  /\ limitsHad = {maxUsages}
  /\ codeState = "active"
  /\ pending = {}
  /\ job = [c \in Calls |-> Idle]
  /\ intents = [o \in Orders |-> 0]
  /\ keyed = [o \in Orders |-> 0]
  /\ paymentRow = [o \in Orders |-> 0]
  /\ secrets = [o \in Orders |-> {}]
  /\ terms = {}
  /\ charged = [o \in Orders |-> {}]

----------------------------------------------------------------------------
(* Amounts.                                                                *)

Least(a, b) == IF a <= b THEN a ELSE b

(* Mutant: the total is not kept from going below zero. *)
AtLeastZero_Unclamped(n) == n

AtLeastZero(n) == IF n < 0 THEN 0 ELSE n

calculateMaxRedeemablePoints == Subtotal \div 2

computeDiscountAmountCents == Least(DiscountValue, Subtotal)

(* buildOrderPayload: the total the browser sends has the points off. *)
totalSent(c) == AtLeastZero(Subtotal + Shipping - c.redeem)

(* OrdersCreateService.create takes off points and discount from it. *)
adjustedTotal(c) ==
  AtLeastZero(AtLeastZero(totalSent(c) - AtLeastZero(c.points))
                - (IF c.code THEN computeDiscountAmountCents ELSE 0))

----------------------------------------------------------------------------
(* OrdersCreateService.create.                                             *)

To(o, stage) == checkout' = [checkout EXCEPT ![o].stage = stage]

(* What the browser lets the customer apply: no more than the balance it   *)
(* has fetched, which is at most StartBalance, and the cap.                *)
LoyaltyRedeemSection == 0..Least(StartBalance, calculateMaxRedeemablePoints)

(* The payment step mounts and posts the order; the balance is read        *)
(* outside the transaction.                                                *)
CreateReadBalance(o, redeem, code) ==
  /\ checkout[o].stage = "none"
  /\ redeem \in LoyaltyRedeemSection
  /\ checkout' = [checkout EXCEPT ![o] =
       [stage  |-> "create", redeem |-> redeem, code |-> code, limit |-> 0,
        points |-> IF redeem > 0
                     THEN Least(Least(redeem, balance), calculateMaxRedeemablePoints)
                     ELSE 0]]
  /\ UNCHANGED <<discountVars, total, balance, pending, intentVars, terms, charged>>

(* Mutant: the usage is counted when the code is looked up. *)
ApplyReadCode_Counts(o) ==
  /\ checkout[o].stage = "create" /\ checkout[o].code
  /\ codeState = "active"
  /\ checkout' = [checkout EXCEPT ![o].stage = "apply", ![o].limit = maxUsages]
  /\ usageCount' = usageCount + 1
  /\ UNCHANGED <<maxUsages, limitsHad, codeState>>
  /\ UNCHANGED <<total, balance, pending, intentVars, terms, charged>>

(* applyOnOrderCreate, inside the transaction: look the code up. *)
ApplyReadCode(o) ==
  /\ checkout[o].stage = "create" /\ checkout[o].code
  /\ codeState = "active"
  /\ checkout' = [checkout EXCEPT ![o].stage = "apply", ![o].limit = maxUsages]
  /\ UNCHANGED <<discountVars, total, balance, pending, intentVars, terms, charged>>

(* Mutant: the usage is counted without a condition. *)
BumpMatches_Always(limit) == TRUE

(* ... then count the usage, by an UPDATE on the condition that the limit  *)
(* just read is not reached.                                               *)
BumpMatches(limit) == limit = 0 \/ usageCount < limit

(* Mutant: takes off what was asked for, not what was granted. *)
spendForCheckout_Asked(c) ==
  balance' = IF c.redeem > 0 THEN balance - c.redeem ELSE balance

spendForCheckout(c) ==
  balance' = IF c.points > 0 THEN balance - c.points ELSE balance

(* From the UPDATE to the end of the transaction its row lock keeps other  *)
(* checkouts with the code out: one step.                                  *)
CreateCommit(o) ==
  LET c == checkout[o] IN
  /\ \/ c.stage = "create" /\ ~c.code /\ UNCHANGED usageCount
     \/ c.stage = "apply" /\ BumpMatches(c.limit) /\ usageCount' = usageCount + 1
  /\ To(o, "placed")
  /\ total' = [total EXCEPT ![o] = adjustedTotal(c)]
  /\ spendForCheckout(c)
  /\ pending' = pending \cup {o}
  /\ UNCHANGED <<maxUsages, limitsHad, codeState, intentVars, terms, charged>>

(* The code is refused, the limit is reached, a product is gone (P2003),   *)
(* or the server dies: the transaction is rolled back.                     *)
CreateFails(o) ==
  /\ checkout[o].stage \in {"create", "apply"}
  /\ To(o, "failed")
  /\ UNCHANGED <<discountVars, total, balance, pending, intentVars, terms, charged>>

----------------------------------------------------------------------------
(* DiscountsService.update and remove, by the admin, and expiry.           *)

UpdateLimit(limit) ==
  /\ codeState # "deleted"
  /\ limit # maxUsages
  /\ maxUsages' = limit
  /\ limitsHad' = limitsHad \cup {limit}
  /\ UNCHANGED <<usageCount, codeState, orderVars, intentVars, terms, charged>>

UpdateActive(state) ==
  /\ codeState # "deleted"
  /\ codeState # state
  /\ codeState' = state
  /\ UNCHANGED <<usageCount, maxUsages, limitsHad, orderVars, intentVars, terms, charged>>

----------------------------------------------------------------------------
(* PaymentsService.createPaymentIntent.                                    *)

GiveSecret(o, intent) == secrets' = [secrets EXCEPT ![o] = @ \cup {intent}]

(* There is a Payment row: its PaymentIntent is retrieved and its secret   *)
(* given again.                                                            *)
IntentExisting(o) ==
  /\ o \in pending
  /\ paymentRow[o] # 0
  /\ GiveSecret(o, paymentRow[o])
  /\ UNCHANGED <<discountVars, orderVars, job, intents, keyed, paymentRow, terms, charged>>

(* There is none: Stripe will be asked.  The order and the row are read    *)
(* here and not again.                                                     *)
IntentRead(c, o) ==
  /\ o \in pending
  /\ paymentRow[o] = 0
  /\ job[c] = Idle
  /\ job' = [job EXCEPT ![c] = [op |-> "ask", order |-> o, intent |-> 0]]
  /\ UNCHANGED <<discountVars, orderVars, intents, keyed, paymentRow, secrets, terms, charged>>

(* paymentIntents.create under the key create-intent-<orderId>: Stripe     *)
(* makes one, or returns the one it remembers.  It refuses an amount of 0. *)
IntentCreate(c) ==
  LET o == job[c].order
      intent == IF keyed[o] # 0 THEN keyed[o] ELSE intents[o] + 1
  IN /\ job[c].op = "ask"
     /\ total[o] > 0
     /\ intent <= MaxIntents
     /\ intents' = [intents EXCEPT ![o] = IF keyed[o] # 0 THEN @ ELSE intent]
     /\ keyed' = [keyed EXCEPT ![o] = intent]
     /\ job' = [job EXCEPT ![c].op = "insert", ![c].intent = intent]
     /\ UNCHANGED <<discountVars, orderVars, paymentRow, secrets, terms, charged>>

EndCall(c) == job' = [job EXCEPT ![c] = Idle]

(* payment.create, and the answer.  Payment.orderId is unique: a second    *)
(* insert fails (P2002).                                                   *)
IntentInsert(c) ==
  LET o == job[c].order IN
  /\ job[c].op = "insert"
  /\ paymentRow[o] = 0
  /\ paymentRow' = [paymentRow EXCEPT ![o] = job[c].intent]
  /\ GiveSecret(o, job[c].intent)
  /\ EndCall(c)
  /\ UNCHANGED <<discountVars, orderVars, intents, keyed, terms, charged>>

(* Mutant: the answer does not wait for the row. *)
IntentFails_Answers(c) ==
  /\ job[c] # Idle
  /\ IF job[c].op = "insert" THEN GiveSecret(job[c].order, job[c].intent)
                             ELSE UNCHANGED secrets
  /\ EndCall(c)
  /\ UNCHANGED <<discountVars, orderVars, intents, keyed, paymentRow, terms, charged>>

(* P2002, Stripe or the database away, or the server dies: no secret.      *)
IntentFails(c) ==
  /\ job[c] # Idle
  /\ EndCall(c)
  /\ UNCHANGED <<discountVars, orderVars, intents, keyed, paymentRow, secrets, terms, charged>>

(* Stripe forgets a key some time after the last call under it. *)
StripeForgetsKey(o) ==
  /\ keyed[o] # 0
  /\ \A c \in Calls : job[c] # Idle => job[c].order # o
  /\ keyed' = [keyed EXCEPT ![o] = 0]
  /\ UNCHANGED <<discountVars, orderVars, job, intents, paymentRow, secrets, terms, charged>>

----------------------------------------------------------------------------
(* The browser's two ways to pay, and what the order does elsewhere.       *)

(* OrdersCreateService.acceptTerms; accepting again changes nothing. *)
AcceptTerms(o) ==
  /\ checkout[o].stage = "placed"
  /\ terms' = terms \cup {o}
  /\ UNCHANGED <<discountVars, orderVars, intentVars, charged>>

Charge(o, intent) ==
  /\ intent \in secrets[o] \ charged[o]
  /\ charged' = [charged EXCEPT ![o] = @ \cup {intent}]
  /\ UNCHANGED <<discountVars, orderVars, intentVars, terms>>

(* CheckoutStripeForm.handleSubmit confirms once acceptOrderTerms has      *)
(* answered.                                                               *)
ConfirmPayment(o, intent) == o \in terms /\ Charge(o, intent)

(* usePaymentRequest: Apple Pay, Google Pay. *)
ConfirmCardPayment(o, intent) == Charge(o, intent)

(* Paid, cancelled or put on hold: see OrderLifecycle. *)
OrderLeavesPending(o) ==
  /\ o \in pending
  /\ pending' = pending \ {o}
  /\ UNCHANGED <<discountVars, checkout, total, balance, intentVars, terms, charged>>

----------------------------------------------------------------------------
CreateOrder(o) ==
  \/ \E redeem \in 0..calculateMaxRedeemablePoints, code \in BOOLEAN :
       CreateReadBalance(o, redeem, code)
  \/ ApplyReadCode(o)
  \/ CreateCommit(o)
  \/ CreateFails(o)

Admin ==
  \/ \E limit \in Limits : UpdateLimit(limit)
  \/ \E state \in {"active", "inactive", "deleted"} : UpdateActive(state)

CreateIntent(c) ==
  \/ \E o \in Orders : IntentRead(c, o)
  \/ IntentCreate(c)
  \/ IntentInsert(c)
  \/ IntentFails(c)

Pay(o) ==
  \/ AcceptTerms(o)
  \/ \E intent \in 1..MaxIntents : ConfirmPayment(o, intent) \/ ConfirmCardPayment(o, intent)

Next ==
  \/ \E o \in Orders : CreateOrder(o)
  \/ Admin
  \/ \E c \in Calls : CreateIntent(c)
  \/ \E o \in Orders : IntentExisting(o) \/ StripeForgetsKey(o) \/ OrderLeavesPending(o)
  \/ \E o \in Orders : Pay(o)

Spec == Init /\ [][Next]_vars

----------------------------------------------------------------------------
PlacedWithCode == {o \in Orders : checkout[o].stage = "placed" /\ checkout[o].code}

(* A code has been used exactly as often as orders carry it: no checkout   *)
(* that is refused, rolled back or cut off uses it up, none uses it twice. *)
UsageMatchesOrders == usageCount = Cardinality(PlacedWithCode)

(* However many checkouts have found the code usable at the same time, and *)
(* whatever the admin makes of the limit meanwhile, usage stays within     *)
(* some limit the code has had (0: at some time it had none).              *)
LimitHonoured ==
  \E limit \in limitsHad : limit = 0 \/ usageCount <= limit

(* Points leave the balance exactly with the orders that redeem them.      *)
BalanceMatchesOrders ==
  LET granted(o) == IF checkout[o].stage = "placed" THEN AtLeastZero(checkout[o].points) ELSE 0
  IN balance = StartBalance - SumFunction([o \in Orders |-> granted(o)])

(* What a customer pays has a Payment row, where the webhook will look for *)
(* it, and an order is charged once: with overlapping requests, requests   *)
(* cut off between Stripe and the database, and forgotten keys.            *)
EveryChargeHasItsPayment == \A o \in Orders : charged[o] \subseteq {paymentRow[o]} \ {0}

=============================================================================
