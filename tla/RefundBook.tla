----------------------------- MODULE RefundBook -----------------------------
(***************************************************************************)
(* What the shop may say of an order's money, whoever writes it down and   *)
(* in whatever order the news arrive.  At Stripe a charge is captured once *)
(* and given back piece by piece.  The shop records an amount as given     *)
(* back, and what has become of the payment: never more than Stripe has    *)
(* done, and the two together whenever the amount changes.                 *)
(***************************************************************************)
EXTENDS Naturals

CONSTANTS Orders, Total

VARIABLES
  captured,  \* Stripe: orders whose charge was captured
  declined,  \* Stripe: orders a payment of which was declined
  refunded,  \* Stripe: what was given back of the charge
  recorded,  \* the shop: what it says was given back
  payment    \* the shop: what it says of the payment

bookVars == <<captured, declined, refunded, recorded, payment>>

Init ==
  /\ captured = {}
  /\ declined = {}
  /\ refunded = [o \in Orders |-> 0]
  /\ recorded = [o \in Orders |-> 0]
  /\ payment  = [o \in Orders |-> "PENDING"]

Capture(o) ==
  /\ captured' = captured \cup {o}
  /\ UNCHANGED <<declined, refunded, recorded, payment>>

Decline(o) ==
  /\ o \notin captured
  /\ declined' = declined \cup {o}
  /\ UNCHANGED <<captured, refunded, recorded, payment>>

GiveBack(o, amount) ==
  /\ o \in captured
  /\ amount \in 1..Total - refunded[o]
  /\ refunded' = [refunded EXCEPT ![o] = @ + amount]
  /\ UNCHANGED <<captured, declined, recorded, payment>>

(* An amount that Stripe has given back becomes a status of the payment. *)
StatusFor(amount) == IF amount = Total THEN "REFUNDED" ELSE "PARTIALLY_REFUNDED"

Note(o, s) ==
  /\ payment' = [payment EXCEPT ![o] = s]
  /\ UNCHANGED <<captured, declined, refunded>>

NotePayment(o) ==
  /\ \/ o \in captured /\ Note(o, "SUCCEEDED")
     \/ o \in declined /\ Note(o, "FAILED")
     \/ \E amount \in 1..refunded[o] : Note(o, StatusFor(amount))
  /\ UNCHANGED recorded

RecordRefund(o, amount) ==
  /\ amount \in 1..refunded[o]
  /\ recorded' = [recorded EXCEPT ![o] = amount]
  /\ Note(o, StatusFor(amount))

Next ==
  \E o \in Orders :
    \/ Capture(o) \/ Decline(o) \/ NotePayment(o)
    \/ \E amount \in 1..Total : GiveBack(o, amount) \/ RecordRefund(o, amount)

Spec == Init /\ [][Next]_bookVars
=============================================================================
