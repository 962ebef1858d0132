----------------------------- MODULE OrderFlow -----------------------------
(***************************************************************************)
(* What the order status model promises of one order, in its own words:    *)
(* fulfilment advances one stage at a time and never goes back, an order   *)
(* may be cancelled until it has shipped, a disputed order is frozen until *)
(* it is refunded or cancelled, and a full refund is the end.  Every move  *)
(* leaves a history row that names it.                                     *)
(***************************************************************************)
EXTENDS Naturals, Sequences

CONSTANT Orders

VARIABLES status, newestHistory

flowVars == <<status, newestHistory>>

Fulfilment == <<"PENDING", "PAID", "PROCESSING", "SHIPPED", "DELIVERED">>

Stages == {Fulfilment[i] : i \in DOMAIN Fulfilment}

Shipped == {"SHIPPED", "DELIVERED"}

Init ==
  /\ status        = [o \in Orders |-> "PENDING"]
  /\ newestHistory = [o \in Orders |-> [from |-> "none", to |-> "PENDING"]]

Move(o, to) ==
  /\ status' = [status EXCEPT ![o] = to]
  /\ newestHistory' = [newestHistory EXCEPT ![o] = [from |-> status[o], to |-> to]]

Advance(o) ==
  \E i \in 1 .. Len(Fulfilment) - 1 :
    status[o] = Fulfilment[i] /\ Move(o, Fulfilment[i + 1])

Cancel(o) ==
  status[o] \in (Stages \ Shipped) \cup {"ON_HOLD"} /\ Move(o, "CANCELLED")

Freeze(o) ==
  status[o] \in Stages /\ Move(o, "ON_HOLD")

RefundPart(o) ==
  /\ status[o] \in (Stages \ {"PENDING"}) \cup {"CANCELLED", "ON_HOLD"}
  /\ Move(o, "PARTIALLY_REFUNDED")

RefundFully(o) ==
  /\ status[o] \in {"DELIVERED", "CANCELLED", "ON_HOLD", "PARTIALLY_REFUNDED"}
  /\ Move(o, "REFUNDED")

Next ==
  \E o \in Orders :
    Advance(o) \/ Cancel(o) \/ Freeze(o) \/ RefundPart(o) \/ RefundFully(o)

Spec == Init /\ [][Next]_flowVars
============================================================================
