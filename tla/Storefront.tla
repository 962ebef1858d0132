----------------------------- MODULE Storefront -----------------------------
(***************************************************************************)
(* One customer's browser in front of the catalogue: the cart and the      *)
(* single item of "Buy now", which take turns at the checkout, the steps   *)
(* of the checkout, the last of which places an order whenever it is       *)
(* entered, and the hearts on the products, kept in the browser and, after *)
(* a login, on the server as well.                                         *)
(***************************************************************************)
EXTENDS Catalogue

CONSTANT None  \* no express item

ASSUME NoneAssumption == None \notin Products

VARIABLES
  cart,       \* CartStore.items
  express,    \* CartStore.expressItem
  page,       \* where the customer is
  chosen,     \* what the customer has set out to buy
  abandoned,  \* an express checkout has been left without buying
  hearts,     \* WishlistStore.productIds
  signedIn,   \* there is an access token
  muddled     \* products whose hearts have been clicked while another request
              \* about them, or the merge, was in flight

browser == <<cart, express, page, chosen, abandoned, hearts, signedIn, muddled>>
vars    == <<tables, counts, server, browser>>

----------------------------------------------------------------------------
(* "payment" until the order is there, then "card". *)
CheckoutSteps == {"entry", "address", "shipping", "payment", "card"}

OrderJobs == [n : Numbers, op : {"order"}, ids : SUBSET Products, heard : BOOLEAN]

HeartJobs ==
  [n : Numbers, op : {"add", "take", "drop"}, product : Products]
    \cup [n : Numbers, op : {"merge", "merged"}, ids : SUBSET Products]

TypeOK ==
  /\ CatalogueTypeOK
  /\ jobs      \subseteq AdminJobs \cup OrderJobs \cup HeartJobs
  /\ cart      \subseteq Products
  /\ express   \in Products \cup {None}
  /\ page      \in {"shop", "confirmation"} \cup CheckoutSteps
  /\ chosen    \subseteq Products
  /\ abandoned \in BOOLEAN
  /\ hearts    \subseteq Products
  /\ signedIn  \in BOOLEAN
  /\ muddled   \subseteq Products

Init ==
  /\ CatalogueInit
  /\ cart = {} /\ express = None /\ page = "shop" /\ chosen = {} /\ abandoned = FALSE
  /\ hearts = {} /\ signedIn = FALSE /\ muddled = {}

heartsUnchanged == UNCHANGED <<hearts, signedIn, muddled>>

cartUnchanged == UNCHANGED <<cart, express, page, chosen, abandoned>>

catalogueUnchanged == UNCHANGED <<tables, counts, jobs, failures, raced>>

----------------------------------------------------------------------------
(* The cart and the checkout.                                              *)

ProductPage(p) == page = "shop" /\ p \in products

AddItem(p) ==
  /\ ProductPage(p) /\ p \notin cart
  /\ Send
  /\ cart' = cart \cup {p}
  /\ catalogueUnchanged /\ heartsUnchanged /\ UNCHANGED <<express, page, chosen, abandoned>>

RemoveItem(p) ==
  /\ page = "shop" /\ p \in cart
  /\ Send
  /\ cart' = cart \ {p}
  /\ catalogueUnchanged /\ heartsUnchanged /\ UNCHANGED <<express, page, chosen, abandoned>>

(* A customer who is signed in is not asked who they are. *)
CheckoutEntry == page' = IF signedIn THEN "address" ELSE "entry"

BuyNow(p) ==
  /\ ProductPage(p)
  /\ Send
  /\ express' = p /\ CheckoutEntry /\ chosen' = {p}
  /\ catalogueUnchanged /\ heartsUnchanged /\ UNCHANGED <<cart, abandoned>>

(* The button of the cart page. *)
CartCheckout ==
  /\ page = "shop" /\ cart # {}
  /\ CheckoutEntry /\ chosen' = cart
  /\ catalogueUnchanged /\ heartsUnchanged /\ UNCHANGED <<requests, cart, express, abandoned>>

(* useCheckoutItems: what is ordered. *)
CheckoutItems == IF express # None THEN {express} ELSE cart

(* What every step of the checkout shows. *)
CheckoutOrderSummary == IF page \in CheckoutSteps THEN CheckoutItems ELSE {}

Step(from, to) ==
  /\ page = from
  /\ page' = to
  /\ catalogueUnchanged /\ heartsUnchanged
  /\ UNCHANGED <<requests, cart, express, chosen, abandoned>>

ContinueAsGuest == Step("entry", "address")

CheckoutAddressForm == Step("address", "shipping")

(* There is no way back while the order is being placed, or after it has   *)
(* been refused.                                                           *)
Back == Step("shipping", "address") \/ Step("card", "shipping")

(* The payment step mounts and sends the order. *)
CheckoutShippingMethodForm ==
  /\ page = "shipping"
  /\ page' = "payment"
  /\ Send
  /\ Start([n |-> requests', op |-> "order", ids |-> CheckoutItems, heard |-> TRUE])
  /\ heartsUnchanged /\ UNCHANGED <<tables, counts, failures, cart, express, chosen, abandoned>>

(* The order is there, whoever still waits for it; the card form, if the   *)
(* step is still on the page.                                              *)
OrderPlaced(j) ==
  /\ j.op = "order" /\ CanOrder(j.ids)
  /\ PlaceOrder(j.ids)
  /\ jobs' = jobs \ {j}
  /\ page' = IF j.heard THEN "card" ELSE page
  /\ heartsUnchanged /\ UNCHANGED <<requests, cart, express, chosen, abandoned>>

OrderRefused(j) ==
  /\ j.op = "order" /\ ~CanOrder(j.ids)
  /\ Finish(j)
  /\ UNCHANGED <<tables, counts, requests, failures, browser>>

(* Nothing but the mounted step forgets when the checkout is left: its     *)
(* answer will not be heard.                                               *)
LeaveCheckout ==
  /\ page \in CheckoutSteps
  /\ page' = "shop"
  /\ abandoned' = (abandoned \/ express # None)
  /\ jobs' = {IF j.op = "order" THEN [j EXCEPT !.heard = FALSE] ELSE j : j \in jobs}
  /\ heartsUnchanged
  /\ UNCHANGED <<tables, counts, requests, failures, raced, cart, express, chosen>>

(* The order is paid for; the confirmation page opens.                     *)
Buy == Step("card", "confirmation")

(* Mutant: the express item is left in the store. *)
Cleanup_KeepsExpress ==
  /\ page = "confirmation"
  /\ page' = "shop"
  /\ catalogueUnchanged /\ heartsUnchanged
  /\ UNCHANGED <<requests, cart, express, chosen, abandoned>>

(* ExpressCheckoutCleanup: the express item goes, with its heart.  The     *)
(* cart stays as it is, bought or not.                                     *)
Cleanup ==
  /\ page = "confirmation"
  /\ page' = "shop"
  /\ express' = None
  /\ hearts' = hearts \ {express}
  /\ IF express # None /\ signedIn
       THEN /\ Send
            /\ Start([n |-> requests', op |-> "drop", product |-> express])
            /\ muddled' = muddled \cup {express}
       ELSE UNCHANGED <<jobs, requests, raced, muddled>>
  /\ UNCHANGED <<tables, counts, failures, cart, chosen, abandoned, signedIn>>

----------------------------------------------------------------------------
(* Hearts.                                                                 *)

AboutHeart(j, p) ==
  \/ j.op \in {"add", "take", "drop"} /\ j.product = p
  \/ j.op \in {"merge", "merged"}

Muddles(p) == IF \E j \in jobs : AboutHeart(j, p) THEN {p} ELSE {}

(* WishlistButton: the heart changes at once; a customer who is signed in  *)
(* also sends a request, and waits for it at this button.                  *)
ToggleHeart(p) ==
  /\ ProductPage(p)
  /\ Send
  /\ hearts' = IF p \in hearts THEN hearts \ {p} ELSE hearts \cup {p}
  /\ IF signedIn
       THEN /\ Start([n |-> requests', op |-> IF p \in hearts THEN "drop" ELSE "add",
                      product |-> p])
            /\ muddled' = muddled \cup Muddles(p)
       ELSE UNCHANGED <<jobs, raced, muddled>>
  /\ cartUnchanged /\ UNCHANGED <<tables, counts, failures, signedIn>>

(* Mutant: the product is not looked up. *)
AddToWishlist_Unseen(j) ==
  /\ j.op = "add"
  /\ wishlist' = wishlist \cup {j.product}
  /\ Finish(j)
  /\ cartUnchanged /\ heartsUnchanged
  /\ UNCHANGED <<products, stock, linked, orphaned, counts, requests, failures>>

(* addToWishlist: a product that is gone is refused, and the heart with it. *)
AddToWishlist(j) ==
  /\ j.op = "add"
  /\ IF j.product \in products
       THEN wishlist' = wishlist \cup {j.product} /\ UNCHANGED hearts
       ELSE hearts' = hearts \ {j.product} /\ UNCHANGED wishlist
  /\ Finish(j)
  /\ cartUnchanged
  /\ UNCHANGED <<products, stock, linked, orphaned, counts, requests, failures, signedIn, muddled>>

RemoveFromWishlist(j) ==
  /\ j.op = "drop"
  /\ wishlist' = wishlist \ {j.product}
  /\ Finish(j)
  /\ cartUnchanged /\ heartsUnchanged
  /\ UNCHANGED <<products, stock, linked, orphaned, counts, requests, failures>>

(* WishlistManager: the heart goes only after the server has answered.     *)
WishlistManager(p) == page = "shop" /\ signedIn /\ p \in wishlist

ManagerRemove(p) ==
  /\ WishlistManager(p)
  /\ Send
  /\ Start([n |-> requests', op |-> "take", product |-> p])
  /\ muddled' = muddled \cup Muddles(p)
  /\ cartUnchanged /\ UNCHANGED <<tables, counts, failures, hearts, signedIn>>

(* Mutant: the heart stays. *)
ManagerRemoved_KeepsHeart(j) ==
  /\ j.op = "take"
  /\ wishlist' = wishlist \ {j.product}
  /\ Finish(j)
  /\ cartUnchanged /\ heartsUnchanged
  /\ UNCHANGED <<products, stock, linked, orphaned, counts, requests, failures>>

ManagerRemoved(j) ==
  /\ j.op = "take"
  /\ wishlist' = wishlist \ {j.product}
  /\ hearts' = hearts \ {j.product}
  /\ Finish(j)
  /\ cartUnchanged
  /\ UNCHANGED <<products, stock, linked, orphaned, counts, requests, failures, signedIn, muddled>>

(* The list once the server has done what a request asks for. *)
WishlistAfter(j) ==
  CASE j.op = "add"            -> wishlist \cup ({j.product} \cap products)
    [] j.op = "merge"          -> wishlist \cup (j.ids \cap products)
    [] j.op \in {"drop", "take"} -> wishlist \ {j.product}

(* The request was refused or its answer was lost: the heart is put back,  *)
(* whether or not the server has done it, unless the refusal was a 401.    *)
(* At the login and at the wishlist page nothing is put back.              *)
RequestFails(j) ==
  /\ j.op \in {"add", "drop", "take", "merge"}
  /\ failures < MaxFailures
  /\ failures' = failures + 1
  /\ hearts' \in {hearts, IF j.op = "add" THEN hearts \ {j.product}
                          ELSE IF j.op = "drop" THEN hearts \cup {j.product} ELSE hearts}
  /\ wishlist' \in {wishlist, WishlistAfter(j)}
  /\ Finish(j)
  /\ cartUnchanged
  /\ UNCHANGED <<products, stock, linked, orphaned, counts, requests, signedIn, muddled>>

(* The login sends the hearts of the guest along, if there are any. *)
Login ==
  /\ page = "shop" /\ ~signedIn
  /\ Send
  /\ signedIn' = TRUE
  /\ IF hearts # {}
       THEN /\ Start([n |-> requests', op |-> "merge", ids |-> hearts])
            /\ muddled' = muddled \cup UNION {Muddles(p) : p \in Products}
       ELSE UNCHANGED <<jobs, raced, muddled>>
  /\ cartUnchanged /\ UNCHANGED <<tables, counts, failures, hearts>>

(* mergeGuestWishlist: products that are gone are ignored; the answer is   *)
(* the whole list.                                                         *)
Merge(j) ==
  /\ j.op = "merge"
  /\ wishlist' = wishlist \cup (j.ids \cap products)
  /\ Continue(j, [j EXCEPT !.op = "merged", !.ids = wishlist'])
  /\ cartUnchanged /\ heartsUnchanged
  /\ UNCHANGED <<products, stock, linked, orphaned, counts, requests, failures>>

(* setAll: the answer replaces the hearts. *)
MergeAnswer(j) ==
  /\ j.op = "merged"
  /\ hearts' = j.ids
  /\ Finish(j)
  /\ cartUnchanged /\ UNCHANGED <<tables, counts, requests, failures, signedIn, muddled>>

(* Sign-out, or a 401: the token goes, the hearts stay.  A request that    *)
(* was refused for it is not undone.                                       *)
TokenGone ==
  /\ signedIn
  /\ signedIn' = FALSE
  /\ cartUnchanged /\ UNCHANGED <<tables, counts, server, hearts, muddled>>

----------------------------------------------------------------------------
HandlerDies(j) ==
  /\ j.op \in {"edit", "stock", "remove", "notify", "order"}
  /\ failures < MaxFailures
  /\ failures' = failures + 1
  /\ Finish(j)
  /\ UNCHANGED <<tables, counts, requests, browser>>

Customer ==
  \/ \E p \in Products : AddItem(p) \/ RemoveItem(p) \/ BuyNow(p)
  \/ CartCheckout
  \/ ContinueAsGuest
  \/ CheckoutAddressForm
  \/ CheckoutShippingMethodForm
  \/ Back
  \/ LeaveCheckout
  \/ Buy
  \/ Cleanup
  \/ \E p \in Products : ToggleHeart(p) \/ ManagerRemove(p)
  \/ Login
  \/ TokenGone

Handler(j) ==
  \/ OrderPlaced(j)
  \/ OrderRefused(j)
  \/ AddToWishlist(j)
  \/ RemoveFromWishlist(j)
  \/ ManagerRemoved(j)
  \/ Merge(j)
  \/ MergeAnswer(j)
  \/ RequestFails(j)

Next ==
  \/ Admin /\ UNCHANGED browser
  \/ Customer
  \/ \E j \in jobs : (AdminHandler(j) /\ UNCHANGED browser) \/ Handler(j) \/ HandlerDies(j)

Spec == Init /\ [][Next]_vars

----------------------------------------------------------------------------
(* A product that orders point at is not deleted, so that the history of   *)
(* orders stays whole, unless it is ordered while it is being deleted.     *)
OrdersKeepTheirProducts ==
  \A p \in orphaned : <<"remove", p>> \in raced

(* A wish is answered by at most one mail for each time the product comes  *)
(* back, unless two changes of its stock overlap.                          *)
OneMailPerReturn ==
  \A p \in Products : told[p] <= returns[p] \/ <<"stock", p>> \in raced

(* The checkout shows and sells what the customer has set out to buy, the  *)
(* cart or the express item, unless an express checkout was abandoned.     *)
CheckoutSellsTheChosen ==
  /\ page \in CheckoutSteps => CheckoutOrderSummary = chosen \/ abandoned
  /\ \A j \in jobs : (j.op = "order" /\ j.heard) => j.ids = chosen \/ abandoned

(* A heart that a signed-in customer sees is on the server's list too, so  *)
(* that the product's mail will come: unless clicks have overtaken one     *)
(* another, a request has failed, or the product is gone.                  *)
HeartsAreSaved ==
  (signedIn /\ ~\E j \in jobs : j.op \in {"add", "take", "drop", "merge", "merged"})
    => \/ hearts \cap products \subseteq wishlist \cup muddled
       \/ failures > 0
=============================================================================
