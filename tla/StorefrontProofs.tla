-------------------------- MODULE StorefrontProofs --------------------------
(***************************************************************************)
(* The catalogue and one customer's browser, for any number of products    *)
(* and requests.                                                           *)
(***************************************************************************)
EXTENDS Storefront, FiniteSetTheorems, TLAPS

Writers == {j \in jobs : j.op \in {"edit", "stock"}}

Tellers == {j \in jobs : j.op \in {"edit", "notify"}}

(* Every return of a product, and every mail, was asked for by a request   *)
(* of its own.                                                             *)
Counted ==
  /\ IsFiniteSet(Writers) /\ IsFiniteSet(Tellers)
  /\ \A p \in Products : /\ returns[p] + Cardinality(Writers) <= requests
                         /\ told[p] + Cardinality(Tellers) <= requests

TypeInv == TypeOK /\ Counted

(* A product is not ordered between the count of its orders and its        *)
(* deletion unnoticed.                                                     *)
RemovalsChecked ==
  /\ \A j \in jobs, p \in linked : Removes(j, p) => <<"remove", p>> \in raced
  /\ OrdersKeepTheirProducts

Tells(j, p) == j.op = "notify" /\ j.product = p

Mails(p) == {j \in jobs : Tells(j, p)}

(* Writers of a product's stock do not overlap unnoticed; the one there is *)
(* has read the stock there is; and a mail on its way is for a return.     *)
StockWatched ==
  /\ \A j, k \in jobs, p \in Products :
       WritesStock(j, p) /\ WritesStock(k, p) => j = k \/ <<"stock", p>> \in raced
  /\ \A p \in Products : <<"stock", p>> \notin raced =>
       /\ \A j \in jobs : WritesStock(j, p) => j.was = stock[p]
       /\ IsFiniteSet(Mails(p)) /\ told[p] + Cardinality(Mails(p)) <= returns[p]

(* The order that is still waited for is the one the payment step sent;    *)
(* nothing is set apart for "Buy now" while the customer walks the shop.   *)
OneCheckout ==
  /\ \A j, k \in jobs : j.op = "order" /\ j.heard /\ k.op = "order" /\ k.heard => j = k
  /\ \A j \in jobs : j.op = "order" /\ j.heard => page = "payment"
  /\ page = "shop" => express = None \/ abandoned
  /\ CheckoutSellsTheChosen

(* A heart that nothing has muddled is dealt with by one request at a      *)
(* time: it is on the server's list or on its way there, and a request     *)
(* that takes it from the list finds it gone from the page.                *)
HeartOf(p) ==
  /\ \A j, k \in jobs : AboutHeart(j, p) /\ AboutHeart(k, p) => j = k
  /\ signedIn /\ p \in hearts \cap products =>
       \/ p \in wishlist
       \/ \E j \in jobs : j.op = "add" /\ j.product = p
       \/ \E j \in jobs : j.op = "merge" /\ p \in j.ids
  /\ \A j \in jobs : j.op = "merged" => (p \in j.ids \cap products => p \in wishlist)
  /\ \A j \in jobs : signedIn /\ j.op = "drop" /\ j.product = p => p \notin hearts

HeartsWatched == failures > 0 \/ \A p \in Products \ muddled : HeartOf(p)

(***************************************************************************)
(* Types.                                                                  *)
(***************************************************************************)

AllJobs == AdminJobs \cup OrderJobs \cup HeartJobs

LEMMA KindsOfJobs ==
  ASSUME TypeOK, NEW j \in jobs
  PROVE  /\ j \in AllJobs /\ j.n \in Numbers
         /\ j.op \in {"edit", "stock"} =>
              j.product \in Products /\ j.was \in {0, 1} /\ j.to \in {0, 1}
         /\ j.op \in {"notify", "add", "take", "drop"} => j.product \in Products
         /\ j.op \in {"remove", "order", "merge", "merged"} => j.ids \in SUBSET Products
         /\ j.op = "order" => j \in OrderJobs
         /\ j.op = "merge" => j \in [n : Numbers, op : {"merge", "merged"}, ids : SUBSET Products]
  BY DEF TypeOK, AllJobs, AdminJobs, OrderJobs, HeartJobs

(* Nobody writes stock, nobody is told: the counts stand. *)
LEMMA CountStays ==
  ASSUME TypeInv, Writers' \subseteq Writers, Tellers' \subseteq Tellers,
         UNCHANGED <<told, returns>>, requests' \in {requests, requests + 1}
  PROVE  Counted'
  <1>1. /\ IsFiniteSet(Writers') /\ Cardinality(Writers') <= Cardinality(Writers)
        /\ IsFiniteSet(Tellers') /\ Cardinality(Tellers') <= Cardinality(Tellers)
    BY FS_Subset DEF TypeInv, Counted
  <1>2. /\ Cardinality(Writers) \in Nat /\ Cardinality(Writers') \in Nat
        /\ Cardinality(Tellers) \in Nat /\ Cardinality(Tellers') \in Nat
    BY <1>1, FS_CardinalityType DEF TypeInv, Counted
  <1>3. requests \in Nat /\ \A p \in Products : told[p] \in Nat /\ returns[p] \in Nat
    BY RequestsAssumption DEF TypeInv, TypeOK, CatalogueTypeOK
  <1> QED BY <1>1, <1>2, <1>3, SMT DEF TypeInv, Counted

LEMMA OneMore ==
  ASSUME NEW S, NEW x, IsFiniteSet(S)
  PROVE  /\ IsFiniteSet(S \cup {x})
         /\ Cardinality(S) \in Nat /\ Cardinality(S \cup {x}) \in Nat
         /\ Cardinality(S \cup {x}) <= Cardinality(S) + 1
  <1>1. Cardinality(S) \in Nat
    BY FS_CardinalityType
  <1>2. /\ IsFiniteSet(S \cup {x})
        /\ Cardinality(S \cup {x}) = IF x \in S THEN Cardinality(S) ELSE Cardinality(S) + 1
    BY FS_AddElement
  <1> QED BY <1>1, <1>2

LEMMA OneLess ==
  ASSUME NEW S, NEW x, IsFiniteSet(S)
  PROVE  /\ IsFiniteSet(S \ {x})
         /\ Cardinality(S) \in Nat /\ Cardinality(S \ {x}) \in Nat
         /\ Cardinality(S \ {x}) <= Cardinality(S)
         /\ x \in S => Cardinality(S \ {x}) = Cardinality(S) - 1
  <1>1. Cardinality(S) \in Nat
    BY FS_CardinalityType
  <1>2. /\ IsFiniteSet(S \ {x})
        /\ Cardinality(S \ {x}) = IF x \in S THEN Cardinality(S) - 1 ELSE Cardinality(S)
    BY FS_RemoveElement
  <1>3. Cardinality(S \ {x}) \in Nat
    BY <1>2, FS_CardinalityType
  <1> QED BY <1>1, <1>2, <1>3

(* A new writer has a request of its own. *)
LEMMA OneMoreWriter ==
  ASSUME TypeInv, NEW n, jobs' = jobs \cup {n}, UNCHANGED <<told, returns>>,
         requests' = requests + 1
  PROVE  Counted'
  <1>1. ASSUME NEW S, NEW T, IsFiniteSet(S), T = S \/ T = S \cup {n}
        PROVE  /\ IsFiniteSet(T) /\ Cardinality(S) \in Nat /\ Cardinality(T) \in Nat
               /\ Cardinality(T) <= Cardinality(S) + 1
    <2>1. /\ IsFiniteSet(S \cup {n}) /\ Cardinality(S) \in Nat
          /\ Cardinality(S \cup {n}) \in Nat /\ Cardinality(S \cup {n}) <= Cardinality(S) + 1
      BY <1>1, OneMore
    <2>2. CASE T = S
      BY <1>1, <2>1, <2>2
    <2>3. CASE T = S \cup {n}
      BY <2>1, <2>3
    <2> QED BY <1>1, <2>2, <2>3
  <1>2. /\ Writers' = Writers \/ Writers' = Writers \cup {n}
        /\ Tellers' = Tellers \/ Tellers' = Tellers \cup {n}
    BY DEF Writers, Tellers
  <1>3. /\ IsFiniteSet(Writers') /\ Cardinality(Writers) \in Nat
        /\ Cardinality(Writers') \in Nat /\ Cardinality(Writers') <= Cardinality(Writers) + 1
    BY <1>1, <1>2 DEF TypeInv, Counted
  <1>4. /\ IsFiniteSet(Tellers') /\ Cardinality(Tellers) \in Nat
        /\ Cardinality(Tellers') \in Nat /\ Cardinality(Tellers') <= Cardinality(Tellers) + 1
    BY <1>1, <1>2 DEF TypeInv, Counted
  <1>5. requests \in Nat /\ \A p \in Products : told[p] \in Nat /\ returns[p] \in Nat
    BY RequestsAssumption DEF TypeInv, TypeOK, CatalogueTypeOK
  <1> QED BY <1>3, <1>4, <1>5, SMT DEF TypeInv, Counted

(* A writer's request is spent on the return, and a teller's on the mail.  *)
LEMMA RequestSpent ==
  ASSUME TypeInv, NEW j \in jobs, NEW n, n.op = "notify", requests' = requests,
         \/ jobs' = jobs \ {j}
         \/ jobs' = (jobs \ {j}) \cup {n} /\ j.op = "edit",
         NEW p \in Products,
         returns' = returns \/ (returns' = [returns EXCEPT ![p] = @ + 1] /\ j \in Writers),
         told' = told \/ (told' = [told EXCEPT ![p] = @ + 1] /\ j.op = "notify")
  PROVE  Counted'
  <1>1. Writers' = Writers \ {j}
    BY DEF Writers
  <1>2. \/ Tellers' = Tellers \ {j}
        \/ j \in Tellers /\ Tellers' = (Tellers \ {j}) \cup {n} /\ j.op = "edit"
    BY DEF Tellers
  <1>3. /\ IsFiniteSet(Writers') /\ Cardinality(Writers') \in Nat /\ Cardinality(Writers) \in Nat
        /\ Cardinality(Writers') <= Cardinality(Writers)
        /\ j \in Writers => Cardinality(Writers') = Cardinality(Writers) - 1
    BY <1>1, OneLess DEF TypeInv, Counted
  <1>4. /\ IsFiniteSet(Tellers') /\ Cardinality(Tellers') \in Nat /\ Cardinality(Tellers) \in Nat
        /\ Cardinality(Tellers') <= Cardinality(Tellers)
        /\ j.op = "notify" => Cardinality(Tellers') = Cardinality(Tellers) - 1
    <2>1. /\ IsFiniteSet(Tellers \ {j}) /\ Cardinality(Tellers) \in Nat
          /\ Cardinality(Tellers \ {j}) \in Nat
          /\ Cardinality(Tellers \ {j}) <= Cardinality(Tellers)
          /\ j \in Tellers => Cardinality(Tellers \ {j}) = Cardinality(Tellers) - 1
      BY OneLess DEF TypeInv, Counted
    <2>2. CASE Tellers' = Tellers \ {j}
      <3>1. j.op = "notify" => j \in Tellers
        BY DEF Tellers
      <3> QED BY <2>1, <2>2, <3>1
    <2>3. CASE j \in Tellers /\ Tellers' = (Tellers \ {j}) \cup {n} /\ j.op = "edit"
      <3>1. /\ IsFiniteSet((Tellers \ {j}) \cup {n})
            /\ Cardinality((Tellers \ {j}) \cup {n}) \in Nat
            /\ Cardinality((Tellers \ {j}) \cup {n}) <= Cardinality(Tellers \ {j}) + 1
        BY <2>1, OneMore
      <3> QED BY <2>1, <2>3, <3>1
    <2> QED BY <1>2, <2>2, <2>3
  <1>5. /\ requests \in Nat /\ told \in [Products -> 0..MaxRequests]
        /\ returns \in [Products -> 0..MaxRequests] /\ MaxRequests \in Nat
    BY RequestsAssumption DEF TypeInv, TypeOK, CatalogueTypeOK
  <1>6. ASSUME NEW q \in Products
        PROVE  returns'[q] + Cardinality(Writers') <= requests'
    BY <1>3, <1>5, SMT DEF TypeInv, Counted
  <1>7. ASSUME NEW q \in Products
        PROVE  told'[q] + Cardinality(Tellers') <= requests'
    BY <1>4, <1>5, SMT DEF TypeInv, Counted
  <1> QED BY <1>3, <1>4, <1>6, <1>7 DEF Counted

BrowserTypes ==
  /\ cart \subseteq Products
  /\ express \in Products \cup {None}
  /\ page \in {"shop", "confirmation"} \cup CheckoutSteps
  /\ chosen \subseteq Products
  /\ abandoned \in BOOLEAN
  /\ hearts \subseteq Products
  /\ signedIn \in BOOLEAN
  /\ muddled \subseteq Products

LEMMA TypesOf ==
  ASSUME TypeInv
  PROVE  /\ CatalogueTypeOK /\ BrowserTypes /\ jobs \subseteq AllJobs
         /\ requests \in 0..MaxRequests /\ requests \in Nat /\ MaxRequests \in Nat
         /\ Send => requests' = requests + 1 /\ requests' \in Numbers /\ requests' \in 0..MaxRequests
  <1>1. CatalogueTypeOK /\ BrowserTypes /\ jobs \subseteq AllJobs
    BY DEF TypeInv, TypeOK, BrowserTypes, AllJobs
  <1>2. requests \in 0..MaxRequests /\ requests \in Nat /\ MaxRequests \in Nat
    BY <1>1, RequestsAssumption DEF CatalogueTypeOK
  <1> QED BY <1>1, <1>2 DEF Send, Numbers

(* Steps that are not the admin's and leave the counts alone; n is the     *)
(* handler they start, if they start one.                                  *)
LEMMA CustomerStepTyped ==
  ASSUME TypeInv, UNCHANGED counts, requests' \in {requests, requests + 1},
         CatalogueTypeOK', BrowserTypes', jobs' \subseteq AllJobs,
         \A j \in jobs' : j.op \in {"edit", "stock", "notify"} => j \in jobs
  PROVE  TypeInv'
  <1>1. TypeOK'
    BY DEF TypeOK, BrowserTypes, AllJobs
  <1>2. Writers' \subseteq Writers /\ Tellers' \subseteq Tellers
    BY DEF Writers, Tellers
  <1>3. Counted'
    BY <1>2, CountStays DEF counts
  <1> QED BY <1>1, <1>3 DEF TypeInv

LEMMA WalkKeepsTypes ==
  ASSUME TypeInv,
         \/ \E p \in Products : AddItem(p) \/ RemoveItem(p) \/ BuyNow(p)
         \/ CartCheckout \/ ContinueAsGuest \/ CheckoutAddressForm \/ Back \/ Buy
  PROVE  TypeInv'
  <1>1. /\ catalogueUnchanged /\ heartsUnchanged
        /\ Send \/ requests' = requests
    BY DEF AddItem, RemoveItem, BuyNow, CartCheckout, ContinueAsGuest, CheckoutAddressForm,
           Back, Buy, Step
  <1>2. requests' \in {requests, requests + 1} /\ requests' \in 0..MaxRequests
    BY <1>1, TypesOf
  <1>3. CatalogueTypeOK'
    BY <1>1, <1>2, TypesOf DEF CatalogueTypeOK, catalogueUnchanged, tables, counts
  <1>4. /\ cart' \subseteq Products /\ express' \in Products \cup {None}
        /\ chosen' \subseteq Products /\ abandoned' = abandoned
        /\ page' \in {"shop", "confirmation"} \cup CheckoutSteps
    BY TypesOf DEF AddItem, RemoveItem, BuyNow, CartCheckout, ContinueAsGuest,
       CheckoutAddressForm, Back, Buy, Step, CheckoutEntry, CheckoutSteps, BrowserTypes
  <1>5. BrowserTypes'
    BY <1>1, <1>4, TypesOf DEF BrowserTypes, heartsUnchanged
  <1> QED BY <1>1, <1>2, <1>3, <1>5, TypesOf, CustomerStepTyped DEF catalogueUnchanged

(* Hearts and the token, without the server. *)
LEMMA PayKeepsTypes ==
  ASSUME TypeInv, CheckoutShippingMethodForm \/ Cleanup \/ LeaveCheckout \/ TokenGone \/ Login
                  \/ \E p \in Products : ToggleHeart(p) \/ ManagerRemove(p)
  PROVE  TypeInv'
  <1> USE DEF tables, counts, server, cartUnchanged, heartsUnchanged
  <1>1. /\ UNCHANGED <<tables, counts, failures>>
        /\ Send \/ requests' = requests
    BY DEF CheckoutShippingMethodForm, Cleanup, LeaveCheckout, TokenGone, Login, ToggleHeart,
           ManagerRemove
  <1>2. requests' \in {requests, requests + 1} /\ requests' \in 0..MaxRequests
    BY <1>1, TypesOf
  <1>3. CatalogueTypeOK'
    BY <1>1, <1>2, TypesOf DEF CatalogueTypeOK
  <1>4. BrowserTypes' /\ jobs' \subseteq AllJobs
              /\ \A j \in jobs' : j.op \in {"edit", "stock", "notify"} => j \in jobs
    <2>1. CASE CheckoutShippingMethodForm
      <3>1. CheckoutItems \subseteq Products
        BY TypesOf DEF CheckoutItems, BrowserTypes
      <3> DEFINE n == [n |-> requests', op |-> "order", ids |-> CheckoutItems, heard |-> TRUE]
      <3>2. n \in OrderJobs /\ n.op = "order"
        BY <2>1, <3>1, TypesOf, Zenon DEF CheckoutShippingMethodForm, OrderJobs
      <3>3. jobs' = jobs \cup {n} /\ BrowserTypes'
        BY <2>1, TypesOf DEF CheckoutShippingMethodForm, Start, BrowserTypes, CheckoutSteps
      <3> HIDE DEF n
      <3> QED BY <3>2, <3>3, TypesOf DEF AllJobs
    <2>2. CASE Cleanup
      <3> DEFINE n == [n |-> requests', op |-> "drop", product |-> express]
      <3>1. CASE express # None /\ signedIn
        <4>1. jobs' = jobs \cup {n} /\ muddled' = muddled \cup {express} /\ Send
          BY <2>2, <3>1 DEF Cleanup, Start
        <4>2. express \in Products
          BY <3>1, TypesOf DEF BrowserTypes
        <4>3. n \in HeartJobs /\ n.op = "drop"
          BY <4>1, <4>2, TypesOf DEF HeartJobs
        <4> HIDE DEF n
        <4>4. BrowserTypes'
          BY <2>2, <4>1, <4>2, TypesOf DEF Cleanup, BrowserTypes
        <4> QED BY <4>1, <4>3, <4>4, TypesOf DEF AllJobs
      <3>2. CASE ~(express # None /\ signedIn)
        <4>1. UNCHANGED <<jobs, muddled>>
          BY <2>2, <3>2 DEF Cleanup
        <4> QED BY <2>2, <4>1, TypesOf DEF Cleanup, BrowserTypes
      <3> QED BY <3>1, <3>2
    <2>3. CASE LeaveCheckout
      <3>1. abandoned' \in BOOLEAN
        BY <2>3 DEF LeaveCheckout
      <3>2. BrowserTypes'
        BY <2>3, <3>1, TypesOf DEF LeaveCheckout, BrowserTypes
      <3>3. ASSUME NEW j \in jobs'
            PROVE  /\ j \in AllJobs
                   /\ j.op \in {"edit", "stock", "notify"} => j \in jobs
        <4>1. PICK k \in jobs : j = IF k.op = "order" THEN [k EXCEPT !.heard = FALSE] ELSE k
          BY <2>3, <3>3 DEF LeaveCheckout
        <4>2. CASE k.op = "order"
          <5>1. k \in OrderJobs
            BY <4>2, KindsOfJobs DEF TypeInv
          <5>2. j \in OrderJobs /\ j.op = "order"
            BY <4>1, <4>2, <5>1 DEF OrderJobs
          <5> QED BY <5>2 DEF AllJobs
        <4>3. CASE k.op # "order"
          BY <4>1, <4>3, TypesOf
        <4> QED BY <4>2, <4>3
      <3> QED BY <3>2, <3>3
    <2>4. CASE TokenGone
      <3>1. signedIn' \in BOOLEAN
        BY <2>4, Zenon DEF TokenGone
      <3> QED BY <2>4, <3>1, TypesOf DEF TokenGone, BrowserTypes
    <2>5. CASE Login
      <3>1. signedIn' \in BOOLEAN /\ muddled' \subseteq Products /\ UNCHANGED <<cart, express, page, chosen, abandoned, hearts>>
        BY <2>5, TypesOf DEF Login, BrowserTypes, Muddles
      <3>2. BrowserTypes'
        BY <3>1, TypesOf DEF BrowserTypes
      <3> DEFINE n == [n |-> requests', op |-> "merge", ids |-> hearts]
      <3>3. n \in HeartJobs /\ n.op = "merge"
        BY <2>5, TypesOf DEF Login, HeartJobs, BrowserTypes
      <3>4. jobs' = jobs \cup {n} \/ jobs' = jobs
        BY <2>5 DEF Login, Start
      <3> HIDE DEF n
      <3> QED BY <3>2, <3>3, <3>4, TypesOf DEF AllJobs
    <2>6. ASSUME NEW p \in Products, ToggleHeart(p)
          PROVE  BrowserTypes' /\ jobs' \subseteq AllJobs
                 /\ \A j \in jobs' : j.op \in {"edit", "stock", "notify"} => j \in jobs
      <3>1. /\ hearts' \subseteq Products /\ muddled' \subseteq Products
            /\ UNCHANGED <<cart, express, page, chosen, abandoned, signedIn>>
        BY <2>6, TypesOf DEF ToggleHeart, BrowserTypes, Muddles
      <3>2. BrowserTypes'
        BY <3>1, TypesOf DEF BrowserTypes
      <3> DEFINE n == [n |-> requests', op |-> IF p \in hearts THEN "drop" ELSE "add",
                      product |-> p]
      <3>3. n \in HeartJobs /\ n.op \in {"add", "drop"}
        BY <2>6, TypesOf DEF ToggleHeart, HeartJobs
      <3>4. jobs' = jobs \cup {n} \/ jobs' = jobs
        BY <2>6 DEF ToggleHeart, Start
      <3> HIDE DEF n
      <3> QED BY <3>2, <3>3, <3>4, TypesOf DEF AllJobs
    <2>7. ASSUME NEW p \in Products, ManagerRemove(p)
          PROVE  BrowserTypes' /\ jobs' \subseteq AllJobs
                 /\ \A j \in jobs' : j.op \in {"edit", "stock", "notify"} => j \in jobs
      <3>1. /\ muddled' \subseteq Products
            /\ UNCHANGED <<cart, express, page, chosen, abandoned, hearts, signedIn>>
        BY <2>7, TypesOf DEF ManagerRemove, BrowserTypes, Muddles
      <3>2. BrowserTypes'
        BY <3>1, TypesOf DEF BrowserTypes
      <3> DEFINE n == [n |-> requests', op |-> "take", product |-> p]
      <3>3. n \in HeartJobs /\ n.op = "take"
        BY <2>7, TypesOf DEF ManagerRemove, HeartJobs
      <3>4. jobs' = jobs \cup {n}
        BY <2>7 DEF ManagerRemove, Start
      <3> HIDE DEF n
      <3> QED BY <3>2, <3>3, <3>4, TypesOf DEF AllJobs
    <2> QED BY <2>1, <2>2, <2>3, <2>4, <2>5, <2>6, <2>7
  <1> QED BY <1>1, <1>2, <1>3, <1>4, CustomerStepTyped

(* Handlers of the customer's requests, and handlers that die. *)
LEMMA AnswerKeepsTypes ==
  ASSUME TypeInv, NEW j \in jobs,
         \/ OrderPlaced(j) \/ OrderRefused(j) \/ AddToWishlist(j) \/ RemoveFromWishlist(j)
         \/ ManagerRemoved(j) \/ RequestFails(j) \/ MergeAnswer(j) \/ HandlerDies(j)
  PROVE  TypeInv'
  <1> USE DEF tables, counts, server, cartUnchanged, heartsUnchanged, browser
  <1>1. /\ UNCHANGED <<products, stock, orphaned, counts, requests>> /\ jobs' = jobs \ {j}
    BY DEF OrderPlaced, OrderRefused, AddToWishlist, RemoveFromWishlist, ManagerRemoved,
       RequestFails, MergeAnswer, HandlerDies, Finish, PlaceOrder
  <1>2. failures' \in 0..MaxFailures
    BY TypesOf, FailuresAssumption
    DEF OrderPlaced, OrderRefused, AddToWishlist, RemoveFromWishlist, ManagerRemoved,
        RequestFails, MergeAnswer, HandlerDies, PlaceOrder, CatalogueTypeOK
  <1>3. linked' \subseteq products
    BY TypesOf
    DEF OrderPlaced, OrderRefused, AddToWishlist, RemoveFromWishlist, ManagerRemoved,
        RequestFails, MergeAnswer, HandlerDies, PlaceOrder, CanOrder, CatalogueTypeOK
  <1>4. wishlist' \subseteq products
    BY TypesOf
    DEF OrderPlaced, OrderRefused, AddToWishlist, RemoveFromWishlist, ManagerRemoved,
        RequestFails, WishlistAfter, MergeAnswer, HandlerDies, PlaceOrder, CatalogueTypeOK
  <1>5. hearts' \subseteq Products
    BY TypesOf, KindsOfJobs
    DEF OrderPlaced, OrderRefused, AddToWishlist, RemoveFromWishlist, ManagerRemoved,
        RequestFails, MergeAnswer, HandlerDies, BrowserTypes, TypeInv
  <1>6. /\ UNCHANGED <<cart, express, chosen, abandoned, signedIn, muddled>>
        /\ page' \in {"shop", "confirmation"} \cup CheckoutSteps
    BY TypesOf
    DEF OrderPlaced, OrderRefused, AddToWishlist, RemoveFromWishlist, ManagerRemoved,
        RequestFails, MergeAnswer, HandlerDies, BrowserTypes, CheckoutSteps
  <1>7. CatalogueTypeOK'
    BY <1>1, <1>2, <1>3, <1>4, TypesOf DEF CatalogueTypeOK
  <1>8. BrowserTypes'
    BY <1>5, <1>6, TypesOf DEF BrowserTypes
  <1> QED BY <1>1, <1>7, <1>8, TypesOf, CustomerStepTyped

LEMMA MergeKeepsTypes ==
  ASSUME TypeInv, NEW j \in jobs, Merge(j)
  PROVE  TypeInv'
  <1> USE DEF counts, cartUnchanged, heartsUnchanged
  <1> DEFINE n == [j EXCEPT !.op = "merged", !.ids = wishlist']
  <1>1. /\ UNCHANGED <<products, stock, linked, orphaned, counts, requests, failures>>
        /\ wishlist' = wishlist \cup (j.ids \cap products)
        /\ jobs' = (jobs \ {j}) \cup {n} /\ j.op = "merge"
        /\ cartUnchanged /\ heartsUnchanged
    BY DEF Merge, Continue
  <1>2. CatalogueTypeOK' /\ wishlist' \subseteq Products
    BY <1>1, TypesOf DEF CatalogueTypeOK
  <1>3. BrowserTypes'
    BY <1>1, TypesOf DEF BrowserTypes
  <1>4. n \in HeartJobs /\ n.op = "merged"
    <2>1. j \in [n : Numbers, op : {"merge", "merged"}, ids : SUBSET Products]
      BY <1>1, KindsOfJobs DEF TypeInv
    <2> DEFINE x == [j EXCEPT !.op = "merged"]
    <2>2. x \in [n : Numbers, op : {"merge", "merged"}, ids : SUBSET Products] /\ x.op = "merged"
      BY <2>1
    <2>3. n = [x EXCEPT !.ids = wishlist']
      OBVIOUS
    <2> HIDE DEF x, n
    <2>4. /\ n \in [n : Numbers, op : {"merge", "merged"}, ids : SUBSET Products]
          /\ n.op = "merged"
      BY <1>2, <2>2, <2>3
    <2> QED BY <2>4 DEF HeartJobs
  <1> HIDE DEF n
  <1> QED BY <1>1, <1>2, <1>3, <1>4, TypesOf, CustomerStepTyped DEF AllJobs

(* The admin's requests. *)
LEMMA AdminKeepsTypes ==
  ASSUME TypeInv, Admin, UNCHANGED browser
  PROVE  TypeInv'
  <1> USE DEF tables, counts
  <1>1. PICK n : /\ n \in AdminJobs /\ Start(n) /\ Send
                 /\ UNCHANGED <<tables, counts, failures>>
    <2>1. CASE \E p \in Products, to \in {0, 1} : EditRead(p, to) \/ InventoryCell(p, to)
      <3>1. PICK p \in Products, to \in {0, 1} : EditRead(p, to) \/ InventoryCell(p, to)
        BY <2>1
      <3>2. stock[p] \in {0, 1} /\ requests' \in Numbers
        BY <3>1, TypesOf DEF CatalogueTypeOK, EditRead, InventoryCell
      <3>3. \A op \in {"edit", "stock"} :
              [n |-> requests', op |-> op, product |-> p, was |-> stock[p], to |-> to] \in AdminJobs
        BY <3>2 DEF AdminJobs
      <3> QED BY <3>1, <3>3 DEF EditRead, InventoryCell
    <2>2. CASE \E ids \in SUBSET Products : RemoveRead(ids)
      <3>1. PICK ids \in SUBSET Products : RemoveRead(ids)
        BY <2>2
      <3>2. [n |-> requests', op |-> "remove", ids |-> ids] \in AdminJobs
        BY <3>1, TypesOf DEF AdminJobs, RemoveRead
      <3> QED BY <3>1, <3>2 DEF RemoveRead
    <2> QED BY <2>1, <2>2 DEF Admin
  <1>2. requests' = requests + 1 /\ requests' \in 0..MaxRequests /\ jobs' = jobs \cup {n}
    BY <1>1, TypesOf DEF Start
  <1>3. Counted'
    BY <1>1, <1>2, OneMoreWriter
  <1>4. TypeOK'
    BY <1>1, <1>2 DEF TypeInv, TypeOK, CatalogueTypeOK, browser
  <1> QED BY <1>3, <1>4 DEF TypeInv

(* The admin's handlers. *)
LEMMA AdminHandlerKeepsTypes ==
  ASSUME TypeInv, NEW j \in jobs, AdminHandler(j), UNCHANGED browser
  PROVE  TypeInv'
  <1> USE DEF tables, counts
  <1> DEFINE n == [n |-> j.n, op |-> "notify", product |-> j.product]
  <1>1. CASE EditCommit(j) \/ InventoryCommit(j)
    <2>1. /\ j.op \in {"edit", "stock"} /\ SetStock(j.product, j.to)
          /\ \/ jobs' = jobs \ {j}
             \/ jobs' = (jobs \ {j}) \cup {n} /\ j.op = "edit"
          /\ UNCHANGED <<products, linked, orphaned, wishlist, told, requests, failures>>
      BY <1>1 DEF EditCommit, InventoryCommit, Continue, Finish
    <2>2. j.product \in Products /\ j.to \in {0, 1} /\ j.n \in Numbers
      BY <2>1, KindsOfJobs DEF TypeInv
    <2>3. n \in AdminJobs /\ n.op = "notify"
      BY <2>2 DEF AdminJobs
    <2> HIDE DEF n
    <2>4. j \in Writers
      BY <2>1 DEF Writers
    <2>5. Counted'
      BY <2>1, <2>2, <2>3, <2>4, RequestSpent DEF SetStock
    <2>6. stock' \in [Products -> {0, 1}]
      BY <2>1, <2>2, TypesOf DEF SetStock, CatalogueTypeOK
    <2>7. returns' \in [Products -> 0..MaxRequests]
      <3>1. returns' \in [Products -> Nat]
        BY <2>1, <2>2, TypesOf DEF SetStock, CatalogueTypeOK
      <3>2. ASSUME NEW p \in Products
            PROVE  returns'[p] \in 0..MaxRequests
        <4>1. /\ Cardinality(Writers') \in Nat /\ returns'[p] \in Nat
              /\ returns'[p] + Cardinality(Writers') <= requests
          BY <2>1, <2>5, <3>1, FS_CardinalityType DEF Counted
        <4> QED BY <4>1, TypesOf
      <3> QED BY <3>1, <3>2
    <2>8. CatalogueTypeOK'
      BY <2>1, <2>6, <2>7, TypesOf DEF CatalogueTypeOK
    <2>9. TypeOK'
      BY <2>1, <2>3, <2>8 DEF TypeInv, TypeOK, browser
    <2> QED BY <2>5, <2>9 DEF TypeInv
  <1>2. CASE Notify(j)
    <2>1. /\ j.op = "notify" /\ jobs' = jobs \ {j}
          /\ told' = told \/ told' = [told EXCEPT ![j.product] = @ + 1]
          /\ UNCHANGED <<tables, returns, requests, failures>>
      BY <1>2 DEF Notify, Finish
    <2>2. j.product \in Products
      BY <2>1, KindsOfJobs DEF TypeInv
    <2>3. n.op = "notify"
      OBVIOUS
    <2> HIDE DEF n
    <2>4. Counted'
      BY <2>1, <2>2, <2>3, RequestSpent
    <2>5. told' \in [Products -> 0..MaxRequests]
      <3>1. told' \in [Products -> Nat]
        BY <2>1, <2>2, TypesOf DEF CatalogueTypeOK
      <3>2. ASSUME NEW p \in Products
            PROVE  told'[p] \in 0..MaxRequests
        <4>1. /\ Cardinality(Tellers') \in Nat /\ told'[p] \in Nat
              /\ told'[p] + Cardinality(Tellers') <= requests
          BY <2>1, <2>4, <3>1, FS_CardinalityType DEF Counted
        <4> QED BY <4>1, TypesOf
      <3> QED BY <3>1, <3>2
    <2>6. CatalogueTypeOK'
      BY <2>1, <2>5, TypesOf DEF CatalogueTypeOK
    <2>7. TypeOK'
      BY <2>1, <2>6 DEF TypeInv, TypeOK, browser
    <2> QED BY <2>4, <2>7 DEF TypeInv
  <1>3. CASE WriteFails(j) \/ RemoveCommit(j)
    <2>1. /\ jobs' = jobs \ {j}
          /\ UNCHANGED <<stock, counts, requests, failures>>
      BY <1>3 DEF WriteFails, RemoveCommit, Finish
    <2>2. CatalogueTypeOK'
      BY <1>3, <2>1, TypesOf DEF WriteFails, RemoveCommit, CatalogueTypeOK
    <2>3. BrowserTypes'
      BY TypesOf DEF BrowserTypes, browser
    <2> QED BY <2>1, <2>2, <2>3, TypesOf, CustomerStepTyped
  <1> QED BY <1>1, <1>2, <1>3 DEF AdminHandler

LEMMA TypesAreInductive ==
  /\ Init => TypeInv
  /\ TypeInv /\ [Next]_vars => TypeInv'
  <1>1. ASSUME Init
        PROVE  TypeInv
    <2> USE <1>1 DEF Init, CatalogueInit
    <2>1. TypeOK
      <3>1. abandoned \in BOOLEAN /\ signedIn \in BOOLEAN
        BY Zenon
      <3>2. CatalogueTypeOK
        BY RequestsAssumption, FailuresAssumption DEF CatalogueTypeOK
      <3> QED BY <3>1, <3>2 DEF TypeOK
    <2>2. Writers = {} /\ Tellers = {}
      BY DEF Writers, Tellers
    <2>3. Counted
      BY <2>2, FS_EmptySet, RequestsAssumption DEF Counted
    <2> QED BY <2>1, <2>3 DEF TypeInv
  <1>2. ASSUME TypeInv, [Next]_vars
        PROVE  TypeInv'
    <2>1. CASE Customer
      BY <1>2, <2>1, WalkKeepsTypes, PayKeepsTypes DEF Customer
    <2>2. CASE Admin /\ UNCHANGED browser
      BY <1>2, <2>2, AdminKeepsTypes
    <2>3. ASSUME NEW j \in jobs,
                 (AdminHandler(j) /\ UNCHANGED browser) \/ Handler(j) \/ HandlerDies(j)
          PROVE  TypeInv'
      BY <1>2, <2>3, AdminHandlerKeepsTypes, AnswerKeepsTypes, MergeKeepsTypes DEF Handler
    <2>4. CASE UNCHANGED vars
      BY <1>2, <2>4 DEF vars, tables, counts, server, browser, TypeInv, TypeOK, CatalogueTypeOK,
                        Counted, Writers, Tellers
    <2> QED BY <1>2, <2>1, <2>2, <2>3, <2>4 DEF Next
  <1> QED BY <1>1, <1>2

(* Every reachable state of shop and browser is well typed: order items    *)
(* and wishes point at products that are there (RemoveCommit takes both    *)
(* along), and stock never leaves 0 and 1.                                 *)
THEOREM StorefrontTypes == Spec => []TypeOK
  <1>1. Init => TypeInv
    BY TypesAreInductive
  <1>2. TypeInv /\ [Next]_vars => TypeInv'
    BY TypesAreInductive
  <1>3. TypeInv => TypeOK
    BY DEF TypeInv
  <1> QED BY <1>1, <1>2, <1>3, PTL DEF Spec

(***************************************************************************)
(* The catalogue: orders keep their products, a return has one mail.       *)
(***************************************************************************)

(* What the customer's side leaves alone.  Only orders touch the rest. *)
LEMMA CustomerLeavesCatalogue ==
  ASSUME TypeInv,
         \/ Customer
         \/ \E j \in jobs : Handler(j) \/ HandlerDies(j)
         \/ UNCHANGED vars
  PROVE  /\ UNCHANGED <<stock, orphaned, told, returns>>
         /\ raced \subseteq raced'
         /\ \A j \in jobs' : j.op \in {"edit", "stock", "remove", "notify"} => j \in jobs
         /\ linked' = linked \/ \E j \in jobs : OrderPlaced(j)
  <1> USE DEF tables, counts, server, cartUnchanged, heartsUnchanged, catalogueUnchanged, browser,
              Start, Continue, Finish
  <1>1. CASE \/ \E p \in Products : AddItem(p) \/ RemoveItem(p) \/ BuyNow(p)
             \/ CartCheckout \/ ContinueAsGuest \/ CheckoutAddressForm \/ Back \/ Buy
             \/ UNCHANGED vars
    BY <1>1 DEF AddItem, RemoveItem, BuyNow, CartCheckout, ContinueAsGuest, CheckoutAddressForm,
                Back, Buy, Step, vars
  <1>2. CASE LeaveCheckout
    <2>1. ASSUME NEW j \in jobs', j.op \in {"edit", "stock", "remove", "notify"}
          PROVE  j \in jobs
      <3>1. PICK k \in jobs : j = IF k.op = "order" THEN [k EXCEPT !.heard = FALSE] ELSE k
        BY <1>2, <2>1 DEF LeaveCheckout
      <3>2. CASE k.op = "order"
        <4>1. k \in OrderJobs
          BY <3>2, KindsOfJobs DEF TypeInv
        <4> QED BY <2>1, <3>1, <3>2, <4>1 DEF OrderJobs
      <3>3. CASE k.op # "order"
        BY <3>1, <3>3
      <3> QED BY <3>2, <3>3
    <2> QED BY <1>2, <2>1 DEF LeaveCheckout
  <1>3. CASE CheckoutShippingMethodForm
    BY <1>3 DEF CheckoutShippingMethodForm
  <1>4. CASE Cleanup \/ Login \/ TokenGone
    BY <1>4 DEF Cleanup, Login, TokenGone
  <1>5. CASE \E p \in Products : ToggleHeart(p) \/ ManagerRemove(p)
    <2>1. PICK p \in Products : ToggleHeart(p) \/ ManagerRemove(p)
      BY <1>5
    <2> DEFINE n == [n |-> requests', op |-> IF p \in hearts THEN "drop" ELSE "add",
                     product |-> p]
    <2>2. n.op \notin {"edit", "stock", "remove", "notify"}
      OBVIOUS
    <2>3. CASE ToggleHeart(p)
      <3>1. jobs' = jobs \/ jobs' = jobs \cup {n}
        BY <2>3 DEF ToggleHeart
      <3> HIDE DEF n
      <3>2. UNCHANGED <<stock, orphaned, told, returns, linked>> /\ raced \subseteq raced'
        BY <2>3 DEF ToggleHeart
      <3> QED BY <2>2, <3>1, <3>2
    <2>4. CASE ManagerRemove(p)
      BY <2>4 DEF ManagerRemove
    <2> QED BY <2>1, <2>3, <2>4
  <1>6. ASSUME NEW j \in jobs, OrderPlaced(j)
        PROVE  /\ UNCHANGED <<stock, orphaned, told, returns>>
               /\ raced \subseteq raced' /\ jobs' \subseteq jobs
    BY <1>6 DEF OrderPlaced, PlaceOrder
  <1>7. ASSUME NEW j \in jobs,
               \/ OrderRefused(j) \/ AddToWishlist(j) \/ RemoveFromWishlist(j)
               \/ ManagerRemoved(j) \/ RequestFails(j) \/ MergeAnswer(j) \/ HandlerDies(j)
        PROVE  /\ UNCHANGED <<stock, orphaned, told, returns, linked, raced>> /\ jobs' \subseteq jobs
    BY <1>7 DEF OrderRefused, AddToWishlist, RemoveFromWishlist, ManagerRemoved, RequestFails,
                MergeAnswer, HandlerDies
  <1>8. ASSUME NEW j \in jobs, Merge(j)
        PROVE  /\ UNCHANGED <<stock, orphaned, told, returns, linked, raced>>
               /\ \A k \in jobs' : k.op \in {"edit", "stock", "remove", "notify"} => k \in jobs
    <2> DEFINE n == [j EXCEPT !.op = "merged", !.ids = wishlist']
    <2>1. jobs' = (jobs \ {j}) \cup {n} /\ j.op = "merge"
      BY <1>8 DEF Merge
    <2>2. n.op = "merged"
      <3>1. j \in [n : Numbers, op : {"merge", "merged"}, ids : SUBSET Products]
        BY <2>1, KindsOfJobs DEF TypeInv
      <3> QED BY <3>1
    <2> HIDE DEF n
    <2> QED BY <1>8, <2>1, <2>2 DEF Merge
  <1> QED BY <1>1, <1>2, <1>3, <1>4, <1>5, <1>6, <1>7, <1>8 DEF Customer, Handler

LEMMA RemovalsStep ==
  ASSUME TypeInv, RemovalsChecked, [Next]_vars
  PROVE  RemovalsChecked'
  <1> USE DEF tables, counts
  <1>1. ASSUME linked' \subseteq linked, orphaned' = orphaned, raced \subseteq raced',
               \A j \in jobs' : j.op = "remove" => j \in jobs
        PROVE  RemovalsChecked'
    BY <1>1 DEF RemovalsChecked, OrdersKeepTheirProducts, Removes
  <1>2. CASE \/ Customer \/ UNCHANGED vars
             \/ \E j \in jobs : Handler(j) \/ HandlerDies(j)
    <2>1. CASE linked' = linked
      BY <1>1, <1>2, <2>1, CustomerLeavesCatalogue
    <2>2. CASE \E j \in jobs : OrderPlaced(j)
      <3>1. PICK j \in jobs : OrderPlaced(j)
        BY <2>2
      <3>2. /\ linked' = linked \cup j.ids /\ jobs' \subseteq jobs /\ orphaned' = orphaned
            /\ raced' = raced \cup {<<"remove", p>> :
                          p \in {q \in j.ids : \E k \in jobs : Removes(k, q)}}
        BY <3>1 DEF OrderPlaced, PlaceOrder
      <3>3. \A k \in jobs', p \in linked' : Removes(k, p) => <<"remove", p>> \in raced'
        BY <3>2 DEF RemovalsChecked
      <3>4. OrdersKeepTheirProducts'
        BY <3>2 DEF RemovalsChecked, OrdersKeepTheirProducts
      <3> QED BY <3>3, <3>4 DEF RemovalsChecked
    <2> QED BY <1>2, <2>1, <2>2, CustomerLeavesCatalogue
  <1>3. CASE Admin
    <2>1. CASE \E p \in Products, to \in {0, 1} : EditRead(p, to) \/ InventoryCell(p, to)
      BY <1>1, <2>1 DEF EditRead, InventoryCell, Start
    <2>2. CASE \E ids \in SUBSET Products : RemoveRead(ids)
      <3>1. PICK ids \in SUBSET Products : RemoveRead(ids)
        BY <2>2
      <3> DEFINE n == [n |-> requests', op |-> "remove", ids |-> ids]
      <3>2. /\ jobs' = jobs \cup {n} /\ raced \subseteq raced' /\ n.ids = ids
            /\ UNCHANGED <<linked, orphaned>> /\ ids \cap linked = {}
        BY <3>1 DEF RemoveRead, RemoveAllowed, Start
      <3> HIDE DEF n
      <3>3. \A p \in linked : ~Removes(n, p)
        BY <3>2 DEF Removes
      <3> QED BY <3>2, <3>3 DEF RemovalsChecked, OrdersKeepTheirProducts
    <2> QED BY <1>3, <2>1, <2>2 DEF Admin
  <1>4. ASSUME NEW j \in jobs, AdminHandler(j)
        PROVE  RemovalsChecked'
    <2>1. CASE RemoveCommit(j)
      <3>1. /\ j.op = "remove" /\ linked' = linked \ j.ids /\ raced' = raced
            /\ orphaned' = orphaned \cup (linked \cap j.ids) /\ jobs' \subseteq jobs
        BY <2>1 DEF RemoveCommit, Finish
      <3>2. \A p \in linked \cap j.ids : <<"remove", p>> \in raced
        BY <3>1 DEF RemovalsChecked, Removes
      <3> QED BY <3>1, <3>2 DEF RemovalsChecked, OrdersKeepTheirProducts
    <2>2. CASE EditCommit(j)
      BY <1>1, <2>2 DEF EditCommit, Continue, Finish
    <2>3. CASE InventoryCommit(j) \/ WriteFails(j) \/ Notify(j)
      BY <1>1, <2>3 DEF InventoryCommit, WriteFails, Notify, Finish
    <2> QED BY <1>4, <2>1, <2>2, <2>3 DEF AdminHandler
  <1> QED BY <1>2, <1>3, <1>4 DEF Next

(* A product that some order points at is deleted only when the order came *)
(* between the count of its orders and the deletion: remove refuses a      *)
(* product that orders point at, and no other step takes a product away.   *)
THEOREM OrderedProductsStay == Spec => []OrdersKeepTheirProducts
  <1>1. Init => TypeInv /\ RemovalsChecked
    BY TypesAreInductive DEF Init, CatalogueInit, RemovalsChecked, OrdersKeepTheirProducts
  <1>2. TypeInv /\ RemovalsChecked /\ [Next]_vars => (TypeInv /\ RemovalsChecked)'
    BY TypesAreInductive, RemovalsStep
  <1>3. RemovalsChecked => OrdersKeepTheirProducts
    BY DEF RemovalsChecked
  <1> QED BY <1>1, <1>2, <1>3, PTL DEF Spec

(* What the mails say when the returns have not fallen and the mails sent  *)
(* and on their way have not grown.                                        *)
Answered(p) == IsFiniteSet(Mails(p)) /\ told[p] + Cardinality(Mails(p)) <= returns[p]

LEMMA FewerMails ==
  ASSUME TypeInv, NEW p \in Products, Answered(p), Mails(p)' \subseteq Mails(p),
         told'[p] = told[p], returns'[p] \in Nat, returns[p] <= returns'[p]
  PROVE  Answered(p)'
  <1>1. /\ IsFiniteSet(Mails(p)') /\ Cardinality(Mails(p)') <= Cardinality(Mails(p))
        /\ Cardinality(Mails(p)') \in Nat /\ Cardinality(Mails(p)) \in Nat
    BY FS_Subset, FS_CardinalityType DEF Answered
  <1>2. told[p] \in Nat /\ returns[p] \in Nat
    BY TypesOf DEF CatalogueTypeOK
  <1> QED BY <1>1, <1>2 DEF Answered

LEMMA StockQuiet ==
  ASSUME TypeInv, StockWatched, UNCHANGED <<stock, told, returns>>, raced \subseteq raced',
         \A j \in jobs' : j.op \in {"edit", "stock", "notify"} => j \in jobs
  PROVE  StockWatched'
  <1>1. \A j, k \in jobs', p \in Products :
          WritesStock(j, p) /\ WritesStock(k, p) => j = k \/ <<"stock", p>> \in raced'
    BY DEF StockWatched, WritesStock
  <1>2. ASSUME NEW p \in Products, <<"stock", p>> \notin raced'
        PROVE  /\ \A j \in jobs' : WritesStock(j, p) => j.was = stock'[p]
               /\ Answered(p)'
    <2>1. \A j \in jobs' : WritesStock(j, p) => j.was = stock'[p]
      BY <1>2 DEF StockWatched, WritesStock
    <2>2. Mails(p)' \subseteq Mails(p)
      BY DEF Mails, Tells
    <2>3. Answered(p) /\ returns[p] \in Nat
      BY <1>2, TypesOf DEF StockWatched, Answered, CatalogueTypeOK
    <2> QED BY <2>1, <2>2, <2>3, FewerMails
  <1> QED BY <1>1, <1>2 DEF StockWatched, Answered

(* A form or a cell is sent: it carries the stock the service has read. *)
LEMMA StockRead ==
  ASSUME TypeInv, StockWatched, Admin
  PROVE  StockWatched'
  <1> USE DEF tables, counts
  <1>1. CASE \E ids \in SUBSET Products : RemoveRead(ids)
    BY <1>1, StockQuiet DEF RemoveRead, Start
  <1>2. CASE \E p \in Products, to \in {0, 1} : EditRead(p, to) \/ InventoryCell(p, to)
    <2>1. PICK n : /\ n.op \in {"edit", "stock"} /\ n.was = stock[n.product] /\ n.product \in Products
                   /\ Start(n) /\ UNCHANGED <<tables, counts, failures>>
      <3>1. PICK p \in Products, to \in {0, 1} : EditRead(p, to) \/ InventoryCell(p, to)
        BY <1>2
      <3>2. CASE EditRead(p, to)
        <4> DEFINE n == [n |-> requests', op |-> "edit", product |-> p, was |-> stock[p], to |-> to]
        <4>1. n.op \in {"edit", "stock"} /\ n.was = stock[n.product] /\ n.product \in Products
          OBVIOUS
        <4>2. Start(n) /\ UNCHANGED <<tables, counts, failures>>
          BY <3>2 DEF EditRead
        <4> HIDE DEF n
        <4> QED BY <4>1, <4>2
      <3>3. CASE InventoryCell(p, to)
        <4> DEFINE n == [n |-> requests', op |-> "stock", product |-> p, was |-> stock[p], to |-> to]
        <4>1. n.op \in {"edit", "stock"} /\ n.was = stock[n.product] /\ n.product \in Products
          OBVIOUS
        <4>2. Start(n) /\ UNCHANGED <<tables, counts, failures>>
          BY <3>3 DEF InventoryCell
        <4> HIDE DEF n
        <4> QED BY <4>1, <4>2
      <3> QED BY <3>1, <3>2, <3>3
    <2>2. /\ jobs' = jobs \cup {n} /\ raced' = raced \cup StockRaces(jobs')
          /\ UNCHANGED <<stock, told, returns>>
      BY <2>1 DEF Start
    <2>3. \A j, k \in jobs', p \in Products :
            WritesStock(j, p) /\ WritesStock(k, p) => j = k \/ <<"stock", p>> \in raced'
      BY <2>2 DEF StockRaces
    <2>4. ASSUME NEW p \in Products, <<"stock", p>> \notin raced'
          PROVE  /\ \A j \in jobs' : WritesStock(j, p) => j.was = stock'[p]
                 /\ Answered(p)'
      <3>1. \A j \in jobs' : WritesStock(j, p) => j.was = stock'[p]
        BY <2>1, <2>2, <2>4 DEF StockWatched, WritesStock
      <3>2. Mails(p)' \subseteq Mails(p)
        BY <2>1, <2>2 DEF Mails, Tells
      <3>3. Answered(p) /\ returns[p] \in Nat
        BY <2>2, <2>4, TypesOf DEF StockWatched, Answered, CatalogueTypeOK
      <3> QED BY <2>2, <3>1, <3>2, <3>3, FewerMails
    <2> QED BY <2>3, <2>4 DEF StockWatched, Answered
  <1> QED BY <1>1, <1>2 DEF Admin

(* The stock is written: a mail goes out only when the stock was 0 and is  *)
(* not any more, which is then a return.                                   *)
LEMMA StockWritten ==
  ASSUME TypeInv, StockWatched, NEW j \in jobs, EditCommit(j) \/ InventoryCommit(j)
  PROVE  StockWatched'
  <1> DEFINE n == [n |-> j.n, op |-> "notify", product |-> j.product]
  <1>1. /\ j.op \in {"edit", "stock"} /\ SetStock(j.product, j.to) /\ raced' = raced
        /\ \/ jobs' = jobs \ {j}
           \/ jobs' = (jobs \ {j}) \cup {n} /\ BackInStock(j)
        /\ told' = told
    BY DEF EditCommit, InventoryCommit, Continue, Finish
  <1>2. /\ j.product \in Products /\ j.was \in {0, 1} /\ j.to \in {0, 1}
        /\ n.op = "notify" /\ n.product = j.product
    BY <1>1, KindsOfJobs DEF TypeInv
  <1> HIDE DEF n
  <1>3. /\ stock' = [stock EXCEPT ![j.product] = j.to]
        /\ returns' = IF stock[j.product] = 0 /\ j.to = 1
                        THEN [returns EXCEPT ![j.product] = @ + 1] ELSE returns
        /\ stock \in [Products -> {0, 1}] /\ returns \in [Products -> 0..MaxRequests]
        /\ told \in [Products -> 0..MaxRequests] /\ MaxRequests \in Nat
    BY <1>1, TypesOf DEF SetStock, CatalogueTypeOK
  <1>4. \A i, k \in jobs', p \in Products :
          WritesStock(i, p) /\ WritesStock(k, p) => i = k \/ <<"stock", p>> \in raced'
    BY <1>1, <1>2 DEF StockWatched, WritesStock
  <1>5. ASSUME NEW p \in Products, <<"stock", p>> \notin raced
        PROVE  /\ \A k \in jobs' : WritesStock(k, p) => k.was = stock'[p]
               /\ Answered(p)'
    <2>1. Answered(p)
      BY <1>5 DEF StockWatched, Answered
    <2>2. CASE p # j.product
      <3>1. \A k \in jobs' : WritesStock(k, p) => k.was = stock'[p]
        BY <1>1, <1>2, <1>3, <1>5, <2>2 DEF StockWatched, WritesStock
      <3>2. Mails(p)' \subseteq Mails(p)
        BY <1>1, <1>2, <2>2 DEF Mails, Tells
      <3>3. returns'[p] = returns[p] /\ returns[p] \in Nat
        BY <1>2, <1>3, <2>2
      <3> QED BY <1>1, <2>1, <3>1, <3>2, <3>3, FewerMails
    <2>3. CASE p = j.product
      <3>1. WritesStock(j, p)
        BY <1>1, <2>3 DEF WritesStock
      <3>2. \A k \in jobs' : ~WritesStock(k, p)
        BY <1>1, <1>2, <1>5, <3>1 DEF StockWatched, WritesStock
      <3>3. j.was = stock[p]
        BY <1>5, <3>1 DEF StockWatched
      <3>4. returns'[p] \in Nat /\ returns[p] <= returns'[p]
        BY <1>2, <1>3, <2>3
      <3>5. CASE Mails(p)' \subseteq Mails(p)
        BY <1>1, <2>1, <3>2, <3>4, <3>5, FewerMails
      <3>6. CASE ~(Mails(p)' \subseteq Mails(p))
        <4>1. jobs' = (jobs \ {j}) \cup {n} /\ BackInStock(j)
          BY <1>1, <3>6 DEF Mails, Tells
        <4>2. Mails(p)' = Mails(p) \cup {n}
          BY <1>1, <1>2, <2>3, <4>1 DEF Mails, Tells
        <4>3. returns'[p] = returns[p] + 1
          BY <1>2, <1>3, <2>3, <3>3, <4>1 DEF BackInStock
        <4>4. /\ IsFiniteSet(Mails(p)') /\ Cardinality(Mails(p)') <= Cardinality(Mails(p)) + 1
              /\ Cardinality(Mails(p)') \in Nat /\ Cardinality(Mails(p)) \in Nat
          BY <2>1, <4>2, OneMore DEF Answered
        <4>5. told'[p] = told[p] /\ told[p] \in Nat /\ returns[p] \in Nat
          BY <1>1, <1>3
        <4>6. told[p] + Cardinality(Mails(p)) <= returns[p]
          BY <2>1 DEF Answered
        <4>7. told'[p] + Cardinality(Mails(p)') <= returns'[p]
          BY <4>3, <4>4, <4>5, <4>6
        <4> QED BY <3>2, <4>4, <4>7 DEF Answered
      <3> QED BY <3>5, <3>6
    <2> QED BY <2>2, <2>3
  <1> QED BY <1>1, <1>4, <1>5 DEF StockWatched, Answered

(* The mail is sent, if somebody wishes for the product. *)
LEMMA MailSent ==
  ASSUME TypeInv, StockWatched, NEW j \in jobs, Notify(j)
  PROVE  StockWatched'
  <1>1. /\ j.op = "notify" /\ jobs' = jobs \ {j} /\ raced' = raced /\ UNCHANGED <<stock, returns>>
        /\ told' = told \/ told' = [told EXCEPT ![j.product] = @ + 1]
    BY DEF Notify, Finish, tables
  <1>2. j.product \in Products /\ told \in [Products -> 0..MaxRequests] /\ MaxRequests \in Nat
        /\ returns \in [Products -> 0..MaxRequests]
    BY <1>1, KindsOfJobs, TypesOf DEF TypeInv, CatalogueTypeOK
  <1>3. \A i, k \in jobs', p \in Products :
          WritesStock(i, p) /\ WritesStock(k, p) => i = k \/ <<"stock", p>> \in raced'
    BY <1>1 DEF StockWatched
  <1>4. ASSUME NEW p \in Products, <<"stock", p>> \notin raced
        PROVE  /\ \A k \in jobs' : WritesStock(k, p) => k.was = stock'[p]
               /\ Answered(p)'
    <2>1. Answered(p) /\ \A k \in jobs' : WritesStock(k, p) => k.was = stock'[p]
      BY <1>1, <1>4 DEF StockWatched, Answered
    <2>2. CASE p # j.product
      <3>1. Mails(p)' \subseteq Mails(p) /\ told'[p] = told[p] /\ returns'[p] = returns[p]
            /\ returns[p] \in Nat
        BY <1>1, <1>2, <2>2 DEF Mails, Tells
      <3> QED BY <2>1, <3>1, FewerMails
    <2>3. CASE p = j.product
      <3>1. Mails(p)' = Mails(p) \ {j} /\ j \in Mails(p)
        BY <1>1, <2>3 DEF Mails, Tells
      <3>2. /\ IsFiniteSet(Mails(p)') /\ Cardinality(Mails(p)') = Cardinality(Mails(p)) - 1
            /\ Cardinality(Mails(p)') \in Nat /\ Cardinality(Mails(p)) \in Nat
        BY <2>1, <3>1, OneLess DEF Answered
      <3>3. /\ told'[p] = told[p] \/ told'[p] = told[p] + 1
            /\ told[p] \in Nat /\ returns[p] \in Nat /\ returns'[p] = returns[p]
        BY <1>1, <1>2, <2>3
      <3>4. told[p] + Cardinality(Mails(p)) <= returns[p]
        BY <2>1 DEF Answered
      <3>5. told'[p] + Cardinality(Mails(p)') <= returns'[p]
        BY <3>2, <3>3, <3>4
      <3> QED BY <2>1, <3>2, <3>5 DEF Answered
    <2> QED BY <2>2, <2>3
  <1> QED BY <1>1, <1>3, <1>4 DEF StockWatched, Answered

LEMMA StockStep ==
  ASSUME TypeInv, StockWatched, [Next]_vars
  PROVE  StockWatched'
  <1>1. CASE \/ Customer \/ UNCHANGED vars
             \/ \E j \in jobs : Handler(j) \/ HandlerDies(j)
    BY <1>1, CustomerLeavesCatalogue, StockQuiet
  <1>2. CASE Admin
    BY <1>2, StockRead
  <1>3. ASSUME NEW j \in jobs, AdminHandler(j)
        PROVE  StockWatched'
    <2>1. CASE WriteFails(j) \/ RemoveCommit(j)
      BY <2>1, StockQuiet DEF WriteFails, RemoveCommit, Finish, tables, counts
    <2> QED BY <1>3, <2>1, StockWritten, MailSent DEF AdminHandler
  <1> QED BY <1>1, <1>2, <1>3 DEF Next

(* A wish is answered by at most one mail for each return of the product,  *)
(* while the changes of its stock come one at a time: the service compares *)
(* the stock it has read with the one it writes.                           *)
THEOREM MailsAreForReturns == Spec => []OneMailPerReturn
  <1>1. ASSUME Init
        PROVE  TypeInv /\ StockWatched
    <2>1. TypeInv /\ jobs = {} /\ \A p \in Products : told[p] = 0 /\ returns[p] = 0
      BY <1>1, TypesAreInductive DEF Init, CatalogueInit
    <2>2. \A p \in Products : Mails(p) = {}
      BY <2>1 DEF Mails
    <2> QED BY <2>1, <2>2, FS_EmptySet DEF StockWatched
  <1>2. TypeInv /\ StockWatched /\ [Next]_vars => (TypeInv /\ StockWatched)'
    BY TypesAreInductive, StockStep
  <1>3. ASSUME TypeInv, StockWatched
        PROVE  OneMailPerReturn
    <2>1. ASSUME NEW p \in Products, <<"stock", p>> \notin raced
          PROVE  told[p] <= returns[p]
      <3>1. /\ told[p] + Cardinality(Mails(p)) <= returns[p]
            /\ Cardinality(Mails(p)) \in Nat
        BY <1>3, <2>1, FS_CardinalityType DEF StockWatched
      <3>2. told[p] \in Nat /\ returns[p] \in Nat
        BY <1>3, TypesOf DEF CatalogueTypeOK
      <3> QED BY <3>1, <3>2
    <2> QED BY <2>1 DEF OneMailPerReturn
  <1> QED BY <1>1, <1>2, <1>3, PTL DEF Spec

(***************************************************************************)
(* The checkout.                                                           *)
(***************************************************************************)

Heard(j) == j.op = "order" /\ j.heard

LEMMA CheckoutQuiet ==
  ASSUME OneCheckout, cartUnchanged,
         \A j \in jobs' : j.op = "order" => j \in jobs
  PROVE  OneCheckout'
  <1> USE DEF cartUnchanged
  <1>1. CheckoutItems' = CheckoutItems /\ CheckoutOrderSummary' = CheckoutOrderSummary
    BY DEF CheckoutItems, CheckoutOrderSummary
  <1>2. CheckoutSellsTheChosen'
    BY <1>1 DEF OneCheckout, CheckoutSellsTheChosen
  <1> QED BY <1>2 DEF OneCheckout

(* Outside the payment step nobody waits for an order. *)
LEMMA NoOrderAwaited ==
  ASSUME OneCheckout, page # "payment"
  PROVE  \A j \in jobs : ~Heard(j)
  BY DEF OneCheckout, Heard

(* The customer walks on without touching what is in the checkout. *)
LEMMA StepKeepsCheckout ==
  ASSUME OneCheckout, NEW from \in CheckoutSteps \ {"payment"},
         NEW to \in {"address", "shipping", "confirmation"}, Step(from, to)
  PROVE  OneCheckout'
  <1>1. /\ page = from /\ page' = to /\ jobs' = jobs
        /\ UNCHANGED <<cart, express, chosen, abandoned>>
    BY DEF Step, catalogueUnchanged
  <1>2. CheckoutItems' = CheckoutItems /\ CheckoutItems = CheckoutOrderSummary
    BY <1>1 DEF CheckoutItems, CheckoutOrderSummary
  <1>3. CheckoutItems = chosen \/ abandoned
    BY <1>1, <1>2 DEF OneCheckout, CheckoutSellsTheChosen
  <1>4. \A j \in jobs : ~Heard(j)
    BY <1>1, NoOrderAwaited
  <1> QED BY <1>1, <1>2, <1>3, <1>4
          DEF OneCheckout, CheckoutSellsTheChosen, CheckoutOrderSummary, Heard

LEMMA ShopKeepsCheckout ==
  ASSUME OneCheckout,
         CartCheckout \/ \E p \in Products : AddItem(p) \/ RemoveItem(p) \/ BuyNow(p)
  PROVE  OneCheckout'
  <1>1. page = "shop" /\ jobs' = jobs /\ abandoned' = abandoned
    BY DEF CartCheckout, AddItem, RemoveItem, BuyNow, ProductPage, catalogueUnchanged
  <1>2. \A j \in jobs' : ~Heard(j)
    BY <1>1, NoOrderAwaited
  <1>3. express = None \/ abandoned
    BY <1>1 DEF OneCheckout
  <1>4. CASE \E p \in Products : AddItem(p) \/ RemoveItem(p)
    <2>1. page' = page /\ express' = express
      BY <1>4 DEF AddItem, RemoveItem
    <2> QED BY <1>1, <1>2, <1>3, <2>1 DEF OneCheckout, CheckoutSellsTheChosen, CheckoutSteps, Heard
  <1>5. CASE CartCheckout \/ \E p \in Products : BuyNow(p)
    <2>1. page' \in {"entry", "address"}
      BY <1>5 DEF CartCheckout, BuyNow, CheckoutEntry
    <2>2. CheckoutItems' = chosen' \/ abandoned
      BY <1>3, <1>5, NoneAssumption DEF CartCheckout, BuyNow, CheckoutItems
    <2> QED BY <1>1, <1>2, <2>1, <2>2
            DEF OneCheckout, CheckoutSellsTheChosen, CheckoutOrderSummary, CheckoutSteps, Heard
  <1> QED BY <1>4, <1>5

(* The payment step sends what every step before it has shown. *)
LEMMA PaymentKeepsCheckout ==
  ASSUME OneCheckout, CheckoutShippingMethodForm
  PROVE  OneCheckout'
  <1> DEFINE n == [n |-> requests', op |-> "order", ids |-> CheckoutItems, heard |-> TRUE]
  <1>1. /\ page = "shipping" /\ page' = "payment" /\ jobs' = jobs \cup {n}
        /\ UNCHANGED <<cart, express, chosen, abandoned>>
    BY DEF CheckoutShippingMethodForm, Start
  <1>2. n.op = "order" /\ n.ids = CheckoutItems
    OBVIOUS
  <1> HIDE DEF n
  <1>3. CheckoutItems' = CheckoutItems /\ (CheckoutItems = chosen \/ abandoned)
    BY <1>1 DEF CheckoutItems, OneCheckout, CheckoutSellsTheChosen, CheckoutOrderSummary,
                CheckoutSteps
  <1>4. \A j \in jobs : ~Heard(j)
    BY <1>1, NoOrderAwaited
  <1> QED BY <1>1, <1>2, <1>3, <1>4
          DEF OneCheckout, CheckoutSellsTheChosen, CheckoutOrderSummary, CheckoutSteps, Heard

LEMMA OrderKeepsCheckout ==
  ASSUME OneCheckout, NEW j \in jobs, OrderPlaced(j)
  PROVE  OneCheckout'
  <1>1. /\ j.op = "order" /\ jobs' = jobs \ {j}
        /\ page' = IF j.heard THEN "card" ELSE page
        /\ UNCHANGED <<cart, express, chosen, abandoned>>
    BY DEF OrderPlaced
  <1>2. CASE ~j.heard
    BY <1>1, <1>2, CheckoutQuiet DEF cartUnchanged
  <1>3. CASE j.heard
    <2>1. page = "payment" /\ \A k \in jobs' : ~Heard(k)
      BY <1>1, <1>3 DEF OneCheckout, Heard
    <2>2. CheckoutItems' = CheckoutItems /\ (CheckoutItems = chosen \/ abandoned)
      BY <1>1, <2>1 DEF CheckoutItems, OneCheckout, CheckoutSellsTheChosen, CheckoutOrderSummary,
                        CheckoutSteps
    <2> QED BY <1>1, <1>3, <2>1, <2>2
            DEF OneCheckout, CheckoutSellsTheChosen, CheckoutOrderSummary, CheckoutSteps, Heard
  <1> QED BY <1>2, <1>3

(* Whoever leaves with an express item has abandoned it; the answer to the *)
(* order, if one is on its way, is for nobody.                             *)
LEMMA LeaveKeepsCheckout ==
  ASSUME TypeInv, OneCheckout, LeaveCheckout \/ Cleanup
  PROVE  OneCheckout'
  <1>1. page' = "shop" /\ chosen' = chosen /\ (express' = None \/ abandoned')
    BY DEF LeaveCheckout, Cleanup
  <1>2. \A j \in jobs' : ~Heard(j)
    <2>1. CASE LeaveCheckout
      <3>1. SUFFICES ASSUME NEW j \in jobs', j.op = "order"
                     PROVE  ~j.heard
        BY DEF Heard
      <3>2. PICK k \in jobs : j = IF k.op = "order" THEN [k EXCEPT !.heard = FALSE] ELSE k
        BY <2>1 DEF LeaveCheckout
      <3>3. k.op = "order" /\ j = [k EXCEPT !.heard = FALSE]
        BY <3>1, <3>2
      <3>4. k \in OrderJobs
        BY <3>3, KindsOfJobs DEF TypeInv
      <3> QED BY <3>3, <3>4, Zenon DEF OrderJobs
    <2>2. CASE Cleanup
      <3>1. page # "payment"
        BY <2>2 DEF Cleanup
      <3>2. \A j \in jobs : ~Heard(j)
        BY <3>1, NoOrderAwaited
      <3>3. \A j \in jobs' : j.op = "order" => j \in jobs
        BY <2>2 DEF Cleanup, Start
      <3> QED BY <3>2, <3>3 DEF Heard
    <2> QED BY <2>1, <2>2
  <1> QED BY <1>1, <1>2 DEF OneCheckout, CheckoutSellsTheChosen, CheckoutSteps, Heard

LEMMA CheckoutStep ==
  ASSUME TypeInv, OneCheckout, [Next]_vars
  PROVE  OneCheckout'
  <1> USE DEF browser, server, cartUnchanged, Start, Continue, Finish
  <1>1. CASE Customer
    <2>1. CASE ContinueAsGuest \/ CheckoutAddressForm \/ Back \/ Buy
      BY <2>1, StepKeepsCheckout
      DEF ContinueAsGuest, CheckoutAddressForm, Back, Buy, CheckoutSteps
    <2>2. CASE \E p \in Products : ToggleHeart(p)
      <3>1. PICK p \in Products : ToggleHeart(p)
        BY <2>2
      <3> DEFINE n == [n |-> requests', op |-> IF p \in hearts THEN "drop" ELSE "add",
                       product |-> p]
      <3>2. n.op # "order"
        OBVIOUS
      <3>3. (jobs' = jobs \/ jobs' = jobs \cup {n}) /\ cartUnchanged
        BY <3>1 DEF ToggleHeart
      <3> HIDE DEF n
      <3> QED BY <3>2, <3>3, CheckoutQuiet
    <2>3. CASE \/ \E p \in Products : ManagerRemove(p)
               \/ Login \/ TokenGone
      BY <2>3, CheckoutQuiet DEF ManagerRemove, Login, TokenGone
    <2> QED BY <1>1, <2>1, <2>2, <2>3, ShopKeepsCheckout, PaymentKeepsCheckout, LeaveKeepsCheckout
            DEF Customer
  <1>2. CASE Admin /\ UNCHANGED browser
    BY <1>2, CheckoutQuiet DEF Admin, EditRead, InventoryCell, RemoveRead
  <1>3. ASSUME NEW j \in jobs, AdminHandler(j), UNCHANGED browser
        PROVE  OneCheckout'
    BY <1>3, CheckoutQuiet DEF AdminHandler, EditCommit, InventoryCommit, WriteFails, Notify,
                               RemoveCommit
  <1>4. ASSUME NEW j \in jobs, Handler(j) \/ HandlerDies(j)
        PROVE  OneCheckout'
    <2>1. CASE Merge(j)
      <3> DEFINE n == [j EXCEPT !.op = "merged", !.ids = wishlist']
      <3>1. j.op = "merge" /\ jobs' = (jobs \ {j}) \cup {n} /\ cartUnchanged
        BY <2>1 DEF Merge
      <3>2. n.op = "merged"
        <4>1. j \in [n : Numbers, op : {"merge", "merged"}, ids : SUBSET Products]
          BY <3>1, KindsOfJobs DEF TypeInv
        <4> QED BY <4>1
      <3> HIDE DEF n
      <3> QED BY <3>1, <3>2, CheckoutQuiet
    <2>2. CASE \/ OrderRefused(j) \/ AddToWishlist(j) \/ RemoveFromWishlist(j)
               \/ ManagerRemoved(j) \/ RequestFails(j) \/ MergeAnswer(j) \/ HandlerDies(j)
      BY <2>2, CheckoutQuiet
      DEF OrderRefused, AddToWishlist, RemoveFromWishlist, ManagerRemoved, RequestFails,
          MergeAnswer, HandlerDies
    <2> QED BY <1>4, <2>1, <2>2, OrderKeepsCheckout DEF Handler
  <1>5. CASE UNCHANGED vars
    BY <1>5, CheckoutQuiet DEF vars
  <1> QED BY <1>1, <1>2, <1>3, <1>4, <1>5 DEF Next

(* The checkout shows, and the order that the customer waits for holds,    *)
(* what the customer has set out to buy, unless an express checkout was    *)
(* abandoned (useCheckoutItems prefers an express item that is left over). *)
THEOREM TheChosenIsSold == Spec => []CheckoutSellsTheChosen
  <1>1. ASSUME Init
        PROVE  TypeInv /\ OneCheckout
    <2>1. TypeInv /\ jobs = {} /\ page = "shop" /\ express = None
      BY <1>1, TypesAreInductive DEF Init, CatalogueInit
    <2> QED BY <2>1 DEF OneCheckout, CheckoutSellsTheChosen, CheckoutSteps
  <1>2. TypeInv /\ OneCheckout /\ [Next]_vars => (TypeInv /\ OneCheckout)'
    BY TypesAreInductive, CheckoutStep
  <1>3. OneCheckout => CheckoutSellsTheChosen
    BY DEF OneCheckout
  <1> QED BY <1>1, <1>2, <1>3, PTL DEF Spec

(***************************************************************************)
(* Hearts.                                                                 *)
(***************************************************************************)

HeartOps == {"add", "take", "drop", "merge", "merged"}

LEMMA HeartsQuiet ==
  ASSUME HeartsWatched, UNCHANGED <<products, wishlist, hearts, signedIn, muddled, failures>>,
         \A j : j.op \in HeartOps => (j \in jobs' <=> j \in jobs)
  PROVE  HeartsWatched'
  <1>1. \A p : HeartOf(p) => HeartOf(p)'
    BY DEF HeartOf, AboutHeart, HeartOps
  <1> QED BY <1>1 DEF HeartsWatched

LEMMA FailureExcuses ==
  ASSUME TypeInv, failures' = failures + 1
  PROVE  HeartsWatched'
  <1>1. failures \in Nat
    BY TypesOf, FailuresAssumption DEF CatalogueTypeOK
  <1> QED BY <1>1 DEF HeartsWatched

(* The token comes and goes; guests send nothing. *)
LEMMA TokenKeepsHearts ==
  ASSUME TypeInv, HeartsWatched, failures' = failures, Login \/ TokenGone
  PROVE  HeartsWatched'
  <1>1. SUFFICES ASSUME ~(failures > 0), NEW p \in Products \ muddled'
                 PROVE  HeartOf(p)'
    BY DEF HeartsWatched
  <1>2. CASE TokenGone
    <2>1. ~signedIn' /\ UNCHANGED <<jobs, wishlist, products, muddled>>
      BY <1>2, Zenon DEF TokenGone, server, tables
    <2>2. HeartOf(p)
      BY <1>1, <2>1 DEF HeartsWatched
    <2> QED BY <2>1, <2>2 DEF HeartOf
  <1>3. CASE Login /\ hearts = {}
    <2>1. UNCHANGED <<jobs, wishlist, products, muddled, hearts>>
      BY <1>3 DEF Login, tables
    <2>2. HeartOf(p)
      BY <1>1, <2>1 DEF HeartsWatched
    <2> QED BY <1>3, <2>1, <2>2 DEF HeartOf
  <1>4. CASE Login /\ hearts # {}
    <2> DEFINE n == [n |-> requests', op |-> "merge", ids |-> hearts]
    <2>1. /\ jobs' = jobs \cup {n} /\ muddled' = muddled \cup UNION {Muddles(q) : q \in Products}
          /\ UNCHANGED <<wishlist, products, hearts>>
      BY <1>4 DEF Login, Start, tables
    <2>2. n.op = "merge" /\ n.ids = hearts
      OBVIOUS
    <2> HIDE DEF n
    <2>3. \A j \in jobs : ~AboutHeart(j, p)
      <3>1. p \notin Muddles(p)
        BY <1>1, <2>1
      <3> QED BY <3>1 DEF Muddles
    <2> QED BY <2>1, <2>2, <2>3 DEF HeartOf, AboutHeart
  <1> QED BY <1>2, <1>3, <1>4

LEMMA ClickKeepsHearts ==
  ASSUME TypeInv, HeartsWatched, NEW q \in Products, ToggleHeart(q) \/ ManagerRemove(q)
  PROVE  HeartsWatched'
  <1> USE DEF tables
  <1>0. failures' = failures
    BY DEF ToggleHeart, ManagerRemove
  <1>1. SUFFICES ASSUME ~(failures > 0), NEW p \in Products \ muddled'
                 PROVE  HeartOf(p)'
    BY <1>0 DEF HeartsWatched
  <1>2. CASE ToggleHeart(q) /\ ~signedIn
    <2>1. UNCHANGED <<jobs, wishlist, products, muddled, signedIn>>
      BY <1>2 DEF ToggleHeart
    <2>2. HeartOf(p)
      BY <1>1, <2>1 DEF HeartsWatched
    <2> QED BY <1>2, <2>1, <2>2 DEF HeartOf
  <1>3. CASE ToggleHeart(q) /\ signedIn
    <2> DEFINE n == [n |-> requests', op |-> IF q \in hearts THEN "drop" ELSE "add",
                     product |-> q]
    <2>1. /\ jobs' = jobs \cup {n} /\ muddled' = muddled \cup Muddles(q)
          /\ UNCHANGED <<wishlist, products, signedIn>>
          /\ hearts' = IF q \in hearts THEN hearts \ {q} ELSE hearts \cup {q}
      BY <1>3 DEF ToggleHeart, Start
    <2>2. n.op = (IF q \in hearts THEN "drop" ELSE "add") /\ n.product = q
      OBVIOUS
    <2> HIDE DEF n
    <2>3. HeartOf(p)
      BY <1>1, <2>1 DEF HeartsWatched
    <2>4. CASE p = q
      <3>1. \A j \in jobs : ~AboutHeart(j, p)
        BY <1>1, <2>1, <2>4 DEF Muddles
      <3>2. AboutHeart(n, p)
        BY <2>2, <2>4 DEF AboutHeart
      <3> QED BY <2>1, <2>2, <2>4, <3>1, <3>2 DEF HeartOf, AboutHeart
    <2>5. CASE p # q
      <3>1. ~AboutHeart(n, p) /\ (p \in hearts' <=> p \in hearts)
        BY <2>1, <2>2, <2>5 DEF AboutHeart
      <3> QED BY <2>1, <2>2, <2>3, <2>5, <3>1 DEF HeartOf, AboutHeart
    <2> QED BY <2>4, <2>5
  <1>4. CASE ManagerRemove(q)
    <2> DEFINE n == [n |-> requests', op |-> "take", product |-> q]
    <2>1. /\ jobs' = jobs \cup {n} /\ muddled' = muddled \cup Muddles(q) /\ q \in wishlist
          /\ UNCHANGED <<wishlist, products, signedIn, hearts>>
      BY <1>4 DEF ManagerRemove, WishlistManager, Start
    <2>2. n.op = "take" /\ n.product = q
      OBVIOUS
    <2> HIDE DEF n
    <2>3. HeartOf(p)
      BY <1>1, <2>1 DEF HeartsWatched
    <2>4. CASE p = q
      <3>1. \A j \in jobs : ~AboutHeart(j, p)
        BY <1>1, <2>1, <2>4 DEF Muddles
      <3> QED BY <2>1, <2>2, <2>4, <3>1 DEF HeartOf, AboutHeart
    <2>5. CASE p # q
      BY <2>1, <2>2, <2>3, <2>5 DEF HeartOf, AboutHeart
    <2> QED BY <2>4, <2>5
  <1> QED BY <1>2, <1>3, <1>4

(* The heart of the express item that was bought. *)
LEMMA CleanupKeepsHearts ==
  ASSUME TypeInv, HeartsWatched, Cleanup
  PROVE  HeartsWatched'
  <1>0. /\ failures' = failures /\ hearts' = hearts \ {express}
        /\ UNCHANGED <<wishlist, products, signedIn>> /\ None \notin Products
    BY NoneAssumption DEF Cleanup, tables
  <1>1. SUFFICES ASSUME ~(failures > 0), NEW p \in Products \ muddled'
                 PROVE  HeartOf(p)'
    BY <1>0 DEF HeartsWatched
  <1>2. CASE express # None /\ signedIn
    <2> DEFINE n == [n |-> requests', op |-> "drop", product |-> express]
    <2>1. jobs' = jobs \cup {n} /\ muddled' = muddled \cup {express}
      BY <1>2 DEF Cleanup, Start
    <2>2. n.op = "drop" /\ n.product = express
      OBVIOUS
    <2> HIDE DEF n
    <2>3. HeartOf(p) /\ p # express
      BY <1>1, <2>1 DEF HeartsWatched
    <2> QED BY <1>0, <2>1, <2>2, <2>3 DEF HeartOf, AboutHeart
  <1>3. CASE ~(express # None /\ signedIn)
    <2>1. UNCHANGED <<jobs, muddled>>
      BY <1>3 DEF Cleanup
    <2>2. HeartOf(p)
      BY <1>1, <2>1 DEF HeartsWatched
    <2>3. CASE ~signedIn
      BY <1>0, <2>1, <2>2, <2>3 DEF HeartOf
    <2>4. CASE express = None
      <3>1. p \in hearts' <=> p \in hearts
        BY <1>0, <2>4
      <3> QED BY <1>0, <2>1, <2>2, <3>1 DEF HeartOf
    <2> QED BY <1>3, <2>3, <2>4
  <1> QED BY <1>2, <1>3

(* The server's list, and the answers. *)
LEMMA AnswerKeepsHearts ==
  ASSUME TypeInv, HeartsWatched, NEW j \in jobs,
         AddToWishlist(j) \/ RemoveFromWishlist(j) \/ ManagerRemoved(j) \/ MergeAnswer(j)
  PROVE  HeartsWatched'
  <1> USE DEF tables, heartsUnchanged
  <1>0. failures' = failures /\ jobs' = jobs \ {j} /\ UNCHANGED <<products, signedIn, muddled>>
    BY DEF AddToWishlist, RemoveFromWishlist, ManagerRemoved, MergeAnswer, Finish
  <1>1. SUFFICES ASSUME ~(failures > 0), NEW p \in Products \ muddled
                 PROVE  HeartOf(p)'
    BY <1>0 DEF HeartsWatched
  <1>2. HeartOf(p)
    BY <1>1 DEF HeartsWatched
  <1>3. CASE AddToWishlist(j)
    <2>1. /\ j.op = "add"
          /\ \/ j.product \in products /\ wishlist' = wishlist \cup {j.product} /\ hearts' = hearts
             \/ j.product \notin products /\ hearts' = hearts \ {j.product} /\ wishlist' = wishlist
      BY <1>3 DEF AddToWishlist
    <2> QED BY <1>0, <1>2, <2>1 DEF HeartOf, AboutHeart
  <1>4. CASE RemoveFromWishlist(j)
    <2>1. j.op = "drop" /\ wishlist' = wishlist \ {j.product} /\ hearts' = hearts
      BY <1>4 DEF RemoveFromWishlist
    <2> QED BY <1>0, <1>2, <2>1 DEF HeartOf, AboutHeart
  <1>5. CASE ManagerRemoved(j)
    <2>1. /\ j.op = "take" /\ wishlist' = wishlist \ {j.product}
          /\ hearts' = hearts \ {j.product}
      BY <1>5 DEF ManagerRemoved
    <2> QED BY <1>0, <1>2, <2>1 DEF HeartOf, AboutHeart
  <1>6. CASE MergeAnswer(j)
    <2>1. j.op = "merged" /\ hearts' = j.ids /\ wishlist' = wishlist
      BY <1>6 DEF MergeAnswer
    <2> QED BY <1>0, <1>2, <2>1 DEF HeartOf, AboutHeart
  <1> QED BY <1>3, <1>4, <1>5, <1>6

LEMMA MergeKeepsHearts ==
  ASSUME TypeInv, HeartsWatched, NEW j \in jobs, Merge(j)
  PROVE  HeartsWatched'
  <1> DEFINE n == [j EXCEPT !.op = "merged", !.ids = wishlist']
  <1>0. /\ j.op = "merge" /\ jobs' = (jobs \ {j}) \cup {n}
        /\ wishlist' = wishlist \cup (j.ids \cap products)
        /\ UNCHANGED <<products, failures, hearts, signedIn, muddled>>
    BY DEF Merge, Continue, heartsUnchanged
  <1>1. n.op = "merged" /\ n.ids = wishlist'
    <2>1. j \in [n : Numbers, op : {"merge", "merged"}, ids : SUBSET Products]
      BY <1>0, KindsOfJobs DEF TypeInv
    <2> DEFINE x == [j EXCEPT !.op = "merged"]
    <2>2. x \in [n : Numbers, op : {"merge", "merged"}, ids : SUBSET Products] /\ x.op = "merged"
      BY <2>1
    <2>3. n = [x EXCEPT !.ids = wishlist']
      OBVIOUS
    <2> HIDE DEF x, n
    <2> QED BY <2>2, <2>3
  <1> HIDE DEF n
  <1>2. SUFFICES ASSUME ~(failures > 0), NEW p \in Products \ muddled
                 PROVE  HeartOf(p)'
    BY <1>0 DEF HeartsWatched
  <1>3. HeartOf(p)
    BY <1>2 DEF HeartsWatched
  <1>4. \A k \in jobs : AboutHeart(k, p) => k = j
    BY <1>0, <1>3 DEF HeartOf, AboutHeart
  <1> QED BY <1>0, <1>1, <1>3, <1>4 DEF HeartOf, AboutHeart

(* A product that is deleted takes its wish along. *)
LEMMA RemoveKeepsHearts ==
  ASSUME HeartsWatched, NEW j \in jobs, RemoveCommit(j), UNCHANGED browser
  PROVE  HeartsWatched'
  <1>1. /\ j.op = "remove" /\ products' = products \ j.ids /\ wishlist' = wishlist \ j.ids
        /\ jobs' = jobs \ {j} /\ UNCHANGED <<failures, hearts, signedIn, muddled>>
    BY DEF RemoveCommit, Finish, browser
  <1>2. \A p : HeartOf(p) => HeartOf(p)'
    BY <1>1 DEF HeartOf, AboutHeart
  <1> QED BY <1>1, <1>2 DEF HeartsWatched

LEMMA HeartsStep ==
  ASSUME TypeInv, HeartsWatched, [Next]_vars
  PROVE  HeartsWatched'
  <1> USE DEF tables, counts, server, browser, catalogueUnchanged, heartsUnchanged,
              Start, Continue, Finish, HeartOps
  <1>1. CASE Customer
    <2>1. CASE \/ \E p \in Products : AddItem(p) \/ RemoveItem(p) \/ BuyNow(p)
               \/ CartCheckout \/ ContinueAsGuest \/ CheckoutAddressForm \/ Back \/ Buy
      BY <2>1, HeartsQuiet
      DEF AddItem, RemoveItem, BuyNow, CartCheckout, ContinueAsGuest, CheckoutAddressForm,
          Back, Buy, Step
    <2>2. CASE CheckoutShippingMethodForm
      BY <2>2, HeartsQuiet DEF CheckoutShippingMethodForm
    <2>3. CASE LeaveCheckout
      <3>1. \A j : j.op \in HeartOps => (j \in jobs' <=> j \in jobs)
        <4>1. ASSUME NEW j, j.op \in HeartOps, j \in jobs'
              PROVE  j \in jobs
          <5>1. PICK k \in jobs : j = IF k.op = "order" THEN [k EXCEPT !.heard = FALSE] ELSE k
            BY <2>3, <4>1 DEF LeaveCheckout
          <5>2. CASE k.op = "order"
            <6>1. k \in OrderJobs
              BY <5>2, KindsOfJobs DEF TypeInv
            <6> QED BY <4>1, <5>1, <5>2, <6>1 DEF OrderJobs
          <5>3. CASE k.op # "order"
            BY <5>1, <5>3
          <5> QED BY <5>2, <5>3
        <4>2. ASSUME NEW j, j.op \in HeartOps, j \in jobs
              PROVE  j \in jobs'
          <5>1. j = IF j.op = "order" THEN [j EXCEPT !.heard = FALSE] ELSE j
            BY <4>2
          <5> QED BY <2>3, <4>2, <5>1 DEF LeaveCheckout
        <4> QED BY <4>1, <4>2
      <3> QED BY <2>3, <3>1, HeartsQuiet DEF LeaveCheckout
    <2>4. CASE Login \/ TokenGone
      BY <2>4, TokenKeepsHearts DEF Login, TokenGone
    <2> QED BY <1>1, <2>1, <2>2, <2>3, <2>4, CleanupKeepsHearts, ClickKeepsHearts DEF Customer
  <1>2. CASE Admin /\ UNCHANGED browser
    BY <1>2, HeartsQuiet DEF Admin, EditRead, InventoryCell, RemoveRead
  <1>3. ASSUME NEW j \in jobs, AdminHandler(j), UNCHANGED browser
        PROVE  HeartsWatched'
    <2>1. CASE EditCommit(j)
      BY <1>3, <2>1, HeartsQuiet DEF EditCommit
    <2>2. CASE InventoryCommit(j) \/ WriteFails(j) \/ Notify(j)
      BY <1>3, <2>2, HeartsQuiet DEF InventoryCommit, WriteFails, Notify
    <2> QED BY <1>3, <2>1, <2>2, RemoveKeepsHearts DEF AdminHandler
  <1>4. ASSUME NEW j \in jobs, Handler(j)
        PROVE  HeartsWatched'
    <2>1. CASE OrderPlaced(j)
      BY <2>1, HeartsQuiet DEF OrderPlaced, PlaceOrder
    <2>2. CASE OrderRefused(j)
      BY <2>2, HeartsQuiet DEF OrderRefused
    <2>3. CASE RequestFails(j)
      BY <2>3, FailureExcuses DEF RequestFails
    <2> QED BY <1>4, <2>1, <2>2, <2>3, AnswerKeepsHearts, MergeKeepsHearts DEF Handler
  <1>5. ASSUME NEW j \in jobs, HandlerDies(j)
        PROVE  HeartsWatched'
    BY <1>5, FailureExcuses DEF HandlerDies
  <1>6. CASE UNCHANGED vars
    BY <1>6, HeartsQuiet DEF vars
  <1> QED BY <1>1, <1>2, <1>3, <1>4, <1>5, <1>6 DEF Next

(* A heart that a signed-in customer sees is on the server's list when     *)
(* nothing is in flight, while no request has failed and no click or merge *)
(* has overtaken another: the toggle, the wishlist page, the login's merge *)
(* and its answer, the deletion of a product and the cleanup after "Buy    *)
(* now" keep the two lists together.                                       *)
THEOREM HeartsReachTheServer == Spec => []HeartsAreSaved
  <1>1. ASSUME Init
        PROVE  TypeInv /\ HeartsWatched
    <2>1. TypeInv /\ jobs = {} /\ ~signedIn
      BY <1>1, TypesAreInductive, Zenon DEF Init, CatalogueInit
    <2> QED BY <2>1 DEF HeartsWatched, HeartOf
  <1>2. TypeInv /\ HeartsWatched /\ [Next]_vars => (TypeInv /\ HeartsWatched)'
    BY TypesAreInductive, HeartsStep
  <1>3. ASSUME TypeInv, HeartsWatched
        PROVE  HeartsAreSaved
    <2>1. SUFFICES ASSUME signedIn, ~(failures > 0), NEW p \in hearts \cap products,
                          ~\E j \in jobs : j.op \in {"add", "take", "drop", "merge", "merged"},
                          p \notin muddled
                   PROVE  p \in wishlist
      BY DEF HeartsAreSaved
    <2>2. p \in Products
      BY <1>3, TypesOf DEF BrowserTypes
    <2>3. HeartOf(p)
      BY <1>3, <2>1, <2>2 DEF HeartsWatched
    <2> QED BY <2>1, <2>3 DEF HeartOf
  <1> QED BY <1>1, <1>2, <1>3, PTL DEF Spec
=============================================================================
