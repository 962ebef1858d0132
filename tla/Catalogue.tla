------------------------------ MODULE Catalogue ------------------------------
(***************************************************************************)
(* The products as the API keeps them: their stock, the order items that   *)
(* point at them, the wishlist of one customer, and the mail that says a   *)
(* wished product is back.                                                 *)
(*                                                                         *)
(* Admin handlers read the product and write it later, by key; the stock   *)
(* is 0 or 1 (a CHECK of the database) and no order takes from it.         *)
(***************************************************************************)
EXTENDS Integers, FiniteSets

CONSTANTS
  Products,     \* the products there are at first
  MaxRequests,  \* requests and clicks (bounds the model)
  MaxFailures   \* handlers that die and answers that are lost (bounds the model)

ASSUME RequestsAssumption == MaxRequests \in Nat
ASSUME FailuresAssumption == MaxFailures \in Nat

VARIABLES
  products,  \* Product rows that are there
  stock,     \* Product.stock
  linked,    \* products some OrderItem points at
  orphaned,  \* products an OrderItem pointed at when they were deleted
  wishlist,  \* the customer's Wishlist row: its products
  told,      \* back-in-stock mails sent, per product
  returns,   \* times the stock went from 0 to 1, per product
  jobs,      \* the handlers in flight
  requests,  \* requests sent so far
  failures,  \* failures so far
  raced      \* products of which an overlap has been seen, with its kind

tables == <<products, stock, linked, orphaned, wishlist>>
counts == <<told, returns>>
server == <<jobs, requests, failures, raced>>

----------------------------------------------------------------------------
Numbers == 1..MaxRequests

AdminJobs ==
  [n : Numbers, op : {"edit", "stock"}, product : Products, was : {0, 1}, to : {0, 1}]
    \cup [n : Numbers, op : {"remove"}, ids : SUBSET Products]
    \cup [n : Numbers, op : {"notify"}, product : Products]

CatalogueTypeOK ==
  /\ products \subseteq Products
  /\ stock    \in [Products -> {0, 1}]
  /\ linked   \subseteq products
  /\ orphaned \subseteq Products \ products
  /\ wishlist \subseteq products
  /\ told     \in [Products -> 0..MaxRequests]
  /\ returns  \in [Products -> 0..MaxRequests]
  /\ requests \in 0..MaxRequests
  /\ failures \in 0..MaxFailures

CatalogueInit ==
  /\ products = Products /\ stock = [p \in Products |-> 0]
  /\ linked = {} /\ orphaned = {} /\ wishlist = {}
  /\ told = [p \in Products |-> 0] /\ returns = [p \in Products |-> 0]
  /\ jobs = {} /\ requests = 0 /\ failures = 0 /\ raced = {}

----------------------------------------------------------------------------
Send == requests < MaxRequests /\ requests' = requests + 1

WritesStock(j, p) == j.op \in {"edit", "stock"} /\ j.product = p

Removes(j, p) == j.op = "remove" /\ p \in j.ids

StockRaces(js) ==
  {<<"stock", p>> : p \in {q \in Products :
     \E j, k \in js : j # k /\ WritesStock(j, q) /\ WritesStock(k, q)}}

Start(j) ==
  /\ jobs' = jobs \cup {j}
  /\ raced' = raced \cup StockRaces(jobs')

Continue(j, next) == jobs' = (jobs \ {j}) \cup {next} /\ UNCHANGED raced

Finish(j) == jobs' = jobs \ {j} /\ UNCHANGED raced

SetStock(p, to) ==
  /\ stock' = [stock EXCEPT ![p] = to]
  /\ returns' = IF stock[p] = 0 /\ to = 1 THEN [returns EXCEPT ![p] = @ + 1] ELSE returns

----------------------------------------------------------------------------
(* ProductsService.update, from the product form, which sends every field  *)
(* with the stock it was opened with or another.                           *)
EditRead(p, to) ==
  /\ p \in products
  /\ Send
  /\ Start([n |-> requests', op |-> "edit", product |-> p, was |-> stock[p], to |-> to])
  /\ UNCHANGED <<tables, counts, failures>>

(* Mutant: the stock before is not looked at. *)
BackInStock_AnyBefore(j) == j.to > 0

BackInStock(j) == j.was = 0 /\ j.to > 0

EditCommit(j) ==
  /\ j.op = "edit" /\ j.product \in products
  /\ SetStock(j.product, j.to)
  /\ IF BackInStock(j)
       THEN Continue(j, [n |-> j.n, op |-> "notify", product |-> j.product])
       ELSE Finish(j)
  /\ UNCHANGED <<products, linked, orphaned, wishlist, told, requests, failures>>

(* Every product that is there, whatever its status. *)
findInventory == products

(* The inventory page: a row for each, with a cell that can be edited.     *)
InventoryTable(p) == p \in findInventory

(* updateStock, from a cell of the page, with the stock that was typed. *)
InventoryCell(p, to) ==
  /\ InventoryTable(p)
  /\ Send
  /\ Start([n |-> requests', op |-> "stock", product |-> p, was |-> stock[p], to |-> to])
  /\ UNCHANGED <<tables, counts, failures>>

InventoryCommit(j) ==
  /\ j.op = "stock" /\ j.product \in products
  /\ SetStock(j.product, j.to)
  /\ Finish(j)
  /\ UNCHANGED <<products, linked, orphaned, wishlist, told, requests, failures>>

(* update throws when the product is gone. *)
WriteFails(j) ==
  /\ j.op \in {"edit", "stock"} /\ j.product \notin products
  /\ Finish(j)
  /\ UNCHANGED <<tables, counts, requests, failures>>

(* BackInStockService.notifyForProduct: a mail to everybody who wishes for *)
(* the product, if it is still there.                                      *)
Notify(j) ==
  /\ j.op = "notify"
  /\ told' = IF j.product \in wishlist THEN [told EXCEPT ![j.product] = @ + 1] ELSE told
  /\ Finish(j)
  /\ UNCHANGED <<tables, returns, requests, failures>>

----------------------------------------------------------------------------
(* Mutant: the order items are not counted. *)
RemoveAllowed_Any(ids) == TRUE

(* All or nothing: one product with orders stops the removal of the rest. *)
RemoveAllowed(ids) == ids \cap linked = {}

(* One product by its slug, or the selection of the products table. *)
RemoveRead(ids) ==
  /\ ids # {} /\ ids \subseteq products
  /\ RemoveAllowed(ids)
  /\ Send
  /\ Start([n |-> requests', op |-> "remove", ids |-> ids])
  /\ UNCHANGED <<tables, counts, failures>>

(* OrderItem.productId is set to null, the wishlist entry goes. *)
RemoveCommit(j) ==
  /\ j.op = "remove"
  /\ products' = products \ j.ids
  /\ orphaned' = orphaned \cup (linked \cap j.ids)
  /\ linked' = linked \ j.ids
  /\ wishlist' = wishlist \ j.ids
  /\ Finish(j)
  /\ UNCHANGED <<stock, counts, requests, failures>>

(* OrdersCreateService.create: neither stock nor status is looked at; an   *)
(* item whose product is gone breaks a foreign key, and the order fails.   *)
CanOrder(items) == items \subseteq products

PlaceOrder(items) ==
  /\ linked' = linked \cup items
  /\ raced' = raced \cup {<<"remove", p>> : p \in {q \in items : \E j \in jobs : Removes(j, q)}}
  /\ UNCHANGED <<products, stock, orphaned, wishlist, counts, failures>>

AdminHandler(j) ==
  \/ EditCommit(j)
  \/ InventoryCommit(j)
  \/ WriteFails(j)
  \/ Notify(j)
  \/ RemoveCommit(j)

Admin ==
  \/ \E p \in Products, to \in {0, 1} : EditRead(p, to) \/ InventoryCell(p, to)
  \/ \E ids \in SUBSET Products : RemoveRead(ids)
=============================================================================
