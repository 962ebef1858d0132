----------------------------- MODULE Fulfilment -----------------------------
(***************************************************************************)
(* One paid order on its way to the customer: its shipping label, its      *)
(* tracking number, the production board, and the carrier's "delivered"    *)
(* event, worked on from several admin browsers.                           *)
(*                                                                         *)
(* A browser decides on what it shows: the order page and the production   *)
(* board are cached answers of the API, brought up to date now and then.   *)
(* The API decides again, on the row it reads first, and writes the row    *)
(* later by primary key.  A label is bought at EasyPost in between.        *)
(*                                                                         *)
(* EasyPost is external: it sells any number of labels for an order and    *)
(* repeats an event until it is answered.                                  *)
(***************************************************************************)
EXTENDS Integers, FiniteSets, OrderStatus

CONSTANTS
  Admins,       \* browsers with the admin pages open
  FirstStatus,  \* where the model takes the order up: paid, or work has begun
  MaxRequests,  \* how many requests the admins send (bounds the model)
  MaxFailures   \* how many handlers may die half-way (bounds the model)

ASSUME FirstStatusAssumption == FirstStatus \in {"PAID", "PROCESSING"}
ASSUME RequestsAssumption == MaxRequests \in Nat
ASSUME FailuresAssumption == MaxFailures \in Nat

VARIABLES
  status,      \* Order.status
  label,       \* Order.labelUrl, shipment id and tracker id: which label, 0 for none
  tracking,    \* Order.trackingNumber: that of a label, HandTyped, or 0
  production,  \* Order.productionStatus
  notes,       \* Order.productionNotes: the number of the note, 0 for none
  bought,      \* EasyPost: how many labels it has sold for the order
  parcel,      \* the label on the parcel that was posted, 0 for none
  delivered,   \* EasyPost: labels whose parcel has been delivered
  answered,    \* those of them whose event was answered with 200
  page,        \* what each browser shows: the order, the list of orders, the board
  jobs,        \* the handlers in flight
  requests,    \* requests sent so far
  failures,    \* handlers that have died so far
  overlapped   \* the operations of which two have ever been in flight together

row      == <<status, label, tracking, production, notes>>
easyPost == <<bought, parcel, delivered, answered>>
server   == <<jobs, requests, failures, overlapped>>
vars     == <<row, easyPost, page, server>>

----------------------------------------------------------------------------
Labels == 1..MaxRequests

HandTyped == -1

Notes == 0..MaxRequests

PRODUCTION_STATUSES == <<"QUEUED", "IN_PRODUCTION", "READY_TO_SHIP">>

ProductionStatuses == {PRODUCTION_STATUSES[i] : i \in DOMAIN PRODUCTION_STATUSES}

Stage(s) == CHOOSE i \in DOMAIN PRODUCTION_STATUSES : PRODUCTION_STATUSES[i] = s

NoPage == [on |-> "none"]

Lists == [on : {"list"}, status : OrderStatuses]

OrderPages == [on : {"order"}, status : OrderStatuses, label : {0} \cup Labels]

Boards == [on : {"board"}, production : ProductionStatuses, notes : Notes, draft : Notes]

ShowsOrder(a) == page[a].on = "order"

ShowsList(a) == page[a].on = "list"

ShowsBoard(a) == page[a].on = "board"

InWork == {"PAID", "PROCESSING"}

Jobs ==
  [op : {"purchase", "bought"}, by : Admins, label : {0} \cup Labels]
    \cup [op : {"status"}, n : 1..MaxRequests, by : Admins, to : OrderStatuses]
    \cup [op : {"production"}, by : Admins, to : ProductionStatuses, notes : Notes]
    \cup [op : {"tracker"}, label : Labels]

Operations == {"purchase", "status", "production", "tracker"}

TypeOK ==
  /\ status     \in OrderStatuses
  /\ label      \in 0..bought
  /\ tracking   \in {HandTyped} \cup 0..bought
  /\ production \in ProductionStatuses
  /\ notes      \in Notes
  /\ bought     \in 0..requests
  /\ parcel     \in 0..bought
  /\ delivered  \subseteq {parcel} \ {0}
  /\ answered   \subseteq delivered
  /\ page       \in [Admins -> OrderPages \cup Lists \cup Boards \cup {NoPage}]
  /\ jobs       \subseteq Jobs
  /\ requests   \in 0..MaxRequests
  /\ failures   \in 0..MaxFailures
  /\ overlapped \subseteq Operations

Init ==
  /\ status = FirstStatus /\ label = 0 /\ tracking = 0
  /\ production = "QUEUED" /\ notes = 0
  /\ bought = 0 /\ parcel = 0 /\ delivered = {} /\ answered = {}
  /\ page = [a \in Admins |-> NoPage]
  /\ jobs = {} /\ requests = 0 /\ failures = 0 /\ overlapped = {}

----------------------------------------------------------------------------
(* Handlers.                                                               *)

Operation(j) == IF j.op = "bought" THEN "purchase" ELSE j.op

InFlight(op) == {j \in jobs : Operation(j) = op}

Start(j) ==
  /\ jobs' = jobs \cup {j}
  /\ overlapped' = IF InFlight(j.op) = {} THEN overlapped ELSE overlapped \cup {j.op}

Finish(j) == jobs' = jobs \ {j}

(* A mutation of the page is pending: its buttons are disabled. *)
IsPending(a, op) == \E j \in InFlight(op) : j.by = a

Send == requests < MaxRequests /\ requests' = requests + 1

----------------------------------------------------------------------------
(* The order page and the list of orders.                                  *)

ShowOrder(a, s) == [page EXCEPT ![a] = [on |-> "order", status |-> s, label |-> label]]

(* Loaded, or loaded again: after a request of its own, when its minute of *)
(* freshness is over, or when the admin comes back to it.                  *)
LoadOrder(a) ==
  /\ page' = ShowOrder(a, status)
  /\ UNCHANGED <<row, easyPost, server>>

LoadList(a) ==
  /\ page' = [page EXCEPT ![a] = [on |-> "list", status |-> status]]
  /\ UNCHANGED <<row, easyPost, server>>

(* The label form is shown, and its button enabled. *)
LabelForm(a) ==
  /\ ShowsOrder(a) /\ page[a].status \in InWork /\ page[a].label = 0
  /\ ~IsPending(a, "purchase")

(* Mutant: the API trusts the page about the label. *)
LabelAllowed_StatusOnly == status \in InWork

LabelAllowed == status \in InWork /\ label = 0

(* ShippingService.purchaseLabel: the row is read and checked, EasyPost    *)
(* sells a label, the row is updated.                                      *)
PurchaseRead(a) ==
  /\ LabelForm(a)
  /\ LabelAllowed
  /\ Send
  /\ Start([op |-> "purchase", by |-> a, label |-> 0])
  /\ UNCHANGED <<row, easyPost, page, failures>>

(* Mutant: the stand-in for EasyPost is used, which makes labels up. *)
PurchaseBuy_DryRun(j) ==
  /\ j.op = "purchase"
  /\ jobs' = (jobs \ {j}) \cup {[j EXCEPT !.op = "bought", !.label = bought + 1]}
  /\ UNCHANGED <<row, easyPost, page, requests, failures, overlapped>>

PurchaseBuy(j) ==
  /\ j.op = "purchase"
  /\ bought' = bought + 1
  /\ jobs' = (jobs \ {j}) \cup {[j EXCEPT !.op = "bought", !.label = bought + 1]}
  /\ UNCHANGED <<row, parcel, delivered, answered, page, requests, failures, overlapped>>

PurchaseWrite(j) ==
  /\ j.op = "bought"
  /\ label' = j.label
  /\ tracking' = j.label
  /\ Finish(j)
  /\ UNCHANGED <<status, production, notes, easyPost, page, requests, failures, overlapped>>

(* Carrier and number are filled in; nothing is asked of the status. *)
TrackingForm(a) == ShowsOrder(a)

(* OrdersStatusService.updateTracking: no look at the row but that it is   *)
(* there.  The answer replaces what the page shows.                        *)
SaveTracking(a) ==
  /\ TrackingForm(a)
  /\ Send
  /\ tracking' = HandTyped
  /\ page' = ShowOrder(a, status)
  /\ UNCHANGED <<status, label, production, notes, easyPost, jobs, failures, overlapped>>

(* The "Change to ..." buttons of the page. *)
ALLOWED_TRANSITIONS ==
  [ PENDING            |-> {"PAID", "CANCELLED", "ON_HOLD"},
    PAID               |-> {"PROCESSING", "CANCELLED", "ON_HOLD"},
    PROCESSING         |-> {"SHIPPED", "CANCELLED", "ON_HOLD"},
    SHIPPED            |-> {"DELIVERED", "ON_HOLD"},
    DELIVERED          |-> {"REFUNDED", "PARTIALLY_REFUNDED", "ON_HOLD"},
    CANCELLED          |-> {"REFUNDED", "PARTIALLY_REFUNDED"},
    REFUNDED           |-> {},
    PARTIALLY_REFUNDED |-> {},
    ON_HOLD            |-> {"REFUNDED", "PARTIALLY_REFUNDED", "CANCELLED"} ]

(* Some of them open a dialog first; the click is the one that confirms.   *)
requiresStatusConfirmation(to) == to \in {"SHIPPED", "DELIVERED", "CANCELLED"}

(* On the order page the buttons wait for the answer. *)
StatusUpdateSection(a) ==
  IF ShowsOrder(a) /\ ~IsPending(a, "status") THEN ALLOWED_TRANSITIONS[page[a].status] ELSE {}

(* In the list of orders only the dialog waits, the menu of a row does not. *)
StatusMenu(a) ==
  IF ~ShowsList(a) THEN {}
  ELSE {to \in ALLOWED_TRANSITIONS[page[a].status] :
          requiresStatusConfirmation(to) => ~IsPending(a, "status")}

(* Two clicks on the same item of the menu are two requests. *)
Unused == CHOOSE n \in 1..MaxRequests : \A j \in InFlight("status") : j.n # n

ChangeStatusRead(a, to) ==
  /\ to \in StatusUpdateSection(a) \cup StatusMenu(a)
  /\ isValidOrderStatusTransition(status, to)
  /\ Send
  /\ Start([op |-> "status", n |-> Unused, by |-> a, to |-> to])
  /\ UNCHANGED <<row, easyPost, page, failures>>

(* The order page takes over the answer, the list is loaded again later.   *)
ChangeStatusCommit(j) ==
  /\ j.op = "status"
  /\ status' = j.to
  /\ page' = IF ShowsOrder(j.by) THEN ShowOrder(j.by, j.to) ELSE page
  /\ Finish(j)
  /\ UNCHANGED <<label, tracking, production, notes, easyPost, requests, failures, overlapped>>

----------------------------------------------------------------------------
(* The production board.                                                   *)

InProductionQueue == status \in InWork

(* The draft of the note is set when the row appears on the board and not  *)
(* touched when the board is loaded again.                                 *)
LoadBoard(a) ==
  /\ page' = [page EXCEPT ![a] =
       IF InProductionQueue
         THEN [on |-> "board", production |-> production, notes |-> notes,
               draft |-> IF ShowsBoard(a) THEN page[a].draft ELSE notes]
         ELSE NoPage]
  /\ UNCHANGED <<row, easyPost, server>>

(* Mutant: any other status is accepted. *)
isValidProductionStatusTransition_Any(from, to) == TRUE

isValidProductionStatusTransition(from, to) ==
  \/ from = to
  \/ from = "QUEUED" /\ to \in {"IN_PRODUCTION", "READY_TO_SHIP"}
  \/ from = "IN_PRODUCTION" /\ to = "READY_TO_SHIP"

ProductionRead(a, to, note) ==
  /\ ~IsPending(a, "production")
  /\ isValidProductionStatusTransition(production, to)
  /\ Send
  /\ Start([op |-> "production", by |-> a, to |-> to, notes |-> note])
  /\ UNCHANGED <<row, easyPost, failures>>

(* The dropdown sends the note the page shows. *)
SelectProduction(a, to) ==
  /\ ShowsBoard(a) /\ to # page[a].production
  /\ ProductionRead(a, to, page[a].notes)
  /\ UNCHANGED page

(* Leaving the note field sends the draft with the status the page shows:  *)
(* a note just typed, or a draft that another browser has overtaken.       *)
SaveNotes(a, note) ==
  /\ ShowsBoard(a)
  /\ note \in {page[a].draft, requests + 1}
  /\ note # page[a].notes
  /\ ProductionRead(a, page[a].production, note)
  /\ page' = [page EXCEPT ![a].draft = note]

ProductionCommit(j) ==
  /\ j.op = "production"
  /\ production' = j.to
  /\ notes' = j.notes
  /\ Finish(j)
  /\ UNCHANGED <<status, label, tracking, easyPost, page, requests, failures, overlapped>>

----------------------------------------------------------------------------
(* The parcel, and ShippingService.handleWebhook.                          *)

(* The admin prints the label the page links to and posts the parcel. *)
PostParcel(a) ==
  /\ ShowsOrder(a) /\ page[a].label # 0
  /\ parcel = 0
  /\ parcel' = page[a].label
  /\ UNCHANGED <<row, bought, delivered, answered, page, server>>

CarrierDelivers ==
  /\ parcel # 0
  /\ parcel \notin delivered
  /\ delivered' = delivered \cup {parcel}
  /\ UNCHANGED <<row, bought, parcel, answered, page, server>>

(* The order is found by its tracker id; then the whitelist decides. *)
(* Mutant: the two statuses are swapped. *)
TrackerMatters_Swapped(l) == label = l /\ isValidOrderStatusTransition("DELIVERED", status)

TrackerMatters(l) == label = l /\ isValidOrderStatusTransition(status, "DELIVERED")

(* No such tracker, a duplicate, or an order that cannot be delivered: 200. *)
TrackerIgnored(l) ==
  /\ ~TrackerMatters(l)
  /\ answered' = answered \cup {l}
  /\ UNCHANGED <<row, bought, parcel, delivered, page, server>>

TrackerRead(l) ==
  /\ TrackerMatters(l)
  /\ [op |-> "tracker", label |-> l] \notin jobs
  /\ Start([op |-> "tracker", label |-> l])
  /\ UNCHANGED <<row, easyPost, page, requests, failures>>

TrackerCommit(j) ==
  /\ j.op = "tracker"
  /\ status' = "DELIVERED"
  /\ answered' = answered \cup {j.label}
  /\ Finish(j)
  /\ UNCHANGED <<label, tracking, production, notes, bought, parcel, delivered,
                 page, requests, failures, overlapped>>

----------------------------------------------------------------------------
(* A handler dies before its write.  A label it has bought stays bought.   *)
HandlerDies(j) ==
  /\ failures < MaxFailures
  /\ failures' = failures + 1
  /\ Finish(j)
  /\ UNCHANGED <<row, easyPost, page, requests, overlapped>>

Handler(j) ==
  \/ PurchaseBuy(j)
  \/ PurchaseWrite(j)
  \/ ChangeStatusCommit(j)
  \/ ProductionCommit(j)
  \/ TrackerCommit(j)

OrderPage(a) ==
  \/ LoadOrder(a)
  \/ LoadList(a)
  \/ PurchaseRead(a)
  \/ SaveTracking(a)
  \/ \E to \in OrderStatuses : ChangeStatusRead(a, to)
  \/ PostParcel(a)

BoardPage(a) ==
  \/ LoadBoard(a)
  \/ \E to \in ProductionStatuses : SelectProduction(a, to)
  \/ \E note \in Notes : SaveNotes(a, note)

Next ==
  \/ \E a \in Admins : OrderPage(a) \/ BoardPage(a)
  \/ \E j \in jobs : Handler(j) \/ HandlerDies(j)
  \/ CarrierDelivers
  \/ \E l \in delivered : TrackerIgnored(l) \/ TrackerRead(l)

Spec == Init /\ [][Next]_vars

(* EasyPost repeats an event until it is answered, and every delivery of   *)
(* it is taken; a handler that has started finishes unless it dies.        *)
Deliver == \E l \in delivered \ answered : TrackerIgnored(l) \/ TrackerRead(l)

Fairness ==
  /\ SF_vars(Deliver)
  /\ WF_vars(\E j \in jobs : Handler(j))

FairSpec == Spec /\ Fairness

----------------------------------------------------------------------------
Held == {j.label : j \in {k \in jobs : k.op = "bought"}}

(* A label that was paid for is the order's label.  However old the pages  *)
(* are from which it was bought, one goes astray only when two purchases   *)
(* overlap or a handler dies between EasyPost and the database.            *)
NoLabelAstray ==
  1..bought \subseteq {label} \cup Held \/ "purchase" \in overlapped \/ failures > 0

(* Production goes forward only, whatever two boards that have fallen      *)
(* behind send, unless two of their requests overlap.                      *)
ProductionForward ==
  [][Stage(production) <= Stage(production') \/ "production" \in overlapped]_vars

(* A parcel that is delivered while its order is SHIPPED under its label   *)
(* takes the order out of SHIPPED, although the handler may die.           *)
DeliveryReachesOrder ==
  (parcel \in delivered \ answered /\ status = "SHIPPED" /\ label = parcel)
    ~> status # "SHIPPED" \/ label # parcel
=============================================================================
