------------------------------- MODULE Reviews -------------------------------
(***************************************************************************)
(* The reviews of one product, and the average and count the product row   *)
(* shows of them.                                                          *)
(*                                                                         *)
(* Creating and moderating a review are transactions of three statements,  *)
(* at READ COMMITTED: write the review, aggregate the approved ones, write *)
(* the product.  A statement sees what is committed and its own            *)
(* transaction's write; a row that is written stays locked until the end.  *)
(* Ratings never change, so the average and the count are as good as the   *)
(* set of customers whose reviews they are taken over.                     *)
(***************************************************************************)
EXTENDS Integers

CONSTANTS
  Users,        \* customers
  MaxRequests,  \* reviews sent and moderations (bounds the model)
  MaxFailures   \* handlers that die and answers that are lost (bounds the model)

ASSUME RequestsAssumption == MaxRequests \in Nat
ASSUME FailuresAssumption == MaxFailures \in Nat

VARIABLES
  delivered,  \* customers with a DELIVERED order of the product
  review,     \* Review.status of each customer's review, or "none"
  shown,      \* the customers whose reviews avgRating and reviewCount are of
  section,    \* what the product page offers each customer
  table,      \* the reviews as the moderation page last loaded them
  jobs,       \* the handlers in flight
  requests,   \* requests sent so far
  failures,   \* failures so far
  outdated,   \* the last write of shown was of an aggregate overtaken by another
  replied     \* customers whose reviews carry a reply of the seller

vars == <<delivered, review, shown, section, table, jobs, requests, failures, outdated, replied>>

----------------------------------------------------------------------------
ReviewStatus == {"PENDING", "APPROVED", "HIDDEN"}

(* to: the status the transaction writes.  of: its aggregate.  overtaken:  *)
(* another transaction has committed since that was taken.                 *)
Jobs == [n : 1..MaxRequests, op : {"create", "moderate"}, user : Users, to : ReviewStatus,
         step : {"read", "written", "aggregated"}, of : SUBSET Users, overtaken : BOOLEAN]

TypeOK ==
  /\ delivered \subseteq Users
  /\ review    \in [Users -> ReviewStatus \cup {"none"}]
  /\ shown     \subseteq {u \in Users : review[u] # "none"}
  /\ section   \in [Users -> {"unknown", "purchaseRequired", "canReview", "hasReviewed"}]
  /\ \A u \in Users : section[u] = "hasReviewed" => review[u] # "none"
  /\ table     \in [Users -> ReviewStatus \cup {"none"}]
  /\ jobs      \subseteq Jobs
  /\ requests  \in 0..MaxRequests
  /\ failures  \in 0..MaxFailures
  /\ outdated  \in BOOLEAN
  /\ replied   \subseteq {u \in Users : review[u] # "none"}

Init ==
  /\ delivered = {} /\ review = [u \in Users |-> "none"] /\ shown = {}
  /\ section = [u \in Users |-> "unknown"] /\ table = [u \in Users |-> "none"]
  /\ jobs = {} /\ requests = 0 /\ failures = 0 /\ outdated = FALSE /\ replied = {}

----------------------------------------------------------------------------
Send == requests < MaxRequests /\ requests' = requests + 1

Begin(op, u, to) ==
  /\ Send
  /\ jobs' = jobs \cup {[n |-> requests', op |-> op, user |-> u, to |-> to, step |-> "read",
                         of |-> {}, overtaken |-> FALSE]}

Advance(j, k) == jobs' = (jobs \ {j}) \cup {k}

(* The order is delivered, or refunded after that. *)
Deliver(u) ==
  /\ delivered' = delivered \cup {u}
  /\ UNCHANGED <<review, shown, section, table, jobs, requests, failures, outdated, replied>>

Refund(u) ==
  /\ delivered' = delivered \ {u}
  /\ UNCHANGED <<review, shown, section, table, jobs, requests, failures, outdated, replied>>

----------------------------------------------------------------------------
(* The verified-purchase guard. *)
HasPurchased(u) == u \in delivered

checkReviewEligibility(u) ==
  IF review[u] # "none" THEN "hasReviewed"
  ELSE IF HasPurchased(u) THEN "canReview" ELSE "purchaseRequired"

(* The product page opens. *)
LoadSection(u) ==
  /\ section' = [section EXCEPT ![u] = checkReviewEligibility(u)]
  /\ UNCHANGED <<delivered, review, shown, table, jobs, requests, failures, outdated, replied>>

(* The form is offered on the answer the page has. *)
ReviewForm(u) == section[u] = "canReview"

(* createReview.  A second tab may send another review while the first is  *)
(* in flight.                                                              *)
Submit(u) ==
  /\ ReviewForm(u)
  /\ HasPurchased(u)
  /\ Begin("create", u, "PENDING")
  /\ UNCHANGED <<delivered, review, shown, section, table, failures, outdated, replied>>

findAllForAdmin == review

(* The moderation page loads its list. *)
LoadTable ==
  /\ table' = findAllForAdmin
  /\ UNCHANGED <<delivered, review, shown, section, jobs, requests, failures, outdated, replied>>

(* Approve and Hide: each is offered unless the row shows it done. *)
RowButtons(u) == IF table[u] = "none" THEN {} ELSE {"APPROVED", "HIDDEN"} \ {table[u]}

(* updateStatusForAdmin. *)
Moderate(u, to) ==
  /\ to \in RowButtons(u)
  /\ Begin("moderate", u, to)
  /\ UNCHANGED <<delivered, review, shown, section, table, failures, outdated, replied>>

(* A row that is listed can be replied to, whatever its status. *)
ReplyForm(u) == table[u] # "none"

Locked(u) == \E j \in jobs : j.user = u /\ j.step # "read"

(* One row, in one statement, which waits for the transaction that holds   *)
(* it; the rating is left alone.  A later reply replaces the first.        *)
setSellerReply(u) ==
  /\ ReplyForm(u) /\ ~Locked(u)
  /\ review[u] # "none"
  /\ Send
  /\ replied' = replied \cup {u}
  /\ UNCHANGED <<delivered, review, shown, section, table, jobs, failures, outdated>>

----------------------------------------------------------------------------
Write(j) ==
  /\ j.step = "read" /\ ~Locked(j.user)
  /\ Advance(j, [j EXCEPT !.step = "written"])
  /\ UNCHANGED <<delivered, review, shown, section, table, requests, failures, outdated, replied>>

CreateWrite(j) == j.op = "create" /\ review[j.user] = "none" /\ Write(j)

(* One review per customer and product: the second is refused. *)
CreateRefused(j) ==
  /\ j.op = "create" /\ j.step = "read" /\ ~Locked(j.user)
  /\ review[j.user] # "none"
  /\ jobs' = jobs \ {j}
  /\ UNCHANGED <<delivered, review, shown, section, table, requests, failures, outdated, replied>>

ModerateWrite(j) == j.op = "moderate" /\ Write(j)

(* The reviews as transaction j sees them. *)
Seen(j) == [review EXCEPT ![j.user] = j.to]

(* Mutant: everything that is not hidden counts. *)
Approved_NotHidden(rows) == {u \in Users : rows[u] \in {"PENDING", "APPROVED"}}

Approved(rows) == {u \in Users : rows[u] = "APPROVED"}

Aggregate(j) ==
  /\ j.step = "written"
  /\ Advance(j, [j EXCEPT !.step = "aggregated", !.of = Approved(Seen(j))])
  /\ UNCHANGED <<delivered, review, shown, section, table, requests, failures, outdated, replied>>

(* Transaction j writes the product row and commits. *)
Publish(j) ==
  /\ j.step = "aggregated"
  /\ review' = Seen(j)
  /\ shown' = j.of
  /\ outdated' = j.overtaken
  /\ jobs' = {[k EXCEPT !.overtaken = (k.step = "aggregated")] : k \in jobs \ {j}}
  /\ UNCHANGED <<delivered, requests, replied>>

(* The answer closes the form, unless it is lost. *)
CreateCommit(j) ==
  /\ j.op = "create" /\ Publish(j)
  /\ \/ section' = [section EXCEPT ![j.user] = "hasReviewed"] /\ UNCHANGED failures
     \/ failures < MaxFailures /\ failures' = failures + 1 /\ UNCHANGED section
  /\ UNCHANGED table

ModerateCommit(j) ==
  /\ j.op = "moderate" /\ Publish(j)
  /\ UNCHANGED <<section, table, failures>>

(* The transaction is rolled back. *)
HandlerDies(j) ==
  /\ failures < MaxFailures
  /\ failures' = failures + 1
  /\ jobs' = jobs \ {j}
  /\ UNCHANGED <<delivered, review, shown, section, table, requests, outdated, replied>>

----------------------------------------------------------------------------
Handler(j) ==
  \/ CreateWrite(j)
  \/ CreateRefused(j)
  \/ ModerateWrite(j)
  \/ Aggregate(j)
  \/ CreateCommit(j)
  \/ ModerateCommit(j)

ReviewsController(u) == LoadSection(u) \/ Submit(u)

AdminReviewsController ==
  \/ LoadTable
  \/ \E u \in Users, to \in {"APPROVED", "HIDDEN"} : Moderate(u, to)
  \/ \E u \in Users : setSellerReply(u)

Next ==
  \/ \E u \in Users : Deliver(u) \/ Refund(u) \/ ReviewsController(u)
  \/ AdminReviewsController
  \/ \E j \in jobs : Handler(j) \/ HandlerDies(j)

Spec == Init /\ [][Next]_vars

----------------------------------------------------------------------------
(* The average and the count the shop shows are those of exactly the       *)
(* approved reviews, whatever is created and moderated at the same time,   *)
(* unless the last transaction to write them was overtaken by another one  *)
(* between its aggregate and its end: then the other's review is missing,  *)
(* or counted still, until the next transaction.                           *)
RatingMatchesReviews ==
  shown = {u \in Users : review[u] = "APPROVED"} \/ outdated
=============================================================================
