----------------------------- MODULE Newsletter -----------------------------
(***************************************************************************)
(* One address's newsletter consent, recorded row by row, and mirrored at  *)
(* the newsletter provider, Klaviyo.                                       *)
(*                                                                         *)
(* Every submission of the form makes a PENDING row and mails a link for   *)
(* it.  Confirming and unsubscribing read rows, write them by id, and then *)
(* call Klaviyo, which may be out of service.                              *)
(*                                                                         *)
(* Klaviyo and the mail service are external.                              *)
(***************************************************************************)
EXTENDS Integers

CONSTANTS
  MaxRows,      \* submissions of the form (bounds the model)
  MaxRequests,  \* links followed (bounds the model)
  MaxFailures   \* mails lost, calls to Klaviyo refused, handlers that die
                \* (bounds the model)

ASSUME RowsAssumption == MaxRows \in Nat
ASSUME RequestsAssumption == MaxRequests \in Nat
ASSUME FailuresAssumption == MaxFailures \in Nat

VARIABLES
  submitted,  \* NewsletterConsent rows created so far, numbered
  status,     \* their status
  expired,    \* rows whose link is more than seven days old
  mailed,     \* rows whose link has arrived
  klaviyo,    \* the address is on Klaviyo's list
  jobs,       \* the handlers in flight
  requests,   \* links followed so far
  failures,   \* failures so far
  refused,    \* Klaviyo has missed a call, or a handler died before it
  covered,    \* rows that were there when an unsubscription was asked for
              \* that has been carried out
  raced       \* a confirmation and an unsubscription have overlapped

consent == <<submitted, status, expired, mailed>>
history == <<refused, covered, raced>>
vars    == <<consent, klaviyo, jobs, requests, failures, history>>

----------------------------------------------------------------------------
Rows == 1..MaxRows

Statuses == {"PENDING", "CONFIRMED", "UNSUBSCRIBED"}

InStatus(s) == {r \in 1..submitted : status[r] = s}

Confirming == [n : 1..MaxRequests, op : {"confirm", "subscribe"}, row : Rows]

Unsubscribing ==
  [n : 1..MaxRequests, op : {"unsubscribe", "suppress"}, rows : SUBSET Rows,
   hadConfirmed : BOOLEAN, seen : 0..MaxRows]

IsConfirming(j) == j.op \in {"confirm", "subscribe"}

TypeOK ==
  /\ submitted \in 0..MaxRows
  /\ status    \in [Rows -> Statuses]
  /\ expired   \subseteq 1..submitted
  /\ mailed    \subseteq 1..submitted
  /\ klaviyo   \in BOOLEAN
  /\ jobs      \subseteq Confirming \cup Unsubscribing
  /\ requests  \in 0..MaxRequests
  /\ failures  \in 0..MaxFailures
  /\ refused   \in BOOLEAN
  /\ covered   \subseteq 1..submitted
  /\ raced     \in BOOLEAN

Init ==
  /\ submitted = 0 /\ status = [r \in Rows |-> "PENDING"]
  /\ expired = {} /\ mailed = {}
  /\ klaviyo = FALSE /\ jobs = {} /\ requests = 0 /\ failures = 0
  /\ refused = FALSE /\ covered = {} /\ raced = FALSE

----------------------------------------------------------------------------
Start(j) ==
  /\ requests < MaxRequests
  /\ requests' = j.n
  /\ jobs' = jobs \cup {j}
  /\ raced' = (raced \/ \E k \in jobs : IsConfirming(k) # IsConfirming(j))

Continue(j, next) == jobs' = (jobs \ {j}) \cup {next}

Finish(j) == jobs' = jobs \ {j}

(* subscribe: the row is created before the mail is sent, and a mail that  *)
(* cannot be sent is only logged.                                          *)
Subscribe(arrives) ==
  /\ submitted < MaxRows
  /\ arrives \/ failures < MaxFailures
  /\ failures' = IF arrives THEN failures ELSE failures + 1
  /\ submitted' = submitted + 1
  /\ mailed' = IF arrives THEN mailed \cup {submitted'} ELSE mailed
  /\ UNCHANGED <<status, expired, klaviyo, jobs, requests, history>>

(* The form in the footer or on the home page: what it sends has the box    *)
(* ticked and the address in it, and a form that was answered is gone from *)
(* its page, not from the next one.                                        *)
NewsletterForm == \E arrives \in BOOLEAN : Subscribe(arrives)

(* Seven days pass. *)
LinkExpires(r) ==
  /\ r \in mailed \ expired
  /\ expired' = expired \cup {r}
  /\ UNCHANGED <<submitted, status, mailed, klaviyo, jobs, requests, failures, history>>

----------------------------------------------------------------------------
(* confirm.                                                                *)

Candidates == InStatus("PENDING") \ expired

(* The page behind the mail's button calls the API as soon as it opens.    *)
ConfirmPage == mailed

(* When no candidate matches, the answer is "already confirmed" or an      *)
(* error, and nothing changes.                                             *)
ConfirmRead(r) ==
  /\ r \in ConfirmPage
  /\ r \in Candidates
  /\ Start([n |-> requests + 1, op |-> "confirm", row |-> r])
  /\ UNCHANGED <<consent, klaviyo, failures, refused, covered>>

ConfirmWrite(j) ==
  /\ j.op = "confirm"
  /\ status' = [status EXCEPT ![j.row] = "CONFIRMED"]
  /\ Continue(j, [j EXCEPT !.op = "subscribe"])
  /\ UNCHANGED <<submitted, expired, mailed, klaviyo, requests, failures, history>>

(* subscribeEmail: accepted. *)
SubscribeEmail(j) ==
  /\ j.op = "subscribe"
  /\ klaviyo' = TRUE
  /\ Finish(j)
  /\ UNCHANGED <<consent, requests, failures, history>>

----------------------------------------------------------------------------
(* unsubscribe.                                                            *)

(* Mutant: rows that wait for their confirmation are left alone. *)
ActiveRows_Confirmed == InStatus("CONFIRMED")

ActiveRows == InStatus("CONFIRMED") \cup InStatus("PENDING")

(* Mutant: Klaviyo is only called when nothing is left pending. *)
HadConfirmed_All(rows) == \A r \in rows : status[r] = "CONFIRMED"

HadConfirmed(rows) == \E r \in rows : status[r] = "CONFIRMED"

(* The link in a mail's footer never expires; a mail program may follow it *)
(* by itself.                                                              *)
UnsubscribeRead ==
  /\ ActiveRows # {}
  /\ Start([n |-> requests + 1, op |-> "unsubscribe", rows |-> ActiveRows,
            hadConfirmed |-> HadConfirmed(ActiveRows), seen |-> submitted])
  /\ UNCHANGED <<consent, klaviyo, failures, refused, covered>>

UnsubscribeWrite(j) ==
  /\ j.op = "unsubscribe"
  /\ status' = [r \in Rows |-> IF r \in j.rows THEN "UNSUBSCRIBED" ELSE status[r]]
  /\ covered' = covered \cup 1..j.seen
  /\ IF j.hadConfirmed THEN Continue(j, [j EXCEPT !.op = "suppress"]) ELSE Finish(j)
  /\ UNCHANGED <<submitted, expired, mailed, klaviyo, requests, failures, refused, raced>>

(* unsubscribeEmail: accepted. *)
UnsubscribeEmail(j) ==
  /\ j.op = "suppress"
  /\ klaviyo' = FALSE
  /\ Finish(j)
  /\ UNCHANGED <<consent, requests, failures, history>>

(* Klaviyo refuses, or the process dies: nothing calls it again. *)
HandlerFails(j) ==
  /\ failures < MaxFailures
  /\ failures' = failures + 1
  /\ refused' = (refused \/ j.op \in {"subscribe", "suppress"})
  /\ Finish(j)
  /\ UNCHANGED <<consent, klaviyo, requests, covered, raced>>

Handler(j) ==
  \/ ConfirmWrite(j)
  \/ SubscribeEmail(j)
  \/ UnsubscribeWrite(j)
  \/ UnsubscribeEmail(j)

Next ==
  \/ NewsletterForm
  \/ \E r \in Rows : LinkExpires(r) \/ ConfirmRead(r)
  \/ UnsubscribeRead
  \/ \E j \in jobs : Handler(j) \/ HandlerFails(j)

Spec == Init /\ [][Next]_vars

----------------------------------------------------------------------------
(* While nothing is in flight, the address is on Klaviyo's list exactly    *)
(* when a row is confirmed, however many rows it has: unless a call was    *)
(* refused, or a confirmation and an unsubscription have overlapped.       *)
KlaviyoMirrorsConsent ==
  jobs = {} /\ ~refused /\ ~raced => (klaviyo <=> InStatus("CONFIRMED") # {})

(* Who unsubscribes is not subscribed again by a link mailed before: of    *)
(* the rows there were, pending ones too, none is confirmed any more.      *)
UnsubscribedStays ==
  \A r \in covered : status[r] = "UNSUBSCRIBED" \/ raced
=============================================================================
