----------------------------- MODULE AddressBook -----------------------------
(***************************************************************************)
(* The addresses a customer has saved, edited from several browser tabs.   *)
(*                                                                         *)
(* One address should be the default.  The service keeps that by hand: the *)
(* transaction that makes an address the default clears the flag of the    *)
(* others first, and removing the default promotes the newest that is      *)
(* left.  Counting, the check of ownership and the promotion are           *)
(* statements of their own, outside any transaction.                       *)
(***************************************************************************)
EXTENDS Integers, FiniteSets

CONSTANTS
  Tabs,          \* browser tabs of the customer
  MAX_ADDRESSES, \* addresses allowed per user
  MaxRequests,   \* requests that write (bounds the model)
  MaxFailures    \* handlers that may die half-way (bounds the model)

ASSUME LimitAssumption == MAX_ADDRESSES \in Nat \ {0}
ASSUME RequestsAssumption == MaxRequests \in Nat
ASSUME FailuresAssumption == MaxFailures \in Nat

VARIABLES
  addresses,  \* Address rows, numbered in the order of createdAt
  default,    \* those with isDefault
  made,       \* addresses created so far
  page,       \* what each tab shows: the addresses, and the defaults
  jobs,       \* the handlers in flight
  requests,   \* requests sent so far
  failures,   \* handlers that have died so far
  raced,      \* kinds of overlap there have been
  dropped     \* an edit has taken the flag from an address that had it

table   == <<addresses, default, made>>
history == <<raced, dropped>>
vars    == <<table, page, jobs, requests, failures, history>>

----------------------------------------------------------------------------
Ids == 1..MaxRequests

NoIds == {}

Ops == {"create", "edit", "choose", "make", "remove", "find", "promote"}

(* row is the address concerned, 0 for one still to be created; flag says  *)
(* that the handler is going to make an address the default.               *)
Jobs == [n : Ids, op : Ops, row : {0} \cup Ids, flag : BOOLEAN, clears : SUBSET Ids]

TypeOK ==
  /\ made      \in 0..requests
  /\ addresses \subseteq 1..made
  /\ default   \subseteq addresses
  /\ page      \in [Tabs -> [addresses : SUBSET Ids, default : SUBSET Ids]]
  /\ jobs      \subseteq Jobs
  /\ \A j \in jobs : j.n <= requests /\ j.row <= made
  /\ requests  \in 0..MaxRequests
  /\ failures  \in 0..MaxFailures
  /\ raced     \subseteq {"create", "make", "remove"}
  /\ dropped   \in BOOLEAN

Init ==
  /\ addresses = {} /\ default = {} /\ made = 0
  /\ page = [b \in Tabs |-> [addresses |-> {}, default |-> {}]]
  /\ jobs = {} /\ requests = 0 /\ failures = 0
  /\ raced = {} /\ dropped = FALSE

----------------------------------------------------------------------------
(* Handlers, and the kinds of their overlaps.                              *)

Removing == {"remove", "find", "promote"}

Overlaps(js) ==
  {kind \in {"create", "make", "remove"} :
     \E j, k \in js :
       /\ j # k
       /\ \/ kind = "create" /\ j.row = 0 /\ k.row = 0
                             /\ j.op \notin Removing /\ k.op \notin Removing
          \/ kind = "make"   /\ j.flag /\ k.flag
          \/ kind = "remove" /\ j.op \in Removing}

Start(op, row, flag) ==
  /\ requests < MaxRequests
  /\ requests' = requests + 1
  /\ jobs' = jobs \cup {[n |-> requests', op |-> op, row |-> row, flag |-> flag,
                         clears |-> NoIds]}
  /\ raced' = raced \cup Overlaps(jobs')
  /\ UNCHANGED <<table, page, failures, dropped>>

Continue(j, next) ==
  /\ jobs' = (jobs \ {j}) \cup {next}
  /\ UNCHANGED raced

Finish(j) ==
  /\ jobs' = jobs \ {j}
  /\ UNCHANGED raced

(* The answer has come, or the tab is opened: the list is fetched. *)
Refresh(b) ==
  /\ page' = [page EXCEPT ![b] = [addresses |-> addresses, default |-> default]]
  /\ UNCHANGED <<table, jobs, requests, failures, history>>

----------------------------------------------------------------------------
(* Creating.                                                               *)

AddNewEnabled(b) == Cardinality(page[b].addresses) < MAX_ADDRESSES

(* Mutant: the limit is looked at by the page only. *)
MayCreate_Unlimited == TRUE

MayCreate == Cardinality(addresses) < MAX_ADDRESSES

(* Mutant: only the box counts. *)
shouldBeDefault_BoxOnly(isDefault) == isDefault

(* The first address becomes the default automatically. *)
shouldBeDefault(isDefault) == isDefault \/ addresses = {}

CreateCount(b, isDefault) ==
  /\ AddNewEnabled(b)
  /\ MayCreate
  /\ Start("create", 0, shouldBeDefault(isDefault))

CreatePlain(j) ==
  /\ j.op = "create" /\ ~j.flag
  /\ made' = made + 1
  /\ addresses' = addresses \cup {made'}
  /\ Finish(j)
  /\ UNCHANGED <<default, page, requests, failures, dropped>>

----------------------------------------------------------------------------
(* Editing and choosing the default.                                       *)

(* The form opens with the flag the page shows, and sends it with whatever *)
(* else has been changed, or turned over.                                  *)
EditForm(b, row) == row \in page[b].addresses

EditRead(b, row, isDefault) ==
  /\ EditForm(b, row)
  /\ row \in addresses
  /\ Start("edit", row, isDefault)

EditPlain(j) ==
  /\ j.op = "edit" /\ ~j.flag
  /\ default' = default \ {j.row}
  /\ dropped' = (dropped \/ j.row \in default)
  /\ Finish(j)
  /\ UNCHANGED <<addresses, made, page, requests, failures>>

SetDefaultButton(b, row) == row \in page[b].addresses \ page[b].default

SetDefaultRead(b, row) ==
  /\ SetDefaultButton(b, row)
  /\ row \in addresses
  /\ Start("choose", row, TRUE)

(* Mutant: the flags of the others are left alone. *)
ClearsOthers_None(j) == {}

ClearsOthers(j) == default \ {j.row}

(* updateMany: the statement works on the defaults that are committed when *)
(* it starts.  A transaction that has not committed waits for, or is       *)
(* waited for by, another one on their locks, but neither sees the row the *)
(* other is about to flag.                                                 *)
MakeBegin(j) ==
  /\ j.op \in {"create", "edit", "choose"} /\ j.flag
  /\ Continue(j, [j EXCEPT !.op = "make", !.clears = ClearsOthers(j)])
  /\ UNCHANGED <<table, page, requests, failures, dropped>>

(* The row is created or updated, and the transaction commits. *)
MakeCommit(j) ==
  /\ j.op = "make"
  /\ j.row = 0 \/ j.row \in addresses
  /\ made' = IF j.row = 0 THEN made + 1 ELSE made
  /\ LET row == IF j.row = 0 THEN made' ELSE j.row
     IN  /\ addresses' = addresses \cup {row}
         /\ default' = (default \ j.clears) \cup {row}
  /\ Finish(j)
  /\ UNCHANGED <<page, requests, failures, dropped>>

(* The row has been removed since: update throws, the transaction is       *)
(* rolled back.                                                            *)
MakeFails(j) ==
  /\ j.op = "make"
  /\ j.row # 0 /\ j.row \notin addresses
  /\ Finish(j)
  /\ UNCHANGED <<table, page, requests, failures, dropped>>

----------------------------------------------------------------------------
(* Removing.                                                               *)

RemoveRead(b, row) ==
  /\ row \in page[b].addresses
  /\ row \in addresses
  /\ Start("remove", row, row \in default)

(* delete throws when the row is gone; no promotion then. *)
RemoveDelete(j) ==
  /\ j.op = "remove"
  /\ addresses' = addresses \ {j.row}
  /\ default' = default \ {j.row}
  /\ IF j.flag /\ j.row \in addresses
       THEN Continue(j, [j EXCEPT !.op = "find", !.row = 0])
       ELSE Finish(j)
  /\ UNCHANGED <<made, page, requests, failures, dropped>>

Newest == CHOOSE a \in addresses : \A b \in addresses : b <= a

(* findFirst by createdAt, newest first. *)
FindNext(j) ==
  /\ j.op = "find"
  /\ IF addresses = {}
       THEN Finish(j)
       ELSE Continue(j, [j EXCEPT !.op = "promote", !.row = Newest])
  /\ UNCHANGED <<table, page, requests, failures, dropped>>

(* Mutant: the promotion does not mind that the row is gone. *)
Promote_Unseen(j) ==
  /\ j.op = "promote"
  /\ default' = default \cup {j.row}
  /\ Finish(j)
  /\ UNCHANGED <<addresses, made, page, requests, failures, dropped>>

Promote(j) ==
  /\ j.op = "promote"
  /\ default' = default \cup ({j.row} \cap addresses)
  /\ Finish(j)
  /\ UNCHANGED <<addresses, made, page, requests, failures, dropped>>

----------------------------------------------------------------------------
(* A handler dies before its next statement.  A transaction it has open is *)
(* rolled back. *)
HandlerDies(j) ==
  /\ failures < MaxFailures
  /\ failures' = failures + 1
  /\ Finish(j)
  /\ UNCHANGED <<table, page, requests, dropped>>

Handler(j) ==
  \/ CreatePlain(j)
  \/ EditPlain(j)
  \/ MakeBegin(j)
  \/ MakeCommit(j)
  \/ MakeFails(j)
  \/ RemoveDelete(j)
  \/ FindNext(j)
  \/ Promote(j)

Customer(b) ==
  \/ Refresh(b)
  \/ \E isDefault \in BOOLEAN : CreateCount(b, isDefault)
  \/ \E row \in Ids, isDefault \in BOOLEAN : EditRead(b, row, isDefault)
  \/ \E row \in Ids : SetDefaultRead(b, row) \/ RemoveRead(b, row)

Next ==
  \/ \E b \in Tabs : Customer(b)
  \/ \E j \in jobs : Handler(j) \/ HandlerDies(j)

Spec == Init /\ [][Next]_vars

----------------------------------------------------------------------------
(* "The service ensures only one address per user" is the default: never   *)
(* two, from however old a page an address is edited, unless two requests  *)
(* that make a default overlap.                                            *)
AtMostOneDefault ==
  (\A a, b \in default : a = b) \/ "make" \in raced

Choosing == {j \in jobs : j.op \in {"find", "promote"}}

(* A book that is not empty has a default: the first address is one, and   *)
(* removing it promotes another.  It is lost when a form says so, when a   *)
(* removal dies half-way, or when it overlaps another request.             *)
HasDefault ==
  \/ addresses = {} \/ default # {} \/ Choosing # {}
  \/ dropped \/ failures > 0 \/ "remove" \in raced

(* There are never more addresses than allowed, unless the counting of two *)
(* new ones overlaps.                                                      *)
LimitHonoured ==
  Cardinality(addresses) <= MAX_ADDRESSES \/ "create" \in raced
=============================================================================
