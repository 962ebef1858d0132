-------------------------- MODULE BackOfficeProofs --------------------------
(***************************************************************************)
(* Types, the lists and the choices of the back office: proofs for any     *)
(* products, categories, codes, pictures and bounds.  The steps are sorted *)
(* first by what they do to the calls, the queries and the rows (Step);    *)
(* each invariant is then proved once for each sort.  At the end, the      *)
(* reviews the back office moderates.                                      *)
(***************************************************************************)
EXTENDS BackOffice, TLAPS

(* Every product has a category and pictures that were uploaded, and       *)
(* products with orders are there.                                         *)
ServerTypes ==
  /\ rows \in Rows
  /\ home \in [Products -> Categories]
  /\ \A c \in Categories : Filed(c) # {} => rows[c] = "here"
  /\ \A p \in Ordered : rows[p] # "gone"
  /\ pictures \in [Products -> SUBSET Files]
  /\ \A p \in Products : pictures[p] \subseteq stored
  /\ stored \subseteq Files

QueryTypes ==
  /\ cache \in [Items -> Shown] /\ fetched \in [Items -> Shown]
  /\ stale \subseteq Tables
  /\ fetch \in [Tables -> {"none", "asked", "read"}]
  /\ missed \subseteq Items

(* A picture the form has been told of is in the bucket. *)
EditorTypes ==
  /\ page \in Tables \cup {"form"}
  /\ selected \subseteq Products
  /\ form \in Products \cup {None}
  /\ page = "form" => form \in Products
  /\ creating \in BOOLEAN
  /\ uploads \in [Files -> {"absent", "signing", "uploading", "done", "error", "removed"}]
  /\ \A f \in Files : uploads[f] = "done" => f \in stored

(* What a call asks for fits the table it is about. *)
WellMade(c) ==
  /\ c \in Calls
  /\ c.n <= requests
  /\ c.ids \subseteq Of(TableOfCall(c))
  /\ c.files \subseteq stored
  /\ c.op = "status" => c.to \in PRODUCT_STATUSES
  /\ c.op \in CodeOps => c.to \in {"on", "off", "deleted"}
  /\ c.op \in SettingsOps => c.to \in {"old", "new"}

CallTypes ==
  /\ \A c \in calls : WellMade(c)
  /\ requests \in 0..MaxRequests
  /\ failures \in 0..MaxFailures
  /\ overlapped \subseteq 1..MaxRequests

TypeInv == ServerTypes /\ QueryTypes /\ EditorTypes /\ CallTypes

(* Calls are told apart by their numbers, and two about one table overlap. *)
CallsInv ==
  /\ \A c, d \in calls : c.n = d.n => c = d
  /\ \A c, d \in calls : c # d /\ TableOfCall(c) = TableOfCall(d) => c.n \in overlapped

(* A choice is not shown over by a query: one in flight has been noted. *)
ChoiceInv ==
  /\ fetch["products"] # "none" =>
       \A c \in calls : c.op \in {"status", "delete"} => c.n \in overlapped
  /\ ChoiceStaysShown

(* What a table shows of a row is what the server holds. *)
Same(i, v) ==
  IF i \in Categories THEN (v = "gone") <=> (rows[i] = "gone")
  ELSE v = IF i \in Codes /\ rows[i] = "deleted" THEN "gone" ELSE rows[i]

(* A call at the end of which its table is read again, or the row noted as *)
(* missed.                                                                 *)
DueTo(c, t, i) ==
  /\ TableOfCall(c) = t
  /\ c.op \in {"status", "delete", "save"} \/ (c.phase = "done" /\ i \in c.ids)

Due(t, i) == \E c \in calls : DueTo(c, t, i)

(* A row that was not missed is shown as it is, or will be read, once the  *)
(* calls about it have ended or its page is opened.                        *)
Listing(t, i) ==
  /\ fetch[t] = "none" => Same(i, cache[i]) \/ Due(t, i) \/ (t \in stale /\ page # t)
  /\ fetch[t] = "read" => Same(i, fetched[i]) \/ Due(t, i)

ListsInv == \A t \in Tables : \A i \in Of(t) \ missed : Listing(t, i)

(* An answer with the settings is the settings, unless it was overtaken.   *)
AnswersInv ==
  \A c \in calls : c.op = "saveSection" /\ c.phase = "done" /\ c.n \notin overlapped =>
    \A i \in Sections : c.kept[i] = rows[i]

(***************************************************************************)
(* Tables.                                                                 *)
(***************************************************************************)
LEMMA OfTables ==
  /\ Of("products") = Products /\ Of("categories") = Categories
  /\ Of("codes") = Codes /\ Of("settings") = Sections
  BY DEF Of

LEMMA ItemsOfTables ==
  /\ \A t \in Tables : Of(t) \subseteq Items
  /\ \A i \in Items : \E t \in Tables : i \in Of(t)
  BY DEF Items

LEMMA RowsApart ==
  /\ Products \cap Categories = {} /\ Products \cap Codes = {} /\ Products \cap Sections = {}
  /\ Categories \cap Codes = {} /\ Categories \cap Sections = {} /\ Codes \cap Sections = {}
<1>1. /\ Of("products") \cap Of("categories") = {} /\ Of("products") \cap Of("codes") = {}
      /\ Of("products") \cap Of("settings") = {} /\ Of("categories") \cap Of("codes") = {}
      /\ Of("categories") \cap Of("settings") = {} /\ Of("codes") \cap Of("settings") = {}
  BY TablesAssumption, Zenon DEF Tables
<1> QED BY <1>1, OfTables

LEMMA ItemsAre ==
  /\ Products \subseteq Items /\ Categories \subseteq Items
  /\ Codes \subseteq Items /\ Sections \subseteq Items
  /\ \A i \in Items : i \in Products \/ i \in Categories \/ i \in Codes \/ i \in Sections
<1>1. /\ "products" \in Tables /\ "categories" \in Tables
      /\ "codes" \in Tables /\ "settings" \in Tables
  BY DEF Tables
<1>2. Products \subseteq Items /\ Categories \subseteq Items /\ Codes \subseteq Items
      /\ Sections \subseteq Items
  BY <1>1, ItemsOfTables, OfTables
<1>3. ASSUME NEW i \in Items
      PROVE i \in Products \/ i \in Categories \/ i \in Codes \/ i \in Sections
  <2>1. PICK t \in Tables : i \in Of(t)
    BY <1>3, ItemsOfTables
  <2> QED BY <2>1, OfTables DEF Tables
<1> QED BY <1>2, <1>3

LEMMA TablesOfCalls ==
  ASSUME NEW c
  PROVE  /\ c.op \in ProductOps => TableOfCall(c) = "products"
         /\ c.op \in CategoryOps => TableOfCall(c) = "categories"
         /\ c.op \in CodeOps => TableOfCall(c) = "codes"
         /\ c.op \in SettingsOps => TableOfCall(c) = "settings"
  BY DEF TableOfCall, ProductOps, CategoryOps, CodeOps, SettingsOps

LEMMA TableOfACall ==
  ASSUME NEW c \in Calls
  PROVE  /\ TableOfCall(c) \in Tables
         /\ TableOfCall(c) = "products" => c.op \in ProductOps
         /\ TableOfCall(c) = "settings" => c.op = "saveSection"
<1>1. c.op \in ProductOps \cup CategoryOps \cup CodeOps \cup SettingsOps
  BY DEF Calls
<1> QED BY <1>1, TablesOfCalls DEF Tables, SettingsOps

LEMMA ListedShown ==
  ASSUME rows \in Rows, NEW i \in Items
  PROVE  Listed(i) \in Shown
  BY DEF Listed, Rows, Held, Shown

(* The rows a table shows are those of the server; of categories it        *)
(* matters only whether they are there.                                    *)
LEMMA SameListed ==
  ASSUME NEW i \in Items, NEW v
  PROVE  Same(i, v) <=> IF i \in Categories THEN (v = "gone") <=> (Listed(i) = "gone")
                        ELSE v = Listed(i)
<1>1. CASE i \in Categories
  <2>1. (Listed(i) = "gone") <=> (rows[i] = "gone")
    BY <1>1 DEF Listed, AllCategories
  <2> QED BY <1>1, <2>1 DEF Same
<1>2. CASE i \in Products
  <2>1. i \notin Categories /\ i \notin Codes /\ i \notin Sections
    BY <1>2, RowsApart
  <2>2. Listed(i) = rows[i]
    BY <1>2, <2>1 DEF Listed, AllProducts, AllCodes
  <2> QED BY <2>1, <2>2 DEF Same
<1>3. CASE i \in Codes
  <2>1. i \notin Categories /\ i \notin Products /\ i \notin Sections
    BY <1>3, RowsApart
  <2>2. Listed(i) = IF rows[i] = "deleted" THEN "gone" ELSE rows[i]
    BY <1>3, <2>1 DEF Listed, AllProducts, AllCodes
  <2> QED BY <1>3, <2>1, <2>2 DEF Same
<1>4. CASE i \in Sections
  <2>1. i \notin Categories /\ i \notin Products /\ i \notin Codes
    BY <1>4, RowsApart
  <2>2. Listed(i) = rows[i]
    BY <1>4, <2>1 DEF Listed
  <2> QED BY <2>1, <2>2 DEF Same
<1> QED BY <1>1, <1>2, <1>3, <1>4, ItemsAre

(***************************************************************************)
(* Calls.                                                                  *)
(***************************************************************************)
Alike(d, c) ==
  /\ d.n = c.n /\ d.op = c.op /\ d.ids = c.ids /\ d.to = c.to /\ d.category = c.category
  /\ d.files = c.files /\ d.kept = c.kept /\ d.phase = c.phase

(* The calls that are left go on, perhaps without a page to answer to. *)
Kept(left) ==
  calls' = left \/ calls' = {[c EXCEPT !.watched = FALSE] : c \in left}

LEMMA Unwatched ==
  ASSUME NEW c \in Calls, NEW d, d = [c EXCEPT !.watched = FALSE]
  PROVE  d \in Calls /\ Alike(d, c)
  BY DEF Calls, Alike

LEMMA AlikeTables ==
  ASSUME NEW c, NEW d, Alike(d, c)
  PROVE  TableOfCall(d) = TableOfCall(c)
  BY DEF Alike, TableOfCall

LEMMA CallsAreCalls ==
  ASSUME CallTypes
  PROVE  calls \subseteq Calls
  BY DEF CallTypes, WellMade

LEMMA KeptBack ==
  ASSUME CallTypes, NEW left \in SUBSET calls, Kept(left), NEW d \in calls'
  PROVE  \E c \in left : d \in Calls /\ Alike(d, c)
<1>1. left \subseteq Calls
  BY CallsAreCalls
<1>2. CASE calls' = left
  <2>1. d \in left /\ d \in Calls /\ Alike(d, d)
    BY <1>1, <1>2 DEF Alike
  <2> QED BY <2>1
<1>3. CASE calls' = {[c EXCEPT !.watched = FALSE] : c \in left}
  <2>1. PICK c \in left : d = [c EXCEPT !.watched = FALSE]
    BY <1>3
  <2> QED BY <1>1, <2>1, Unwatched
<1> QED BY <1>2, <1>3 DEF Kept

LEMMA KeptOn ==
  ASSUME CallTypes, NEW left \in SUBSET calls, Kept(left), NEW c \in left
  PROVE  \E d \in calls' : Alike(d, c)
<1>1. left \subseteq Calls
  BY CallsAreCalls
<1>2. CASE calls' = left
  <2>1. c \in calls' /\ Alike(c, c)
    BY <1>2 DEF Alike
  <2> QED BY <2>1
<1>3. CASE calls' = {[e EXCEPT !.watched = FALSE] : e \in left}
  <2>1. [c EXCEPT !.watched = FALSE] \in calls'
    BY <1>3
  <2> QED BY <1>1, <2>1, Unwatched
<1> QED BY <1>2, <1>3 DEF Kept

(* What a well made call asks for stays there. *)
LEMMA WellMadeStays ==
  ASSUME NEW c, WellMade(c), requests \in Nat, requests' \in Nat, requests <= requests',
         stored \subseteq stored'
  PROVE  WellMade(c)'
<1>0. c.n \in 1..MaxRequests
  BY DEF WellMade, Calls
<1>1. c.n \in Nat
  BY <1>0, BoundsAssumption
<1>2. c.n <= requests'
  BY <1>1 DEF WellMade
<1> QED BY <1>2 DEF WellMade

LEMMA AlikeWellMade ==
  ASSUME NEW c, WellMade(c), NEW d \in Calls, Alike(d, c)
  PROVE  WellMade(d)
<1>1. TableOfCall(d) = TableOfCall(c)
  BY AlikeTables
<1> QED BY <1>1 DEF WellMade, Alike

CountersGo ==
  /\ requests' \in 0..MaxRequests /\ requests <= requests'
  /\ failures' \in 0..MaxFailures
  /\ overlapped' \subseteq 1..MaxRequests
  /\ stored \subseteq stored'

LEMMA KeptTypes ==
  ASSUME CallTypes, NEW left \in SUBSET calls, Kept(left), CountersGo
  PROVE  CallTypes'
<1>1. requests \in Nat /\ requests' \in Nat
  BY BoundsAssumption DEF CallTypes, CountersGo
<1>2. ASSUME NEW d \in calls'
      PROVE WellMade(d)'
  <2>1. PICK c \in left : d \in Calls /\ Alike(d, c)
    BY <1>2, KeptBack
  <2>2. WellMade(d)
    BY <2>1, AlikeWellMade DEF CallTypes
  <2> QED BY <1>1, <2>2, WellMadeStays DEF CountersGo
<1> QED BY <1>2 DEF CallTypes, CountersGo

LEMMA SendTypes ==
  ASSUME CallTypes, NEW c, c.n = requests + 1, WellMade(c)', Send(c), UNCHANGED <<stored, failures>>
  PROVE  CallTypes'
<1>1. requests \in 0..MaxRequests /\ requests' = requests + 1 /\ requests' \in 0..MaxRequests
  BY BoundsAssumption DEF CallTypes, Send
<1>2. ASSUME NEW d \in calls'
      PROVE WellMade(d)'
  <2>1. CASE d = c
    BY <2>1
  <2>2. CASE d \in calls
    BY <1>1, <2>2, WellMadeStays, BoundsAssumption DEF CallTypes
  <2> QED BY <1>2, <2>1, <2>2 DEF Send
<1>3. \A d \in calls : d.n \in 1..MaxRequests
  BY DEF CallTypes, WellMade, Calls
<1>4. c.n \in 1..MaxRequests
  BY <1>1, BoundsAssumption
<1>5. overlapped' \subseteq 1..MaxRequests
  BY <1>3, <1>4 DEF Send, CallTypes, NumbersOf, InFlight
<1> QED BY <1>1, <1>2, <1>5 DEF CallTypes

(* What a handler makes of a call. *)
Handled(c, d) ==
  /\ c \in calls /\ c.phase = "sent"
  /\ calls' = (calls \ {c}) \cup {d}
  /\ d \in Calls
  /\ d.n = c.n /\ d.op = c.op /\ d.ids = c.ids /\ d.to = c.to /\ d.files = c.files
  /\ d.phase \in {"done", "refused"}
  /\ c.op # "saveSection" => d.kept = c.kept
  /\ d.op = "saveSection" /\ d.phase = "done" => \A i \in Sections : d.kept[i] = rows'[i]
  /\ \A i \in Items : rows'[i] # rows[i] => i \in c.ids /\ d.phase = "done"
  /\ UNCHANGED <<stored, queries, page, selected, editor, requests, failures, overlapped, missed>>

LEMMA HandledTypes ==
  ASSUME CallTypes, NEW c, NEW d, Handled(c, d)
  PROVE  CallTypes'
<1>1. WellMade(c)
  BY DEF CallTypes, Handled
<1>2. TableOfCall(d) = TableOfCall(c)
  BY DEF Handled, TableOfCall
<1>3. WellMade(d)
  BY <1>1, <1>2 DEF Handled, WellMade
<1>4. \A e : WellMade(e) => WellMade(e)'
  BY DEF Handled, WellMade
<1>5. \A e \in calls' : WellMade(e)'
  BY <1>3, <1>4 DEF Handled, CallTypes
<1> QED BY <1>5 DEF Handled, CallTypes

(***************************************************************************)
(* What the steps are made of keeps the types.                             *)
(***************************************************************************)
LEMMA ServerSame ==
  ASSUME ServerTypes, UNCHANGED server
  PROVE  ServerTypes'
  BY DEF ServerTypes, server, Filed

LEMMA QueriesSame ==
  ASSUME QueryTypes, UNCHANGED <<queries, missed>>
  PROVE  QueryTypes'
  BY DEF QueryTypes, queries

LEMMA EditorSame ==
  ASSUME EditorTypes, UNCHANGED <<page, selected, editor>>, stored \subseteq stored'
  PROVE  EditorTypes'
  BY DEF EditorTypes, editor

LEMMA CallsSame ==
  ASSUME CallTypes, UNCHANGED calls, CountersGo
  PROVE  CallTypes'
  BY KeptTypes DEF Kept

LEMMA CountersSame ==
  ASSUME CallTypes, UNCHANGED <<stored, requests, failures, overlapped>>
  PROVE  CountersGo
  BY BoundsAssumption DEF CallTypes, CountersGo

LEMMA NoRowsShown == NoRows \in [Items -> Shown]
  BY DEF NoRows, Shown, Held

LEMMA NoUploadsTyped ==
  NoUploads \in [Files -> {"absent", "signing", "uploading", "done", "error", "removed"}]
  BY DEF NoUploads

LEMMA ResetShown ==
  ASSUME QueryTypes, NEW t
  PROVE  Reset(t) \in [Items -> Shown]
<1>1. "gone" \in Shown
  BY DEF Shown, Held
<1> QED BY <1>1 DEF Reset, QueryTypes

LEMMA SnapshotShown ==
  ASSUME QueryTypes
  PROVE  Snapshot \in [Items -> Shown]
<1>1. "gone" \in Shown
  BY DEF Shown, Held
<1> QED BY <1>1 DEF Snapshot, QueryTypes

LEMMA InvalidateTypes ==
  ASSUME QueryTypes, NEW t \in Tables, Invalidate(t, {}), cache' \in [Items -> Shown]
  PROVE  QueryTypes'
<1>1. Reset(t) \in [Items -> Shown]
  BY ResetShown
<1>2. fetched' \in [Items -> Shown] /\ fetch' \in [Tables -> {"none", "asked", "read"}]
  BY <1>1 DEF Invalidate, QueryTypes
<1>3. stale' \subseteq Tables
  BY DEF Invalidate, QueryTypes
<1>4. missed' \subseteq Items
  BY ItemsOfTables DEF Invalidate, QueryTypes
<1> QED BY <1>2, <1>3, <1>4 DEF QueryTypes

LEMMA CancelTypes ==
  ASSUME QueryTypes, CancelQueries, cache' \in [Items -> Shown], UNCHANGED <<stale, missed>>
  PROVE  QueryTypes'
<1>1. Reset("products") \in [Items -> Shown]
  BY ResetShown
<1> QED BY <1>1 DEF CancelQueries, QueryTypes

LEMMA MountTypes ==
  ASSUME TypeInv, NEW t, Mount(t)
  PROVE  /\ fetch' \in [Tables -> {"none", "asked", "read"}]
         /\ requests' \in 0..MaxRequests /\ requests <= requests'
         /\ \A s \in Tables \ {t} : fetch'[s] = fetch[s]
  BY BoundsAssumption DEF TypeInv, QueryTypes, CallTypes, Mount

LEMMA ShowTypes ==
  ASSUME EditorTypes, NEW t \in Tables, NEW cs, Show(t, cs)
  PROVE  EditorTypes' /\ Kept(cs) /\ page' = t
<1>1. t # "form"
  BY DEF Tables
<1>2. uploads' \in [Files -> {"absent", "signing", "uploading", "done", "error", "removed"}]
      /\ \A f \in Files : uploads'[f] # "done"
  BY DEF Show, NoUploads
<1>3. page' = t /\ selected' \subseteq Products /\ form' = None /\ creating' = FALSE
  BY DEF Show, EditorTypes
<1>4. Kept(cs)
  BY DEF Show, Kept
<1> QED BY <1>1, <1>2, <1>3, <1>4 DEF EditorTypes

Wishes == Held \cup {"", "publish", "draft", "delete"}

Fresh(c, op, ids, to) ==
  /\ c \in Calls /\ c.n = requests + 1 /\ c.op = op /\ c.ids = ids /\ c.to = to
  /\ c.files = {} /\ c.phase = "sent"

LEMMA CallIsMade ==
  ASSUME TypeInv, requests < MaxRequests,
         NEW op \in ProductOps \cup CategoryOps \cup CodeOps \cup SettingsOps,
         NEW ids \in SUBSET Items, NEW to \in Wishes
  PROVE  Fresh(Call(op, ids, to), op, ids, to)
<1>1. requests + 1 \in 1..MaxRequests
  BY BoundsAssumption DEF TypeInv, CallTypes
<1>2. (CHOOSE k \in Categories : TRUE) \in Categories
  BY TablesAssumption
<1>3. NoRows \in [Items -> Shown]
  BY NoRowsShown
<1> HIDE DEF NoRows
<1> QED BY <1>1, <1>2, <1>3 DEF Call, Calls, Wishes, Fresh

(***************************************************************************)
(* Types, action by action.  First the products table.                     *)
(***************************************************************************)
LEMMA SelectionTypes ==
  ASSUME TypeInv, selected' \subseteq Products, tableUnchanged
  PROVE  TypeInv'
<1>1. ServerTypes' /\ QueryTypes'
  BY ServerSame, QueriesSame DEF TypeInv, tableUnchanged
<1>2. EditorTypes'
  BY DEF TypeInv, EditorTypes, tableUnchanged, editor, server
<1>3. CallTypes'
  BY CountersSame, CallsSame DEF TypeInv, tableUnchanged, server
<1> QED BY <1>1, <1>2, <1>3 DEF TypeInv

LEMMA SelectingTypes ==
  ASSUME TypeInv,
         (\E p \in Products : toggleProductSelection(p)) \/ toggleSelectAllOnPage \/ ClearSelection
  PROVE  TypeInv'
<1>1. selected \subseteq Products
  BY DEF TypeInv, EditorTypes
<1>2. selected' \subseteq Products
  BY <1>1 DEF toggleProductSelection, toggleSelectAllOnPage, ClearSelection, OnPage
<1>3. tableUnchanged
  BY DEF toggleProductSelection, toggleSelectAllOnPage, ClearSelection
<1> QED BY <1>2, <1>3, SelectionTypes

(* A call that is sent from a page that stays open. *)
LEMMA SentTypes ==
  ASSUME TypeInv, NEW c \in Calls, c.n = requests + 1, Send(c),
         c.ids \subseteq Of(TableOfCall(c)), c.files \subseteq stored,
         c.op = "status" => c.to \in PRODUCT_STATUSES,
         c.op \in CodeOps => c.to \in {"on", "off", "deleted"},
         c.op \in SettingsOps => c.to \in {"old", "new"},
         UNCHANGED <<server, page, selected, editor, failures>>, QueryTypes'
  PROVE  TypeInv'
<1>1. ServerTypes' /\ EditorTypes'
  BY ServerSame, EditorSame DEF TypeInv, server
<1>2. requests' = requests + 1
  BY DEF Send
<1>3. WellMade(c)'
  <2>1. c.n <= requests'
    BY <1>2, BoundsAssumption DEF TypeInv, CallTypes
  <2> QED BY <2>1 DEF WellMade, server
<1>4. CallTypes'
  BY <1>3, SendTypes DEF TypeInv, server
<1> QED BY <1>1, <1>4 DEF TypeInv

(* A call is sent, and nothing shown.                                      *)
Sends(c) ==
  /\ Send(c) /\ c.n = requests + 1 /\ c.phase = "sent"
  /\ c.op \notin {"status", "delete", "save"}
  /\ UNCHANGED <<rows, queries, missed, page>>

(* A call is sent, and the change shown ahead of the answer.               *)
Changes(c) ==
  /\ Send(c) /\ c.n = requests + 1 /\ c.phase = "sent"
  /\ c.op \in {"status", "delete", "save"}
  /\ c.op # "save" => \A p \in c.ids : cache'[p] = IF c.op = "status" THEN c.to ELSE "gone"
  /\ \A i \in Items \ Products : cache'[i] = cache[i]
  /\ CancelQueries
  /\ UNCHANGED <<rows, stale, missed, page>>

LEMMA ProductIds ==
  ASSUME NEW p \in Products
  PROVE  {p} \subseteq Items /\ {p} \subseteq Products
  BY ItemsAre

LEMMA ChangeStatusTypes ==
  ASSUME TypeInv, NEW p \in Products, NEW s \in PRODUCT_STATUSES, ChangeStatus(p, s)
  PROVE  TypeInv' /\ \E c \in Calls : Changes(c)
<1>0. PICK ids \in SUBSET Items : ids = {p} /\ ids \subseteq Products
  BY ProductIds
<1> DEFINE b == Call("status", ids, s)
           c == [b EXCEPT !.kept = Snapshot]
<1>1. requests < MaxRequests /\ Send(c)
  BY <1>0 DEF ChangeStatus, Send
<1>2. s \in Wishes /\ "status" \in ProductOps \cup CategoryOps \cup CodeOps \cup SettingsOps
      /\ "status" \in ProductOps /\ s \in Shown
  BY DEF Wishes, Held, Shown, ProductOps
<1>3. Fresh(b, "status", ids, s)
  BY <1>1, <1>2, CallIsMade
<1>4. Snapshot \in [Items -> Shown]
  BY SnapshotShown DEF TypeInv
<1>5. c \in Calls /\ c.n = requests + 1 /\ c.op = "status" /\ c.ids = ids /\ c.to = s /\ c.files = {}
      /\ c.phase = "sent"
  <2> HIDE DEF b
  <2> QED BY <1>3, <1>4 DEF Calls, Fresh
<1> HIDE DEF c
<1>6. TableOfCall(c) = "products"
  BY <1>2, <1>5, TablesOfCalls
<1>7. cache' \in [Items -> Shown]
  BY <1>2 DEF ChangeStatus, TypeInv, QueryTypes
<1>8. QueryTypes'
  BY <1>7, CancelTypes DEF ChangeStatus, TypeInv
<1>9. Changes(c)
  <2>1. cache \in [Items -> Shown] /\ p \in Items
    BY ItemsAre DEF TypeInv, QueryTypes
  <2>2. cache'[p] = s /\ \A i \in Items \ Products : cache'[i] = cache[i]
    BY <2>1 DEF ChangeStatus
  <2> QED BY <1>0, <1>1, <1>5, <2>2 DEF ChangeStatus, Changes, server
<1> QED
  BY <1>9, <1>1, <1>5, <1>6, <1>8, <1>0, OfTables, SentTypes
     DEF ChangeStatus, CodeOps, SettingsOps

LEMMA DeleteProductTypes ==
  ASSUME TypeInv, NEW p \in Products, DeleteProduct(p)
  PROVE  TypeInv' /\ \E c \in Calls : Changes(c)
<1>0. PICK ids \in SUBSET Items : ids = {p} /\ ids \subseteq Products
  BY ProductIds
<1>a. PICK to \in Wishes : to = ""
  BY DEF Wishes
<1> DEFINE b == Call("delete", ids, to)
           c == [b EXCEPT !.kept = Snapshot]
<1>1. requests < MaxRequests /\ Send(c)
  BY <1>0, <1>a DEF DeleteProduct, Send
<1>2. "delete" \in ProductOps \cup CategoryOps \cup CodeOps \cup SettingsOps
      /\ "delete" \in ProductOps /\ "gone" \in Shown
  BY DEF Wishes, Held, Shown, ProductOps
<1>3. Fresh(b, "delete", ids, to)
  BY <1>1, <1>2, CallIsMade
<1>4. Snapshot \in [Items -> Shown]
  BY SnapshotShown DEF TypeInv
<1>5. c \in Calls /\ c.n = requests + 1 /\ c.op = "delete" /\ c.ids = ids /\ c.files = {}
      /\ c.phase = "sent"
  <2> HIDE DEF b
  <2> QED BY <1>3, <1>4 DEF Calls, Fresh
<1> HIDE DEF c
<1>6. TableOfCall(c) = "products"
  BY <1>2, <1>5, TablesOfCalls
<1>7. cache' \in [Items -> Shown]
  BY <1>2 DEF DeleteProduct, TypeInv, QueryTypes
<1>8. QueryTypes'
  BY <1>7, CancelTypes DEF DeleteProduct, TypeInv
<1>9. Changes(c)
  <2>1. cache \in [Items -> Shown] /\ p \in Items
    BY ItemsAre DEF TypeInv, QueryTypes
  <2>2. cache'[p] = "gone" /\ \A i \in Items \ Products : cache'[i] = cache[i]
    BY <2>1 DEF DeleteProduct
  <2> QED BY <1>0, <1>1, <1>5, <2>2 DEF DeleteProduct, Changes, server
<1> QED
  BY <1>9, <1>1, <1>5, <1>6, <1>8, <1>0, OfTables, SentTypes
     DEF DeleteProduct, CodeOps, SettingsOps

LEMMA BulkActionTypes ==
  ASSUME TypeInv, NEW action \in {"publish", "draft", "delete"}, BulkAction(action)
  PROVE  TypeInv' /\ \E c \in Calls : Sends(c)
<1> DEFINE c == Call("bulk", selected, action)
<1>1. requests < MaxRequests /\ Send(c)
  BY DEF BulkAction, Send
<1>2. action \in Wishes /\ "bulk" \in ProductOps
  BY DEF Wishes, ProductOps
<1>3. selected \subseteq Products /\ selected \subseteq Items
  BY ItemsAre DEF TypeInv, EditorTypes
<1>4. c \in Calls /\ c.n = requests + 1 /\ c.op = "bulk" /\ c.ids = selected /\ c.files = {}
      /\ c.phase = "sent"
  <2>1. Fresh(c, "bulk", selected, action)
    BY <1>1, <1>2, <1>3, CallIsMade
  <2> QED BY <2>1 DEF Fresh
<1> HIDE DEF c
<1>5. TableOfCall(c) = "products"
  BY <1>2, <1>4, TablesOfCalls
<1>6. QueryTypes'
  BY QueriesSame DEF BulkAction, TypeInv
<1>7. Sends(c)
  BY <1>1, <1>4 DEF BulkAction, Sends, server
<1> QED
  BY <1>7, <1>1, <1>3, <1>4, <1>5, <1>6, OfTables, SentTypes DEF BulkAction, CodeOps, SettingsOps

(* The other tables. *)
LEMMA AskTypes ==
  ASSUME TypeInv, NEW op \in CategoryOps \cup CodeOps \cup SettingsOps, NEW i \in Items,
         NEW to \in Wishes, Ask(op, i, to),
         op \in CategoryOps => i \in Categories,
         op \in CodeOps => i \in Codes /\ to \in {"on", "off", "deleted"},
         op \in SettingsOps => i \in Sections /\ to \in {"old", "new"}
  PROVE  TypeInv' /\ \E c \in Calls : Sends(c)
<1>0. PICK ids \in SUBSET Items : ids = {i}
  OBVIOUS
<1> DEFINE c == Call(op, ids, to)
<1>1. requests < MaxRequests /\ Send(c)
  BY <1>0 DEF Ask, Send
<1>2. c \in Calls /\ c.n = requests + 1 /\ c.op = op /\ c.ids = ids /\ c.to = to /\ c.files = {}
      /\ c.phase = "sent"
  <2>1. op \in ProductOps \cup CategoryOps \cup CodeOps \cup SettingsOps
    OBVIOUS
  <2>2. Fresh(c, op, ids, to)
    BY <1>1, <2>1, CallIsMade
  <2> QED BY <2>2 DEF Fresh
<1> HIDE DEF c
<1>3. c.ids \subseteq Of(TableOfCall(c))
  BY <1>0, <1>2, TablesOfCalls, OfTables
<1>4. QueryTypes'
  BY QueriesSame DEF Ask, TypeInv
<1>5. op \notin {"status", "delete", "save"}
  BY DEF CategoryOps, CodeOps, SettingsOps
<1>6. Sends(c)
  BY <1>1, <1>2, <1>5 DEF Ask, Sends, server
<1> QED BY <1>6, <1>1, <1>2, <1>3, <1>4, <1>5, SentTypes DEF Ask

LEMMA OtherPagesTypes ==
  ASSUME TypeInv, OtherPages
  PROVE  TypeInv' /\ \E c \in Calls : Sends(c)
<1>1. Categories \subseteq Items /\ Codes \subseteq Items /\ Sections \subseteq Items
  BY ItemsAre
<1>2. {"here", "gone", "on", "off", "deleted", "old", "new"} \subseteq Wishes
  BY DEF Wishes, Held
<1>3. /\ "addCategory" \in CategoryOps /\ "renameCategory" \in CategoryOps
      /\ "removeCategory" \in CategoryOps /\ "addCode" \in CodeOps /\ "toggleCode" \in CodeOps
      /\ "removeCode" \in CodeOps /\ "saveSection" \in SettingsOps
      /\ CategoryOps \cap CodeOps = {} /\ CategoryOps \cap SettingsOps = {}
      /\ CodeOps \cap SettingsOps = {}
      /\ "general" \in Sections /\ "social" \in Sections /\ "shipping" \in Sections
  BY DEF CategoryOps, CodeOps, SettingsOps, Sections
<1>4. ASSUME NEW k \in Categories, NEW op \in CategoryOps, NEW to \in {"here", "gone"}, Ask(op, k, to)
      PROVE TypeInv' /\ \E c \in Calls : Sends(c)
  BY <1>1, <1>2, <1>3, <1>4, AskTypes
<1>5. ASSUME NEW d \in Codes, NEW op \in CodeOps, NEW to \in {"on", "off", "deleted"}, Ask(op, d, to)
      PROVE TypeInv' /\ \E c \in Calls : Sends(c)
  BY <1>1, <1>2, <1>3, <1>5, AskTypes
<1>6. ASSUME NEW s \in Sections, NEW to \in {"old", "new"}, handleSave(s, to)
      PROVE TypeInv' /\ \E c \in Calls : Sends(c)
  <2>1. Ask("saveSection", s, to)
    BY <1>6 DEF handleSave
  <2> QED BY <2>1, <1>1, <1>2, <1>3, <1>6, AskTypes
<1>7. CASE \E k \in Categories : AddCategory(k) \/ RenameCategory(k) \/ DeleteCategoryDialog(k)
  BY <1>7, <1>3, <1>4 DEF AddCategory, RenameCategory, DeleteCategoryDialog
<1>8. CASE \E d \in Codes : CreateDiscountModal(d) \/ ToggleCode(d) \/ handleDeleteConfirm(d)
  <2>1. PICK d \in Codes : CreateDiscountModal(d) \/ ToggleCode(d) \/ handleDeleteConfirm(d)
    BY <1>8
  <2>2. \/ Ask("addCode", d, "on") \/ Ask("removeCode", d, "deleted")
        \/ Ask("toggleCode", d, "off") \/ Ask("toggleCode", d, "on")
    BY <2>1 DEF CreateDiscountModal, ToggleCode, handleDeleteConfirm
  <2> QED BY <2>2, <1>3, <1>5
<1>9. CASE GeneralSection \/ SocialSection \/ ShippingSection
  BY <1>9, <1>3, <1>6 DEF GeneralSection, SocialSection, ShippingSection
<1> QED BY <1>7, <1>8, <1>9 DEF OtherPages

(***************************************************************************)
(* The product form.                                                       *)
(***************************************************************************)
UploadStates == {"absent", "signing", "uploading", "done", "error", "removed"}

LEMMA OpenFormTypes ==
  ASSUME TypeInv, NEW p \in Products, NEW new \in BOOLEAN, NEW images \in [Files -> UploadStates],
         \A f \in Files : images[f] = "done" => f \in stored, OpenForm(p, new, images)
  PROVE  TypeInv'
<1>1. ServerTypes' /\ QueryTypes'
  BY ServerSame, QueriesSame DEF TypeInv, OpenForm
<1>2. EditorTypes'
  BY DEF OpenForm, EditorTypes, UploadStates, server
<1>3. Kept(calls) /\ CountersGo
  BY CountersSame DEF OpenForm, Kept, TypeInv, server
<1>4. CallTypes'
  BY <1>3, KeptTypes DEF TypeInv
<1> QED BY <1>1, <1>2, <1>4 DEF TypeInv

LEMMA OpeningTypes ==
  ASSUME TypeInv, NEW p \in Products, OpenEditForm(p) \/ OpenNewForm(p)
  PROVE  TypeInv'
<1>1. CASE OpenEditForm(p)
  <2> DEFINE images == [f \in Files |-> IF f \in pictures[p] THEN "done" ELSE "absent"]
  <2>1. images \in [Files -> UploadStates]
    BY DEF UploadStates
  <2>2. \A f \in Files : images[f] = "done" => f \in stored
    BY DEF TypeInv, ServerTypes
  <2>3. OpenForm(p, FALSE, images)
    BY <1>1 DEF OpenEditForm
  <2> HIDE DEF images
  <2> QED BY <2>1, <2>2, <2>3, OpenFormTypes
<1>2. CASE OpenNewForm(p)
  <2>1. NoUploads \in [Files -> UploadStates] /\ \A f \in Files : NoUploads[f] # "done"
    BY DEF NoUploads, UploadStates
  <2> QED BY <1>2, <2>1, OpenFormTypes DEF OpenNewForm
<1> QED BY <1>1, <1>2

(* Steps that change only what the form holds of a picture. *)
LEMMA UploadTypes ==
  ASSUME TypeInv, NEW f \in Files, NEW u \in UploadStates, uploads' = [uploads EXCEPT ![f] = u],
         stored \subseteq stored', stored' \subseteq Files, u = "done" => f \in stored',
         UNCHANGED <<rows, home, pictures, queries, page, selected, form, creating, calls, overlapped,
                     missed>>,
         requests' \in 0..MaxRequests, requests <= requests', failures' \in 0..MaxFailures
  PROVE  TypeInv'
<1>1. ServerTypes'
  BY DEF TypeInv, ServerTypes, Filed
<1>2. QueryTypes'
  BY QueriesSame DEF TypeInv
<1>3. EditorTypes'
  BY DEF TypeInv, EditorTypes, UploadStates
<1>4. CallTypes'
  BY CallsSame DEF TypeInv, CallTypes, CountersGo
<1> QED BY <1>1, <1>2, <1>3, <1>4 DEF TypeInv

LEMMA UploadingTypes ==
  ASSUME TypeInv, NEW f \in Files,
         \/ \E valid \in BOOLEAN : addFiles(f, valid)
         \/ generatePresignedUrl(f) \/ uploadFileToS3(f) \/ uploadFile(f) \/ handleRemoveImage(f)
  PROVE  TypeInv'
<1>1. /\ requests \in 0..MaxRequests /\ failures \in 0..MaxFailures /\ stored \subseteq Files
      /\ requests <= requests /\ stored \subseteq stored
  BY BoundsAssumption DEF TypeInv, CallTypes, ServerTypes
<1>2. {"signing", "uploading", "done", "error", "removed"} \subseteq UploadStates
  BY DEF UploadStates
<1>3. CASE \E valid \in BOOLEAN : addFiles(f, valid)
  <2>1. PICK valid \in BOOLEAN : addFiles(f, valid)
    BY <1>3
  <2>2. PICK u \in {"signing", "error"} : uploads' = [uploads EXCEPT ![f] = u]
    BY <2>1 DEF addFiles
  <2>3. requests' \in 0..MaxRequests /\ requests <= requests'
    BY <1>1, <2>1, BoundsAssumption DEF addFiles
  <2>4. u \in UploadStates /\ u # "done"
    BY <1>2
  <2> QED BY <1>1, <2>1, <2>2, <2>3, <2>4, UploadTypes DEF addFiles, formUnchanged, server
<1>4. CASE generatePresignedUrl(f)
  <2>1. "uploading" \in UploadStates
    BY <1>2
  <2> QED BY <1>1, <1>4, <2>1, UploadTypes DEF generatePresignedUrl, formUnchanged, server
<1>5. CASE uploadFileToS3(f)
  <2>1. "done" \in UploadStates
    BY <1>2
  <2> QED BY <1>1, <1>5, <2>1, UploadTypes DEF uploadFileToS3
<1>6. CASE uploadFile(f)
  <2>1. "error" \in UploadStates
    BY <1>2
  <2>2. failures' \in 0..MaxFailures
    BY <1>1, <1>6, BoundsAssumption DEF uploadFile
  <2> QED BY <1>1, <1>6, <2>1, <2>2, UploadTypes DEF uploadFile, formUnchanged, server
<1>7. CASE handleRemoveImage(f)
  <2>1. "removed" \in UploadStates
    BY <1>2
  <2> QED BY <1>1, <1>7, <2>1, UploadTypes DEF handleRemoveImage, formUnchanged, server
<1> QED BY <1>3, <1>4, <1>5, <1>6, <1>7

LEMMA SubmitFormTypes ==
  ASSUME TypeInv, NEW category \in Categories, SubmitForm(category)
  PROVE  TypeInv' /\ \E c \in Calls : Sends(c) \/ Changes(c)
<1>1. form \in Products /\ FormImages \subseteq stored /\ FormImages \subseteq Files
  BY DEF TypeInv, EditorTypes, FormImages, SubmitForm
<1>2. PICK ids \in SUBSET Items : ids = {form} /\ ids \subseteq Products
  BY <1>1, ProductIds
<1>3. PICK to \in Wishes : to = ""
  BY DEF Wishes
<1>4. requests < MaxRequests
  BY DEF SubmitForm, Send
<1>5. /\ "create" \in ProductOps \cup CategoryOps \cup CodeOps \cup SettingsOps
      /\ "save" \in ProductOps \cup CategoryOps \cup CodeOps \cup SettingsOps
      /\ "create" \in ProductOps /\ "save" \in ProductOps
  BY DEF ProductOps
<1>6. Snapshot \in [Items -> Shown]
  BY SnapshotShown DEF TypeInv
<1>7. CASE creating
  <2> DEFINE b == Call("create", ids, to)
             c == [b EXCEPT !.files = FormImages, !.category = category]
  <2>1. Send(c)
    BY <1>2, <1>3, <1>7 DEF SubmitForm
  <2>2. Fresh(b, "create", ids, to)
    BY <1>4, <1>5, CallIsMade
  <2>3. /\ c \in Calls /\ c.n = requests + 1 /\ c.op = "create" /\ c.ids = ids
        /\ c.files = FormImages
        /\ c.phase = "sent"
    <3> HIDE DEF b
    <3> QED BY <1>1, <2>2 DEF Calls, Fresh
  <2> HIDE DEF c
  <2>4. TableOfCall(c) = "products"
    BY <1>5, <2>3, TablesOfCalls
  <2>5. QueryTypes'
    BY <1>7, QueriesSame DEF SubmitForm, TypeInv, queries
  <2>6. Sends(c)
    BY <1>7, <2>1, <2>3 DEF SubmitForm, Sends, server, queries
  <2> QED
    BY <1>1, <1>2, <2>6, <2>1, <2>3, <2>4, <2>5, OfTables, SentTypes
       DEF SubmitForm, CodeOps, SettingsOps, editor
<1>8. CASE ~creating
  <2> DEFINE b == Call("save", ids, to)
             c == [b EXCEPT !.files = FormImages, !.category = category, !.kept = Snapshot]
  <2>1. Send(c)
    BY <1>2, <1>3, <1>8 DEF SubmitForm
  <2>2. Fresh(b, "save", ids, to)
    BY <1>4, <1>5, CallIsMade
  <2>3. c \in Calls /\ c.n = requests + 1 /\ c.op = "save" /\ c.ids = ids /\ c.files = FormImages
        /\ c.phase = "sent"
    <3> HIDE DEF b
    <3> QED BY <1>1, <1>6, <2>2 DEF Calls, Fresh
  <2> HIDE DEF c
  <2>4. TableOfCall(c) = "products"
    BY <1>5, <2>3, TablesOfCalls
  <2>5. QueryTypes'
    BY <1>8, CancelTypes DEF SubmitForm, TypeInv, QueryTypes
  <2>6. Changes(c)
    BY <1>8, <2>1, <2>3 DEF SubmitForm, Changes, server
  <2> QED
    BY <1>1, <1>2, <2>6, <2>1, <2>3, <2>4, <2>5, OfTables, SentTypes
       DEF SubmitForm, CodeOps, SettingsOps, editor
<1> QED BY <1>7, <1>8

(***************************************************************************)
(* The handlers of the API.                                                *)
(***************************************************************************)
LEMMA DoneIsHandled ==
  ASSUME CallTypes, NEW c \in calls, c.phase = "sent", c.op # "saveSection", Done(c),
         \A i \in Items : rows'[i] # rows[i] => i \in c.ids, handlerUnchanged
  PROVE  \E d : Handled(c, d)
<1> DEFINE d == [c EXCEPT !.phase = "done"]
<1>1. c \in Calls
  BY CallsAreCalls
<1>2. /\ d \in Calls /\ d.n = c.n /\ d.op = c.op /\ d.ids = c.ids /\ d.to = c.to
      /\ d.files = c.files /\ d.kept = c.kept /\ d.phase = "done"
  BY <1>1 DEF Calls
<1>3. calls' = (calls \ {c}) \cup {d}
  BY DEF Done
<1> HIDE DEF d
<1>4. Handled(c, d)
  BY <1>2, <1>3 DEF Handled, handlerUnchanged
<1> QED BY <1>4

LEMMA RefusedIsHandled ==
  ASSUME CallTypes, NEW c \in calls, c.phase = "sent", Refuse(c), UNCHANGED rows, handlerUnchanged
  PROVE  \E d : Handled(c, d)
<1> DEFINE d == [c EXCEPT !.phase = "refused"]
<1>1. c \in Calls
  BY CallsAreCalls
<1>2. /\ d \in Calls /\ d.n = c.n /\ d.op = c.op /\ d.ids = c.ids /\ d.to = c.to
      /\ d.files = c.files /\ d.kept = c.kept /\ d.phase = "refused"
  BY <1>1 DEF Calls
<1>3. calls' = (calls \ {c}) \cup {d}
  BY DEF Refuse
<1> HIDE DEF d
<1>4. Handled(c, d)
  BY <1>2, <1>3 DEF Handled, handlerUnchanged
<1> QED BY <1>4

(* What the server keeps of its tables, whatever a handler writes.         *)
LEMMA ProductWriteTypes ==
  ASSUME ServerTypes, NEW ids \in SUBSET Products,
         rows' \in [Items -> Held],
         \A i \in Items \ ids : rows'[i] = rows[i],
         \A p \in ids : \/ rows'[p] \in PRODUCT_STATUSES /\ rows[p] # "gone"
                        \/ rows'[p] = "gone" /\ p \notin Ordered,
         UNCHANGED <<home, stored>>,
         pictures' \in [Products -> SUBSET Files], \A p \in Products : pictures'[p] \subseteq stored
  PROVE  ServerTypes'
<1>1. \A p \in Products : rows'[p] \in PRODUCT_STATUSES \cup {"gone"}
  BY ItemsAre DEF ServerTypes, Rows
<1>2. \A i \in Categories \cup Codes \cup Sections : rows'[i] = rows[i]
  BY ItemsAre, RowsApart
<1>3. rows' \in Rows
  BY <1>1, <1>2 DEF ServerTypes, Rows
<1>4. \A k \in Categories : Filed(k)' \subseteq Filed(k)
  BY ItemsAre DEF Filed
<1>5. \A p \in Ordered : rows'[p] # "gone"
  BY OrderedAssumption, ItemsAre DEF ServerTypes, PRODUCT_STATUSES
<1> QED BY <1>2, <1>3, <1>4, <1>5 DEF ServerTypes

LEMMA UpdateStatusTypes ==
  ASSUME TypeInv, NEW c \in calls, c.phase = "sent", updateStatus(c)
  PROVE  ServerTypes' /\ \E d : Handled(c, d)
<1>1. WellMade(c) /\ CallTypes /\ ServerTypes
  BY DEF TypeInv, CallTypes
<1>2. c.ids \subseteq Products /\ c.to \in PRODUCT_STATUSES /\ c.op = "status"
  BY <1>1, TablesOfCalls, OfTables DEF WellMade, updateStatus, ProductOps
<1>3. PICK p \in c.ids : IF rows[p] # "gone" THEN rows' = [rows EXCEPT ![p] = c.to] /\ Done(c)
                                            ELSE Refuse(c) /\ UNCHANGED rows
  BY DEF updateStatus
<1>4. CASE rows[p] # "gone"
  <2>1. /\ rows' = [rows EXCEPT ![p] = c.to] /\ rows \in [Items -> Held] /\ p \in Items
        /\ c.to \in Held
    BY <1>1, <1>2, <1>3, <1>4, ItemsAre DEF ServerTypes, Rows, Held
  <2>2. ServerTypes'
    <3>1. PICK ids \in SUBSET Products : ids = {p}
      BY <1>2
    <3>2. rows' \in [Items -> Held] /\ \A i \in Items \ ids : rows'[i] = rows[i]
      BY <2>1, <3>1
    <3>3. \A q \in ids : rows'[q] \in PRODUCT_STATUSES /\ rows[q] # "gone"
      BY <1>2, <1>4, <2>1, <3>1
    <3> QED
      BY <1>1, <3>2, <3>3, ProductWriteTypes
         DEF updateStatus, handlerUnchanged, ServerTypes
  <2>3. \A i \in Items : rows'[i] # rows[i] => i \in c.ids
    BY <2>1
  <2> QED BY <1>1, <1>2, <1>3, <1>4, <2>2, <2>3, DoneIsHandled DEF updateStatus
<1>5. CASE rows[p] = "gone"
  BY <1>1, <1>3, <1>5, RefusedIsHandled, ServerSame DEF updateStatus, handlerUnchanged, server
<1> QED BY <1>4, <1>5

LEMMA WithoutTypes ==
  ASSUME ServerTypes, NEW ids \in SUBSET (Products \ Ordered), WithoutProducts(ids),
         UNCHANGED <<home, stored>>
  PROVE  ServerTypes'
<1>1. rows \in [Items -> Held] /\ "gone" \in Held
  BY DEF ServerTypes, Rows, Held
<1>2. rows' \in [Items -> Held]
  BY <1>1 DEF WithoutProducts
<1>3. \A i \in Items \ ids : rows'[i] = rows[i]
  BY <1>1 DEF WithoutProducts
<1>4. \A p \in ids : rows'[p] = "gone"
  BY ItemsAre DEF WithoutProducts
<1>5. pictures' \in [Products -> SUBSET Files] /\ \A p \in Products : pictures'[p] \subseteq stored
  BY DEF WithoutProducts, ServerTypes
<1> QED BY <1>2, <1>3, <1>4, <1>5, ProductWriteTypes

LEMMA RemoveTypes ==
  ASSUME TypeInv, NEW c \in calls, c.phase = "sent", remove(c)
  PROVE  ServerTypes' /\ \E d : Handled(c, d)
<1>1. WellMade(c) /\ CallTypes /\ ServerTypes
  BY DEF TypeInv, CallTypes
<1>2. CASE c.ids \subseteq AllProducts \ Ordered
  <2>1. c.ids \in SUBSET (Products \ Ordered) /\ WithoutProducts(c.ids) /\ Done(c)
    BY <1>2 DEF remove, AllProducts
  <2>2. ServerTypes'
    BY <1>1, <2>1, WithoutTypes DEF remove, handlerUnchanged
  <2>3. \A i \in Items : rows'[i] # rows[i] => i \in c.ids
    BY <2>1 DEF WithoutProducts
  <2> QED BY <1>1, <2>1, <2>2, <2>3, DoneIsHandled DEF remove
<1>3. CASE ~(c.ids \subseteq AllProducts \ Ordered)
  BY <1>1, <1>3, RefusedIsHandled, ServerSame DEF remove, handlerUnchanged, server
<1> QED BY <1>2, <1>3

LEMMA BulkTypes ==
  ASSUME TypeInv, NEW c \in calls, c.phase = "sent", bulkAction(c)
  PROVE  ServerTypes' /\ \E d : Handled(c, d)
<1>1. WellMade(c) /\ CallTypes /\ ServerTypes
  BY DEF TypeInv, CallTypes
<1>2. c.ids \subseteq Products
  BY <1>1, TablesOfCalls, OfTables DEF WellMade, bulkAction, ProductOps
<1>3. CASE c.to = "delete" /\ c.ids \cap Ordered # {}
  <2>1. Refuse(c) /\ UNCHANGED <<rows, pictures>>
    BY <1>3 DEF bulkAction
  <2> QED BY <1>1, <2>1, RefusedIsHandled, ServerSame DEF bulkAction, handlerUnchanged, server
<1>4. CASE c.to = "delete" /\ c.ids \cap Ordered = {}
  <2>1. WithoutProducts(c.ids) /\ Done(c)
    BY <1>4 DEF bulkAction
  <2>2. c.ids \in SUBSET (Products \ Ordered)
    BY <1>2, <1>4
  <2>3. ServerTypes'
    BY <1>1, <2>1, <2>2, WithoutTypes DEF bulkAction, handlerUnchanged
  <2>4. \A i \in Items : rows'[i] # rows[i] => i \in c.ids
    BY <2>1 DEF WithoutProducts
  <2> QED BY <1>1, <2>1, <2>3, <2>4, DoneIsHandled DEF bulkAction
<1>5. CASE c.to # "delete"
  <2>1. /\ rows' = [i \in Items |-> IF i \notin c.ids \cap AllProducts THEN rows[i]
                                    ELSE IF c.to = "publish" THEN "ACTIVE" ELSE "DRAFT"]
        /\ Done(c) /\ UNCHANGED pictures
    BY <1>5 DEF bulkAction
  <2>2. rows \in [Items -> Held] /\ {"ACTIVE", "DRAFT"} \subseteq Held
    BY <1>1 DEF ServerTypes, Rows, Held, PRODUCT_STATUSES
  <2>3. rows' \in [Items -> Held]
    BY <2>1, <2>2
  <2>4. \A i \in Items \ (c.ids \cap AllProducts) : rows'[i] = rows[i]
    BY <2>1
  <2>5. \A p \in c.ids \cap AllProducts : rows'[p] \in PRODUCT_STATUSES /\ rows[p] # "gone"
    BY <1>2, <2>1, ItemsAre DEF PRODUCT_STATUSES, AllProducts
  <2>6. c.ids \cap AllProducts \in SUBSET Products
    BY <1>2
  <2>7. ServerTypes'
    BY <1>1, <2>1, <2>3, <2>4, <2>5, <2>6, ProductWriteTypes
       DEF bulkAction, handlerUnchanged, ServerTypes
  <2>8. \A i \in Items : rows'[i] # rows[i] => i \in c.ids
    BY <2>4
  <2> QED BY <1>1, <2>1, <2>7, <2>8, DoneIsHandled DEF bulkAction
<1> QED BY <1>3, <1>4, <1>5

LEMMA CreateTypes ==
  ASSUME TypeInv, NEW c \in calls, c.phase = "sent", create(c)
  PROVE  ServerTypes' /\ \E d : Handled(c, d)
<1>1. WellMade(c) /\ CallTypes /\ ServerTypes
  BY DEF TypeInv, CallTypes
<1>2. c.ids \subseteq Products
  BY <1>1, TablesOfCalls, OfTables DEF WellMade, create, ProductOps
<1>3. c.files \subseteq stored /\ c.files \subseteq Files /\ c.category \in Categories
  BY <1>1 DEF WellMade, Calls
<1>4. CASE c.ids \cap AllProducts = {} /\ c.category \in AllCategories
  <2>1. /\ rows' = [i \in Items |-> IF i \in c.ids THEN "ACTIVE" ELSE rows[i]]
        /\ home' = [p \in Products |-> IF p \in c.ids THEN c.category ELSE home[p]]
        /\ pictures' = [p \in Products |-> IF p \in c.ids THEN c.files ELSE pictures[p]]
        /\ Done(c) /\ stored' = stored
    BY <1>4 DEF create, handlerUnchanged
  <2>2. \A i \in Categories \cup Codes \cup Sections : rows'[i] = rows[i]
    BY <1>2, <2>1, ItemsAre, RowsApart
  <2>3. \A p \in Products : rows'[p] = (IF p \in c.ids THEN "ACTIVE" ELSE rows[p])
    BY <2>1, ItemsAre
  <2>4. rows' \in [Items -> Held]
    BY <1>1, <2>1 DEF ServerTypes, Rows, Held, PRODUCT_STATUSES
  <2>5. rows' \in Rows
    BY <1>1, <2>2, <2>3, <2>4 DEF ServerTypes, Rows, PRODUCT_STATUSES
  <2>6. rows[c.category] = "here"
    BY <1>1, <1>4 DEF ServerTypes, Rows, AllCategories
  <2>7. \A k \in Categories : Filed(k)' # {} => rows'[k] = "here"
    <3>1. \A k \in Categories \ {c.category} : Filed(k)' \subseteq Filed(k)
      BY <2>1, <2>3 DEF Filed
    <3> QED BY <1>1, <1>3, <2>2, <2>6, <3>1 DEF ServerTypes
  <2>8. home' \in [Products -> Categories] /\ pictures' \in [Products -> SUBSET Files]
        /\ \A p \in Products : pictures'[p] \subseteq stored'
    BY <1>1, <1>3, <2>1 DEF ServerTypes
  <2>9. \A p \in Ordered : rows'[p] # "gone"
    BY <1>1, <2>3, OrderedAssumption DEF ServerTypes
  <2>10. ServerTypes'
    BY <1>1, <2>1, <2>5, <2>7, <2>8, <2>9 DEF ServerTypes
  <2>11. \A i \in Items : rows'[i] # rows[i] => i \in c.ids
    BY <2>1
  <2> QED BY <1>1, <2>1, <2>10, <2>11, DoneIsHandled DEF create
<1>5. CASE ~(c.ids \cap AllProducts = {} /\ c.category \in AllCategories)
  BY <1>1, <1>5, RefusedIsHandled, ServerSame DEF create, handlerUnchanged, server
<1> QED BY <1>4, <1>5

LEMMA UpdateTypes ==
  ASSUME TypeInv, NEW c \in calls, c.phase = "sent", update(c)
  PROVE  ServerTypes' /\ \E d : Handled(c, d)
<1>1. WellMade(c) /\ CallTypes /\ ServerTypes
  BY DEF TypeInv, CallTypes
<1>2. c.files \subseteq stored /\ c.files \subseteq Files /\ c.category \in Categories
  BY <1>1 DEF WellMade, Calls
<1>3. CASE c.ids \subseteq AllProducts /\ c.category \in AllCategories
  <2>1. /\ home' = [p \in Products |-> IF p \in c.ids THEN c.category ELSE home[p]]
        /\ pictures' = [p \in Products |-> IF p \in c.ids THEN c.files ELSE pictures[p]]
        /\ Done(c) /\ UNCHANGED <<rows, stored>>
    BY <1>3 DEF update, handlerUnchanged
  <2>2. rows[c.category] = "here"
    BY <1>1, <1>3 DEF ServerTypes, Rows, AllCategories
  <2>3. \A k \in Categories : Filed(k)' # {} => rows'[k] = "here"
    <3>1. \A k \in Categories \ {c.category} : Filed(k)' \subseteq Filed(k)
      BY <2>1 DEF Filed
    <3> QED BY <1>1, <1>2, <2>1, <2>2, <3>1 DEF ServerTypes
  <2>4. home' \in [Products -> Categories] /\ pictures' \in [Products -> SUBSET Files]
        /\ \A p \in Products : pictures'[p] \subseteq stored'
    BY <1>1, <1>2, <2>1 DEF ServerTypes
  <2>5. ServerTypes'
    BY <1>1, <2>1, <2>3, <2>4 DEF ServerTypes
  <2> QED BY <1>1, <2>1, <2>5, DoneIsHandled DEF update
<1>4. CASE ~(c.ids \subseteq AllProducts /\ c.category \in AllCategories)
  BY <1>1, <1>4, RefusedIsHandled, ServerSame DEF update, handlerUnchanged, server
<1> QED BY <1>3, <1>4

(* A handler that writes rows of other tables than the products.           *)
LEMMA OtherWriteTypes ==
  ASSUME ServerTypes, rows' \in [Items -> Held],
         \A p \in Products : rows'[p] = rows[p],
         \A k \in Categories : \/ rows'[k] = rows[k] \/ rows'[k] = "here"
                               \/ rows'[k] = "gone" /\ Filed(k) = {},
         \A d \in Codes : rows'[d] = rows[d] \/ rows'[d] \in {"on", "off", "deleted"},
         \A s \in Sections : rows'[s] = rows[s] \/ rows'[s] \in {"old", "new"},
         UNCHANGED <<home, pictures, stored>>
  PROVE  ServerTypes'
<1>1. rows' \in Rows
  BY DEF ServerTypes, Rows
<1>2. \A k \in Categories : Filed(k)' = Filed(k)
  BY DEF Filed
<1>3. \A k \in Categories : Filed(k)' # {} => rows'[k] = "here"
  BY <1>2 DEF ServerTypes
<1>4. \A p \in Ordered : rows'[p] # "gone"
  BY OrderedAssumption DEF ServerTypes
<1> QED BY <1>1, <1>3, <1>4 DEF ServerTypes

LEMMA CategoryHandlerTypes ==
  ASSUME TypeInv, NEW c \in calls, c.phase = "sent", AdminCategoriesController(c)
  PROVE  ServerTypes' /\ \E d : Handled(c, d)
<1>1. WellMade(c) /\ CallTypes /\ ServerTypes /\ c.op \in CategoryOps
  BY DEF TypeInv, CallTypes, AdminCategoriesController, createCategory, updateCategory,
         removeCategory, CategoryOps
<1>2. c.ids \subseteq Categories /\ c.op # "saveSection"
  BY <1>1, TablesOfCalls, OfTables DEF WellMade, CategoryOps
<1>3. rows \in [Items -> Held] /\ "gone" \in Held /\ "here" \in Held
  BY <1>1 DEF ServerTypes, Rows, Held
<1>4. UNCHANGED <<home, pictures>> /\ handlerUnchanged
  BY DEF AdminCategoriesController, createCategory, updateCategory, removeCategory
<1>5. CASE Refuse(c) /\ UNCHANGED rows
  BY <1>1, <1>4, <1>5, RefusedIsHandled, ServerSame DEF handlerUnchanged, server
<1>6. CASE Done(c) /\ UNCHANGED rows
  BY <1>1, <1>2, <1>4, <1>6, DoneIsHandled, ServerSame DEF handlerUnchanged, server
<1>7. CASE /\ rows' = [i \in Items |-> IF i \in c.ids THEN "here" ELSE rows[i]] /\ Done(c)
  <2>1. rows' \in [Items -> Held] /\ \A i \in Items : rows'[i] # rows[i] => i \in c.ids
    BY <1>3, <1>7
  <2>2. \A i \in Items \ Categories : rows'[i] = rows[i]
    BY <1>2, <2>1
  <2>3. \A i \in Products \cup Codes \cup Sections : rows'[i] = rows[i]
    BY <2>2, ItemsAre, RowsApart
  <2>4. \A k \in Categories : rows'[k] = rows[k] \/ rows'[k] = "here"
    BY <1>7, ItemsAre
  <2>5. ServerTypes'
    BY <1>1, <1>4, <2>1, <2>3, <2>4, OtherWriteTypes DEF handlerUnchanged
  <2> QED BY <1>1, <1>2, <1>4, <1>7, <2>1, <2>5, DoneIsHandled
<1>8. CASE /\ \A k \in c.ids : Filed(k) = {}
           /\ rows' = [i \in Items |-> IF i \in c.ids THEN "gone" ELSE rows[i]] /\ Done(c)
  <2>1. rows' \in [Items -> Held] /\ \A i \in Items : rows'[i] # rows[i] => i \in c.ids
    BY <1>3, <1>8
  <2>2. \A i \in Items \ Categories : rows'[i] = rows[i]
    BY <1>2, <2>1
  <2>3. \A i \in Products \cup Codes \cup Sections : rows'[i] = rows[i]
    BY <2>2, ItemsAre, RowsApart
  <2>4. \A k \in Categories : rows'[k] = rows[k] \/ (rows'[k] = "gone" /\ Filed(k) = {})
    BY <1>8, ItemsAre
  <2>5. ServerTypes'
    BY <1>1, <1>4, <2>1, <2>3, <2>4, OtherWriteTypes DEF handlerUnchanged
  <2> QED BY <1>1, <1>2, <1>4, <1>8, <2>1, <2>5, DoneIsHandled
<1> QED
  BY <1>5, <1>6, <1>7, <1>8
     DEF AdminCategoriesController, createCategory, updateCategory, removeCategory

LEMMA CodeHandlerTypes ==
  ASSUME TypeInv, NEW c \in calls, c.phase = "sent", AdminDiscountsController(c)
  PROVE  ServerTypes' /\ \E d : Handled(c, d)
<1>1. WellMade(c) /\ CallTypes /\ ServerTypes /\ c.op \in CodeOps
  BY DEF TypeInv, CallTypes, AdminDiscountsController, createDiscount, changeDiscount, CodeOps
<1>2. c.ids \subseteq Codes /\ c.op # "saveSection" /\ c.to \in {"on", "off", "deleted"}
  BY <1>1, TablesOfCalls, OfTables DEF WellMade, CodeOps
<1>3. rows \in [Items -> Held] /\ c.to \in Held
  BY <1>1, <1>2 DEF ServerTypes, Rows, Held
<1>4. UNCHANGED <<home, pictures>> /\ handlerUnchanged
  BY DEF AdminDiscountsController, createDiscount, changeDiscount
<1>5. CASE Refuse(c) /\ UNCHANGED rows
  BY <1>1, <1>4, <1>5, RefusedIsHandled, ServerSame DEF handlerUnchanged, server
<1>6. CASE /\ rows' = [i \in Items |-> IF i \in c.ids THEN c.to ELSE rows[i]] /\ Done(c)
  <2>1. rows' \in [Items -> Held] /\ \A i \in Items : rows'[i] # rows[i] => i \in c.ids
    BY <1>3, <1>6
  <2>2. \A i \in Items \ Codes : rows'[i] = rows[i]
    BY <1>2, <2>1
  <2>3. \A i \in Products \cup Categories \cup Sections : rows'[i] = rows[i]
    BY <2>2, ItemsAre, RowsApart
  <2>4. \A d \in Codes : rows'[d] = rows[d] \/ rows'[d] \in {"on", "off", "deleted"}
    BY <1>2, <1>6, ItemsAre
  <2>5. ServerTypes'
    BY <1>1, <1>4, <2>1, <2>3, <2>4, OtherWriteTypes DEF handlerUnchanged
  <2> QED BY <1>1, <1>2, <1>4, <1>6, <2>1, <2>5, DoneIsHandled
<1> QED BY <1>5, <1>6 DEF AdminDiscountsController, createDiscount, changeDiscount

LEMMA SettingsHandlerTypes ==
  ASSUME TypeInv, NEW c \in calls, c.phase = "sent", updateSettings(c)
  PROVE  ServerTypes' /\ \E d : Handled(c, d)
<1>1. WellMade(c) /\ CallTypes /\ ServerTypes /\ c.op = "saveSection"
  BY DEF TypeInv, CallTypes, updateSettings
<1>2. c.ids \subseteq Sections /\ c.to \in {"old", "new"}
  BY <1>1, TablesOfCalls, OfTables DEF WellMade, SettingsOps
<1>3. rows \in [Items -> Held] /\ c.to \in Held
  BY <1>1, <1>2 DEF ServerTypes, Rows, Held
<1>4. CASE Refuse(c) /\ UNCHANGED rows
  BY <1>1, <1>4, RefusedIsHandled, ServerSame DEF updateSettings, handlerUnchanged, server
<1>5. CASE ~(Refuse(c) /\ UNCHANGED rows)
  <2> DEFINE kept == [i \in Items |-> IF i \in Sections THEN rows'[i] ELSE "gone"]
             d == [c EXCEPT !.phase = "done", !.kept = kept]
  <2>1. rows' = [i \in Items |-> IF i \in c.ids THEN c.to ELSE rows[i]]
        /\ calls' = (calls \ {c}) \cup {d} /\ UNCHANGED <<home, pictures>> /\ handlerUnchanged
    BY <1>5 DEF updateSettings
  <2>2. rows' \in [Items -> Held] /\ \A i \in Items : rows'[i] # rows[i] => i \in c.ids
    BY <1>3, <2>1
  <2>3. kept \in [Items -> Shown] /\ \A i \in Sections : kept[i] = rows'[i]
    BY <2>2, ItemsAre DEF Shown, Held
  <2>4. /\ d \in Calls /\ d.n = c.n /\ d.op = c.op /\ d.ids = c.ids /\ d.to = c.to
        /\ d.files = c.files /\ d.kept = kept /\ d.phase = "done"
    <3>1. c \in Calls
      BY <1>1, CallsAreCalls
    <3> HIDE DEF kept
    <3> QED BY <2>3, <3>1 DEF Calls
  <2>5. \A i \in Items \ Sections : rows'[i] = rows[i]
    BY <1>2, <2>2
  <2>6. \A i \in Products \cup Categories \cup Codes : rows'[i] = rows[i]
    BY <2>5, ItemsAre, RowsApart
  <2>7. \A s \in Sections : rows'[s] = rows[s] \/ rows'[s] \in {"old", "new"}
    BY <1>2, <2>1, ItemsAre
  <2>8. ServerTypes'
    BY <1>1, <2>1, <2>2, <2>6, <2>7, OtherWriteTypes DEF handlerUnchanged
  <2> HIDE DEF d, kept
  <2>9. Handled(c, d)
    BY <1>1, <2>1, <2>2, <2>3, <2>4 DEF Handled, handlerUnchanged
  <2> QED BY <2>8, <2>9
<1> QED BY <1>4, <1>5

LEMMA HandleIsHandled ==
  ASSUME TypeInv, NEW c \in calls, Handle(c)
  PROVE  ServerTypes' /\ \E d : Handled(c, d)
<1>1. c.phase = "sent"
  BY DEF Handle
<1>2. CASE ProductsController(c)
  BY <1>1, <1>2, CreateTypes, UpdateTypes, RemoveTypes DEF ProductsController
<1>3. CASE AdminProductsController(c)
  BY <1>1, <1>3, UpdateStatusTypes, BulkTypes DEF AdminProductsController
<1>4. CASE AdminSiteSettingsController(c)
  BY <1>1, <1>4, SettingsHandlerTypes DEF AdminSiteSettingsController
<1> QED
  BY <1>1, <1>2, <1>3, <1>4, CategoryHandlerTypes, CodeHandlerTypes DEF Handle

LEMMA HandleTypes ==
  ASSUME TypeInv, NEW c \in calls, Handle(c)
  PROVE  TypeInv'
<1>1. ServerTypes'
  BY HandleIsHandled
<1>2. PICK d : Handled(c, d)
  BY HandleIsHandled
<1>3. QueryTypes' /\ EditorTypes'
  BY <1>2, QueriesSame, EditorSame DEF TypeInv, Handled
<1>4. CallTypes'
  BY <1>2, HandledTypes DEF TypeInv
<1> QED BY <1>1, <1>3, <1>4 DEF TypeInv

(***************************************************************************)
(* Queries and answers.                                                    *)
(***************************************************************************)
LEMMA FetchTypes ==
  ASSUME TypeInv, NEW t \in Tables, FetchRead(t) \/ FetchArrives(t) \/ FetchFails(t)
  PROVE  TypeInv'
<1>1. QueryTypes /\ CallTypes
  BY DEF TypeInv
<1>2. Of(t) \subseteq Items
  BY ItemsOfTables
<1>3. UNCHANGED <<server, page, selected, editor, calls, requests, overlapped>>
  BY DEF FetchRead, FetchArrives, FetchFails
<1>4. ServerTypes' /\ EditorTypes'
  BY <1>3, ServerSame, EditorSame DEF TypeInv, server
<1>5. failures' \in 0..MaxFailures
  BY <1>1, BoundsAssumption DEF FetchRead, FetchArrives, FetchFails, CallTypes
<1>6. CallTypes'
  BY <1>1, <1>3, <1>5, CallsSame, BoundsAssumption DEF CountersGo, CallTypes, server
<1>7. QueryTypes'
  <2>1. CASE FetchRead(t)
    <3>1. \A i \in Items : Listed(i) \in Shown
      BY ListedShown DEF TypeInv, ServerTypes
    <3>2. fetched' \in [Items -> Shown]
      BY <1>1, <2>1, <3>1 DEF FetchRead, QueryTypes
    <3> QED BY <1>1, <2>1, <3>2 DEF FetchRead, QueryTypes
  <2>2. CASE FetchArrives(t)
    <3>1. Reset(t) \in [Items -> Shown]
      BY <1>1, ResetShown
    <3>2. cache' \in [Items -> Shown]
      BY <1>1, <2>2 DEF FetchArrives, QueryTypes
    <3> QED BY <1>1, <2>2, <3>1, <3>2 DEF FetchArrives, QueryTypes
  <2>3. CASE FetchFails(t)
    <3>1. Reset(t) \in [Items -> Shown]
      BY <1>1, ResetShown
    <3> QED BY <1>1, <1>2, <2>3, <3>1 DEF FetchFails, QueryTypes
  <2> QED BY <2>1, <2>2, <2>3
<1> QED BY <1>4, <1>6, <1>7 DEF TypeInv

LEMMA NumbersTyped ==
  ASSUME CallTypes, NEW cs \in SUBSET calls
  PROVE  NumbersOf(cs) \subseteq 1..MaxRequests
  BY DEF CallTypes, WellMade, Calls, NumbersOf

LEMMA OpenPageTypes ==
  ASSUME TypeInv, NEW t \in Tables, OpenPage(t)
  PROVE  TypeInv'
<1>1. Show(t, calls) /\ Mount(t)
  BY DEF OpenPage
<1>2. EditorTypes' /\ Kept(calls)
  BY <1>1, ShowTypes DEF TypeInv
<1>3. /\ fetch' \in [Tables -> {"none", "asked", "read"}]
      /\ requests' \in 0..MaxRequests /\ requests <= requests'
  BY <1>1, MountTypes
<1>4. NumbersOf(InFlight(t)) \subseteq 1..MaxRequests
  BY NumbersTyped DEF TypeInv, InFlight
<1>5. CountersGo
  BY <1>3, <1>4 DEF OpenPage, CountersGo, TypeInv, CallTypes, server
<1>6. CallTypes'
  BY <1>2, <1>5, KeptTypes DEF TypeInv
<1>7. ServerTypes' /\ QueryTypes'
  BY <1>3, ServerSame DEF TypeInv, OpenPage, QueryTypes
<1> QED BY <1>2, <1>6, <1>7 DEF TypeInv

(* The end of a call on a page that stays open. *)
LEMMA EndTypes ==
  ASSUME TypeInv, NEW c \in calls, Forget(c), QueryTypes', clientUnchanged,
         failures' \in 0..MaxFailures, selected' \subseteq Products, UNCHANGED <<page, editor>>
  PROVE  TypeInv'
<1>1. ServerTypes'
  BY ServerSame DEF TypeInv, clientUnchanged
<1>2. EditorTypes'
  BY DEF TypeInv, EditorTypes, clientUnchanged, server, editor
<1>3. Kept(calls \ {c})
  BY DEF Kept, Forget
<1>4. CountersGo
  BY BoundsAssumption DEF CountersGo, clientUnchanged, server, TypeInv, CallTypes
<1>5. CallTypes'
  BY <1>3, <1>4, KeptTypes DEF TypeInv
<1> QED BY <1>1, <1>2, <1>5 DEF TypeInv

LEMMA ErrsTypes ==
  ASSUME TypeInv, NEW c, Errs(c)
  PROVE  failures' \in 0..MaxFailures
  BY BoundsAssumption DEF TypeInv, CallTypes, Errs

LEMMA FailuresSame ==
  ASSUME TypeInv, UNCHANGED failures
  PROVE  failures' \in 0..MaxFailures
  BY DEF TypeInv, CallTypes

LEMMA RestoreTypes ==
  ASSUME TypeInv, NEW c \in calls, restoreProductsQueries(c)
  PROVE  cache' \in [Items -> Shown]
<1>1. c.kept \in [Items -> Shown]
  BY CallsAreCalls DEF TypeInv, Calls
<1> QED BY <1>1 DEF restoreProductsQueries, TypeInv, QueryTypes

(* A call ends, and its table is read again.                               *)
ReadsAgain(c) ==
  /\ Forget(c)
  /\ Invalidate(TableOfCall(c), {})
  /\ TableOfCall(c) # "products" => cache' = cache
  /\ \A i \in Items \ Products : cache'[i] = cache[i]
  /\ cache' \in [Items -> Shown]
  /\ selected' \subseteq Products
  /\ UNCHANGED <<page, editor>>
  /\ clientUnchanged
  /\ failures' \in 0..MaxFailures

LEMMA ReadsAgainTypes ==
  ASSUME TypeInv, NEW c \in calls, ReadsAgain(c)
  PROVE  TypeInv'
<1>1. TableOfCall(c) \in Tables
  BY CallsAreCalls, TableOfACall DEF TypeInv
<1>2. QueryTypes'
  BY <1>1, InvalidateTypes DEF ReadsAgain, TypeInv
<1> QED BY <1>2, EndTypes DEF ReadsAgain

(* A call ends in a message; what may have come of it is missed.           *)
Tells(c) ==
  /\ Forget(c)
  /\ c.op \notin {"status", "delete", "save"}
  /\ missed' = missed \cup Lost(c)
  /\ UNCHANGED <<queries, page, selected, editor>>
  /\ clientUnchanged
  /\ failures' \in 0..MaxFailures

LEMMA TellsTypes ==
  ASSUME TypeInv, NEW c \in calls, Tells(c)
  PROVE  TypeInv'
<1>1. c \in Calls
  BY CallsAreCalls DEF TypeInv
<1>2. Lost(c) \subseteq Items
  BY <1>1 DEF Lost, Calls
<1>3. QueryTypes'
  BY <1>2 DEF Tells, TypeInv, QueryTypes, queries
<1>4. selected' \subseteq Products
  BY DEF Tells, TypeInv, EditorTypes
<1> QED BY <1>3, <1>4, EndTypes DEF Tells

LEMMA ToastTells ==
  ASSUME TypeInv, NEW c, Toast(c), clientUnchanged, c.op \notin {"status", "delete", "save"}
  PROVE  Tells(c)
  BY ErrsTypes DEF Toast, Tells

LEMMA ChangeEnds ==
  ASSUME TypeInv, NEW c \in calls,
         ChangeDone(c) \/ ChangeFails(c) \/ BulkDone(c) \/ SaveFails(c)
  PROVE  ReadsAgain(c)
<1>1. c.op \in ProductOps
  BY DEF ProductOps, ChangeDone, ChangeFails, BulkDone, SaveFails
<1>2. TableOfCall(c) = "products"
  BY <1>1, TablesOfCalls
<1>3. cache \in [Items -> Shown] /\ selected \subseteq Products
  BY DEF TypeInv, QueryTypes, EditorTypes
<1>4. CASE ChangeDone(c) \/ BulkDone(c)
  BY <1>2, <1>3, <1>4, FailuresSame DEF ChangeDone, BulkDone, ReadsAgain
<1>5. CASE ChangeFails(c) \/ SaveFails(c)
  <2>1. restoreProductsQueries(c) /\ Errs(c)
    BY <1>5 DEF ChangeFails, SaveFails
  <2>2. \A i \in Items \ Products : cache'[i] = cache[i]
    BY <2>1 DEF restoreProductsQueries
  <2> QED BY <1>2, <1>3, <1>5, <2>1, <2>2, ErrsTypes, RestoreTypes DEF ChangeFails, SaveFails,
     ReadsAgain
<1> QED BY <1>4, <1>5

LEMMA OthersEnd ==
  ASSUME TypeInv, NEW c \in calls, CategoryAnswer(c) \/ CodeAnswer(c)
  PROVE  ReadsAgain(c) \/ Tells(c)
<1>1. c.op \notin {"status", "delete", "save"}
  BY DEF CategoryAnswer, CodeAnswer, CategoryOps, CodeOps
<1>2. clientUnchanged
  BY DEF CategoryAnswer, CodeAnswer
<1>3. CASE Toast(c)
  BY <1>1, <1>2, <1>3, ToastTells
<1>4. CASE ReadAgain(c)
  <2>1. cache \in [Items -> Shown] /\ selected \subseteq Products
    BY DEF TypeInv, QueryTypes, EditorTypes
  <2> QED BY <1>2, <1>4, <2>1, FailuresSame DEF ReadAgain, ReadsAgain
<1> QED BY <1>3, <1>4 DEF CategoryAnswer, CodeAnswer

LEMMA MessagesEnd ==
  ASSUME TypeInv, NEW c \in calls, BulkFails(c) \/ CreateFails(c)
  PROVE  Tells(c)
  BY ToastTells DEF BulkFails, CreateFails

(* The settings take the answer to a save. *)
TakesAnswer(c) ==
  /\ c.op = "saveSection" /\ c.phase = "done"
  /\ Forget(c)
  /\ cache' = [i \in Items |-> IF i \in Sections THEN c.kept[i] ELSE cache[i]]
  /\ stale' = stale \ {"settings"}
  /\ missed' = missed \cup
       (IF fetch["settings"] = "read" \/ c.n \in overlapped THEN Sections ELSE {})
  /\ UNCHANGED <<fetch, fetched, page, selected, editor, failures>>
  /\ clientUnchanged

LEMMA SettingsEnd ==
  ASSUME TypeInv, NEW c \in calls, SettingsAnswer(c)
  PROVE  Tells(c) \/ TakesAnswer(c)
  BY ToastTells DEF SettingsAnswer, TakesAnswer

LEMMA TakesAnswerTypes ==
  ASSUME TypeInv, NEW c \in calls, TakesAnswer(c)
  PROVE  TypeInv'
<1>1. c.kept \in [Items -> Shown]
  BY CallsAreCalls DEF TypeInv, Calls
<1>2. cache' \in [Items -> Shown] /\ missed' \subseteq Items
  BY <1>1, ItemsAre DEF TakesAnswer, TypeInv, QueryTypes
<1>3. QueryTypes'
  BY <1>2 DEF TakesAnswer, TypeInv, QueryTypes
<1>4. selected' \subseteq Products
  BY DEF TakesAnswer, TypeInv, EditorTypes
<1> QED BY <1>3, <1>4, FailuresSame, EndTypes DEF TakesAnswer

(* The answers that lead back to the products table. *)
LEMMA LeadsBackTypes ==
  ASSUME TypeInv, NEW c \in calls, SaveDone(c) \/ CreateDone(c)
  PROVE  TypeInv'
<1>0. "products" \in Tables
  BY DEF Tables
<1>1. Show("products", calls \ {c})
  BY DEF SaveDone, CreateDone
<1>2. EditorTypes' /\ Kept(calls \ {c})
  BY <1>0, <1>1, ShowTypes DEF TypeInv
<1>3. QueryTypes /\ c.ids \subseteq Items /\ Products \subseteq Items
      /\ Reset("products") \in [Items -> Shown]
  BY CallsAreCalls, ItemsAre, ResetShown DEF TypeInv, Calls
<1>4. CASE SaveDone(c)
  <2>1. CountersGo
    BY <1>4, BoundsAssumption DEF SaveDone, clientUnchanged, CountersGo, server, TypeInv,
       CallTypes
  <2>2. CallTypes'
    BY <1>2, <2>1, KeptTypes DEF TypeInv
  <2>3. QueryTypes'
    BY <1>0, <1>3, <1>4 DEF SaveDone, QueryTypes
  <2>4. ServerTypes'
    BY <1>4, ServerSame DEF SaveDone, clientUnchanged, TypeInv
  <2> QED BY <1>2, <2>2, <2>3, <2>4 DEF TypeInv
<1>5. CASE CreateDone(c)
  <2>1. /\ fetch' \in [Tables -> {"none", "asked", "read"}]
        /\ requests' \in 0..MaxRequests /\ requests <= requests'
    <3>1. CASE Mount("products")
      BY <3>1, MountTypes
    <3>2. CASE UNCHANGED <<fetch, requests>>
      BY <1>3, <3>2, BoundsAssumption DEF QueryTypes, TypeInv, CallTypes
    <3> QED BY <1>5, <3>1, <3>2 DEF CreateDone
  <2>2. CountersGo
    BY <1>5, <2>1 DEF CreateDone, CountersGo, server, TypeInv, CallTypes
  <2>3. CallTypes'
    BY <1>2, <2>2, KeptTypes DEF TypeInv
  <2>4. QueryTypes'
    BY <1>3, <1>5, <2>1 DEF CreateDone, QueryTypes
  <2>5. ServerTypes'
    BY <1>5, ServerSame DEF CreateDone, TypeInv
  <2> QED BY <1>2, <2>3, <2>4, <2>5 DEF TypeInv
<1> QED BY <1>4, <1>5

(***************************************************************************)
(* The steps by what they do to the calls, the queries and the rows.       *)
(***************************************************************************)
Idles == UNCHANGED <<rows, queries, calls, overlapped, missed, page>>

Leaves ==
  /\ page' = "form"
  /\ calls' = {[c EXCEPT !.watched = FALSE] : c \in calls}
  /\ UNCHANGED <<rows, queries, overlapped, missed>>

Ends(c) ==
  \/ ReadsAgain(c) \/ Tells(c) \/ TakesAnswer(c) \/ SaveDone(c) \/ CreateDone(c)

Step ==
  \/ Idles \/ Leaves
  \/ \E c \in Calls : Sends(c) \/ Changes(c)
  \/ \E t \in Tables : OpenPage(t) \/ FetchRead(t) \/ FetchArrives(t) \/ FetchFails(t)
  \/ \E c \in calls : (\E d : Handled(c, d)) \/ Ends(c)

LEMMA AnswerSteps ==
  ASSUME TypeInv, NEW c \in calls, Answer(c)
  PROVE  TypeInv' /\ Ends(c)
<1>1. CASE ChangeDone(c) \/ ChangeFails(c) \/ BulkDone(c) \/ SaveFails(c)
  BY <1>1, ChangeEnds, ReadsAgainTypes DEF Ends
<1>2. CASE BulkFails(c) \/ CreateFails(c)
  BY <1>2, MessagesEnd, TellsTypes DEF Ends
<1>3. CASE CategoryAnswer(c) \/ CodeAnswer(c)
  BY <1>3, OthersEnd, ReadsAgainTypes, TellsTypes DEF Ends
<1>4. CASE SettingsAnswer(c)
  BY <1>4, SettingsEnd, TellsTypes, TakesAnswerTypes DEF Ends
<1>5. CASE SaveDone(c) \/ CreateDone(c)
  BY <1>5, LeadsBackTypes DEF Ends
<1> QED BY <1>1, <1>2, <1>3, <1>4, <1>5 DEF Answer

LEMMA PageSteps ==
  ASSUME TypeInv, ProductsPage \/ ProductForm
  PROVE  TypeInv' /\ Step
<1>1. CASE (\E p \in Products : toggleProductSelection(p)) \/ toggleSelectAllOnPage \/ ClearSelection
  <2>1. tableUnchanged
    BY <1>1 DEF toggleProductSelection, toggleSelectAllOnPage, ClearSelection
  <2>2. Idles
    BY <2>1 DEF tableUnchanged, Idles, server
  <2> QED BY <1>1, <2>2, SelectingTypes DEF Step
<1>2. ASSUME NEW p \in Products, DeleteProduct(p) \/ \E s \in PRODUCT_STATUSES : ChangeStatus(p, s)
      PROVE TypeInv' /\ Step
  BY <1>2, ChangeStatusTypes, DeleteProductTypes DEF Step
<1>3. ASSUME NEW p \in Products, OpenEditForm(p) \/ OpenNewForm(p)
      PROVE TypeInv' /\ Step
  <2>1. Leaves
    BY <1>3 DEF OpenEditForm, OpenNewForm, OpenForm, Leaves, server
  <2> QED BY <1>3, <2>1, OpeningTypes DEF Step
<1>4. ASSUME NEW action \in {"publish", "draft", "delete"}, BulkAction(action)
      PROVE TypeInv' /\ Step
  BY <1>4, BulkActionTypes DEF Step
<1>5. ASSUME NEW f \in Files,
             \/ \E valid \in BOOLEAN : addFiles(f, valid)
             \/ generatePresignedUrl(f) \/ uploadFileToS3(f) \/ uploadFile(f) \/ handleRemoveImage(f)
      PROVE TypeInv' /\ Step
  <2>1. Idles
    BY <1>5 DEF addFiles, generatePresignedUrl, uploadFileToS3, uploadFile, handleRemoveImage,
                formUnchanged, Idles, server
  <2> QED BY <1>5, <2>1, UploadingTypes DEF Step
<1>6. ASSUME NEW category \in Categories, SubmitForm(category)
      PROVE TypeInv' /\ Step
  BY <1>6, SubmitFormTypes DEF Step
<1>7. CASE ProductsPage
  BY <1>7, <1>1, <1>2, <1>3, <1>4 DEF ProductsPage
<1>8. CASE ProductForm
  BY <1>8, <1>5, <1>6 DEF ProductForm
<1> QED BY <1>7, <1>8

LEMMA TypeInit == Init => TypeInv
<1> SUFFICES ASSUME Init PROVE TypeInv
  OBVIOUS
<1>1. \A p \in Products : rows[p] = "ACTIVE"
  BY ItemsAre DEF Init
<1>2. \A k \in Categories : rows[k] = "here"
  BY ItemsAre, RowsApart DEF Init
<1>3. \A d \in Codes : rows[d] = "on"
  BY ItemsAre, RowsApart DEF Init
<1>4. \A s \in Sections : rows[s] = "old"
  BY ItemsAre, RowsApart DEF Init
<1>5. rows \in [Items -> Held]
  BY DEF Init, Held, PRODUCT_STATUSES
<1>6. rows \in Rows
  BY <1>1, <1>2, <1>3, <1>4, <1>5 DEF Rows, PRODUCT_STATUSES
<1>7. ServerTypes
  BY <1>1, <1>2, <1>6, OrderedAssumption DEF Init, ServerTypes
<1>8. QueryTypes
  BY <1>6, ListedShown, NoRowsShown DEF Init, QueryTypes
<1>9. EditorTypes
  BY DEF Init, EditorTypes, NoUploads, Tables
<1>10. CallTypes
  BY BoundsAssumption DEF Init, CallTypes
<1> QED BY <1>7, <1>8, <1>9, <1>10 DEF TypeInv

LEMMA TypeNext ==
  ASSUME TypeInv, [Next]_vars
  PROVE  TypeInv' /\ Step
<1>1. CASE UNCHANGED vars
  <2>1. ServerTypes' /\ QueryTypes' /\ EditorTypes'
    BY <1>1, ServerSame, QueriesSame, EditorSame DEF TypeInv, vars, server
  <2>2. CallTypes'
    BY <1>1, CountersSame, CallsSame DEF TypeInv, vars, server
  <2>3. Step
    BY <1>1 DEF vars, Step, Idles, server
  <2> QED BY <2>1, <2>2, <2>3 DEF TypeInv
<1>2. ASSUME NEW t \in Tables, OpenPage(t) \/ FetchRead(t) \/ FetchArrives(t) \/ FetchFails(t)
      PROVE TypeInv' /\ Step
  BY <1>2, OpenPageTypes, FetchTypes DEF Step
<1>3. CASE OtherPages
  BY <1>3, OtherPagesTypes DEF Step
<1>4. ASSUME NEW c \in calls, Handle(c) \/ Answer(c)
      PROVE TypeInv' /\ Step
  BY <1>4, HandleTypes, HandleIsHandled, AnswerSteps DEF Step
<1> QED BY <1>1, <1>2, <1>3, <1>4, PageSteps DEF Next

(* The rows of the back office keep their shape: every product has a       *)
(* category that is there and pictures that were uploaded, a product with  *)
(* orders is never deleted, and every call is about rows of its own table. *)
THEOREM BackOfficeTypes == Spec => []TypeOK
<1>1. TypeInv => TypeOK
  <2> SUFFICES ASSUME TypeInv PROVE TypeOK
    OBVIOUS
  <2>1. calls \subseteq Calls
    BY CallsAreCalls DEF TypeInv
  <2> QED BY <2>1 DEF TypeOK, TypeInv, ServerTypes, QueryTypes, EditorTypes, CallTypes
<1>2. TypeInv /\ [Next]_vars => TypeInv'
  BY TypeNext
<1> QED BY <1>1, <1>2, TypeInit, PTL DEF Spec

(***************************************************************************)
(* Calls about one table overlap.                                          *)
(***************************************************************************)
LEMMA EndsKeeps ==
  ASSUME NEW c \in calls, Ends(c)
  PROVE  Kept(calls \ {c}) /\ UNCHANGED <<rows, overlapped>>
<1>1. CASE ReadsAgain(c) \/ Tells(c) \/ TakesAnswer(c)
  BY <1>1 DEF ReadsAgain, Tells, TakesAnswer, Forget, Kept, clientUnchanged, server
<1>2. CASE SaveDone(c)
  BY <1>2 DEF SaveDone, Show, Kept, clientUnchanged, server
<1>3. CASE CreateDone(c)
  BY <1>3 DEF CreateDone, Show, Kept, server
<1> QED BY <1>1, <1>2, <1>3 DEF Ends

LEMMA KeptCallsInv ==
  ASSUME CallTypes, CallsInv, NEW left \in SUBSET calls, Kept(left), overlapped \subseteq overlapped'
  PROVE  CallsInv'
<1>1. ASSUME NEW d \in calls', NEW e \in calls', d.n = e.n
      PROVE d = e
  <2>1. CASE calls' = left
    BY <1>1, <2>1 DEF CallsInv
  <2>2. CASE calls' = {[c EXCEPT !.watched = FALSE] : c \in left}
    <3>1. PICK b, c \in left : /\ d = [b EXCEPT !.watched = FALSE]
                               /\ e = [c EXCEPT !.watched = FALSE]
      BY <2>2
    <3>2. Alike(d, b) /\ Alike(e, c)
      BY <3>1, Unwatched, CallsAreCalls
    <3>3. b = c
      BY <1>1, <3>2 DEF CallsInv, Alike
    <3> QED BY <3>1, <3>3
  <2> QED BY <2>1, <2>2 DEF Kept
<1>2. ASSUME NEW d \in calls', NEW e \in calls', d # e, TableOfCall(d) = TableOfCall(e)
      PROVE d.n \in overlapped'
  <2>1. d.n # e.n
    BY <1>1, <1>2
  <2>2. PICK b, c \in left : Alike(d, b) /\ Alike(e, c)
    BY KeptBack
  <2>3. b # c /\ TableOfCall(b) = TableOfCall(c) /\ b.n = d.n
    BY <1>2, <2>1, <2>2, AlikeTables DEF Alike
  <2> QED BY <2>3 DEF CallsInv
<1> QED BY <1>1, <1>2 DEF CallsInv

LEMMA SendCallsInv ==
  ASSUME CallTypes, CallsInv, NEW c \in Calls, Send(c), c.n = requests + 1
  PROVE  CallsInv'
<1>1. \A d \in calls : d.n # c.n
  BY BoundsAssumption DEF CallTypes, WellMade
<1>2. calls' = calls \cup {c} /\ overlapped \subseteq overlapped'
  BY DEF Send
<1>3. ASSUME NEW d \in calls, TableOfCall(d) = TableOfCall(c)
      PROVE d.n \in overlapped' /\ c.n \in overlapped'
  BY <1>3 DEF Send, InFlight, NumbersOf
<1> QED BY <1>1, <1>2, <1>3 DEF CallsInv

LEMMA HandledCallsInv ==
  ASSUME CallTypes, CallsInv, NEW c, NEW d, Handled(c, d)
  PROVE  CallsInv'
<1>1. TableOfCall(d) = TableOfCall(c) /\ d.n = c.n /\ c \in calls
  BY DEF Handled, TableOfCall
<1>2. ASSUME NEW e \in calls', e # d
      PROVE e \in calls /\ e # c
  BY <1>2 DEF Handled
<1>3. overlapped' = overlapped
  BY DEF Handled
<1> QED BY <1>1, <1>2, <1>3 DEF CallsInv

LEMMA CallsNext ==
  ASSUME TypeInv, CallsInv, Step
  PROVE  CallsInv'
<1>0. CallTypes
  BY DEF TypeInv
<1>1. CASE Idles
  BY <1>1 DEF Idles, CallsInv
<1>2. CASE Leaves
  BY <1>0, <1>2, KeptCallsInv DEF Leaves, Kept
<1>3. ASSUME NEW c \in Calls, Sends(c) \/ Changes(c)
      PROVE CallsInv'
  BY <1>0, <1>3, SendCallsInv DEF Sends, Changes
<1>4. ASSUME NEW t \in Tables, OpenPage(t)
      PROVE CallsInv'
  BY <1>0, <1>4, KeptCallsInv DEF OpenPage, Show, Kept
<1>5. ASSUME NEW t \in Tables, FetchRead(t) \/ FetchArrives(t) \/ FetchFails(t)
      PROVE CallsInv'
  BY <1>5 DEF FetchRead, FetchArrives, FetchFails, CallsInv
<1>6. ASSUME NEW c \in calls, NEW d, Handled(c, d)
      PROVE CallsInv'
  BY <1>0, <1>6, HandledCallsInv
<1>7. ASSUME NEW c \in calls, Ends(c)
      PROVE CallsInv'
  BY <1>0, <1>7, EndsKeeps, KeptCallsInv
<1> QED BY <1>1, <1>2, <1>3, <1>4, <1>5, <1>6, <1>7 DEF Step

(***************************************************************************)
(* What the admin has chosen.                                              *)
(***************************************************************************)
Choices == {c \in calls : c.op \in {"status", "delete"}}

LEMMA ChoicesAreOfProducts ==
  ASSUME CallTypes, NEW c \in Choices
  PROVE  TableOfCall(c) = "products" /\ c.ids \subseteq Products
<1>1. c.op \in ProductOps /\ WellMade(c)
  BY DEF Choices, ProductOps, CallTypes
<1>2. TableOfCall(c) = "products"
  BY <1>1, TablesOfCalls
<1> QED BY <1>1, <1>2, OfTables DEF WellMade

(* A choice that is still waited for was one before. *)
ChoicesKept ==
  \A d \in Choices' : d.n \in overlapped' \/
    \E c \in Choices : d.n = c.n /\ d.op = c.op /\ d.ids = c.ids /\ d.to = c.to /\ c.n \notin overlapped

LEMMA KeptChoices ==
  ASSUME CallTypes, NEW left \in SUBSET calls, Kept(left), overlapped \subseteq overlapped'
  PROVE  ChoicesKept
<1>1. ASSUME NEW d \in Choices', d.n \notin overlapped'
      PROVE \E c \in Choices : d.n = c.n /\ d.op = c.op /\ d.ids = c.ids /\ d.to = c.to
                               /\ c.n \notin overlapped
  <2>1. d \in calls'
    BY DEF Choices
  <2>2. PICK c \in left : Alike(d, c)
    BY <2>1, KeptBack
  <2> QED BY <1>1, <2>2 DEF Choices, Alike
<1> QED BY <1>1 DEF ChoicesKept

(* A query of the products that has been noted stays noted.                *)
LEMMA ChoiceStays ==
  ASSUME ChoiceInv, ChoicesKept, fetch'["products"] # "none" => fetch["products"] # "none",
         \A c \in Choices : c.n \notin overlapped => \A p \in c.ids : cache'[p] = cache[p]
  PROVE  ChoiceInv'
<1>1. ASSUME NEW d \in Choices', d.n \notin overlapped'
      PROVE /\ fetch'["products"] = "none"
            /\ \A p \in d.ids : cache'[p] = (IF d.op = "status" THEN d.to ELSE "gone")
  <2>1. PICK c \in Choices : d.op = c.op /\ d.ids = c.ids /\ d.to = c.to /\ c.n \notin overlapped
    BY <1>1 DEF ChoicesKept
  <2>2. fetch["products"] = "none"
    BY <2>1 DEF ChoiceInv, Choices
  <2>3. \A p \in c.ids : cache[p] = (IF c.op = "status" THEN c.to ELSE "gone")
    BY <2>1 DEF ChoiceInv, ChoiceStaysShown, Choices
  <2> QED BY <2>1, <2>2, <2>3
<1> QED BY <1>1 DEF ChoiceInv, ChoiceStaysShown, Choices

(* Whatever happens when every choice is overlapped.                       *)
LEMMA NoChoice ==
  ASSUME \A d \in Choices' : d.n \in overlapped'
  PROVE  ChoiceInv'
  BY DEF ChoiceInv, ChoiceStaysShown, Choices

LEMMA EndChoice ==
  ASSUME CallTypes, CallsInv, NEW c \in calls, Ends(c), TableOfCall(c) = "products"
  PROVE  ChoiceInv'
<1>1. ASSUME NEW d \in Choices'
      PROVE d.n \in overlapped'
  <2>1. d \in calls' /\ Kept(calls \ {c}) /\ overlapped' = overlapped
    BY EndsKeeps DEF Choices
  <2>2. PICK e \in calls \ {c} : Alike(d, e)
    BY <2>1, KeptBack
  <2>3. e \in Choices
    BY <1>1, <2>2 DEF Choices, Alike
  <2>4. TableOfCall(e) = "products"
    BY <2>3, ChoicesAreOfProducts
  <2>5. e.n \in overlapped
    BY <2>4 DEF CallsInv
  <2> QED BY <2>1, <2>2, <2>5 DEF Alike
<1> QED BY <1>1, NoChoice

LEMMA EndsChoice ==
  ASSUME TypeInv, CallsInv, ChoiceInv, NEW c \in calls, Ends(c)
  PROVE  ChoiceInv'
<1>0. CallTypes /\ c \in Calls
  BY CallsAreCalls DEF TypeInv
<1>1. CASE TableOfCall(c) = "products"
  BY <1>0, <1>1, EndChoice
<1>2. CASE TableOfCall(c) # "products"
  <2>1. ChoicesKept
    BY <1>0, EndsKeeps, KeptChoices
  <2>2. c.op \notin ProductOps
    BY <1>2, TablesOfCalls
  <2>3. ~SaveDone(c) /\ ~CreateDone(c)
    BY <2>2 DEF SaveDone, CreateDone, ProductOps
  <2>4. fetch'["products"] # "none" => fetch["products"] # "none"
    <3>1. CASE ReadsAgain(c)
      <4>1. fetch'["products"] = fetch["products"]
        BY <1>2, <3>1 DEF ReadsAgain, Invalidate, TypeInv, QueryTypes, Tables
      <4> QED BY <4>1
    <3>2. CASE Tells(c) \/ TakesAnswer(c)
      BY <3>2 DEF Tells, TakesAnswer, queries
    <3> QED BY <2>3, <3>1, <3>2 DEF Ends
  <2>5. \A p \in Products : cache'[p] = cache[p]
    <3>1. Products \subseteq Items /\ Products \cap Sections = {}
      BY ItemsAre, RowsApart
    <3> QED BY <1>2, <2>3, <3>1 DEF Ends, ReadsAgain, Tells, TakesAnswer, queries
  <2> QED BY <1>0, <2>1, <2>4, <2>5, ChoicesAreOfProducts, ChoiceStays
<1> QED BY <1>1, <1>2

LEMMA ChangesChoice ==
  ASSUME TypeInv, NEW c \in Calls, Changes(c)
  PROVE  ChoiceInv'
<1>1. TableOfCall(c) = "products"
  BY TablesOfCalls DEF Changes, ProductOps
<1>2. fetch'["products"] = "none"
  BY DEF Changes, CancelQueries, TypeInv, QueryTypes, Tables
<1>3. ASSUME NEW d \in Choices', d.n \notin overlapped'
      PROVE d = c
  <2>1. d \in calls \cup {c}
    BY DEF Choices, Changes, Send
  <2>2. CASE d \in calls
    <3>1. d \in Choices
      BY <2>2 DEF Choices
    <3>2. TableOfCall(d) = "products"
      BY <3>1, ChoicesAreOfProducts DEF TypeInv
    <3>3. d \in InFlight("products")
      BY <2>2, <3>2 DEF InFlight
    <3> QED BY <1>1, <1>3, <3>3 DEF Changes, Send, NumbersOf
  <2> QED BY <2>1, <2>2
<1> QED BY <1>2, <1>3 DEF ChoiceInv, ChoiceStaysShown, Choices, Changes

LEMMA SendsChoice ==
  ASSUME TypeInv, ChoiceInv, NEW c \in Calls, Sends(c)
  PROVE  ChoiceInv'
<1>1. ASSUME NEW d \in Choices'
      PROVE d \in Choices
  BY DEF Choices, Sends, Send
<1>2. overlapped \subseteq overlapped'
  BY DEF Sends, Send
<1>3. ChoicesKept
  BY <1>1, <1>2 DEF ChoicesKept
<1> QED BY <1>3, ChoiceStays DEF Sends, queries

LEMMA HandledChoice ==
  ASSUME TypeInv, ChoiceInv, NEW c, NEW d, Handled(c, d)
  PROVE  ChoiceInv'
<1>1. ChoicesKept
  <2>1. ASSUME NEW e \in Choices'
        PROVE \E b \in Choices : e.n = b.n /\ e.op = b.op /\ e.ids = b.ids /\ e.to = b.to
    BY DEF Choices, Handled
  <2>2. overlapped' = overlapped
    BY DEF Handled
  <2> QED BY <2>1, <2>2 DEF ChoicesKept
<1> QED BY <1>1, ChoiceStays DEF Handled, queries

LEMMA QueryChoice ==
  ASSUME TypeInv, ChoiceInv, NEW t \in Tables, OpenPage(t) \/ FetchRead(t) \/ FetchArrives(t) \/ FetchFails(t)
  PROVE  ChoiceInv'
<1>0. CallTypes /\ fetch \in [Tables -> {"none", "asked", "read"}]
  BY DEF TypeInv, QueryTypes
<1>1. CASE OpenPage(t)
  <2>1. Kept(calls) /\ overlapped \subseteq overlapped' /\ UNCHANGED cache
    BY <1>1 DEF OpenPage, Show, Kept
  <2>2. ChoicesKept
    BY <1>0, <2>1, KeptChoices
  <2>3. CASE fetch' = fetch
    BY <2>1, <2>2, <2>3, ChoiceStays
  <2>4. CASE fetch' # fetch /\ t = "products"
    <3>1. ASSUME NEW d \in Choices'
          PROVE d.n \in overlapped'
      <4>1. PICK c \in calls : Alike(d, c)
        BY <1>0, <2>1, <3>1, KeptBack DEF Choices
      <4>2. c \in Choices
        BY <3>1, <4>1 DEF Choices, Alike
      <4>3. c \in InFlight(t)
        BY <1>0, <2>4, <4>2, ChoicesAreOfProducts DEF InFlight
      <4>4. c.n \in overlapped'
        BY <1>1, <2>4, <4>3 DEF OpenPage, NumbersOf
      <4> QED BY <4>1, <4>4 DEF Alike
    <3> QED BY <3>1, NoChoice
  <2>5. CASE t # "products"
    <3>1. fetch'["products"] = fetch["products"]
      BY <1>1, <2>5, MountTypes DEF OpenPage, Tables
    <3> QED BY <2>1, <2>2, <3>1, ChoiceStays
  <2> QED BY <2>3, <2>4, <2>5
<1>2. CASE FetchRead(t) \/ FetchArrives(t) \/ FetchFails(t)
  <2>1. Kept(calls) /\ overlapped' = overlapped
    BY <1>2 DEF FetchRead, FetchArrives, FetchFails, Kept
  <2>2. ChoicesKept
    BY <1>0, <2>1, KeptChoices
  <2>3. fetch[t] # "none" /\ (fetch'["products"] # "none" => fetch["products"] # "none")
    BY <1>0, <1>2 DEF FetchRead, FetchArrives, FetchFails, Tables
  <2>4. ASSUME NEW c \in Choices, c.n \notin overlapped, NEW p \in c.ids
        PROVE cache'[p] = cache[p]
    <3>1. t # "products"
      BY <2>3, <2>4 DEF ChoiceInv, Choices
    <3>2. p \in Products /\ p \in Items
      BY <1>0, <2>4, ChoicesAreOfProducts, ItemsAre
    <3>3. p \notin Of(t)
      BY <3>1, <3>2, RowsApart, OfTables DEF Tables
    <3> QED BY <1>2, <3>2, <3>3 DEF FetchRead, FetchArrives, FetchFails
  <2> QED BY <2>2, <2>3, <2>4, ChoiceStays
<1> QED BY <1>1, <1>2

LEMMA ChoiceNext ==
  ASSUME TypeInv, CallsInv, ChoiceInv, Step
  PROVE  ChoiceInv'
<1>1. CASE Idles
  BY <1>1 DEF Idles, ChoiceInv, ChoiceStaysShown, queries
<1>2. CASE Leaves
  <2>1. Kept(calls) /\ overlapped' = overlapped
    BY <1>2 DEF Leaves, Kept
  <2>2. ChoicesKept
    BY <2>1, KeptChoices DEF TypeInv
  <2> QED BY <1>2, <2>2, ChoiceStays DEF Leaves, queries
<1> QED
  BY <1>1, <1>2, ChangesChoice, SendsChoice, QueryChoice, HandledChoice, EndsChoice DEF Step

(* While the call is under way, the table shows the status that was chosen *)
(* or leaves out the product that was deleted, unless another call or a    *)
(* query of the table has come in between: useAdminProductsMutations       *)
(* never lets an older answer bring the row back.                          *)
THEOREM TheChoiceStaysShown == Spec => []ChoiceStaysShown
<1>1. Init => TypeInv /\ CallsInv /\ ChoiceInv
  <2>1. Init => CallsInv /\ ChoiceInv
    BY DEF Init, CallsInv, ChoiceInv, ChoiceStaysShown
  <2> QED BY <2>1, TypeInit
<1>2. TypeInv /\ CallsInv /\ ChoiceInv /\ [Next]_vars => (TypeInv /\ CallsInv /\ ChoiceInv)'
  BY TypeNext, CallsNext, ChoiceNext
<1>3. ChoiceInv => ChoiceStaysShown
  BY DEF ChoiceInv
<1> QED BY <1>1, <1>2, <1>3, PTL DEF Spec

(***************************************************************************)
(* The answers with the settings.                                          *)
(***************************************************************************)
LEMMA KeptAnswers ==
  ASSUME CallTypes, AnswersInv, NEW left \in SUBSET calls, Kept(left), overlapped \subseteq overlapped',
         UNCHANGED rows
  PROVE  AnswersInv'
<1>1. ASSUME NEW d \in calls', d.op = "saveSection", d.phase = "done", d.n \notin overlapped',
             NEW i \in Sections
      PROVE d.kept[i] = rows'[i]
  <2>1. PICK c \in left : Alike(d, c)
    BY KeptBack
  <2> QED BY <1>1, <2>1 DEF AnswersInv, Alike
<1> QED BY <1>1 DEF AnswersInv

(* A row is of the one table whose calls are about it. *)
LEMMA TableOfARow ==
  ASSUME NEW s \in Tables, NEW t \in Tables, NEW i, i \in Of(s), i \in Of(t)
  PROVE  s = t
<1>1. s # t => Of(s) \cap Of(t) = {}
  BY TablesAssumption
<1> QED BY <1>1

LEMMA HandledAnswers ==
  ASSUME TypeInv, CallsInv, AnswersInv, NEW c, NEW d, Handled(c, d)
  PROVE  AnswersInv'
<1>1. c \in calls /\ WellMade(c) /\ c \in Calls
  BY DEF Handled, TypeInv, CallTypes, WellMade
<1>2. ASSUME NEW e \in calls', e.op = "saveSection", e.phase = "done", e.n \notin overlapped',
             NEW i \in Sections
      PROVE e.kept[i] = rows'[i]
  <2>1. CASE e = d
    BY <1>2, <2>1 DEF Handled
  <2>2. CASE e # d
    <3>1. e \in calls /\ e # c /\ overlapped' = overlapped
      BY <2>2 DEF Handled
    <3>2. TableOfCall(e) = "settings"
      BY <1>2, TablesOfCalls DEF SettingsOps
    <3>3. TableOfCall(c) # "settings"
      BY <1>1, <1>2, <3>1, <3>2 DEF CallsInv
    <3>4. i \notin c.ids
      <4>1. TableOfCall(c) \in Tables /\ "settings" \in Tables /\ i \in Of("settings")
        BY <1>1, TableOfACall, OfTables DEF Tables
      <4> QED BY <1>1, <3>3, <4>1, TableOfARow DEF WellMade
    <3>5. rows'[i] = rows[i]
      BY <3>4, ItemsAre DEF Handled
    <3> QED BY <1>2, <3>1, <3>5 DEF AnswersInv
  <2> QED BY <2>1, <2>2
<1> QED BY <1>2 DEF AnswersInv

LEMMA AnswersNext ==
  ASSUME TypeInv, CallsInv, AnswersInv, Step
  PROVE  AnswersInv'
<1>0. CallTypes
  BY DEF TypeInv
<1>1. CASE Idles
  BY <1>1 DEF Idles, AnswersInv
<1>2. CASE Leaves
  BY <1>0, <1>2, KeptAnswers DEF Leaves, Kept
<1>3. ASSUME NEW c \in Calls, Sends(c) \/ Changes(c)
      PROVE AnswersInv'
  <2>1. /\ calls' = calls \cup {c} /\ c.phase = "sent" /\ overlapped \subseteq overlapped'
        /\ rows' = rows
    BY <1>3 DEF Sends, Changes, Send
  <2> QED BY <2>1 DEF AnswersInv
<1>4. ASSUME NEW t \in Tables, OpenPage(t)
      PROVE AnswersInv'
  BY <1>0, <1>4, KeptAnswers DEF OpenPage, Show, Kept, server
<1>5. ASSUME NEW t \in Tables, FetchRead(t) \/ FetchArrives(t) \/ FetchFails(t)
      PROVE AnswersInv'
  BY <1>5 DEF FetchRead, FetchArrives, FetchFails, AnswersInv, server
<1>6. ASSUME NEW c \in calls, NEW d, Handled(c, d)
      PROVE AnswersInv'
  BY <1>6, HandledAnswers
<1>7. ASSUME NEW c \in calls, Ends(c)
      PROVE AnswersInv'
  BY <1>0, <1>7, EndsKeeps, KeptAnswers
<1> QED BY <1>1, <1>2, <1>3, <1>4, <1>5, <1>6, <1>7 DEF Step

(***************************************************************************)
(* The tables on the screen.                                               *)
(***************************************************************************)
LEMMA DueStays ==
  ASSUME CallTypes, NEW left \in SUBSET calls, Kept(left), NEW t, NEW i, NEW c \in left, DueTo(c, t, i)
  PROVE  Due(t, i)'
<1>1. PICK d \in calls' : Alike(d, c)
  BY KeptOn
<1>2. DueTo(d, t, i)
  BY <1>1, AlikeTables DEF DueTo, Alike
<1> QED BY <1>2 DEF Due

LEMMA ListingStays ==
  ASSUME NEW t \in Tables, NEW i \in Items, Listing(t, i),
         rows'[i] = rows[i], cache'[i] = cache[i], fetched'[i] = fetched[i], fetch'[t] = fetch[t],
         Due(t, i) => Due(t, i)', t \in stale /\ page # t => t \in stale' /\ page' # t
  PROVE  Listing(t, i)'
  BY DEF Listing, Same

LEMMA SendsLists ==
  ASSUME TypeInv, ListsInv, NEW c \in Calls, Sends(c)
  PROVE  ListsInv'
<1>1. ASSUME NEW t \in Tables, NEW i \in Of(t) \ missed'
      PROVE Listing(t, i)'
  <2>1. i \in Items /\ Listing(t, i)
    BY ItemsOfTables DEF Sends, ListsInv
  <2>2. Due(t, i) => Due(t, i)'
    BY DEF Due, Sends, Send
  <2> QED BY <2>1, <2>2, ListingStays DEF Sends, queries
<1> QED BY <1>1 DEF ListsInv

LEMMA ChangesLists ==
  ASSUME TypeInv, ListsInv, NEW c \in Calls, Changes(c)
  PROVE  ListsInv'
<1>1. ASSUME NEW t \in Tables, NEW i \in Of(t) \ missed'
      PROVE Listing(t, i)'
  <2>1. i \in Items /\ Listing(t, i)
    BY ItemsOfTables DEF Changes, ListsInv
  <2>2. CASE t = "products"
    <3>1. DueTo(c, t, i)
      BY <2>2, TablesOfCalls DEF Changes, ProductOps, DueTo
    <3>2. Due(t, i)'
      BY <3>1 DEF Due, Changes, Send
    <3> QED BY <3>2 DEF Listing
  <2>3. CASE t # "products"
    <3>1. i \notin Products
      <4>1. "products" \in Tables
        BY DEF Tables
      <4> QED BY <2>3, <4>1, TableOfARow, OfTables
    <3>2. fetch'[t] = fetch[t]
      BY <2>3 DEF Changes, CancelQueries, TypeInv, QueryTypes
    <3>3. fetched'[i] = fetched[i] /\ cache'[i] = cache[i]
      BY <2>1, <3>1, OfTables DEF Changes, CancelQueries, Reset
    <3>4. Due(t, i) => Due(t, i)'
      BY DEF Due, Changes, Send
    <3> QED BY <2>1, <3>2, <3>3, <3>4, ListingStays DEF Changes
  <2> QED BY <2>2, <2>3
<1> QED BY <1>1 DEF ListsInv

LEMMA KeptDue ==
  ASSUME CallTypes, Kept(calls), NEW t, NEW i, Due(t, i)
  PROVE  Due(t, i)'
<1>1. PICK c \in calls : DueTo(c, t, i)
  BY DEF Due
<1> QED BY <1>1, DueStays

LEMMA OpenPageLists ==
  ASSUME TypeInv, ListsInv, NEW s \in Tables, OpenPage(s)
  PROVE  ListsInv'
<1>1. ASSUME NEW t \in Tables, NEW i \in Of(t) \ missed'
      PROVE Listing(t, i)'
  <2>1. i \in Items /\ Listing(t, i)
    BY ItemsOfTables DEF OpenPage, ListsInv
  <2>2. Kept(calls) /\ page' = s /\ UNCHANGED <<rows, cache, fetched, stale>>
    BY DEF OpenPage, Show, Kept, server
  <2>3. Due(t, i) => Due(t, i)'
    BY <2>2, KeptDue DEF TypeInv
  <2>4. CASE t = s
    <3>1. Mount(t) /\ fetch \in [Tables -> {"none", "asked", "read"}]
      BY <2>4 DEF OpenPage, TypeInv, QueryTypes
    <3>2. /\ fetch'[t] = "none" => fetch[t] = "none" /\ t \notin stale
          /\ fetch'[t] = "read" => fetch[t] = "read"
      BY <3>1 DEF Mount
    <3> QED BY <2>1, <2>2, <2>3, <3>2 DEF Listing, Same
  <2>5. CASE t # s
    <3>1. fetch'[t] = fetch[t]
      BY <2>5, MountTypes DEF OpenPage
    <3> QED BY <2>1, <2>2, <2>3, <2>5, <3>1, ListingStays
  <2> QED BY <2>4, <2>5
<1> QED BY <1>1 DEF ListsInv

LEMMA FetchLists ==
  ASSUME TypeInv, ListsInv, NEW s \in Tables, FetchRead(s) \/ FetchArrives(s) \/ FetchFails(s)
  PROVE  ListsInv'
<1>0. UNCHANGED <<rows, calls, page>>
  BY DEF FetchRead, FetchArrives, FetchFails, server
<1>1. ASSUME NEW t \in Tables, NEW i \in Of(t) \ missed', t # s
      PROVE Listing(t, i)'
  <2>1. i \in Items /\ i \notin Of(s)
    BY <1>1, ItemsOfTables, TableOfARow
  <2>2. Listing(t, i)
    BY <1>1, <2>1 DEF FetchRead, FetchArrives, FetchFails, ListsInv
  <2>3. fetch'[t] = fetch[t]
    BY <1>1 DEF FetchRead, FetchArrives, FetchFails, TypeInv, QueryTypes
  <2>4. fetched'[i] = fetched[i] /\ cache'[i] = cache[i]
    BY <2>1 DEF FetchRead, FetchArrives, FetchFails, Reset
  <2>5. t \in stale => t \in stale'
    BY <1>1 DEF FetchRead, FetchArrives, FetchFails
  <2>6. Due(t, i) => Due(t, i)'
    BY <1>0 DEF Due
  <2> QED BY <1>0, <2>1, <2>2, <2>3, <2>4, <2>5, <2>6, ListingStays
<1>2. ASSUME NEW i \in Of(s) \ missed'
      PROVE Listing(s, i)'
  <2>0. i \in Items /\ fetch \in [Tables -> {"none", "asked", "read"}]
    BY ItemsOfTables DEF TypeInv, QueryTypes
  <2>1. CASE FetchRead(s)
    <3>1. fetch'[s] = "read" /\ fetched'[i] = Listed(i)
      BY <2>0, <2>1 DEF FetchRead
    <3>2. Same(i, Listed(i))
      BY <2>0, SameListed
    <3>3. Same(i, fetched[i])'
      BY <1>0, <3>1, <3>2 DEF Same
    <3> QED BY <3>1, <3>3 DEF Listing
  <2>2. CASE FetchArrives(s)
    <3>1. fetch[s] = "read" /\ fetch'[s] = "none" /\ cache'[i] = fetched[i] /\ i \notin missed
      BY <2>0, <2>2 DEF FetchArrives
    <3>2. Same(i, fetched[i]) \/ Due(s, i)
      BY <3>1 DEF ListsInv, Listing
    <3>3. Same(i, cache[i])' \/ Due(s, i)'
      BY <1>0, <3>1, <3>2 DEF Same, Due
    <3> QED BY <3>1, <3>3 DEF Listing
  <2>3. CASE FetchFails(s)
    BY <2>3 DEF FetchFails
  <2> QED BY <2>1, <2>2, <2>3
<1> QED BY <1>1, <1>2 DEF ListsInv

LEMMA HandledLists ==
  ASSUME TypeInv, ListsInv, NEW c, NEW d, Handled(c, d)
  PROVE  ListsInv'
<1>0. c \in calls /\ c \in Calls /\ WellMade(c) /\ TableOfCall(d) = TableOfCall(c)
  BY DEF Handled, TypeInv, CallTypes, WellMade, TableOfCall
<1>1. ASSUME NEW t \in Tables, NEW i \in Of(t) \ missed'
      PROVE Listing(t, i)'
  <2>1. i \in Items /\ Listing(t, i)
    BY ItemsOfTables DEF Handled, ListsInv
  <2>2. CASE rows'[i] = rows[i]
    <3>1. ASSUME NEW e \in calls, DueTo(e, t, i)
          PROVE Due(t, i)'
      <4>1. CASE e = c
        <5>1. DueTo(d, t, i)
          BY <1>0, <3>1, <4>1 DEF DueTo, Handled
        <5> QED BY <5>1 DEF Due, Handled
      <4>2. CASE e # c
        BY <3>1, <4>2 DEF Due, Handled
      <4> QED BY <4>1, <4>2
    <3>2. Due(t, i) => Due(t, i)'
      BY <3>1 DEF Due
    <3> QED BY <2>1, <2>2, <3>2, ListingStays DEF Handled, queries
  <2>3. CASE rows'[i] # rows[i]
    <3>1. i \in c.ids /\ d.phase = "done" /\ d.ids = c.ids
      BY <2>1, <2>3 DEF Handled
    <3>2. TableOfCall(c) = t
      BY <1>0, <3>1, TableOfACall, TableOfARow DEF WellMade
    <3>3. DueTo(d, t, i)
      BY <1>0, <3>1, <3>2 DEF DueTo
    <3>4. Due(t, i)'
      BY <3>3 DEF Due, Handled
    <3> QED BY <3>4 DEF Listing
  <2> QED BY <2>2, <2>3
<1> QED BY <1>1 DEF ListsInv

LEMMA EndsDue ==
  ASSUME CallTypes, NEW c \in calls, Ends(c), NEW t, NEW i, ~DueTo(c, t, i), Due(t, i)
  PROVE  Due(t, i)'
<1>1. PICK e \in calls : DueTo(e, t, i)
  BY DEF Due
<1>2. e \in calls \ {c}
  BY <1>1
<1> QED BY <1>1, <1>2, EndsKeeps, DueStays

(* A table that is read again has nothing to show until it has been read;  *)
(* when it is read later, or by a query that had begun, that is noted.     *)
LEMMA ReadsAgainLists ==
  ASSUME TypeInv, ListsInv, NEW c \in calls, ReadsAgain(c)
  PROVE  ListsInv'
<1>0. CallTypes /\ Ends(c) /\ TableOfCall(c) \in Tables
  BY CallsAreCalls, TableOfACall DEF TypeInv, Ends
<1>1. ASSUME NEW t \in Tables, NEW i \in Of(t) \ missed'
      PROVE Listing(t, i)'
  <2>1. i \in Items /\ i \notin missed /\ Listing(t, i)
    BY <1>1, ItemsOfTables DEF ReadsAgain, Invalidate, ListsInv
  <2>2. fetch \in [Tables -> {"none", "asked", "read"}] /\ UNCHANGED <<rows, page>>
    BY DEF TypeInv, QueryTypes, ReadsAgain, clientUnchanged, server
  <2>3. CASE t = TableOfCall(c)
    <3>1. Invalidate(t, {})
      BY <2>3 DEF ReadsAgain
    <3>2. CASE page = t
      <4>1. fetch'[t] = "asked"
        BY <2>2, <3>1, <3>2 DEF Invalidate
      <4> QED BY <4>1 DEF Listing
    <3>3. CASE page # t
      <4>1. fetch[t] = "none" /\ fetch'[t] = "none"
        BY <1>1, <3>1, <3>3 DEF Invalidate
      <4>2. t \in stale' /\ page' # t
        BY <2>2, <3>1, <3>3 DEF Invalidate
      <4> QED BY <4>1, <4>2 DEF Listing
    <3> QED BY <3>2, <3>3
  <2>4. CASE t # TableOfCall(c)
    <3>1. ~DueTo(c, t, i)
      BY <2>4 DEF DueTo
    <3>2. Due(t, i) => Due(t, i)'
      BY <1>0, <3>1, EndsDue
    <3>3. i \notin Of(TableOfCall(c))
      BY <1>0, <2>4, TableOfARow
    <3>4. fetch'[t] = fetch[t] /\ fetched'[i] = fetched[i]
      BY <2>1, <2>2, <2>4, <3>3 DEF ReadsAgain, Invalidate, Reset
    <3>5. cache'[i] = cache[i]
      <4>1. "products" \in Tables /\ Of("products") = Products
        BY OfTables DEF Tables
      <4>2. TableOfCall(c) # "products" \/ i \notin Products
        BY <3>3, <4>1
      <4> QED BY <2>1, <4>2 DEF ReadsAgain
    <3>6. t \in stale => t \in stale'
      BY DEF ReadsAgain, Invalidate
    <3> QED BY <2>1, <2>2, <3>2, <3>4, <3>5, <3>6, ListingStays
  <2> QED BY <2>3, <2>4
<1> QED BY <1>1 DEF ListsInv

LEMMA TellsLists ==
  ASSUME TypeInv, ListsInv, NEW c \in calls, Tells(c)
  PROVE  ListsInv'
<1>0. CallTypes /\ Ends(c)
  BY DEF TypeInv, Ends
<1>1. ASSUME NEW t \in Tables, NEW i \in Of(t) \ missed'
      PROVE Listing(t, i)'
  <2>1. i \in Items /\ i \notin missed /\ i \notin Lost(c) /\ Listing(t, i)
    BY <1>1, ItemsOfTables DEF Tells, ListsInv
  <2>2. ~DueTo(c, t, i)
    BY <2>1 DEF Tells, DueTo, Lost
  <2>3. Due(t, i) => Due(t, i)'
    BY <1>0, <2>2, EndsDue
  <2> QED BY <2>1, <2>3, ListingStays DEF Tells, clientUnchanged, server, queries
<1> QED BY <1>1 DEF ListsInv

LEMMA TakesAnswerLists ==
  ASSUME TypeInv, AnswersInv, ListsInv, NEW c \in calls, TakesAnswer(c)
  PROVE  ListsInv'
<1>0. CallTypes /\ Ends(c) /\ TableOfCall(c) = "settings" /\ "settings" \in Tables
  BY TablesOfCalls DEF TypeInv, Ends, TakesAnswer, SettingsOps, Tables
<1>1. ASSUME NEW t \in Tables, NEW i \in Of(t) \ missed'
      PROVE Listing(t, i)'
  <2>1. i \in Items /\ i \notin missed /\ Listing(t, i)
    BY <1>1, ItemsOfTables DEF TakesAnswer, ListsInv
  <2>2. UNCHANGED <<rows, page, fetch, fetched>>
    BY DEF TakesAnswer, clientUnchanged, server
  <2>3. CASE t = "settings"
    <3>1. i \in Sections
      BY <2>3, OfTables
    <3>2. fetch["settings"] # "read" /\ c.n \notin overlapped
      BY <1>1, <3>1 DEF TakesAnswer
    <3>3. cache'[i] = rows[i]
      BY <2>1, <3>1, <3>2 DEF TakesAnswer, AnswersInv
    <3>4. Same(i, cache[i])'
      BY <2>2, <3>1, <3>3, RowsApart DEF Same
    <3> QED BY <2>2, <2>3, <3>2, <3>4 DEF Listing
  <2>4. CASE t # "settings"
    <3>1. ~DueTo(c, t, i) /\ i \notin Sections
      BY <1>0, <2>4, TableOfARow, OfTables DEF DueTo
    <3>2. Due(t, i) => Due(t, i)'
      BY <1>0, <3>1, EndsDue
    <3>3. cache'[i] = cache[i] /\ (t \in stale => t \in stale')
      BY <2>1, <2>4, <3>1 DEF TakesAnswer
    <3> QED BY <2>1, <2>2, <3>2, <3>3, ListingStays
  <2> QED BY <2>3, <2>4
<1> QED BY <1>1 DEF ListsInv

(* The page is the products table afterwards, whatever it was.             *)
LEMMA LeadsBackLists ==
  ASSUME TypeInv, ListsInv, NEW c \in calls, SaveDone(c) \/ CreateDone(c)
  PROVE  ListsInv'
<1>0. CallTypes /\ Ends(c) /\ TableOfCall(c) = "products" /\ "products" \in Tables
      /\ fetch \in [Tables -> {"none", "asked", "read"}]
  BY TablesOfCalls DEF TypeInv, QueryTypes, Ends, SaveDone, CreateDone, ProductOps, Tables
<1>1. page' = "products" /\ UNCHANGED <<rows, cache>>
  BY DEF SaveDone, CreateDone, Show, clientUnchanged, server
<1>2. ASSUME NEW t \in Tables, NEW i \in Of(t) \ missed', t # "products"
      PROVE Listing(t, i)'
  <2>1. i \in Items /\ i \notin missed /\ Listing(t, i)
    BY <1>2, ItemsOfTables DEF SaveDone, CreateDone, ListsInv
  <2>2. ~DueTo(c, t, i) /\ i \notin Products
    BY <1>0, <1>2, TableOfARow, OfTables DEF DueTo
  <2>3. Due(t, i) => Due(t, i)'
    BY <1>0, <2>2, EndsDue
  <2>4. fetch'[t] = fetch[t]
    BY <1>0, <1>2, MountTypes DEF SaveDone, CreateDone
  <2>5. fetched'[i] = fetched[i]
    BY <2>1, <2>2, OfTables DEF SaveDone, CreateDone, Reset
  <2>6. t \in stale => t \in stale'
    BY DEF SaveDone, CreateDone
  <2> QED BY <1>1, <1>2, <2>1, <2>3, <2>4, <2>5, <2>6, ListingStays
<1>3. ASSUME NEW i \in Products \ missed', SaveDone(c)
      PROVE Listing("products", i)'
  <2>1. page = "products" \/ fetch["products"] = "none"
    BY <1>3 DEF SaveDone
  <2>2. fetch'["products"] = "asked"
    BY <1>0, <1>3, <2>1 DEF SaveDone
  <2> QED BY <2>2 DEF Listing
<1>4. ASSUME NEW i \in Products \ missed', CreateDone(c)
      PROVE Listing("products", i)'
  <2>1. i \notin missed /\ i \notin c.ids /\ i \in Of("products")
    BY <1>4, OfTables DEF CreateDone
  <2>2. Listing("products", i)
    BY <1>0, <2>1 DEF ListsInv
  <2>3. ~DueTo(c, "products", i)
    BY <1>4, <2>1 DEF CreateDone, DueTo
  <2>4. Due("products", i) => Due("products", i)'
    BY <1>0, <2>3, EndsDue
  <2>5. /\ fetch'["products"] = "read" => fetch["products"] = "read"
        /\ fetch'["products"] = "none" =>
             fetch["products"] = "none" /\ (page = "products" \/ "products" \notin stale)
    BY <1>0, <1>4 DEF CreateDone, Mount
  <2>6. UNCHANGED fetched
    BY <1>4 DEF CreateDone
  <2> QED BY <1>1, <2>2, <2>4, <2>5, <2>6 DEF Listing, Same
<1> QED BY <1>2, <1>3, <1>4, OfTables DEF ListsInv

LEMMA ListsNext ==
  ASSUME TypeInv, AnswersInv, ListsInv, Step
  PROVE  ListsInv'
<1>1. ASSUME Idles \/ Leaves
      PROVE ListsInv'
  <2>1. ASSUME NEW t \in Tables, NEW i \in Of(t) \ missed'
        PROVE Listing(t, i)'
    <3>1. i \in Items /\ Listing(t, i)
      BY <1>1, ItemsOfTables DEF Idles, Leaves, ListsInv
    <3>2. Kept(calls) /\ CallTypes
      BY <1>1 DEF Idles, Leaves, Kept, TypeInv
    <3>3. Due(t, i) => Due(t, i)'
      BY <3>2, KeptDue
    <3>4. page # t => page' # t
      BY <1>1 DEF Idles, Leaves, Tables
    <3> QED BY <1>1, <3>1, <3>3, <3>4, ListingStays DEF Idles, Leaves, queries
  <2> QED BY <2>1 DEF ListsInv
<1>2. ASSUME NEW c \in Calls, Sends(c) \/ Changes(c)
      PROVE ListsInv'
  BY <1>2, SendsLists, ChangesLists
<1>3. ASSUME NEW t \in Tables, OpenPage(t) \/ FetchRead(t) \/ FetchArrives(t) \/ FetchFails(t)
      PROVE ListsInv'
  BY <1>3, OpenPageLists, FetchLists
<1>4. ASSUME NEW c \in calls, (\E d : Handled(c, d)) \/ Ends(c)
      PROVE ListsInv'
  BY <1>4, HandledLists, ReadsAgainLists, TellsLists, TakesAnswerLists, LeadsBackLists DEF Ends
<1> QED BY <1>1, <1>2, <1>3, <1>4 DEF Step

(* When the calls about a table have ended and no query is in flight, the  *)
(* table on the screen is the one in the database, but for rows whose      *)
(* change the browser did not hear of.  So no combination of optimistic    *)
(* changes, refusals, lost answers and queries that cross leaves behind a  *)
(* change that was put back over a newer one or shown and then refused.    *)
THEOREM TheListsCatchUp == Spec => []ListsCatchUp
<1> DEFINE IInv == TypeInv /\ CallsInv /\ AnswersInv /\ ListsInv
<1>1. Init => IInv
  <2> SUFFICES ASSUME Init PROVE IInv
    OBVIOUS
  <2>1. TypeInv
    BY TypeInit
  <2>2. CallsInv /\ AnswersInv
    BY DEF Init, CallsInv, AnswersInv
  <2>3. ASSUME NEW t \in Tables, NEW i \in Of(t)
        PROVE Listing(t, i)
    <3>1. i \in Items
      BY ItemsOfTables
    <3>2. cache[i] = Listed(i) /\ fetch[t] = "none"
      BY <3>1 DEF Init
    <3>3. Same(i, cache[i])
      BY <3>1, <3>2, SameListed
    <3> QED BY <3>2, <3>3 DEF Listing
  <2> QED BY <2>1, <2>2, <2>3 DEF ListsInv
<1>2. IInv /\ [Next]_vars => IInv'
  BY TypeNext, CallsNext, AnswersNext, ListsNext
<1>3. IInv => ListsCatchUp
  <2> SUFFICES ASSUME ListsInv, NEW t \in Tables, page = t, fetch[t] = "none", InFlight(t) = {},
                      NEW i \in Of(t) \ missed
               PROVE  Agrees(i)
    BY DEF ListsCatchUp
  <2>1. i \in Items /\ Listing(t, i)
    BY ItemsOfTables DEF ListsInv
  <2>2. ~Due(t, i)
    BY DEF Due, DueTo, InFlight
  <2>3. Same(i, cache[i])
    BY <2>1, <2>2 DEF Listing
  <2> QED BY <2>1, <2>3, SameListed DEF Agrees
<1> HIDE DEF IInv
<1> QED BY <1>1, <1>2, <1>3, PTL DEF Spec

(***************************************************************************)
(* The reviews, which the admin moderates from the back office: the same   *)
(* of any customers.  The bounds are any naturals, as above.               *)
(***************************************************************************)
CONSTANT Users

VARIABLES delivered, review, shown, section, table, jobs, sent, lost, outdated, replied

R == INSTANCE Reviews WITH requests <- sent, failures <- lost

USE BoundsAssumption

Published == {u \in Users : review[u] # "none"}

(* An aggregate counts no review but those committed and its own. *)
AggregateExists ==
  \A j \in jobs : j.of \subseteq Published \cup {j.user}

(* An aggregate nobody has overtaken is still that of the reviews. *)
AggregateStands ==
  \A j \in jobs : j.step = "aggregated" /\ ~j.overtaken => j.of = R!Approved(R!Seen(j))

RatingInv == R!TypeOK /\ AggregateExists /\ AggregateStands /\ R!RatingMatchesReviews

----------------------------------------------------------------------------
(* A review that is written, or a moderation that is sent, is a job. *)
LEMMA BeginTypes ==
  ASSUME RatingInv, NEW op \in {"create", "moderate"}, NEW u \in Users, NEW to \in R!ReviewStatus,
         R!Begin(op, u, to), review' = review
  PROVE  /\ jobs' \subseteq R!Jobs /\ sent' \in 0..MaxRequests
         /\ AggregateExists' /\ AggregateStands'
<1>1. sent' \in 1..MaxRequests
  BY DEF RatingInv, R!TypeOK, R!Begin, R!Send
<1> DEFINE k == [n |-> sent', op |-> op, user |-> u, to |-> to, step |-> "read",
                 of |-> {}, overtaken |-> FALSE]
<1>2. /\ jobs' = jobs \cup {k} /\ k \in R!Jobs
      /\ k.of = {} /\ k.step = "read"
  BY <1>1 DEF R!Begin, R!Jobs
<1> HIDE DEF k
<1>3. jobs' \subseteq R!Jobs
  BY <1>2 DEF RatingInv, R!TypeOK
<1>4. AggregateExists'
  BY <1>2 DEF RatingInv, AggregateExists, Published
<1>5. AggregateStands'
  BY <1>2 DEF RatingInv, AggregateStands, R!Approved, R!Seen
<1>. QED
  BY <1>1, <1>3, <1>4, <1>5

(* A handler that has not reached its aggregate advances. *)
LEMMA WriteTypes ==
  ASSUME RatingInv, NEW j \in jobs, R!Write(j)
  PROVE  RatingInv'
<1>1. j \in R!Jobs
  BY DEF RatingInv, R!TypeOK
<1> DEFINE k == [j EXCEPT !.step = "written"]
<1>2. /\ k \in R!Jobs /\ k.of = j.of /\ k.user = j.user /\ k.step = "written"
  BY <1>1 DEF R!Jobs
<1>3. jobs' = (jobs \ {j}) \cup {k}
  BY DEF R!Write, R!Advance
<1> HIDE DEF k
<1>4. UNCHANGED <<delivered, review, shown, section, table, sent, lost, outdated, replied>>
  BY DEF R!Write
<1>5. R!TypeOK'
  BY <1>2, <1>3, <1>4 DEF RatingInv, R!TypeOK
<1>6. AggregateExists'
  BY <1>2, <1>3, <1>4 DEF RatingInv, AggregateExists, Published
<1>7. AggregateStands'
  BY <1>2, <1>3, <1>4 DEF RatingInv, AggregateStands, R!Approved, R!Seen
<1>8. R!RatingMatchesReviews'
  BY <1>4 DEF RatingInv, R!RatingMatchesReviews
<1>. QED
  BY <1>5, <1>6, <1>7, <1>8 DEF RatingInv

(* Handlers end without a trace. *)
LEMMA DropTypes ==
  ASSUME RatingInv, NEW j \in jobs, jobs' = jobs \ {j}, lost' \in 0..MaxFailures,
         UNCHANGED <<delivered, review, shown, section, table, sent, outdated, replied>>
  PROVE  RatingInv'
BY DEF RatingInv, R!TypeOK, AggregateExists, AggregateStands, R!RatingMatchesReviews, Published,
   R!Approved, R!Seen

(* The aggregate is taken over the reviews as they are. *)
LEMMA AggregateTypes ==
  ASSUME RatingInv, NEW j \in jobs, R!Aggregate(j)
  PROVE  RatingInv'
<1>1. j \in R!Jobs
  BY DEF RatingInv, R!TypeOK
<1> DEFINE k == [j EXCEPT !.step = "aggregated", !.of = R!Approved(R!Seen(j))]
<1>2. /\ k \in R!Jobs /\ k.of = R!Approved(R!Seen(j)) /\ k.user = j.user /\ k.to = j.to
  BY <1>1 DEF R!Jobs, R!Approved
<1>3. jobs' = (jobs \ {j}) \cup {k}
  BY DEF R!Aggregate, R!Advance
<1> HIDE DEF k
<1>4. UNCHANGED <<delivered, review, shown, section, table, sent, lost, outdated, replied>>
  BY DEF R!Aggregate
<1>5. R!Seen(j) = R!Seen(k)
  BY <1>2 DEF R!Seen
<1>6. k.of \subseteq Published \cup {k.user}
  BY <1>1, <1>2 DEF R!Approved, R!Seen, Published, RatingInv, R!TypeOK
<1>7. R!TypeOK'
  BY <1>2, <1>3, <1>4 DEF RatingInv, R!TypeOK
<1>8. AggregateExists'
  BY <1>3, <1>4, <1>6 DEF RatingInv, AggregateExists, Published
<1>9. AggregateStands'
  BY <1>2, <1>3, <1>4, <1>5 DEF RatingInv, AggregateStands, R!Approved, R!Seen
<1>10. R!RatingMatchesReviews'
  BY <1>4 DEF RatingInv, R!RatingMatchesReviews
<1>. QED
  BY <1>7, <1>8, <1>9, <1>10 DEF RatingInv

(* A transaction commits: it overtakes every other aggregate. *)
LEMMA PublishTypes ==
  ASSUME RatingInv, NEW j \in jobs, R!Publish(j), table' = table, lost' \in 0..MaxFailures,
         section' \in {section, [section EXCEPT ![j.user] = "hasReviewed"]}
  PROVE  RatingInv'
<1>1. j \in R!Jobs /\ j.user \in Users /\ j.to \in R!ReviewStatus
  BY DEF RatingInv, R!TypeOK, R!Jobs
<1>2. /\ review' = R!Seen(j) /\ shown' = j.of /\ outdated' = j.overtaken
      /\ UNCHANGED <<delivered, sent, replied>>
  BY DEF R!Publish
<1>3. review' \in [Users -> R!ReviewStatus \cup {"none"}]
  BY <1>1, <1>2 DEF RatingInv, R!TypeOK, R!Seen
<1>4. Published' = Published \cup {j.user}
  BY <1>1, <1>2 DEF RatingInv, R!TypeOK, R!Seen, Published, R!ReviewStatus
<1>5. \A k \in jobs' : \E i \in jobs : /\ k \in R!Jobs /\ k.of = i.of /\ k.user = i.user
                                       /\ k.step = "aggregated" => k.overtaken
  <2>. SUFFICES ASSUME NEW k \in jobs'
                PROVE  \E i \in jobs : /\ k \in R!Jobs /\ k.of = i.of /\ k.user = i.user
                                       /\ k.step = "aggregated" => k.overtaken
    OBVIOUS
  <2>1. PICK i \in jobs \ {j} : k = [i EXCEPT !.overtaken = (i.step = "aggregated")]
    BY Zenon DEF R!Publish
  <2>2. i \in R!Jobs
    BY DEF RatingInv, R!TypeOK
  <2>3. CASE i.step = "aggregated"
    BY <2>1, <2>2, <2>3 DEF R!Jobs
  <2>4. CASE i.step # "aggregated"
    BY <2>1, <2>2, <2>4 DEF R!Jobs
  <2>. QED
    BY <2>3, <2>4
<1>6. R!TypeOK'
  <2>1. shown' \subseteq Published'
    BY <1>2, <1>4 DEF RatingInv, AggregateExists
  <2>2. section' \in [Users -> {"unknown", "purchaseRequired", "canReview", "hasReviewed"}]
    BY <1>1 DEF RatingInv, R!TypeOK
  <2>3. \A u \in Users : section'[u] = "hasReviewed" => u \in Published'
    BY <1>1, <1>4 DEF RatingInv, R!TypeOK, Published
  <2>4. jobs' \subseteq R!Jobs
    BY <1>5
  <2>5. outdated' \in BOOLEAN
    BY <1>1, <1>2 DEF R!Jobs
  <2>6. replied' \subseteq Published'
    BY <1>2, <1>4 DEF RatingInv, R!TypeOK, Published
  <2>. QED
    BY <1>2, <1>3, <2>1, <2>2, <2>3, <2>4, <2>5, <2>6 DEF RatingInv, R!TypeOK, Published
<1>7. AggregateExists'
  BY <1>4, <1>5 DEF RatingInv, AggregateExists
<1>8. AggregateStands'
  BY <1>5 DEF AggregateStands
<1>9. R!RatingMatchesReviews'
  <2>1. CASE j.overtaken
    BY <1>2, <2>1 DEF R!RatingMatchesReviews
  <2>2. CASE ~j.overtaken
    BY <1>2, <2>2 DEF RatingInv, AggregateStands, R!RatingMatchesReviews, R!Approved, R!Publish
  <2>. QED
    BY <2>1, <2>2
<1>. QED
  BY <1>6, <1>7, <1>8, <1>9 DEF RatingInv

LEMMA RatingInit == R!Init => RatingInv
<1>. SUFFICES ASSUME R!Init
              PROVE  RatingInv
  OBVIOUS
<1>1. R!TypeOK
  <2>1. /\ review \in [Users -> R!ReviewStatus \cup {"none"}]
        /\ table \in [Users -> R!ReviewStatus \cup {"none"}]
    BY DEF R!Init
  <2>2. /\ section \in [Users -> {"unknown", "purchaseRequired", "canReview", "hasReviewed"}]
        /\ \A u \in Users : section[u] # "hasReviewed"
    BY DEF R!Init
  <2>3. /\ delivered = {} /\ shown = {} /\ jobs = {} /\ replied = {}
        /\ sent \in 0..MaxRequests /\ lost \in 0..MaxFailures
    BY DEF R!Init
  <2>4. outdated \in BOOLEAN
    BY Zenon DEF R!Init
  <2>. QED
    BY <2>1, <2>2, <2>3, <2>4 DEF R!TypeOK
<1>2. AggregateExists /\ AggregateStands
  BY DEF R!Init, AggregateExists, AggregateStands
<1>3. R!RatingMatchesReviews
  BY DEF R!Init, R!RatingMatchesReviews
<1>. QED
  BY <1>1, <1>2, <1>3 DEF RatingInv

LEMMA RatingStep == RatingInv /\ [R!Next]_R!vars => RatingInv'
<1>. SUFFICES ASSUME RatingInv, [R!Next]_R!vars
              PROVE  RatingInv'
  OBVIOUS
<1>. USE DEF RatingInv
<1>1. ASSUME NEW u \in Users, R!Deliver(u) \/ R!Refund(u)
      PROVE  RatingInv'
  BY <1>1 DEF R!TypeOK, R!Deliver, R!Refund, AggregateExists, AggregateStands,
     R!RatingMatchesReviews, Published, R!Approved, R!Seen
<1>2. ASSUME NEW u \in Users, R!LoadSection(u)
      PROVE  RatingInv'
  BY <1>2 DEF R!TypeOK, R!LoadSection, R!checkReviewEligibility, AggregateExists, AggregateStands,
     R!RatingMatchesReviews, Published, R!Approved, R!Seen
<1>3. ASSUME R!LoadTable
      PROVE  RatingInv'
  BY <1>3 DEF R!TypeOK, R!LoadTable, R!findAllForAdmin, AggregateExists, AggregateStands,
     R!RatingMatchesReviews,
     Published, R!Approved, R!Seen
<1>4. ASSUME NEW u \in Users, R!Submit(u)
      PROVE  RatingInv'
  BY <1>4, BeginTypes DEF R!Submit, R!TypeOK, R!RatingMatchesReviews, R!ReviewStatus
<1>5. ASSUME NEW u \in Users, NEW to \in {"APPROVED", "HIDDEN"}, R!Moderate(u, to)
      PROVE  RatingInv'
  BY <1>5, BeginTypes DEF R!Moderate, R!TypeOK, R!RatingMatchesReviews, R!ReviewStatus
<1>6. ASSUME NEW j \in jobs, R!CreateWrite(j) \/ R!ModerateWrite(j)
      PROVE  RatingInv'
  BY <1>6, WriteTypes DEF R!CreateWrite, R!ModerateWrite
<1>7. ASSUME NEW j \in jobs, R!CreateRefused(j) \/ R!HandlerDies(j)
      PROVE  RatingInv'
  BY <1>7, DropTypes DEF R!CreateRefused, R!HandlerDies, R!TypeOK
<1>8. ASSUME NEW j \in jobs, R!Aggregate(j)
      PROVE  RatingInv'
  BY <1>8, AggregateTypes
<1>9. ASSUME NEW j \in jobs, R!CreateCommit(j) \/ R!ModerateCommit(j)
      PROVE  RatingInv'
  BY <1>9, PublishTypes DEF R!CreateCommit, R!ModerateCommit, R!TypeOK
<1>10. ASSUME NEW u \in Users, R!setSellerReply(u)
       PROVE  RatingInv'
  <2>1. /\ replied' = replied \cup {u} /\ review[u] # "none"
        /\ sent' \in 0..MaxRequests
    BY <1>10 DEF R!setSellerReply, R!Send, R!TypeOK
  <2>2. UNCHANGED <<delivered, review, shown, section, table, jobs, lost, outdated>>
    BY <1>10 DEF R!setSellerReply
  <2>. QED
    BY <2>1, <2>2 DEF R!TypeOK, AggregateExists, AggregateStands, R!RatingMatchesReviews,
       Published, R!Approved, R!Seen
<1>11. CASE UNCHANGED R!vars
  BY <1>11 DEF R!vars, R!TypeOK, AggregateExists, AggregateStands, R!RatingMatchesReviews,
     Published, R!Approved, R!Seen
<1>. QED
  BY <1>1, <1>2, <1>3, <1>4, <1>5, <1>6, <1>7, <1>8, <1>9, <1>10, <1>11
  DEF R!Next, R!Handler, R!ReviewsController, R!AdminReviewsController

(* The types hold: what the shop shows is counted over reviews that exist, *)
(* and a page that says so shows a customer's review that exists.          *)
THEOREM ReviewsTypes == R!Spec => []R!TypeOK
<1>. QED
  BY RatingInit, RatingStep, PTL DEF R!Spec, RatingInv

(* The average and the count are those of the approved reviews, unless the *)
(* transaction that wrote them last was overtaken (RatingMatchesReviews).  *)
THEOREM RatingIsOfReviews == R!Spec => []R!RatingMatchesReviews
<1>. QED
  BY RatingInit, RatingStep, PTL DEF R!Spec, RatingInv
=============================================================================
