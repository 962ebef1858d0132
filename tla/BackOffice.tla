----------------------------- MODULE BackOffice -----------------------------
(***************************************************************************)
(* One admin's browser in front of the tables of the shop: products, with  *)
(* the form that creates and edits them, categories, discount codes and    *)
(* settings.  Each table shows what its query has in the cache; a button   *)
(* sends a call, and the answer, or the error, brings the cache up to date *)
(* in one of three ways:                                                   *)
(*   products    changed at once, put back on an error, then read again    *)
(*   categories, codes and bulk actions   read again after a success       *)
(*   settings    replaced by the answer                                    *)
(*                                                                         *)
(* Nobody else changes the rows.  One set of query parameters stands for   *)
(* all of them.  A button waits for its call as long as the page stays     *)
(* open.  A call that fails has been carried out by then, or never is.     *)
(***************************************************************************)
EXTENDS Integers, FiniteSets

CONSTANTS
  Products, Categories, Codes,   \* rows of three tables
  Ordered,                 \* products some OrderItem points at
  Files,                   \* pictures the admin may upload
  MAX_IMAGES_PER_PRODUCT,
  None,                    \* no product
  MaxRequests,             \* calls, uploads and reloads of a minute old table
                           \* (bounds the model)
  MaxFailures              \* calls and answers that are lost (bounds the model)

ASSUME NoneAssumption == None \notin Products
ASSUME OrderedAssumption == Ordered \subseteq Products
ASSUME ImagesAssumption == MAX_IMAGES_PER_PRODUCT \in Nat \ {0}
ASSUME BoundsAssumption == MaxRequests \in Nat /\ MaxFailures \in Nat

VARIABLES
  rows,       \* what the server holds, per row
  home,       \* Product.categoryId
  pictures,   \* Product.images
  stored,     \* pictures in the bucket
  cache,      \* what the browser has of each row
  stale,      \* tables whose query has been invalidated
  fetch,      \* the query in flight, per table
  fetched,    \* what it has read
  page,       \* the page that is open
  selected,   \* selectedIds of the products table
  form,       \* the product in the form
  creating,   \* the form is for a new product
  uploads,    \* the pictures in the form
  calls,      \* calls that have not been answered
  requests, failures,
  overlapped, \* calls during which the table was read, or another call was made
  missed      \* rows changed since their table was read last, without the browser
              \* hearing of it: an answer was lost, or came in the wrong order

server  == <<rows, home, pictures, stored>>
queries == <<cache, stale, fetch, fetched>>
editor  == <<form, creating, uploads>>
vars    == <<server, queries, page, selected, editor, calls, requests, failures,
             overlapped, missed>>

----------------------------------------------------------------------------
(* The settings are one row, edited in three parts. *)
Sections == {"general", "social", "shipping"}

Tables == {"products", "categories", "codes", "settings"}

Of(t) == CASE t = "products"   -> Products
           [] t = "categories" -> Categories
           [] t = "codes"      -> Codes
           [] t = "settings"   -> Sections

Items == UNION {Of(t) : t \in Tables}

(* A row is of one table only; every product needs a category. *)
ASSUME TablesAssumption ==
  /\ \A s, t \in Tables : s # t => Of(s) \cap Of(t) = {}
  /\ Categories # {}

TableOf(i) == CHOOSE t \in Tables : i \in Of(t)

PRODUCT_STATUSES == {"ACTIVE", "DRAFT", "ARCHIVED"}

(* A deleted code stays in its table, marked. *)
Held == PRODUCT_STATUSES \cup {"gone", "here", "on", "off", "deleted", "old", "new"}

(* A table shows which categories are used. *)
Shown == Held \cup {"empty", "used"}

Rows ==
  {r \in [Items -> Held] :
     /\ \A i \in Products   : r[i] \in PRODUCT_STATUSES \cup {"gone"}
     /\ \A i \in Categories : r[i] \in {"gone", "here"}
     /\ \A i \in Codes      : r[i] \in {"gone", "on", "off", "deleted"}
     /\ \A i \in Sections   : r[i] \in {"old", "new"}}

(* What the API module of each table can be asked to do. *)
ProductOps  == {"status", "delete", "bulk", "save", "create"}
CategoryOps == {"addCategory", "renameCategory", "removeCategory"}
CodeOps     == {"addCode", "toggleCode", "removeCode"}
SettingsOps == {"saveSection"}

TableOfCall(c) == CASE c.op \in ProductOps  -> "products"
                    [] c.op \in CategoryOps -> "categories"
                    [] c.op \in CodeOps     -> "codes"
                    [] c.op \in SettingsOps -> "settings"

(* kept: what the table showed before the call; of settings, the answer.   *)
(* phase: on its way, done by the server, or refused by it.                *)
(* watched: the page that made it is still open.                           *)
Calls ==
  [n : 1..MaxRequests, op : ProductOps \cup CategoryOps \cup CodeOps \cup SettingsOps,
   ids : SUBSET Items, to : Held \cup {"", "publish", "draft", "delete"},
   category : Categories, files : SUBSET Files, kept : [Items -> Shown], phase : {"sent", "done", "refused"}, watched : BOOLEAN]

Filed(c) == {p \in Products : rows[p] # "gone" /\ home[p] = c}

(* Every product has a category, and pictures that have been uploaded. *)
TypeOK ==
  /\ rows     \in Rows
  /\ home     \in [Products -> Categories]
  /\ \A c \in Categories : Filed(c) # {} => rows[c] = "here"
  /\ \A p \in Ordered : rows[p] # "gone"
  /\ pictures \in [Products -> SUBSET Files]
  /\ \A p \in Products : pictures[p] \subseteq stored
  /\ stored   \subseteq Files
  /\ cache \in [Items -> Shown] /\ fetched \in [Items -> Shown]
  /\ stale    \subseteq Tables
  /\ fetch    \in [Tables -> {"none", "asked", "read"}]
  /\ page     \in Tables \cup {"form"}
  /\ selected \subseteq Products
  /\ form     \in Products \cup {None}
  /\ creating \in BOOLEAN
  /\ uploads  \in [Files -> {"absent", "signing", "uploading", "done", "error", "removed"}]
  /\ calls    \subseteq Calls
  /\ requests \in 0..MaxRequests
  /\ failures \in 0..MaxFailures
  /\ overlapped \subseteq 1..MaxRequests
  /\ missed   \subseteq Items

NoRows == [i \in Items |-> "gone"]

NoUploads == [f \in Files |-> "absent"]

----------------------------------------------------------------------------
(* Queries.                                                                *)

(* findAllAdmin, findAll of the categories with their product counts, and  *)
(* findAll of the codes that are not deleted.                              *)
AllProducts == {p \in Products : rows[p] # "gone"}

AllCategories == {c \in Categories : rows[c] # "gone"}

AllCodes == {d \in Codes : rows[d] \notin {"gone", "deleted"}}

Listed(i) ==
  IF i \in Categories
    THEN IF i \notin AllCategories THEN "gone" ELSE IF Filed(i) = {} THEN "empty" ELSE "used"
    ELSE IF i \in AllProducts \cup AllCodes \cup Sections THEN rows[i] ELSE "gone"

Init ==
  /\ rows = [i \in Items |-> IF i \in Products THEN "ACTIVE"
                             ELSE IF i \in Categories THEN "here"
                             ELSE IF i \in Codes THEN "on" ELSE "old"]
  /\ home \in [Products -> Categories]
  /\ \E f \in Files : stored = {f} /\ pictures = [p \in Products |-> {f}]
  /\ cache = [i \in Items |-> Listed(i)] /\ stale = {}
  /\ fetch = [t \in Tables |-> "none"] /\ fetched = NoRows
  /\ page = "products" /\ selected = {}
  /\ form = None /\ creating = FALSE /\ uploads = NoUploads
  /\ calls = {} /\ requests = 0 /\ failures = 0
  /\ overlapped = {} /\ missed = {}

Reset(t) == [i \in Items |-> IF i \in Of(t) THEN "gone" ELSE fetched[i]]

(* useAdminListQuery: the answer is read from the tables, and takes a      *)
(* while to arrive.                                                        *)
FetchRead(t) ==
  /\ fetch[t] = "asked"
  /\ fetch' = [fetch EXCEPT ![t] = "read"]
  /\ fetched' = [i \in Items |-> IF i \in Of(t) THEN Listed(i) ELSE fetched[i]]
  /\ missed' = missed \ Of(t)
  /\ UNCHANGED <<server, cache, stale, page, selected, editor, calls, requests, failures,
                 overlapped>>

FetchArrives(t) ==
  /\ fetch[t] = "read"
  /\ fetch' = [fetch EXCEPT ![t] = "none"]
  /\ cache' = [i \in Items |-> IF i \in Of(t) THEN fetched[i] ELSE cache[i]]
  /\ fetched' = Reset(t)
  /\ stale' = stale \ {t}
  /\ UNCHANGED <<server, page, selected, editor, calls, requests, failures, overlapped, missed>>

FetchFails(t) ==
  /\ fetch[t] # "none" /\ failures < MaxFailures
  /\ failures' = failures + 1
  /\ fetch' = [fetch EXCEPT ![t] = "none"] /\ fetched' = Reset(t)
  /\ missed' = missed \cup Of(t)
  /\ UNCHANGED <<server, cache, stale, page, selected, editor, calls, requests, overlapped>>

(* invalidateQueries: a table that is open is read again, from the start;  *)
(* another one when it is opened, unless an answer still on its way makes  *)
(* it look fresh.                                                          *)
Invalidate(t, lost) ==
  /\ IF page = t
       THEN fetch' = [fetch EXCEPT ![t] = "asked"] /\ fetched' = Reset(t)
       ELSE UNCHANGED <<fetch, fetched>>
  /\ stale' = stale \cup {t}
  /\ missed' = missed \cup lost \cup (IF page # t /\ fetch[t] # "none" THEN Of(t) ELSE {})

(* A page that opens reads its table if it has been invalidated, or if the *)
(* cache is a minute old.                                                  *)
Mount(t) ==
  LET asks == [fetch EXCEPT ![t] = IF @ = "none" THEN "asked" ELSE @]
  IN  \/ t \in stale /\ fetch' = asks /\ UNCHANGED requests
      \/ t \notin stale /\ UNCHANGED <<fetch, requests>>
      \/ /\ t \notin stale /\ requests < MaxRequests
         /\ fetch' = asks /\ requests' = requests + 1

InFlight(t) == {c \in calls : TableOfCall(c) = t}

NumbersOf(cs) == {c.n : c \in cs}

(* The page that was open goes, with what was selected or filled in. *)
Show(t, cs) ==
  /\ page' = t
  /\ calls' = IF page = t THEN cs ELSE {[c EXCEPT !.watched = FALSE] : c \in cs}
  /\ selected' = IF page = t THEN selected ELSE {}
  /\ form' = None /\ creating' = FALSE /\ uploads' = NoUploads

OpenPage(t) ==
  /\ page # t
  /\ Show(t, calls)
  /\ Mount(t)
  /\ overlapped' = overlapped \cup (IF fetch' # fetch THEN NumbersOf(InFlight(t)) ELSE {})
  /\ UNCHANGED <<server, cache, stale, fetched, failures, missed>>

----------------------------------------------------------------------------
(* Calls.                                                                  *)

Call(op, ids, to) ==
  [n |-> requests + 1, op |-> op, ids |-> ids, to |-> to,
   category |-> CHOOSE c \in Categories : TRUE, files |-> {}, kept |-> NoRows,
   phase |-> "sent", watched |-> TRUE]

Pending(ops) == \E c \in calls : c.op \in ops /\ c.watched

(* The dialog stays in front of its page until the answer has come. *)
ConfirmDialog(op) == ~Pending({op})

Send(c) ==
  /\ requests < MaxRequests
  /\ requests' = c.n
  /\ calls' = calls \cup {c}
  /\ overlapped' = overlapped \cup
       (IF InFlight(TableOfCall(c)) # {} THEN NumbersOf(InFlight(TableOfCall(c)) \cup {c}) ELSE {})

Done(c) == calls' = (calls \ {c}) \cup {[c EXCEPT !.phase = "done"]}

Refuse(c) == calls' = (calls \ {c}) \cup {[c EXCEPT !.phase = "refused"]}

Forget(c) == calls' = calls \ {c}

(* The call ends in an error: the server has refused it, or the call or    *)
(* its answer is lost.                                                     *)
Errs(c) ==
  \/ c.phase = "refused" /\ UNCHANGED failures
  \/ c.phase # "refused" /\ failures < MaxFailures /\ failures' = failures + 1

Lost(c) == IF c.phase = "done" THEN c.ids ELSE {}

(* The browser has a message to show, and changes nothing. *)
Toast(c) ==
  /\ Errs(c)
  /\ Forget(c)
  /\ missed' = missed \cup Lost(c)
  /\ UNCHANGED <<queries, page, selected, editor>>

handlerUnchanged ==
  UNCHANGED <<stored, queries, page, selected, editor, requests, failures, overlapped, missed>>

clientUnchanged == UNCHANGED <<server, requests, overlapped>>

----------------------------------------------------------------------------
(* The products table.                                                     *)

DeleteProductDialog == ConfirmDialog("delete")

AdminProductsTable ==
  page = "products" /\ DeleteProductDialog /\ ConfirmDialog("bulk")

OnPage == {p \in Products : cache[p] # "gone"}

tableUnchanged ==
  UNCHANGED <<server, queries, page, editor, calls, requests, failures, overlapped, missed>>

toggleProductSelection(p) ==
  /\ AdminProductsTable /\ p \in OnPage
  /\ selected' = IF p \in selected THEN selected \ {p} ELSE selected \cup {p}
  /\ tableUnchanged

(* The box in the header.  Rows that have left the page stay selected. *)
toggleSelectAllOnPage ==
  /\ AdminProductsTable /\ OnPage # {}
  /\ selected' = IF OnPage \subseteq selected THEN selected \ OnPage ELSE selected \cup OnPage
  /\ tableUnchanged

(* Another search, filter, order or page, or the bar's "clear". *)
ClearSelection ==
  /\ AdminProductsTable /\ selected # {}
  /\ selected' = {}
  /\ tableUnchanged

Snapshot == [i \in Items |-> IF i \in Products THEN cache[i] ELSE "gone"]

(* Mutant: a query that is in flight is left alone. *)
CancelQueries_None == UNCHANGED <<fetch, fetched>>

CancelQueries ==
  /\ fetch' = [fetch EXCEPT !["products"] = "none"]
  /\ fetched' = Reset("products")

restoreProductsQueries(c) ==
  cache' = [i \in Items |-> IF i \in Products THEN c.kept[i] ELSE cache[i]]

(* The menu of a row offers the statuses it does not show. *)
RowMenu(p) == IF p \in OnPage THEN PRODUCT_STATUSES \ {cache[p]} ELSE {}

(* statusMutation: nothing waits for its answer. *)
ChangeStatus(p, s) ==
  /\ AdminProductsTable /\ s \in RowMenu(p)
  /\ Send([Call("status", {p}, s) EXCEPT !.kept = Snapshot])
  /\ CancelQueries
  /\ cache' = [cache EXCEPT ![p] = s]
  /\ UNCHANGED <<server, stale, page, selected, editor, failures, missed>>

DeleteProduct(p) ==
  /\ AdminProductsTable /\ p \in OnPage
  /\ Send([Call("delete", {p}, "") EXCEPT !.kept = Snapshot])
  /\ CancelQueries
  /\ cache' = [cache EXCEPT ![p] = "gone"]
  /\ UNCHANGED <<server, stale, page, selected, editor, failures, missed>>

AdminProductsBulkBar == AdminProductsTable /\ selected # {}

BulkAction(action) ==
  /\ AdminProductsBulkBar
  /\ Send(Call("bulk", selected, action))
  /\ UNCHANGED <<server, queries, page, selected, editor, failures, missed>>

(* updateStatus, remove and bulkAction of the service.  One product with   *)
(* orders stops the deletion of all; rows that are gone are passed over.   *)
updateStatus(c) ==
  /\ c.op = "status"
  /\ \E p \in c.ids :
       IF rows[p] # "gone" THEN rows' = [rows EXCEPT ![p] = c.to] /\ Done(c)
                           ELSE Refuse(c) /\ UNCHANGED rows
  /\ UNCHANGED <<home, pictures>> /\ handlerUnchanged

WithoutProducts(ids) ==
  /\ rows' = [i \in Items |-> IF i \in ids THEN "gone" ELSE rows[i]]
  /\ pictures' = [p \in Products |-> IF p \in ids THEN {} ELSE pictures[p]]

remove(c) ==
  /\ c.op = "delete"
  /\ IF c.ids \subseteq AllProducts \ Ordered
       THEN WithoutProducts(c.ids) /\ Done(c)
       ELSE Refuse(c) /\ UNCHANGED <<rows, pictures>>
  /\ UNCHANGED home /\ handlerUnchanged

bulkAction(c) ==
  /\ c.op = "bulk"
  /\ CASE c.to = "delete" /\ c.ids \cap Ordered # {} ->
            Refuse(c) /\ UNCHANGED <<rows, pictures>>
       [] c.to = "delete" /\ c.ids \cap Ordered = {} ->
            WithoutProducts(c.ids) /\ Done(c)
       [] c.to # "delete" ->
            /\ rows' = [i \in Items |-> IF i \notin c.ids \cap AllProducts THEN rows[i]
                                        ELSE IF c.to = "publish" THEN "ACTIVE" ELSE "DRAFT"]
            /\ Done(c) /\ UNCHANGED pictures
  /\ UNCHANGED home /\ handlerUnchanged

(* onSuccess and onSettled of a change of status or a deletion. *)
ChangeDone(c) ==
  /\ c.op \in {"status", "delete"} /\ c.phase = "done"
  /\ Forget(c)
  /\ Invalidate("products", {})
  /\ UNCHANGED <<cache, page, selected, editor, failures>> /\ clientUnchanged

(* Mutant: the table is read again after a success only. *)
ChangeFails_NotRead(c) ==
  /\ c.op \in {"status", "delete"}
  /\ Errs(c)
  /\ Forget(c)
  /\ restoreProductsQueries(c)
  /\ UNCHANGED <<stale, fetch, fetched, missed, page, selected, editor>> /\ clientUnchanged

ChangeFails(c) ==
  /\ c.op \in {"status", "delete"}
  /\ Errs(c)
  /\ Forget(c)
  /\ restoreProductsQueries(c)
  /\ Invalidate("products", {})
  /\ UNCHANGED <<page, selected, editor>> /\ clientUnchanged

BulkDone(c) ==
  /\ c.op = "bulk" /\ c.phase = "done"
  /\ Forget(c)
  /\ selected' = IF c.watched THEN {} ELSE selected
  /\ Invalidate("products", {})
  /\ UNCHANGED <<cache, page, editor, failures>> /\ clientUnchanged

BulkFails(c) == c.op = "bulk" /\ Toast(c) /\ clientUnchanged

----------------------------------------------------------------------------
(* The product form.                                                       *)

formUnchanged == UNCHANGED <<server, queries, page, selected, form, creating, calls, overlapped>>

OpenForm(p, new, images) ==
  /\ page' = "form" /\ form' = p /\ creating' = new /\ uploads' = images
  /\ selected' = {}
  /\ calls' = {[c EXCEPT !.watched = FALSE] : c \in calls}
  /\ UNCHANGED <<server, queries, requests, failures, overlapped, missed>>

(* The page asks the API for the product; there is none when it is gone. *)
OpenEditForm(p) ==
  /\ AdminProductsTable /\ p \in OnPage /\ rows[p] # "gone"
  /\ OpenForm(p, FALSE, [f \in Files |-> IF f \in pictures[p] THEN "done" ELSE "absent"])

OpenNewForm(p) ==
  /\ AdminProductsTable /\ p \notin OnPage
  /\ OpenForm(p, TRUE, NoUploads)

UploadItems == {f \in Files : uploads[f] \in {"signing", "uploading", "done", "error"}}

CanAddMore == Cardinality(UploadItems) < MAX_IMAGES_PER_PRODUCT

(* A file that is too large, or of another type, is shown with an error. *)
addFiles(f, valid) ==
  /\ page = "form" /\ uploads[f] = "absent" /\ CanAddMore
  /\ requests < MaxRequests /\ requests' = requests + 1
  /\ uploads' = [uploads EXCEPT ![f] = IF valid THEN "signing" ELSE "error"]
  /\ formUnchanged /\ UNCHANGED <<failures, missed>>

generatePresignedUrl(f) ==
  /\ uploads[f] = "signing"
  /\ uploads' = [uploads EXCEPT ![f] = "uploading"]
  /\ formUnchanged /\ UNCHANGED <<requests, failures, missed>>

(* The file is put into the bucket.  An upload whose item was removed, or  *)
(* whose page was left, goes on, for a file that no product will show.     *)
uploadFileToS3(f) ==
  /\ uploads[f] = "uploading"
  /\ uploads' = [uploads EXCEPT ![f] = "done"]
  /\ stored' = stored \cup {f}
  /\ UNCHANGED <<rows, home, pictures, queries, page, selected, form, creating, calls,
                 requests, failures, overlapped, missed>>

(* uploadFile catches the failure of either. *)
uploadFile(f) ==
  /\ uploads[f] \in {"signing", "uploading"} /\ failures < MaxFailures
  /\ failures' = failures + 1
  /\ uploads' = [uploads EXCEPT ![f] = "error"]
  /\ formUnchanged /\ UNCHANGED <<requests, missed>>

handleRemoveImage(f) ==
  /\ f \in UploadItems
  /\ uploads' = [uploads EXCEPT ![f] = "removed"]
  /\ formUnchanged /\ UNCHANGED <<requests, failures, missed>>

(* Mutant: pictures that are still on their way count. *)
FormImages_All == UploadItems

(* What the form has been told of: pictures whose upload is finished. *)
FormImages == {f \in Files : uploads[f] = "done"}

createProductSchema == FormImages # {} /\ Cardinality(FormImages) <= MAX_IMAGES_PER_PRODUCT

(* Uploads need not have finished.  An edit puts the rest of the form into *)
(* the table at once, a new product nothing; the options of the category   *)
(* are those of the time the form was opened.                              *)
SubmitForm(category) ==
  /\ page = "form" /\ ~Pending({"save", "create"})
  /\ createProductSchema
  /\ IF creating
       THEN /\ Send([Call("create", {form}, "") EXCEPT !.files = FormImages, !.category = category])
            /\ UNCHANGED <<fetch, fetched>>
       ELSE /\ Send([Call("save", {form}, "") EXCEPT !.files = FormImages, !.category = category,
                                                     !.kept = Snapshot])
            /\ CancelQueries
  /\ UNCHANGED <<server, cache, stale, page, selected, editor, failures, missed>>

(* The slug must be free for a new product, the product there for an edit, *)
(* and the category there for both.                                        *)
create(c) ==
  /\ c.op = "create"
  /\ IF c.ids \cap AllProducts = {} /\ c.category \in AllCategories
       THEN /\ rows' = [i \in Items |-> IF i \in c.ids THEN "ACTIVE" ELSE rows[i]]
            /\ home' = [p \in Products |-> IF p \in c.ids THEN c.category ELSE home[p]]
            /\ pictures' = [p \in Products |-> IF p \in c.ids THEN c.files ELSE pictures[p]]
            /\ Done(c)
       ELSE Refuse(c) /\ UNCHANGED <<rows, home, pictures>>
  /\ handlerUnchanged

update(c) ==
  /\ c.op = "save"
  /\ IF c.ids \subseteq AllProducts /\ c.category \in AllCategories
       THEN /\ home' = [p \in Products |-> IF p \in c.ids THEN c.category ELSE home[p]]
            /\ pictures' = [p \in Products |-> IF p \in c.ids THEN c.files ELSE pictures[p]]
            /\ Done(c)
       ELSE Refuse(c) /\ UNCHANGED <<home, pictures>>
  /\ UNCHANGED rows /\ handlerUnchanged

(* The admin is sent to the products table, whatever page is open by now.  *)
(* The table is read again after an edit, unless an older answer is still  *)
(* on its way; after a creation it may look fresh.                         *)
SaveDone(c) ==
  /\ c.op = "save" /\ c.phase = "done"
  /\ Show("products", calls \ {c})
  /\ stale' = stale \cup {"products"}
  /\ IF page = "products" \/ fetch["products"] = "none"
       THEN /\ fetch' = [fetch EXCEPT !["products"] = "asked"] /\ fetched' = Reset("products")
            /\ UNCHANGED missed
       ELSE missed' = missed \cup Products /\ UNCHANGED <<fetch, fetched>>
  /\ UNCHANGED <<cache, failures>> /\ clientUnchanged

SaveFails(c) ==
  /\ c.op = "save"
  /\ Errs(c)
  /\ Forget(c)
  /\ restoreProductsQueries(c)
  /\ Invalidate("products", {})
  /\ UNCHANGED <<page, selected, editor>> /\ clientUnchanged

CreateDone(c) ==
  /\ c.op = "create" /\ c.phase = "done"
  /\ Show("products", calls \ {c})
  /\ IF page = "products" THEN UNCHANGED <<fetch, requests>> ELSE Mount("products")
  /\ missed' = missed \cup c.ids
  /\ UNCHANGED <<server, cache, stale, fetched, failures, overlapped>>

CreateFails(c) == c.op = "create" /\ Toast(c) /\ clientUnchanged

----------------------------------------------------------------------------
(* Categories.                                                             *)

(* What a button of a table does at first: it sends its call. *)
Ask(op, i, to) ==
  /\ Send(Call(op, {i}, to))
  /\ UNCHANGED <<server, queries, page, selected, editor, failures, missed>>

(* The success of a call whose table is read again, or the error. *)
ReadAgain(c) ==
  /\ c.phase = "done"
  /\ Forget(c)
  /\ Invalidate(TableOfCall(c), {})
  /\ UNCHANGED <<cache, page, selected, editor, failures>>

CategoriesTable == page = "categories" /\ ConfirmDialog("removeCategory")

CategoryFormModal == CategoriesTable /\ ~Pending({"addCategory", "renameCategory"})

AddCategory(k) == CategoryFormModal /\ Ask("addCategory", k, "here")

RenameCategory(k) ==
  CategoryFormModal /\ cache[k] # "gone" /\ Ask("renameCategory", k, "here")

(* The dialog does not confirm for a category it shows with products. *)
DeleteCategoryDialog(k) ==
  CategoriesTable /\ cache[k] = "empty" /\ Ask("removeCategory", k, "gone")

(* The slug may be taken, by the category itself or by another one. *)
createCategory(c) ==
  /\ c.op = "addCategory"
  /\ IF c.ids \cap AllCategories = {}
       THEN rows' = [i \in Items |-> IF i \in c.ids THEN "here" ELSE rows[i]] /\ Done(c)
       ELSE Refuse(c) /\ UNCHANGED rows
  /\ UNCHANGED <<home, pictures>> /\ handlerUnchanged

updateCategory(c) ==
  /\ c.op = "renameCategory"
  /\ \/ c.ids \subseteq AllCategories /\ Done(c)
     \/ Refuse(c)
  /\ UNCHANGED <<rows, home, pictures>> /\ handlerUnchanged

removeCategory(c) ==
  /\ c.op = "removeCategory"
  /\ IF c.ids \subseteq AllCategories /\ \A k \in c.ids : Filed(k) = {}
       THEN rows' = [i \in Items |-> IF i \in c.ids THEN "gone" ELSE rows[i]] /\ Done(c)
       ELSE Refuse(c) /\ UNCHANGED rows
  /\ UNCHANGED <<home, pictures>> /\ handlerUnchanged

CategoryAnswer(c) ==
  /\ c.op \in CategoryOps
  /\ ReadAgain(c) \/ Toast(c)
  /\ clientUnchanged

----------------------------------------------------------------------------
(* Discount codes.                                                         *)

DiscountsTable ==
  page = "codes" /\ ConfirmDialog("removeCode") /\ ConfirmDialog("addCode")

CreateDiscountModal(d) == DiscountsTable /\ Ask("addCode", d, "on")

ToggleCode(d) ==
  /\ DiscountsTable /\ cache[d] \in {"on", "off"} /\ ~Pending({"toggleCode"})
  /\ Ask("toggleCode", d, IF cache[d] = "on" THEN "off" ELSE "on")

handleDeleteConfirm(d) ==
  DiscountsTable /\ cache[d] \in {"on", "off"} /\ Ask("removeCode", d, "deleted")

(* The name of a code is unique, also among those that are deleted. *)
createDiscount(c) ==
  /\ c.op = "addCode"
  /\ IF \A d \in c.ids : rows[d] = "gone"
       THEN rows' = [i \in Items |-> IF i \in c.ids THEN c.to ELSE rows[i]] /\ Done(c)
       ELSE Refuse(c) /\ UNCHANGED rows
  /\ UNCHANGED <<home, pictures>> /\ handlerUnchanged

changeDiscount(c) ==
  /\ c.op \in {"toggleCode", "removeCode"}
  /\ IF c.ids \subseteq AllCodes
       THEN rows' = [i \in Items |-> IF i \in c.ids THEN c.to ELSE rows[i]] /\ Done(c)
       ELSE Refuse(c) /\ UNCHANGED rows
  /\ UNCHANGED <<home, pictures>> /\ handlerUnchanged

CodeAnswer(c) ==
  /\ c.op \in CodeOps
  /\ ReadAgain(c) \/ Toast(c)
  /\ clientUnchanged

----------------------------------------------------------------------------
(* Settings.                                                               *)

handleSave(s, to) ==
  page = "settings" /\ ~Pending(SettingsOps) /\ Ask("saveSection", s, to)

GeneralSection  == \E to \in {"old", "new"} : handleSave("general", to)
SocialSection   == \E to \in {"old", "new"} : handleSave("social", to)
ShippingSection == \E to \in {"old", "new"} : handleSave("shipping", to)

(* Refused when the days of delivery do not fit.  The answer is the row. *)
updateSettings(c) ==
  /\ c.op = "saveSection"
  /\ \/ LET after == [i \in Items |-> IF i \in c.ids THEN c.to ELSE rows[i]]
        IN  /\ rows' = after
            /\ calls' = (calls \ {c}) \cup
                 {[c EXCEPT !.phase = "done",
                            !.kept = [i \in Items |-> IF i \in Sections THEN after[i] ELSE "gone"]]}
     \/ c.ids = {"shipping"} /\ Refuse(c) /\ UNCHANGED rows
  /\ UNCHANGED <<home, pictures>> /\ handlerUnchanged

(* The answer replaces what is shown; a query that was in flight replaces  *)
(* it in turn.                                                             *)
SettingsAnswer(c) ==
  /\ c.op = "saveSection"
  /\ \/ /\ c.phase = "done"
        /\ Forget(c)
        /\ cache' = [i \in Items |-> IF i \in Sections THEN c.kept[i] ELSE cache[i]]
        /\ stale' = stale \ {"settings"}
        /\ missed' = missed \cup
             (IF fetch["settings"] = "read" \/ c.n \in overlapped THEN Sections ELSE {})
        /\ UNCHANGED <<fetch, fetched, page, selected, editor, failures>>
     \/ Toast(c)
  /\ clientUnchanged

----------------------------------------------------------------------------
(* The handlers of the API, each for the calls that are on their way. *)
ProductsController(c) == create(c) \/ update(c) \/ remove(c)

AdminProductsController(c) == updateStatus(c) \/ bulkAction(c)

AdminCategoriesController(c) == createCategory(c) \/ updateCategory(c) \/ removeCategory(c)

AdminDiscountsController(c) == createDiscount(c) \/ changeDiscount(c)

AdminSiteSettingsController(c) == updateSettings(c)

Handle(c) ==
  /\ c.phase = "sent"
  /\ \/ ProductsController(c)        \/ AdminProductsController(c)
     \/ AdminCategoriesController(c) \/ AdminDiscountsController(c)
     \/ AdminSiteSettingsController(c)

Answer(c) ==
  \/ ChangeDone(c) \/ ChangeFails(c) \/ BulkDone(c) \/ BulkFails(c)
  \/ SaveDone(c) \/ SaveFails(c) \/ CreateDone(c) \/ CreateFails(c)
  \/ CategoryAnswer(c) \/ CodeAnswer(c) \/ SettingsAnswer(c)

ProductsPage ==
  \/ \E p \in Products : \/ toggleProductSelection(p) \/ DeleteProduct(p)
                         \/ OpenEditForm(p) \/ OpenNewForm(p)
                         \/ \E s \in PRODUCT_STATUSES : ChangeStatus(p, s)
  \/ toggleSelectAllOnPage \/ ClearSelection
  \/ \E action \in {"publish", "draft", "delete"} : BulkAction(action)

ProductForm ==
  \/ \E f \in Files : \/ \E valid \in BOOLEAN : addFiles(f, valid)
                      \/ generatePresignedUrl(f)
                      \/ uploadFileToS3(f) \/ uploadFile(f) \/ handleRemoveImage(f)
  \/ \E category \in Categories : SubmitForm(category)

OtherPages ==
  \/ \E k \in Categories : AddCategory(k) \/ RenameCategory(k) \/ DeleteCategoryDialog(k)
  \/ \E d \in Codes : CreateDiscountModal(d) \/ ToggleCode(d) \/ handleDeleteConfirm(d)
  \/ GeneralSection \/ SocialSection \/ ShippingSection

Next ==
  \/ \E t \in Tables : OpenPage(t) \/ FetchRead(t) \/ FetchArrives(t) \/ FetchFails(t)
  \/ ProductsPage \/ ProductForm \/ OtherPages
  \/ \E c \in calls : Handle(c) \/ Answer(c)

Spec == Init /\ [][Next]_vars

----------------------------------------------------------------------------
Agrees(i) ==
  IF i \in Categories THEN (cache[i] = "gone") <=> (Listed(i) = "gone") ELSE cache[i] = Listed(i)

(* Once every call about a table has ended and no query is in flight, the  *)
(* table on the screen is the table in the database, but for the rows the  *)
(* browser has missed a change of: nothing is left of a change that was    *)
(* shown ahead of its answer and refused, or put back over a newer one.    *)
ListsCatchUp ==
  \A t \in Tables :
    page = t /\ fetch[t] = "none" /\ InFlight(t) = {} =>
      \A i \in Of(t) \ missed : Agrees(i)

(* What the admin has chosen in the products table stays on the screen     *)
(* until the answer comes, unless another call or a query began meanwhile: *)
(* an older answer does not bring the row back as it was.                  *)
ChoiceStaysShown ==
  \A c \in calls : c.op \in {"status", "delete"} /\ c.n \notin overlapped =>
    \A p \in c.ids : cache[p] = (IF c.op = "status" THEN c.to ELSE "gone")
=============================================================================
