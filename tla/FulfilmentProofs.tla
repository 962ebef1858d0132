-------------------------- MODULE FulfilmentProofs --------------------------
(***************************************************************************)
(* The order on its way, for any number of browsers and requests: types,   *)
(* labels that were paid for, and the direction of production.             *)
(***************************************************************************)
EXTENDS Fulfilment, FiniteSetTheorems, TLAPS

Asked(op) == {j \in jobs : j.op = op}

(* A label is sold to a purchase, and a purchase or a change of status is  *)
(* a request: there are never more of them than requests were sent.        *)
Counted ==
  /\ IsFiniteSet(jobs)
  /\ bought + Cardinality(Asked("purchase")) <= requests
  /\ Cardinality(Asked("status")) <= requests

(* Handlers and pages speak of labels that exist. *)
LabelsExist ==
  /\ \A j \in jobs : j.op = "bought" => j.label \in 1..bought
  /\ \A j \in jobs : j.op = "tracker" => j.label \in delivered
  /\ \A a \in Admins : ShowsOrder(a) => page[a].label <= bought

TypeInv == TypeOK /\ Counted /\ LabelsExist

(* Two handlers of one operation are never in flight unnoticed. *)
OverlapsKnown ==
  \A j, k \in jobs : Operation(j) = Operation(k) => j = k \/ Operation(j) \in overlapped

(* While purchases come one at a time and none dies: one is started, and   *)
(* has its label sold, only for an order that never had one; and a label   *)
(* nobody holds is the order's.                                            *)
OneLabel ==
  "purchase" \in overlapped \/ failures > 0 \/
    (/\ \A j \in jobs : j.op = "purchase" => label = 0 /\ bought = 0
     /\ \A j \in jobs : j.op = "bought" => j.label = 1 /\ bought = 1 /\ label = 0
     /\ (\A j \in jobs : j.op # "bought") => 1..bought \subseteq {label})

(* A board's request was checked against the stage that is still there.    *)
StagesChecked ==
  "production" \in overlapped \/
    \A j \in jobs : j.op = "production" => isValidProductionStatusTransition(production, j.to)

StepInv == TypeInv /\ OverlapsKnown /\ OneLabel /\ StagesChecked

(***************************************************************************)
(* Types.                                                                  *)
(***************************************************************************)

(* Fewer handlers, or one more that is neither a purchase nor a change of  *)
(* status. *)
LEMMA CountStays ==
  ASSUME Counted, requests \in Nat, requests' \in {requests, requests + 1}, bought \in Nat,
         bought' = bought, NEW n, jobs' \subseteq jobs \cup {n},
         \A j \in jobs' : j.op \in {"purchase", "status"} => j \in jobs
  PROVE  Counted'
  <1>1. IsFiniteSet(jobs')
    <2>1. IsFiniteSet(jobs \cup {n})
      BY FS_AddElement DEF Counted
    <2> QED BY <2>1, FS_Subset
  <1>2. ASSUME NEW op \in {"purchase", "status"}
        PROVE  /\ Cardinality(Asked(op)) \in Nat /\ Cardinality(Asked(op)') \in Nat
               /\ Cardinality(Asked(op)') <= Cardinality(Asked(op))
    <2>1. Asked(op)' \subseteq Asked(op) /\ Asked(op) \subseteq jobs
      BY DEF Asked
    <2>2. IsFiniteSet(Asked(op))
      BY <2>1, FS_Subset DEF Counted
    <2>3. /\ IsFiniteSet(Asked(op)')
          /\ Cardinality(Asked(op)') <= Cardinality(Asked(op))
      BY <2>1, <2>2, FS_Subset
    <2> QED BY <2>2, <2>3, FS_CardinalityType
  <1>3. /\ Cardinality(Asked("purchase")) \in Nat /\ Cardinality(Asked("purchase")') \in Nat
        /\ Cardinality(Asked("purchase")') <= Cardinality(Asked("purchase"))
    BY <1>2
  <1>4. /\ Cardinality(Asked("status")) \in Nat /\ Cardinality(Asked("status")') \in Nat
        /\ Cardinality(Asked("status")') <= Cardinality(Asked("status"))
    BY <1>2
  <1> QED BY <1>1, <1>3, <1>4, SMT DEF Counted

(* A new handler of an operation that is counted. *)
LEMMA OneMoreAsked ==
  ASSUME Counted, requests \in Nat, requests' = requests + 1, bought \in Nat,
         bought' = bought, NEW n, jobs' = jobs \cup {n}, n.op \in {"purchase", "status"}
  PROVE  Counted'
  <1>1. IsFiniteSet(jobs')
    BY FS_AddElement DEF Counted
  <1>2. ASSUME NEW op \in {"purchase", "status"}
        PROVE  /\ Cardinality(Asked(op)) \in Nat /\ Cardinality(Asked(op)') \in Nat
               /\ Cardinality(Asked(op)') <= Cardinality(Asked(op)) + 1
    <2>1. IsFiniteSet(Asked(op))
      <3>1. Asked(op) \subseteq jobs
        BY DEF Asked
      <3> QED BY <3>1, FS_Subset DEF Counted
    <2>2. Asked(op)' = IF n.op = op THEN Asked(op) \cup {n} ELSE Asked(op)
      BY DEF Asked
    <2>3. /\ Cardinality(Asked(op)) \in Nat
          /\ IsFiniteSet(Asked(op) \cup {n})
          /\ Cardinality(Asked(op) \cup {n}) <= Cardinality(Asked(op)) + 1
      BY <2>1, FS_AddElement, FS_CardinalityType
    <2>4. Cardinality(Asked(op) \cup {n}) \in Nat
      BY <2>3, FS_CardinalityType
    <2> QED BY <2>2, <2>3, <2>4
  <1>3. /\ Cardinality(Asked("purchase")) \in Nat /\ Cardinality(Asked("purchase")') \in Nat
        /\ Cardinality(Asked("purchase")') <= Cardinality(Asked("purchase")) + 1
    BY <1>2
  <1>4. /\ Cardinality(Asked("status")) \in Nat /\ Cardinality(Asked("status")') \in Nat
        /\ Cardinality(Asked("status")') <= Cardinality(Asked("status")) + 1
    BY <1>2
  <1> QED BY <1>1, <1>3, <1>4, SMT DEF Counted

(* The purchase that is sold a label is counted as a label from then on. *)
LEMMA LabelForPurchase ==
  ASSUME Counted, requests \in Nat, requests' = requests, bought \in Nat,
         bought' = bought + 1, NEW j \in jobs, j.op = "purchase", NEW n, n.op = "bought",
         jobs' = (jobs \ {j}) \cup {n}
  PROVE  Counted'
  <1>1. IsFiniteSet(jobs')
    BY FS_AddElement, FS_RemoveElement DEF Counted
  <1>2. Asked("purchase")' = Asked("purchase") \ {j} /\ j \in Asked("purchase")
    BY DEF Asked
  <1>3. Asked("status")' = Asked("status")
    BY DEF Asked
  <1>4. IsFiniteSet(Asked("purchase"))
    <2>1. Asked("purchase") \subseteq jobs
      BY DEF Asked
    <2> QED BY <2>1, FS_Subset DEF Counted
  <1>5. /\ Cardinality(Asked("purchase")) \in Nat
        /\ Cardinality(Asked("purchase")') = Cardinality(Asked("purchase")) - 1
    BY <1>2, <1>4, FS_RemoveElement, FS_CardinalityType
  <1> QED BY <1>1, <1>3, <1>5, SMT DEF Counted

(* While a request may still be sent, a number is free for it. *)
LEMMA NumberIsFree ==
  ASSUME TypeOK, Counted, requests < MaxRequests
  PROVE  Unused \in 1..MaxRequests /\ \A j \in jobs : j.op = "status" => j.n # Unused
  <1>1. \E n \in 1..MaxRequests : \A j \in InFlight("status") : j.n # n
    <2>1. SUFFICES ASSUME \A n \in 1..MaxRequests : \E j \in InFlight("status") : j.n = n
                   PROVE  FALSE
      OBVIOUS
    <2> DEFINE f == [n \in 1..MaxRequests |-> CHOOSE j \in Asked("status") : j.n = n]
    <2>2. InFlight("status") = Asked("status")
      BY DEF InFlight, Operation, Asked
    <2>3. \A n \in 1..MaxRequests : f[n] \in Asked("status") /\ f[n].n = n
      BY <2>1, <2>2
    <2>4. f \in [1..MaxRequests -> Asked("status")]
      BY <2>3
    <2>5. /\ IsFiniteSet(Asked("status")) /\ Cardinality(Asked("status")) \in Nat
          /\ Cardinality(Asked("status")) <= requests
      <3>1. Asked("status") \subseteq jobs
        BY DEF Asked
      <3> QED BY <3>1, FS_Subset, FS_CardinalityType DEF Counted
    <2>6. /\ IsFiniteSet(1..MaxRequests) /\ Cardinality(1..MaxRequests) = MaxRequests
          /\ requests \in Nat /\ MaxRequests \in Nat
      BY FS_Interval, RequestsAssumption DEF TypeOK
    <2>7. Cardinality(Asked("status")) < Cardinality(1..MaxRequests)
      BY <2>5, <2>6
    <2> HIDE DEF f
    <2>8. PICK x, y \in 1..MaxRequests : x # y /\ f[x] = f[y]
      BY <2>4, <2>5, <2>6, <2>7, FS_PigeonHole
    <2> QED BY <2>3, <2>8
  <1>2. /\ Unused \in 1..MaxRequests
        /\ \A j \in InFlight("status") : j.n # Unused
    BY <1>1 DEF Unused
  <1> QED BY <1>2 DEF InFlight, Operation

(* What a page shows is read off its kind. *)
LEMMA KindsOfPages ==
  ASSUME TypeOK, NEW a \in Admins
  PROVE  /\ page[a] \in OrderPages \cup Lists \cup Boards \cup {NoPage}
         /\ ShowsOrder(a) => page[a] \in OrderPages
         /\ ShowsBoard(a) => page[a] \in Boards
  <1>1. page[a] \in OrderPages \cup Lists \cup Boards \cup {NoPage}
    BY DEF TypeOK
  <1> QED BY <1>1 DEF ShowsOrder, ShowsBoard, OrderPages, Lists, Boards, NoPage

(* The order page after an answer of the API. *)
LEMMA OrderShown ==
  ASSUME TypeInv, NEW a \in Admins, NEW s \in OrderStatuses, page' = ShowOrder(a, s),
         bought' = bought
  PROVE  /\ page' \in [Admins -> OrderPages \cup Lists \cup Boards \cup {NoPage}]
         /\ \A b \in Admins : ShowsOrder(b)' => page'[b].label <= bought'
  <1> DEFINE p == [on |-> "order", status |-> s, label |-> label]
  <1>1. label \in 0..bought /\ bought \in 0..requests /\ requests \in 0..MaxRequests
        /\ MaxRequests \in Nat
    BY RequestsAssumption DEF TypeInv, TypeOK
  <1>2. p \in OrderPages /\ p.label = label
    <2>1. label \in {0} \cup Labels
      BY <1>1 DEF Labels
    <2> QED BY <2>1 DEF OrderPages
  <1>3. page' = [page EXCEPT ![a] = p]
    BY DEF ShowOrder
  <1> HIDE DEF p
  <1>4. page \in [Admins -> OrderPages \cup Lists \cup Boards \cup {NoPage}]
    BY DEF TypeInv, TypeOK
  <1>5. page' \in [Admins -> OrderPages \cup Lists \cup Boards \cup {NoPage}]
    BY <1>2, <1>3, <1>4
  <1>6. ASSUME NEW b \in Admins, ShowsOrder(b)'
        PROVE  page'[b].label <= bought'
    <2>1. CASE b = a
      BY <1>1, <1>2, <1>3, <1>4, <2>1
    <2>2. CASE b # a
      <3>1. page'[b] = page[b]
        BY <1>3, <1>4, <2>2
      <3> QED BY <1>6, <3>1 DEF TypeInv, LabelsExist, ShowsOrder
    <2> QED BY <2>1, <2>2
  <1> QED BY <1>5, <1>6

(* A page that is not the order page speaks of no label. *)
LEMMA OtherShown ==
  ASSUME TypeInv, NEW a \in Admins, NEW p \in Lists \cup Boards \cup {NoPage},
         page' = [page EXCEPT ![a] = p], bought' = bought
  PROVE  /\ page' \in [Admins -> OrderPages \cup Lists \cup Boards \cup {NoPage}]
         /\ \A b \in Admins : ShowsOrder(b)' => page'[b].label <= bought'
  <1>1. page \in [Admins -> OrderPages \cup Lists \cup Boards \cup {NoPage}]
    BY DEF TypeInv, TypeOK
  <1>2. page' \in [Admins -> OrderPages \cup Lists \cup Boards \cup {NoPage}]
    BY <1>1
  <1>3. p.on # "order"
    BY DEF Lists, Boards, NoPage
  <1>4. ASSUME NEW b \in Admins, ShowsOrder(b)'
        PROVE  page'[b].label <= bought'
    <2>1. b # a
      BY <1>1, <1>3, <1>4 DEF ShowsOrder
    <2>2. page'[b] = page[b]
      BY <1>1, <2>1
    <2> QED BY <1>4, <2>2 DEF TypeInv, LabelsExist, ShowsOrder
  <1> QED BY <1>2, <1>4

(* A step that leaves row, EasyPost and handlers alone. *)
LEMMA OnlyPage ==
  ASSUME TypeInv, UNCHANGED <<row, easyPost, server>>,
         page' \in [Admins -> OrderPages \cup Lists \cup Boards \cup {NoPage}],
         \A b \in Admins : ShowsOrder(b)' => page'[b].label <= bought'
  PROVE  TypeInv'
  <1> USE DEF row, easyPost, server
  <1>1. TypeOK'
    BY DEF TypeInv, TypeOK
  <1>2. Counted'
    BY DEF TypeInv, Counted, Asked
  <1>3. LabelsExist'
    BY DEF TypeInv, LabelsExist
  <1> QED BY <1>1, <1>2, <1>3 DEF TypeInv

LEMMA LoadKeepsTypes ==
  ASSUME TypeInv, NEW a \in Admins, LoadOrder(a) \/ LoadList(a) \/ LoadBoard(a)
  PROVE  TypeInv'
  <1>1. CASE LoadOrder(a)
    <2>1. status \in OrderStatuses /\ bought' = bought
      BY <1>1 DEF LoadOrder, easyPost, TypeInv, TypeOK
    <2> QED BY <1>1, <2>1, OrderShown, OnlyPage DEF LoadOrder
  <1>2. CASE LoadList(a)
    <2> DEFINE p == [on |-> "list", status |-> status]
    <2>1. p \in Lists /\ bought' = bought
      BY <1>2 DEF LoadList, easyPost, TypeInv, TypeOK, Lists
    <2>2. page' = [page EXCEPT ![a] = p]
      BY <1>2 DEF LoadList
    <2> HIDE DEF p
    <2> QED BY <1>2, <2>1, <2>2, OtherShown, OnlyPage DEF LoadList
  <1>3. CASE LoadBoard(a)
    <2> DEFINE p == IF InProductionQueue
                      THEN [on |-> "board", production |-> production, notes |-> notes,
                            draft |-> IF ShowsBoard(a) THEN page[a].draft ELSE notes]
                      ELSE NoPage
    <2>1. (IF ShowsBoard(a) THEN page[a].draft ELSE notes) \in Notes
      BY KindsOfPages DEF TypeInv, TypeOK, Boards
    <2>2. p \in Lists \cup Boards \cup {NoPage} /\ bought' = bought
      BY <1>3, <2>1 DEF LoadBoard, easyPost, TypeInv, TypeOK, Boards
    <2>3. page' = [page EXCEPT ![a] = p]
      BY <1>3 DEF LoadBoard
    <2>4. UNCHANGED <<row, easyPost, server>>
      BY <1>3 DEF LoadBoard
    <2> HIDE DEF p
    <2> QED BY <2>2, <2>3, <2>4, OtherShown, OnlyPage
  <1> QED BY <1>1, <1>2, <1>3

(* A page that shows a label shows one that was bought: that is the label  *)
(* on the parcel, and the one the carrier speaks of.                       *)
LEMMA ParcelKeepsTypes ==
  ASSUME TypeInv, \/ \E a \in Admins : PostParcel(a)
                  \/ CarrierDelivers
                  \/ \E l \in delivered : TrackerIgnored(l)
  PROVE  TypeInv'
  <1>1. UNCHANGED <<row, bought, page, server>>
    BY DEF PostParcel, CarrierDelivers, TrackerIgnored
  <1>2. delivered \subseteq delivered' /\ delivered' \subseteq {parcel'} \ {0}
        /\ answered' \subseteq delivered'
    BY DEF PostParcel, CarrierDelivers, TrackerIgnored, TypeInv, TypeOK
  <1>3. parcel' \in 0..bought
    <2>1. CASE \E a \in Admins : PostParcel(a)
      <3>1. PICK a \in Admins : PostParcel(a)
        BY <2>1
      <3>2. /\ page[a] \in OrderPages /\ page[a].label <= bought
            /\ parcel' = page[a].label
        BY <3>1, KindsOfPages DEF PostParcel, TypeInv, LabelsExist
      <3>3. parcel' \in {0} \cup 1..MaxRequests
        BY <3>2 DEF OrderPages, Labels
      <3>4. bought \in 0..requests /\ requests \in 0..MaxRequests /\ MaxRequests \in Nat
        BY RequestsAssumption DEF TypeInv, TypeOK
      <3> QED BY <3>2, <3>3, <3>4
    <2>2. CASE ~\E a \in Admins : PostParcel(a)
      BY <2>2 DEF CarrierDelivers, TrackerIgnored, TypeInv, TypeOK
    <2> QED BY <2>1, <2>2
  <1> USE DEF row, server
  <1>4. TypeOK'
    BY <1>1, <1>2, <1>3 DEF TypeInv, TypeOK
  <1>5. Counted'
    BY <1>1 DEF TypeInv, Counted, Asked
  <1>6. LabelsExist'
    BY <1>1, <1>2 DEF TypeInv, LabelsExist, ShowsOrder
  <1> QED BY <1>4, <1>5, <1>6 DEF TypeInv

(* Every other step moves handlers; these are the kinds there are. *)
LEMMA KindsOfJobs ==
  ASSUME TypeOK, NEW j \in jobs
  PROVE  /\ j.op \in {"purchase", "bought"} =>
              j \in [op : {"purchase", "bought"}, by : Admins, label : {0} \cup Labels]
         /\ j.op = "status" =>
              j \in [op : {"status"}, n : 1..MaxRequests, by : Admins, to : OrderStatuses]
         /\ j.op = "production" =>
              j \in [op : {"production"}, by : Admins, to : ProductionStatuses, notes : Notes]
         /\ j.op = "tracker" => j \in [op : {"tracker"}, label : Labels]
         /\ Operation(j) \in Operations
  BY DEF TypeOK, Jobs, Operation, Operations

(* A handler that ends, or dies, whatever it writes to the row. *)
LEMMA EndKeepsTypes ==
  ASSUME TypeInv, NEW j \in jobs, Finish(j),
         UNCHANGED <<bought, parcel, delivered, requests, overlapped>>,
         status' \in OrderStatuses, label' \in 0..bought,
         tracking' \in {HandTyped} \cup 0..bought, production' \in ProductionStatuses,
         notes' \in Notes, answered' \subseteq delivered, failures' \in 0..MaxFailures,
         page' \in [Admins -> OrderPages \cup Lists \cup Boards \cup {NoPage}],
         \A a \in Admins : ShowsOrder(a)' => page'[a].label <= bought'
  PROVE  TypeInv'
  <1>1. jobs' \subseteq jobs /\ requests \in Nat /\ bought \in Nat
    BY RequestsAssumption DEF Finish, TypeInv, TypeOK
  <1>2. TypeOK'
    BY <1>1 DEF TypeInv, TypeOK
  <1>3. Counted'
    BY <1>1, CountStays DEF TypeInv
  <1>4. LabelsExist'
    BY <1>1 DEF TypeInv, LabelsExist
  <1> QED BY <1>2, <1>3, <1>4 DEF TypeInv

LEMMA EndsKeepTypes ==
  ASSUME TypeInv, NEW j \in jobs,
         PurchaseWrite(j) \/ ChangeStatusCommit(j) \/ ProductionCommit(j) \/ TrackerCommit(j)
           \/ HandlerDies(j)
  PROVE  TypeInv'
  <1> USE DEF row, easyPost
  <1>1. /\ status \in OrderStatuses /\ label \in 0..bought
        /\ tracking \in {HandTyped} \cup 0..bought /\ production \in ProductionStatuses
        /\ notes \in Notes /\ answered \subseteq delivered /\ failures \in 0..MaxFailures
        /\ page \in [Admins -> OrderPages \cup Lists \cup Boards \cup {NoPage}]
        /\ \A a \in Admins : ShowsOrder(a) => page[a].label <= bought
        /\ bought \in Nat
    BY RequestsAssumption DEF TypeInv, TypeOK, LabelsExist
  <1>2. CASE PurchaseWrite(j)
    <2>1. j.label \in 0..bought
      BY <1>1, <1>2 DEF PurchaseWrite, TypeInv, LabelsExist
    <2> QED BY <1>1, <1>2, <2>1, EndKeepsTypes DEF PurchaseWrite, ShowsOrder
  <1>3. CASE ChangeStatusCommit(j)
    <2>1. j.to \in OrderStatuses /\ j.by \in Admins
      BY <1>3, KindsOfJobs DEF ChangeStatusCommit, TypeInv
    <2>2. /\ page' \in [Admins -> OrderPages \cup Lists \cup Boards \cup {NoPage}]
          /\ \A a \in Admins : ShowsOrder(a)' => page'[a].label <= bought'
      <3>1. bought' = bought
        BY <1>3 DEF ChangeStatusCommit
      <3>2. CASE ShowsOrder(j.by)
        BY <1>3, <2>1, <3>1, <3>2, OrderShown DEF ChangeStatusCommit
      <3>3. CASE ~ShowsOrder(j.by)
        BY <1>1, <1>3, <3>1, <3>3 DEF ChangeStatusCommit, ShowsOrder
      <3> QED BY <3>2, <3>3
    <2>3. /\ status' = j.to /\ Finish(j)
          /\ UNCHANGED <<label, tracking, production, notes, bought, parcel, delivered, answered,
                         requests, failures, overlapped>>
      BY <1>3 DEF ChangeStatusCommit
    <2> QED BY <1>1, <2>1, <2>2, <2>3, EndKeepsTypes
  <1>4. CASE ProductionCommit(j)
    <2>1. j.to \in ProductionStatuses /\ j.notes \in Notes
      BY <1>4, KindsOfJobs DEF ProductionCommit, TypeInv
    <2> QED BY <1>1, <1>4, <2>1, EndKeepsTypes DEF ProductionCommit, ShowsOrder
  <1>5. CASE TrackerCommit(j)
    <2>1. j.label \in delivered /\ "DELIVERED" \in OrderStatuses
      BY <1>5 DEF TrackerCommit, TypeInv, LabelsExist, OrderStatuses
    <2> QED BY <1>1, <1>5, <2>1, EndKeepsTypes DEF TrackerCommit, ShowsOrder
  <1>6. CASE HandlerDies(j)
    <2>1. failures' \in 0..MaxFailures
      BY <1>1, <1>6, FailuresAssumption DEF HandlerDies
    <2> QED BY <1>1, <1>6, <2>1, EndKeepsTypes DEF HandlerDies, ShowsOrder
  <1> QED BY <1>2, <1>3, <1>4, <1>5, <1>6

(* A handler that starts: a request is sent, or an event is taken. *)
LEMMA StartKeepsTypes ==
  ASSUME TypeInv, NEW n \in Jobs, Start(n), n.op # "bought", n.op \in Operations,
         n.op = "tracker" => n.label \in delivered,
         UNCHANGED <<row, easyPost, failures>>,
         requests' \in {requests, requests + 1}, requests' \in 0..MaxRequests,
         n.op \in {"purchase", "status"} => requests' = requests + 1,
         page' \in [Admins -> OrderPages \cup Lists \cup Boards \cup {NoPage}],
         \A a \in Admins : ShowsOrder(a)' => page'[a].label <= bought
  PROVE  TypeInv'
  <1> USE DEF row, easyPost
  <1>1. jobs' = jobs \cup {n} /\ overlapped' \subseteq overlapped \cup {n.op}
        /\ requests \in Nat /\ bought \in Nat /\ bought' = bought
    BY RequestsAssumption DEF Start, TypeInv, TypeOK
  <1>2. TypeOK'
    BY <1>1, RequestsAssumption DEF TypeInv, TypeOK
  <1>3. Counted'
    <2>1. CASE n.op \in {"purchase", "status"}
      BY <1>1, <2>1, OneMoreAsked DEF TypeInv
    <2>2. CASE n.op \notin {"purchase", "status"}
      BY <1>1, <2>2, CountStays DEF TypeInv
    <2> QED BY <2>1, <2>2
  <1>4. LabelsExist'
    BY <1>1 DEF TypeInv, LabelsExist
  <1> QED BY <1>2, <1>3, <1>4 DEF TypeInv

LEMMA RequestsKeepTypes ==
  ASSUME TypeInv, NEW a \in Admins,
         \/ PurchaseRead(a)
         \/ \E to \in OrderStatuses : ChangeStatusRead(a, to)
         \/ \E to \in ProductionStatuses : SelectProduction(a, to)
         \/ \E note \in Notes : SaveNotes(a, note)
  PROVE  TypeInv'
  <1>1. /\ requests \in 0..MaxRequests /\ MaxRequests \in Nat
        /\ page \in [Admins -> OrderPages \cup Lists \cup Boards \cup {NoPage}]
        /\ \A b \in Admins : ShowsOrder(b) => page[b].label <= bought
    BY RequestsAssumption DEF TypeInv, TypeOK, LabelsExist
  <1>2. Send => requests' = requests + 1 /\ requests' \in 0..MaxRequests
    BY <1>1 DEF Send
  <1>3. CASE PurchaseRead(a)
    <2> DEFINE n == [op |-> "purchase", by |-> a, label |-> 0]
    <2>1. n \in Jobs /\ n.op = "purchase" /\ n.op \in Operations
      BY DEF Jobs, Operations
    <2>2. Start(n) /\ Send /\ UNCHANGED <<row, easyPost, page, failures>>
      BY <1>3 DEF PurchaseRead
    <2> HIDE DEF n
    <2> QED BY <1>1, <1>2, <2>1, <2>2, StartKeepsTypes DEF ShowsOrder
  <1>4. CASE \E to \in OrderStatuses : ChangeStatusRead(a, to)
    <2>1. PICK to \in OrderStatuses : ChangeStatusRead(a, to)
      BY <1>4
    <2> DEFINE n == [op |-> "status", n |-> Unused, by |-> a, to |-> to]
    <2>2. Unused \in 1..MaxRequests
      BY <2>1, NumberIsFree DEF ChangeStatusRead, Send, TypeInv
    <2>3. n \in Jobs /\ n.op = "status" /\ n.op \in Operations
      BY <2>2 DEF Jobs, Operations
    <2>4. Start(n) /\ Send /\ UNCHANGED <<row, easyPost, page, failures>>
      BY <2>1 DEF ChangeStatusRead
    <2> HIDE DEF n
    <2> QED BY <1>1, <1>2, <2>3, <2>4, StartKeepsTypes DEF ShowsOrder
  <1>5. ASSUME NEW to \in ProductionStatuses, NEW note \in Notes, ProductionRead(a, to, note),
               page' \in [Admins -> OrderPages \cup Lists \cup Boards \cup {NoPage}],
               \A b \in Admins : ShowsOrder(b)' => page'[b].label <= bought
        PROVE  TypeInv'
    <2> DEFINE n == [op |-> "production", by |-> a, to |-> to, notes |-> note]
    <2>1. n \in Jobs /\ n.op = "production" /\ n.op \in Operations
      BY DEF Jobs, Operations
    <2>2. Start(n) /\ Send /\ UNCHANGED <<row, easyPost, failures>>
      BY <1>5 DEF ProductionRead
    <2> HIDE DEF n
    <2> QED BY <1>2, <1>5, <2>1, <2>2, StartKeepsTypes
  <1>6. CASE \E to \in ProductionStatuses : SelectProduction(a, to)
    <2>1. PICK to \in ProductionStatuses : SelectProduction(a, to)
      BY <1>6
    <2>2. /\ ProductionRead(a, to, page[a].notes) /\ page' = page
          /\ page[a].notes \in Notes
      BY <2>1, KindsOfPages DEF SelectProduction, Boards, TypeInv
    <2> QED BY <1>1, <1>5, <2>2 DEF ShowsOrder
  <1>7. CASE \E note \in Notes : SaveNotes(a, note)
    <2>1. PICK note \in Notes : SaveNotes(a, note)
      BY <1>7
    <2>2. page[a] \in Boards /\ page[a].production \in ProductionStatuses
      BY <2>1, KindsOfPages DEF SaveNotes, Boards, TypeInv
    <2>3. ProductionRead(a, page[a].production, note) /\ bought' = bought
      BY <2>1 DEF SaveNotes, ProductionRead, easyPost
    <2> DEFINE p == [page[a] EXCEPT !.draft = note]
    <2>4. p \in Lists \cup Boards \cup {NoPage}
      BY <2>2 DEF Boards
    <2>5. page' = [page EXCEPT ![a] = p]
      BY <2>1 DEF SaveNotes
    <2> HIDE DEF p
    <2>6. /\ page' \in [Admins -> OrderPages \cup Lists \cup Boards \cup {NoPage}]
          /\ \A b \in Admins : ShowsOrder(b)' => page'[b].label <= bought
      BY <2>3, <2>4, <2>5, OtherShown
    <2> QED BY <1>5, <2>2, <2>3, <2>6
  <1> QED BY <1>3, <1>4, <1>6, <1>7

LEMMA TrackerKeepsTypes ==
  ASSUME TypeInv, NEW l \in delivered, TrackerRead(l)
  PROVE  TypeInv'
  <1> DEFINE n == [op |-> "tracker", label |-> l]
  <1>1. l \in Labels
    BY RequestsAssumption DEF TypeInv, TypeOK, Labels
  <1>2. n \in Jobs /\ n.op = "tracker" /\ n.label = l /\ n.op \in Operations
    BY <1>1 DEF Jobs, Operations
  <1>3. Start(n) /\ UNCHANGED <<row, easyPost, page, requests, failures>>
    BY DEF TrackerRead
  <1>4. /\ requests \in 0..MaxRequests /\ bought' = bought
        /\ page \in [Admins -> OrderPages \cup Lists \cup Boards \cup {NoPage}]
        /\ \A b \in Admins : ShowsOrder(b) => page[b].label <= bought
    BY <1>3 DEF TypeInv, TypeOK, LabelsExist, easyPost
  <1> HIDE DEF n
  <1> QED BY <1>2, <1>3, <1>4, StartKeepsTypes DEF ShowsOrder

(* The API does not look at the order: any number is taken. *)
LEMMA SaveTrackingKeepsTypes ==
  ASSUME TypeInv, NEW a \in Admins, SaveTracking(a)
  PROVE  TypeInv'
  <1> USE DEF easyPost
  <1>1. /\ requests' = requests + 1 /\ requests' \in 0..MaxRequests /\ requests \in Nat
        /\ UNCHANGED <<status, label, production, notes, easyPost, jobs, failures>>
        /\ tracking' = HandTyped /\ bought \in Nat
    BY RequestsAssumption DEF SaveTracking, Send, TypeInv, TypeOK
  <1>2. overlapped' \subseteq Operations
    BY DEF SaveTracking, TypeInv, TypeOK
  <1>3. /\ page' \in [Admins -> OrderPages \cup Lists \cup Boards \cup {NoPage}]
        /\ \A b \in Admins : ShowsOrder(b)' => page'[b].label <= bought'
    <2>1. status \in OrderStatuses /\ bought' = bought /\ page' = ShowOrder(a, status)
      BY <1>1 DEF SaveTracking, TypeInv, TypeOK
    <2> QED BY <2>1, OrderShown
  <1>4. TypeOK'
    BY <1>1, <1>2, <1>3 DEF TypeInv, TypeOK
  <1>5. Counted'
    BY <1>1, CountStays DEF TypeInv
  <1>6. LabelsExist'
    BY <1>1, <1>3 DEF TypeInv, LabelsExist
  <1> QED BY <1>4, <1>5, <1>6 DEF TypeInv

(* A label is sold to a purchase that was counted, so there is a number    *)
(* for it. *)
LEMMA BuyKeepsTypes ==
  ASSUME TypeInv, NEW j \in jobs, PurchaseBuy(j)
  PROVE  TypeInv'
  <1> DEFINE n == [j EXCEPT !.op = "bought", !.label = bought + 1]
  <1>1. /\ j.op = "purchase" /\ bought' = bought + 1 /\ jobs' = (jobs \ {j}) \cup {n}
        /\ UNCHANGED <<row, parcel, delivered, answered, page, requests, failures, overlapped>>
    BY DEF PurchaseBuy
  <1>2. j \in [op : {"purchase", "bought"}, by : Admins, label : {0} \cup Labels]
    BY <1>1, KindsOfJobs DEF TypeInv
  <1>3. n = [op |-> "bought", by |-> j.by, label |-> bought + 1]
    <2> DEFINE x == [j EXCEPT !.op = "bought"]
    <2>1. x = [op |-> "bought", by |-> j.by, label |-> j.label]
      BY <1>2
    <2>2. n = [x EXCEPT !.label = bought + 1]
      OBVIOUS
    <2> HIDE DEF x
    <2> QED BY <2>1, <2>2
  <1>4. /\ requests \in 0..MaxRequests /\ MaxRequests \in Nat /\ bought \in Nat /\ requests \in Nat
    BY RequestsAssumption DEF TypeInv, TypeOK
  <1>5. n.op = "bought" /\ n.label = bought + 1
    BY <1>3
  <1>6. Counted'
    BY <1>1, <1>4, <1>5, LabelForPurchase DEF TypeInv
  <1>7. bought' \in 0..requests
    <2>1. IsFiniteSet(Asked("purchase")')
      <3>1. Asked("purchase")' \subseteq jobs'
        BY DEF Asked
      <3> QED BY <1>6, <3>1, FS_Subset DEF Counted
    <2>2. Cardinality(Asked("purchase")') \in Nat
      BY <2>1, FS_CardinalityType
    <2> QED BY <1>1, <1>4, <1>6, <2>2, SMT DEF Counted
  <1>8. n \in Jobs
    BY <1>1, <1>2, <1>3, <1>4, <1>7 DEF Jobs, Labels
  <1> HIDE DEF n
  <1> USE DEF row
  <1>9. TypeOK'
    BY <1>1, <1>4, <1>7, <1>8 DEF TypeInv, TypeOK
  <1>10. LabelsExist'
    <2>1. \A k \in jobs' : k.op = "bought" => k.label \in 1..bought'
      BY <1>1, <1>4, <1>5 DEF TypeInv, LabelsExist
    <2>2. \A k \in jobs' : k.op = "tracker" => k.label \in delivered'
      BY <1>1, <1>5 DEF TypeInv, LabelsExist
    <2>3. ASSUME NEW a \in Admins, ShowsOrder(a)'
          PROVE  page'[a].label <= bought'
      <3>1. ShowsOrder(a) /\ page' = page
        BY <1>1, <2>3 DEF ShowsOrder
      <3>2. page[a].label \in {0} \cup 1..MaxRequests /\ page[a].label <= bought
        BY <3>1, KindsOfPages DEF TypeInv, LabelsExist, OrderPages, Labels
      <3> QED BY <1>1, <1>4, <3>1, <3>2
    <2> QED BY <2>1, <2>2, <2>3 DEF LabelsExist
  <1> QED BY <1>6, <1>9, <1>10 DEF TypeInv

LEMMA TypesAreInductive ==
  /\ Init => TypeInv
  /\ TypeInv /\ [Next]_vars => TypeInv'
  <1>1. ASSUME Init
        PROVE  TypeInv
    <2> USE <1>1 DEF Init
    <2>1. TypeOK
      BY FirstStatusAssumption, RequestsAssumption, FailuresAssumption
      DEF TypeOK, OrderStatuses, ProductionStatuses, PRODUCTION_STATUSES, Notes
    <2>2. Counted
      <3>1. Asked("purchase") = {} /\ Asked("status") = {}
        BY DEF Asked
      <3> QED BY <3>1, FS_EmptySet DEF Counted
    <2>3. LabelsExist
      BY DEF LabelsExist, ShowsOrder, NoPage
    <2> QED BY <2>1, <2>2, <2>3 DEF TypeInv
  <1>2. ASSUME TypeInv, [Next]_vars
        PROVE  TypeInv'
    <2>1. CASE \E a \in Admins : OrderPage(a)
      BY <1>2, <2>1, LoadKeepsTypes, RequestsKeepTypes, SaveTrackingKeepsTypes, ParcelKeepsTypes
      DEF OrderPage
    <2>2. CASE \E a \in Admins : BoardPage(a)
      BY <1>2, <2>2, LoadKeepsTypes, RequestsKeepTypes DEF BoardPage
    <2>3. CASE \E j \in jobs : Handler(j) \/ HandlerDies(j)
      BY <1>2, <2>3, BuyKeepsTypes, EndsKeepTypes DEF Handler
    <2>4. CASE CarrierDelivers \/ \E l \in delivered : TrackerIgnored(l) \/ TrackerRead(l)
      BY <1>2, <2>4, ParcelKeepsTypes, TrackerKeepsTypes
    <2>5. CASE UNCHANGED vars
      <3>1. UNCHANGED <<row, easyPost, server>> /\ UNCHANGED page /\ bought' = bought
        BY <2>5 DEF vars, easyPost
      <3>2. /\ page \in [Admins -> OrderPages \cup Lists \cup Boards \cup {NoPage}]
            /\ \A b \in Admins : ShowsOrder(b) => page[b].label <= bought
        BY <1>2 DEF TypeInv, TypeOK, LabelsExist
      <3> QED BY <1>2, <3>1, <3>2, OnlyPage DEF ShowsOrder
    <2> QED BY <1>2, <2>1, <2>2, <2>3, <2>4, <2>5 DEF Next
  <1> QED BY <1>1, <1>2

(* Every reachable state is well typed, for any number of browsers and     *)
(* requests.  In particular a parcel carries, the carrier reports, and the *)
(* order row names, only labels that EasyPost has sold (purchaseLabel),    *)
(* and each label sold was asked for by a request of its own.              *)
THEOREM FulfilmentTypes == Spec => []TypeOK
  <1>1. Init => TypeInv
    BY TypesAreInductive
  <1>2. TypeInv /\ [Next]_vars => TypeInv'
    BY TypesAreInductive
  <1>3. TypeInv => TypeOK
    BY DEF TypeInv
  <1> QED BY <1>1, <1>2, <1>3, PTL DEF Spec

(***************************************************************************)
(* Labels and stages.                                                      *)
(***************************************************************************)

(* A step that sells no label, writes neither label nor stage, and lets    *)
(* handlers end: if it is one that holds a label, then by dying.           *)
LEMMA QuietKeeps ==
  ASSUME StepInv, jobs' \subseteq jobs,
         UNCHANGED <<label, bought, production, overlapped>>,
         \/ failures' > 0
         \/ failures' = failures /\ \A j \in jobs : j.op = "bought" => j \in jobs'
  PROVE  (OverlapsKnown /\ OneLabel /\ StagesChecked)'
  <1>1. OverlapsKnown'
    BY DEF StepInv, OverlapsKnown
  <1>2. OneLabel'
    BY DEF StepInv, OneLabel
  <1>3. StagesChecked'
    BY DEF StepInv, StagesChecked
  <1> QED BY <1>1, <1>2, <1>3

(* A handler starts.  A purchase is let in only when the row has no label, *)
(* a stage only when it may follow the one in the row.                     *)
LEMMA StartKeeps ==
  ASSUME StepInv, NEW n, Start(n), n.op # "bought",
         UNCHANGED <<label, bought, production, failures>>,
         n.op = "purchase" => label = 0,
         n.op = "production" => isValidProductionStatusTransition(production, n.to)
  PROVE  (OverlapsKnown /\ OneLabel /\ StagesChecked)'
  <1>1. /\ jobs' = jobs \cup {n} /\ overlapped \subseteq overlapped'
        /\ \A j \in jobs : Operation(j) = n.op => n.op \in overlapped'
        /\ Operation(n) = n.op
    BY DEF Start, InFlight, Operation
  <1>2. OverlapsKnown'
    BY <1>1 DEF StepInv, OverlapsKnown
  <1>3. OneLabel'
    <2>1. CASE n.op # "purchase"
      BY <1>1, <2>1 DEF StepInv, OneLabel
    <2>2. CASE n.op = "purchase"
      <3>1. SUFFICES ASSUME "purchase" \notin overlapped', ~(failures' > 0)
                     PROVE  bought = 0
        BY <1>1, <2>2 DEF OneLabel, StepInv, TypeInv, TypeOK, Operation
      <3>2. \A j \in jobs : j.op # "bought"
        BY <1>1, <2>2, <3>1 DEF Operation
      <3>3. 1..bought \subseteq {0} /\ bought \in Nat
        BY <1>1, <2>2, <3>1, <3>2, RequestsAssumption DEF StepInv, OneLabel, TypeInv, TypeOK
      <3>4. bought # 0 => 1 \in 1..bought
        BY <3>3
      <3> QED BY <3>3, <3>4
    <2> QED BY <2>1, <2>2
  <1>4. StagesChecked'
    BY <1>1 DEF StepInv, StagesChecked
  <1> QED BY <1>2, <1>3, <1>4

(* The one purchase gets the first label. *)
LEMMA BuyKeeps ==
  ASSUME StepInv, NEW j \in jobs, PurchaseBuy(j)
  PROVE  (OverlapsKnown /\ OneLabel /\ StagesChecked)'
  <1> DEFINE n == [j EXCEPT !.op = "bought", !.label = bought + 1]
  <1>1. /\ j.op = "purchase" /\ bought' = bought + 1 /\ jobs' = (jobs \ {j}) \cup {n}
        /\ UNCHANGED <<label, production, failures, overlapped>>
    BY DEF PurchaseBuy, row
  <1>2. n.op = "bought" /\ n.label = bought + 1
    <2>1. j \in [op : {"purchase", "bought"}, by : Admins, label : {0} \cup Labels]
      BY <1>1, KindsOfJobs DEF StepInv, TypeInv
    <2> QED BY <2>1
  <1> HIDE DEF n
  <1>3. Operation(n) = "purchase" /\ Operation(j) = "purchase"
    BY <1>1, <1>2 DEF Operation
  <1>4. OverlapsKnown'
    BY <1>1, <1>3 DEF StepInv, OverlapsKnown
  <1>5. OneLabel'
    <2>1. SUFFICES ASSUME "purchase" \notin overlapped, ~(failures > 0)
                   PROVE  OneLabel'
      BY <1>1 DEF OneLabel
    <2>2. label = 0 /\ bought = 0
      BY <1>1, <2>1 DEF StepInv, OneLabel
    <2>3. \A k \in jobs : k.op \in {"purchase", "bought"} => k = j
      BY <1>1, <1>3, <2>1 DEF StepInv, OverlapsKnown, Operation
    <2> QED BY <1>1, <1>2, <2>2, <2>3 DEF OneLabel
  <1>6. StagesChecked'
    BY <1>1, <1>2 DEF StepInv, StagesChecked
  <1> QED BY <1>4, <1>5, <1>6

(* ... and writes it to the order. *)
LEMMA WriteKeeps ==
  ASSUME StepInv, NEW j \in jobs, PurchaseWrite(j)
  PROVE  (OverlapsKnown /\ OneLabel /\ StagesChecked)'
  <1>1. /\ j.op = "bought" /\ label' = j.label /\ jobs' = jobs \ {j}
        /\ UNCHANGED <<bought, production, failures, overlapped>>
    BY DEF PurchaseWrite, Finish, easyPost
  <1>2. OverlapsKnown'
    BY <1>1 DEF StepInv, OverlapsKnown
  <1>3. OneLabel'
    <2>1. SUFFICES ASSUME "purchase" \notin overlapped, ~(failures > 0)
                   PROVE  OneLabel'
      BY <1>1 DEF OneLabel
    <2>2. j.label = 1 /\ bought = 1
      BY <1>1, <2>1 DEF StepInv, OneLabel
    <2>3. \A k \in jobs : k.op \in {"purchase", "bought"} => k = j
      BY <1>1, <2>1 DEF StepInv, OverlapsKnown, Operation
    <2> QED BY <1>1, <2>2, <2>3 DEF OneLabel
  <1>4. StagesChecked'
    BY <1>1 DEF StepInv, StagesChecked
  <1> QED BY <1>2, <1>3, <1>4

(* The stage is written: no other request was checked against the old one. *)
LEMMA StageKeeps ==
  ASSUME StepInv, NEW j \in jobs, ProductionCommit(j)
  PROVE  (OverlapsKnown /\ OneLabel /\ StagesChecked)'
  <1>1. /\ j.op = "production" /\ jobs' = jobs \ {j}
        /\ UNCHANGED <<label, bought, failures, overlapped>>
    BY DEF ProductionCommit, Finish, easyPost
  <1>2. OverlapsKnown'
    BY <1>1 DEF StepInv, OverlapsKnown
  <1>3. OneLabel'
    BY <1>1 DEF StepInv, OneLabel
  <1>4. StagesChecked'
    BY <1>1 DEF StepInv, StagesChecked, OverlapsKnown, Operation
  <1> QED BY <1>2, <1>3, <1>4

LEMMA StepsAreInductive ==
  /\ Init => StepInv
  /\ StepInv /\ [Next]_vars => StepInv'
  <1>1. ASSUME Init
        PROVE  StepInv
    <2>1. TypeInv
      BY <1>1, TypesAreInductive
    <2> QED BY <1>1, <2>1 DEF Init, StepInv, OverlapsKnown, OneLabel, StagesChecked
  <1>2. ASSUME StepInv, [Next]_vars
        PROVE  StepInv'
    <2> USE DEF row, easyPost, server
    <2>1. TypeInv'
      BY <1>2, TypesAreInductive DEF StepInv
    <2>2. failures \in Nat
      BY <1>2, FailuresAssumption DEF StepInv, TypeInv, TypeOK
    <2>3. ASSUME NEW a \in Admins, OrderPage(a)
          PROVE  (OverlapsKnown /\ OneLabel /\ StagesChecked)'
      <3>1. CASE LoadOrder(a) \/ LoadList(a) \/ PostParcel(a)
        BY <1>2, <3>1, QuietKeeps DEF LoadOrder, LoadList, PostParcel
      <3>2. CASE SaveTracking(a)
        BY <1>2, <3>2, QuietKeeps DEF SaveTracking
      <3>3. CASE PurchaseRead(a)
        <4> DEFINE n == [op |-> "purchase", by |-> a, label |-> 0]
        <4>1. /\ Start(n) /\ label = 0 /\ UNCHANGED <<label, bought, production, failures>>
          BY <3>3 DEF PurchaseRead, LabelAllowed
        <4>2. n.op = "purchase"
          OBVIOUS
        <4> HIDE DEF n
        <4> QED BY <1>2, <4>1, <4>2, StartKeeps
      <3>4. CASE \E to \in OrderStatuses : ChangeStatusRead(a, to)
        <4>1. PICK to \in OrderStatuses : ChangeStatusRead(a, to)
          BY <3>4
        <4> DEFINE n == [op |-> "status", n |-> Unused, by |-> a, to |-> to]
        <4>2. /\ Start(n) /\ UNCHANGED <<label, bought, production, failures>>
          BY <4>1 DEF ChangeStatusRead
        <4>3. n.op = "status"
          OBVIOUS
        <4> HIDE DEF n
        <4> QED BY <1>2, <4>2, <4>3, StartKeeps
      <3> QED BY <2>3, <3>1, <3>2, <3>3, <3>4 DEF OrderPage
    <2>4. ASSUME NEW a \in Admins, BoardPage(a)
          PROVE  (OverlapsKnown /\ OneLabel /\ StagesChecked)'
      <3>1. CASE LoadBoard(a)
        BY <1>2, <3>1, QuietKeeps DEF LoadBoard
      <3>2. CASE ~LoadBoard(a)
        <4>1. PICK to, note : ProductionRead(a, to, note)
          BY <2>4, <3>2 DEF BoardPage, SelectProduction, SaveNotes
        <4> DEFINE n == [op |-> "production", by |-> a, to |-> to, notes |-> note]
        <4>2. /\ Start(n) /\ isValidProductionStatusTransition(production, to)
              /\ UNCHANGED <<label, bought, production, failures>>
          BY <4>1 DEF ProductionRead
        <4>3. n.op = "production" /\ n.to = to
          OBVIOUS
        <4> HIDE DEF n
        <4> QED BY <1>2, <4>2, <4>3, StartKeeps
      <3> QED BY <3>1, <3>2
    <2>5. ASSUME NEW j \in jobs, Handler(j) \/ HandlerDies(j)
          PROVE  (OverlapsKnown /\ OneLabel /\ StagesChecked)'
      <3>1. CASE PurchaseBuy(j) \/ PurchaseWrite(j) \/ ProductionCommit(j)
        BY <1>2, <3>1, BuyKeeps, WriteKeeps, StageKeeps
      <3>2. CASE ChangeStatusCommit(j) \/ TrackerCommit(j)
        <4>1. j.op # "bought" /\ Finish(j) /\ UNCHANGED <<label, bought, production, failures, overlapped>>
          BY <3>2 DEF ChangeStatusCommit, TrackerCommit
        <4> QED BY <1>2, <4>1, QuietKeeps DEF Finish
      <3>3. CASE HandlerDies(j)
        <4>1. failures' > 0 /\ Finish(j) /\ UNCHANGED <<label, bought, production, overlapped>>
          BY <2>2, <3>3 DEF HandlerDies
        <4> QED BY <1>2, <4>1, QuietKeeps DEF Finish
      <3> QED BY <2>5, <3>1, <3>2, <3>3 DEF Handler
    <2>6. ASSUME CarrierDelivers \/ (\E l \in delivered : TrackerIgnored(l)) \/ UNCHANGED vars
          PROVE  (OverlapsKnown /\ OneLabel /\ StagesChecked)'
      BY <1>2, <2>6, QuietKeeps DEF CarrierDelivers, TrackerIgnored, vars
    <2>7. ASSUME NEW l \in delivered, TrackerRead(l)
          PROVE  (OverlapsKnown /\ OneLabel /\ StagesChecked)'
      <3> DEFINE n == [op |-> "tracker", label |-> l]
      <3>1. Start(n) /\ UNCHANGED <<label, bought, production, failures>>
        BY <2>7 DEF TrackerRead
      <3>2. n.op = "tracker"
        OBVIOUS
      <3> HIDE DEF n
      <3> QED BY <1>2, <3>1, <3>2, StartKeeps
    <2>8. (OverlapsKnown /\ OneLabel /\ StagesChecked)'
      BY <1>2, <2>3, <2>4, <2>5, <2>6, <2>7 DEF Next
    <2> QED BY <2>1, <2>8 DEF StepInv
  <1> QED BY <1>1, <1>2

(* Every label that EasyPost was paid for is the order's, or about to be   *)
(* written by the handler that bought it, unless two purchases overlapped  *)
(* or a handler died: purchaseLabel looks at the row's label, not at what  *)
(* the page shows, so a second browser cannot buy one once the first has   *)
(* been written.                                                           *)
THEOREM LabelsAreKept == Spec => []NoLabelAstray
  <1>1. Init => StepInv
    BY StepsAreInductive
  <1>2. StepInv /\ [Next]_vars => StepInv'
    BY StepsAreInductive
  <1>3. StepInv => NoLabelAstray
    <2>1. SUFFICES ASSUME StepInv, "purchase" \notin overlapped, ~(failures > 0)
                   PROVE  1..bought \subseteq {label} \cup Held
      BY DEF NoLabelAstray
    <2>2. CASE \A j \in jobs : j.op # "bought"
      BY <2>1, <2>2 DEF StepInv, OneLabel
    <2>3. CASE \E j \in jobs : j.op = "bought"
      <3>1. PICK j \in jobs : j.op = "bought"
        BY <2>3
      <3>2. j.label = 1 /\ bought = 1 /\ j.label \in Held
        BY <2>1, <3>1 DEF StepInv, OneLabel, Held
      <3> QED BY <3>2
    <2> QED BY <2>2, <2>3
  <1> QED BY <1>1, <1>2, <1>3, PTL DEF Spec

(* The whitelist of production changes goes with the order of the stages.  *)
LEMMA StagesAreOrdered ==
  ASSUME NEW from \in ProductionStatuses, NEW to \in ProductionStatuses,
         isValidProductionStatusTransition(from, to)
  PROVE  Stage(from) <= Stage(to)
  <1>1. /\ DOMAIN PRODUCTION_STATUSES = 1..3
        /\ PRODUCTION_STATUSES[1] = "QUEUED"
        /\ PRODUCTION_STATUSES[2] = "IN_PRODUCTION"
        /\ PRODUCTION_STATUSES[3] = "READY_TO_SHIP"
    BY DEF PRODUCTION_STATUSES
  <1>2. ASSUME NEW s \in ProductionStatuses
        PROVE  Stage(s) \in 1..3 /\ PRODUCTION_STATUSES[Stage(s)] = s
    BY <1>1 DEF Stage, ProductionStatuses
  <1>3. /\ Stage("QUEUED") = 1 /\ Stage("IN_PRODUCTION") = 2 /\ Stage("READY_TO_SHIP") = 3
    <2>1. \A i \in 1..3 : i = 1 \/ i = 2 \/ i = 3
      OBVIOUS
    <2>2. {"QUEUED", "IN_PRODUCTION", "READY_TO_SHIP"} \subseteq ProductionStatuses
      BY <1>1 DEF ProductionStatuses
    <2> QED BY <1>1, <1>2, <2>1, <2>2
  <1>4. from = to => Stage(from) <= Stage(to)
    BY <1>2
  <1> QED BY <1>3, <1>4 DEF isValidProductionStatusTransition

(* Production never goes back while the boards' requests come one at a     *)
(* time, although a board may be long out of date: updateProduction looks  *)
(* at the row.                                                             *)
THEOREM ProductionGoesForward == Spec => ProductionForward
  <1>1. Init => StepInv
    BY StepsAreInductive
  <1>2. StepInv /\ [Next]_vars => StepInv'
    BY StepsAreInductive
  <1>3. StepInv /\ [Next]_vars
          => [Stage(production) <= Stage(production') \/ "production" \in overlapped]_vars
    <2> USE DEF row, easyPost, server
    <2>1. SUFFICES ASSUME StepInv, Next, "production" \notin overlapped
                   PROVE  Stage(production) <= Stage(production')
      OBVIOUS
    <2>2. production \in ProductionStatuses
      BY <2>1 DEF StepInv, TypeInv, TypeOK
    <2>3. CASE \E j \in jobs : ProductionCommit(j)
      <3>1. PICK j \in jobs : ProductionCommit(j)
        BY <2>3
      <3>2. j.op = "production" /\ production' = j.to
        BY <3>1 DEF ProductionCommit
      <3>3. j.to \in ProductionStatuses
        BY <2>1, <3>2, KindsOfJobs DEF StepInv, TypeInv
      <3>4. isValidProductionStatusTransition(production, j.to)
        BY <2>1, <3>2 DEF StepInv, StagesChecked
      <3> QED BY <2>2, <3>2, <3>3, <3>4, StagesAreOrdered
    <2>4. CASE ~\E j \in jobs : ProductionCommit(j)
      <3>1. ASSUME NEW a \in Admins, OrderPage(a)
            PROVE  production' = production
        BY <3>1 DEF OrderPage, LoadOrder, LoadList, PurchaseRead, SaveTracking, ChangeStatusRead,
                    PostParcel
      <3>2. ASSUME NEW a \in Admins, BoardPage(a)
            PROVE  production' = production
        BY <3>2 DEF BoardPage, LoadBoard, SelectProduction, SaveNotes, ProductionRead
      <3>3. ASSUME NEW j \in jobs, Handler(j) \/ HandlerDies(j)
            PROVE  production' = production
        BY <2>4, <3>3 DEF Handler, HandlerDies, PurchaseBuy, PurchaseWrite, ChangeStatusCommit,
                          TrackerCommit
      <3>4. ASSUME CarrierDelivers \/ \E l \in delivered : TrackerIgnored(l) \/ TrackerRead(l)
            PROVE  production' = production
        BY <3>4 DEF CarrierDelivers, TrackerIgnored, TrackerRead
      <3>5. production' = production
        BY <2>1, <3>1, <3>2, <3>3, <3>4 DEF Next
      <3>6. production = production /\ isValidProductionStatusTransition(production, production)
        BY DEF isValidProductionStatusTransition
      <3> QED BY <2>2, <3>5, <3>6, StagesAreOrdered
    <2> QED BY <2>3, <2>4
  <1> QED BY <1>1, <1>2, <1>3, PTL DEF Spec, ProductionForward


(***************************************************************************)
(* Order.status has two kinds of writers here, both of which check the     *)
(* whitelist against the row they read and then write without another      *)
(* look: the page's changes of status and EasyPost's webhook.              *)
(***************************************************************************)
Writers == {j \in jobs : j.op \in {"status", "tracker"}}

OneWriter == \A j, k \in Writers : j = k

(* What a writer is about to write. *)
Aim(j) == IF j.op = "tracker" THEN "DELIVERED" ELSE j.to

WritesFollow == \A j \in Writers : isValidOrderStatusTransition(status, Aim(j))

Follows == status' = status \/ isValidOrderStatusTransition(status, status')

(* Only a commit writes the status. *)
LEMMA StatusIsCommitted ==
  ASSUME [Next]_vars, ~\E j \in jobs : ChangeStatusCommit(j) \/ TrackerCommit(j)
  PROVE  status' = status
  <1> USE DEF row, easyPost, server
  <1>1. ASSUME NEW a \in Admins, OrderPage(a)
        PROVE  status' = status
    BY <1>1 DEF OrderPage, LoadOrder, LoadList, PurchaseRead, SaveTracking, ChangeStatusRead,
                PostParcel
  <1>2. ASSUME NEW a \in Admins, BoardPage(a)
        PROVE  status' = status
    BY <1>2 DEF BoardPage, LoadBoard, SelectProduction, SaveNotes, ProductionRead
  <1>3. ASSUME NEW j \in jobs, Handler(j) \/ HandlerDies(j)
        PROVE  status' = status
    BY <1>3 DEF Handler, HandlerDies, PurchaseBuy, PurchaseWrite, ProductionCommit
  <1>4. ASSUME CarrierDelivers \/ (\E l \in delivered : TrackerIgnored(l) \/ TrackerRead(l))
                 \/ UNCHANGED vars
        PROVE  status' = status
    BY <1>4 DEF CarrierDelivers, TrackerIgnored, TrackerRead, vars
  <1> QED BY <1>1, <1>2, <1>3, <1>4 DEF Next

(* A writer that starts has checked the whitelist against the row. *)
LEMMA WritersCheck ==
  ASSUME TypeInv, [Next]_vars, NEW n \in Writers', n \notin jobs
  PROVE  isValidOrderStatusTransition(status, Aim(n))
  <1> USE DEF row, easyPost, server, Start, Finish, Writers
  <1>1. ASSUME NEW a \in Admins, OrderPage(a)
        PROVE  isValidOrderStatusTransition(status, Aim(n))
    <2>1. CASE LoadOrder(a) \/ LoadList(a) \/ PostParcel(a) \/ SaveTracking(a)
      BY <2>1 DEF LoadOrder, LoadList, PostParcel, SaveTracking
    <2>2. CASE PurchaseRead(a)
      BY <2>2 DEF PurchaseRead
    <2>3. ASSUME NEW to \in OrderStatuses, ChangeStatusRead(a, to)
          PROVE  isValidOrderStatusTransition(status, Aim(n))
      <3>1. n = [op |-> "status", n |-> Unused, by |-> a, to |-> to]
        BY <2>3 DEF ChangeStatusRead
      <3>2. Aim(n) = to
        BY <3>1 DEF Aim
      <3> QED BY <2>3, <3>2 DEF ChangeStatusRead
    <2> QED BY <1>1, <2>1, <2>2, <2>3 DEF OrderPage
  <1>2. ASSUME NEW a \in Admins, BoardPage(a)
        PROVE  FALSE
    BY <1>2 DEF BoardPage, LoadBoard, SelectProduction, SaveNotes, ProductionRead
  <1>3. ASSUME NEW j \in jobs, PurchaseBuy(j)
        PROVE  FALSE
    <2>1. j \in [op : {"purchase", "bought"}, by : Admins, label : {0} \cup Labels]
      BY <1>3, KindsOfJobs DEF TypeInv, PurchaseBuy
    <2> QED BY <1>3, <2>1 DEF PurchaseBuy
  <1>4. ASSUME NEW j \in jobs, Handler(j) \/ HandlerDies(j), ~PurchaseBuy(j)
        PROVE  FALSE
    BY <1>4 DEF Handler, HandlerDies, PurchaseWrite, ProductionCommit, ChangeStatusCommit,
                TrackerCommit
  <1>5. ASSUME CarrierDelivers \/ (\E l \in delivered : TrackerIgnored(l)) \/ UNCHANGED vars
        PROVE  FALSE
    BY <1>5 DEF CarrierDelivers, TrackerIgnored, vars
  <1>6. ASSUME NEW l \in delivered, TrackerRead(l)
        PROVE  isValidOrderStatusTransition(status, Aim(n))
    BY <1>6 DEF TrackerRead, TrackerMatters, Aim
  <1> QED BY <1>1, <1>2, <1>3, <1>4, <1>5, <1>6 DEF Next

LEMMA WriterWrites ==
  ASSUME TypeInv, WritesFollow, NEW j \in jobs, ChangeStatusCommit(j) \/ TrackerCommit(j)
  PROVE  /\ isValidOrderStatusTransition(status, status')
         /\ j \in Writers /\ Writers' = Writers \ {j}
  BY DEF ChangeStatusCommit, TrackerCommit, Finish, Writers, WritesFollow, Aim

LEMMA FollowingIsInductive ==
  TypeInv /\ WritesFollow /\ OneWriter /\ [Next]_vars => WritesFollow' /\ Follows
  <1> SUFFICES ASSUME TypeInv, WritesFollow, OneWriter, [Next]_vars
               PROVE  WritesFollow' /\ Follows
    OBVIOUS
  <1>1. CASE \E j \in jobs : ChangeStatusCommit(j) \/ TrackerCommit(j)
    <2>1. PICK j \in jobs : ChangeStatusCommit(j) \/ TrackerCommit(j)
      BY <1>1
    <2>2. /\ isValidOrderStatusTransition(status, status')
          /\ j \in Writers /\ Writers' = Writers \ {j}
      BY <2>1, WriterWrites
    <2>3. Writers' = {}
      BY <2>2 DEF OneWriter
    <2> QED BY <2>2, <2>3 DEF WritesFollow, Follows
  <1>2. CASE ~\E j \in jobs : ChangeStatusCommit(j) \/ TrackerCommit(j)
    <2>1. status' = status
      BY <1>2, StatusIsCommitted
    <2>2. ASSUME NEW n \in Writers'
          PROVE  isValidOrderStatusTransition(status', Aim(n))
      <3>1. CASE n \in jobs
        BY <2>1, <2>2, <3>1 DEF Writers, WritesFollow
      <3>2. CASE n \notin jobs
        BY <2>1, <2>2, <3>2, WritersCheck
      <3> QED BY <3>1, <3>2
    <2>3. WritesFollow'
      BY <2>2 DEF WritesFollow, Aim
    <2> QED BY <2>1, <2>3 DEF Follows
  <1> QED BY <1>1, <1>2

(* While no two writers of the status are between reading the order and    *)
(* writing it, every change of status, by whichever page however stale, or *)
(* by a delivery event however late, is one the whitelist allows from the  *)
(* status the order has at that moment (OrdersStatusService.updateStatus,  *)
(* ShippingService.handleWebhook).                                         *)
THEOREM StatusKeepsToTheWhitelist == Spec /\ []OneWriter => [][Follows]_vars
  <1>1. Init => TypeInv /\ WritesFollow
    <2>1. Init => TypeInv
      BY TypesAreInductive
    <2>2. Init => WritesFollow
      BY DEF Init, WritesFollow, Writers
    <2> QED BY <2>1, <2>2
  <1>2. TypeInv /\ [Next]_vars => TypeInv'
    BY TypesAreInductive
  <1>3. TypeInv /\ WritesFollow /\ OneWriter /\ [Next]_vars => WritesFollow' /\ [Follows]_vars
    BY FollowingIsInductive
  <1> QED BY <1>1, <1>2, <1>3, PTL DEF Spec

=============================================================================
