-------------------------- MODULE AddressBookProofs --------------------------
(***************************************************************************)
(* Types, the one default, and the limit: proofs for any tabs, limit,      *)
(* requests and failures.                                                  *)
(***************************************************************************)
EXTENDS AddressBook, FiniteSetTheorems, WellFoundedInduction, TLAPS

USE LimitAssumption, RequestsAssumption, FailuresAssumption

IsNew(j) == j.op \notin Removing /\ j.row = 0

New == {j \in jobs : IsNew(j)}

(* There are no more addresses, made or about to be, than requests. *)
Room == IsFiniteSet(jobs) /\ made + Cardinality(New) <= requests

(* What the kind of a job says of its address and its flag. *)
Kinds ==
  \A j \in jobs : /\ j.op \in {"edit", "choose", "remove", "promote"} => j.row # 0
                  /\ j.op \in {"make", "find", "promote"} => j.flag
                  /\ j.op = "create" => j.row = 0

(* While those who make a default do not overlap, each of them leaves no   *)
(* other default behind.                                                   *)
OneMaker ==
  "make" \notin raced =>
    /\ \A j, k \in jobs : j.flag /\ k.flag => j = k
    /\ \A j \in jobs :
         /\ j.op = "make" => default \ {j.row} \subseteq j.clears
         /\ j.op = "remove" /\ j.flag => default \subseteq {j.row}
         /\ j.op \in {"find", "promote"} => default = {}
    /\ \A a, b \in default : a = b

(* While those who create do not overlap, there is room for the one. *)
OneCreator ==
  "create" \notin raced =>
    /\ \A j, k \in New : j = k
    /\ New # {} => Cardinality(addresses) < MAX_ADDRESSES
    /\ Cardinality(addresses) <= MAX_ADDRESSES

BookInv == TypeOK /\ Room /\ Kinds /\ OneMaker /\ OneCreator

----------------------------------------------------------------------------
(* Facts about the sets of jobs and of addresses.                          *)

LEMMA OneMore ==
  ASSUME NEW S, NEW x, IsFiniteSet(S)
  PROVE  /\ IsFiniteSet(S \cup {x})
         /\ Cardinality(S) \in Nat /\ Cardinality(S \cup {x}) \in Nat
         /\ Cardinality(S \cup {x}) <= Cardinality(S) + 1
<1>1. Cardinality(S) \in Nat
  BY FS_CardinalityType
<1>2. /\ IsFiniteSet(S \cup {x})
      /\ Cardinality(S \cup {x}) = IF x \in S THEN Cardinality(S) ELSE Cardinality(S) + 1
  BY FS_AddElement
<1>. QED
  BY <1>1, <1>2

LEMMA JobEnds ==
  ASSUME Room, NEW j \in jobs, jobs' = jobs \ {j}
  PROVE  /\ IsFiniteSet(jobs') /\ New' = New \ {j}
         /\ Cardinality(New) \in Nat /\ Cardinality(New') \in Nat
         /\ Cardinality(New') <= Cardinality(New)
         /\ IsNew(j) => Cardinality(New') = Cardinality(New) - 1
<1>1. New' = New \ {j}
  BY DEF New, IsNew
<1>2. IsFiniteSet(New) /\ Cardinality(New) \in Nat
  BY FS_Subset, FS_CardinalityType DEF New, Room
<1>3. IsFiniteSet(jobs')
  BY FS_RemoveElement DEF Room
<1>4. /\ IsFiniteSet(New') /\ Cardinality(New') \in Nat
      /\ Cardinality(New') = IF j \in New THEN Cardinality(New) - 1 ELSE Cardinality(New)
  BY <1>1, <1>2, FS_RemoveElement, FS_CardinalityType
<1>. QED
  BY <1>1, <1>2, <1>3, <1>4 DEF New

LEMMA JobContinues ==
  ASSUME Room, NEW j \in jobs, NEW k, jobs' = (jobs \ {j}) \cup {k}, IsNew(k) => IsNew(j)
  PROVE  /\ IsFiniteSet(jobs')
         /\ New' = IF IsNew(k) THEN (New \ {j}) \cup {k} ELSE New \ {j}
         /\ Cardinality(New) \in Nat /\ Cardinality(New') \in Nat
         /\ Cardinality(New') <= Cardinality(New)
<1>1. New' = IF IsNew(k) THEN (New \ {j}) \cup {k} ELSE New \ {j}
  BY DEF New, IsNew
<1>2. IsFiniteSet(New) /\ Cardinality(New) \in Nat
  BY FS_Subset, FS_CardinalityType DEF New, Room
<1>3. IsFiniteSet(jobs')
  BY FS_RemoveElement, FS_AddElement DEF Room
<1>4. /\ IsFiniteSet(New \ {j}) /\ Cardinality(New \ {j}) \in Nat
      /\ Cardinality(New \ {j}) = IF j \in New THEN Cardinality(New) - 1 ELSE Cardinality(New)
  BY <1>2, FS_RemoveElement, FS_CardinalityType
<1>5. /\ IsFiniteSet((New \ {j}) \cup {k})
      /\ Cardinality((New \ {j}) \cup {k}) \in Nat
      /\ Cardinality((New \ {j}) \cup {k}) <= Cardinality(New \ {j}) + 1
  BY <1>4, OneMore
<1>6. CASE IsNew(k)
  <2>1. j \in New
    BY <1>6 DEF New
  <2>. QED
    BY <1>1, <1>2, <1>3, <1>4, <1>5, <1>6, <2>1
<1>7. CASE ~IsNew(k)
  BY <1>1, <1>2, <1>3, <1>4, <1>7
<1>. QED
  BY <1>6, <1>7

LEMMA JobStarts ==
  ASSUME Room, NEW k, jobs' = jobs \cup {k}
  PROVE  /\ IsFiniteSet(jobs')
         /\ New' = IF IsNew(k) THEN New \cup {k} ELSE New
         /\ Cardinality(New) \in Nat /\ Cardinality(New') \in Nat
         /\ Cardinality(New') <= Cardinality(New) + 1
<1>1. New' = IF IsNew(k) THEN New \cup {k} ELSE New
  BY DEF New, IsNew
<1>2. IsFiniteSet(New) /\ Cardinality(New) \in Nat
  BY FS_Subset, FS_CardinalityType DEF New, Room
<1>3. IsFiniteSet(jobs')
  BY FS_AddElement DEF Room
<1>4. /\ Cardinality(New \cup {k}) \in Nat
      /\ Cardinality(New \cup {k}) <= Cardinality(New) + 1
  BY <1>2, OneMore
<1>. QED
  BY <1>1, <1>2, <1>3, <1>4

LEMMA AddressesFinite ==
  ASSUME TypeOK
  PROVE  IsFiniteSet(addresses) /\ Cardinality(addresses) \in Nat
<1>1. made \in Nat /\ addresses \subseteq 1..made
  BY DEF TypeOK
<1>2. IsFiniteSet(1..made)
  BY <1>1, FS_Interval
<1>3. IsFiniteSet(addresses)
  BY <1>1, <1>2, FS_Subset
<1>. QED
  BY <1>3, FS_CardinalityType

(* findFirst finds an address when there is one. *)
LEMMA NewestIsThere ==
  ASSUME TypeOK, addresses # {}
  PROVE  Newest \in addresses
<1>. DEFINE back == {made - a : a \in addresses}
<1>1. addresses \subseteq 1..made /\ made \in Nat
  BY DEF TypeOK
<1>2. back \subseteq Nat /\ back # {}
  <2>1. PICK a \in addresses : TRUE
    OBVIOUS
  <2>2. made - a \in back
    OBVIOUS
  <2>3. \A b \in addresses : made - b \in Nat
    BY <1>1
  <2>. QED
    BY <2>2, <2>3
<1>3. PICK x \in back : \A y \in back : ~(<<y, x>> \in OpToRel(<, Nat))
  BY <1>2, WFMin, NatLessThanWellFounded
<1>4. PICK a \in addresses : x = made - a
  OBVIOUS
<1>5. \A b \in addresses : b <= a
  <2>. SUFFICES ASSUME NEW b \in addresses
                PROVE  b <= a
    OBVIOUS
  <2>1. made - b \in Nat /\ made - a \in Nat
    BY <1>1
  <2>2. ~(made - b < made - a)
    BY <1>3, <1>4, <2>1 DEF OpToRel
  <2>. QED
    BY <1>1, <2>1, <2>2
<1>. QED
  BY <1>5 DEF Newest

----------------------------------------------------------------------------
(* What becomes of the single maker and the single creator.                *)

(* A handler ends and the defaults have not grown, or it was the maker.    *)
LEMMA MakerEnds ==
  ASSUME BookInv, NEW j \in jobs, jobs' = jobs \ {j}, raced' = raced,
         \/ default' \subseteq default
         \/ j.flag /\ ("make" \notin raced => \A a, b \in default' : a = b)
  PROVE  OneMaker' /\ Kinds'
<1>1. Kinds'
  BY DEF BookInv, Kinds
<1>2. CASE default' \subseteq default
  BY <1>1, <1>2 DEF BookInv, OneMaker
<1>3. CASE j.flag /\ ("make" \notin raced => \A a, b \in default' : a = b)
  <2>. SUFFICES ASSUME "make" \notin raced
                PROVE  OneMaker'
    BY <1>1 DEF OneMaker
  <2>1. \A k \in jobs' : ~k.flag /\ k.op \notin {"make", "find", "promote"}
    BY <1>3 DEF BookInv, OneMaker, Kinds
  <2>. QED
    BY <1>3, <2>1 DEF OneMaker
<1>. QED
  BY <1>1, <1>2, <1>3

(* The maker takes its next step. *)
LEMMA MakerContinues ==
  ASSUME BookInv, NEW j \in jobs, NEW k, jobs' = (jobs \ {j}) \cup {k}, raced' = raced,
         j.flag, k.flag, k.op \in {"make", "find", "promote"},
         k.op = "promote" => k.row # 0,
         k.op = "make" => default' \ {k.row} \subseteq k.clears,
         k.op # "make" => ("make" \notin raced => default' = {}),
         default' \subseteq default
  PROVE  OneMaker' /\ Kinds'
<1>1. Kinds'
  BY DEF BookInv, Kinds
<1>. SUFFICES ASSUME "make" \notin raced
              PROVE  OneMaker'
  BY <1>1 DEF OneMaker
<1>2. \A i \in jobs \ {j} : ~i.flag /\ i.op \notin {"make", "find", "promote"}
  BY DEF BookInv, OneMaker, Kinds
<1>3. \A a, b \in default' : a = b
  BY DEF BookInv, OneMaker
<1>. QED
  BY <1>2, <1>3 DEF OneMaker

(* A handler of one that exists ends or continues: no more are created. *)
LEMMA CreatorStands ==
  ASSUME BookInv, New' \subseteq New, addresses' \subseteq addresses, raced' = raced
  PROVE  OneCreator'
<1>. SUFFICES ASSUME "create" \notin raced
              PROVE  OneCreator'
  BY DEF OneCreator
<1>1. IsFiniteSet(addresses) /\ Cardinality(addresses) \in Nat
  BY AddressesFinite DEF BookInv
<1>2. /\ Cardinality(addresses') \in Nat
      /\ Cardinality(addresses') <= Cardinality(addresses)
  BY <1>1, FS_Subset, FS_CardinalityType
<1>3. /\ \A j, k \in New' : j = k
      /\ New' # {} => New # {}
  BY DEF BookInv, OneCreator
<1>. QED
  BY <1>1, <1>2, <1>3 DEF BookInv, OneCreator

(* The creator creates: nobody else is about to. *)
LEMMA CreatorEnds ==
  ASSUME BookInv, NEW j \in jobs, IsNew(j), New' = New \ {j}, NEW row,
         addresses' = addresses \cup {row}, raced' = raced
  PROVE  OneCreator'
<1>. SUFFICES ASSUME "create" \notin raced
              PROVE  OneCreator'
  BY DEF OneCreator
<1>1. j \in New
  BY DEF New
<1>2. New' = {}
  BY <1>1 DEF BookInv, OneCreator
<1>3. Cardinality(addresses) < MAX_ADDRESSES
  BY <1>1 DEF BookInv, OneCreator
<1>4. /\ Cardinality(addresses) \in Nat /\ Cardinality(addresses') \in Nat
      /\ Cardinality(addresses') <= Cardinality(addresses) + 1
  BY AddressesFinite, OneMore DEF BookInv
<1>5. Cardinality(addresses') <= MAX_ADDRESSES
  BY <1>3, <1>4
<1>. QED
  BY <1>2, <1>5 DEF OneCreator

----------------------------------------------------------------------------
(* The steps.                                                              *)

LEMMA StartStep ==
  ASSUME BookInv, NEW op \in {"create", "edit", "choose", "remove"}, NEW row \in 0..made,
         NEW flag \in BOOLEAN, Start(op, row, flag),
         op = "create" => row = 0 /\ Cardinality(addresses) < MAX_ADDRESSES,
         op # "create" => row # 0,
         op = "remove" /\ flag => row \in default
  PROVE  BookInv'
<1> DEFINE k == [n |-> requests', op |-> op, row |-> row, flag |-> flag, clears |-> NoIds]
<1>1. /\ requests \in Nat /\ requests < MaxRequests /\ requests' = requests + 1
      /\ made \in 0..requests
      /\ UNCHANGED <<table, page, failures, dropped>>
  BY DEF Start, BookInv, TypeOK
<1>2. /\ jobs' = jobs \cup {k} /\ raced' = raced \cup Overlaps(jobs')
      /\ k.n = requests' /\ k.op = op /\ k.row = row /\ k.flag = flag
  BY DEF Start
<1>3. k \in Jobs
  BY <1>1 DEF Jobs, Ops, Ids, NoIds
<1> HIDE DEF k
<1>4. TypeOK'
  <2>1. jobs' \subseteq Jobs /\ \A j \in jobs' : j.n <= requests' /\ j.row <= made'
    <3>1. \A j \in jobs : j.n <= requests /\ j.n \in Int /\ j.row <= made
      BY DEF BookInv, TypeOK, Jobs, Ids
    <3>. QED
      BY <1>1, <1>2, <1>3, <3>1 DEF BookInv, TypeOK, table
  <2>2. raced' \subseteq {"create", "make", "remove"}
    BY <1>2 DEF BookInv, TypeOK, Overlaps
  <2>. QED
    BY <1>1, <2>1, <2>2 DEF BookInv, TypeOK, table
<1>5. Room'
  <2>1. /\ IsFiniteSet(jobs') /\ Cardinality(New) \in Nat /\ Cardinality(New') \in Nat
        /\ Cardinality(New') <= Cardinality(New) + 1
    BY <1>2, JobStarts DEF BookInv
  <2>. QED
    BY <1>1, <2>1 DEF BookInv, Room, table
<1>6. Kinds'
  BY <1>2 DEF BookInv, Kinds
<1>7. OneMaker'
  <2>. SUFFICES ASSUME "make" \notin raced'
                PROVE  OneMaker'
    BY DEF OneMaker
  <2>1. "make" \notin raced /\ "make" \notin Overlaps(jobs')
    BY <1>2
  <2>2. \A i, j \in jobs' : i.flag /\ j.flag => i = j
    BY <2>1 DEF Overlaps
  <2>. QED
    BY <1>1, <1>2, <2>1, <2>2 DEF BookInv, OneMaker, table
<1>8. OneCreator'
  <2>. SUFFICES ASSUME "create" \notin raced'
                PROVE  OneCreator'
    BY DEF OneCreator
  <2>1. "create" \notin raced /\ "create" \notin Overlaps(jobs')
    BY <1>2
  <2>2. \A i, j \in New' : i = j
    BY <2>1 DEF Overlaps, New, IsNew
  <2>3. New' = IF IsNew(k) THEN New \cup {k} ELSE New
    BY <1>2, JobStarts DEF BookInv
  <2>4. addresses' = addresses
    BY <1>1 DEF table
  <2>5. IsNew(k) => Cardinality(addresses) < MAX_ADDRESSES
    BY <1>2 DEF IsNew
  <2>. QED
    BY <2>1, <2>2, <2>3, <2>4, <2>5 DEF BookInv, OneCreator
<1>. QED
  BY <1>4, <1>5, <1>6, <1>7, <1>8 DEF BookInv

LEMMA CustomerStep ==
  ASSUME BookInv, NEW b \in Tabs, Customer(b)
  PROVE  BookInv'
<1>1. made \in Nat /\ addresses \subseteq 1..made /\ made \in 0..MaxRequests
  BY DEF BookInv, TypeOK
<1>2. CASE Refresh(b)
  <2>1. [addresses |-> addresses, default |-> default]
           \in [addresses : SUBSET Ids, default : SUBSET Ids]
    BY <1>1 DEF BookInv, TypeOK, Ids
  <2>2. page' \in [Tabs -> [addresses : SUBSET Ids, default : SUBSET Ids]]
    BY <1>2, <2>1 DEF BookInv, TypeOK, Refresh
  <2>3. UNCHANGED <<table, jobs, requests, failures, history>>
    BY <1>2 DEF Refresh
  <2>. QED
    BY <2>2, <2>3 DEF BookInv, TypeOK, Room, New, IsNew, Kinds, OneMaker, OneCreator, table,
       history
<1>3. ASSUME NEW isDefault \in BOOLEAN, CreateCount(b, isDefault)
      PROVE  BookInv'
  <2>1. shouldBeDefault(isDefault) \in BOOLEAN
    BY Zenon DEF shouldBeDefault
  <2>. QED
    BY <1>1, <1>3, <2>1, StartStep DEF CreateCount, MayCreate
<1>4. ASSUME NEW r \in Ids, NEW isDefault \in BOOLEAN, EditRead(b, r, isDefault)
      PROVE  BookInv'
  BY <1>1, <1>4, StartStep DEF EditRead
<1>5. ASSUME NEW r \in Ids, SetDefaultRead(b, r)
      PROVE  BookInv'
  <2>1. r \in 0..made /\ r # 0
    BY <1>1, <1>5 DEF SetDefaultRead
  <2>2. Start("choose", r, TRUE)
    BY <1>5 DEF SetDefaultRead
  <2>3. TRUE \in BOOLEAN
    OBVIOUS
  <2>. QED
    BY <2>1, <2>2, <2>3, StartStep, Zenon
<1>6. ASSUME NEW r \in Ids, RemoveRead(b, r)
      PROVE  BookInv'
  <2>1. r \in 0..made /\ r # 0
    BY <1>1, <1>6 DEF RemoveRead
  <2>2. Start("remove", r, r \in default)
    BY <1>6 DEF RemoveRead
  <2>3. CASE r \in default
    <3>1. (r \in default) = TRUE /\ TRUE \in BOOLEAN
      BY <2>3
    <3>2. Start("remove", r, TRUE)
      BY <2>2, <3>1, Zenon
    <3>. QED
      BY <2>1, <2>3, <3>1, <3>2, StartStep, Zenon
  <2>4. CASE r \notin default
    <3>1. (r \in default) = FALSE /\ FALSE \in BOOLEAN
      BY <2>4
    <3>2. Start("remove", r, FALSE)
      BY <2>2, <3>1, Zenon
    <3>. QED
      BY <2>1, <3>1, <3>2, StartStep, Zenon
  <2>. QED
    BY <2>3, <2>4
<1>. QED
  BY <1>2, <1>3, <1>4, <1>5, <1>6 DEF Customer

LEMMA DiesStep ==
  ASSUME BookInv, NEW j \in jobs, HandlerDies(j)
  PROVE  BookInv'
<1>1. /\ jobs' = jobs \ {j} /\ raced' = raced /\ UNCHANGED <<table, page, requests, dropped>>
      /\ failures' \in 0..MaxFailures
  BY DEF HandlerDies, Finish, BookInv, TypeOK
<1>2. /\ New' \subseteq New /\ IsFiniteSet(jobs') /\ Cardinality(New') <= Cardinality(New)
      /\ Cardinality(New) \in Nat /\ Cardinality(New') \in Nat
  BY <1>1, JobEnds DEF BookInv
<1>3. OneMaker' /\ Kinds'
  BY <1>1, MakerEnds DEF table
<1>4. OneCreator'
  BY <1>1, <1>2, CreatorStands DEF table
<1>5. TypeOK'
  BY <1>1 DEF BookInv, TypeOK, table
<1>6. Room'
  BY <1>1, <1>2 DEF BookInv, TypeOK, Room, table
<1>. QED
  BY <1>3, <1>4, <1>5, <1>6 DEF BookInv

LEMMA RowCreated ==
  ASSUME BookInv, NEW j \in jobs, IsNew(j), jobs' = jobs \ {j}, raced' = raced,
         made' = made + 1, addresses' = addresses \cup {made'},
         default' \subseteq default \cup {made'},
         UNCHANGED <<page, requests, failures, dropped>>
  PROVE  TypeOK' /\ Room' /\ OneCreator'
<1>1. /\ made \in Nat /\ requests \in Nat /\ made + Cardinality(New) <= requests
      /\ addresses \subseteq 1..made /\ default \subseteq addresses
  BY DEF BookInv, TypeOK, Room
<1>2. /\ New' = New \ {j} /\ IsFiniteSet(jobs')
      /\ Cardinality(New') = Cardinality(New) - 1
      /\ Cardinality(New) \in Nat /\ Cardinality(New') \in Nat
  BY JobEnds DEF BookInv
<1>3. OneCreator'
  BY <1>2, CreatorEnds
<1>4. Room'
  BY <1>1, <1>2 DEF Room
<1>5. made' \in 0..requests' /\ addresses' \subseteq 1..made' /\ default' \subseteq addresses'
  BY <1>1, <1>2
<1>6. \A i \in jobs' : i.n <= requests' /\ i.row <= made'
  <2>. SUFFICES ASSUME NEW i \in jobs
                PROVE  i.n <= requests /\ i.row <= made + 1
    OBVIOUS
  <2>1. i.row \in Int /\ i.row <= made /\ i.n <= requests
    BY DEF BookInv, TypeOK, Jobs, Ids
  <2>. QED
    BY <1>1, <2>1
<1>7. TypeOK'
  BY <1>5, <1>6 DEF BookInv, TypeOK
<1>. QED
  BY <1>3, <1>4, <1>7

LEMMA CreatePlainStep ==
  ASSUME BookInv, NEW j \in jobs, CreatePlain(j)
  PROVE  BookInv'
<1>1. /\ jobs' = jobs \ {j} /\ raced' = raced
      /\ made' = made + 1 /\ addresses' = addresses \cup {made'}
      /\ UNCHANGED <<default, page, requests, failures, dropped>>
  BY DEF CreatePlain, Finish
<1>2. IsNew(j)
  BY DEF CreatePlain, IsNew, Removing, BookInv, Kinds
<1>. QED
  BY <1>1, <1>2, RowCreated, MakerEnds DEF BookInv

(* The rows and the defaults become fewer, and a handler ends. *)
LEMMA RowsShrink ==
  ASSUME BookInv, NEW j \in jobs, jobs' = jobs \ {j}, raced' = raced,
         addresses' \subseteq addresses, default' \subseteq addresses',
         dropped' \in BOOLEAN, UNCHANGED <<made, page, requests, failures>>
  PROVE  TypeOK' /\ Room' /\ OneCreator'
<1>1. /\ New' \subseteq New /\ IsFiniteSet(jobs') /\ Cardinality(New') <= Cardinality(New)
      /\ Cardinality(New) \in Nat /\ Cardinality(New') \in Nat
  BY JobEnds DEF BookInv
<1>2. OneCreator'
  BY <1>1, CreatorStands
<1>3. TypeOK'
  BY DEF BookInv, TypeOK
<1>4. Room'
  BY <1>1 DEF BookInv, TypeOK, Room
<1>. QED
  BY <1>2, <1>3, <1>4

LEMMA EditPlainStep ==
  ASSUME BookInv, NEW j \in jobs, EditPlain(j)
  PROVE  BookInv'
<1>1. /\ jobs' = jobs \ {j} /\ raced' = raced /\ default' = default \ {j.row}
      /\ UNCHANGED <<addresses, made, page, requests, failures>>
  BY DEF EditPlain, Finish
<1>2. dropped' \in BOOLEAN
  BY Zenon DEF EditPlain
<1>3. default' \subseteq addresses'
  BY <1>1 DEF BookInv, TypeOK
<1>4. OneMaker' /\ Kinds'
  BY <1>1, MakerEnds
<1>. QED
  BY <1>1, <1>2, <1>3, <1>4, RowsShrink DEF BookInv

LEMMA PromoteStep ==
  ASSUME BookInv, NEW j \in jobs, Promote(j)
  PROVE  BookInv'
<1>1. /\ jobs' = jobs \ {j} /\ raced' = raced
      /\ default' = default \cup ({j.row} \cap addresses)
      /\ UNCHANGED <<addresses, made, page, requests, failures, dropped>>
  BY DEF Promote, Finish
<1>2. j.flag /\ ("make" \notin raced => default = {})
  BY DEF Promote, BookInv, Kinds, OneMaker
<1>3. OneMaker' /\ Kinds'
  BY <1>1, <1>2, MakerEnds
<1>4. default' \subseteq addresses' /\ dropped' \in BOOLEAN
  BY <1>1 DEF BookInv, TypeOK
<1>. QED
  BY <1>1, <1>3, <1>4, RowsShrink DEF BookInv

LEMMA MakeFailsStep ==
  ASSUME BookInv, NEW j \in jobs, MakeFails(j)
  PROVE  BookInv'
<1>1. /\ jobs' = jobs \ {j} /\ raced' = raced
      /\ UNCHANGED <<table, page, requests, failures, dropped>>
  BY DEF MakeFails, Finish
<1>2. default' \subseteq addresses' /\ dropped' \in BOOLEAN
  BY <1>1 DEF BookInv, TypeOK, table
<1>. QED
  BY <1>1, <1>2, MakerEnds, RowsShrink DEF BookInv, table

LEMMA MakeCommitStep ==
  ASSUME BookInv, NEW j \in jobs, MakeCommit(j)
  PROVE  BookInv'
<1>1. /\ jobs' = jobs \ {j} /\ raced' = raced
      /\ UNCHANGED <<page, requests, failures, dropped>>
      /\ j.op = "make" /\ j.flag
  BY DEF MakeCommit, Finish, BookInv, Kinds
<1>2. "make" \notin raced => default \ {j.row} \subseteq j.clears
  BY <1>1 DEF BookInv, OneMaker
<1>3. CASE j.row = 0
  <2>1. /\ made' = made + 1 /\ addresses' = addresses \cup {made'}
        /\ default' = (default \ j.clears) \cup {made'}
    BY <1>3 DEF MakeCommit
  <2>2. 0 \notin default
    BY DEF BookInv, TypeOK
  <2>3. "make" \notin raced => default' = {made'}
    BY <1>2, <1>3, <2>1, <2>2
  <2>4. IsNew(j)
    BY <1>1, <1>3 DEF IsNew, Removing
  <2>5. OneMaker' /\ Kinds'
    BY <1>1, <2>3, MakerEnds
  <2>. QED
    BY <1>1, <2>1, <2>4, <2>5, RowCreated DEF BookInv
<1>4. CASE j.row # 0
  <2>1. /\ made' = made /\ addresses' = addresses \cup {j.row} /\ j.row \in addresses
        /\ default' = (default \ j.clears) \cup {j.row}
    BY <1>4 DEF MakeCommit
  <2>2. "make" \notin raced => default' = {j.row}
    BY <1>2, <2>1
  <2>3. OneMaker' /\ Kinds'
    BY <1>1, <2>2, MakerEnds
  <2>4. addresses' = addresses /\ default' \subseteq addresses' /\ dropped' \in BOOLEAN
    BY <1>1, <2>1 DEF BookInv, TypeOK
  <2>. QED
    BY <1>1, <2>1, <2>3, <2>4, RowsShrink DEF BookInv
<1>. QED
  BY <1>3, <1>4

(* The maker goes on, and the rows and the defaults do not become more. *)
LEMMA RowsStand ==
  ASSUME BookInv, NEW j \in jobs, NEW k \in Jobs, jobs' = (jobs \ {j}) \cup {k},
         k.n = j.n, k.row \in 0..made, IsNew(k) => k.row = j.row /\ IsNew(j), raced' = raced,
         addresses' \subseteq addresses, default' \subseteq addresses',
         UNCHANGED <<made, page, requests, failures, dropped>>
  PROVE  TypeOK' /\ Room' /\ OneCreator'
<1>1. /\ New' = IF IsNew(k) THEN (New \ {j}) \cup {k} ELSE New \ {j}
      /\ IsFiniteSet(jobs') /\ Cardinality(New') <= Cardinality(New)
      /\ Cardinality(New) \in Nat /\ Cardinality(New') \in Nat
  BY JobContinues DEF BookInv
<1>2. TypeOK'
  <2>1. \A i \in jobs' : i.n <= requests' /\ i.row <= made'
    BY DEF BookInv, TypeOK
  <2>. QED
    BY <2>1 DEF BookInv, TypeOK
<1>3. Room'
  BY <1>1 DEF BookInv, TypeOK, Room
<1>4. OneCreator'
  <2>. SUFFICES ASSUME "create" \notin raced
                PROVE  OneCreator'
    BY DEF OneCreator
  <2>1. IsFiniteSet(addresses) /\ Cardinality(addresses) \in Nat
    BY AddressesFinite DEF BookInv
  <2>2. /\ Cardinality(addresses') \in Nat
        /\ Cardinality(addresses') <= Cardinality(addresses)
    BY <2>1, FS_Subset, FS_CardinalityType
  <2>3. IsNew(k) => New = {j}
    BY DEF BookInv, OneCreator, New
  <2>4. /\ \A a, b \in New' : a = b
        /\ New' # {} => New # {}
    BY <1>1, <2>3 DEF BookInv, OneCreator
  <2>. QED
    BY <2>1, <2>2, <2>4 DEF BookInv, OneCreator
<1>. QED
  BY <1>2, <1>3, <1>4

LEMMA MakeBeginStep ==
  ASSUME BookInv, NEW j \in jobs, MakeBegin(j)
  PROVE  BookInv'
<1> DEFINE k == [j EXCEPT !.op = "make", !.clears = ClearsOthers(j)]
<1>1. /\ j \in Jobs /\ j.row \in 0..made /\ made \in Nat /\ default \subseteq 1..made
      /\ made <= MaxRequests
  BY DEF BookInv, TypeOK, Jobs, Ids
<1>2. /\ jobs' = (jobs \ {j}) \cup {k} /\ raced' = raced
      /\ UNCHANGED <<table, page, requests, failures, dropped>>
      /\ j.op \in {"create", "edit", "choose"} /\ j.flag
  BY DEF MakeBegin, Continue
<1>3. ClearsOthers(j) \in SUBSET Ids /\ default \ {j.row} \subseteq ClearsOthers(j)
  <2>1. default \subseteq Ids
    BY <1>1 DEF Ids
  <2>. QED
    BY <2>1 DEF ClearsOthers
<1>4. /\ k \in Jobs /\ k.op = "make" /\ k.flag /\ k.row = j.row /\ k.n = j.n
      /\ k.clears = ClearsOthers(j)
  BY <1>1, <1>2, <1>3 DEF Jobs, Ops
<1> HIDE DEF k
<1>5. IsNew(k) => IsNew(j)
  BY <1>2, <1>4 DEF IsNew, Removing
<1>6. TypeOK' /\ Room' /\ OneCreator'
  BY <1>1, <1>2, <1>4, <1>5, RowsStand DEF table, BookInv, TypeOK
<1>7. OneMaker' /\ Kinds'
  BY <1>2, <1>3, <1>4, MakerContinues DEF table
<1>. QED
  BY <1>6, <1>7 DEF BookInv

LEMMA RemoveDeleteStep ==
  ASSUME BookInv, NEW j \in jobs, RemoveDelete(j)
  PROVE  BookInv'
<1>1. /\ addresses' = addresses \ {j.row} /\ default' = default \ {j.row}
      /\ UNCHANGED <<made, page, requests, failures, dropped>> /\ j.op = "remove"
  BY DEF RemoveDelete
<1>2. default' \subseteq addresses' /\ dropped' \in BOOLEAN
  BY <1>1 DEF BookInv, TypeOK
<1>3. CASE j.flag /\ j.row \in addresses
  <2> DEFINE k == [j EXCEPT !.op = "find", !.row = 0]
  <2>1. jobs' = (jobs \ {j}) \cup {k} /\ raced' = raced
    BY <1>3 DEF RemoveDelete, Continue
  <2>2. k \in Jobs /\ k.op = "find" /\ k.flag /\ k.row = 0 /\ k.n = j.n
    BY <1>3 DEF BookInv, TypeOK, Jobs, Ops
  <2> HIDE DEF k
  <2>3. ~IsNew(k) /\ 0 \in 0..made
    BY <2>2 DEF IsNew, Removing, BookInv, TypeOK
  <2>4. "make" \notin raced => default' = {}
    BY <1>1, <1>3 DEF BookInv, OneMaker
  <2>5. OneMaker' /\ Kinds'
    BY <1>1, <1>3, <2>1, <2>2, <2>4, MakerContinues
  <2>. QED
    BY <1>1, <1>2, <2>1, <2>2, <2>3, <2>5, RowsStand DEF BookInv
<1>4. CASE ~(j.flag /\ j.row \in addresses)
  <2>1. jobs' = jobs \ {j} /\ raced' = raced
    BY <1>4 DEF RemoveDelete, Finish
  <2>2. OneMaker' /\ Kinds'
    BY <1>1, <2>1, MakerEnds
  <2>. QED
    BY <1>1, <1>2, <2>1, <2>2, RowsShrink DEF BookInv
<1>. QED
  BY <1>3, <1>4

LEMMA FindNextStep ==
  ASSUME BookInv, NEW j \in jobs, FindNext(j)
  PROVE  BookInv'
<1>1. UNCHANGED <<table, page, requests, failures, dropped>> /\ j.op = "find" /\ j.flag
  BY DEF FindNext, BookInv, Kinds
<1>2. default' \subseteq addresses' /\ dropped' \in BOOLEAN
  BY <1>1 DEF BookInv, TypeOK, table
<1>3. CASE addresses = {}
  <2>1. jobs' = jobs \ {j} /\ raced' = raced
    BY <1>3 DEF FindNext, Finish
  <2>. QED
    BY <1>1, <1>2, <2>1, MakerEnds, RowsShrink DEF BookInv, table
<1>4. CASE addresses # {}
  <2> DEFINE k == [j EXCEPT !.op = "promote", !.row = Newest]
  <2>1. Newest \in addresses
    BY <1>4, NewestIsThere DEF BookInv
  <2>2. /\ jobs' = (jobs \ {j}) \cup {k} /\ raced' = raced
    BY <1>4 DEF FindNext, Continue
  <2>3. Newest \in 1..made /\ Newest \in Ids
    BY <2>1 DEF BookInv, TypeOK, Ids
  <2>4. k \in Jobs /\ k.op = "promote" /\ k.flag /\ k.row = Newest /\ k.n = j.n
    BY <1>1, <2>3 DEF BookInv, TypeOK, Jobs, Ops
  <2> HIDE DEF k
  <2>5. ~IsNew(k) /\ k.row \in 0..made /\ k.row # 0
    BY <2>3, <2>4 DEF IsNew, Removing
  <2>6. "make" \notin raced => default' = {}
    BY <1>1 DEF BookInv, OneMaker, table
  <2>7. OneMaker' /\ Kinds'
    BY <1>1, <2>2, <2>4, <2>5, <2>6, MakerContinues DEF table
  <2>. QED
    BY <1>1, <1>2, <2>2, <2>4, <2>5, <2>7, RowsStand DEF BookInv, table
<1>. QED
  BY <1>3, <1>4

LEMMA BookInit == Init => BookInv
<1>. SUFFICES ASSUME Init
              PROVE  BookInv
  OBVIOUS
<1>1. TypeOK
  <2>1. page \in [Tabs -> [addresses : SUBSET Ids, default : SUBSET Ids]]
    BY DEF Init
  <2>2. dropped \in BOOLEAN
    BY Zenon DEF Init
  <2>. QED
    BY <2>1, <2>2 DEF Init, TypeOK
<1>2. New = {} /\ IsFiniteSet({}) /\ Cardinality({}) = 0
  BY FS_EmptySet DEF Init, New
<1>. QED
  BY <1>1, <1>2 DEF Init, BookInv, Room, Kinds, OneMaker, OneCreator

LEMMA BookStep == BookInv /\ [Next]_vars => BookInv'
<1>. SUFFICES ASSUME BookInv, [Next]_vars
              PROVE  BookInv'
  OBVIOUS
<1>1. ASSUME NEW b \in Tabs, Customer(b)
      PROVE  BookInv'
  BY <1>1, CustomerStep
<1>2. ASSUME NEW j \in jobs, Handler(j)
      PROVE  BookInv'
  BY <1>2, CreatePlainStep, EditPlainStep, MakeBeginStep, MakeCommitStep, MakeFailsStep,
     RemoveDeleteStep, FindNextStep, PromoteStep DEF Handler
<1>3. ASSUME NEW j \in jobs, HandlerDies(j)
      PROVE  BookInv'
  BY <1>3, DiesStep
<1>4. CASE UNCHANGED vars
  BY <1>4 DEF vars, table, history, BookInv, TypeOK, Room, New, IsNew, Kinds, OneMaker, OneCreator
<1>. QED
  BY <1>1, <1>2, <1>3, <1>4 DEF Next

(* The types hold: every default is an address, and there are never more   *)
(* addresses made than requests sent, although a handler counts late.      *)
THEOREM AddressBookTypes == Spec => []TypeOK
<1>. QED
  BY BookInit, BookStep, PTL DEF Spec, BookInv

(* Never two defaults, unless two requests that make one have overlapped   *)
(* (AtMostOneDefault).                                                     *)
THEOREM OneDefault == Spec => []AtMostOneDefault
<1>1. BookInv => AtMostOneDefault
  BY DEF BookInv, OneMaker, AtMostOneDefault
<1>. QED
  BY <1>1, BookInit, BookStep, PTL DEF Spec

(* Never more addresses than allowed, unless two that create one have      *)
(* overlapped (LimitHonoured).                                             *)
THEOREM LimitIsHonoured == Spec => []LimitHonoured
<1>1. BookInv => LimitHonoured
  BY DEF BookInv, OneCreator, LimitHonoured
<1>. QED
  BY <1>1, BookInit, BookStep, PTL DEF Spec

----------------------------------------------------------------------------
(* The default is not lost.                                                *)

(* While nothing overlaps a removal, no form has given the flag up and no  *)
(* handler has died: what a handler was told about the table is still so.  *)
DefaultThere ==
  dropped \/ failures > 0 \/ "remove" \in raced \/
    (/\ addresses = {} \/ default # {} \/ Choosing # {}
     /\ \A j, k \in jobs : j.op \in Removing => j = k
     /\ \A j \in jobs : j.op = "create" /\ ~j.flag => addresses # {}
     /\ \A j \in jobs : j.op = "remove" => (j.flag <=> j.row \in default)
     /\ \A j \in jobs : j.op = "promote" => j.row \in addresses)

LEMMA StartKeepsDefault ==
  ASSUME BookInv, DefaultThere, NEW op \in {"create", "edit", "choose", "remove"}, NEW row,
         NEW flag \in BOOLEAN, Start(op, row, flag),
         op = "create" /\ ~flag => addresses # {},
         op = "remove" => (flag <=> row \in default)
  PROVE  DefaultThere'
<1> DEFINE k == [n |-> requests', op |-> op, row |-> row, flag |-> flag, clears |-> NoIds]
<1>1. /\ jobs' = jobs \cup {k} /\ raced' = raced \cup Overlaps(jobs')
      /\ UNCHANGED <<addresses, default, failures, dropped>>
      /\ k.op = op /\ k.row = row /\ k.flag = flag
  BY DEF Start, table
<1> HIDE DEF k
<1>. SUFFICES ASSUME ~dropped, ~(failures > 0), "remove" \notin raced'
              PROVE  DefaultThere'
  BY <1>1 DEF DefaultThere
<1>2. \A i, j \in jobs' : i.op \in Removing => i = j
  BY <1>1 DEF Overlaps
<1>3. Choosing' = Choosing
  BY <1>1 DEF Choosing
<1>. QED
  BY <1>1, <1>2, <1>3 DEF DefaultThere

(* A handler ends that was not choosing, and leaves the table as it is or  *)
(* gives it one more default. *)
LEMMA EndKeepsDefault ==
  ASSUME DefaultThere, NEW j \in jobs, jobs' = jobs \ {j}, j.op \notin {"find", "promote"},
         UNCHANGED <<raced, dropped, failures>>,
         \/ j.op \notin Removing /\ addresses \subseteq addresses' /\ default' # {}
         \/ UNCHANGED <<addresses, default>>
  PROVE  DefaultThere'
<1>1. Choosing' = Choosing
  BY DEF Choosing
<1>2. CASE UNCHANGED <<addresses, default>>
  BY <1>1, <1>2 DEF DefaultThere
<1>3. CASE j.op \notin Removing /\ addresses \subseteq addresses' /\ default' # {}
  BY <1>1, <1>3 DEF DefaultThere, Removing
<1>. QED
  BY <1>2, <1>3

LEMMA CustomerKeepsDefault ==
  ASSUME BookInv, DefaultThere, NEW b \in Tabs, Customer(b)
  PROVE  DefaultThere'
<1>1. CASE Refresh(b)
  BY <1>1 DEF Refresh, table, history, DefaultThere, Choosing
<1>2. CASE \E isDefault \in BOOLEAN : CreateCount(b, isDefault)
  <2>1. PICK isDefault \in BOOLEAN : CreateCount(b, isDefault)
    BY <1>2
  <2>2. shouldBeDefault(isDefault) \in BOOLEAN /\ (~shouldBeDefault(isDefault) => addresses # {})
    BY Zenon DEF shouldBeDefault
  <2>. QED
    BY <2>1, <2>2, StartKeepsDefault DEF CreateCount
<1>3. CASE \E row \in Ids, isDefault \in BOOLEAN : EditRead(b, row, isDefault)
  BY <1>3, StartKeepsDefault DEF EditRead
<1>4. CASE \E row \in Ids : SetDefaultRead(b, row)
  BY <1>4, StartKeepsDefault DEF SetDefaultRead
<1>5. CASE \E row \in Ids : RemoveRead(b, row)
  <2>1. PICK row \in Ids : RemoveRead(b, row)
    BY <1>5
  <2>2. (row \in default) \in BOOLEAN
    OBVIOUS
  <2>. QED
    BY <2>1, <2>2, StartKeepsDefault DEF RemoveRead
<1>. QED
  BY <1>1, <1>2, <1>3, <1>4, <1>5 DEF Customer

(* A plain address is one more; the flags stay with the others. *)
LEMMA EndsKeepDefault ==
  ASSUME BookInv, DefaultThere, NEW j \in jobs,
         CreatePlain(j) \/ EditPlain(j) \/ MakeCommit(j) \/ MakeFails(j)
  PROVE  DefaultThere'
<1>1. jobs' = jobs \ {j} /\ raced' = raced /\ failures' = failures
  BY DEF CreatePlain, EditPlain, MakeCommit, MakeFails, Finish
<1>2. CASE CreatePlain(j)
  <2>1. /\ j.op = "create" /\ ~j.flag /\ addresses \subseteq addresses'
        /\ default' = default /\ dropped' = dropped
    BY <1>2 DEF CreatePlain
  <2>2. Choosing' = Choosing
    BY <1>1, <2>1 DEF Choosing
  <2>. QED
    BY <1>1, <2>1, <2>2 DEF DefaultThere
<1>3. CASE EditPlain(j)
  <2>1. /\ j.op = "edit" /\ default' = default \ {j.row} /\ addresses' = addresses
        /\ dropped' = (dropped \/ j.row \in default)
    BY <1>3 DEF EditPlain
  <2>2. CASE j.row \in default
    <3>1. dropped'
      BY <2>1, <2>2, Zenon
    <3>. QED
      BY <3>1 DEF DefaultThere
  <2>3. CASE j.row \notin default
    <3>1. default' = default /\ (dropped <=> dropped')
      BY <2>1, <2>3
    <3>2. Choosing' = Choosing
      BY <1>1, <2>1 DEF Choosing
    <3>. QED
      BY <1>1, <2>1, <3>1, <3>2 DEF DefaultThere
  <2>. QED
    BY <2>2, <2>3
<1>4. CASE MakeCommit(j)
  <2>1. j.op = "make" /\ addresses \subseteq addresses' /\ default' # {} /\ dropped' = dropped
    BY <1>4 DEF MakeCommit
  <2>2. j.op \notin Removing
    BY <2>1 DEF Removing
  <2>. QED
    BY <1>1, <2>1, <2>2, EndKeepsDefault
<1>5. CASE MakeFails(j)
  <2>1. j.op = "make" /\ UNCHANGED <<addresses, default, dropped>>
    BY <1>5 DEF MakeFails, table
  <2>. QED
    BY <1>1, <2>1, EndKeepsDefault
<1>. QED
  BY <1>2, <1>3, <1>4, <1>5

(* The removed address was the default, and the handler goes on to choose  *)
(* another; or it was not, and the default is still there.                 *)
LEMMA RemovalsKeepDefault ==
  ASSUME BookInv, DefaultThere, NEW j \in jobs,
         MakeBegin(j) \/ RemoveDelete(j) \/ FindNext(j) \/ Promote(j)
  PROVE  DefaultThere'
<1>1. UNCHANGED <<raced, failures, dropped>>
  BY DEF MakeBegin, RemoveDelete, FindNext, Promote, Continue, Finish
<1>. SUFFICES ASSUME ~dropped, ~(failures > 0), "remove" \notin raced
              PROVE  DefaultThere'
  BY <1>1 DEF DefaultThere
<1>2. j \in Jobs /\ default \subseteq addresses
  BY DEF BookInv, TypeOK
<1>3. CASE MakeBegin(j)
  <2> DEFINE k == [j EXCEPT !.op = "make", !.clears = ClearsOthers(j)]
  <2>1. /\ j.op \in {"create", "edit", "choose"} /\ jobs' = (jobs \ {j}) \cup {k}
        /\ UNCHANGED <<addresses, default>>
    BY <1>3 DEF MakeBegin, Continue, table
  <2>2. k.op = "make" /\ j.op \notin Removing /\ "make" \notin Removing
    BY <1>2, <2>1 DEF Jobs, Removing
  <2> HIDE DEF k
  <2>3. Choosing' = Choosing
    BY <2>1, <2>2 DEF Choosing
  <2>. QED
    BY <1>1, <2>1, <2>2, <2>3 DEF DefaultThere
<1>4. ASSUME j.op \in Removing
      PROVE  \A k \in jobs : k = j
  BY <1>4 DEF DefaultThere
<1>5. CASE RemoveDelete(j)
  <2>1. /\ j.op = "remove" /\ addresses' = addresses \ {j.row} /\ default' = default \ {j.row}
        /\ j.op \in Removing
    BY <1>5 DEF RemoveDelete, Removing
  <2>2. CASE j.flag /\ j.row \in addresses
    <3> DEFINE k == [j EXCEPT !.op = "find", !.row = 0]
    <3>1. jobs' = (jobs \ {j}) \cup {k}
      BY <1>5, <2>2 DEF RemoveDelete, Continue
    <3>2. k.op = "find"
      BY <1>2 DEF Jobs
    <3> HIDE DEF k
    <3>3. jobs' = {k} /\ k \in Choosing'
      BY <1>4, <2>1, <3>1, <3>2 DEF Choosing
    <3>. QED
      BY <3>2, <3>3 DEF DefaultThere
  <2>3. CASE ~(j.flag /\ j.row \in addresses)
    <3>1. jobs' = {}
      BY <1>4, <1>5, <2>1, <2>3 DEF RemoveDelete, Finish
    <3>2. j.row \notin default /\ Choosing = {}
      BY <1>2, <1>4, <2>1, <2>3 DEF DefaultThere, Choosing
    <3>. QED
      BY <2>1, <3>1, <3>2 DEF DefaultThere
  <2>. QED
    BY <2>2, <2>3
<1>6. CASE FindNext(j)
  <2>1. j.op = "find" /\ UNCHANGED <<addresses, default>> /\ j.op \in Removing
    BY <1>6 DEF FindNext, table, Removing
  <2>2. CASE addresses = {}
    <3>1. jobs' = {}
      BY <1>4, <1>6, <2>1, <2>2 DEF FindNext, Finish
    <3>. QED
      BY <2>1, <2>2, <3>1 DEF DefaultThere
  <2>3. CASE addresses # {}
    <3> DEFINE k == [j EXCEPT !.op = "promote", !.row = Newest]
    <3>1. jobs' = (jobs \ {j}) \cup {k}
      BY <1>6, <2>3 DEF FindNext, Continue
    <3>2. k.op = "promote" /\ k.row = Newest
      BY <1>2 DEF Jobs
    <3>3. Newest \in addresses
      BY <2>3, NewestIsThere DEF BookInv
    <3> HIDE DEF k
    <3>4. jobs' = {k} /\ k \in Choosing'
      BY <1>4, <2>1, <3>1, <3>2 DEF Choosing
    <3>. QED
      BY <2>1, <3>2, <3>3, <3>4 DEF DefaultThere
  <2>. QED
    BY <2>2, <2>3
<1>7. CASE Promote(j)
  <2>1. /\ j.op = "promote" /\ j.op \in Removing /\ addresses' = addresses
        /\ default' = default \cup ({j.row} \cap addresses) /\ jobs' = jobs \ {j}
    BY <1>7 DEF Promote, Finish, Removing
  <2>2. j.row \in addresses /\ jobs' = {}
    BY <1>4, <2>1 DEF DefaultThere
  <2>. QED
    BY <2>1, <2>2 DEF DefaultThere
<1>. QED
  BY <1>3, <1>5, <1>6, <1>7

LEMMA DefaultStep == BookInv /\ DefaultThere /\ [Next]_vars => DefaultThere'
<1>. SUFFICES ASSUME BookInv, DefaultThere, [Next]_vars
              PROVE  DefaultThere'
  OBVIOUS
<1>1. ASSUME NEW b \in Tabs, Customer(b)
      PROVE  DefaultThere'
  BY <1>1, CustomerKeepsDefault
<1>2. ASSUME NEW j \in jobs, Handler(j)
      PROVE  DefaultThere'
  BY <1>2, EndsKeepDefault, RemovalsKeepDefault DEF Handler
<1>3. ASSUME NEW j \in jobs, HandlerDies(j)
      PROVE  DefaultThere'
  <2>1. failures \in Nat /\ failures' = failures + 1
    BY <1>3 DEF HandlerDies, BookInv, TypeOK
  <2>. QED
    BY <2>1 DEF DefaultThere
<1>4. CASE UNCHANGED vars
  BY <1>4 DEF vars, table, history, DefaultThere, Choosing
<1>. QED
  BY <1>1, <1>2, <1>3, <1>4 DEF Next

(* A book that is not empty has a default, or a removal is about to choose *)
(* one, unless a form gave the flag up, a handler died, or a removal was   *)
(* overlapped (HasDefault): the first address is made the default, and the *)
(* removal of the default promotes the newest that is left.                *)
THEOREM DefaultIsKept == Spec => []HasDefault
<1>1. Init => BookInv /\ DefaultThere
  BY BookInit DEF Init, DefaultThere
<1>2. BookInv /\ DefaultThere /\ [Next]_vars => (BookInv /\ DefaultThere)'
  BY BookStep, DefaultStep
<1>3. BookInv /\ DefaultThere => HasDefault
  BY DEF DefaultThere, HasDefault
<1>. QED
  BY <1>1, <1>2, <1>3, PTL DEF Spec
=============================================================================
