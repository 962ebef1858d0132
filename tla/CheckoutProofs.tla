--------------------------- MODULE CheckoutProofs ---------------------------
(***************************************************************************)
(* Theorems about Checkout for any number of orders and of requests, any   *)
(* cart, discount and limits.                                              *)
(***************************************************************************)
EXTENDS Checkout, FiniteSetTheorems, WellFoundedInduction, TLAPS

USE OrdersAssumption, BalanceAssumption, CartAssumption, LimitsAssumption, IntentsAssumption

----------------------------------------------------------------------------
(* Amounts.                                                                *)

LEMMA AmountsTyped ==
  /\ calculateMaxRedeemablePoints \in Nat
  /\ \A a \in Int : AtLeastZero(a) \in Nat
  /\ \A a, b \in Int : Least(a, b) \in Int
  /\ computeDiscountAmountCents \in Nat
BY DEF calculateMaxRedeemablePoints, AtLeastZero, Least, computeDiscountAmountCents

(* Order.total is never negative, whatever is asked for and granted. *)
LEMMA TotalTyped ==
  ASSUME NEW c \in [stage : Stages, redeem : Nat, points : Int, code : BOOLEAN, limit : Nat]
  PROVE  adjustedTotal(c) \in Nat
<1>1. c.redeem \in Nat /\ c.points \in Int
  OBVIOUS
<1>2. totalSent(c) \in Nat
  <2>1. Subtotal + Shipping - c.redeem \in Int
    BY <1>1
  <2>. QED
    BY <2>1, AmountsTyped DEF totalSent
<1> DEFINE off == IF c.code THEN computeDiscountAmountCents ELSE 0
<1>3. off \in Nat
  BY AmountsTyped
<1>4. AtLeastZero(c.points) \in Nat
  BY <1>1, AmountsTyped
<1>5. totalSent(c) - AtLeastZero(c.points) \in Int
  BY <1>2, <1>4
<1> HIDE DEF off
<1>6. AtLeastZero(totalSent(c) - AtLeastZero(c.points)) - off \in Int
  <2>1. AtLeastZero(totalSent(c) - AtLeastZero(c.points)) \in Nat
    BY <1>5, AmountsTyped
  <2>. QED
    BY <1>3, <2>1
<1>7. adjustedTotal(c) = AtLeastZero(AtLeastZero(totalSent(c) - AtLeastZero(c.points)) - off)
  BY DEF adjustedTotal, off
<1>. QED
  BY <1>6, <1>7, AmountsTyped

----------------------------------------------------------------------------
(* Sums.  SumFunction folds a function by picking one element after        *)
(* another; what a sum is, and how it changes, is proved by looking at the *)
(* smallest set that would be an exception.                                *)

First(s) == CHOOSE x \in s : TRUE

SumStep(f, g, s) == IF s = {} THEN 0 ELSE f[First(s)] + g[s \ {First(s)}]

Sums(f, g) == g = [s \in SUBSET DOMAIN f |-> SumStep(f, g, s)]

LEMMA SumIsChosen ==
  ASSUME NEW f
  PROVE  SumFunction(f) = (CHOOSE g : Sums(f, g))[DOMAIN f]
  BY DEF SumFunction, SumFunctionOnSet, FoldFunctionOnSet, MapThenFoldSet, Sums, SumStep, First

LEMMA FirstIsIn ==
  ASSUME NEW S, IsFiniteSet(S), NEW s \in SUBSET S, s # {}
  PROVE  /\ First(s) \in s /\ s \ {First(s)} \in SUBSET S
         /\ Cardinality(s) \in Nat /\ Cardinality(s \ {First(s)}) = Cardinality(s) - 1
         /\ Cardinality(s) > 0
  <1>1. First(s) \in s
    BY Zenon DEF First
  <1>2. IsFiniteSet(s)
    BY FS_Subset
  <1>3. Cardinality(s) \in Nat /\ Cardinality(s \ {First(s)}) = Cardinality(s) - 1
    BY <1>1, <1>2, FS_CardinalityType, FS_RemoveElement
  <1>4. Cardinality(s) # 0
    BY <1>2, FS_EmptySet
  <1> QED BY <1>1, <1>3, <1>4

LEMMA LeastNumber ==
  ASSUME NEW N \in SUBSET Nat, N # {}
  PROVE  \E n \in N : \A m \in N : n <= m
  <1>1. PICK n \in N : \A m \in N : ~(<<m, n>> \in OpToRel(<, Nat))
    BY WFMin, NatLessThanWellFounded
  <1>2. \A m \in N : ~(m < n)
    BY <1>1 DEF OpToRel
  <1> QED BY <1>2

Small(S, n) == {s \in SUBSET S : Cardinality(s) < n}

SumsBelow(S, f, n) ==
  \E g \in [Small(S, n) -> Int] : \A s \in Small(S, n) : g[s] = SumStep(f, g, s)

LEMMA PartialSums ==
  ASSUME NEW S, IsFiniteSet(S), NEW f \in [S -> Int]
  PROVE  \A n \in Nat : SumsBelow(S, f, n)
  <1> DEFINE Good(n) == SumsBelow(S, f, n)
             Bad == {n \in Nat : ~Good(n)}
  <1> USE DEF SumsBelow
  <1> SUFFICES ASSUME Bad # {} PROVE FALSE
    OBVIOUS
  <1>1. PICK n \in Bad : \A m \in Bad : n <= m
    BY LeastNumber
  <1>2. \A s \in SUBSET S : Cardinality(s) \in Nat
    BY FS_Subset, FS_CardinalityType
  <1>3. n # 0
    <2>1. Small(S, 0) = {}
      BY <1>2 DEF Small
    <2>2. [s \in Small(S, 0) |-> 0] \in [Small(S, 0) -> Int]
      OBVIOUS
    <2> QED BY <2>1, <2>2
  <1>4. n - 1 \in Nat /\ Good(n - 1)
    BY <1>1, <1>3
  <1>5. PICK g \in [Small(S, n - 1) -> Int] : \A s \in Small(S, n - 1) : g[s] = SumStep(f, g, s)
    BY <1>4
  <1> DEFINE h == [s \in Small(S, n) |-> SumStep(f, g, s)]
  <1>6. ASSUME NEW s \in Small(S, n), s # {}
        PROVE  First(s) \in S /\ s \ {First(s)} \in Small(S, n - 1)
    BY <1>1, <1>6, FirstIsIn DEF Small
  <1>7. h \in [Small(S, n) -> Int]
    BY <1>5, <1>6 DEF SumStep
  <1>8. \A s \in Small(S, n - 1) : s \in Small(S, n) /\ h[s] = g[s]
    BY <1>1, <1>2, <1>5 DEF Small
  <1>9. \A s \in Small(S, n) : h[s] = SumStep(f, h, s)
    BY <1>6, <1>8 DEF SumStep
  <1> QED BY <1>1, <1>7, <1>9

Shrinks(S, s, Bad) == First(s) \in s /\ s \ {First(s)} \in (SUBSET S) \ Bad

(* What holds of a finite set and not of all its subsets fails first at    *)
(* some subset.                                                            *)
LEMMA FirstToFail ==
  ASSUME NEW S, IsFiniteSet(S), NEW Bad \in SUBSET (SUBSET S), Bad # {}
  PROVE  \E s \in Bad : s # {} => Shrinks(S, s, Bad)
  <1> DEFINE N == {Cardinality(s) : s \in Bad}
  <1>1. \A s \in Bad : Cardinality(s) \in Nat
    BY FS_Subset, FS_CardinalityType
  <1>2. N \in SUBSET Nat /\ N # {}
    BY <1>1
  <1>3. PICK n \in N : \A m \in N : n <= m
    <2> HIDE DEF N
    <2> QED BY <1>2, LeastNumber
  <1>4. PICK s \in Bad : \A t \in Bad : Cardinality(s) <= Cardinality(t)
    BY <1>3
  <1>5. s # {} => Shrinks(S, s, Bad)
    BY <1>4, FirstIsIn DEF Shrinks
  <1> QED BY <1>5

SumOver(f) == CHOOSE g : Sums(f, g)

IsSum(S, f, g) ==
  /\ SumFunction(f) = g[S] /\ g \in [SUBSET S -> Int]
  /\ \A s \in SUBSET S : g[s] = SumStep(f, g, s)

(* The sum of a function over a finite set is what its fold says it is.    *)
LEMMA SumsOf ==
  ASSUME NEW S, IsFiniteSet(S), NEW f \in [S -> Int]
  PROVE  IsSum(S, f, SumOver(f))
  <1> DEFINE n == Cardinality(S) + 1
  <1>1. n \in Nat /\ Small(S, n) = SUBSET S
    <2>1. \A s \in SUBSET S : IsFiniteSet(s) /\ Cardinality(s) \in Nat /\ Cardinality(s) <= Cardinality(S)
      BY FS_Subset, FS_CardinalityType
    <2> QED BY <2>1, FS_CardinalityType DEF Small
  <1> HIDE DEF n
  <1>2. PICK g \in [SUBSET S -> Int] : \A s \in SUBSET S : g[s] = SumStep(f, g, s)
    <2>1. SumsBelow(S, f, n)
      BY <1>1, PartialSums
    <2> QED BY <1>1, <2>1, Zenon DEF SumsBelow
  <1>3. Sums(f, g)
    BY <1>2 DEF Sums
  <1> DEFINE c == SumOver(f)
  <1>4. Sums(f, c)
    BY <1>3, Zenon DEF SumOver
  <1>5. SumFunction(f) = c[S]
    BY SumIsChosen DEF SumOver
  <1> HIDE DEF c
  <1>6. DOMAIN c = SUBSET S /\ \A s \in SUBSET S : c[s] = SumStep(f, c, s)
    BY <1>4 DEF Sums
  <1>7. \A s \in SUBSET S : c[s] = g[s]
    <2> DEFINE Bad == {s \in SUBSET S : c[s] # g[s]}
    <2> SUFFICES ASSUME Bad # {} PROVE FALSE
      OBVIOUS
    <2>1. PICK s \in Bad : s # {} => Shrinks(S, s, Bad)
      BY FirstToFail
    <2> QED BY <1>2, <1>6, <2>1 DEF SumStep, Shrinks
  <1>8. c \in [SUBSET S -> Int]
    <2>1. c = [s \in SUBSET S |-> c[s]]
      BY <1>4, <1>6 DEF Sums
    <2>2. \A s \in SUBSET S : c[s] \in Int
      BY <1>2, <1>7
    <2> QED BY <2>1, <2>2
  <1> QED BY <1>5, <1>6, <1>8 DEF c, IsSum

(* Changing one entry of a function changes its sum by as much.            *)
LEMMA SumChanges ==
  ASSUME NEW S, IsFiniteSet(S), NEW f \in [S -> Int], NEW h \in [S -> Int], NEW o \in S,
         \A p \in S \ {o} : h[p] = f[p]
  PROVE  SumFunction(h) = SumFunction(f) + (h[o] - f[o])
  <1> DEFINE g == SumOver(f)
             k == SumOver(h)
             d(s) == IF o \in s THEN h[o] - f[o] ELSE 0
             Bad == {s \in SUBSET S : k[s] # g[s] + d(s)}
  <1>1. IsSum(S, f, g)
    BY SumsOf
  <1>2. IsSum(S, h, k)
    BY SumsOf
  <1> HIDE DEF g, k
  <1>3. Bad = {}
    <2> SUFFICES ASSUME Bad # {} PROVE FALSE
      OBVIOUS
    <2>1. PICK s \in Bad : s # {} => Shrinks(S, s, Bad)
      BY FirstToFail
    <2>2. CASE s = {}
      <3>1. k[s] = 0 /\ g[s] = 0 /\ d(s) = 0
        BY <1>1, <1>2, <2>1, <2>2 DEF SumStep, IsSum
      <3> QED BY <2>1, <3>1
    <2>3. CASE s # {}
      <3> DEFINE x == First(s)
      <3>1. x \in s /\ s \ {x} \in SUBSET S /\ s \ {x} \notin Bad
        BY <2>1, <2>3 DEF Shrinks
      <3>2. g[s] = f[x] + g[s \ {x}] /\ k[s] = h[x] + k[s \ {x}]
        BY <1>1, <1>2, <2>1, <2>3 DEF SumStep, IsSum
      <3> HIDE DEF x
      <3>3. k[s \ {x}] = g[s \ {x}] + d(s \ {x})
        BY <3>1
      <3>4. h[x] \in Int /\ f[x] \in Int /\ h[o] \in Int /\ f[o] \in Int /\ g[s \ {x}] \in Int
        BY <1>1, <3>1, <2>1 DEF IsSum
      <3>5. k[s] = g[s] + d(s)
        <4>1. CASE x = o
          BY <3>1, <3>2, <3>3, <3>4, <4>1
        <4>2. CASE x # o
          BY <2>1, <3>1, <3>2, <3>3, <3>4, <4>2
        <4> QED BY <4>1, <4>2
      <3> QED BY <2>1, <3>5
    <2> QED BY <2>2, <2>3
  <1> QED BY <1>1, <1>2, <1>3 DEF IsSum

(* A function that is zero everywhere sums to zero.                        *)
LEMMA SumOfZeros ==
  ASSUME NEW S, IsFiniteSet(S), NEW f \in [S -> Int], \A o \in S : f[o] = 0
  PROVE  SumFunction(f) = 0
  <1> DEFINE g == SumOver(f)
             Bad == {s \in SUBSET S : g[s] # 0}
  <1>1. IsSum(S, f, g)
    BY SumsOf
  <1> HIDE DEF g
  <1>2. Bad = {}
    <2> SUFFICES ASSUME Bad # {} PROVE FALSE
      OBVIOUS
    <2>1. PICK s \in Bad : s # {} => Shrinks(S, s, Bad)
      BY FirstToFail
    <2> QED BY <1>1, <2>1 DEF SumStep, IsSum, Shrinks
  <1> QED BY <1>1, <1>2 DEF IsSum

----------------------------------------------------------------------------
(* Steps of POST /orders: what they do to the checkout of the order and to *)
(* the usage count.                                                        *)

Checkouts == [Orders -> [stage : Stages, redeem : Nat, points : Int, code : BOOLEAN, limit : Nat]]

CreateEffect(o) ==
  /\ checkout' \in Checkouts
  /\ \A p \in Orders : p # o => checkout'[p] = checkout[p]
  /\ checkout[o].stage # "placed"
  /\ \/ checkout'[o].stage \in {"create", "failed"} /\ usageCount' = usageCount
     \/ /\ checkout'[o].stage = "apply" /\ checkout'[o].code
        /\ checkout'[o].limit = maxUsages
        /\ usageCount' = usageCount
     \/ /\ checkout'[o].stage = "placed" /\ ~checkout'[o].code
        /\ usageCount' = usageCount
     \/ /\ checkout[o].stage = "apply" /\ BumpMatches(checkout[o].limit)
        /\ checkout'[o].stage = "placed" /\ checkout'[o].code = checkout[o].code
        /\ usageCount' = usageCount + 1
  /\ UNCHANGED <<maxUsages, limitsHad, codeState>>
  /\ UNCHANGED <<intentVars, terms, charged>>

LEMMA CreateSteps ==
  ASSUME TypeOK, NEW o \in Orders, CreateOrder(o)
  PROVE  CreateEffect(o)
<1> DEFINE Goal == CreateEffect(o)
<1> USE DEF Checkouts, CreateEffect
<1>1. ASSUME NEW redeem \in 0..calculateMaxRedeemablePoints, NEW code \in BOOLEAN,
             CreateReadBalance(o, redeem, code)
      PROVE  Goal
  <2> DEFINE points == IF redeem > 0
                         THEN Least(Least(redeem, balance), calculateMaxRedeemablePoints)
                         ELSE 0
  <2>1. redeem \in Nat /\ redeem \in Int /\ balance \in Int
    BY <1>1, AmountsTyped DEF TypeOK
  <2>2. points \in Int
    BY <2>1, AmountsTyped
  <2> HIDE DEF points
  <2>3. checkout' = [checkout EXCEPT ![o] = [stage |-> "create", redeem |-> redeem,
                       code |-> code, limit |-> 0, points |-> points]]
    BY <1>1 DEF CreateReadBalance, points
  <2>. QED
    BY <1>1, <2>1, <2>2, <2>3 DEF CreateReadBalance, TypeOK, Stages, discountVars
<1>2. ASSUME ApplyReadCode(o)
      PROVE  Goal
  <2>1. /\ checkout[o].stage = "create" /\ checkout[o].code
        /\ checkout' = [checkout EXCEPT ![o].stage = "apply", ![o].limit = maxUsages]
        /\ UNCHANGED <<discountVars, intentVars, terms, charged>>
    BY <1>2 DEF ApplyReadCode
  <2>2. checkout \in Checkouts /\ maxUsages \in Limits
    BY DEF TypeOK
  <2>3. checkout' \in Checkouts
    BY <2>1, <2>2 DEF Stages
  <2>4. /\ checkout'[o].stage = "apply" /\ checkout'[o].code
        /\ checkout'[o].limit = maxUsages
        /\ \A p \in Orders : p # o => checkout'[p] = checkout[p]
    BY <2>1, <2>2
  <2>. QED
    BY <2>1, <2>3, <2>4 DEF discountVars
<1>3. ASSUME CreateCommit(o)
      PROVE  Goal
  BY <1>3 DEF CreateCommit, To, TypeOK, Stages
<1>4. ASSUME CreateFails(o)
      PROVE  Goal
  BY <1>4 DEF CreateFails, To, TypeOK, Stages, discountVars
<1>. QED
  BY <1>1, <1>2, <1>3, <1>4 DEF CreateOrder

(* All other steps leave the checkouts and the usage count alone.          *)
LEMMA OtherSteps ==
  ASSUME [Next]_vars, ~ \E o \in Orders : CreateOrder(o)
  PROVE  UNCHANGED <<checkout, total, balance, usageCount>>
<1> USE DEF orderVars, discountVars
<1>1. ASSUME Admin
      PROVE  UNCHANGED <<checkout, total, balance, usageCount>>
  BY <1>1 DEF Admin, UpdateLimit, UpdateActive
<1>2. ASSUME NEW c \in Calls, CreateIntent(c)
      PROVE  UNCHANGED <<checkout, total, balance, usageCount>>
  BY <1>2 DEF CreateIntent, IntentRead, IntentCreate, IntentInsert, IntentFails
<1>3. ASSUME NEW o \in Orders, IntentExisting(o) \/ StripeForgetsKey(o) \/ OrderLeavesPending(o)
      PROVE  UNCHANGED <<checkout, total, balance, usageCount>>
  BY <1>3 DEF IntentExisting, StripeForgetsKey, OrderLeavesPending
<1>4. ASSUME NEW o \in Orders, Pay(o)
      PROVE  UNCHANGED <<checkout, total, balance, usageCount>>
  BY <1>4 DEF Pay, AcceptTerms, ConfirmPayment, ConfirmCardPayment, Charge
<1>5. ASSUME UNCHANGED vars
      PROVE  UNCHANGED <<checkout, total, balance, usageCount>>
  BY <1>5 DEF vars
<1>. QED
  BY <1>1, <1>2, <1>3, <1>4, <1>5 DEF Next

----------------------------------------------------------------------------
(* Type correctness.                                                       *)

LEMMA IntentAdded ==
  ASSUME NEW given \in [Orders -> SUBSET (0..MaxIntents)], NEW o \in Orders,
         NEW intent \in 0..MaxIntents
  PROVE  [given EXCEPT ![o] = @ \cup {intent}] \in [Orders -> SUBSET (0..MaxIntents)]
OBVIOUS

LEMMA TypeInit == Init => TypeOK
BY DEF Init, TypeOK, Stages, Jobs, Idle

LEMMA TypeNext == TypeOK /\ [Next]_vars => TypeOK'
<1> SUFFICES ASSUME TypeOK, [Next]_vars
             PROVE  TypeOK'
  OBVIOUS
<1>1. ASSUME NEW o \in Orders, CreateOrder(o)
      PROVE  TypeOK'
  <2>1. total' \in [Orders -> Nat]
    <3>1. adjustedTotal(checkout[o]) \in Nat
      BY TotalTyped DEF TypeOK
    <3>. QED
      BY <1>1, <3>1 DEF CreateOrder, CreateReadBalance, ApplyReadCode, CreateCommit, CreateFails,
         TypeOK
  <2>2. balance' \in Int
    <3>1. checkout[o].points \in Int
      BY DEF TypeOK
    <3>. QED
      BY <1>1, <3>1 DEF CreateOrder, CreateReadBalance, ApplyReadCode, CreateCommit, CreateFails,
         spendForCheckout, TypeOK
  <2>3. pending' \subseteq Orders
    BY <1>1 DEF CreateOrder, CreateReadBalance, ApplyReadCode, CreateCommit, CreateFails, TypeOK
  <2>4. usageCount' \in Nat
    BY <1>1, CreateSteps DEF CreateEffect, TypeOK
  <2>. QED
    BY <1>1, <2>1, <2>2, <2>3, <2>4, CreateSteps DEF CreateEffect, TypeOK, Checkouts, intentVars
<1>2. ASSUME Admin
      PROVE  TypeOK'
  BY <1>2 DEF Admin, UpdateLimit, UpdateActive, TypeOK, orderVars, intentVars
<1>3. ASSUME NEW c \in Calls, CreateIntent(c)
      PROVE  TypeOK'
  <2> USE DEF TypeOK, orderVars, discountVars
  <2>1. ASSUME job[c] # Idle
        PROVE  job[c] \in Jobs /\ job[c].order \in Orders /\ job[c].intent \in 0..MaxIntents
    BY <1>3, <2>1 DEF Jobs
  <2>2. ASSUME NEW o \in Orders, IntentRead(c, o)
        PROVE  TypeOK'
    <3>1. [op |-> "ask", order |-> o, intent |-> 0] \in Jobs
      BY DEF Jobs
    <3>. QED
      BY <2>2, <3>1 DEF IntentRead
  <2>3. ASSUME IntentCreate(c)
        PROVE  TypeOK'
    <3> DEFINE o == job[c].order
               intent == IF keyed[o] # 0 THEN keyed[o] ELSE intents[o] + 1
    <3>1. job[c] \in Jobs /\ o \in Orders
      BY <2>1, <2>3 DEF IntentCreate, Idle
    <3>2. intent \in 0..MaxIntents
      BY <2>3, <3>1 DEF IntentCreate
    <3> HIDE DEF intent
    <3>3. [job[c] EXCEPT !.op = "insert", !.intent = intent] \in Jobs
      BY <3>1, <3>2 DEF Jobs
    <3>4. /\ job' = [job EXCEPT ![c] = [job[c] EXCEPT !.op = "insert", !.intent = intent]]
          /\ keyed' = [keyed EXCEPT ![o] = intent]
          /\ intents' = [intents EXCEPT ![o] = IF keyed[o] # 0 THEN @ ELSE intent]
      BY <2>3, <3>1 DEF IntentCreate, intent
    <3>5. job' \in [Calls -> Jobs \cup {Idle}]
      BY <3>3, <3>4
    <3>6. keyed' \in [Orders -> 0..MaxIntents] /\ intents' \in [Orders -> 0..MaxIntents]
      BY <3>1, <3>2, <3>4
    <3>. QED
      BY <2>3, <3>5, <3>6 DEF IntentCreate
  <2>4. ASSUME IntentInsert(c)
        PROVE  TypeOK'
    <3>1. job[c].order \in Orders /\ job[c].intent \in 0..MaxIntents
      BY <2>1, <2>4 DEF IntentInsert, Idle
    <3>2. secrets' \in [Orders -> SUBSET (0..MaxIntents)]
      BY <2>4, <3>1, IntentAdded DEF IntentInsert, GiveSecret
    <3>. QED
      BY <2>4, <3>1, <3>2 DEF IntentInsert, EndCall
  <2>5. ASSUME IntentFails(c)
        PROVE  TypeOK'
    BY <2>5 DEF IntentFails, EndCall
  <2>. QED
    BY <1>3, <2>2, <2>3, <2>4, <2>5 DEF CreateIntent
<1>4. ASSUME NEW o \in Orders, IntentExisting(o) \/ StripeForgetsKey(o) \/ OrderLeavesPending(o)
      PROVE  TypeOK'
  <2>1. ASSUME IntentExisting(o)
        PROVE  secrets' \in [Orders -> SUBSET (0..MaxIntents)]
    <3>1. paymentRow[o] \in 0..MaxIntents
      BY DEF TypeOK
    <3>. QED
      BY <2>1, <3>1, IntentAdded DEF IntentExisting, GiveSecret, TypeOK
  <2>2. ASSUME StripeForgetsKey(o)
        PROVE  keyed' \in [Orders -> 0..MaxIntents]
    BY <2>2 DEF StripeForgetsKey, TypeOK
  <2>. QED
    BY <1>4, <2>1, <2>2 DEF IntentExisting, StripeForgetsKey, OrderLeavesPending, TypeOK,
       orderVars, discountVars, intentVars
<1>5. ASSUME NEW o \in Orders, Pay(o)
      PROVE  TypeOK'
  <2>1. ASSUME NEW intent \in 1..MaxIntents, Charge(o, intent)
        PROVE  TypeOK'
    <3>1. charged' \in [Orders -> SUBSET (0..MaxIntents)]
      BY <2>1, IntentAdded DEF Charge, TypeOK
    <3>. QED
      BY <2>1, <3>1 DEF Charge, TypeOK, orderVars, discountVars, intentVars
  <2>2. ASSUME AcceptTerms(o)
        PROVE  TypeOK'
    BY <2>2 DEF AcceptTerms, TypeOK, orderVars, discountVars, intentVars
  <2>. QED
    BY <1>5, <2>1, <2>2 DEF Pay, ConfirmPayment, ConfirmCardPayment
<1>6. ASSUME UNCHANGED vars
      PROVE  TypeOK'
  BY <1>6 DEF vars, TypeOK, orderVars, discountVars, intentVars
<1>. QED
  BY <1>1, <1>2, <1>3, <1>4, <1>5, <1>6 DEF Next

(* Every reachable state is well typed; in particular no Order.total is    *)
(* negative, whatever points and code are combined.                        *)
THEOREM TypeCorrect == Spec => []TypeOK
BY TypeInit, TypeNext, PTL DEF Spec

----------------------------------------------------------------------------
(* The discount code.                                                      *)

UsageInv ==
  /\ \A o \in Orders : checkout[o].stage = "apply" => checkout[o].code
  /\ UsageMatchesOrders

LEMMA UsageInit == Init => UsageInv
<1> SUFFICES ASSUME Init
             PROVE  UsageInv
  OBVIOUS
<1>1. PlacedWithCode = {} /\ \A o \in Orders : checkout[o].stage # "apply"
  BY DEF Init, PlacedWithCode
<1>. QED
  BY <1>1, FS_EmptySet DEF Init, UsageInv, UsageMatchesOrders

LEMMA UsageNext == TypeOK /\ UsageInv /\ [Next]_vars => UsageInv'
<1> SUFFICES ASSUME TypeOK, UsageInv, [Next]_vars
             PROVE  UsageInv'
  OBVIOUS
<1>finite. IsFiniteSet(PlacedWithCode)
  <2>1. PlacedWithCode \subseteq Orders
    BY DEF PlacedWithCode
  <2>. QED
    BY <2>1, FS_Subset
<1>1. ASSUME NEW o \in Orders, CreateOrder(o)
      PROVE  UsageInv'
  <2>1. CreateEffect(o)
    BY <1>1, CreateSteps
  <2>2. \A p \in Orders : checkout'[p].stage = "apply" => checkout'[p].code
    BY <2>1 DEF CreateEffect, UsageInv
  <2>3. o \notin PlacedWithCode
    BY <2>1 DEF CreateEffect, PlacedWithCode
  <2>4. ASSUME usageCount' = usageCount, checkout'[o].stage # "placed" \/ ~checkout'[o].code
        PROVE  UsageInv'
    <3>1. PlacedWithCode' = PlacedWithCode
      BY <2>1, <2>3, <2>4 DEF CreateEffect, PlacedWithCode
    <3>. QED
      BY <2>2, <2>4, <3>1 DEF UsageInv, UsageMatchesOrders
  <2>5. ASSUME usageCount' = usageCount + 1, checkout[o].stage = "apply",
               checkout'[o].stage = "placed", checkout'[o].code = checkout[o].code
        PROVE  UsageInv'
    <3>1. checkout'[o].code
      BY <2>5 DEF UsageInv
    <3>2. PlacedWithCode' = PlacedWithCode \cup {o}
      BY <2>1, <2>5, <3>1 DEF CreateEffect, PlacedWithCode
    <3>3. Cardinality(PlacedWithCode') = Cardinality(PlacedWithCode) + 1
      BY <1>finite, <2>3, <3>2, FS_AddElement
    <3>. QED
      BY <2>2, <2>5, <3>3 DEF UsageInv, UsageMatchesOrders
  <2>. QED
    BY <2>1, <2>4, <2>5 DEF CreateEffect
<1>2. ASSUME ~ \E o \in Orders : CreateOrder(o)
      PROVE  UsageInv'
  <2>1. UNCHANGED <<checkout, usageCount>>
    BY <1>2, OtherSteps
  <2>. QED
    BY <2>1 DEF UsageInv, UsageMatchesOrders, PlacedWithCode
<1>. QED
  BY <1>1, <1>2

(* However checkouts interleave and fail, the code's usage count is the    *)
(* number of orders placed with it.                                        *)
THEOREM UsageIsOrders == Spec => []UsageMatchesOrders
<1>1. UsageInv => UsageMatchesOrders
  BY DEF UsageInv
<1>. QED
  BY <1>1, TypeInit, TypeNext, UsageInit, UsageNext, PTL DEF Spec

LimitInv ==
  /\ maxUsages \in limitsHad
  /\ \A o \in Orders : checkout[o].stage = "apply" => checkout[o].limit \in limitsHad
  /\ LimitHonoured

LEMMA LimitInit == Init => LimitInv
<1> SUFFICES ASSUME Init
             PROVE  LimitInv
  OBVIOUS
<1>1. maxUsages \in limitsHad /\ maxUsages \in Nat /\ usageCount = 0
  BY DEF Init
<1>2. LimitHonoured
  BY <1>1 DEF LimitHonoured
<1>. QED
  BY <1>1, <1>2 DEF Init, LimitInv

LEMMA LimitNext == TypeOK /\ LimitInv /\ [Next]_vars => LimitInv'
<1> SUFFICES ASSUME TypeOK, LimitInv, [Next]_vars
             PROVE  LimitInv'
  OBVIOUS
<1>1. ASSUME NEW o \in Orders, CreateOrder(o)
      PROVE  LimitInv'
  <2>1. CreateEffect(o)
    BY <1>1, CreateSteps
  <2>2. maxUsages' \in limitsHad' /\ limitsHad' = limitsHad
    BY <2>1 DEF CreateEffect, LimitInv
  <2>3. \A p \in Orders : checkout'[p].stage = "apply" => checkout'[p].limit \in limitsHad'
    BY <2>1, <2>2 DEF CreateEffect, LimitInv
  <2>4. LimitHonoured'
    <3>1. ASSUME usageCount' = usageCount
          PROVE  LimitHonoured'
      BY <2>2, <3>1 DEF LimitInv, LimitHonoured
    <3>2. ASSUME checkout[o].stage = "apply", BumpMatches(checkout[o].limit),
                 usageCount' = usageCount + 1
          PROVE  LimitHonoured'
      <4> DEFINE limit == checkout[o].limit
      <4>1. limit \in limitsHad' /\ limit \in Nat /\ usageCount \in Nat
        BY <2>2, <3>2 DEF LimitInv, TypeOK
      <4>2. limit = 0 \/ usageCount' <= limit
        BY <3>2, <4>1 DEF BumpMatches
      <4>. QED
        BY <4>1, <4>2 DEF LimitHonoured
    <3>. QED
      BY <2>1, <3>1, <3>2 DEF CreateEffect
  <2>. QED
    BY <2>2, <2>3, <2>4 DEF LimitInv
<1>2. ASSUME ~ \E o \in Orders : CreateOrder(o)
      PROVE  LimitInv'
  <2>1. UNCHANGED <<checkout, usageCount>>
    BY <1>2, OtherSteps
  <2>2. maxUsages' \in limitsHad' /\ limitsHad \subseteq limitsHad'
    <3>1. ASSUME Admin
          PROVE  <2>2
      BY <3>1 DEF Admin, UpdateLimit, UpdateActive, LimitInv
    <3>2. ASSUME UNCHANGED <<maxUsages, limitsHad>>
          PROVE  <2>2
      BY <3>2 DEF LimitInv
    <3>3. Admin \/ UNCHANGED <<maxUsages, limitsHad>>
      BY <1>2 DEF Next, CreateIntent, IntentRead, IntentCreate, IntentInsert, IntentFails,
         IntentExisting, StripeForgetsKey, OrderLeavesPending, Pay, AcceptTerms, ConfirmPayment,
         ConfirmCardPayment, Charge, vars, discountVars
    <3>. QED
      BY <3>1, <3>2, <3>3
  <2>. QED
    BY <2>1, <2>2 DEF LimitInv, LimitHonoured
<1>. QED
  BY <1>1, <1>2

(* Two checkouts that see the last use of a code do not both get it.       *)
THEOREM LimitIsHonoured == Spec => []LimitHonoured
<1>1. LimitInv => LimitHonoured
  BY DEF LimitInv
<1>. QED
  BY <1>1, TypeInit, TypeNext, LimitInit, LimitNext, PTL DEF Spec

----------------------------------------------------------------------------
(* The PaymentIntents: a browser is only ever given the secret of the one  *)
(* in the Payment row, and the row does not change once it is there.       *)

IntentInv ==
  /\ \A c \in Calls : job[c].op = "insert" => job[c].intent # 0
  /\ \A o \in Orders : secrets[o] \subseteq {paymentRow[o]} \ {0}
  /\ \A o \in Orders : charged[o] \subseteq secrets[o]

LEMMA IntentInit == Init => IntentInv
BY DEF Init, IntentInv, Idle

LEMMA IntentNext == TypeOK /\ IntentInv /\ [Next]_vars => IntentInv'
<1> SUFFICES ASSUME TypeOK, IntentInv, [Next]_vars
             PROVE  IntentInv'
  OBVIOUS
<1>1. ASSUME UNCHANGED <<intentVars, charged>>
      PROVE  IntentInv'
  BY <1>1 DEF IntentInv, intentVars
<1>2. ASSUME NEW c \in Calls, CreateIntent(c)
      PROVE  IntentInv'
  <2>1. ASSUME NEW o \in Orders, IntentRead(c, o)
        PROVE  IntentInv'
    BY <2>1 DEF IntentRead, IntentInv, TypeOK
  <2>2. ASSUME IntentCreate(c)
        PROVE  IntentInv'
    <3> DEFINE o == job[c].order
               intent == IF keyed[o] # 0 THEN keyed[o] ELSE intents[o] + 1
    <3>1. o \in Orders
      BY <2>2 DEF IntentCreate, TypeOK, Jobs, Idle
    <3>2. intent # 0
      BY <3>1 DEF TypeOK
    <3> HIDE DEF intent
    <3>3. job' = [job EXCEPT ![c].op = "insert", ![c].intent = intent]
      BY <2>2 DEF IntentCreate, intent
    <3>4. job[c] \in Jobs
      BY <2>2 DEF IntentCreate, TypeOK, Idle
    <3>5. \A d \in Calls : job'[d].op = "insert" => job'[d].intent # 0
      BY <3>2, <3>3, <3>4 DEF IntentInv, TypeOK, Jobs
    <3>. QED
      BY <2>2, <3>5 DEF IntentCreate, IntentInv
  <2>3. ASSUME IntentInsert(c)
        PROVE  IntentInv'
    <3> DEFINE o == job[c].order
    <3>1. o \in Orders /\ job[c].intent # 0 /\ paymentRow[o] = 0
      BY <2>3 DEF IntentInsert, IntentInv, TypeOK, Jobs, Idle
    <3>2. secrets[o] = {}
      BY <3>1 DEF IntentInv
    <3>3. /\ paymentRow' = [paymentRow EXCEPT ![o] = job[c].intent]
          /\ secrets' = [secrets EXCEPT ![o] = secrets[o] \cup {job[c].intent}]
          /\ charged' = charged
      BY <2>3 DEF IntentInsert, GiveSecret
    <3>4. \A p \in Orders : secrets'[p] \subseteq {paymentRow'[p]} \ {0}
      BY <3>1, <3>2, <3>3 DEF IntentInv, TypeOK
    <3>5. \A p \in Orders : charged'[p] \subseteq secrets'[p]
      BY <3>3 DEF IntentInv, TypeOK
    <3>6. \A d \in Calls : job'[d].op = "insert" => job'[d].intent # 0
      BY <2>3 DEF IntentInsert, EndCall, IntentInv, TypeOK, Idle
    <3>. QED
      BY <3>4, <3>5, <3>6 DEF IntentInv
  <2>4. ASSUME IntentFails(c)
        PROVE  IntentInv'
    BY <2>4 DEF IntentFails, EndCall, IntentInv, TypeOK, Idle
  <2>. QED
    BY <1>2, <2>1, <2>2, <2>3, <2>4 DEF CreateIntent
<1>3. ASSUME NEW o \in Orders, IntentExisting(o)
      PROVE  IntentInv'
  <2>1. /\ secrets' = [secrets EXCEPT ![o] = secrets[o] \cup {paymentRow[o]}]
        /\ paymentRow[o] # 0
        /\ UNCHANGED <<job, paymentRow, charged>>
    BY <1>3 DEF IntentExisting, GiveSecret
  <2>. QED
    BY <2>1 DEF IntentInv, TypeOK
<1>4. ASSUME NEW o \in Orders, StripeForgetsKey(o)
      PROVE  IntentInv'
  BY <1>4 DEF StripeForgetsKey, IntentInv
<1>5. ASSUME NEW o \in Orders, NEW intent \in 1..MaxIntents, Charge(o, intent)
      PROVE  IntentInv'
  BY <1>5 DEF Charge, IntentInv, TypeOK, intentVars
<1>6. ASSUME NEW o \in Orders, CreateOrder(o)
      PROVE  UNCHANGED <<intentVars, charged>>
  BY <1>6, CreateSteps DEF CreateEffect
<1>7. ASSUME NEW o \in Orders, OrderLeavesPending(o) \/ AcceptTerms(o)
      PROVE  UNCHANGED <<intentVars, charged>>
  BY <1>7 DEF OrderLeavesPending, AcceptTerms
<1>8. ASSUME Admin \/ UNCHANGED vars
      PROVE  UNCHANGED <<intentVars, charged>>
  BY <1>8 DEF Admin, UpdateLimit, UpdateActive, vars
<1>. QED
  BY <1>1, <1>2, <1>3, <1>4, <1>5, <1>6, <1>7, <1>8
     DEF Next, Pay, ConfirmPayment, ConfirmCardPayment

(* Whatever requests overlap or die half-way, a charge is always one that  *)
(* the Payment row knows, and an order is charged at most once.            *)
THEOREM ChargeIsKnown == Spec => []EveryChargeHasItsPayment
<1>1. IntentInv => EveryChargeHasItsPayment
  BY DEF IntentInv, EveryChargeHasItsPayment
<1>. QED
  BY <1>1, TypeInit, TypeNext, IntentInit, IntentNext, PTL DEF Spec

----------------------------------------------------------------------------
(* Loyalty points.                                                         *)

Granted == [o \in Orders |-> IF checkout[o].stage = "placed" THEN AtLeastZero(checkout[o].points) ELSE 0]

LEMMA GrantedTyped == TypeOK => Granted \in [Orders -> Int]
<1> SUFFICES ASSUME TypeOK, NEW o \in Orders
             PROVE  (IF checkout[o].stage = "placed" THEN AtLeastZero(checkout[o].points) ELSE 0) \in Int
  BY DEF Granted
<1>1. checkout[o].points \in Int
  BY DEF TypeOK
<1>2. AtLeastZero(checkout[o].points) \in Int
  BY <1>1 DEF AtLeastZero
<1>. QED
  BY <1>2

LEMMA BalanceInit == Init => BalanceMatchesOrders
<1> SUFFICES ASSUME Init
             PROVE  BalanceMatchesOrders
  OBVIOUS
<1>1. Granted \in [Orders -> Int] /\ \A o \in Orders : Granted[o] = 0
  BY DEF Init, Granted
<1>2. SumFunction(Granted) = 0
  BY <1>1, SumOfZeros
<1>. QED
  BY <1>2 DEF Init, BalanceMatchesOrders, Granted

(* A step of POST /orders takes off the balance what it grants.            *)
LEMMA CreateGrants ==
  ASSUME TypeOK, NEW o \in Orders, CreateOrder(o)
  PROVE  balance' = balance - (Granted'[o] - Granted[o])
<1>1. CreateEffect(o)
  BY CreateSteps
<1>2. Granted[o] = 0 /\ balance \in Int
  BY <1>1 DEF CreateEffect, Granted, TypeOK
<1>3. Granted'[o] = IF checkout'[o].stage = "placed" THEN AtLeastZero(checkout'[o].points) ELSE 0
  BY DEF Granted
<1>4. CASE CreateCommit(o)
  <2>1. checkout \in Checkouts /\ checkout[o].points \in Int
    BY DEF TypeOK, Checkouts
  <2>2. checkout'[o].stage = "placed" /\ checkout'[o].points = checkout[o].points
    BY <1>4, <2>1 DEF CreateCommit, To, Checkouts
  <2>3. Granted'[o] = AtLeastZero(checkout[o].points)
    BY <1>3, <2>2
  <2>. QED
    BY <1>2, <1>4, <2>1, <2>3 DEF CreateCommit, spendForCheckout, AtLeastZero
<1>5. CASE ~CreateCommit(o)
  <2>1. balance' = balance /\ checkout'[o].stage # "placed"
    BY <1>1, <1>5 DEF CreateOrder, CreateReadBalance, ApplyReadCode, CreateFails, CreateEffect, To,
       TypeOK
  <2>. QED
    BY <1>2, <1>3, <2>1
<1>. QED
  BY <1>4, <1>5

LEMMA BalanceNext == TypeOK /\ BalanceMatchesOrders /\ [Next]_vars => BalanceMatchesOrders'
<1> SUFFICES ASSUME TypeOK, BalanceMatchesOrders, [Next]_vars
             PROVE  BalanceMatchesOrders'
  OBVIOUS
<1>1. balance = StartBalance - SumFunction(Granted)
  BY DEF BalanceMatchesOrders, Granted
<1>2. Granted \in [Orders -> Int] /\ Granted' \in [Orders -> Int]
  <2>1. \A o \in Orders : checkout'[o].points \in Int
    BY TypeNext DEF TypeOK
  <2>2. \A o \in Orders : AtLeastZero(checkout'[o].points) \in Int
    BY <2>1 DEF AtLeastZero
  <2>3. Granted' \in [Orders -> Int]
    BY <2>2 DEF Granted
  <2>. QED
    BY <2>3, GrantedTyped
<1>3. ASSUME NEW o \in Orders, CreateOrder(o)
      PROVE  BalanceMatchesOrders'
  <2>1. \A p \in Orders \ {o} : Granted'[p] = Granted[p]
    BY <1>3, CreateSteps DEF CreateEffect, Granted
  <2>2. SumFunction(Granted') = SumFunction(Granted) + (Granted'[o] - Granted[o])
    BY <1>2, <2>1, SumChanges
  <2>3. SumFunction(Granted) \in Int
    <3>1. IsSum(Orders, Granted, SumOver(Granted))
      BY <1>2, SumsOf
    <3>. QED
      BY <3>1 DEF IsSum
  <2>4. balance' = StartBalance - SumFunction(Granted')
    BY <1>1, <1>2, <1>3, <2>2, <2>3, CreateGrants
  <2>. QED
    BY <2>4 DEF BalanceMatchesOrders, Granted
<1>4. ASSUME ~ \E o \in Orders : CreateOrder(o)
      PROVE  BalanceMatchesOrders'
  BY <1>4, OtherSteps DEF BalanceMatchesOrders
<1>. QED
  BY <1>3, <1>4

(* Points leave the customer's balance exactly with the orders that redeem *)
(* them, however many checkouts have read the same balance, and whatever   *)
(* becomes of them (OrdersCreateService.create, spendForCheckout).         *)
THEOREM PointsAreOrders == Spec => []BalanceMatchesOrders
BY TypeInit, TypeNext, BalanceInit, BalanceNext, PTL DEF Spec

----------------------------------------------------------------------------
(* The balance itself.  It is read before the transaction and taken down   *)
(* in it without another look, so two checkouts that overlap can spend the *)
(* same points.                                                            *)

(* Checkouts that were granted points they have not yet spent. *)
Redeeming == {o \in Orders : checkout[o].stage \in {"create", "apply"} /\ checkout[o].points > 0}

OneRedeems == \A o, p \in Redeeming : o = p

Covered == balance >= 0 /\ \A o \in Redeeming : checkout[o].points <= balance

LEMMA CoveredInit == Init => Covered
BY DEF Init, Covered, Redeeming

LEMMA GrantIsCovered ==
  ASSUME NEW redeem \in Int, balance \in Int
  PROVE  Least(Least(redeem, balance), calculateMaxRedeemablePoints) <= balance
BY AmountsTyped DEF Least

LEMMA CoveredNext == TypeOK /\ Covered /\ OneRedeems /\ OneRedeems' /\ [Next]_vars => Covered'
<1> SUFFICES ASSUME TypeOK, Covered, OneRedeems, OneRedeems', [Next]_vars
             PROVE  Covered'
  OBVIOUS
<1>1. ASSUME NEW o \in Orders, CreateOrder(o), ~CreateCommit(o)
      PROVE  Covered'
  <2>1. balance' = balance /\ balance \in Int
    BY <1>1 DEF CreateOrder, CreateReadBalance, ApplyReadCode, CreateFails, TypeOK
  <2>2. \A p \in Orders \ {o} : checkout'[p] = checkout[p]
    BY <1>1, CreateSteps DEF CreateEffect
  <2>3. o \in Redeeming' => checkout'[o].points <= balance
    <3>1. ASSUME NEW redeem \in 0..calculateMaxRedeemablePoints, NEW code \in BOOLEAN,
                 CreateReadBalance(o, redeem, code), o \in Redeeming'
          PROVE  checkout'[o].points <= balance
      <4>1. checkout'[o].points =
              IF redeem > 0 THEN Least(Least(redeem, balance), calculateMaxRedeemablePoints) ELSE 0
        BY <3>1 DEF CreateReadBalance, TypeOK
      <4>2. redeem \in Int /\ 0 <= balance
        BY <3>1, AmountsTyped DEF Covered
      <4>. QED
        BY <2>1, <4>1, <4>2, GrantIsCovered
    <3>2. ASSUME ApplyReadCode(o), o \in Redeeming'
          PROVE  checkout'[o].points <= balance
      <4>1. checkout'[o].points = checkout[o].points /\ o \in Redeeming
        BY <3>2 DEF ApplyReadCode, TypeOK, Redeeming
      <4>. QED
        BY <4>1 DEF Covered
    <3>3. ASSUME CreateFails(o)
          PROVE  o \notin Redeeming'
      BY <3>3 DEF CreateFails, To, TypeOK, Redeeming
    <3>. QED
      BY <1>1, <3>1, <3>2, <3>3 DEF CreateOrder
  <2>4. \A p \in Redeeming' : p # o => p \in Redeeming
    BY <2>2 DEF Redeeming
  <2>. QED
    BY <2>1, <2>2, <2>3, <2>4 DEF Covered, Redeeming
<1>2. ASSUME NEW o \in Orders, CreateCommit(o)
      PROVE  Covered'
  <2>1. /\ checkout[o].points \in Int /\ balance \in Int
        /\ checkout[o].stage \in {"create", "apply"} /\ checkout'[o].stage = "placed"
        /\ balance' = IF checkout[o].points > 0 THEN balance - checkout[o].points ELSE balance
    BY <1>2 DEF CreateCommit, To, spendForCheckout, TypeOK
  <2>2. \A p \in Orders \ {o} : checkout'[p] = checkout[p]
    BY <1>2 DEF CreateCommit, To, TypeOK
  <2>3. Redeeming' \subseteq Redeeming \ {o}
    BY <2>1, <2>2 DEF Redeeming
  <2>4. CASE o \in Redeeming
    <3>1. Redeeming' = {}
      BY <2>3, <2>4 DEF OneRedeems
    <3>2. balance' >= 0
      BY <2>1, <2>4 DEF Covered, Redeeming
    <3>. QED
      BY <3>1, <3>2 DEF Covered
  <2>5. CASE o \notin Redeeming
    <3>1. balance' = balance
      BY <2>1, <2>5 DEF Redeeming
    <3>. QED
      BY <2>2, <2>3, <3>1 DEF Covered, Redeeming
  <2>. QED
    BY <2>4, <2>5
<1>3. ASSUME ~ \E o \in Orders : CreateOrder(o)
      PROVE  Covered'
  BY <1>3, OtherSteps DEF Covered, Redeeming
<1>. QED
  BY <1>1, <1>2, <1>3

(* While no two checkouts that redeem points are between reading the       *)
(* balance and committing the order, the customer never spends points that *)
(* are not there: the balance stays at zero or above, whatever is asked    *)
(* for, whatever codes are used and whatever fails.  As far as orders go,  *)
(* overlapping checkouts are the only way below zero                       *)
(* (OrdersCreateService.create).                                           *)
THEOREM OneCheckoutNeverOverdraws == Spec /\ []OneRedeems => [](balance >= 0)
<1>1. Covered => balance >= 0
  BY DEF Covered
<1>. QED
  BY <1>1, TypeInit, TypeNext, CoveredInit, CoveredNext, PTL DEF Spec
=============================================================================
