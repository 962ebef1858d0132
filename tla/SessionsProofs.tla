---------------------------- MODULE SessionsProofs ----------------------------
(***************************************************************************)
(* The sessions of an account, for any number of devices and requests: a   *)
(* refresh does not fork a session, the types, and what ends one.          *)
(***************************************************************************)
EXTENDS Sessions, FiniteSetTheorems, TLAPS

(* Handlers that are about to create a token row, and that the one of a    *)
(* refresh which has still to delete the old one.                          *)
Pending(j) == j.op \in {"login", "refresh", "rotate"}
Holding(j) == j.op \in {"login", "rotate"}

(***************************************************************************)
(* Why a refresh cannot fork a session.  A token id is used once           *)
(* (FreshIds); the row that a refresh has read keeps its line (OldRows);   *)
(* and a line has one holder, a row or a handler that is about to write it *)
(* (OneHolder).                                                            *)
(***************************************************************************)
Numbered ==
  /\ requests \in Nat
  /\ \A t \in tokens : t.id \in Nat /\ t.id <= requests /\ t.line \in Nat /\ t.line <= requests
  /\ \A j \in jobs : Pending(j) =>
       j.id \in Nat /\ j.id <= requests /\ j.line \in Nat /\ j.line <= requests

FreshIds ==
  /\ \A t, u \in tokens : t.id = u.id => t = u
  /\ \A j, k \in jobs : Pending(j) /\ Pending(k) /\ j.id = k.id => j = k
  /\ \A j \in jobs, t \in tokens : Pending(j) => t.id # j.id

OldRows ==
  \A r \in jobs : r.op = "refresh" =>
    /\ r.old \in Nat /\ r.old <= requests
    /\ \A t \in tokens : t.id = r.old => t.line = r.line
    /\ \A j \in jobs : Pending(j) => r.old # j.id

OneHolder ==
  /\ \A t, u \in tokens : t.line = u.line => t = u
  /\ \A j, k \in jobs : Holding(j) /\ Holding(k) /\ j.line = k.line => j = k
  /\ \A t \in tokens, j \in jobs : Holding(j) => t.line # j.line

BookInv == Numbered /\ FreshIds /\ OldRows /\ OneHolder

(* The tables do not grow: rows go, jobs end. *)
LEMMA Shrinks ==
  ASSUME BookInv, requests' \in {requests, requests + 1},
         tokens' \subseteq tokens,
         \A j \in jobs' : Pending(j) => j \in jobs
  PROVE  BookInv'
  <1>1. Numbered'
    BY SMT DEF BookInv, Numbered, Pending
  <1>2. FreshIds'
    BY SMT DEF BookInv, FreshIds, Pending
  <1>3. OldRows'
    BY SMT DEF BookInv, Numbered, OldRows, Pending
  <1>4. OneHolder'
    BY SMT DEF BookInv, OneHolder, Pending, Holding
  <1> QED BY <1>1, <1>2, <1>3, <1>4 DEF BookInv

(* A login takes a number that no session has. *)
LEMMA LoginKeeps ==
  ASSUME BookInv, NEW d \in Devices, LoginRead(d)
  PROVE  BookInv'
  <1> DEFINE n == [op |-> "login", by |-> d, id |-> requests', line |-> requests',
                   opened |-> password]
  <1>1. /\ tokens' = tokens /\ jobs' = jobs \cup {n} /\ requests' = requests + 1
        /\ requests \in Nat
    BY DEF LoginRead, Send, Start, BookInv, Numbered
  <1>2. n.op = "login" /\ n.id = requests + 1 /\ n.line = requests + 1
    BY <1>1
  <1> HIDE DEF n
  <1>3. Numbered'
    BY <1>1, <1>2, SMT DEF BookInv, Numbered, Pending
  <1>4. FreshIds'
    BY <1>1, <1>2, SMT DEF BookInv, Numbered, FreshIds, Pending
  <1>5. OldRows'
    BY <1>1, <1>2, SMT DEF BookInv, Numbered, OldRows, Pending
  <1>6. OneHolder'
    BY <1>1, <1>2, SMT DEF BookInv, Numbered, OneHolder, Holding, Pending
  <1> QED BY <1>3, <1>4, <1>5, <1>6 DEF BookInv

(* A refresh remembers the row it has found, and takes a new number for    *)
(* the row it will write; the line stays.                                  *)
LEMMA RefreshKeeps ==
  ASSUME BookInv, NEW d \in Devices, RefreshRead(d)
  PROVE  BookInv'
  <1>1. PICK t \in tokens :
          /\ Send
          /\ Start([op |-> "refresh", by |-> d, old |-> t.id, id |-> requests',
                    line |-> t.line, opened |-> t.opened])
          /\ UNCHANGED <<userRow, tokens, device, failures, changedBy, exchanged, loggedOut>>
    BY DEF RefreshRead
  <1> DEFINE n == [op |-> "refresh", by |-> d, old |-> t.id, id |-> requests',
                   line |-> t.line, opened |-> t.opened]
  <1>2. /\ tokens' = tokens /\ jobs' = jobs \cup {n} /\ requests' = requests + 1
        /\ requests \in Nat
    BY <1>1 DEF Send, Start, BookInv, Numbered
  <1>3. /\ n.op = "refresh" /\ n.id = requests + 1 /\ n.line = t.line /\ n.old = t.id
    BY <1>2
  <1> HIDE DEF n
  <1>4. Numbered'
    BY <1>2, <1>3, SMT DEF BookInv, Numbered, Pending
  <1>5. FreshIds'
    BY <1>2, <1>3, SMT DEF BookInv, Numbered, FreshIds, Pending
  <1>6. OldRows'
    <2>1. \A u \in tokens : u.id = t.id => u.line = t.line
      BY DEF BookInv, FreshIds
    <2> QED BY <1>2, <1>3, <2>1, SMT DEF BookInv, Numbered, FreshIds, OldRows, Pending
  <1>7. OneHolder'
    BY <1>2, <1>3, SMT DEF BookInv, OneHolder, Holding
  <1> QED BY <1>4, <1>5, <1>6, <1>7 DEF BookInv

(* The old row goes and the handler holds the session in its place. *)
LEMMA DeleteKeeps ==
  ASSUME BookInv, NEW j \in jobs, RefreshDelete(j)
  PROVE  BookInv'
  <1> DEFINE n == [op |-> "rotate", by |-> j.by, id |-> j.id, line |-> j.line,
                   opened |-> j.opened]
  <1>1. /\ j.op = "refresh" /\ tokens' = {t \in tokens : t.id # j.old}
        /\ jobs' = (jobs \ {j}) \cup {n} /\ requests' = requests
    BY DEF RefreshDelete, Continue, WithoutRow
  <1>2. PICK t \in tokens : t.id = j.old
    BY DEF RefreshDelete
  <1>3. n.op = "rotate" /\ n.id = j.id /\ n.line = j.line
    OBVIOUS
  <1> HIDE DEF n
  <1>4. Numbered'
    BY <1>1, <1>3, SMT DEF BookInv, Numbered, Pending
  <1>5. FreshIds'
    BY <1>1, <1>3, SMT DEF BookInv, FreshIds, Pending
  <1>6. OldRows'
    BY <1>1, <1>3, SMT DEF BookInv, OldRows, Pending
  <1>7. t.line = j.line
    BY <1>1, <1>2, SMT DEF BookInv, OldRows
  <1>8. OneHolder'
    <2>1. \A u \in tokens' : u.line # j.line
      BY <1>1, <1>2, <1>7, SMT DEF BookInv, OneHolder
    <2>2. \A k \in jobs : Holding(k) => k.line # j.line
      BY <1>2, <1>7, SMT DEF BookInv, OneHolder
    <2> QED BY <1>1, <1>3, <2>1, <2>2, SMT DEF BookInv, OneHolder, Holding
  <1> QED BY <1>4, <1>5, <1>6, <1>8 DEF BookInv

(* The row is written and the handler is done. *)
LEMMA CreateKeeps ==
  ASSUME BookInv, NEW j \in jobs, CreateToken(j)
  PROVE  BookInv'
  <1> DEFINE t == [id |-> j.id, line |-> j.line, opened |-> j.opened]
  <1>1. /\ Holding(j) /\ Pending(j) /\ tokens' = tokens \cup {t}
        /\ jobs' = jobs \ {j} /\ requests' = requests
    BY DEF CreateToken, Finish, Holding, Pending
  <1>2. t.id = j.id /\ t.line = j.line
    OBVIOUS
  <1> HIDE DEF t
  <1>3. Numbered'
    BY <1>1, <1>2, SMT DEF BookInv, Numbered, Pending
  <1>4. FreshIds'
    BY <1>1, <1>2, SMT DEF BookInv, FreshIds, Pending
  <1>5. OldRows'
    BY <1>1, <1>2, SMT DEF BookInv, OldRows, Pending
  <1>6. OneHolder'
    BY <1>1, <1>2, SMT DEF BookInv, OneHolder, Holding
  <1> QED BY <1>3, <1>4, <1>5, <1>6 DEF BookInv

(* Every other step lets rows go and jobs end, or starts a job that is not *)
(* about a session.                                                        *)
LEMMA CustomerShrinks ==
  ASSUME BookInv, NEW d \in Devices,
         \/ RegisterRead(d) \/ ResendRead(d) \/ VerifyRead(d)
         \/ RefreshExpired(d) \/ AccessExpires(d) \/ SignOut(d) \/ ResetRead(d) \/ ChangeRead(d)
  PROVE  /\ requests' \in {requests, requests + 1} /\ tokens' \subseteq tokens
         /\ \A j \in jobs' : Pending(j) => j \in jobs
  <1>1. requests \in Nat
    BY DEF BookInv, Numbered
  <1>2. requests' \in {requests, requests + 1} /\ tokens' \subseteq tokens
    <2>1. CASE SignOut(d)
      BY <2>1 DEF SignOut, Send
    <2>2. CASE AccessExpires(d)
      BY <2>2 DEF AccessExpires
    <2>3. CASE RefreshExpired(d)
      BY <2>3 DEF RefreshExpired, Send, WithoutRow
    <2>4. CASE RegisterRead(d) \/ ResendRead(d) \/ VerifyRead(d) \/ ResetRead(d) \/ ChangeRead(d)
      BY <2>4 DEF RegisterRead, ResendRead, VerifyRead, ResetRead, ChangeRead, Send
    <2> QED BY <2>1, <2>2, <2>3, <2>4
  <1>3. \A j \in jobs' : Pending(j) => j \in jobs
    BY SMT DEF RegisterRead, ResendRead, VerifyRead, RefreshExpired, AccessExpires, SignOut,
                ResetRead, ChangeRead, Start, Pending
  <1> QED BY <1>2, <1>3

LEMMA HandlerShrinks ==
  ASSUME BookInv, NEW j \in jobs,
         \/ RegisterCreate(j) \/ (\E arrives \in BOOLEAN : IssueLink(j, arrives)) \/ VerifyCommit(j)
         \/ RefreshLost(j) \/ LogoutCommit(j) \/ ResetCommit(j) \/ ChangeCommit(j) \/ HandlerDies(j)
  PROVE  /\ requests' = requests /\ tokens' \subseteq tokens
         /\ \A k \in jobs' : Pending(k) => k \in jobs
  <1>1. requests' = requests /\ tokens' \subseteq tokens
    BY SMT DEF RegisterCreate, IssueLink, VerifyCommit, RefreshLost, LogoutCommit, ResetCommit,
               ChangeCommit, HandlerDies, WithoutRow
  <1>2. \A k \in jobs' : Pending(k) => k \in jobs
    BY SMT DEF RegisterCreate, IssueLink, VerifyCommit, RefreshLost, LogoutCommit, ResetCommit,
               ChangeCommit, HandlerDies, Finish, Continue, Pending
  <1> QED BY <1>1, <1>2

LEMMA OthersShrink ==
  ASSUME BookInv, LinkAges \/ ForgotPassword \/ ResetLinkAges
  PROVE  requests' \in {requests, requests + 1} /\ tokens' = tokens /\ jobs' = jobs
  BY SMT DEF LinkAges, ForgotPassword, ResetLinkAges, Send

(* What a step does to the book: it keeps it as it is, or lets sessions    *)
(* go, or writes a new line.                                               *)
Step(new) ==
  /\ BookInv'
  /\ requests' \in {requests, requests + 1}
  /\ Live' \subseteq Live \cup new

LEMMA ShrinkStep ==
  ASSUME BookInv, requests' \in {requests, requests + 1}, tokens' \subseteq tokens,
         \A j \in jobs' : Pending(j) => j \in jobs
  PROVE  Step({})
  <1>1. Live' \subseteq Live
    BY SMT DEF Live, Pending
  <1> QED BY <1>1, Shrinks DEF Step

LEMMA BookStep ==
  ASSUME BookInv, Next
  PROVE  Step({}) \/ (requests' = requests + 1 /\ Step({requests'}))
  <1>1. ASSUME NEW d \in Devices, Customer(d)
        PROVE  Step({}) \/ (requests' = requests + 1 /\ Step({requests'}))
    <2>1. CASE LoginRead(d)
      <3>1. requests' = requests + 1 /\ tokens' = tokens
        BY <2>1 DEF LoginRead, Send
      <3>2. \A j \in jobs' : j \in jobs \/ j.line = requests'
        BY <2>1, SMT DEF LoginRead, Start
      <3>3. Live' \subseteq Live \cup {requests'}
        BY <3>1, <3>2, SMT DEF Live
      <3> QED BY <2>1, <3>1, <3>3, LoginKeeps DEF Step
    <2>2. CASE RefreshRead(d)
      <3>1. requests' = requests + 1 /\ tokens' = tokens
        BY <2>2 DEF RefreshRead, Send
      <3>2. \A j \in jobs' : j \in jobs \/ j.op = "refresh"
        BY <2>2, SMT DEF RefreshRead, Start
      <3>3. Live' \subseteq Live
        BY <3>1, <3>2, SMT DEF Live
      <3> QED BY <2>2, <3>1, <3>3, RefreshKeeps DEF Step
    <2>3. CASE ~LoginRead(d) /\ ~RefreshRead(d)
      BY <1>1, <2>3, CustomerShrinks, ShrinkStep DEF Customer
    <2> QED BY <2>1, <2>2, <2>3
  <1>2. ASSUME NEW j \in jobs, Handler(j) \/ HandlerDies(j)
        PROVE  Step({})
    <2>1. CASE RefreshDelete(j)
      <3>1. requests' = requests /\ tokens' \subseteq tokens
        BY <2>1 DEF RefreshDelete, WithoutRow
      <3>2. PICK t \in tokens : t.line = j.line
        BY <2>1 DEF RefreshDelete, BookInv, OldRows
      <3>3. \A k \in jobs' : k \in jobs \/ k.line = t.line
        BY <2>1, <3>2, SMT DEF RefreshDelete, Continue
      <3>4. Live' \subseteq Live
        BY <3>1, <3>3, SMT DEF Live
      <3> QED BY <2>1, <3>1, <3>4, DeleteKeeps DEF Step
    <2>2. CASE CreateToken(j)
      <3>1. requests' = requests /\ jobs' \subseteq jobs /\ j.op \in {"login", "rotate"}
        BY <2>2 DEF CreateToken, Finish
      <3>2. \A t \in tokens' : t \in tokens \/ t.line = j.line
        BY <2>2, SMT DEF CreateToken
      <3>3. Live' \subseteq Live
        BY <3>1, <3>2, SMT DEF Live
      <3> QED BY <2>2, <3>1, <3>3, CreateKeeps DEF Step
    <2>3. CASE ~RefreshDelete(j) /\ ~CreateToken(j)
      BY <1>2, <2>3, HandlerShrinks, ShrinkStep DEF Handler
    <2> QED BY <2>1, <2>2, <2>3
  <1>3. CASE LinkAges \/ ForgotPassword \/ ResetLinkAges
    BY <1>3, OthersShrink, ShrinkStep
  <1> QED BY <1>1, <1>2, <1>3 DEF Next

LEMMA BookInit == Init => BookInv /\ Book!Init
  BY SMT DEF Init, BookInv, Numbered, FreshIds, OldRows, OneHolder, Live, Book!Init

LEMMA BookInductive == BookInv /\ [Next]_vars => BookInv'
  <1>1. CASE Next
    BY <1>1, BookStep DEF Step
  <1>2. CASE UNCHANGED vars
    BY <1>2 DEF vars, BookInv, Numbered, FreshIds, OldRows, OneHolder
  <1> QED BY <1>1, <1>2

LEMMA BookAlways == Spec => []BookInv
  BY BookInit, BookInductive, PTL DEF Spec

----------------------------------------------------------------------------
(* However many refreshes of a token overlap, with logouts, resets and     *)
(* crashes between their statements, a login has one session: a row, or    *)
(* one handler that is about to write it (auth.service.ts, refreshTokens). *)
THEOREM OneSession == Spec => []OneSessionPerLogin
  <1>1. ASSUME BookInv PROVE OneSessionPerLogin
    <2> SUFFICES ASSUME NEW n \in Numbers
                 PROVE  Cardinality({t \in tokens : t.line = n})
                          + Cardinality({j \in jobs : j.op \in {"login", "rotate"} /\ j.line = n}) <= 1
      BY DEF OneSessionPerLogin
    <2> DEFINE T == {t \in tokens : t.line = n}
               J == {j \in jobs : j.op \in {"login", "rotate"} /\ j.line = n}
    <2>1. /\ \A t, u \in T : t = u
          /\ \A j, k \in J : j = k
          /\ T = {} \/ J = {}
      BY <1>1 DEF BookInv, OneHolder, Holding
    <2> HIDE DEF T, J
    <2>2. ASSUME NEW S, \A x, y \in S : x = y
          PROVE  Cardinality(S) \in {0, 1}
      <3>1. CASE S = {}
        BY <3>1, FS_EmptySet
      <3>2. CASE S # {}
        <4>1. PICK x : S = {x}
          BY <2>2, <3>2
        <4> QED BY <4>1, FS_Singleton
      <3> QED BY <3>1, <3>2
    <2>3. Cardinality(T) \in {0, 1} /\ Cardinality(J) \in {0, 1}
      BY <2>1, <2>2
    <2>4. Cardinality(T) = 0 \/ Cardinality(J) = 0
      BY <2>1, FS_EmptySet
    <2>5. Cardinality(T) + Cardinality(J) <= 1
      BY <2>3, <2>4, SMT
    <2> QED BY <2>5 DEF T, J
  <1> QED BY <1>1, BookAlways, PTL

(* The statements of the handlers, interleaved in any way, implement the   *)
(* book of sessions: a session that has ended does not come back.          *)
THEOREM SessionsKeepTheBook == Spec => KeepsTheBook
  <1>1. BookInv /\ [Next]_vars => [Book!Next]_Book!bookVars
    <2> SUFFICES ASSUME BookInv, [Next]_vars PROVE [Book!Next]_Book!bookVars
      OBVIOUS
    <2>1. CASE Next
      <3>1. CASE Step({})
        BY <3>1, SMT DEF Step, Book!Next, Book!Open, Book!End
      <3>2. CASE requests' = requests + 1 /\ Step({requests'})
        BY <3>2, SMT DEF Step, Book!Next, Book!Open, Book!End
      <3> QED BY <2>1, <3>1, <3>2, BookStep
    <2>2. CASE UNCHANGED vars
      BY <2>2 DEF vars, Live, Book!bookVars
    <2> QED BY <2>1, <2>2
  <1> QED BY <1>1, BookInit, BookAlways, PTL DEF Spec, KeepsTheBook, Book!Spec

----------------------------------------------------------------------------
(***************************************************************************)
(* Types.  What a handler in flight carries was given out by a request     *)
(* that has been counted (Accepted); a link has changed the password no    *)
(* more often than there were requests, less those still to do so          *)
(* (ResetsCounted).                                                        *)
(***************************************************************************)
USE RequestsAssumption, FailuresAssumption

Accepted ==
  \A j \in jobs :
    /\ j.op \in {"issue", "verify"} => account # "none"
    /\ Pending(j) => account = "verified"
    /\ j.op = "reset" => j.link <= requests /\ j.new <= requests
    /\ j.op = "change" => j.new <= requests

Resets == {j \in jobs : j.op = "reset"}

ResetsCounted ==
  /\ IsFiniteSet(jobs)
  /\ \A l \in Numbers : changedBy[l] + Cardinality(Resets) <= requests

TypeInv == TypeOK /\ Accepted /\ ResetsCounted

(* Whatever the handlers are, those whose sessions and links end together  *)
(* are known by a number.                                                  *)
LEMMA EndedTyped ==
  ASSUME NEW js \in SUBSET Jobs
  PROVE  EndedTogether(js) \subseteq Numbers
  BY SMT DEF EndedTogether, Opening, Jobs

LEMMA StartTyped ==
  ASSUME TypeInv, NEW j \in Jobs, Start(j)
  PROVE  /\ jobs' \subseteq Jobs /\ raced' \subseteq Numbers
         /\ jobs' = jobs \cup {j} /\ IsFiniteSet(jobs')
  <1>1. jobs' = jobs \cup {j} /\ raced' = raced \cup EndedTogether(jobs')
    BY DEF Start
  <1>2. jobs' \in SUBSET Jobs
    BY <1>1 DEF TypeInv, TypeOK
  <1>3. EndedTogether(jobs') \subseteq Numbers
    BY <1>2, EndedTyped
  <1>4. IsFiniteSet(jobs')
    BY <1>1, FS_AddElement DEF TypeInv, ResetsCounted
  <1> QED BY <1>1, <1>2, <1>3, <1>4 DEF TypeInv, TypeOK

LEMMA ContinueTyped ==
  ASSUME TypeInv, NEW j \in jobs, NEW k \in Jobs, Continue(j, k)
  PROVE  /\ jobs' \subseteq Jobs /\ raced' \subseteq Numbers
         /\ jobs' = (jobs \ {j}) \cup {k} /\ IsFiniteSet(jobs')
  <1>1. jobs' = (jobs \ {j}) \cup {k} /\ raced' = raced \cup EndedTogether(jobs')
    BY DEF Continue
  <1>2. jobs' \in SUBSET Jobs
    BY <1>1 DEF TypeInv, TypeOK
  <1>3. EndedTogether(jobs') \subseteq Numbers
    BY <1>2, EndedTyped
  <1>4. IsFiniteSet(jobs')
    BY <1>1, FS_AddElement, FS_RemoveElement DEF TypeInv, ResetsCounted
  <1> QED BY <1>1, <1>2, <1>3, <1>4 DEF TypeInv, TypeOK

LEMMA FinishTyped ==
  ASSUME TypeInv, NEW j \in jobs, Finish(j)
  PROVE  /\ jobs' \subseteq Jobs /\ jobs' = jobs \ {j} /\ IsFiniteSet(jobs')
  BY FS_RemoveElement DEF Finish, TypeInv, TypeOK, ResetsCounted

(* The count of resets stands while no reset starts and none is done.      *)
LEMMA CountStands ==
  ASSUME TypeInv, IsFiniteSet(jobs'), Resets' \subseteq Resets, changedBy' = changedBy,
         requests' \in {requests, requests + 1}
  PROVE  ResetsCounted'
  <1>1. IsFiniteSet(Resets)
    BY FS_Subset DEF TypeInv, ResetsCounted, Resets
  <1>2. Cardinality(Resets) \in Nat /\ Cardinality(Resets') \in Nat
        /\ Cardinality(Resets') <= Cardinality(Resets)
    BY <1>1, FS_Subset, FS_CardinalityType
  <1>3. requests \in Nat /\ \A l \in Numbers : changedBy[l] \in Nat
    BY DEF TypeInv, TypeOK
  <1> QED BY <1>2, <1>3, SMT DEF TypeInv, ResetsCounted

LEMMA OneMore ==
  ASSUME NEW S, NEW x, IsFiniteSet(S)
  PROVE  /\ Cardinality(S) \in Nat /\ Cardinality(S \cup {x}) \in Nat
         /\ Cardinality(S \cup {x}) <= Cardinality(S) + 1
  <1>1. Cardinality(S) \in Nat
    BY FS_CardinalityType
  <1>2. Cardinality(S \cup {x}) = IF x \in S THEN Cardinality(S) ELSE Cardinality(S) + 1
    BY FS_AddElement
  <1> QED BY <1>1, <1>2

(* What a job carries. *)
LEMMA JobFields ==
  ASSUME NEW j \in Jobs
  PROVE  /\ j.by \in Devices
         /\ Pending(j) => /\ j.id \in Numbers /\ j.line \in Numbers
                          /\ j.opened \in 0..MaxRequests
         /\ j.op = "refresh" => j.old \in Numbers
         /\ j.op = "logout" => j.id \in Numbers /\ j.line \in Numbers
         /\ j.op = "reset" => j.link \in Numbers /\ j.new \in Numbers
         /\ j.op = "change" => j.new \in Numbers
  BY SMT DEF Jobs, Pending

(* A request that is accepted starts a handler and writes nothing yet.     *)
LEMMA StartKeeps ==
  ASSUME TypeInv, NEW j \in Jobs, Start(j),
         UNCHANGED <<userRow, tokens, device, failures, changedBy, exchanged, loggedOut>>,
         UNCHANGED requests \/ Send,
         j.op \in {"issue", "verify"} => account # "none",
         Pending(j) => account = "verified",
         j.op = "reset" => Send /\ j.link <= requests' /\ j.new <= requests',
         j.op = "change" => j.new <= requests'
  PROVE  TypeInv'
  <1>1. /\ jobs' \subseteq Jobs /\ raced' \subseteq Numbers
        /\ jobs' = jobs \cup {j} /\ IsFiniteSet(jobs')
    BY StartTyped
  <1>2. /\ requests \in 0..MaxRequests /\ requests' \in 0..MaxRequests
        /\ requests <= requests'
    BY DEF TypeInv, TypeOK, Send
  <1>3. TypeOK'
    BY <1>1, <1>2, SMT DEF TypeInv, TypeOK, userRow
  <1>4. Accepted'
    <2>1. UNCHANGED <<account, device>>
      BY DEF userRow
    <2>2. ASSUME NEW k \in jobs
          PROVE  /\ k.op = "reset" => k.link <= requests' /\ k.new <= requests'
                 /\ k.op = "change" => k.new <= requests'
      <3>1. k \in Jobs
        BY DEF TypeInv, TypeOK
      <3> QED BY <1>2, <3>1, JobFields DEF TypeInv, Accepted, Numbers
    <2> QED BY <1>1, <2>1, <2>2 DEF TypeInv, Accepted
  <1>5. ResetsCounted'
    <2>1. CASE j.op # "reset"
      <3>1. Resets' \subseteq Resets /\ requests' \in {requests, requests + 1}
        BY <1>1, <2>1 DEF Resets, Send
      <3> QED BY <1>1, <3>1, CountStands
    <2>2. CASE j.op = "reset"
      <3>1. Resets' = Resets \cup {j} /\ requests' = requests + 1
        BY <1>1, <2>2 DEF Resets, Send
      <3>2. IsFiniteSet(Resets)
        BY FS_Subset DEF TypeInv, ResetsCounted, Resets
      <3>3. Cardinality(Resets) \in Nat /\ Cardinality(Resets') \in Nat
            /\ Cardinality(Resets') <= Cardinality(Resets) + 1
        BY <3>1, <3>2, OneMore
      <3>4. \A l \in Numbers : changedBy[l] \in Nat
        BY DEF TypeInv, TypeOK
      <3> QED BY <1>1, <1>2, <3>1, <3>3, <3>4, SMT DEF TypeInv, ResetsCounted
    <2> QED BY <2>1, <2>2
  <1> QED BY <1>3, <1>4, <1>5 DEF TypeInv

(* A browser that loses a token is still a browser. *)
LEMMA FewerTokens ==
  ASSUME NEW f \in [Devices -> Browsers], NEW d \in Devices, NEW a
  PROVE  /\ [f EXCEPT ![d].access = @ \ {a}] \in [Devices -> Browsers]
         /\ \A e \in Devices :
              [f EXCEPT ![d].access = @ \ {a}][e].access \subseteq f[e].access
  <1> DEFINE x == [f[d] EXCEPT !.access = f[d].access \ {a}]
  <1>1. x \in Browsers /\ x.access \subseteq f[d].access
    BY DEF Browsers
  <1> HIDE DEF x
  <1>2. [f EXCEPT ![d] = x] \in [Devices -> Browsers]
        /\ \A e \in Devices : [f EXCEPT ![d] = x][e].access \subseteq f[e].access
    BY <1>1
  <1> QED BY <1>2 DEF x

LEMMA CustomerTyped ==
  ASSUME TypeInv, BookInv, NEW d \in Devices, Customer(d)
  PROVE  TypeInv'
  <1>requests. requests \in 0..MaxRequests /\ (Send => requests' \in Numbers)
    BY DEF TypeInv, TypeOK, Send, Numbers
  <1>device. device[d] \in Browsers
    BY DEF TypeInv, TypeOK
  <1>tokens. \A t \in tokens : t \in Rows
    BY DEF TypeInv, TypeOK
  <1>1. CASE RegisterRead(d)
    <2> DEFINE j == [op |-> "register", by |-> d]
    <2>1. j \in Jobs /\ j.op = "register"
      BY DEF Jobs
    <2>2. Start(j) /\ UNCHANGED <<userRow, tokens, device, requests, failures, changedBy, exchanged, loggedOut>>
      BY <1>1 DEF RegisterRead
    <2> HIDE DEF j
    <2> QED BY <2>1, <2>2, StartKeeps DEF Pending
  <1>2. CASE ResendRead(d)
    <2> DEFINE j == [op |-> "issue", by |-> d]
    <2>1. j \in Jobs /\ j.op = "issue"
      BY DEF Jobs
    <2>2. /\ Start(j) /\ account = "unverified"
          /\ UNCHANGED <<userRow, tokens, device, requests, failures, changedBy, exchanged, loggedOut>>
      BY <1>2 DEF ResendRead, ResendButton
    <2> HIDE DEF j
    <2> QED BY <2>1, <2>2, StartKeeps DEF Pending
  <1>3. CASE VerifyRead(d)
    <2> DEFINE j == [op |-> "verify", by |-> d]
    <2>1. j \in Jobs /\ j.op = "verify"
      BY DEF Jobs
    <2>2. /\ Start(j) /\ account = "unverified"
          /\ UNCHANGED <<userRow, tokens, device, requests, failures, changedBy, exchanged, loggedOut>>
      BY <1>3 DEF VerifyRead, LinkGood
    <2> HIDE DEF j
    <2> QED BY <2>1, <2>2, StartKeeps DEF Pending
  <1>4. CASE LoginRead(d)
    <2> DEFINE j == [op |-> "login", by |-> d, id |-> requests', line |-> requests',
                     opened |-> password]
    <2>1. Send /\ Start(j) /\ account = "verified"
          /\ UNCHANGED <<userRow, tokens, device, failures, changedBy, exchanged, loggedOut>>
      BY <1>4 DEF LoginRead, LoginAllowed
    <2>2. password \in 0..MaxRequests
      BY DEF TypeInv, TypeOK
    <2>3. j \in Jobs /\ j.op = "login"
      BY <1>requests, <2>1, <2>2 DEF Jobs
    <2> HIDE DEF j
    <2> QED BY <2>1, <2>3, StartKeeps DEF Pending
  <1>5. CASE RefreshRead(d)
    <2>1. PICK t \in tokens :
            /\ Send
            /\ Start([op |-> "refresh", by |-> d, old |-> t.id, id |-> requests',
                      line |-> t.line, opened |-> t.opened])
            /\ UNCHANGED <<userRow, tokens, device, failures, changedBy, exchanged, loggedOut>>
      BY <1>5 DEF RefreshRead
    <2> DEFINE j == [op |-> "refresh", by |-> d, old |-> t.id, id |-> requests',
                     line |-> t.line, opened |-> t.opened]
    <2>2. t.id \in Numbers /\ t.line \in Numbers /\ t.opened \in 0..MaxRequests
      BY <1>tokens DEF Rows
    <2>3. j \in Jobs /\ j.op = "refresh"
      BY <1>requests, <2>1, <2>2 DEF Jobs
    <2>4. account = "verified"
      BY DEF TypeInv, TypeOK
    <2> HIDE DEF j
    <2> QED BY <2>1, <2>3, <2>4, StartKeeps DEF Pending, j
  <1>6. CASE ResetRead(d)
    <2> DEFINE j == [op |-> "reset", by |-> d, link |-> resetLink, new |-> requests']
    <2>1. Send /\ Start(j) /\ resetLink # 0
          /\ UNCHANGED <<userRow, tokens, device, failures, changedBy, exchanged, loggedOut>>
      BY <1>6 DEF ResetRead, ResetForm
    <2>2. resetLink \in Numbers /\ resetLink <= requests /\ requests' = requests + 1
      BY <1>requests, <2>1, SMT DEF TypeInv, TypeOK, Numbers, Send
    <2>3. j \in Jobs /\ j.op = "reset" /\ j.link <= requests' /\ j.new <= requests'
      BY <1>requests, <2>1, <2>2 DEF Jobs, Numbers
    <2> HIDE DEF j
    <2> QED BY <2>1, <2>3, StartKeeps DEF Pending
  <1>7. CASE ChangeRead(d)
    <2> DEFINE j == [op |-> "change", by |-> d, new |-> requests']
    <2>1. /\ Send /\ Start(j)
          /\ UNCHANGED <<userRow, tokens, device, failures, changedBy, exchanged, loggedOut>>
      BY <1>7 DEF ChangeRead
    <2>2. j \in Jobs /\ j.op = "change" /\ j.new <= requests'
      BY <1>requests, <2>1 DEF Jobs, Numbers
    <2> HIDE DEF j
    <2> QED BY <2>1, <2>2, StartKeeps DEF Pending
  <1>8. CASE RefreshExpired(d)
    <2>1. /\ tokens' \subseteq tokens /\ Send
          /\ UNCHANGED <<userRow, device, jobs, failures, history>>
      BY <1>8 DEF RefreshExpired, WithoutRow
    <2>2. requests' = requests + 1 /\ requests' \in 0..MaxRequests
      BY <1>requests, <2>1 DEF Send, Numbers
    <2>3. TypeOK'
      BY <2>1, <2>2, SMT DEF TypeInv, TypeOK, userRow, history
    <2>4. Accepted'
      BY <2>1, <2>2, SMT DEF TypeInv, TypeOK, Accepted, userRow, Jobs, Numbers, Pending
    <2>5. ResetsCounted'
      BY <2>1, <2>2, CountStands DEF Resets, TypeInv, ResetsCounted, history
    <2> QED BY <2>3, <2>4, <2>5 DEF TypeInv
  <1>9. CASE AccessExpires(d)
    <2>1. PICK a : /\ device' = [device EXCEPT ![d].access = @ \ {a}]
                   /\ UNCHANGED <<userRow, tokens, jobs, requests, failures, history>>
      BY <1>9, Zenon DEF AccessExpires
    <2>2. device' \in [Devices -> Browsers]
      BY <2>1, FewerTokens DEF TypeInv, TypeOK
    <2>3. TypeOK'
      BY <2>1, <2>2 DEF TypeInv, TypeOK, userRow, history
    <2>4. Accepted'
      BY <2>1, SMT DEF TypeInv, Accepted, userRow, Pending
    <2>5. ResetsCounted'
      BY <2>1, CountStands DEF Resets, TypeInv, ResetsCounted, history
    <2> QED BY <2>3, <2>4, <2>5 DEF TypeInv
  <1>10. CASE SignOut(d)
    <2>1. PICK a \in device[d].access :
            /\ Send
            /\ Start([op |-> "logout", by |-> d, id |-> a.id, line |-> a.line])
            /\ device' \in {device, [device EXCEPT ![d].access = @ \ {a}]}
            /\ UNCHANGED <<userRow, tokens, failures, changedBy, exchanged, loggedOut>>
      BY <1>10, Zenon DEF SignOut
    <2> DEFINE j == [op |-> "logout", by |-> d, id |-> a.id, line |-> a.line]
    <2>2. j \in Jobs /\ j.op = "logout"
      BY <1>device, <2>1 DEF Jobs, Browsers, AccessTokens
    <2>3. Start(j)
      BY <2>1
    <2> HIDE DEF j
    <2>4. /\ jobs' \subseteq Jobs /\ raced' \subseteq Numbers /\ IsFiniteSet(jobs')
          /\ jobs' = jobs \cup {j}
      BY <2>2, <2>3, StartTyped
    <2>5. requests' = requests + 1 /\ requests' \in 0..MaxRequests
      BY <1>requests, <2>1 DEF Send, Numbers
    <2>6. device' \in [Devices -> Browsers]
      <3>1. device \in [Devices -> Browsers]
        BY DEF TypeInv, TypeOK
      <3>2. CASE device' = device
        BY <3>1, <3>2
      <3>3. CASE device' = [device EXCEPT ![d].access = @ \ {a}]
        BY <3>1, <3>3, FewerTokens
      <3> QED BY <2>1, <3>2, <3>3
    <2>7. TypeOK'
      <3>1. password' \in 0..requests' /\ resetLink' \in 0..requests'
        BY <1>requests, <2>1, <2>5 DEF TypeInv, TypeOK, userRow
      <3> QED BY <2>1, <2>4, <2>5, <2>6, <3>1 DEF TypeInv, TypeOK, userRow
    <2>8. Accepted'
      <3>1. account' = account
        BY <2>1 DEF userRow
      <3>2. \A k \in jobs : k \in Jobs
        BY DEF TypeInv, TypeOK
      <3> QED BY <1>requests, <2>2, <2>4, <2>5, <3>1, <3>2, JobFields, SMT
              DEF TypeInv, Accepted, Pending, Numbers
    <2>9. ResetsCounted'
      <3>1. Resets' \subseteq Resets
        BY <2>2, <2>4 DEF Resets
      <3> QED BY <2>1, <2>4, <2>5, <3>1, CountStands
    <2> QED BY <2>7, <2>8, <2>9 DEF TypeInv
  <1> QED BY <1>1, <1>2, <1>3, <1>4, <1>5, <1>6, <1>7, <1>8, <1>9, <1>10
          DEF Customer

(* A handler that ends, or goes on to its next statement, without touching *)
(* a row or a password.                                                    *)
LEMMA RestTyped ==
  ASSUME TypeInv, jobs' \subseteq Jobs, IsFiniteSet(jobs'), raced' \subseteq Numbers,
         requests' = requests, failures' \in 0..MaxFailures,
         UNCHANGED <<userRow, tokens, device, changedBy, exchanged, loggedOut>>,
         \A k \in jobs' : \/ k \in jobs
                          \/ k.op = "issue" /\ account # "none"
                          \/ k.op = "rotate" /\ account = "verified"
  PROVE  TypeInv'
  <1>1. TypeOK'
    BY SMT DEF TypeInv, TypeOK, userRow
  <1>2. Accepted'
    BY SMT DEF TypeInv, Accepted, userRow, Pending
  <1>3. Resets' \subseteq Resets
    BY DEF Resets
  <1> QED BY <1>1, <1>2, <1>3, CountStands DEF TypeInv

LEMMA HandlerTyped ==
  ASSUME TypeInv, BookInv, NEW j \in jobs, Handler(j) \/ HandlerDies(j)
  PROVE  TypeInv'
  <1>j. j \in Jobs
    BY DEF TypeInv, TypeOK
  <1>raced. raced \subseteq Numbers /\ failures \in 0..MaxFailures
    BY DEF TypeInv, TypeOK
  <1>finish. Finish(j) => /\ jobs' \subseteq Jobs /\ jobs' = jobs \ {j} /\ IsFiniteSet(jobs')
                          /\ Resets' \subseteq Resets
    BY FinishTyped DEF Resets
  <1>device. \A d \in Devices : device[d] \in Browsers
    BY DEF TypeInv, TypeOK
  <1>1. CASE RegisterCreate(j)
    <2>1. CASE account = "none"
      <3> DEFINE k == [op |-> "issue", by |-> j.by]
      <3>1. k \in Jobs /\ k.op = "issue"
        BY <1>j, JobFields DEF Jobs
      <3>2. /\ Continue(j, k) /\ account' = "unverified"
            /\ UNCHANGED <<password, verifyLink, mailed, resetLink, resetFresh, tokens, device,
                           requests, failures, changedBy, exchanged, loggedOut>>
        BY <1>1, <2>1 DEF RegisterCreate
      <3> HIDE DEF k
      <3>3. /\ jobs' \subseteq Jobs /\ raced' \subseteq Numbers
            /\ jobs' = (jobs \ {j}) \cup {k} /\ IsFiniteSet(jobs')
        BY <3>1, <3>2, ContinueTyped
      <3>4. TypeOK'
        BY <2>1, <3>2, <3>3, SMT DEF TypeInv, TypeOK
      <3>5. \A i \in jobs : ~Pending(i)
        BY <2>1 DEF TypeInv, Accepted
      <3>6. Accepted'
        BY <2>1, <3>1, <3>2, <3>3, <3>5, SMT DEF TypeInv, Accepted, Pending
      <3>7. Resets' \subseteq Resets
        BY <3>1, <3>3 DEF Resets
      <3> QED BY <3>2, <3>3, <3>4, <3>6, <3>7, CountStands DEF TypeInv
    <2>2. CASE account # "none"
      <3>1. /\ Finish(j)
            /\ UNCHANGED <<userRow, tokens, device, requests, failures, changedBy, exchanged, loggedOut, raced>>
        BY <1>1, <2>2 DEF RegisterCreate, userRow
      <3> QED BY <1>finish, <1>raced, <3>1, RestTyped
    <2> QED BY <2>1, <2>2
  <1>2. ASSUME NEW arrives \in BOOLEAN, IssueLink(j, arrives)
        PROVE  TypeInv'
    <2>1. /\ Finish(j) /\ account # "none" /\ verifyLink' = "fresh" /\ mailed' \in BOOLEAN
          /\ UNCHANGED <<account, password, resetLink, resetFresh, tokens, device, requests, history>>
      BY <1>2 DEF IssueLink, TypeInv, Accepted
    <2>2. failures' \in 0..MaxFailures
      BY <1>2, <1>raced DEF IssueLink
    <2>3. TypeOK'
      BY <1>finish, <2>1, <2>2, SMT DEF TypeInv, TypeOK, history
    <2>4. Accepted'
      BY <1>finish, <2>1, SMT DEF TypeInv, Accepted, Pending
    <2>5. ResetsCounted'
      BY <1>finish, <2>1, CountStands DEF history
    <2> QED BY <2>3, <2>4, <2>5 DEF TypeInv
  <1>3. CASE VerifyCommit(j)
    <2>1. /\ Finish(j) /\ account' = "verified" /\ verifyLink' = "none"
          /\ mailed' \in BOOLEAN /\ ~mailed'
          /\ UNCHANGED <<password, resetLink, resetFresh, tokens, device, requests, failures, history>>
      BY <1>3 DEF VerifyCommit
    <2>2. TypeOK'
      BY <1>finish, <2>1, SMT DEF TypeInv, TypeOK, history
    <2>3. Accepted'
      BY <1>finish, <2>1, SMT DEF TypeInv, Accepted, Pending
    <2>4. ResetsCounted'
      BY <1>finish, <2>1, CountStands DEF history
    <2> QED BY <2>2, <2>3, <2>4 DEF TypeInv
  <1>4. CASE CreateToken(j)
    <2> DEFINE t == [id |-> j.id, line |-> j.line, opened |-> j.opened]
               x == [cookie |-> j.id,
                     access |-> device[j.by].access \cup {[id |-> j.id, line |-> j.line]}]
    <2>1. /\ Pending(j) /\ Finish(j) /\ tokens' = tokens \cup {t}
          /\ device' = [device EXCEPT ![j.by] = x]
          /\ UNCHANGED <<userRow, requests, failures, history>>
      BY <1>4 DEF CreateToken, Pending
    <2>2. t \in Rows /\ account = "verified" /\ j.by \in Devices /\ x \in Browsers
      BY <1>j, <1>device, <2>1, JobFields DEF Rows, Numbers, TypeInv, Accepted, Browsers, AccessTokens
    <2> HIDE DEF t, x
    <2>3. device' \in [Devices -> Browsers]
      BY <2>1, <2>2 DEF TypeInv, TypeOK
    <2>4. TypeOK'
      BY <1>finish, <2>1, <2>2, <2>3 DEF TypeInv, TypeOK, userRow, history
    <2>5. Accepted'
      BY <1>finish, <2>1, SMT DEF TypeInv, Accepted, userRow, Pending
    <2>6. ResetsCounted'
      BY <1>finish, <2>1, CountStands DEF history
    <2> QED BY <2>4, <2>5, <2>6 DEF TypeInv
  <1>5. CASE RefreshDelete(j)
    <2> DEFINE k == [op |-> "rotate", by |-> j.by, id |-> j.id, line |-> j.line,
                     opened |-> j.opened]
    <2>1. /\ j.op = "refresh" /\ Continue(j, k) /\ tokens' \subseteq tokens /\ tokens # {}
          /\ exchanged' = exchanged \cup {j.old} /\ j.old \in Numbers
          /\ UNCHANGED <<userRow, device, requests, failures, changedBy, loggedOut>>
      BY <1>5, <1>j, JobFields DEF RefreshDelete, WithoutRow
    <2>2. k \in Jobs /\ k.op = "rotate"
      BY <1>j, <2>1, JobFields DEF Jobs, Pending
    <2> HIDE DEF k
    <2>3. /\ jobs' \subseteq Jobs /\ raced' \subseteq Numbers
          /\ jobs' = (jobs \ {j}) \cup {k} /\ IsFiniteSet(jobs')
      BY <2>1, <2>2, ContinueTyped
    <2>4. TypeOK'
      BY <2>1, <2>3, SMT DEF TypeInv, TypeOK, userRow
    <2>5. account = "verified"
      BY <2>1 DEF TypeInv, TypeOK
    <2>6. Accepted'
      BY <2>1, <2>2, <2>3, <2>5, SMT DEF TypeInv, Accepted, userRow, Pending
    <2>7. Resets' \subseteq Resets
      BY <2>2, <2>3 DEF Resets
    <2> QED BY <2>1, <2>3, <2>4, <2>6, <2>7, CountStands DEF TypeInv
  <1>6. CASE RefreshLost(j)
    BY <1>6, <1>finish, <1>raced, RestTyped DEF RefreshLost, history
  <1>7. CASE LogoutCommit(j)
    <2> DEFINE x == [device[j.by] EXCEPT !.cookie = 0]
    <2>1. /\ j.op = "logout" /\ Finish(j) /\ tokens' \subseteq tokens
          /\ device' = [device EXCEPT ![j.by] = x]
          /\ loggedOut' \subseteq loggedOut \cup {j.line}
          /\ UNCHANGED <<userRow, requests, failures, changedBy, exchanged, raced>>
      BY <1>7, Zenon DEF LogoutCommit, LoggedOut, WithoutRow
    <2>2. j.by \in Devices /\ j.line \in Numbers /\ x \in Browsers
      BY <1>j, <1>device, <2>1, JobFields DEF Browsers
    <2> HIDE DEF x
    <2>3. device' \in [Devices -> Browsers] /\ loggedOut' \subseteq Numbers
      BY <2>1, <2>2 DEF TypeInv, TypeOK
    <2>4. TypeOK'
      BY <1>finish, <2>1, <2>3 DEF TypeInv, TypeOK, userRow
    <2>5. Accepted'
      BY <1>finish, <2>1, SMT DEF TypeInv, Accepted, userRow, Pending
    <2>6. ResetsCounted'
      BY <1>finish, <2>1, CountStands
    <2> QED BY <2>4, <2>5, <2>6 DEF TypeInv
  <1>8. CASE ResetCommit(j)
    <2>1. /\ j.op = "reset" /\ Finish(j) /\ tokens' = {} /\ password' = j.new
          /\ resetLink' = 0 /\ resetFresh' \in BOOLEAN
          /\ changedBy' = [changedBy EXCEPT ![j.link] = @ + 1]
          /\ UNCHANGED <<account, verifyLink, mailed, device, requests, failures, exchanged, loggedOut, raced>>
      BY <1>8 DEF ResetCommit
    <2>2. j.link \in Numbers /\ j.new \in 0..requests /\ requests \in 0..MaxRequests
      BY <1>j, <2>1, JobFields DEF TypeInv, TypeOK, Accepted, Numbers
    <2>3. IsFiniteSet(Resets) /\ j \in Resets /\ Resets' = Resets \ {j} /\ IsFiniteSet(jobs')
      BY <1>finish, <2>1, FS_Subset DEF TypeInv, ResetsCounted, Resets
    <2>4. /\ Cardinality(Resets) \in Nat
          /\ Cardinality(Resets') = Cardinality(Resets) - 1
      BY <2>3, FS_CardinalityType, FS_RemoveElement
    <2>5. \A l \in Numbers : changedBy[l] \in 0..MaxRequests /\ changedBy'[l] \in Nat
      BY <2>1, <2>2, SMT DEF TypeInv, TypeOK
    <2>6. ResetsCounted'
      BY <2>1, <2>2, <2>3, <2>4, <2>5, SMT DEF TypeInv, TypeOK, ResetsCounted
    <2>7. \A l \in Numbers : changedBy'[l] \in 0..MaxRequests
      <3>1. Cardinality(Resets') \in Nat
        BY <2>3, FS_CardinalityType, FS_Subset DEF Resets
      <3> QED BY <2>1, <2>2, <2>5, <2>6, <3>1, SMT DEF ResetsCounted
    <2>8. changedBy' \in [Numbers -> 0..MaxRequests]
      BY <2>1, <2>7 DEF TypeInv, TypeOK
    <2>9. TypeOK'
      BY <1>finish, <2>1, <2>2, <2>8, SMT DEF TypeInv, TypeOK
    <2>10. Accepted'
      BY <1>finish, <2>1, SMT DEF TypeInv, Accepted, Pending
    <2> QED BY <2>6, <2>9, <2>10 DEF TypeInv
  <1>9. CASE ChangeCommit(j)
    <2>1. /\ j.op = "change" /\ Finish(j) /\ tokens' = {} /\ password' = j.new
          /\ UNCHANGED <<account, verifyLink, mailed, resetLink, resetFresh, device, requests,
                         failures, history>>
      BY <1>9 DEF ChangeCommit
    <2>2. j.new \in 0..requests
      BY <1>j, <2>1, JobFields DEF TypeInv, TypeOK, Accepted, Numbers
    <2>3. TypeOK'
      BY <1>finish, <2>1, <2>2, SMT DEF TypeInv, TypeOK, history
    <2>4. Accepted'
      BY <1>finish, <2>1, SMT DEF TypeInv, Accepted, Pending
    <2>5. ResetsCounted'
      BY <1>finish, <2>1, CountStands DEF history
    <2> QED BY <2>3, <2>4, <2>5 DEF TypeInv
  <1>10. CASE HandlerDies(j)
    <2>1. failures' \in 0..MaxFailures
      BY <1>10, <1>raced DEF HandlerDies
    <2> QED BY <1>10, <1>finish, <1>raced, <2>1, RestTyped DEF HandlerDies, history
  <1> QED BY <1>1, <1>2, <1>3, <1>4, <1>5, <1>6, <1>7, <1>8, <1>9, <1>10 DEF Handler

LEMMA TypeInit == Init => TypeInv
  <1> SUFFICES ASSUME Init PROVE TypeInv
    OBVIOUS
  <1>1. TypeOK
    <2>1. mailed \in BOOLEAN /\ ~mailed /\ resetFresh \in BOOLEAN
      BY Zenon DEF Init
    <2>2. device \in [Devices -> Browsers]
      BY DEF Init, NoSession, Browsers
    <2> QED BY <2>1, <2>2, SMT DEF Init, TypeOK, Numbers
  <1>2. Accepted
    BY SMT DEF Init, Accepted
  <1>3. ResetsCounted
    <2>1. Resets = {} /\ jobs = {}
      BY DEF Init, Resets
    <2> QED BY <2>1, FS_EmptySet DEF Init, ResetsCounted
  <1> QED BY <1>1, <1>2, <1>3 DEF TypeInv

LEMMA TypeNext == TypeInv /\ BookInv /\ [Next]_vars => TypeInv'
  <1> SUFFICES ASSUME TypeInv, BookInv, [Next]_vars PROVE TypeInv'
    OBVIOUS
  <1>1. CASE LinkAges
    <2>1. TypeOK'
      BY <1>1, SMT DEF LinkAges, TypeInv, TypeOK, history
    <2>2. Accepted' /\ ResetsCounted'
      BY <1>1 DEF LinkAges, TypeInv, Accepted, ResetsCounted, Resets, history
    <2> QED BY <2>1, <2>2 DEF TypeInv
  <1>2. CASE ForgotPassword
    <2>1. requests' = requests + 1 /\ requests' \in 0..MaxRequests /\ requests \in 0..MaxRequests
      BY <1>2 DEF ForgotPassword, Send, TypeInv, TypeOK
    <2>2. TypeOK'
      BY <1>2, <2>1, SMT DEF ForgotPassword, TypeInv, TypeOK, history
    <2>3. \A k \in jobs : k \in Jobs
      BY DEF TypeInv, TypeOK
    <2>4. Accepted'
      BY <1>2, <2>1, <2>3, JobFields, SMT DEF ForgotPassword, TypeInv, Accepted, Pending, Numbers
    <2>5. ResetsCounted'
      BY <1>2, <2>1, CountStands DEF ForgotPassword, TypeInv, ResetsCounted, Resets, history
    <2> QED BY <2>2, <2>4, <2>5 DEF TypeInv
  <1>3. CASE ResetLinkAges
    <2>1. TypeOK'
      <3>1. resetFresh' \in BOOLEAN
        BY <1>3, Zenon DEF ResetLinkAges
      <3> QED BY <1>3, <3>1, SMT DEF ResetLinkAges, TypeInv, TypeOK, history
    <2>2. Accepted' /\ ResetsCounted'
      BY <1>3 DEF ResetLinkAges, TypeInv, Accepted, ResetsCounted, Resets, history
    <2> QED BY <2>1, <2>2 DEF TypeInv
  <1>4. CASE UNCHANGED vars
    <2>1. TypeOK'
      BY <1>4, SMT DEF vars, userRow, history, TypeInv, TypeOK
    <2>2. Accepted' /\ ResetsCounted'
      BY <1>4 DEF vars, userRow, history, TypeInv, Accepted, ResetsCounted, Resets
    <2> QED BY <2>1, <2>2 DEF TypeInv
  <1> QED BY <1>1, <1>2, <1>3, <1>4, CustomerTyped, HandlerTyped DEF Next

(* Every reachable state is well typed: no row without a verified account, *)
(* no mail without its link, no browser with a token that no request was   *)
(* made for, whatever the handlers read before they wrote.                 *)
THEOREM SessionsTypes == Spec => []TypeOK
  <1>1. TypeInv => TypeOK
    BY DEF TypeInv
  <1> QED BY <1>1, TypeInit, TypeNext, BookAlways, PTL DEF Spec

----------------------------------------------------------------------------
(***************************************************************************)
(* What has ended stays ended.  The overlaps of the handlers in flight     *)
(* have been remembered (RacesKnown), so that four things are left to see. *)
(* A handler that is about to write a row has read the password that is    *)
(* still the account's (PasswordKnown).  An access token, in a browser or  *)
(* in a request to log out, belongs to the only row of its session unless  *)
(* its refresh token has been exchanged (TokensKnown), so that no row of a *)
(* session that was logged out is left (LogoutKnown).  A link that can     *)
(* still be used, or is being used, has not changed the password yet       *)
(* (LinksKnown).                                                           *)
(***************************************************************************)
RacesKnown == EndedTogether(jobs) \subseteq raced

Latest(a) ==
  /\ \A t \in tokens : t.line = a.line => t.id = a.id
  /\ \A j \in jobs : Holding(j) => j.line # a.line

Known(a) == a.line <= requests /\ (a.id \in exchanged \/ Latest(a))

TokensKnown ==
  /\ \A d \in Devices : \A a \in device[d].access : Known(a)
  /\ \A j \in jobs : j.op = "logout" => Known(j)

PasswordKnown ==
  /\ SessionsKnowThePassword
  /\ \A j \in jobs : Pending(j) => j.opened = password \/ j.line \in raced

LogoutKnown ==
  /\ \A l \in loggedOut : l <= requests
  /\ \A t \in tokens : t.line \in loggedOut => t.line \in raced
  /\ \A j \in jobs : Pending(j) /\ j.line \in loggedOut => j.line \in raced

LinksKnown ==
  /\ ResetLinkWorksOnce
  /\ \A l \in Numbers : l > requests => changedBy[l] = 0
  /\ resetLink # 0 => changedBy[resetLink] = 0 \/ resetLink \in raced
  /\ \A j \in jobs : j.op = "reset" => changedBy[j.link] = 0 \/ j.link \in raced

EndedInv == RacesKnown /\ TokensKnown /\ PasswordKnown /\ LogoutKnown /\ LinksKnown

LEMMA EndedMonotone ==
  ASSUME NEW js, NEW ks, js \subseteq ks
  PROVE  EndedTogether(js) \subseteq EndedTogether(ks)
  BY SMT DEF EndedTogether, Opening

(* Two requests that end a session, or use a link, together are recorded.  *)
LEMMA RaceSeen ==
  ASSUME RacesKnown
  PROVE  /\ \A j, k \in jobs : Pending(j) /\ k.op \in {"reset", "change"} => j.line \in raced
         /\ \A j, k \in jobs : Pending(j) /\ k.op = "logout" /\ k.line = j.line => j.line \in raced
         /\ \A j, k \in jobs : /\ j.op = "reset" /\ k.op = "reset" /\ j # k /\ j.link = k.link
                               => j.link \in raced
  BY SMT DEF RacesKnown, EndedTogether, Opening, Pending

(* No step forgets a race. *)
RacesKept == RacesKnown' /\ raced \subseteq raced'

LEMMA StartSees == ASSUME NEW j, Start(j) PROVE RacesKept
  BY DEF Start, RacesKept, RacesKnown

LEMMA ContinueSees == ASSUME NEW j, NEW k, Continue(j, k) PROVE RacesKept
  BY DEF Continue, RacesKept, RacesKnown

LEMMA FewerSee ==
  ASSUME RacesKnown, jobs' \subseteq jobs, raced' = raced
  PROVE  RacesKept
  BY EndedMonotone DEF RacesKept, RacesKnown

(* Numbers are numbers: what the types say, in the form used below.        *)
Numerals ==
  /\ requests \in Nat /\ password \in Nat /\ resetLink \in 0..requests
  /\ \A t \in tokens : /\ t.id \in Nat \ {0} /\ t.line \in Nat \ {0} /\ t.line \in Numbers
                       /\ t.id <= requests /\ t.line <= requests
  /\ \A d \in Devices : \A a \in device[d].access : a.line \in Nat
  /\ \A j \in jobs : /\ Pending(j) => /\ j.id \in Nat \ {0} /\ j.line \in Nat \ {0}
                                      /\ j.id <= requests /\ j.line <= requests
                     /\ j.op = "logout" => j.line \in Nat
                     /\ j.op = "reset" => j.link \in Numbers /\ j.link <= requests
  /\ \A l \in loggedOut : l \in Nat
  /\ changedBy \in [Numbers -> Nat]

LEMMA Typed == TypeInv /\ BookInv => Numerals
  <1> SUFFICES ASSUME TypeInv, BookInv PROVE Numerals
    OBVIOUS
  <1>1. \A j \in jobs : j \in Jobs
    BY DEF TypeInv, TypeOK
  <1>2. \A t \in tokens : t \in Rows
    BY DEF TypeInv, TypeOK
  <1>3. \A j \in jobs : /\ Pending(j) => /\ j.id \in Nat \ {0} /\ j.line \in Nat \ {0}
                                         /\ j.id <= requests /\ j.line <= requests
                        /\ j.op = "logout" => j.line \in Nat
                        /\ j.op = "reset" => j.link \in Numbers /\ j.link <= requests
    BY <1>1, JobFields DEF TypeInv, Accepted, BookInv, Numbered, Numbers
  <1>4. \A t \in tokens : /\ t.id \in Nat \ {0} /\ t.line \in Nat \ {0} /\ t.line \in Numbers
                          /\ t.id <= requests /\ t.line <= requests
    BY <1>2 DEF BookInv, Numbered, Numbers, Rows
  <1>5. \A d \in Devices : \A a \in device[d].access : a.line \in Nat
    <2> SUFFICES ASSUME NEW d \in Devices, NEW a \in device[d].access PROVE a.line \in Nat
      OBVIOUS
    <2>1. a \in AccessTokens
      BY DEF TypeInv, TypeOK, Browsers
    <2> QED BY <2>1 DEF AccessTokens, Numbers
  <1>6. changedBy \in [Numbers -> Nat] /\ \A l \in loggedOut : l \in Nat
    BY DEF TypeInv, TypeOK, Numbers
  <1> QED BY <1>3, <1>4, <1>5, <1>6 DEF Numerals, TypeInv, TypeOK

(* Nobody is about to write a row that was not before, no token is new.    *)
LEMMA TokensStay ==
  ASSUME TokensKnown, Numerals, requests' \in {requests, requests + 1},
         exchanged' = exchanged, tokens' \subseteq tokens,
         \A d \in Devices : device'[d].access \subseteq device[d].access,
         \A j \in jobs' : (Holding(j) \/ j.op = "logout") => j \in jobs
  PROVE  TokensKnown'
  <1>1. ASSUME NEW a, Known(a), a.line \in Nat PROVE Known(a)'
    BY <1>1, SMT DEF Known, Latest, Numerals, Holding
  <1>2. \A d \in Devices : \A a \in device'[d].access : Known(a)'
    BY <1>1 DEF TokensKnown, Numerals
  <1>3. \A j \in jobs' : j.op = "logout" => Known(j)'
    BY <1>1 DEF TokensKnown, Numerals
  <1> QED BY <1>2, <1>3 DEF TokensKnown

(* A step that opens no session and uses no link: rows and jobs may go,    *)
(* and a link may be replaced by a new one.                                *)
LEMMA EndedShrinks ==
  ASSUME EndedInv, Numerals, RacesKept, requests' \in {requests, requests + 1},
         UNCHANGED <<password, exchanged, loggedOut, changedBy>>,
         tokens' \subseteq tokens,
         \A d \in Devices : device'[d].access \subseteq device[d].access,
         resetLink' \in {resetLink, 0} \/ (resetLink' = requests' /\ Send),
         \A k \in jobs' : \/ k \in jobs
                          \/ k.op \in {"register", "issue", "verify", "change"}
  PROVE  EndedInv'
  <1>1. \A k \in jobs' : Pending(k) \/ k.op \in {"logout", "reset"} => k \in jobs
    BY DEF Pending
  <1>2. TokensKnown'
    BY <1>1, TokensStay DEF EndedInv, Holding, Pending
  <1>3. PasswordKnown'
    BY <1>1, SMT DEF EndedInv, PasswordKnown, SessionsKnowThePassword, RacesKept
  <1>4. LogoutKnown'
    BY <1>1, SMT DEF EndedInv, LogoutKnown, Numerals, RacesKept
  <1>5. LinksKnown'
    <2>1. resetLink' # 0 => changedBy[resetLink'] = 0 \/ resetLink' \in raced'
      <3>1. CASE resetLink' = resetLink
        BY <3>1 DEF EndedInv, LinksKnown, RacesKept
      <3>2. CASE resetLink' = requests' /\ Send
        <4>1. requests' \in Numbers /\ requests' > requests
          BY <3>2 DEF Send, Numerals, Numbers
        <4> QED BY <3>2, <4>1 DEF EndedInv, LinksKnown
      <3> QED BY <3>1, <3>2
    <2> QED BY <1>1, <2>1, SMT DEF EndedInv, LinksKnown, ResetLinkWorksOnce, Numerals, Numbers,
                                        RacesKept
  <1> QED BY <1>2, <1>3, <1>4, <1>5 DEF EndedInv, RacesKept

(* A login takes the password that is there, and a line nobody knows.      *)
LEMMA LoginEnded ==
  ASSUME EndedInv, Numerals, NEW d \in Devices, LoginRead(d)
  PROVE  EndedInv'
  <1> DEFINE n == [op |-> "login", by |-> d, id |-> requests', line |-> requests',
                   opened |-> password]
  <1>1. /\ jobs' = jobs \cup {n} /\ requests' = requests + 1
        /\ UNCHANGED <<password, resetLink, tokens, device, changedBy, exchanged, loggedOut>>
    BY DEF LoginRead, Send, Start, userRow
  <1>2. /\ n.op = "login" /\ n.by = d /\ n.id = requests + 1 /\ n.line = requests + 1
        /\ n.opened = password
    BY <1>1
  <1>3. RacesKept
    BY StartSees DEF LoginRead
  <1> HIDE DEF n
  <1>4. TokensKnown'
    <2>1. ASSUME NEW a, Known(a), a.line \in Nat PROVE Known(a)'
      BY <1>1, <1>2, <2>1, SMT DEF Known, Latest, Numerals
    <2> QED BY <1>1, <1>2, <2>1 DEF EndedInv, TokensKnown, Numerals
  <1>5. PasswordKnown'
    BY <1>1, <1>2, <1>3, SMT DEF EndedInv, PasswordKnown, SessionsKnowThePassword, RacesKept
  <1>6. LogoutKnown'
    BY <1>1, <1>2, <1>3, SMT DEF EndedInv, LogoutKnown, Numerals, RacesKept
  <1>7. LinksKnown'
    BY <1>1, <1>2, <1>3, SMT DEF EndedInv, LinksKnown, ResetLinkWorksOnce, Numerals, Numbers,
                                        RacesKept
  <1> QED BY <1>3, <1>4, <1>5, <1>6, <1>7 DEF EndedInv, RacesKept

(* A refresh is about the session of the row.                              *)
LEMMA RefreshEnded ==
  ASSUME EndedInv, Numerals, NEW d \in Devices, RefreshRead(d)
  PROVE  EndedInv'
  <1>1. PICK t \in tokens :
          /\ Send
          /\ Start([op |-> "refresh", by |-> d, old |-> t.id, id |-> requests',
                    line |-> t.line, opened |-> t.opened])
          /\ UNCHANGED <<userRow, tokens, device, failures, changedBy, exchanged, loggedOut>>
    BY DEF RefreshRead
  <1> DEFINE n == [op |-> "refresh", by |-> d, old |-> t.id, id |-> requests',
                   line |-> t.line, opened |-> t.opened]
  <1>2. /\ jobs' = jobs \cup {n} /\ requests' = requests + 1
        /\ UNCHANGED <<password, resetLink, tokens, device, changedBy, exchanged, loggedOut>>
    BY <1>1 DEF Send, Start, userRow
  <1>3. /\ n.op = "refresh" /\ n.by = d /\ n.id = requests + 1 /\ n.line = t.line
        /\ n.opened = t.opened
    BY <1>2
  <1>4. RacesKept
    BY <1>1, StartSees
  <1> HIDE DEF n
  <1>6. TokensKnown'
    BY <1>2, <1>3, TokensStay DEF EndedInv, Holding
  <1>7. PasswordKnown'
    BY <1>2, <1>3, <1>4, SMT DEF EndedInv, PasswordKnown, SessionsKnowThePassword, RacesKept
  <1>8. LogoutKnown'
    BY <1>2, <1>3, <1>4, SMT DEF EndedInv, LogoutKnown, Numerals, RacesKept
  <1>9. LinksKnown'
    BY <1>2, <1>3, <1>4, SMT DEF EndedInv, LinksKnown, ResetLinkWorksOnce, Numerals, Numbers,
                                        RacesKept
  <1> QED BY <1>4, <1>6, <1>7, <1>8, <1>9 DEF EndedInv, RacesKept

(* A browser asks for the end of the session of an access token it has.    *)
LEMMA SignOutEnded ==
  ASSUME EndedInv, Numerals, TypeInv, NEW d \in Devices, SignOut(d)
  PROVE  EndedInv'
  <1>1. PICK a \in device[d].access :
          /\ Send
          /\ Start([op |-> "logout", by |-> d, id |-> a.id, line |-> a.line])
          /\ device' \in {device, [device EXCEPT ![d].access = @ \ {a}]}
          /\ UNCHANGED <<userRow, tokens, failures, changedBy, exchanged, loggedOut>>
    BY Zenon DEF SignOut
  <1> DEFINE n == [op |-> "logout", by |-> d, id |-> a.id, line |-> a.line]
  <1>2. n.op = "logout" /\ n.id = a.id /\ n.line = a.line
    OBVIOUS
  <1>3. jobs' = jobs \cup {n} /\ requests' = requests + 1
    BY <1>1 DEF Send, Start
  <1>4. RacesKept
    BY <1>1, StartSees
  <1>5. UNCHANGED <<password, resetLink, tokens, changedBy, exchanged, loggedOut>>
    BY <1>1 DEF userRow
  <1> HIDE DEF n
  <1>6. \A e \in Devices : device'[e].access \subseteq device[e].access
    <2>1. device \in [Devices -> Browsers]
      BY DEF TypeInv, TypeOK
    <2>2. CASE device' = device
      BY <2>2
    <2>3. CASE device' = [device EXCEPT ![d].access = @ \ {a}]
      BY <2>1, <2>3, FewerTokens
    <2> QED BY <1>1, <2>2, <2>3
  <1>7. TokensKnown'
    <2>1. ASSUME NEW b, Known(b), b.line \in Nat PROVE Known(b)'
      BY <1>2, <1>3, <1>5, <2>1, SMT DEF Known, Latest, Numerals, Holding
    <2>2. Known(n) /\ n.line \in Nat
      BY <1>2 DEF EndedInv, TokensKnown, Known, Latest, Numerals
    <2> QED BY <1>3, <1>6, <2>1, <2>2 DEF EndedInv, TokensKnown, Numerals
  <1>8. PasswordKnown'
    BY <1>2, <1>3, <1>4, <1>5, SMT DEF EndedInv, PasswordKnown, SessionsKnowThePassword,
                                       RacesKept, Pending
  <1>9. LogoutKnown'
    BY <1>2, <1>3, <1>4, <1>5, SMT DEF EndedInv, LogoutKnown, Numerals, RacesKept, Pending
  <1>10. LinksKnown'
    BY <1>2, <1>3, <1>4, <1>5, SMT DEF EndedInv, LinksKnown, ResetLinkWorksOnce, Numerals, Numbers,
                                       RacesKept
  <1> QED BY <1>4, <1>7, <1>8, <1>9, <1>10 DEF EndedInv, RacesKept

(* A reset is asked for with the link that is in the row. *)
LEMMA ResetReadEnded ==
  ASSUME EndedInv, Numerals, NEW d \in Devices, ResetRead(d)
  PROVE  EndedInv'
  <1> DEFINE n == [op |-> "reset", by |-> d, link |-> resetLink, new |-> requests']
  <1>1. /\ jobs' = jobs \cup {n} /\ requests' = requests + 1 /\ resetLink # 0
        /\ UNCHANGED <<password, resetLink, tokens, device, changedBy, exchanged, loggedOut>>
    BY DEF ResetRead, ResetForm, Send, Start, userRow
  <1>2. n.op = "reset" /\ n.link = resetLink
    OBVIOUS
  <1>3. RacesKept
    BY StartSees DEF ResetRead
  <1> HIDE DEF n
  <1>4. TokensKnown'
    BY <1>1, <1>2, TokensStay DEF EndedInv, Holding
  <1>5. PasswordKnown'
    BY <1>1, <1>2, <1>3, SMT DEF EndedInv, PasswordKnown, SessionsKnowThePassword, RacesKept, Pending
  <1>6. LogoutKnown'
    BY <1>1, <1>2, <1>3, SMT DEF EndedInv, LogoutKnown, Numerals, RacesKept, Pending
  <1>7. LinksKnown'
    BY <1>1, <1>2, <1>3, SMT DEF EndedInv, LinksKnown, ResetLinkWorksOnce, Numerals, Numbers,
                                        RacesKept
  <1> QED BY <1>3, <1>4, <1>5, <1>6, <1>7 DEF EndedInv, RacesKept

LEMMA CustomerEnded ==
  ASSUME EndedInv, Numerals, TypeInv, NEW d \in Devices, Customer(d)
  PROVE  EndedInv'
  <1>1. CASE LoginRead(d)
    BY <1>1, LoginEnded
  <1>2. CASE RefreshRead(d)
    BY <1>2, RefreshEnded
  <1>3. CASE SignOut(d)
    BY <1>3, SignOutEnded
  <1>4. CASE ResetRead(d)
    BY <1>4, ResetReadEnded
  <1>5. CASE RegisterRead(d) \/ ResendRead(d) \/ VerifyRead(d) \/ ChangeRead(d)
    <2>1. /\ UNCHANGED <<password, resetLink, exchanged, loggedOut, changedBy, tokens, device>>
          /\ requests' \in {requests, requests + 1}
      BY <1>5 DEF RegisterRead, ResendRead, VerifyRead, ChangeRead, Send, userRow
    <2>2. PICK j : Start(j) /\ j.op \in {"register", "issue", "verify", "change"}
      BY <1>5 DEF RegisterRead, ResendRead, VerifyRead, ChangeRead
    <2>3. RacesKept /\ jobs' = jobs \cup {j}
      BY <2>2, StartSees DEF Start
    <2> QED BY <2>1, <2>2, <2>3, EndedShrinks
  <1>6. CASE RefreshExpired(d)
    <2>1. /\ UNCHANGED <<password, resetLink, exchanged, loggedOut, changedBy, device, jobs, raced>>
          /\ requests' = requests + 1 /\ tokens' \subseteq tokens
      BY <1>6 DEF RefreshExpired, Send, WithoutRow, userRow, history
    <2> QED BY <2>1, FewerSee, EndedShrinks DEF EndedInv
  <1>7. CASE AccessExpires(d)
    <2>1. PICK a : device' = [device EXCEPT ![d].access = @ \ {a}]
      BY <1>7 DEF AccessExpires
    <2>2. UNCHANGED <<password, resetLink, exchanged, loggedOut, changedBy, tokens, jobs, raced, requests>>
      BY <1>7 DEF AccessExpires, userRow, history
    <2>3. \A e \in Devices : device'[e].access \subseteq device[e].access
      BY <2>1, FewerTokens DEF TypeInv, TypeOK
    <2> QED BY <2>2, <2>3, FewerSee, EndedShrinks DEF EndedInv
  <1> QED BY <1>1, <1>2, <1>3, <1>4, <1>5, <1>6, <1>7 DEF Customer

(* The row is written; its access token belongs to it, and those of before *)
(* were exchanged for it.                                                  *)
LEMMA CreateEnded ==
  ASSUME EndedInv, Numerals, TypeInv, BookInv, NEW j \in jobs, CreateToken(j)
  PROVE  EndedInv'
  <1> DEFINE t == [id |-> j.id, line |-> j.line, opened |-> j.opened]
             b == [id |-> j.id, line |-> j.line]
             x == [cookie |-> j.id, access |-> device[j.by].access \cup {b}]
  <1>1. /\ Pending(j) /\ Holding(j) /\ tokens' = tokens \cup {t} /\ jobs' = jobs \ {j}
        /\ device' = [device EXCEPT ![j.by] = x]
        /\ UNCHANGED <<password, resetLink, requests, changedBy, exchanged, loggedOut, raced>>
    BY DEF CreateToken, Finish, Pending, Holding, userRow, history
  <1>2. /\ t.id = j.id /\ t.line = j.line /\ t.opened = j.opened
        /\ b.id = j.id /\ b.line = j.line
        /\ x.access = device[j.by].access \cup {b}
    OBVIOUS
  <1> HIDE DEF t, b, x
  <1>3. RacesKept
    BY <1>1, FewerSee DEF EndedInv
  <1>4. \A d \in Devices : device'[d].access \subseteq device[d].access \cup {b}
    BY <1>1, <1>2 DEF TypeInv, TypeOK
  <1>5. TokensKnown'
    <2>1. ASSUME NEW a, Known(a) PROVE Known(a)'
      BY <1>1, <1>2, <2>1 DEF Known, Latest
    <2>2. Known(b)'
      <3>1. \A u \in tokens' : u.line = b.line => u.id = b.id
        BY <1>1, <1>2 DEF BookInv, OneHolder
      <3>2. \A k \in jobs' : Holding(k) => k.line # b.line
        BY <1>1, <1>2 DEF BookInv, OneHolder
      <3>3. b.line <= requests'
        BY <1>1, <1>2 DEF Numerals
      <3> QED BY <3>1, <3>2, <3>3 DEF Known, Latest
    <2>3. \A d \in Devices : \A a \in device'[d].access : Known(a)'
      BY <1>4, <2>1, <2>2 DEF EndedInv, TokensKnown
    <2>4. \A k \in jobs' : k.op = "logout" => Known(k)'
      BY <1>1, <2>1 DEF EndedInv, TokensKnown
    <2> QED BY <2>3, <2>4 DEF TokensKnown
  <1>6. PasswordKnown'
    BY <1>1, <1>2, <1>3, SMT DEF EndedInv, PasswordKnown, SessionsKnowThePassword, RacesKept
  <1>7. LogoutKnown'
    BY <1>1, <1>2, SMT DEF EndedInv, LogoutKnown, Numerals
  <1>8. LinksKnown'
    BY <1>1, SMT DEF EndedInv, LinksKnown, ResetLinkWorksOnce
  <1> QED BY <1>3, <1>5, <1>6, <1>7, <1>8 DEF EndedInv, RacesKept

(* The refresh goes on as a rotation of the same session. *)
LEMMA DeleteEnded ==
  ASSUME EndedInv, Numerals, BookInv, NEW j \in jobs, RefreshDelete(j)
  PROVE  EndedInv'
  <1> DEFINE n == [op |-> "rotate", by |-> j.by, id |-> j.id, line |-> j.line,
                   opened |-> j.opened]
  <1>1. /\ Pending(j) /\ tokens' \subseteq tokens /\ jobs' = (jobs \ {j}) \cup {n}
        /\ exchanged' = exchanged \cup {j.old}
        /\ UNCHANGED <<password, resetLink, requests, device, changedBy, loggedOut>>
    BY DEF RefreshDelete, Continue, WithoutRow, Pending, userRow
  <1>2. n.op = "rotate" /\ n.by = j.by /\ n.id = j.id /\ n.line = j.line /\ n.opened = j.opened
    OBVIOUS
  <1>3. RacesKept
    BY ContinueSees DEF RefreshDelete
  <1> HIDE DEF n
  <1>4. TokensKnown'
    <2>1. PICK t \in tokens : t.id = j.old /\ t.line = j.line
      BY DEF RefreshDelete, BookInv, OldRows
    <2>2. ASSUME NEW a, Known(a) PROVE Known(a)'
      <3>1. CASE a.id \in exchanged'
        BY <1>1, <2>2, <3>1 DEF Known
      <3>2. CASE a.id \notin exchanged'
        <4>1. Latest(a) /\ a.line # j.line
          BY <1>1, <2>1, <2>2, <3>2 DEF Known, Latest
        <4> QED BY <1>1, <1>2, <2>2, <4>1 DEF Known, Latest
      <3> QED BY <3>1, <3>2
    <2>3. \A k \in jobs' : k.op = "logout" => k \in jobs
      BY <1>1, <1>2
    <2> QED BY <1>1, <2>2, <2>3 DEF EndedInv, TokensKnown
  <1>5. PasswordKnown'
    BY <1>1, <1>2, <1>3, SMT DEF EndedInv, PasswordKnown, SessionsKnowThePassword, RacesKept
  <1>6. LogoutKnown'
    BY <1>1, <1>2, <1>3, SMT DEF EndedInv, LogoutKnown, Numerals, RacesKept
  <1>7. LinksKnown'
    BY <1>1, <1>2, <1>3, SMT DEF EndedInv, LinksKnown, ResetLinkWorksOnce, RacesKept
  <1> QED BY <1>3, <1>4, <1>5, <1>6, <1>7 DEF EndedInv, RacesKept

(* The only row of the session goes, and a job that would write another    *)
(* one has been seen; or the token was exchanged and nothing is claimed.   *)
LEMMA LogoutEnded ==
  ASSUME EndedInv, Numerals, TypeInv, NEW j \in jobs, LogoutCommit(j)
  PROVE  EndedInv'
  <1> DEFINE x == [device[j.by] EXCEPT !.cookie = 0]
  <1>1. /\ j.op = "logout" /\ tokens' = {t \in tokens : t.id # j.id} /\ jobs' = jobs \ {j}
        /\ device' = [device EXCEPT ![j.by] = x]
        /\ loggedOut' = loggedOut \cup {n \in {j.line} : j.id \notin exchanged}
        /\ UNCHANGED <<password, resetLink, requests, changedBy, exchanged, raced>>
    BY Zenon DEF LogoutCommit, LoggedOut, WithoutRow, Finish, userRow
  <1>2. \A d \in Devices : device'[d].access \subseteq device[d].access
    <2>1. j.by \in Devices
      BY JobFields DEF TypeInv, TypeOK
    <2>2. x.access = device[j.by].access
      BY <2>1 DEF TypeInv, TypeOK, Browsers
    <2> HIDE DEF x
    <2> QED BY <1>1, <2>2 DEF TypeInv, TypeOK
  <1> HIDE DEF x
  <1>3. RacesKept
    BY <1>1, FewerSee DEF EndedInv
  <1>4. TokensKnown'
    BY <1>1, <1>2, TokensStay DEF EndedInv
  <1>5. PasswordKnown'
    BY <1>1, SMT DEF EndedInv, PasswordKnown, SessionsKnowThePassword
  <1>6. LogoutKnown'
    <2>1. CASE j.id \in exchanged
      <3>1. loggedOut' = loggedOut
        BY <1>1, <2>1
      <3> QED BY <1>1, <3>1, SMT DEF EndedInv, LogoutKnown
    <2>2. CASE j.id \notin exchanged
      <3>1. loggedOut' = loggedOut \cup {j.line} /\ j.line <= requests
        BY <1>1, <2>2 DEF EndedInv, TokensKnown, Known
      <3>2. \A k \in jobs : Pending(k) /\ k.line = j.line => k.line \in raced
        BY <1>1, RaceSeen DEF EndedInv
      <3>3. \A t \in tokens' : t.line # j.line
        BY <1>1, <2>2 DEF EndedInv, TokensKnown, Known, Latest
      <3> QED BY <1>1, <3>1, <3>2, <3>3, SMT DEF EndedInv, LogoutKnown
    <2> QED BY <2>1, <2>2
  <1>7. LinksKnown'
    BY <1>1, SMT DEF EndedInv, LinksKnown, ResetLinkWorksOnce
  <1> QED BY <1>3, <1>4, <1>5, <1>6, <1>7 DEF EndedInv, RacesKept

(* The password is another one and no row is left; whoever would still     *)
(* write one has been seen, and so has another use of the link.            *)
LEMMA PasswordEnded ==
  ASSUME EndedInv, Numerals, NEW j \in jobs, ResetCommit(j) \/ ChangeCommit(j)
  PROVE  EndedInv'
  <1>1. /\ j.op \in {"reset", "change"} /\ tokens' = {} /\ jobs' = jobs \ {j}
        /\ UNCHANGED <<device, requests, exchanged, loggedOut, raced>>
    BY DEF ResetCommit, ChangeCommit, Finish, history
  <1>2. RacesKept
    BY <1>1, FewerSee DEF EndedInv
  <1>3. TokensKnown'
    BY <1>1, TokensStay DEF EndedInv
  <1>4. PasswordKnown'
    <2>1. \A k \in jobs : Pending(k) => k.line \in raced
      BY <1>1, RaceSeen DEF EndedInv
    <2> QED BY <1>1, <2>1 DEF PasswordKnown, SessionsKnowThePassword
  <1>5. LogoutKnown'
    BY <1>1, SMT DEF EndedInv, LogoutKnown
  <1>6. LinksKnown'
    <2>1. CASE ChangeCommit(j)
      <3>1. UNCHANGED <<resetLink, changedBy>>
        BY <2>1 DEF ChangeCommit, history
      <3> QED BY <1>1, <3>1, SMT DEF EndedInv, LinksKnown, ResetLinkWorksOnce
    <2>2. CASE ResetCommit(j)
      <3>1. /\ j.op = "reset" /\ resetLink' = 0
            /\ changedBy' = [changedBy EXCEPT ![j.link] = @ + 1]
        BY <2>2 DEF ResetCommit
      <3>2. j.link \in Numbers /\ j.link <= requests /\ (changedBy[j.link] = 0 \/ j.link \in raced)
        BY <3>1 DEF EndedInv, LinksKnown, Numerals
      <3>3. \A l \in Numbers : /\ l # j.link => changedBy'[l] = changedBy[l]
                               /\ l = j.link => changedBy'[l] = changedBy[l] + 1
        BY <3>1, <3>2 DEF Numerals
      <3>4. \A k \in jobs' : k.op = "reset" /\ k.link = j.link => k.link \in raced
        BY <1>1, <3>1, RaceSeen DEF EndedInv
      <3>5. ResetLinkWorksOnce'
        BY <1>1, <3>2, <3>3, SMT DEF EndedInv, LinksKnown, ResetLinkWorksOnce, Numerals
      <3>6. \A l \in Numbers : l > requests' => changedBy'[l] = 0
        BY <1>1, <3>2, <3>3, SMT DEF EndedInv, LinksKnown, Numerals, Numbers
      <3>7. \A k \in jobs' : k.op = "reset" => changedBy'[k.link] = 0 \/ k.link \in raced'
        <4> SUFFICES ASSUME NEW k \in jobs', k.op = "reset"
                     PROVE  changedBy'[k.link] = 0 \/ k.link \in raced'
          OBVIOUS
        <4>1. k \in jobs /\ k.link \in Numbers
          BY <1>1 DEF Numerals
        <4> QED BY <1>1, <3>3, <3>4, <4>1 DEF EndedInv, LinksKnown
      <3> QED BY <3>1, <3>5, <3>6, <3>7 DEF LinksKnown
    <2> QED BY <2>1, <2>2
  <1> QED BY <1>2, <1>3, <1>4, <1>5, <1>6 DEF EndedInv, RacesKept

LEMMA HandlerEnded ==
  ASSUME EndedInv, Numerals, TypeInv, BookInv, NEW j \in jobs, Handler(j) \/ HandlerDies(j)
  PROVE  EndedInv'
  <1>1. CASE CreateToken(j)
    BY <1>1, CreateEnded
  <1>2. CASE RefreshDelete(j)
    BY <1>2, DeleteEnded
  <1>3. CASE LogoutCommit(j)
    BY <1>3, LogoutEnded
  <1>4. CASE ResetCommit(j) \/ ChangeCommit(j)
    BY <1>4, PasswordEnded
  <1>5. CASE \/ RegisterCreate(j) \/ (\E arrives \in BOOLEAN : IssueLink(j, arrives))
             \/ VerifyCommit(j) \/ RefreshLost(j) \/ HandlerDies(j)
    <2>1. UNCHANGED <<password, resetLink, requests, exchanged, loggedOut, changedBy, tokens, device>>
      BY <1>5 DEF RegisterCreate, IssueLink, VerifyCommit, RefreshLost, HandlerDies, userRow, history
    <2>2. CASE Continue(j, [op |-> "issue", by |-> j.by])
      <3> DEFINE n == [op |-> "issue", by |-> j.by]
      <3>1. jobs' = (jobs \ {j}) \cup {n} /\ n.op = "issue"
        BY <2>2 DEF Continue
      <3>2. RacesKept
        BY <2>2, ContinueSees
      <3> HIDE DEF n
      <3> QED BY <2>1, <3>1, <3>2, EndedShrinks
    <2>3. CASE Finish(j) /\ raced' = raced
      <3>1. jobs' \subseteq jobs /\ RacesKept
        BY <2>3, FewerSee DEF Finish, EndedInv
      <3> QED BY <2>1, <3>1, EndedShrinks
    <2> QED BY <1>5, <2>2, <2>3 DEF RegisterCreate, IssueLink, VerifyCommit, RefreshLost,
                                    HandlerDies, userRow, history
  <1> QED BY <1>1, <1>2, <1>3, <1>4, <1>5 DEF Handler

LEMMA EndedInit == Init => EndedInv
  <1> SUFFICES ASSUME Init PROVE EndedInv
    OBVIOUS
  <1>1. /\ jobs = {} /\ tokens = {} /\ loggedOut = {} /\ resetLink = 0 /\ requests = 0
        /\ \A d \in Devices : device[d].access = {}
        /\ \A l \in Numbers : changedBy[l] = 0
    BY DEF Init, NoSession
  <1>2. EndedTogether({}) = {}
    BY SMT DEF EndedTogether, Opening
  <1> QED BY <1>1, <1>2 DEF EndedInv, RacesKnown, TokensKnown, PasswordKnown, SessionsKnowThePassword,
                            LogoutKnown, LinksKnown, ResetLinkWorksOnce

LEMMA EndedNext == EndedInv /\ TypeInv /\ BookInv /\ [Next]_vars => EndedInv'
  <1> SUFFICES ASSUME EndedInv, TypeInv, BookInv, [Next]_vars PROVE EndedInv'
    OBVIOUS
  <1>1. Numerals
    BY Typed
  <1>2. CASE LinkAges \/ ResetLinkAges \/ UNCHANGED vars
    <2>1. UNCHANGED <<password, resetLink, requests, exchanged, loggedOut, changedBy, tokens, device, jobs, raced>>
      BY <1>2 DEF LinkAges, ResetLinkAges, vars, userRow, history
    <2> QED BY <1>1, <2>1, FewerSee, EndedShrinks DEF EndedInv
  <1>3. CASE ForgotPassword
    <2>1. /\ UNCHANGED <<password, exchanged, loggedOut, changedBy, tokens, device, jobs, raced>>
          /\ Send /\ resetLink' = requests' /\ requests' = requests + 1
      BY <1>3 DEF ForgotPassword, Send, history
    <2> QED BY <1>1, <2>1, FewerSee, EndedShrinks DEF EndedInv
  <1> QED BY <1>1, <1>2, <1>3, CustomerEnded, HandlerEnded DEF Next

(* A session that was logged out with its latest access token, or opened   *)
(* with a password that has been changed, does not come back, and a reset  *)
(* link works once, unless the requests overlapped (auth.service.ts,       *)
(* logout, resetPassword, changePassword), for any number of browsers,     *)
(* access tokens and requests.  A logout with an access token whose        *)
(* session has been refreshed since may come at any time.                  *)
THEOREM EndedForGood == Spec => []EndedStaysEnded
  <1>1. EndedInv => EndedStaysEnded
    BY DEF EndedInv, PasswordKnown, LogoutKnown, LinksKnown, EndedStaysEnded, LogoutEndsSession
  <1> QED BY <1>1, TypeInit, TypeNext, BookInit, BookInductive, EndedInit, EndedNext, PTL DEF Spec
=============================================================================
