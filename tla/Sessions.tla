------------------------------ MODULE Sessions ------------------------------
(***************************************************************************)
(* One customer's account: registration, the e-mailed links that verify it *)
(* and reset its password, and the sessions opened on it, one RefreshToken *)
(* row each.                                                               *)
(*                                                                         *)
(* A handler of AuthService reads the user or the token row, spends a      *)
(* while hashing, and then writes.  Only the password change pairs two     *)
(* writes in a transaction; a refresh deletes the old row and creates the  *)
(* new one in separate statements.  Every handler is therefore a job that  *)
(* goes through its statements one by one, between those of the others.    *)
(***************************************************************************)
EXTENDS Integers, FiniteSets

CONSTANTS
  Devices,      \* browsers and API clients of the customer
  MaxRequests,  \* requests about sessions and passwords (bounds the model)
  MaxFailures   \* handlers that die, and mails that are lost (bounds the model)

ASSUME RequestsAssumption == MaxRequests \in Nat
ASSUME FailuresAssumption == MaxFailures \in Nat

VARIABLES
  account,    \* the User row: none yet, unverified, or verified
  password,   \* which password it holds
  verifyLink, \* emailVerificationToken: none, fresh, or 24 hours old
  mailed,     \* the mail with that link has arrived
  resetLink,  \* passwordResetToken: which link, 0 for none
  resetFresh, \* it is less than an hour old
  tokens,     \* the RefreshToken rows
  device,     \* what each browser keeps: the cookie and the access tokens
  jobs,       \* the handlers in flight
  requests,   \* requests sent so far
  failures,   \* handlers that died and mails that were lost so far
  changedBy,  \* the reset links that have changed the password, with how often
  exchanged,  \* the refresh tokens that have been exchanged for a new one
  loggedOut,  \* the sessions logged out with a token that was not exchanged
  raced       \* sessions and reset links of which a request has overlapped
              \* another one that ends them

userRow  == <<account, password, verifyLink, mailed, resetLink, resetFresh>>
history  == <<changedBy, exchanged, loggedOut, raced>>
vars     == <<userRow, tokens, device, jobs, requests, failures, history>>

----------------------------------------------------------------------------
(* Sessions, links and passwords are numbered by the request that made     *)
(* them; line is the login a session goes back to.                         *)
Numbers == 1..MaxRequests

AccessTokens == [id : Numbers, line : Numbers]

(* A browser has one cookie, the id of a refresh token or 0 for none.  Its *)
(* tabs keep access tokens of their own: one that has read the store       *)
(* before another login or exchange goes on with the token it has.         *)
Browsers == [cookie : {0} \cup Numbers, access : SUBSET AccessTokens]

NoSession == [cookie |-> 0, access |-> {}]

Rows == [id : Numbers, line : Numbers, opened : 0..MaxRequests]

Jobs ==
  [op : {"register", "issue", "verify"}, by : Devices]
    \cup [op : {"login", "rotate"}, by : Devices, id : Numbers, line : Numbers,
          opened : 0..MaxRequests]
    \cup [op : {"refresh"}, by : Devices, old : Numbers, id : Numbers,
          line : Numbers, opened : 0..MaxRequests]
    \cup [op : {"logout"}, by : Devices, id : Numbers, line : Numbers]
    \cup [op : {"reset"}, by : Devices, link : Numbers, new : Numbers]
    \cup [op : {"change"}, by : Devices, new : Numbers]

TypeOK ==
  /\ account    \in {"none", "unverified", "verified"}
  /\ password   \in 0..requests
  /\ verifyLink \in {"none", "fresh", "old"}
  /\ account = "none" => verifyLink = "none"
  /\ mailed     \in BOOLEAN
  /\ mailed => verifyLink # "none"
  /\ resetLink  \in 0..requests
  /\ resetFresh \in BOOLEAN
  /\ tokens     \subseteq Rows
  /\ tokens # {} => account = "verified"
  /\ device     \in [Devices -> Browsers]
  /\ jobs       \subseteq Jobs
  /\ requests   \in 0..MaxRequests
  /\ failures   \in 0..MaxFailures
  /\ changedBy  \in [Numbers -> 0..MaxRequests]
  /\ exchanged  \subseteq Numbers
  /\ loggedOut  \subseteq Numbers
  /\ raced      \subseteq Numbers

Init ==
  /\ account = "none" /\ password = 0
  /\ verifyLink = "none" /\ mailed = FALSE
  /\ resetLink = 0 /\ resetFresh = FALSE
  /\ tokens = {}
  /\ device = [d \in Devices |-> NoSession]
  /\ jobs = {} /\ requests = 0 /\ failures = 0
  /\ changedBy = [l \in Numbers |-> 0] /\ exchanged = {} /\ loggedOut = {} /\ raced = {}

----------------------------------------------------------------------------
(* Handlers, and which of their overlaps are remembered.                   *)

Opening(js) == {j \in js : j.op \in {"login", "refresh", "rotate"}}

EndedTogether(js) ==
  {j.line : j \in {o \in Opening(js) :
     \E k \in js : k.op \in {"reset", "change"} \/ (k.op = "logout" /\ k.line = o.line)}}
  \cup {j.link : j \in {r \in js : r.op = "reset" /\
     \E k \in js : k # r /\ k.op = "reset" /\ k.link = r.link}}

(* A form waits for its own answer.  Two tabs share a cookie, so nothing   *)
(* keeps a device from refreshing it twice.                                *)
Start(j) ==
  /\ j.op # "refresh" => ~\E k \in jobs : k.by = j.by /\ k.op = j.op
  /\ jobs' = jobs \cup {j}
  /\ raced' = raced \cup EndedTogether(jobs')

Finish(j) == jobs' = jobs \ {j}

Send == requests < MaxRequests /\ requests' = requests + 1

Continue(j, next) ==
  /\ jobs' = (jobs \ {j}) \cup {next}
  /\ raced' = raced \cup EndedTogether(jobs')

----------------------------------------------------------------------------
(* Registration and e-mail verification.                                   *)

RegisterRead(d) ==
  /\ account = "none"
  /\ Start([op |-> "register", by |-> d])
  /\ UNCHANGED <<userRow, tokens, device, requests, failures, changedBy, exchanged, loggedOut>>

(* User.email is unique: the second of two registrations fails here. *)
RegisterCreate(j) ==
  /\ j.op = "register"
  /\ IF account = "none"
       THEN account' = "unverified" /\ Continue(j, [op |-> "issue", by |-> j.by])
       ELSE UNCHANGED <<account, raced>> /\ Finish(j)
  /\ UNCHANGED <<password, verifyLink, mailed, resetLink, resetFresh, tokens, device,
                 requests, failures, changedBy, exchanged, loggedOut>>

(* Mutant: an account without a link is taken for one within its cooldown. *)
ResendDue_LinkNeeded == verifyLink = "old"

ResendDue == verifyLink # "fresh"

(* The button appears below a login that was refused because the address   *)
(* is not verified, in any browser, and where a registration has ended.    *)
ResendButton == account = "unverified"

ResendRead(d) ==
  /\ ResendButton
  /\ ResendDue
  /\ Start([op |-> "issue", by |-> d])
  /\ UNCHANGED <<userRow, tokens, device, requests, failures, changedBy, exchanged, loggedOut>>

(* issueEmailVerificationToken: the link is stored, then mailed without    *)
(* waiting.  It overwrites whatever link is there.                         *)
IssueLink(j, arrives) ==
  /\ j.op = "issue"
  /\ arrives \/ failures < MaxFailures
  /\ failures' = IF arrives THEN failures ELSE failures + 1
  /\ verifyLink' = "fresh"
  /\ mailed' = arrives
  /\ Finish(j)
  /\ UNCHANGED <<account, password, resetLink, resetFresh, tokens, device, requests, history>>

LinkGood == account = "unverified" /\ verifyLink = "fresh"

(* The page uses the link as soon as the mail's button opens it. *)
VerifyPage == mailed

VerifyRead(d) ==
  /\ VerifyPage
  /\ LinkGood
  /\ Start([op |-> "verify", by |-> d])
  /\ UNCHANGED <<userRow, tokens, device, requests, failures, changedBy, exchanged, loggedOut>>

VerifyCommit(j) ==
  /\ j.op = "verify"
  /\ account' = "verified"
  /\ verifyLink' = "none" /\ mailed' = FALSE
  /\ Finish(j)
  /\ UNCHANGED <<password, resetLink, resetFresh, tokens, device, requests, failures, history>>

(* 24 hours pass: the link is no longer good, and another may be sent. *)
LinkAges ==
  /\ verifyLink = "fresh"
  /\ verifyLink' = "old"
  /\ UNCHANGED <<account, password, mailed, resetLink, resetFresh, tokens, device, jobs,
                 requests, failures, history>>

----------------------------------------------------------------------------
(* Sessions.                                                               *)

(* Mutant: the check that the address is verified is lost. *)
LoginAllowed_Unverified == account # "none"

LoginAllowed == account = "verified"

(* LocalStrategy has compared the password with the row it read; login     *)
(* looks at the same row.                                                  *)
LoginRead(d) ==
  /\ LoginAllowed
  /\ Send
  /\ Start([op |-> "login", by |-> d, id |-> requests', line |-> requests',
            opened |-> password])
  /\ UNCHANGED <<userRow, tokens, device, failures, changedBy, exchanged, loggedOut>>

(* generateTokens: the row is created; cookie and access token carry its   *)
(* id.  The access tokens of before stay good.                             *)
CreateToken(j) ==
  /\ j.op \in {"login", "rotate"}
  /\ tokens' = tokens \cup {[id |-> j.id, line |-> j.line, opened |-> j.opened]}
  /\ device' = [device EXCEPT ![j.by] =
       [cookie |-> j.id, access |-> @.access \cup {[id |-> j.id, line |-> j.line]}]]
  /\ Finish(j)
  /\ UNCHANGED <<userRow, requests, failures, history>>

(* refreshTokens: the row of the cookie is read, deleted, and replaced.    *)
RefreshRead(d) ==
  \E t \in tokens :
    /\ t.id = device[d].cookie
    /\ Send
    /\ Start([op |-> "refresh", by |-> d, old |-> t.id, id |-> requests',
              line |-> t.line, opened |-> t.opened])
    /\ UNCHANGED <<userRow, tokens, device, failures, changedBy, exchanged, loggedOut>>

WithoutRow(id) == {t \in tokens : t.id # id}

(* Mutant: deleteMany, which does not mind that the row is gone. *)
RefreshDelete_Many(j) ==
  /\ j.op = "refresh"
  /\ tokens' = WithoutRow(j.old)
  /\ Continue(j, [op |-> "rotate", by |-> j.by, id |-> j.id, line |-> j.line,
                  opened |-> j.opened])
  /\ exchanged' = exchanged \cup {j.old}
  /\ UNCHANGED <<userRow, device, requests, failures, changedBy, loggedOut>>

RefreshDelete(j) ==
  /\ j.op = "refresh"
  /\ \E t \in tokens : t.id = j.old
  /\ tokens' = WithoutRow(j.old)
  /\ Continue(j, [op |-> "rotate", by |-> j.by, id |-> j.id, line |-> j.line,
                  opened |-> j.opened])
  /\ exchanged' = exchanged \cup {j.old}
  /\ UNCHANGED <<userRow, device, requests, failures, changedBy, loggedOut>>

(* delete throws when the row is gone. *)
RefreshLost(j) ==
  /\ j.op = "refresh"
  /\ ~\E t \in tokens : t.id = j.old
  /\ Finish(j)
  /\ UNCHANGED <<userRow, tokens, device, requests, failures, history>>

(* The row has expired: it is deleted, and the customer must log in. *)
RefreshExpired(d) ==
  \E t \in tokens :
    /\ t.id = device[d].cookie
    /\ Send
    /\ tokens' = WithoutRow(t.id)
    /\ UNCHANGED <<userRow, device, jobs, failures, history>>

(* A quarter of an hour passes, or the tab that has the token is closed,   *)
(* or signs out and the request to log out is not sent.                    *)
AccessExpires(d) ==
  \E a \in device[d].access :
    /\ device' = [device EXCEPT ![d].access = @ \ {a}]
    /\ UNCHANGED <<userRow, tokens, jobs, requests, failures, history>>

(* JwtAuthGuard lets a token through that has not expired, whether or not  *)
(* its session is still there.                                             *)
SignedIn(d) == device[d].access # {}

(* "Sign out" forgets the access token at once, in the tab; another may    *)
(* have it too.  The request to log out carries it, and nobody waits.      *)
SignOut(d) ==
  \E a \in device[d].access :
    /\ Send
    /\ Start([op |-> "logout", by |-> d, id |-> a.id, line |-> a.line])
    /\ device' \in {device, [device EXCEPT ![d].access = @ \ {a}]}
    /\ UNCHANGED <<userRow, tokens, failures, changedBy, exchanged, loggedOut>>

(* A logout ends a session if its access token is the latest one of it: if *)
(* the refresh token given out with it has not been exchanged since.       *)
LoggedOut(j) == loggedOut \cup {n \in {j.line} : j.id \notin exchanged}

(* Mutant: the row of the cookie is deleted, which may be another session. *)
LogoutCommit_Cookie(j) ==
  /\ j.op = "logout"
  /\ tokens' = WithoutRow(device[j.by].cookie)
  /\ loggedOut' = LoggedOut(j)
  /\ device' = [device EXCEPT ![j.by].cookie = 0]
  /\ Finish(j)
  /\ UNCHANGED <<userRow, requests, failures, changedBy, exchanged, raced>>

(* The row named by the access token is deleted, if it is still there.     *)
(* The answer clears the cookie, even that of a session opened since.      *)
LogoutCommit(j) ==
  /\ j.op = "logout"
  /\ tokens' = WithoutRow(j.id)
  /\ loggedOut' = LoggedOut(j)
  /\ device' = [device EXCEPT ![j.by].cookie = 0]
  /\ Finish(j)
  /\ UNCHANGED <<userRow, requests, failures, changedBy, exchanged, raced>>

----------------------------------------------------------------------------
(* Passwords.                                                              *)

(* The form says that a mail has been sent, whoever asks. *)
ForgotPasswordForm == account # "none"

(* forgotPassword: an older link is overwritten. *)
ForgotPassword ==
  /\ ForgotPasswordForm
  /\ Send
  /\ resetLink' = requests' /\ resetFresh' = TRUE
  /\ UNCHANGED <<account, password, verifyLink, mailed, tokens, device, jobs, failures, history>>

(* An hour passes. *)
ResetLinkAges ==
  /\ resetFresh
  /\ resetFresh' = FALSE
  /\ UNCHANGED <<account, password, verifyLink, mailed, resetLink, tokens, device, jobs,
                 requests, failures, history>>

ResetLinkGood == resetLink # 0 /\ resetFresh

(* The page with the form takes the link from its address. *)
ResetForm == resetLink # 0

ResetRead(d) ==
  /\ ResetForm
  /\ ResetLinkGood
  /\ Send
  /\ Start([op |-> "reset", by |-> d, link |-> resetLink, new |-> requests'])
  /\ UNCHANGED <<userRow, tokens, device, failures, changedBy, exchanged, loggedOut>>

ResetCommit(j) ==
  /\ j.op = "reset"
  /\ password' = j.new
  /\ resetLink' = 0 /\ resetFresh' = FALSE
  /\ tokens' = {}
  /\ changedBy' = [changedBy EXCEPT ![j.link] = @ + 1]
  /\ Finish(j)
  /\ UNCHANGED <<account, verifyLink, mailed, device, requests, failures, exchanged, loggedOut, raced>>

(* The form sends the access token its tab has. *)
ChangePasswordForm(d) == SignedIn(d)

(* changePassword: the current password is compared with the row read. *)
ChangeRead(d) ==
  /\ ChangePasswordForm(d)
  /\ Send
  /\ Start([op |-> "change", by |-> d, new |-> requests'])
  /\ UNCHANGED <<userRow, tokens, device, failures, changedBy, exchanged, loggedOut>>

ChangeCommit(j) ==
  /\ j.op = "change"
  /\ password' = j.new
  /\ tokens' = {}
  /\ Finish(j)
  /\ UNCHANGED <<account, verifyLink, mailed, resetLink, resetFresh, device, requests,
                 failures, history>>

----------------------------------------------------------------------------
(* A handler dies between two of its statements. *)
HandlerDies(j) ==
  /\ failures < MaxFailures
  /\ failures' = failures + 1
  /\ Finish(j)
  /\ UNCHANGED <<userRow, tokens, device, requests, history>>

(* What AuthController still has to do for the requests it has accepted. *)
Handler(j) ==
  \/ RegisterCreate(j)
  \/ \E arrives \in BOOLEAN : IssueLink(j, arrives)
  \/ VerifyCommit(j)
  \/ CreateToken(j)
  \/ RefreshDelete(j)
  \/ RefreshLost(j)
  \/ LogoutCommit(j)
  \/ ResetCommit(j)
  \/ ChangeCommit(j)

Customer(d) ==
  \/ RegisterRead(d)
  \/ ResendRead(d)
  \/ VerifyRead(d)
  \/ LoginRead(d)
  \/ RefreshRead(d)
  \/ RefreshExpired(d)
  \/ AccessExpires(d)
  \/ SignOut(d)
  \/ ResetRead(d)
  \/ ChangeRead(d)

Next ==
  \/ \E d \in Devices : Customer(d)
  \/ \E j \in jobs : Handler(j) \/ HandlerDies(j)
  \/ LinkAges
  \/ ForgotPassword
  \/ ResetLinkAges

Spec == Init /\ [][Next]_vars

Completes(op) == \E j \in jobs : j.op = op /\ Handler(j)

(* Handlers finish unless they die, time passes, and the customer does not *)
(* give up: of the chances to use a link and to ask for another one, each  *)
(* is taken if it comes again and again.                                   *)
Fairness ==
  /\ \A op \in {"issue", "verify"} : WF_vars(Completes(op))
  /\ WF_vars(LinkAges)
  /\ SF_vars(\E d \in Devices : VerifyRead(d))
  /\ SF_vars(\E d \in Devices : ResendRead(d))

FairSpec == Spec /\ Fairness

----------------------------------------------------------------------------
(* A refresh token can be exchanged once: however many refreshes of it     *)
(* overlap, a login has one row, or one refresh that is about to write it. *)
OneSessionPerLogin ==
  \A n \in Numbers :
    Cardinality({t \in tokens : t.line = n})
      + Cardinality({j \in jobs : j.op \in {"login", "rotate"} /\ j.line = n}) <= 1

(* "Other devices are logged out": a session was opened with the password  *)
(* the account has now, unless one of its own requests was in flight       *)
(* together with the change or the reset.                                  *)
SessionsKnowThePassword ==
  \A t \in tokens : t.opened = password \/ t.line \in raced

(* A logout ends the session its access token belongs to, for good, unless *)
(* it overlapped an exchange of the session's refresh token.  Nothing is   *)
(* claimed of a logout with an access token from before an exchange: it    *)
(* deletes a row that has gone already, and the session goes on.           *)
LogoutEndsSession ==
  \A t \in tokens : t.line \in loggedOut => t.line \in raced

(* A reset link changes the password once, unless two uses of it overlap.  *)
(* A newer link, or none, replaces it for good.                            *)
ResetLinkWorksOnce ==
  \A l \in Numbers : changedBy[l] <= 1 \/ l \in raced

(* What has ended stays ended: a session whose password was changed, or    *)
(* that was logged out with its latest access token, and a reset link that *)
(* was used.                                                               *)
EndedStaysEnded == SessionsKnowThePassword /\ LogoutEndsSession /\ ResetLinkWorksOnce

(* The sessions of the account as its owner sees them: logins, each kept   *)
(* alive by exchanging its token.                                          *)
Live == {t.line : t \in tokens}
          \cup {j.line : j \in {k \in jobs : k.op \in {"login", "rotate"}}}

Book == INSTANCE SessionBook WITH live <- Live, given <- requests

(* Exchanging, logging out, changing the password, in whatever order, keep *)
(* to the book: no exchange revives a session that has ended.              *)
KeepsTheBook == Book!Spec

(* Nobody is locked out of an account they have registered: a customer who *)
(* keeps asking gets it verified, although mails are lost, handlers die,   *)
(* and a link is refused while the last one is less than a day old.        *)
RegistrationCompletes == account = "unverified" ~> account = "verified"
=============================================================================
