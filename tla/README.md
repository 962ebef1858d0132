# Verification of the jewelry shop

The repository is a web shop for handmade jewelry: a NestJS API over PostgreSQL
(`apps/api`, Prisma) and a Next.js front end (`apps/web`). Stripe takes the money,
EasyPost ships the parcels, Klaviyo holds the mailing list. This directory holds
TLA+ models of the parts where requests, pages, webhooks and failures interleave, the TLC
runs that check them, and TLAPS proofs of the properties that matter most.

Paths below are relative to `src/`; `api/` stands for `apps/api/src/`, `web/` for
`apps/web/src/`.

## 1. Inventory

The API is one or more Node processes. Inside a request every `await` is a point where
other requests run, and the database is the only shared state; transactions run at
PostgreSQL's default isolation, READ COMMITTED. There are no queues, no cron jobs and no
in-process locks: what is retried is retried by a person or by a webhook sender. A browser
page decides on what it last fetched (TanStack Query, local state) or on what is kept in
`localStorage` (Zustand), and may be any amount behind.

| Component | State it keeps | Operations | Interacts with | Hard behaviour | What makes it correct |
|---|---|---|---|---|---|
| Order status model (`api/orders/order-status.transitions.ts`) | none | `isValidOrderStatusTransition` | asked by every writer of `Order.status` | asked about stale reads | fulfilment goes forward only; refunds are final |
| Order status endpoint (`orders-status.service.ts`) | `Order.status`, history, tracking | `updateStatus`, `updateTracking` | loyalty in the same transaction | reads before its transaction | history rows true, points once |
| Refunds (`orders-refunds.service.ts`, the refund dialog) | `Order.refundAmount`, `Payment.status` | `refundOrder` | Stripe between read and write | partial failure, retry, overlap | never more recorded than given back |
| Stripe webhooks (`api/stripe`) | the same rows | succeeded, failed, refunded, dispute | Stripe delivers at least once, any order | duplicates, late events, races with admins | what Stripe knows reaches the order |
| Labels, carrier webhook (`api/shipping`) | label columns, `Order.status` | `purchaseLabel`, `handleWebhook` | EasyPost between read and write | two purchases, a crash, an early event | one label; the delivery reaches the order |
| Tracking and order page, production board (`web/…/admin/orders`) | cached answers; `productionStatus`, notes | status, tracking, label, production | the endpoints above | old pages | production goes forward |
| Loyalty (`api/loyalty`) | `User.loyaltyBalance`, ledger rows | award, reverse, spend | called inside others' transactions | same order credited from several paths | ledger, order and balance agree |
| Order creation (`orders-create.service.ts`) | order rows, `OrderTerms` | `create`, `acceptTerms` | loyalty, discounts | balance read outside the transaction | points and code accounted to an order |
| Discounts (`api/discounts`) | `usageCount`, `maxUsages`, flags | apply, admin CRUD, validate | called by order creation | last use taken twice; limit edited meanwhile | usage within the limit |
| Payments (`api/payments`) | `Payment` row | `createPaymentIntent` | Stripe, idempotency key | two requests; death between Stripe and insert | every charge has its row |
| Web checkout (`web/app/[locale]/checkout`) | step, order id, client secret | steps, post order, ask intent, confirm | all of the above, cart | remounts, answers after leaving, two ways to pay | what is sold is what was chosen |
| Cart, wishlist, back in stock (`web/store`, `api/wishlist`) | items, express item, hearts, `Wishlist` | add, buy now, toggle, merge, notify | checkout, login, catalogue | optimistic hearts, merge at login | hearts shown are saved; one mail per return |
| Catalogue (`api/products`, `api/categories`, inventory page) | products, stock, categories | update, stock, remove, bulk | order items, wishlists | two reads compared, count then delete | ordered products stay |
| Sessions and accounts (`api/auth`) | `User` tokens, `RefreshToken` rows | register, verify, resend, login, refresh, logout, reset, change | e-mail | rotation overlapping revocation, lost mails | sessions ended by a new password, or a logout with their latest token, stay ended |
| Web session (`web/store/auth.store.ts`, the auth forms) | a cookie, an access token per tab | the forms, the resend button, sign-out | sessions | calls that are not awaited, tokens of different age | a registration can be completed |
| Address book (`api/addresses`) | addresses, default flag | create, update, default, remove | none | overlapping defaults, crash in `remove` | exactly one default, at most five |
| Newsletter (`api/newsletter`) | consent rows | subscribe, confirm, unsubscribe | Klaviyo, mail | failure between database and Klaviyo | Klaviyo follows the consent |
| Reviews (`api/reviews`) | reviews, rating on product | create, moderate, reply | orders (who bought) | two aggregates at once | rating is that of approved reviews |
| Cookie consent and trackers (`web/store/cookie-consent.store.ts`, `web/components/analytics`) | the choice, per page and stored; scripts | banner, opt-outs, events | gtag, Clarity, fbq, Pinterest, Klaviyo, PostHog | pages of different age, scripts on their way | consent first; an opt-out holds |
| Admin back office (`web/…/admin`: products, categories, discounts, settings; uploads) | query cache, selection, form | the tables' buttons, the product form | the services above | optimistic changes, snapshots, lost answers | a table at rest shows the database |
| Currency, e-mail, users, analytics, contact form, exports, framework, other pages | local or none | CRUD, I/O | | little | see "Not modelled" |

Every component is listed in `PROJECT.json` with its status; the hazards are listed there
at their source lines, with the properties that cover them.

## 2. Modules

| Module | What it is |
|---|---|
| `OrderStatus` | the enumerations and the whitelist of `order-status.transitions.ts`, line for line |
| `OrderFlow` | abstract specification: what the status model promises of an order, without handlers, events or reads |
| `RefundBook` | abstract specification: what the shop may write down of an order's money, given what Stripe has done |
| `OrderLifecycle` | a placed order under every writer the API has, with Stripe, customer and carrier outside |
| `Checkout` | from the mount of the payment step to the charge |
| `Fulfilment` | one paid order in the hands of several admin browsers: label, tracking, status, production |
| `SessionBook` | abstract specification: sessions are opened under new numbers and do not come back |
| `Sessions` | one account: registration, links, passwords, sessions, on several devices |
| `AddressBook` | one customer's addresses, edited from several tabs |
| `Newsletter` | the consent rows of one e-mail address and Klaviyo's list |
| `Catalogue`, `Storefront` | products, stock and orders as the API keeps them; on top of it one customer's cart, checkout steps and hearts |
| `Reviews` | the reviews of one product and its rating |
| `Consent` | one browser's pages, the stored cookie choice, and the trackers |
| `BackOffice` | one admin browser in front of four tables and the product form |
| `MC…` | views, symmetries and constants for TLC |
| `…Proofs` | theorems, see section 4 |

`OrderLifecycle` and `Fulfilment` use `OrderStatus`; `OrderLifecycle` instantiates `OrderFlow` as
`Flow` and `RefundBook` as `Book`, `Sessions` instantiates `SessionBook` as `Book`; `Storefront` extends `Catalogue`. `Checkout` hands
over where `OrderLifecycle` begins: an order that is PENDING with a `Payment` row, which is
what `EveryChargeHasItsPayment` guarantees to the webhooks. `Storefront` says when an order is sent,
`Checkout` what happens to it; `Reviews` takes "delivered" and "refunded" from outside as `OrderLifecycle` makes them.

The modules share one shape. A handler reads, decides, and writes later, so a request is a *job*, a record of
the step it has reached and of what it read; every `await` in the code that is followed by a write is a
step of its own, and other jobs go between. What a page shows is a variable, brought up to date by an action
that may come late; what the page may send is a guard on that variable. Where the code's guarantee ends at an
overlap, a history variable (`overlapped`, `raced`, `outdated`, `missed`, …) records exactly that overlap, and
the property says "unless": the claim is as strong as the code, and no stronger.

### OrderLifecycle and the code

Every handler reads the order (`findUnique`, with the payment by `include`, one read),
returns early or throws, then writes in one transaction by primary key.

| Action | Code |
|---|---|
| `UpdateStatusRead`, `UpdateStatusCommit` | `updateStatus`: lines 30-48, the `$transaction` 52-82 |
| `RefundOrderRead`, `CreateRefundAnswered` or `CreateRefundRefused`, `RefundOrderCommit` | `refundOrder`: 42-78, the Stripe call and the status check after it 82-98, the `$transaction` 103-138. `RefundOrderModal` is what the dialog lets the admin ask for |
| `WebhookRead`, `WebhookSkip` | the reads and early returns of the four Stripe handlers and of the carrier's |
| `PaymentIntentSucceededCommit`, `PaymentIntentFailedCommit`, `ChargeRefundedCommit`, `ChargeDisputeCreatedCommit`, `TrackerDeliveredCommit` | their transactions; `WebhookDone` is the 200 |
| `HandlerDies` | a crash, or a database error, before the commit: nothing is written, nothing is answered |
| `CustomerPays`, `CustomerDeclined`, `DisputeOpened`, `CarrierDelivers`, `DashboardRefund` | the outside world, external |

A transaction is one step. This is sound at READ COMMITTED because the first statement of each
locks the order's or the payment's row, the loyalty helpers use the row that the update returned,
and everything else in it is an increment or an insert.

Abstractions: amounts are small integers; `newestHistory` keeps only the newest history row; the
orders belong to one customer; a `tracker.delivered` event may come as soon as a label can exist
(PAID, PROCESSING, or later); Stripe never forgets a refund's idempotency key (it does so after a
day or more; a retry comes sooner). E-mails, Slack, Sentry and analytics are left out: they follow the
commit and the code swallows or ignores what happens to them. (`handleChargeRefunded` and
`handlePaymentIntentSucceeded` await an e-mail after the commit; if that fails the event is
delivered again, which is what happens to any event of the model anyway.)

### Checkout and the code

| Action | Code |
|---|---|
| `CreateReadBalance` | `useInitiateCheckout` posts the payload of `buildOrderPayload`, with the points of `LoyaltyRedeemSection`; `create` reads the balance, lines 61-73, outside the transaction |
| `ApplyReadCode` | the lookup of `applyOnOrderCreate`, inside the transaction |
| `CreateCommit` | the conditional `updateMany` on `usageCount`, the insert, the points, the commit. From the update on, its row lock keeps other checkouts with the code out, so it is one step |
| `CreateFails` | anything thrown: the transaction is rolled back |
| `UpdateLimit`, `UpdateActive` | the admin edits, deactivates or deletes the code; expiry is deactivation |
| `IntentExisting`, `IntentRead`, `IntentCreate`, `IntentInsert`, `IntentFails` | `createPaymentIntent`, step by step |
| `StripeForgetsKey` | Stripe's idempotency keys expire, here at any time when no call is under way |
| `AcceptTerms`, `ConfirmPayment`, `ConfirmCardPayment` | `acceptTerms`; the card form; the wallet button |
| `OrderLeavesPending` | what `OrderLifecycle` is about |

An order stands for one mount of the payment step, because a mount posts exactly one order. Money is in
cents. The code is one FIXED_AMOUNT discount; its minimum order is met or the code counts as inactive.
The web shop sends no code yet, but the API accepts one and so does the model. The browser admits
no more points than the balance it fetched and the 50 % cap. `limitsHad` is a history variable.

### Fulfilment and the code

`page` holds, for each admin browser, the answer it has cached: of the order page (`LoadOrder`), of the orders
list (`LoadList`) or of the production board (`LoadBoard`). `LabelForm`, `TrackingForm`,
`StatusUpdateSection`, `StatusMenu` and `SelectProduction` are the buttons that answer offers. The menu of the list
is not disabled while a change is pending, the buttons of the page are (`IsPending`). A label is three jobs:
`PurchaseRead` (the guards of `purchaseLabel`), `PurchaseBuy` (EasyPost, a label that is paid for), `PurchaseWrite` (the update
by key). Status and production changes read and check, then commit; notes are saved with the production status the
board shows. The carrier's event is `TrackerRead` and `TrackerCommit`, or `TrackerIgnored`, which is answered 200 all the same.
`overlapped` names operations of which two were in flight at once. History rows and loyalty are in `OrderLifecycle`.

### Sessions and the code

Every statement of `AuthService` that touches the `User` or a `RefreshToken` row is a step. `refreshTokens` looks the
row up (`RefreshRead`), deletes it (`RefreshDelete`, or `RefreshLost` when the delete finds nothing), and creates the new one (`CreateToken`, shared
with `login`). `changePassword` alone pairs two writes in a transaction (`ChangeCommit`). A session row carries the
login it goes back to (`line`) and the password it was opened with (`opened`). The mail of a link is sent without
waiting and may not arrive (`IssueLink`); a link ages. `device` is what a browser keeps: one cookie, and the access tokens of its tabs, each of
which persists what it was given and does not follow the others (`auth.store.ts`). Every token names the row it was given out with; `JwtStrategy`
looks up no row, so an access token is good until it ages (`AccessExpires`), whatever has become of its session. `SignOut` takes any access token there is, forgets it in
its tab and sends the request behind; `LogoutCommit` deletes the row which that token names, if there is one, and clears the cookie. `exchanged`, `loggedOut`, `changedBy` and `raced` are history:
a session counts as logged out when the token of the logout was its latest. The other forms (`ResendButton`, `ForgotPasswordForm`, `ResetForm`, `ChangePasswordForm`) are guards. `Book` maps `live` to the logins that have a row or a job about to write one.

### AddressBook and the code

Making a default is a transaction of two statements: `MakeBegin` clears the flags it sees (its snapshot,
under READ COMMITTED), `MakeCommit` flags its own row and commits. The count and the choice of the first default
(`CreateCount`) come before it, outside. `RemoveDelete`, `FindNext` and `Promote` are the three separate statements of `remove`. Pages
may be old: a form opened on an old row sends `isDefault` as it was. `raced` names overlaps, `dropped` that a form unticked the default.

### Newsletter and the code

Each submission of `NewsletterForm` makes a row, then a mail that may get lost. `ConfirmRead`/`ConfirmWrite`/`SubscribeEmail` and
`UnsubscribeRead`/`UnsubscribeWrite`/`UnsubscribeEmail` are the two handlers: read the rows, write them by id, tell
Klaviyo, which may refuse (logged, not retried). The unsubscribe link does not expire. `covered` are
the rows an unsubscription knew of; `refused` and `raced` are the ways Klaviyo may be left behind.

### Catalogue, Storefront and the code

`EditRead`/`EditCommit` (product form), `InventoryCell`/`InventoryCommit` and `RemoveRead`/`RemoveCommit` read the product and write it later; a
stock seen at 0 and written positive sends the mail (`Notify`). Stock is 0 or 1, and no order takes from it. In the browser,
`BuyNow` sets the express item, which `CheckoutItems` prefers to the cart; the steps are
`ContinueAsGuest`, `CheckoutAddressForm`, `CheckoutShippingMethodForm`, `Buy`, with `Back`. Entering the payment step sends an
order each time; `OrderPlaced` opens the card form only if the step is still mounted (`heard`), `LeaveCheckout` unmounts it. `Cleanup` is
`ExpressCheckoutCleanup`. A heart changes before its request is sent (`ToggleHeart`), is put back when it fails, and is
replaced by the merge of a login (`Merge`, `MergeAnswer`); the wishlist page waits for its answer (`ManagerRemoved`). `raced`
and `muddled` name overlaps, `abandoned` an express checkout that was left.

### Reviews and the code

`createReview` and `updateStatusForAdmin` are transactions of three statements: write the review, aggregate the approved ones,
write the product; `Locked` is the row lock, `Seen` what an aggregate sees at READ COMMITTED. The page and the moderation
table are cached answers (`LoadSection`, `LoadTable`). Ratings never change, so an average and a count are modelled as
the set of customers they are taken over. `outdated` says that the last write of the rating was overtaken.
`setSellerReply` is one statement, sent by `ReplyForm`.

### Consent and the code

`stored` is `localStorage`, `memory` each page's copy: the store is read when a page loads and is written whole.
`Decide`, `DoNotSellLink`, the Global Privacy Control of `OpenPage` and `CookiePreferencesButton` are the writers. A change of the choice asks
for scripts (`asked`), which run later (`ScriptRuns`) and are not called off, and switches PostHog on or revokes its consent (`sdk`). `Track` is any
of the shop's events, `Navigate` a page view. `_learnq` keeps events for Klaviyo before its script is there. gtag stands for Clarity too, fbq for
Pinterest: they start by the same rule. `agreed`, `optedOut`, `before` and `overwritten` are history. After a revocation the component calls
`opt_out_capturing` and then `reset`, and the events' wrapper asks only whether the SDK is loaded: whether it still sends them is left open (`Track`), and `TrackersNeedConsent` claims nothing of a consent that was withdrawn.

### BackOffice and the code

`rows` is the database, `cache` what the browser has; `fetch`, `fetched` and `stale` are the query of each table.
A call is sent, handled (`done` or `refused`) and answered; its answer may be lost. Products are
optimistic: cancel the queries (`CancelQueries`), keep a snapshot (`Snapshot`), change the cache, restore on an error
(`restoreProductsQueries`), invalidate at the end. Categories, codes and bulk actions only invalidate after a success; settings
are replaced by the answer. The product form keeps its pictures per upload (`addFiles`, `generatePresignedUrl`, `uploadFileToS3`, `uploadFile`,
`handleRemoveImage`) and saves those that are done (`FormImages`). `overlapped` names calls during which another call or a query of the table began, `missed` the
rows whose last change the browser has not heard of until it reads the table again. `Ordered` are products that orders
point at. A button waits for its call while the page stays open. TanStack Query is external.

## 3. Runs

| Run | Instance | Distinct states | What it shows |
|---|---|---|---|
| `order_safety` | 1 order, 2 handlers at once, total 2, every event but a decline | 849,456 | `MoneyBackedByStripe`, `LedgerMatchesOrder`, `RefundBookKept` (refinement of `RefundBook`) under every overlap, and `OnlyOverwritesLeaveTheFlow` |
| `order_serial` | 1 order, 1 handler, which may die once, total 2, every Stripe event, fairness | 177,699 | `FlowImplemented` (refinement of `OrderFlow`), `RefundAmountNeverShrinks`, and `StripeIsHeard`: a capture, a full refund and a dispute reach the order |
| `refund_retry` | 1 order, 1 handler, which may die once | | a violation, see Findings |
| `checkout_safety` | 2 orders, 2 PaymentIntent requests, limits 0 and 1, subtotal 2, 1 point | 1,481,115 | `UsageMatchesOrders`, `LimitHonoured`, `BalanceMatchesOrders`, `EveryChargeHasItsPayment` |
| `fulfilment` | 2 browsers, 3 requests, 1 crash, fairness | 397,563 | `NoLabelAstray`, `ProductionForward`, `DeliveryReachesOrder` |
| `sessions` | 2 devices, 3 requests, 1 crash or lost mail, fairness | 511,135 | `OneSessionPerLogin`, `EndedStaysEnded`, `KeepsTheBook` (refinement of `SessionBook`), `RegistrationCompletes` |
| `addressbook` | 2 tabs, limit 3, 5 requests, 1 crash | 1,344,162 | `AtMostOneDefault`, `HasDefault`, `LimitHonoured` |
| `newsletter` | 3 rows, 4 links followed, 1 failure | 1,047,170 | `KlaviyoMirrorsConsent`, `UnsubscribedStays` |
| `storefront` | 2 products, 4 clicks and requests, 1 failure | 611,399 | `OrdersKeepTheirProducts`, `OneMailPerReturn`, `CheckoutSellsTheChosen`, `HeartsAreSaved` |
| `reviews` | 2 customers, 5 requests, 1 crash | 2,196,771 | `RatingMatchesReviews` |
| `consent` | 2 pages | 61,563 | `TrackersNeedConsent`, `OptOutHolds` |
| `backoffice` | 2 products (one ordered), 2 categories, 1 code, 2 files, 1 picture per product, 2 calls, 1 lost answer | 1,910,054 | `ListsCatchUp`, `ChoiceStaysShown` |

Every passing run but `order_serial`, `newsletter` and `reviews` checks its module's `TypeOK` too (of `Newsletter` and `Reviews` it is a theorem, section 4), which also says what the foreign keys and checks of the
database say (a wish is for a product that is there, a picture of a product has been uploaded, a category with
products stays).

Why the bounds are enough. Handlers of different orders share only the loyalty balance, which is
incremented and decremented and never read in `OrderLifecycle`, so one order shows every conflict; two handlers are enough
for a stale read, and total 2 for a partial refund that is followed by another. In the other modules the hazards are
between two requests or two pages, with what came before them: two actors, and one request more than the conflict
takes. The addresses need five, because a default that is taken away has to be made first; three rows are two that an unsubscription covers
and one made after it. One failure is enough for every "a handler dies" in the properties. The back office has two calls because
each of the three ways to bring the cache up to date can go wrong with two. What the theorems cover, they cover without bounds.

Names of bounds: `MaxRequests`, `MaxFailures`, `MaxRows`, `MaxIntents`, `Emitted`, `Total`, `Limits`. Ageing (links, keys, access tokens) is not bounded.
`CHECK_DEADLOCK FALSE` everywhere: a finished order, a closed page or an empty book may rest for ever.

`SafetyView` leaves out variables that neither guard an action nor occur in the safety
properties (`TypeOK` constrains `acked`, `newestHistory` and `failedRefund` too; it is the
theorem, not the run, that covers those fully). Handlers, mounts, requests, tabs, customers, pages, products of the storefront and files have no
identity in the code, so the symmetries are sound; no liveness property is checked under one.

Fairness. Nothing is assumed of people but where it says so.

- `order_serial`: a handler that has started finishes unless it dies, `WF(Handler(w))`, since
  Node runs every continuation whose promise settles. An event is delivered until it is answered with 200:
  Stripe and EasyPost retry for days, `SF(Deliver(e))`. Strong, because the model's few workers could
  otherwise be busy whenever a delivery comes, while the server has no such limit.
- `fulfilment`: the same of handlers and of EasyPost's events, `SF(Deliver)`: a status change in flight may take the
  order out of SHIPPED and back, and the event is repeated whatever it finds.
- `sessions`: `RegistrationCompletes` is about a customer who does not give up. Handlers of verification finish (weak), time
  passes (`WF(LinkAges)`), and a chance to use a link or to ask for another one that comes again and again is
  taken (strong: `SF` of `VerifyRead` and `ResendRead`); the resend button stands on the login form after a refused login, and on the page after the registration.

With two handlers in flight `FlowImplemented` and `RefundAmountNeverShrinks` are false: the code re-reads
nothing in its transactions. What remains true then is `OnlyOverwritesLeaveTheFlow`, which `order_safety` checks: a step outside the
flow is a handler's that writes over a status it has not seen, and of the status it has seen its move was on the whitelist. So
an update that names the status read (`updateMany` where `{ id, status: seen }`) would be enough to close the gap, which is theorem `FlowWithoutOverwrites`.

## 4. Proofs

All theorems hold for arbitrary sets of orders, handlers, requests, devices, tabs, customers and pages, amounts and failure bounds, from the
named assumptions on the constants only: bounds, amounts and limits are natural numbers, the orders of `Checkout` and of `OrderLifecycle` are finitely many (the rows of a table), `None` is not one of the values it stands beside,
and in `BackOffice` a row is of one table only and there is a category (`TablesAssumption`).

- `OrderLifecycleProofs!TypeCorrect`: `TypeOK`, from the inductive `TypeInv = TypeOK /\ JobShape`. `JobShape`
  is needed because a commit answers "its" event, which must have been emitted, and because the target
  status of a refund must follow from its amount.
  `MoneyIsBacked` is from `MoneyInv`. A stale job is the
  difficulty: the amount it will write must be covered by what Stripe had given back *when it read*, plus
  what it still asks Stripe for (`JobsTrue`); a replayed key was covered when it was made (`KeysTrue`); an event
  stays true because Stripe's side only grows (`EventsTrue`, `StripeGrows`).
  `BookIsKept` is the refinement of `RefundBook`, step by step, on `MoneyInv`: its `captured` and `declined` are the sets `Captured` and `Declined`,
  and a commit of the refund endpoint or of a `charge.refunded` event is `RecordRefund` because `MoneyInv` covers its amount.
  `LedgerMatches` has `LedgerMatchesOrder` inductive on its own. Its second half, that the balance is one credit for each order that stands credited, is about the
  number of those orders; `CreditsCounted` says how it changes when one order gains or loses its credit, and `AwardKeeps` and `ReverseKeeps` that the two loyalty operations
  change both sides alike. The run has one order, the theorem any number.
- The order flow, same module. `OrderWrites` sums up what any step does to the order rows: nothing, or one handler writes one of them by a whitelisted move from the status it had read,
  a refund's amount with it (`Moves`). It rests on `MoveWasAllowed`: a handler that writes without asking the whitelist again asked before.
  `MoveIsFlow` says that every whitelisted move is a step of the abstract flow. From these, with any number of handlers: `OnlyOverwrites` (`OnlyOverwritesLeaveTheFlow`), and
  `FlowWithoutOverwrites`, that a behaviour in which each handler that writes finds the status it has read (`NoOverwrites`) implements `OrderFlow` and never takes a recorded refund
  back; the amount needs no check of its own because it shows in the status (`RefundShows`). Under `OneHandler` (no two handlers in flight) nobody can be overtaken (`SeenIsCurrent`), and
  `SerialImplementsFlow` and `SerialRefundGrows` follow.
- `CheckoutProofs`: `TypeCorrect`; `PointsAreOrders` (`BalanceMatchesOrders`: the balance is the opening one and the points of the orders). The sum
  is a fold over a set, which the prover cannot do induction over; `PartialSums` and `FirstToFail` get by with a least counterexample: were there
  a set whose sum changes by anything else than the one term that changed, there would be a smallest one. `UsageIsOrders` (usage equals the number of orders with the code, so the
  invariant carries the finiteness of `Orders`); `LimitIsHonoured` (`LimitInv`: the limit a transaction
  carries was had at some time, so the conditional update is against such a limit); `ChargeIsKnown` (`IntentInv`: secrets
  given out are those of the row). `OneCheckoutNeverOverdraws`: as long as no two checkouts that redeem points are between reading the balance and committing
  (`OneRedeems`), the balance stays at zero or above, since what the only one was granted is still there (`Covered`). Without that hypothesis it is false: two
  checkouts can spend the same points, and every decrement still has its order (`PointsAreOrders`).
- `SessionsProofs`: `OneSession` and the refinement `SessionsKeepTheBook`, from `BookInv`: ids are those of requests that were sent (`Numbered`), rows and jobs do
  not share ids (`FreshIds`), a row that a refresh has read is the one it will delete (`OldRows`), and of one login there is a row or one job that will
  write it (`OneHolder`). Two refreshes of one cookie both read the row; only the one whose delete finds it goes on.
  `SessionsTypes` needs what a handler found at its start to be still there (`Accepted`) and each use of a link to be a request (`ResetsCounted`).
  `EndedForGood` (`EndedStaysEnded`) is from `EndedInv`: handlers that end a session or a link while another goes on with it are known (`RacesKnown`);
  an access token names the only row of its session unless its refresh token has been exchanged (`TokensKnown`), which is why a logout with the latest token ends the session whatever other tokens
  there are; and unless it has raced, a session about to be written was opened with the password there is
  (`PasswordKnown`), no row of a session that was logged out is left (`LogoutKnown`), and a link that can still be used has changed nothing yet (`LinksKnown`).
- `AddressBookProofs`: `AddressBookTypes`, `OneDefault`, `LimitIsHonoured`, from `BookInv`: while nothing has raced, only one job at a time is
  about to make a default or to create (`OneMaker`, `OneCreator`), what it will clear covers the defaults there are, and it found room (`Room`). `DefaultIsKept` (`HasDefault`) adds
  `DefaultThere`: while no removal is overlapped, what a handler was told about the table is still so, and where there are rows one is the default or about to be.
- `FulfilmentProofs`: `FulfilmentTypes` (`Counted`: no more labels than requests; `LabelsExist`: handlers and pages speak of labels that exist), `LabelsAreKept`
  (`NoLabelAstray`) and the action property `ProductionGoesForward`, from `StepInv`: handlers of one operation are never in flight together unnoticed (`OverlapsKnown`);
  while purchases come one at a time and none dies, one starts only for an order that never had a label (`OneLabel`); a board's request was checked
  against the stage that is still there (`StagesChecked`). `StatusKeepsToTheWhitelist`: the page and the carrier's webhook both check the whitelist before they write; while no
  two of them are in between (`OneWriter`), every change of status is whitelisted from the status there is (`WritesFollow`), however old the page. It is false
  without the hypothesis: a status written in between is overwritten.
- `StorefrontProofs`: `StorefrontTypes`; `OrderedProductsStay` (`RemovalsChecked`: a product is not ordered between the count of its orders and its deletion
  unnoticed); `MailsAreForReturns` (`StockWatched`: the one writer of a stock has read the stock there is, and each mail on its way is for a return);
  `TheChosenIsSold` (`OneCheckout`: the order that is waited for is the one the payment step sent); `HeartsReachTheServer` (`HeartsWatched`: a heart is on the server's
  list, or one request is on its way with it).
- `BackOfficeProofs`: `BackOfficeTypes` (`TypeInv`: a category with products is there, pictures of products and finished uploads are in the bucket, a call
  fits its table); `TheListsCatchUp` (`ListsCatchUp`) and `TheChoiceStaysShown` (`ChoiceStaysShown`). `CallsInv`: two calls about one table are known to overlap.
  `ListsInv`: a row that was not missed is shown as the server has it, or a call is out at whose end its table is read again, or that table is out of date and
  will be read when its page is opened; the settings take the answer of a save instead, which `AnswersInv` says is what they are unless another save overtook it. `ChoiceInv`: a query in flight has marked the
  calls whose choice it may show over. The 30 or so actions are sorted once, by `Step`, into those that leave rows, calls and queries alone, send a call, handle one, end one in one
  of five ways, or read a table, so that each invariant is proved once for each sort and not for each button.
  Its last part instantiates `Reviews`: `ReviewsTypes` and `RatingIsOfReviews`, from `RatingInv`: an aggregate that was not overtaken is still that of the
  committed reviews and its own write (`AggregateStands`), since only a commit changes them and a commit marks every other aggregate as overtaken.
- `ConsentProofs`: `ConsentTypes`, `ConsentComesFirst` (`AgreedTo`: everything allowed, asked for or running was agreed to), `OptOutIsForGood`
  (`OptOutInv`: an opted-out choice admits nothing, and a page loaded after it has never asked for a script).
  The same module instantiates `Newsletter`, with the bounds of that model as hypotheses: `NewsletterTypes` (`RowsInv`: handlers know of rows that exist),
  `UnsubscribedForGood` (`Apart`: confirmations and unsubscriptions in flight together have raced, and what one has read of a row still stands) and
  `KlaviyoIsInStep` (`MirrorInv`: while handlers are in flight, one of them will tell Klaviyo what it does not know yet).

Only model-checked: liveness (`StripeIsHeard`, `DeliveryReachesOrder`, `RegistrationCompletes`), since the prover has no fairness reasoning, and
`refund_retry`, whose property is false. Every other invariant and action property of the runs is a theorem; those of
`Newsletter` and `Reviews` are stated through an instance.

## 5. Findings

`refund_retry` is kept as a run: the refund's idempotency key contains the amount already recorded, so when the webhook of the
first attempt has been handled, a retry has a new key and refunds twice, although `orders-refunds.service.ts:80-81` and `stripe.service.ts:23-24`
say that a retry returns the existing refund.

Other places where code and documentation part, met while modelling; the models follow the code.

Orders and money:

- `orders-refunds.service.ts:82,94`: Stripe is asked before the whitelist is, and the webhook applies the same whitelist. A full refund of a PAID, PROCESSING or SHIPPED order
  is executed and never recorded, contrary to `docs/admin-help/en/orders/refunds.md:30-31`.
- `updateStatus` validates a status read before its transaction; a dispute in between is overwritten and the order goes on.
- The carrier webhook writes DELIVERED without the loyalty credit.
- `orders-create.service.ts:71` takes redeemed points off a total that `build-order-payload.ts:26-29` has already reduced; a point is worth a cent by the schema.
- The `charge.refunded` handler (`stripe-webhooks.service.ts:175`) moves an order to REFUNDED without reversing its points, contrary to `schema.prisma:111-112,131`; only the endpoints do.
- The balance is read before the transaction and decremented without a condition, so it can go below zero.
- An order that redeems points while the balance is below zero is stored with a negative `loyaltyPointsUsed` (`orders-create.service.ts:68,97`): the smallest of request, balance and cap
  is stored as it is, and only the spending asks whether it is above zero (`:69,126`).
- The wallet button pays without recording the acceptance of the terms.
- `refund-order-modal.tsx:119` invalidates `['admin-order', id]`, the order page's key is `['admin','orders',id]` (`admin-order-detail.tsx:44`): the page keeps showing the amount refunded before.

Checkout and cart:

- `use-initiate-checkout.ts:20-21` says it is called once; every return to the payment step places another order. There is no way back while the order is placed, or after an error.
- The express item of an abandoned "Buy now" stands in for the cart at the next checkout (`cart.store.ts:97`), contrary to `buy-now-button.tsx:19-21`.
- The order summary does not take applied points off its total; the points section says "payment step" and stands on the shipping step, which forgets a chosen express option when it is entered again.

Consent:

- A page older than an opt-out writes its own choice over it when "cookie preferences" is clicked, contrary to `cookie-consent.store.ts:21-24` and `48-49`.
- `lib/analytics/klaviyo.ts:3` says events are dropped when `_learnq` is not there; the queue is created, and sent after a later consent.
- After a withdrawal, `posthog.tsx:30-31` calls `opt_out_capturing()` and then `reset()`, and `lib/analytics/posthog.ts:37` asks only for `__loaded`. Nothing in the repository makes sure that events
  of the shop are not sent any more, and `docs/qa/TEST_PLAN.md:105` tests a refusal from the start only. The model admits both.
- gtag, fbq and pintrk keep hearing events after a withdrawal, until the page is loaded again. A script that was asked for before a withdrawal is not called off.

Accounts, admin and the rest:

- `schema.prisma:174-175` says that reuse of a refresh token deletes all sessions. A token that was rotated has no row any more, and is only refused (`auth.service.ts:165`); the branch that revokes all needs a row whose hash differs.
- A logout with an access token from before an exchange of the session (which another tab may hold for a quarter of an hour) deletes no row, since `auth.service.ts:273-276` deletes by the token's id and the exchange has replaced that row,
  contrary to `jwt.strategy.ts:12-14,38-39` and `account-icon-button.tsx:28-29`. The answer clears the cookie of the browser that asked; the row stays, and the other
  access tokens stay good.
- `auth.service.ts:262-263`: after a password change "this device … gets a fresh refresh token on the next request"; its row is deleted with the others.
- A product that was created may be missing from the list for up to a minute, since creating does not invalidate it. Submitting the form while pictures are uploading
  loses those. A save that is answered after the admin has moved on takes them to `/admin/products`. Selected rows that leave the page stay selected.
- A GET of the settings that answers after a save puts the old values back into the cache.
- A draft of a seller's reply (`admin-reviews-table.tsx:82`) keeps the older reply after the list is read again.
- `upload.service.ts:54-55` calls an upload's metadata a server-side size cap.

## 6. Plan

Done: the order and its money, the checkout, fulfilment, sessions, addresses, newsletter, catalogue and storefront, reviews, consent,
the back office. Left, in this order:

1. A composition of `Checkout` and `OrderLifecycle` in which the balance is one number, so that an overdraft meets a reversal. Each half is proved
   to be the sum of its orders (`BalanceMatchesOrders`, `LedgerMatchesOrder`).
2. The identity PostHog is given at sign-in and sign-out, beside `Consent`; the contact form's memory of recent messages; percentages and minimum orders of discounts.

## 7. Not modelled

Queries, exports, dashboards, rendering, legal pages, feeds, e-mail templates and seed scripts change no shared state. The currency cache serves
display only. Profiles are single-row updates. Framework code (filters, paging, CSV, logging, health, CSP reports) keeps no shop state. The contact form sends an
e-mail and remembers it in memory for an hour, lost at a restart. Who may call an endpoint (guards, tokens, rate limits) is
out of scope: the models start where an authorised call begins. The fields of forms are left out unless a property tells them apart.
Decimal arithmetic is exact in the code (`Decimal`, cents) up to `toFixed(2)`, and is modelled in whole units.
