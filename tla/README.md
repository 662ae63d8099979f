# A verification of Ferasha

Ferasha is a modest-fashion store: a Django backend (`src/backend-core`), a
Next.js storefront (`src/frontend`) and an image-moderation service
(`src/ai-engine`). This directory holds TLA+ models of where money, stock and
orders meet, of the way of a photo from upload to storefront, of sessions,
accounts and reviews, and of the pure rules for tax, modesty, faces and measurements; the
TLC runs that check them and the TLAPS proofs of what matters most.
`PROJECT.json` maps every definition to the lines it models, and lists the runs,
the hazards, the findings and the theorems.

Paths below are relative to `src/backend-core/apps/` unless they begin with
`src/`.

## 1. The system

| Component | State | Operations | Meets |
|---|---|---|---|
| Order state machine (`orders/state_machine.py`) | `Order.status`, `OrderEvent` rows | `transition_order` | checkout, payments, operators |
| Operator API (`orders/views.py`) | none; an unlocked copy of the order per request | `transition` | state machine |
| Payments (`payments/`) | `Payment`, `PaymentWebhookEvent` rows | `initiate`, `confirm_capture`, `record_failure`, `handle_webhook`, verify view | provider, browser, state machine |
| Checkout (`checkout/`) | none of its own; locks `Cart` and `ProductVariant` rows | `quote`, `place_order` | cart, catalogue, state machine |
| Cart (`cart/`) | `Cart`, `CartItem` rows | `get_active_cart`, `add_item`, `set_quantity`, `remove_item`, `clear`, `merge_items` | storefront tabs, checkout |
| Idempotency keys (`common/idempotency.py`) | result and lock keys in the shared cache | the wrapper around `place_order` | storefront, checkout |
| Catalogue (`catalog/`) | products, variants with stock | vendor edits, `reserve_stock`, facets, modesty rules | checkout, cart |
| Storefront bag (`src/frontend/store/useCartStore.ts`, `components/CartDrawer.tsx`) | the bag of each tab and one copy in localStorage | add, change, remove, open the drawer, reload | storefront checkout, cart |
| Storefront checkout (`src/frontend/components/CheckoutStepper.tsx`) | quote, address, attempt key | quote, place, retry | idempotency, cart |
| Storefront session (`src/frontend/middleware.ts`, `lib/session.ts`, `lib/api/client.ts`, route handlers) | two cookies in the browser | refresh, proxy, sign-in, sign-out, one retry | identity |
| Identity (`users/`) | password, last sign-in, verification time; refresh tokens and their blacklist | sign-in, links by e-mail, password change and reset, revocation | session |
| Addresses and fit profiles (`users/`, `tailoring/`) | rows with a default; revisions | create, edit, delete, verify | checkout, the drawer |
| Reviews (`reviews/`) | `Review` rows with the order line that earned the badge | create, update, delete | orders |
| Media worker (`src/ai-engine/app/worker.py`) | queue, processing list, dead letters in Redis | claim, process, release, retry | media assets, face blurring |
| Media assets (`media_assets/`) | moderation status, derivative | upload, callback | worker, the product's badge |
| Face blurring (`src/ai-engine/app/services/`) | none | decode, detect, blur, verify | worker |
| GST engine (`taxes/`), modesty rules (`catalog/modesty.py`), measurement rules (`tailoring/validators.py`) | none | pure functions | checkout, catalogue, profiles |

The hard behaviours are these.

* Requests interleave at statement granularity: PostgreSQL runs at READ
  COMMITTED, some rows are locked with `SELECT ... FOR UPDATE`, some are not,
  and handlers keep copies of rows they read before they locked anything.
* `initiate()` waits for the payment provider while it holds the order's row.
* The provider delivers webhooks at least once, late and in any order, while
  the browser reports the same payment by itself, or never does.
* Checkout locks several variants one after the other.
* Tabs of one browser keep bags of their own and write them over one stored
  copy; the bag can be edited while an order is on review.
* The network between browser and server drops answers, and a customer presses
  the button again; workers die between two accesses to the cache.
* A media worker dies between two Redis commands, and a request it gave up on
  still runs at the server, next to the one of the next attempt.
* Requests of one browser race to refresh one session, and each carries the
  cookies of the moment it was sent.
* Money is rounded per line and per half; a rate depends on a value that
  depends on the rate.

What makes each component correct:

* *state machine*: the audit trail is a chain of permitted moves that ends in
  the current status; nothing is dispatched that was not confirmed;
* *payments*: an order has one payment; a recorded capture is real, final, seen
  in the end, and accounted for in the trail;
* *checkout*: each piece is in stock or in one order; a bag becomes one order;
  checkouts neither deadlock nor starve; the order is what the customer saw;
* *cart*: concurrent edits of a line sum and are not lost;
* *storefront bag*: an order holds nothing that was not in the bag handed over,
  or in one handed over at the same time, and a hand-over is ordered once;
* *idempotency*: one run at a time per key, one order per key, and the order
  shown is the one asked for;
* *media*: what is public was blurred and verified; the badge is backed by every
  photo; a job ends finished or set aside;
* *session*: a refresh race never ends a session, and a click is carried out at
  most once; *identity*: a used link stays dead; *addresses*: a default is not
  lost; *profiles*: the history is complete; *reviews*: a verified badge is earned;
* *rules*: a tax quote balances and its rate fits its value; four badges
  and the filters of their name agree; more coverage never scores less; no detected
  face stays visible; both sides accept the same measurements but for named ones.

## 2. The modules

| Module | What it is |
|---|---|
| `OrderStateMachine` | statuses, permitted transitions, the checks of `transition_order`: pure operators |
| `OrderContract` | abstract: an order waits for money, is confirmed, dispatched, closed; money is collected at most once |
| `OrderPayments` | payments, webhooks, browser and operators over rows and locks; implements `OrderContract` |
| `OrderPaymentsProofs` | theorems about `OrderPayments` |
| `Sales` | abstract: a sale takes all pieces of a bag at once, only pieces that are there, one sale per bag |
| `Checkout` | `place_order`, statement by statement, among other checkouts, bag edits and catalogue changes; implements `Sales` |
| `Bag` | the cart services, statement by statement |
| `Idempotency` | the wrapper around `place_order` and the storefront's review step |
| `IdempotencyProofs` | theorems about `Idempotency` |
| `StorefrontBag` | the tabs' bags, the hand-over to the server, review and order |
| `CheckoutProofs`, `StorefrontBagProofs`, `MediaPipelineProofs`, `SessionProofs` | theorems about these modules |
| `PartsProofs` | theorems about what `MCParts` puts side by side: `Bag`, `MCAccount`, `Rules` |
| `SumTheorems` | sums over finite sets, for the proofs about stock and about tax |
| `MediaPipeline` | worker, callbacks, uploads and the badge; implements `JobLife` |
| `JobLife` | abstract: a job waits, is held by one worker, is finished, retried with its attempt counted, or set aside |
| `Session` | cookies, middleware, proxy and retry over Django's rotating refresh tokens |
| `Credentials` | links sent by e-mail and what they change |
| `AddressBook` | addresses and their defaults, as transactions with row locks |
| `FitProfiles` | fit profiles and their revisions, without transactions |
| `GST`, `Modesty`, `FaceBlur`, `Measurements` | the pure rules, as operators |
| `Reviews` | reviews, their verified badge and the orders that earn it |
| `Rules` | one request to each of the rules, its answer, and what is right |
| `MCRules` | the questions the run asks of `Rules` |
| `MCAccount` | composes `Credentials`, `AddressBook`, `FitProfiles` and `Reviews`, which share nothing |
| `MCParts` | puts `Bag`, `MCAccount` and `Rules` side by side, for they share nothing with each other: a behaviour exercises one of them |
| other `MC...` | constants for the runs |

### OrderPayments

`status` and `trail` are `Order.status` and the order's `OrderEvent` rows,
`payment` the `Payment` rows by provider order id, `ledger` the
`PaymentWebhookEvent` rows. A database transaction is one action, with two
exceptions. `initiate()` holds the order's row across the provider call:
`Initiate` takes it (`calling`), `InitiateFinishes` and `InitiateAborts` give it
back, and every action that locks the order waits for it. The transition
endpoint reads the order through `get_object()` without a lock
(`OperatorReads`, `request`) and judges it after `transition_order` has locked
it (`OperatorTransitions`).

`CardFails` and `CardPays` are the provider, external to the repository: an
attempt on a provider order the customer was given, with the amount the provider
says it collected. A successful attempt sends both capture events
(`payment.captured`, `order.paid`). `DeliverWebhook` picks any sent event that
the ledger does not hold yet: events are delivered late and in any order, and a
redelivery of an accepted one changes nothing. Signatures are abstracted to
whether a capture exists that the provider would have signed (`PaidInWidget`).
Webhooks of other types only add a ledger row and are left out.

### Checkout

`place_order` is cut where other requests can commit: the cart's lock, the
snapshot of the lines with their products, each variant's lock in key order, and
the decision with everything up to the commit. Lines are not locked by
the code and not by the model. The cart's own handlers are two actions: getting
the active cart, and the committed write of a line, which an edit makes even
if the cart was retired in between. Writing a *new* line waits for checkout's
locks because its foreign keys do. `VendorReads` and `VendorSaves` are a PATCH of
a variant: the serialiser saves every column of the row it read. `quoted` is what
a tab shows its customer; the storefront sends its total as
`expected_grand_total`. Shipping and GST are functions of the lines and their
prices and are folded into `Total`. Restocking by a vendor is not modelled.

### Bag

One cart, several tabs. `merge_items` is one transaction of several statements:
`replace` deletes the rows its snapshot shows, then each entry selects its line
`FOR UPDATE` and updates or inserts it. `snapshot` holds the rows a statement is
after; a statement that waited for a row that was deleted finds it gone and does
not notice the row that replaced it, which is READ COMMITTED. The unique
constraint decides between two inserts. A deadlock between merges in
opposite orders is resolved by PostgreSQL ending one: `Abort`.

### Idempotency

One action per cache access: `GetResult`, `AddLock`, `GetResultAgain`,
`RunView`, `SetResult`, `DeleteLock`. A worker may die between any two. The lock
expires by `LOCK_TTL`; with `SlowRequests = FALSE` only a dead worker's lock can,
which is the assumption the code states for its TTL. `place_order` is atomic here.
The review step draws a key with each quote, keeps the address editable, and may
send the same key again after the connection dropped.

### StorefrontBag

`bag` is the store of each tab, `stored` the copy in localStorage, which `Set`
overwrites with the tab's bag on every change, the drawer's opening included
(`OpensDrawer`), and which is read when a page is loaded (`Opens`). Checkout
sends the tab's bag (`EntersCheckout`, `sent`), the server replaces its cart,
also for a tab that has moved on, and the answer takes what was skipped out of the
bag (`SyncAnswered`). `quote` is what the tab has on review, `placing` the
placement on its way, `awaited` the tabs that have not heard of theirs; the answer
clears the bag (`AnswerArrives`).

A replacement is a transaction that locks rows and not the cart
(`cart/services.py:128`). It begins with the cart it fetched and the snapshot of its
DELETE (`ReplaceBegins`) and ends with its COMMIT (`ReplaceCommits`), which deletes
the lines of the snapshot and adds its entries to whatever others have inserted
since, or is rolled back or lost (`ReplaceAborts`). Two that overlap may therefore
add up, or one may replace the other, and the cart may be ordered between the
two steps. A snapshot and a commit are all another transaction sees
of a replacement at READ COMMITTED; `Bag` has the statements between. A
placement is handled wherever its tab is by then (`Places`, `PlacementRefused`); it
locks the cart and is one step, because `Checkout` takes it apart.

`handed` is a history for the properties: how many hand-overs there were, and the
lines the last one may have left, which are its bag and the bags committed
between its two steps (`since`). Bounds that are not constants: a tab sends no second
replacement or placement while its first is under way, and the entries of one
replacement are all looked up when it commits.

### MediaPipeline

`queue`, `processing` and `dead` are the Redis lists; `worker` is what each
worker does with the job it holds; `requests` are the uploads and callbacks at
the server, also those nobody waits for any more; `row` the `MediaAsset` rows and
`face` the product's `face_coverage`. Each Redis command and each request of
`worker.py` is a step of its own (`Claim`, `Judge`, `Report`, `Release`,
`RetryOrBury`, `BuryPoison`), and `Crash` may fall between any two. `Fails` is
a failed download, a timeout or an error answer. The upload reads the row
(`UploadReads`) and saves every column later (`UploadSaves`); the callback locks
the row (`CallbackBegins`) until it commits (`CallbackCommits`), and derives the
badge from what its transaction sees. A callback whose outcome calls a method
the model class lacks (`rejected`) is answered with an error, as in the code.
The vendor's PATCH of the product saves an old `face_coverage`.

### Session

A token pair is a number; `jar` holds the browser's cookies and `tabs` the
requests under way, with the cookies they carry. The middleware refreshes a
session without a usable access token, in two steps at Django
(`RefreshAccepted`, `Rotates`), so that two requests may both present one token;
the loser goes on without (`GoesOnWithout`). An answer with new cookies may be
lost. `recorded` are the tokens simplejwt lists with their user, which a rotated
one is not. Signature checks and the same-origin check are left out: every
request comes from our own pages.

### Credentials, AddressBook, FitProfiles

In `Credentials` a form is opened against the account (`Opens`) and saved later
from that copy (`Saves`); a link's fingerprint is the state it was made from. In
`AddressBook` create and update are transactions: clearing the other default
locks its row until the commit, the unique constraint refuses a second default,
and a refusal undoes everything. In `FitProfiles` there is no transaction:
clearing, counting revisions, adding one and saving are four steps.

### Reviews

No request runs in a transaction, so that each statement is a step: a create
looks for an earlier review (`BeginsCreate`), then for the latest delivered
purchase (`Queries`), then inserts (`Inserts`); an update reads the row
(`BeginsUpdate`) and saves every column of it (`Saves`), which inserts it again
if it was deleted meanwhile. Orders move along `OrderStateMachine` by themselves,
as operators and checkout move them under locks that reviews do not wait for.
Whose request it is decides what it sees and may change (`Visible`,
`IsOwnerOrBackOffice`); a request that may not, changes nothing and is left out.
`delivered` and `moved` are histories for the property: the orders that ever
were delivered, and the reviews an update pointed at another product, which the
serialiser allows.

### The rules

`Rules` puts the pure rules behind the endpoints that ask them: the tax quote, the
badges of a listed garment, the detection report, the synchronous blur and the
validation of a fit profile. A behaviour asks one question and ends with its
answer. What may be asked is a constant (`Baskets`, `Blurs`, `Drafts`), of which
`RulesAssumption` says only what the serialisers guarantee: the types, and that
lengths come in twentieths of an inch, so that both units are whole numbers of
the model's smallest length. `MCRules` gives them values.

Amounts are paise and a quantised decimal is a rounded division. An HSN code is
its kind and whether it is longer than its heading, which is all the lookup
distinguishes. The modesty attributes are the code's own. In `FaceBlur` geometry is exact, and
the Laplacian energy of a region before and after each escalation is an input:
what a blur does to pixels is outside a model. A tax override is checked against
today's rates by the serialiser and against those of the day of supply by the engine
(`Lawful`, `Today`). A request dated before the first regime fails with status 500
(`Failed`), unless an override has it refused first. The modesty score is an exact
fraction where the code multiplies floats, so that an exact half may round to the
neighbouring point; bounds and order are the same. `FacetsAgree` is about the four
filters that have a badge of the same name or meaning; the facet of the full
lining (`catalog/filters.py:45`) is left out.

In `Measurements` both units are exact multiples of a tick, as the server's Decimals
are. The drawer divides doubles (`lib/units.ts:47`), which order lengths that differ
as the ticks do; where a length lies exactly on a bound, the rounding
decides. Of the upper bounds in centimetres one is kept above itself, the shoulder's
(66.04 / 2.54 is 26.000000000000004, `RoundedUp`), and that was settled by computing
them all; whether a waist exactly 24 inches from bust or hip passes depends on the
terms, and either is permitted (`slips`). `MeasurementsAgree` excuses these
lengths by name (`RoundingDecides`). The server is asked about the exact lengths, not
the long decimals the drawer sends for lengths typed in centimetres.

## 3. The runs

| Run | Shows | Bounds |
|---|---|---|
| `op_lifecycle` | `TrailExplainsStatus`, `DispatchedWasConfirmed`, `CapturedIsFinal`, the refinement `ContractSpec`, and `CaptureIsRecorded` in the end | one order, twelve audit events (the longest way from draft to refunded that visits no status twice), two card attempts |
| `op_payments` | `HeldOrderAwaitsPayment`, `OnePaymentPerOrder`, `MoneyAccounted`, and the inductive invariant `IInv`, with `TypeOK`, `PaidOrderNotAwaiting` and `CaptureIsBacked` among its parts | two orders of different totals, two provider orders and a foreign one, two sessions (symmetric), two audit events before operators stop |
| `op_mismatch` | violated: `RefusedCaptureNotConfirmed` | one order, two amounts |
| `co_stock` | `StockConserved`, `NoCircularWait`, the refinement `SalesSpec`, and `PlacementAnswered` | two customers, two variants with two and one piece, lines of up to two |
| `co_tabs` | `OneOrderPerBag` | one customer with two tabs, a repriced and withdrawn variant, a vendor |
| `sb_bag` | `NoLeftovers`, `OncePerHandOver` (its type invariant is proved, section 4) | two tabs (symmetric), one variant with more in stock than a line may hold, up to two pieces, two hand-overs, which may overlap |
| `sb_review` | violated: `OrderIsTheBag` | one tab, one variant, two pieces, one hand-over |
| `id_once` | `OneRunAtATime`, `ShownOrderIsTheirs` | three requests (symmetric), two keys, two bodies, one refill |
| `md_pipeline` | `PublicWasBlurred`, `BadgeBacked`, the refinement `JobLifeSpec`, and `JobEnds` | two photos of four combinations of kinds, two workers, two attempts, two failures, one crash |
| `md_lost` | violated: `JobNeverLost` | the same |
| `ss_session` | `NoSelfSignOut`, `EffectAtMostOnce` | two requests at a time (symmetric), three clicks, four token pairs |
| `pa_parts`, on the bag | `AddsSum` | two tabs, two variants, six kinds of request, lines of up to three |
| on the account | `SpentLinksDead`, `DefaultKept`, `HistoryComplete`, `BadgeIsEarned` | two forms, two passwords and a sign-in; two addresses; two profiles, two measurement sets, three requests; one customer's order of one of two products, two reviews; two writers |
| on the rules | `TaxAddsUp`, `SlabExplainsRate`, `FacetsAgree`, `ScoreIsHonest`, `CentreIsBlurred`, `PublishedIsDestroyed`, `MeasurementsAgree` | prices at and around every threshold of both regimes, one or two lines; every storable garment; two detections in corners, cut off by the edge and overlapping on a 24 x 20 photo; up to two regions, two escalations; three garments, with what they require and with fields of other garments, each measurement low, middle, high or just out of range |

Why the bounds are enough. Each hazard takes two actors on one row (two sessions,
operators, tabs or requests), a third only where a winner, a loser and a
successor meet (`id_once`). Payment rows interact only through their order, so
two provider orders show a second payment and a third one a foreign order. Two
variants make a circular wait possible. On the account two addresses, two profiles,
three requests and two reviews of one customer show every step; what they promise
is proved for any number, and for any customers and back office (section 4). The
counters that are bounded are named in the constants: `MaxEvents`,
`MaxAttempts`, `MaxQuantity` (the code has this one too), `MaxPieces`, `MaxVisits`, `MaxRefills`,
`Requests`, `Changing`, `MaxFailures`, `MaxCrashes`, `MaxPairs`, `MaxClicks`,
`MaxChanges`, `MaxLogins`, `MaxRequests`, `MaxReviews`. Two failures let both jobs fail
once, or one use up its attempts; one crash suffices to lose or strand a job, and
the second worker goes on. Three clicks let a third request meet what two racing
ones left in the jar; after the customer has signed out, changed the password,
stayed away too long or lost an answer with new cookies (`disturbed`) nothing new
is sent, because only the clicks already under way are claimed anything of.
The rules are functions: the run asks them about the values on and around each
boundary in the code, and the theorems of section 4 about all values; `FaceBlur`
does not depend on scale but for rounding. Deadlock is not checked: in all of the
models everything may be finished. Waiting on one another is what `NoCircularWait` and the
liveness properties are about.

### Fairness

* `DeliverWebhook`, weak: the provider redelivers a webhook until it is
  accepted. `InitiateAborts`, weak: a call to the provider times out after ten
  seconds, so that the row it holds becomes free. Browsers and operators owe
  nothing.
* The steps of a checkout, weak, since a transaction goes on when the rows it
  needs are free; `PlaceLocksVariant`, strong, because PostgreSQL queues the
  waiters of a row lock.
* `MediaPipeline`, weak: workers loop, and the server answers what it was sent.
  Failures and crashes need not come, and a worker that crashed is started again.

### What the violated runs show

* `op_mismatch`: the webhook compares the captured amount with the order's and
  refuses; the verify view passes none, and confirms the same capture.
* `sb_review`: the drawer opens on the checkout page, and an edit during the
  review changes neither the cart at the server nor the quote. The order is the
  bag handed over, not the one on screen, which is then emptied.
* `md_lost`: a failed job is released before it is queued again. A worker that
  dies in the backoff takes the job with it, though `worker.py:85` says it is
  never silently lost. `JobLifeSpec` shows that this is the only way.

### Other disagreements

These are plain from the code, are permitted by the models, and are listed in
`PROJECT.json` as findings without a run where a document says otherwise.

* The back office may walk an unpaid order to REFUNDED
  (`orders/state_machine.py:5`).
* `place_order` compares totals: pieces of equal price may be exchanged between
  the review and the order (`CheckoutFlow.tsx:23`).
* A vendor's PATCH writes back the stock it read before a sale
  (`catalog/models.py:344`), and the badge it read before a callback.
* The second of two replacing merges adds to the first (`cart/services.py:134`), so
  that two tabs that enter checkout together may order more than either bag
  (`CheckoutFlow.tsx:23`). `NoLeftovers` says that this is the most that happens:
  the order is within the sum of the bags whose hand-overs overlapped.
* A request that read the cache before its twin finished may run the view
  again (`common/idempotency.py:11`). It orders what is then in the cart, so that it
  does harm only if the customer has filled a bag since.
* The `rejected` callback calls a method that does not exist, and the job ends
  in the dead letters (`worker.py:136`).
* An upload that overlaps a callback puts the settled status back
  (`media_assets/views.py:107`). `PublicWasBlurred` holds all the same.
* Two photos settling at once leave the badge at EXPOSED. `BadgeBacked` is the
  direction that holds: it is never worn too early.
* A tax-inclusive price between the two thresholds has no consistent rate, and
  the higher one is charged (`taxes/services.py:284`). `SlabExplainsRate` is
  stated for the prices that have one.
* The drawer lacks four of the server's coherence rules and takes a sleeve of
  length 0, and has a rule the server lacks (`FitDrawer.tsx:24`).
  `MeasurementsAgree` names the difference, so that any other would show.
* The drawer refuses the widest shoulder in centimetres, the 66.04 that it shows as
  the maximum, and takes it in inches (`lib/units.ts:47`).
* A tax quote for a day before the first regime is an error of the server, not of
  the request (`taxes/services.py:385`).
* A category moved under another parent leaves its descendants' paths behind
  (`catalog/filters.py:75`).
* The loser of a refresh race may retry before the winner's cookies have arrived
  (`client.ts:94`): the click fails, the session stays.
* A password change signs out the session that asked for it as well
  (`users/views.py:156`).
* Overlapping edits of a fit profile may lose a set from its history, deleting
  the profile deletes the history (`tailoring/models.py:142`), an edit leaves
  the tailor's attestation in place (`tailoring/views.py:76`), and a save that
  fails after the other default was cleared leaves no default.
* An update may point a verified review at a product its author never bought
  (`reviews/models.py:37`). `BadgeIsEarned` names such reviews (`moved`) and holds
  for all others.

Three more have no finding of their own: cancelling an
order releases no stock although `orders/state_machine.py:42` says it must
(`release_stock` has no caller); a cart handler that fetched the cart before
checkout retired it changes the retired cart (`cart/models.py:12` promises it
stays inspectable), which `Checkout` permits; and `set_quantity` raises a line of a
withdrawn variant (`cart/services.py:8` says every mutation validates), which
checkout later refuses. Nothing in the repository moderates a review: one stays
pending, visible to its author and the back office.

## 4. The proofs

`OrderPaymentsProofs` proves, for any sets of orders, provider orders, sessions,
operators and amounts and any bounds, under `ConstantsAssumption` only (foreign
ids are provider ids, the back office are operators, totals are amounts, and the
bounds are natural numbers):

* `TypeCorrect`, and `InductiveInvariant`: `Spec => []IInv`;
* from it `OnePaymentTheorem`, `HeldOrderTheorem`, `PaidOrderTheorem`,
  `CaptureIsBackedTheorem`, `TrailTheorem`, `DispatchedTheorem`, `MoneyTheorem`;
* `CapturedIsFinalTheorem`, the action property;
* `ImplementsContract`: `Spec => ContractSpec`, step by step.

None of the properties is inductive by itself. `IInv` adds what they rest on:
two sessions never hold one order (`LockExclusive`); an order under
`initiate()` is PLACED without a payment (`HeldOrderAwaitsPayment`), which is
why the row inserted after the call is the only one; rows and requests refer to
placed orders only; both capture events come with a capture; an order leaves
PLACED exactly once, by a capture or by an operator (`LeftPlacedOnce`); every
status beyond it except CANCELLED lies behind a confirmation
(`PastPlacedWasConfirmed`); and a confirmation by capture has its payment. The
argument runs through two lemmas: every step makes at most one legal move of one
order whose row is free (`OrderSteps`); and the payment rows change one at a
time, by an insertion for an order a session holds or by a new status backed by
the provider (`PaymentStep`, `RowUpdateKeepsPaymentInv`).

`IdempotencyProofs` proves, for any keys, requests and bodies:

* `TypeCorrect` and `ShownOrderTheorem` (an order shown is the one placed for
  that key and body), with or without requests that outlive their lock. The
  strengthening is `StoredOrdersAreReal`: a stored response names an order
  of its key and body, and only an order that was created is ever stored.
* `OneRunTheorem`: `OneRunAtATime`, assuming `~SlowRequests`. The strengthening is
  `HoldsLock`: from adding the lock to deleting it, a request is the one the
  lock names. `DeleteLock` does not look whose lock it deletes; this is why it
  need not, and why it would have to if a request outlived `LOCK_TTL`.

`MediaPipelineProofs` proves, for any photos, workers, attempts and bounds,
under `ConstantsAssumption` (each photo has one job on the queue, and at least
one attempt):

* `PublicWasBlurredTheorem`. The row alone does not say why it is safe: an
  upload may save a copy it read long ago. The invariant (`RowGood`,
  `UploadGood`, `CallbackGood`) says that every copy in flight was good when it
  was read, that good cannot turn bad, because a photo's nature does not change
  and an approval once given counts for ever, and that an upload carries only a
  blur of a photo with faces.
* `BadgeBackedTheorem`, with `BadgesGood` and the last conjunct of
  `CallbackGood`: a badge derived from uncommitted eyes is backed when it is
  committed, and so is the one in a vendor's copy.
* `TypeCorrect`: with the types, that a job is on the queue or in the hands of
  one worker. It needs `AttemptsLeft`, for what is queued again has an attempt
  left.
* `JobLifeTheorem`: `Spec => JobLifeSpec`, the refinement. What `JobLife` calls
  the life of a job is read off the places where it may be: the queue, the
  processing list, the dead letters, the hands of a worker. The invariant
  `Whereabouts` says that these places exclude each other the way the mapping
  needs: a job that is held is on the processing list until it is released, and
  is set aside while held only by a worker about to release it. Each step then moves one job
  (`ClaimMoves`, `ReleaseMoves`, `RetryMoves`, `BuryPoisonMoves`,
  `CrashMoves`) or none (`QuietSteps`).

`SessionProofs` proves, for any number of tabs, token pairs and clicks:

* `NoSelfSignOutTheorem`. The invariant `Calm` says of an undisturbed session
  that tokens on their way to the jar are blacklisted by nobody, carried by no
  request that may still present them, and differ from each other and from the
  jar's; and that a used-up token in the jar has a successor on its way. Its
  three kinds of step are lemmas: a step of one tab (`QuietStep`), one that issues
  a pair (`IssueStep`) and an answer that arrives (`JarStep`).
* `OneEffectTheorem`: a click has had an effect only while it is answered with
  something else than a 401, which is all the client sends again.

`CheckoutProofs` proves, for any customers, tabs, carts, catalogue and vendors,
under `ConstantsAssumption`:

* `OneOrderTheorem`: a held cart is active and held once (`CartHeld`), and an
  order's cart is retired and never returns, for the next bag is a new row
  (`CartsRetired`).
* `NoCircularWaitTheorem`: every checkout holds variants that come before those
  it still has to lock (`LocksInOrder`), so that among checkouts that all wait,
  the one whose next variant has the greatest key waits for a holder that goes on
  to a greater one, a contradiction; the greatest key is a minimal set of variants
  above it, by the well-foundedness of the strict subsets of a finite set.
* `TypeCorrect`: no stock goes below zero, because what a checkout takes it has
  locked and looked at (`Counted`).
* `StockTheorem` and `SalesTheorem`: `StockConserved` and the refinement of
  `Sales`, for behaviours in which no vendor saves a variant
  (`[][NobodySaves]_vars`). A vendor's save writes the stock it read back over
  the sales of meanwhile, which is a finding, and neither property survives it;
  prices, listings and bags may change all the same. `co_stock` has no vendor
  for this reason.

The last two are about sums over the lines of all orders, and a sum is defined
by a fold, which the provers cannot unfold for a set of unknown size.
`SumTheorems` counts instead: a sum of natural numbers over a finite set is the
cardinality of the set of its units, the pairs of an element and a number below
its value (`UnitsAreSum`), and cardinalities are what `FiniteSetTheorems` is
about. That a sum changes by what one element changes by (`SumStep`) is then a
bijection, and that a sum may be taken group by group (`SumByGroups`) an
induction over the subsets of a finite set, as a minimal counterexample
(`SubsetInduction`).

`PartsProofs` proves of `Bag`, for any tabs, variants and requests:

* `BagTypeCorrect`: no line leaves its limits;
* `AddsSumTheorem`. The invariant (`LineGood`) says of every line a transaction
  has written that it is, at any moment until the commit, the clamp of what is
  committed *now* and what was added; it is inductive because rows are written
  by one transaction at a time (`OwnApart`), because an insert finds neither a
  committed row nor one of its own (`InsertGood`), and because clamping at every
  addition is clamping once at the end (`ClampLaws`). A merge that replaces is
  left out, as in the property: the row it counted as deleted may be written anew.

`StorefrontBagProofs` proves `TypeCorrect`, `NoLeftoversTheorem` and
`OncePerHandOverTheorem` for any tabs, variants and bounds. From the first
hand-over on the cart is within what was handed over (`CartWithinBag`). That a
commit keeps it so needs a claim about every replacement still under way: the
lines in the cart that its snapshot does not hold are within what others have handed
over since it began (`UnseenAreNew`), for to these its own bag is added. Nobody
orders before a hand-over (`VisitsCounted`), and a cart with lines in it has not
been ordered since it was handed over (`CartUnordered`), since an order retires it
and replacements of a retired cart reach no order.

`PartsProofs` proves of `MCAccount`, under `SetsAssumption` (0 is no measurement
set: it stands for none) and `OrdersAssumption` (the back office are users, and
an order has a buyer among them and products):

* `SpentLinksTheorem`: what a link remembers is a password the account has or
  had, or an address that was unverified; passwords and verification move
  forward only, so that a link is `Outdated` for good by the save that used it,
  whatever other forms opened before.
* `DefaultKeptTheorem`, an action property. The invariant `BookGood`: whoever
  has cleared a default will save one of that kind; the rows it cleared are
  still the committed defaults of the kind, which is what an undo leaves; and
  two writers have cleared different rows.
* `HistoryTheorem`. A profile's numbers and its revision rows are written by
  four separate steps, so that the invariant `FitsGood` has a part for every
  point at which a writer may be (`JobGood`): the number it
  counted leaves no gap, and an edit that is alone saves over a set only once a
  revision records it. Profiles whose edits overlapped and those a late edit
  brought back are outside the property, and findings.

* `BadgeTheorem`. `BadgeIsEarned` of the table is not enough: a create carries
  the purchase it found and an update a whole row, for as long as their requests
  take. The invariant `PostsGood` says of both that they are as good as a row in
  the table (`PostGood`), which later moves of the order cannot undo, since
  `delivered` only grows; and that the row in an update which moves
  nothing is about the product bought, unless the review was moved before.

`PartsProofs` proves of `Rules`, under `RulesAssumption` and `PhotoAssumption`
(a photo has pixels), for every question of the constants' types. A behaviour is
one step long; the invariant `RulesInv` says that an answer is the rule's
answer to the question, and the work is in the lemmas about the rules.

* `TaxTheorem`: a quote's books balance. A line's taxable value is a natural
  number and the half of the state is what the centre's leaves of the whole tax
  (`LineTaxed`, `TaxRounding`), so that a line is taxed alike at home and away
  (`SameTax`), the shipping line, whose rate follows the goods, too
  (`SameCourier`); sums over the lines are those over the rates
  (`TotalsOf`, from `SumByGroups`).
* `SlabTheorem`: the two candidate rates are ordered, so that the value under
  the higher one is the lower; each branch of the code then charges
  a consistent rate if there is one (`SlabExplains`).
* `FacetsTheorem` and `ScoreTheorem`, over all garments: the badges one by one
  (`BadgeFields`); a rank in each order (`Ranks`), a score that is monotone in
  every rank (`ScoreMonotone`, `CoversMore`), rounding half to even keeps the order
  (`RoundingMonotone`), and at both ends and in the middle of the scale its
  bounds are met (`ScoreBounds`).
* `DestroyedTheorem`: a loop that stops at its first success, written as the
  least element of the set of successful escalations (`FirstOf`, `BlurOutcome`).
* `MeasurementsTheorem`: a length is the same number of ticks in either unit
  (`SameTicks`), the drawer's rules come out alike wherever rounding does not decide
  (`DrawerOfUnits`), and what the drawer lets through breaks none of the server's rules
  but the named ones (`DrawerIsServer`).

Only model-checked are:

* liveness under fairness (`CaptureIsRecorded`, `PlacementAnswered`, `JobEnds`),
  which is outside the prover's reach;
* `CentreIsBlurred`. Which boxes are kept is a fold over the detections sorted by
  size, so that the claim for every list is an induction over data; and whether a
  dropped box's centre lies in a kept box's ellipse is a question of products of
  coordinates, divided and rounded. The run asks it about every pair of a
  set of boxes. It does not hold for faces of a few pixels, and `SmallestFace`
  says so: on a photo of 20 by 20 pixels, a box of 8 by 6 at (1, 14) is
  dropped for one of 5 by 13 at (1, 7), whose ellipse ends short of its centre:
  in boxes this small the margin is rounded away.

## 5. Not modelled

Each component left out is listed in `PROJECT.json` with its reason: configuration,
e-mail and rendering; permissions (stateless checks) but for those that decide
about orders and reviews. Of what the modules cover,
these are abstracted: text, addresses beyond their identity, signatures and
HTTP, e-mail, serialisation, permissions other than the back office's, and
pagination. Pixels and the face detector are inputs.

## 6. Plan

1. A composition of the stepper with `Checkout`: the old quote with an edited
   address, and cancellation with the stock it should release.
2. `CentreIsBlurred` for every pair of detections, as a lemma about one kept and
   one dropped box.
