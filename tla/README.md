# FarmCircle: TLA+ specification

FarmCircle is a single-grower produce marketplace: a NestJS API (`src/api`) over
PostgreSQL (Prisma), MongoDB, Redis and Razorpay, and a Next.js client
(`src/web`).  This directory models the API's operations on stock, money, sessions,
crops and batches and the client's pages that act on them, checks the models with
TLC, and proves the main results with TLAPS.

## 1. The system

| Part | State it keeps | Operations | Interacts with |
| --- | --- | --- | --- |
| Orders (`order/`) | `Order`, `OrderIntent` rows; Mongo status history | create (cash or prepaid), advance, cancel, dispute | Inventory (stock in the same transaction), Payments |
| Payments (`payment/`) | `Payment` rows | payment intents, signature check, webhook | Razorpay calls back; writes orders, pre-bookings, stock; clears Redis holds |
| Inventory (`inventory/`) | `Listing` rows, Mongo content | create, draft for a batch, set terms, update, close | Orders, Batches, Redis counter (read) |
| Pre-booking (`prebooking/`) | `PreBooking` rows; Redis queue counter and 48 h holds | create, cancel, expiry job | Redis, Inventory, Payments |
| Batches (`batch/`) | `Batch`, `BatchMilestoneProgress`; Mongo activity log | create, advance milestone, confirm harvest, timeline | Cycles (snapshot), Inventory and Pre-booking (harvest) |
| Cycles (`cycle/`) | `Cycle`, `Milestone` | create, edit, delete | Batches |
| Catalog (`catalog/`) | `Crop`, `Variety` | create, edit, delete | Cycles, Batches, Inventory |
| Sessions (`auth/`, `users/`) | `User`, `RefreshToken` | register, login, refresh rotation, logout, Google sign-in, suspend, cleanup job | all guarded routes |
| Reviews (`review/`) | `Review` | create, hide, unhide | Orders (only fulfilled ones) |
| Web client (`web/`) | what each page shows, its busy flags, dialogs, editors | load, click, confirm, edit | calls the API; a silent refresh runs under it |
| Shell, health, CI | none of its own | | |

What is hard in it.  Every handler is a sequence of awaits.  Between two of them
any other handler may run, so a value read early may be stale when it is used.
Some writes are conditional on the row (`status in ...`, `availableQuantity gte`)
and some are not; some are backed by a unique index or a foreign key, some by
nothing.  Razorpay delivers its webhook at least once and may do so
concurrently.  A harvest, an expiry job, a vendor's cancel and a late payment
race for one pre-booking.  Redis and Mongo are written outside the SQL
transaction, so a process that stops leaves them behind.  A page keeps a copy of
rows that others change, and its own loads and answers may cross.

What makes each part correct:

* Orders: stock is never sold twice or given back twice; a status only moves one
  step along its path; the audit trail has each status.
* Payments: captured money is recorded and becomes an order unless the stock ran out;
  only deliveries that overlap can make a second one.
* Pre-booking: the counter equals the quantity in the queue and stays under the
  cap; each row ends confirmed with one order, or expired, or cancelled; the holds in
  Redis and the history in Mongo agree with the rows.
* Batches: nothing is sold before it went through every milestone, and the template
  of a batch outlives it.
* Sessions: a refresh token has one successor, a suspended user has none.
* Catalog, Reviews: uniqueness, ownership and in-use checks hold against races.
* Web client: a page shows what is stored, sends a request once, offers what the API
  accepts, and nothing turns for ever.

## 2. Modules

| Module | Models |
| --- | --- |
| `Orders` | direct orders, their payment and the stock of one listing |
| `Checkout` | abstract specification of a prepaid checkout: drafted, offered, paid once, kept on record, made into orders by the attempts to confirm it |
| `OrdersRefinement` | the mapping under which `Orders` implements `Checkout` |
| `PreBookings` | the pre-booking queue of one batch, harvest, payment, expiry, and the listing it shares with direct sales |
| `Sessions` | accounts, sign-in, refresh rotation, reuse detection, logout, suspension, clean-up job |
| `Growing` | cycle templates, milestones, batches with their snapshot, advance, draft, harvest |
| `Catalog` | crops, varieties, the rows that use them, reviews |
| `WebScreens`, `WebPages` | the pages of the web client as data, and one visit to one of them |
| `OrdersProofs`, `OrdersStepProofs`, `PreBookingsProofs`, `CapacityProofs`, `SessionsProofs`, `GrowingProofs`, `CatalogProofs`, `WebPagesProofs` | theorems |
| `MCOrders`, `MCPreBookings`, `MCSessions`, `MCGrowing`, `MCCatalog`, `MCWebPages` | instances for TLC |

The parts meet at rows.  A stock figure is shared by `Orders`, by `PreBookings` (with
`DirectSale` and `UpdateListing` for the rest of the shop) and by the grower's edits.
A harvest links `Growing` to `PreBookings`.  A delivered order links `Orders` to the
reviews of `Catalog`.  The web client drives all of them through the endpoints listed in
`WebScreens`, whose moves are those of the modules of the API.

## 3. How the code is read

* **Steps.**  A handler is cut at every `await` that touches a store.  One
  statement is one step, and so is one `$transaction`: PostgreSQL runs at READ
  COMMITTED, and a transaction keeps the locks of the rows it writes until it
  commits.  `req[r]` is what request `r` still has to do, with the local variables
  it needs for it.
* **Conditional writes.**  `update({ where: { id, status: ... } })` tests and
  writes in one step, as the comment at `orders.service.ts:60-63` says.  It is the
  unconditional writes, `update({ where: { id } })` after a separate read, that
  open races, and they are modelled as such.
* **The harvest transaction** reads the queue between its first write and its
  commit, so it is two steps, `HarvestScan` and `HarvestTx`.  In between it holds
  the row locks of batch and listing (`RowsLocked`), so other writers of these rows
  wait, while a cancel of a pre-booking may commit.
* **Crashes.**  `Abort` ends a request at any await; what it has committed stays.
* **Razorpay** is external: an order can be paid once the buyer was given it, the
  capture happens once, the webhook comes any number of times afterwards, also
  while an earlier delivery is still handled (`MaxDeliveries`).  Signatures cannot
  be forged, so a verification happens only after a capture.
* **Data.**  Quantities are whole numbers.  Prices, addresses, names and the retail
  ceiling only reject requests; any request the model makes is one that passes them.
* **History variables.**  They are written only to state properties and no guard of
  the code's actions reads them, with one exception.  `overwritten` has the rows whose
  status was changed by a write that did not look at it: no action of `PreBookings` reads
  it, but in `Orders` it bounds the model, because an order could otherwise be cancelled
  and revived for ever.  In `Orders`, `made` has the orders each payment was made into,
  `overlap` how many of its deliveries were at most at work together, and `short` the
  payments a webhook found too little stock for.  In `WebPages`, `contested` has the busy
  flags under which requests for two rows met.  `undescribed` (`Growing`), `missed` and
  `contested` (`Sessions`) and `overtaken` are explained with the races and proofs below.
* **Constraints.**  A unique index or a foreign key of `schema.prisma` is part of the
  step that writes: the step changes no row, and the request ends in the error the code
  makes of it.  In `Growing` and `Catalog`, where no handler catches some of them, the
  request goes on to the exception filter's 500 (`Failed` and `Answer`, `Reply`).  An
  identifier is never used twice, so a row that is gone does not come back.
* **Reads of one handler** that follow each other without a write in between are one
  step where this changes nothing: rows never come back, and the write looks again.
* **Fault variants.**  Definitions named `<definition>_<fault>` are not used by any
  action.  Each is a definition with one plausible fault, and each property is
  violated when the definition is replaced by one of them.

### Orders

| Code | Actions |
| --- | --- |
| `OrdersService.create` | `StartCreate`, then `CodTx`, or `CreateIntent` and `CreatePayment` |
| `PaymentsService.verifyOrderIntentPayment` | `VerifyPayment` |
| `PaymentsService.handleWebhook`, `confirmOrderIntentPayment` | `Deliver`, `HookRead`, then `HookTx` or `HookShort` |
| `OrdersService.advanceStatus` | `StartAdvance`, `Advance` |
| `OrdersService.cancel`, `dispute` | `StartCancel`, `CancelTx`; `StartDispute`, `DisputeTx` |
| `logStatusChange` and the webhook's history entry | `Log` |
| `ListingsService.update`, `close` | `UpdateListing`, `CloseListing` |

### PreBookings

| Code | Actions |
| --- | --- |
| `PreBookingsService.create` with the Lua script | `StartCreate`, `Reserve`, `BookRow` |
| `PreBookingsService.cancel` | `StartCancel`, `CancelRow`, `CancelRelease` |
| `BatchesService.confirmHarvest` | `StartHarvest`, `HarvestScan`, `HarvestTx`, `SetHolds` |
| `createPreBookingPaymentIntent` | `StartIntent`, `PayCreate`, `RzCreate` |
| `verifyPreBookingPayment` | `StartVerify`, `Verify` |
| `handleWebhook`, pre-booking branch | `Deliver`, `HookRead`, `HookTx`, `HookRecord`, `HookLog`, `HookClear` |
| `expireOverdueHolds` | `StartSweep`, `SweepRow`, `SweepRelease`, `SweepClear` |
| the 48 hours | `HoldElapses` |
| listing edits and direct sales | `UpdateListing`, `CloseListing`, `DirectSale` |

### Sessions

| Code | Actions |
| --- | --- |
| `AuthService.register`, `login` | `StartRegister`, `RegisterRow`; `Login`, `Issue` |
| `validateGoogleUser`, `loginWithGoogle` | `GoogleById`, `GoogleByEmail`, then `GoogleLink` or `GoogleSignUp`; `Issue` |
| `refresh` with its reuse detection | `StartRefresh`, then `RefreshUser`, `Rotate`, `Issue`, or `RevokeAll` |
| `JwtStrategy.validate` and `logout` | `StartLogout`, `LogoutRow` |
| `cleanupStaleRefreshTokens`, time to live | `CleanupStaleRefreshTokens`, `Expire` |
| `UsersService.suspend`, `reactivate` | `StartSuspend`, `SuspendRow`, `RevokeAll`; `StartReactivate`, `ReactivateRow` |

A client presents any token it was given, as often as it likes: tabs share one cookie,
and the comment at `auth.service.ts:103-108` counts with double submission.  The
history variables of this module are written by `Observe` alone, from the step before
and after, so the actions are the code and nothing else.

The initial state of `PreBookings` is a batch at its final milestone with a draft listing:
`createDraftFromBatch` asks for that milestone, and `create` asks for the draft.

### Growing

| Code | Actions |
| --- | --- |
| `CyclesService.create`, `remove` | `CreateCycle`; `StartRemoveCycle`, `RemoveCycleTx` |
| `MilestonesService.create`, `update`, `remove` | `StartAddMilestone`, `AddMilestoneRow`; `StartReorder`, `ReorderRow`; `StartRemoveMilestone`, `RemoveMilestoneRow` |
| `BatchesService.create` with its snapshot | `StartPlant`, `PlantTx` |
| `BatchesService.advanceMilestone` | `StartAdvance`, `AdvanceTx` |
| `BatchesService.confirmHarvest`, rows of batch and listing | `StartHarvest`, `HarvestTx` |
| `ListingsService.createDraftFromBatch` | `StartDraft`, `DraftRow`, `WriteContent` |
| `ListingsService.update`, the content | `UpdateContent` |
| `BatchesService.getTimeline`, who may see it | `TimelineShown` |
| a constraint refuses a write and no handler catches it: the exception filter's 500 | `Failed`, `Answer` |

`confirmHarvest` is modelled twice, each time whole: `Growing` has any batch and no
pre-bookings, `PreBookings` one batch at its last milestone and all of its pre-bookings.

### Catalog

| Code | Actions |
| --- | --- |
| `CropsService` | `StartCreateCrop`, `InsertCrop`; `StartRenameCrop`, `RenameCropRow`; `StartRemoveCrop`, `DeleteCropRow` |
| `VarietiesService` | `StartCreateVariety`, `InsertVariety`; `StartRenameVariety`, `RenameVarietyRow`; `StartRemoveVariety`, `DeleteVarietyRow` |
| the lookups of `create` for cycles, batches, listings and drafts | `StartCycle`, `StartBatch`, `StartListing`, `StartDraft`, `InsertUse` |
| `ReviewsService` | `StartReview`, `InsertReview`; `StartHide`, `StartUnhide`, `WriteHidden` |
| what happens to an order, as far as reviews care | `Advance`, `Dispute` |
| the exception filter's 500 | `Reply` |

Cycles are not deleted here, but in `Growing`.  Orders are `OPEN` or `FULFILLED`; an order
goes back to `OPEN` by a dispute and may be `FULFILLED` again by a stale advance, as
`Orders` has it.

### The web client

`WebScreens` is data: for each page how it loads, which handlers its buttons and forms
call, for which statuses a button is shown, which moves the endpoint behind it accepts,
whether the handler asks in a dialog first, and what the page does with the answer (an
answer may be `bare`, without the relations the page renders).  `WebPages` is the behaviour that all pages
share, a `useEffect` that loads, `useState` flags and handlers of the same build.

| Code | Actions |
| --- | --- |
| the effect that loads, its cleanup, `load()` after a handler | `StartLoad`, `ReadLoad`, `AnswerLoad`, `FailLoad` |
| a silent refresh of the access token runs the effect again | `Refresh` |
| `onClick`, `onSubmit`, `disabled={...}` | `Click`, `Offered`, `SeenBy`, `Enabled` |
| `await confirm(...)` | `Confirm`, `Dismiss` |
| the row editors | `StartEditing`, `StopEditing` |
| the API behind the call | `Serve` |
| the `try`, `catch` and `finally` of a handler | `Succeed`, `Fail`, `Settle` |
| other users, other tabs, jobs | `Elsewhere` |

A page and its users are one visit: leaving it and coming back starts anew.  A dialog is
modal; a handler looks at its flag before the dialog and sets it after the dialog was
confirmed.  A request remembers the status the user saw when it was clicked, which is that
of the row's copies on the page.  The listings page has its editor in a panel, which stays
open for a row that a later load leaves out; only then was no status seen.  A row is a status and one bit for the rest of its data, which each edit flips;
relations that the page renders and an answer may lack are the field `whole` of a copy.

## 4. Runs

`tlc -workers 2 -config <cfg> <module>`, with the module named in `PROJECT.json`.

| Run | Instance | Shows |
| --- | --- | --- |
| `orders_stock` | 2 orders, cash or prepaid, 1 intent, 2 requests, overlapping deliveries, room for one order | stock moves only with its order, never below zero; statuses change legally; the audit trail is complete; a payment makes no more orders than deliveries overlapped on it; the prepaid checkout implements `Checkout` |
| `orders_live` | 1 order, 1 intent, 2 requests, overlapping deliveries, stock edits, 1 crash | captured money is recorded in the end and an order made for it unless the stock ran out; rows stay linked and orders on their path |
| `prebook_queue` | 2 bookings of 1 for room for 1, 2 requests | the counter is exact, stock is not oversold, the side stores agree |
| `prebook_life` | 1 booking, 2 requests, overlapping deliveries, 1 crash | a booking ends once, is confirmed only for captured money, awaits payment not for ever; captured money is recorded |
| `sessions` | 1 account, 3 tokens, 2 requests, crashes unbounded | a refresh token is spent once; a suspended account is signed out |
| `growing` | 1 cycle, 2 milestones, 2 batches, 2 requests, crashes unbounded | nothing is listed, harvested or shown before its time; the template outlives its batches |
| `catalog` | 2 growers, crops, varieties and reviews, 3 cycles, batches or listings, 1 name, 2 requests | nothing is orphaned or mismatched; a request nobody overtook does not end in a 500; one review for each order |
| `web_pages` | 17 pages, 2 rows on the seven that are plain lists, 1 on the others, 2 calls, 2 loads | the page is true to what is stored; no double submission; only what the API accepts is offered, but for two forms; rows keep their relations; nothing stuck |

Why these bounds.  Each race of this code is between two handlers of one row; what a
third one would add (a job, a crash) comes from the actions that need no
slot, the crashes and the rerun of the two.  Two rows let one handler take what another
one gave back, and let a name, an index or a draft be contested; three uses are a cycle,
its batch and the draft of that batch.  Two deliveries of one payment
(`MaxDeliveries = 2`) are as many as there are requests, so all of them may overlap.
Two milestones are enough for an advance to be
overtaken by the next one.  On a page, two loads and two calls cover an answer that
crosses another and a reload that crosses a handler.  Order ids, intents, bookings,
tokens, milestones, batches, catalog rows and request slots are interchangeable, and the
safety runs use that symmetry; the liveness runs do not.  Where the grower's edits go
below what is in stock, every stock test in the code comes out both ways.

Bounds on the model itself: `MaxAborts` (crashes, where they are not free);
`MaxDeliveries` (webhook deliveries of one payment handled at a time); `MaxOrder` (milestone
numbers); `MaxCalls` and `MaxLoads` (requests of a page under way); the finite id sets,
at whose end `OutOfIds` (Orders) ends a request and the inserts of the other modules
are not enabled; and `overwritten`, above.

Runs that end in a violation, each of a sentence in the repository (quoted in
`PROJECT.json`, `findings`):

| Run | What happens |
| --- | --- |
| `orders_retries` | two deliveries of one payment overlap, both find it without an order and make one; the payment keeps the later order, the other has no payment |
| `orders_lost_stock` | the webhook writes the stock it read before the transaction, minus its quantity: a sale in between is lost |
| `prebook_late_queue` | a create overtaken by the harvest stays queued for good |
| `growing_milestone_kept` | a milestone no batch has reached is removed; the foreign key of a batch that tracks it refuses, and the request ends in a 500 |

Races that the properties name as their exceptions, so that they hold:

* a status write whose read is older than a cancel revives the order
  (`StaleStatusWrite`, `StaleStockWrite` in `Orders`);
* two overlapping deliveries of one payment make two orders, of which the payment keeps the
  later (`orders_retries`): `OnlineOrdersPaid` and `Checkout` allow as many orders as deliveries overlapped, so what
  they exclude is a second order from a delivery that comes after the first is done;
* two payment intents at once for one pre-booking: the second Razorpay order replaces
  the first in the row, and money paid for the first is never recorded (the second
  alternative of `CaptureIsRecorded`);
* a vendor's cancel or a harvest writes over a pre-booking whose status it did not look
  at (`StaleWrite`, `overwritten`): a booking that awaits payment, or was paid, is
  cancelled, and its capacity released although it may live on;
* two harvest confirmations that both pass the check both commit, one after the other
  (`HarvestInFlight`), and the second resets yield and stock;
* a gap in the milestone numbers stops a batch: `advanceMilestone` asks for the next
  number, draft and harvest for the highest one (`Following`, `Finished`);
* a draft whose request dies after the SQL row has no content, and the retry is refused
  because the listing exists (`undescribed`);
* refreshes that read a token before either of them wrote (`contested`), sign-ins
  overtaken by a suspension (`overtaken`), tokens a suspension missed (`missed`);
* a write of the catalog that another request overtook ends in a 500 instead of the 404
  or 409 it would have got (`overtaken`);
* on the pages that act on the rows of a list one flag (`RowHandler`, `busyId`) holds the id
  of the row whose request is under way, for all rows: a request for a second row takes it over, and its answer frees the first row's
  button (`NoDoubleSubmit` allows this only for such a flag, and only once requests for two
  rows met under it, `contested`);
* two forms offer more than the API takes (`OffersMore`), and these two alone are excepted
  from `RefusedOnlyIfOvertaken`.  "Close listing" stays in the editor of a listing shown as
  closed (`grower/listings/page.tsx:538`), the page speaks of closing any listing of its list
  (`:426`), and the API answers 409 (`listings.service.ts:251`).  The administrator's page
  calls its select an override of the status (`admin/orders/[id]/page.tsx:199`) and offers
  every status, while `DisputeOrderDto` takes `CANCELLED` alone, and not for an order that is
  cancelled (`orders.service.ts:292`);
* two answers come without relations the page renders.  That to a new listing has no crop and
  variety and is put into the list as it is, so the row shows a dash until the next load
  (`grower/listings/page.tsx:153`).  That to a cancelled pre-booking has no batch and takes
  the place of the row (`vendor/prebookings/page.tsx:77`), whose rendering reads the batch's
  names (`:119`) and throws.  `RelationsKept` leaves out the second page and names the first
  answer as the one way a row comes without its relations on the others;
* a dispute cancels an order in any status but `CANCELLED`, also one that was handed over,
  and its stock is offered again (`orders.service.ts:292-310`), which the comment of
  `dispute-order.dto.ts:4-6` calls nonsensical: `LegalChange` allows it;
* a row of a page that somebody else changed, or whose answer was lost, is `excused` until
  the page reads again.

`CHECK_DEADLOCK FALSE` is set only in some of these runs, whose small instances really stop
(for instance a closed listing with nothing left to do, or a catalog out of ids).

## 5. Fairness

`FairSpec` of `Orders` and of `PreBookings` assumes: a handler that has started keeps
running (`WF` of `Continue`; Node runs its callbacks); Razorpay repeats a delivery until
it is acknowledged (`SF` of `Deliver`: a delivery is possible only while a slot is free,
again and again; in `Orders` a delivery is acknowledged when it made an order or found
too little stock, `short`); the `@Cron` job starts every minute (`SF` of `StartSweep`); and 48 hours
pass (`WF` of `HoldElapses`).  Nobody is obliged to order, pay, cancel or edit.  Crashes
are bounded by `MaxAborts`: a system whose every attempt dies makes no progress.
`Sessions`, `Growing`, `Catalog` and `WebPages` make no liveness claim and assume no
fairness; `NothingStuck` states as an invariant what a page needs in order to go on.

## 6. What is proved

`tlapm <module>` for the modules below; for all sets of ids, requests and
quantities that satisfy the named assumptions of the module they are about (positive
quantities, natural bounds, `None` not an id, finite sets where something is counted).

| Module | Theorem | States |
| --- | --- | --- |
| `OrdersProofs` | `TypeCorrect` | `Spec => []TypeOK` |
| | `PaymentChainHolds` | `Spec => []PaymentChain` |
| | `NeverOversold` | `Spec => []NoOversell` |
| | `OnPath` | `Spec => []FulfilmentPath` |
| | `PaidOnce` | `Spec => []OnlineOrdersPaid` |
| `OrdersStepProofs` | `StockConserved` | `Spec => StockFollowsOrders` |
| | `StatusLegal` | `Spec => LegalUnlessStale` |
| | `AuditTrail` | `Spec => []AuditComplete` |
| | `PrepaidCheckout` | `Spec => ImplementsCheckout` |
| `PreBookingsProofs` | `PreBookingsTypeCorrect` | `Spec => []TypeOK` |
| | `NeverOversold` | `Spec => []NoOversell` |
| | `ConfirmedOncePaid` | `Spec => []ConfirmedIsPaid` |
| | `OneHarvest` | `Spec => []HarvestInFlight` |
| | `SideStores` | `Spec => []SideStoresAgree` |
| | `LifecycleKept` | `Spec => BookingLifecycle` |
| `CapacityProofs` | `CounterCoversQueue` | `Spec => []CapacityHeld` |
| `SessionsProofs` | `TypeCorrect` | `Spec => [](TypeOK /\ RowsExist)` |
| | `EntryChecked` | `Spec => []NoEntryWhileSuspended` |
| | `SignedOut` | `Spec => []SuspendedIsSignedOut` |
| | `TokensSpentOnce` | `Spec => []SpentOnce` |
| `GrowingProofs` | `GrowingTypeCorrect` | `Spec => []TypeOK` |
| | `StagesReached` | `Spec => []ReachedPrefix` |
| | `SoldWhenGrown` | `Spec => []GrownBeforeSold` |
| | `TemplateStays` | `Spec => []TemplateKept` |
| | `PublishedForever` | `Spec => PublishedStays` |
| | `DescribedOrDied` | `Spec => []DescribedUnlessDied` |
| `CatalogProofs` | `CatalogTypeCorrect` | `Spec => []TypeOK` |
| | `NoOrphans` | `Spec => []NoOrphan` |
| | `RowsAgreeAlways` | `Spec => []RowsAgree` |
| | `ChecksSuffice` | `Spec => []ErrorOnlyIfOvertaken` |
| | `ReviewedOnce` | `Spec => []OneReview` |
| `WebPagesProofs` | `PagesTypeCorrect` | `Spec => []TypeOK` |
| | `PagesShowTheStore` | `Spec => []ShownIsStored` |
| | `OffersAreHonoured` | `Spec => []RefusedOnlyIfOvertaken` |
| | `RowsKeepRelations` | `Spec => RelationsKept` |
| | `PagesGoOn` | `Spec => []NothingStuck` |
| | `SubmittedOnce` | `Spec => []NoDoubleSubmit` |

**Orders.**  `TypeOK` and `FulfilmentPath` are inductive (the second relative to the
first).  `OnlineOrdersPaid` is not: it says nothing of the requests that are about to
write.  `PaymentChain` adds them.  It fixes the order of the rows (`RowsLinked`), gives
each intent one request that will write its payment (`CheckoutInFlight`) and makes
each webhook handler work on captured money with stock it has seen (`HookInFlight`).
The stock of `HookTx` is an absolute figure, so that last part is also what
`NoOversell` rests on.  For `PaidOnce`, with any number of overlapping deliveries,
`DeliveriesCounted` says that the orders a payment was made into and the deliveries still at
work on it are together no more than overlapped: once it has an order no delivery starts
(`NoOrderYet`), and each that is at work makes one more at most.  `OneMaker` says that
each prepaid order was made of one payment alone, and that the payment's row names one of
its orders.  The two action
properties follow step by step from the invariants.  `AuditComplete` is about quiet states
only; `AuditInFlight` says of the others that a status not yet in the history has a request
about to log it.

**Checkout.**  From `TypeOK`, `PaymentChain` and `DeliveriesCounted` each step of `Orders` is
one step of `Checkout` or leaves the mapped variables alone.  `Attempt` is a delivery that
overlaps more others than any before; `Make` is `HookTx`, whose own delivery is among those
counted, so that there was an attempt left for its order.  Of the other actions that touch
a payment, `RowsLinked` tells which stage it leaves.

**PreBookings.**  `Inv` is `TypeOK`, `NoOversell`, the captured money being of a Razorpay
order that was made, a webhook past its reads working on captured money (`HooksPaid`),
`ConfirmedIsPaid` and `HarvestInFlight`.  The last is what keeps a harvest from putting a
confirmed booking up for payment again, and so what `ConfirmedIsPaid` rests on.
`SideStoresAgree` follows from two invariants about the steps in between: an order missing
in the history has a webhook about to write it (`LogInv`); the job works only on bookings
past their 48 hours, and a booking inside them without a hold is one the harvest is about
to give it to (`HoldInv`), so nobody else takes a live booking's hold away.

`CapacityHeld` compares the counter with three sums.  `CapInv` restates them as two, over
weights that are functions of the state: what each live booking asks for (`Wanted`) and
what each request holds for a row it has not written yet or has to release (`Held`).  A
step changes the weight of at most one request and one booking (the harvest moves many, but
between statuses that weigh the same), and `SumMoves` says what the sums become.  `ReleaseInv` adds that a release names a row that
exists.  The sums are those of the community modules, defined by a recursive function over
subsets; what the proof needs of them (`SumFacts`: the empty sum, one element more) is
proved by looking at a smallest subset for which it fails (`MinimalSubset`).

**Sessions.**  Types alone are not inductive: `Rotate` takes the owner from the token's
row, so `RowsExist` says that a continuation only names rows that were inserted.  What
a step may do is then put in four formulas (`AccountStep`, `TokenStep`,
`RevocationStep`, `EntryStep`), each proved action by action, and the two invariants
about suspension follow from the four: whoever enters a suspended account had entered it
before it was suspended, so `Observe` has it in `overtaken`; hence a token that becomes
live for a suspended account is in `missed`.  `SpentOnce` counts rows and requests
together; `SpendInv` bounds each kind: a token that is live has no heir and none on the
way, and an uncontested token that is revoked has nobody who read it before.

**Growing.**  `Inv` adds to `TypeOK` that rows are consistent (`RowsInv`: numbers of one
cycle differ, so do those of a batch; what is planted has its template) and that each
continuation still fits the rows it was made from (`Sound`): the milestones before the
one it advances to were reached, what it lists or harvests has been through all of
them.  `GrownBeforeSold` holds although `AdvanceTx` may set the number back, because
`reached` only grows.

**Catalog.**  `Inv` has the same build.  The interesting part is `Fresh`: a request that
is not overtaken still passes the constraints of the schema when it writes, which is
what `ErrorOnlyIfOvertaken` says once it is answered; it fails as soon as a check of
`remove` counts less than the foreign keys refuse.

**Web client.**  The proofs have two halves.  The first is about the data of `WebScreens`,
page by page and button by button: `Sound` says what the behaviour takes for granted of a
button.  Its endpoint moves between known statuses; what the handler does with the answer
(replace, merge, remove, add, move, note, mark) suits the moves of the endpoint, so that it
turns the copy of the row before the call into the copy of the row after it (`Suits`,
`AnswerShows`); the statuses it is offered for are statuses the endpoint accepts
(`Mirrors`), but for those of `OffersMore`; an answer without relations is merged, but for
that of a new listing.  `PagesSound` has it for all seventeen
pages, `SoundHere` for the one that is open.

The second half is inductive, over `PagesInv`:

* `LoadsInv` and `CallsInv` tie the spinner to the loads and the busy flags to requests and
  dialogs: while a dialog is open its button stays enabled, because the dialog is
  modal.  A flag that is not `contested` names the row of the one
  request under it, and only flags that hold a row's id are ever `contested`.
* `TypeInv` adds to `TypeOK` what is under way: loads, requests, answers, the question of a
  dialog, for whose request there is room.
* `OfferedInv`: each question and request was offered for the status the user saw.  The
  editor panel of the listings can outlive the copy of its row; `PanelInv` says that a row
  that is absent there was never on the page, in a load or in a request, which holds as
  nobody removes a listing.  With `Mirrors`, a refusal means that the
  row moved on.
* `ShownInv`, for the rows not excused: a guarded effect has one load under way; what a load
  read is still stored, and while a load has read, no executed request awaits its answer; an
  answer on its way is the row as it is stored, and the only one for it; between loads the
  copy of a row is current, or becomes so with that answer.  `ShownIsStored` is the last part
  when nothing is under way.
* `WholeInv`: but for bookings and listings all rows are whole.  With it, `KeepsStep` looks at
  each step that changes the copies of a row, for `RelationsKept`.

`InList`, the one recursive definition here, is a recursive function, so that the prover can
reason about it; `InListFacts` again goes by a least counterexample.

`CapacityHeld`, `OnlineOrdersPaid` and `ImplementsCheckout` are checked without
crashes, which would make their runs too large; the theorems hold with any number of them.

Only model-checked: the liveness properties `CapturedIsRecorded`, `CaptureIsRecorded` and
`HoldsEnd`, which need fairness, and the prover does not handle that.  What the runs that end in a violation
check is false, so there is nothing to prove.

## 7. What is not modelled

* Prices, retail ceiling, wholesale threshold, addresses of an order: they reject a
  request or set an amount, and no modelled step depends on the amount.
* The float arithmetic of the Redis counter (`INCRBYFLOAT`): quantities are whole
  numbers here.
* Passwords, token signatures, the signed OAuth state, roles, rate limits, validation of
  request bodies: each rejects a request before it changes anything.
* The read-only queries with their paging, the HTTP shell, health checks: they change
  no state.
* Renames of cycles and milestones, activity log entries and addresses in the API: one
  store operation each.  The pages that send them are in `WebPages`.
* In the web client: the session context itself (of which the pages see the new access
  token), the checkout and payment forms, which hand over to Razorpay's widget, filters
  and paging, and the dashboards, landing page and public listings, which only show what
  they load.  The status history under an order is not loaded again after a cancel; a
  copy of a row has no history here.
* The two fetches of the reviews page, visible and hidden reviews (`Promise.all`), are one
  read: a review that moves between them could show twice or not at all until the next load.
* A direct sale in `PreBookings` is one step; that its check of the listing can be
  overtaken before it writes is in `Orders`.
* One call of Prisma is one step, also where it sends several statements.
* CI and the container set-up.
