------------------------------ MODULE PreBookings ------------------------------
(*****************************************************************************)
(* Pre-bookings of one batch, from the queue to the order: the Redis counter *)
(* that caps the queue, the harvest that puts the queue up for payment, the  *)
(* advance paid through Razorpay, the webhook that confirms, the job that    *)
(* expires unpaid holds, and the vendor's cancel.                            *)
(*                                                                           *)
(* Each handler is cut at its awaits, as in Orders.  The batch has reached   *)
(* its final milestone and its listing is a draft.                           *)
(*****************************************************************************)
EXTENDS Integers, FiniteSets, FiniteSetsExt

CONSTANTS
    Bookings,       \* primary keys of "PreBooking"
    Requests,       \* slots for requests, webhooks and job runs in flight
    Quantities,     \* the quantities vendors ask for
    Yields,         \* the harvest figures the grower may confirm
    StockEdits,     \* the stock figures the grower sets by hand
    Cap,            \* predictedYield * preBookablePercent / 100
    MaxDeliveries,  \* webhook deliveries of one Razorpay order handled at a time
    MaxAborts       \* bound: requests that die half way

ASSUME QuantitiesAssumption == Quantities \cup Yields \cup StockEdits \subseteq Nat \ {0}
ASSUME CapAssumption == Cap \in Nat
ASSUME BoundsAssumption == MaxDeliveries \in Nat /\ MaxAborts \in Nat
ASSUME RequestsAssumption == IsFiniteSet(Requests) /\ IsFiniteSet(Bookings)

VARIABLES
    batch,      \* harvestConfirmed and actualYield of the Batch row
    listing,    \* the Listing row
    bookings,   \* the PreBooking rows; an id not yet used has status "ABSENT"
    payments,   \* the Payment row of each booking, rz its Razorpay order, 0 for none
    ordered,    \* bookings with an Order row
    counter,    \* Redis prebooking:queued:<batch>
    holds,      \* Redis prebooking:hold:<booking> keys
    logged,     \* bookings whose order is in the Mongo history
    offered,    \* Razorpay orders made for each booking, numbered from 1
    captured,   \* <<booking, number>> whose money Razorpay has captured
    due,        \* bookings whose holdExpiresAt has passed
    req,        \* the continuation of each request in flight
    aborts,     \* requests that died half way
    overwritten \* history: bookings whose status a stale step overwrote

rows == <<batch, listing, bookings, payments, ordered>>
redis == <<counter, holds>>
razorpay == <<offered, captured>>
vars == <<rows, redis, logged, razorpay, due, req, aborts, overwritten>>

-------------------------------------------------------------------------------
(* Rows and continuations *)

PreBookingStatus == {"QUEUED", "AWAITING_PAYMENT", "CONFIRMED", "EXPIRED", "CANCELLED"}

InStatus(s) == {b \in Bookings : bookings[b].status = s}
RzpNumbers == 1..Cardinality(Requests)

Idle == [pc |-> "idle"]

BookingPcs == {"cancelRow", "cancelRelease", "payCreate", "rzCreate", "verify", "hook",
               "hookTx", "hookRecord", "hookLog", "hookClear"}
Continuations ==
    {Idle}
    \cup [pc : {"reserve", "bookRow"}, quantity : Quantities]
    \cup [pc : BookingPcs, booking : Bookings]
    \cup [pc : {"harvestScan"}, yield : Yields]
    \cup [pc : {"harvestTx"}, yield : Yields, found : SUBSET Bookings]
    \cup [pc : {"setHolds"}, found : SUBSET Bookings]
    \cup [pc : {"sweep"}, todo : SUBSET Bookings]
    \cup [pc : {"sweepRelease", "sweepClear"}, booking : Bookings, todo : SUBSET Bookings]

At(r, pc) == req[r].pc = pc
Becomes(r, cont) == req' = [req EXCEPT ![r] = cont]
GoesTo(r, pc, b) == Becomes(r, [pc |-> pc, booking |-> b])
SweepsOn(r, todo) == Becomes(r, IF todo = {} THEN Idle ELSE [pc |-> "sweep", todo |-> todo])

Creating == {r \in Requests : At(r, "reserve") \/ At(r, "bookRow")}

Init ==
    /\ batch = [harvestConfirmed |-> FALSE, actualYield |-> 0]
    /\ listing = [avail |-> 0, published |-> FALSE, closed |-> FALSE]
    /\ bookings = [b \in Bookings |-> [status |-> "ABSENT", quantity |-> 0]]
    /\ payments = [b \in Bookings |-> [status |-> "ABSENT", rz |-> 0]]
    /\ ordered = {} /\ counter = 0 /\ holds = {} /\ logged = {}
    /\ offered = [b \in Bookings |-> 0]
    /\ captured = {} /\ due = {}
    /\ req = [r \in Requests |-> Idle]
    /\ aborts = 0 /\ overwritten = {}

-------------------------------------------------------------------------------
(* The conditions the stores evaluate, and the writes several handlers share. *)
(* Variants named <definition>_<fault> are the definition with one plausible  *)
(* fault; no action uses them.                                                *)

\* confirmHarvest holds the row locks of batch and listing from its first update
\* to its commit; other writers of these rows wait.
RowsLocked_Never == FALSE
RowsLocked == \E r \in Requests : At(r, "harvestTx")

FitsCap_Unguarded(q) == TRUE
FitsCap(q) == counter + q <= Cap

StillAwaiting_Unguarded(b) == TRUE
StillAwaiting(b) == bookings[b].status = "AWAITING_PAYMENT"

StockCovers_Unguarded(b) == ~listing.closed
StockCovers(b) == ~listing.closed /\ listing.avail >= bookings[b].quantity

Overdue_StillQueued == {b \in due : bookings[b].status = "QUEUED"}
Overdue == {b \in due : bookings[b].status = "AWAITING_PAYMENT"}

SetStatus(b, s) == bookings' = [bookings EXCEPT ![b] = [@ EXCEPT !.status = s]]

MarkSuccess_Captured(b) ==
    payments' = [payments EXCEPT ![b] = [@ EXCEPT !.status = "CAPTURED"]]
MarkSuccess_Forgotten(b) == UNCHANGED payments
MarkSuccess(b) == payments' = [payments EXCEPT ![b] = [@ EXCEPT !.status = "SUCCESS"]]

Release(b) == counter' = counter - bookings[b].quantity

-------------------------------------------------------------------------------
(* PreBookingsService.create *)

\* The checks.  Bound: no more creates in flight than the model has row ids left.
StartCreate(r, q) ==
    /\ req[r] = Idle
    /\ ~batch.harvestConfirmed
    /\ Cardinality(Creating) < Cardinality(InStatus("ABSENT"))
    /\ Becomes(r, [pc |-> "reserve", quantity |-> q])
    /\ UNCHANGED <<rows, redis, logged, razorpay, due, aborts, overwritten>>

\* The Lua script: compare and increment in one step.
Reserve(r) ==
    /\ At(r, "reserve")
    /\ \/ /\ FitsCap(req[r].quantity)
          /\ counter' = counter + req[r].quantity
          /\ Becomes(r, [pc |-> "bookRow", quantity |-> req[r].quantity])
       \/ /\ ~FitsCap(req[r].quantity)
          /\ Becomes(r, Idle)
          /\ UNCHANGED counter
    /\ UNCHANGED <<rows, holds, logged, razorpay, due, aborts, overwritten>>

\* The harvest is not looked at again.
BookRow(r) ==
    /\ At(r, "bookRow")
    /\ \E b \in InStatus("ABSENT") :
          bookings' = [bookings EXCEPT ![b] =
                          [status |-> "QUEUED", quantity |-> req[r].quantity]]
    /\ Becomes(r, Idle)
    /\ UNCHANGED <<batch, listing, payments, ordered, redis, logged, razorpay, due,
                   aborts, overwritten>>

-------------------------------------------------------------------------------
(* PreBookingsService.cancel *)

StartCancel(r, b) ==
    /\ req[r] = Idle
    /\ bookings[b].status = "QUEUED"
    /\ GoesTo(r, "cancelRow", b)
    /\ UNCHANGED <<rows, redis, logged, razorpay, due, aborts, overwritten>>

\* The update is by id alone.
CancelRow(r) ==
    /\ At(r, "cancelRow")
    /\ LET b == req[r].booking
       IN /\ SetStatus(b, "CANCELLED")
          /\ overwritten' = IF bookings[b].status = "QUEUED"
                            THEN overwritten ELSE overwritten \cup {b}
          /\ GoesTo(r, "cancelRelease", b)
    /\ UNCHANGED <<batch, listing, payments, ordered, redis, logged, razorpay, due, aborts>>

CancelRelease(r) ==
    /\ At(r, "cancelRelease")
    /\ Release(req[r].booking)
    /\ Becomes(r, Idle)
    /\ UNCHANGED <<rows, holds, logged, razorpay, due, aborts, overwritten>>

-------------------------------------------------------------------------------
(* BatchesService.confirmHarvest *)

StartHarvest(r, y) ==
    /\ req[r] = Idle
    /\ ~batch.harvestConfirmed
    /\ Becomes(r, [pc |-> "harvestScan", yield |-> y])
    /\ UNCHANGED <<rows, redis, logged, razorpay, due, aborts, overwritten>>

\* In the transaction: the row locks, then the queue is read.
HarvestScan(r) ==
    /\ At(r, "harvestScan")
    /\ ~RowsLocked
    /\ Becomes(r, [pc |-> "harvestTx", yield |-> req[r].yield, found |-> InStatus("QUEUED")])
    /\ UNCHANGED <<rows, redis, logged, razorpay, due, aborts, overwritten>>

\* The commit: every row found goes up for payment, by id alone.
HarvestTx(r) ==
    /\ At(r, "harvestTx")
    /\ batch' = [harvestConfirmed |-> TRUE, actualYield |-> req[r].yield]
    /\ listing' = [listing EXCEPT !.avail = req[r].yield, !.published = TRUE]
    /\ bookings' = [b \in Bookings |-> IF b \in req[r].found
                        THEN [bookings[b] EXCEPT !.status = "AWAITING_PAYMENT"]
                        ELSE bookings[b]]
    /\ overwritten' = overwritten \cup (req[r].found \ InStatus("QUEUED"))
    /\ Becomes(r, [pc |-> "setHolds", found |-> req[r].found])
    /\ UNCHANGED <<payments, ordered, redis, logged, razorpay, due, aborts>>

SetHolds_Skipped(r) ==
    /\ At(r, "setHolds")
    /\ Becomes(r, Idle)
    /\ UNCHANGED <<rows, redis, logged, razorpay, due, aborts, overwritten>>
SetHolds(r) ==
    /\ At(r, "setHolds")
    /\ holds' = holds \cup req[r].found
    /\ Becomes(r, Idle)
    /\ UNCHANGED <<rows, counter, logged, razorpay, due, aborts, overwritten>>

-------------------------------------------------------------------------------
(* PaymentsService.createPreBookingPaymentIntent and verifyPreBookingPayment *)

\* The reads; an intent that has its Razorpay order is only shown again.
StartIntent(r, b) ==
    /\ req[r] = Idle
    /\ StillAwaiting(b)
    /\ ~listing.closed
    /\ \/ payments[b].status = "ABSENT" /\ GoesTo(r, "payCreate", b)
       \/ payments[b] = [status |-> "PENDING", rz |-> 0] /\ GoesTo(r, "rzCreate", b)
    /\ UNCHANGED <<rows, redis, logged, razorpay, due, aborts, overwritten>>

\* preBookingId is unique: the second of two inserts throws.
PayCreate(r) ==
    /\ At(r, "payCreate")
    /\ LET b == req[r].booking
       IN \/ /\ payments[b].status = "ABSENT"
             /\ payments' = [payments EXCEPT ![b] = [status |-> "PENDING", rz |-> 0]]
             /\ GoesTo(r, "rzCreate", b)
          \/ /\ payments[b].status # "ABSENT"
             /\ Becomes(r, Idle)
             /\ UNCHANGED payments
    /\ UNCHANGED <<batch, listing, bookings, ordered, redis, logged, razorpay, due,
                   aborts, overwritten>>

\* A new Razorpay order, written to the row whether or not it has one by now,
\* and handed to the vendor.
RzCreate(r) ==
    /\ At(r, "rzCreate")
    /\ LET b == req[r].booking
           k == offered[b] + 1
       IN /\ offered' = [offered EXCEPT ![b] = k]
          /\ payments' = [payments EXCEPT ![b] = [@ EXCEPT !.rz = k]]
    /\ Becomes(r, Idle)
    /\ UNCHANGED <<batch, listing, bookings, ordered, redis, logged, captured, due,
                   aborts, overwritten>>

\* External: the vendor pays a Razorpay order and Razorpay captures the money.
Pay(b, k) ==
    /\ k <= offered[b]
    /\ <<b, k>> \notin captured
    /\ captured' = captured \cup {<<b, k>>}
    /\ UNCHANGED <<rows, redis, logged, offered, due, req, aborts, overwritten>>

\* The row names this Razorpay order; only Razorpay can sign the payment.
StartVerify(r, b) ==
    /\ req[r] = Idle
    /\ <<b, payments[b].rz>> \in captured
    /\ GoesTo(r, "verify", b)
    /\ UNCHANGED <<rows, redis, logged, razorpay, due, aborts, overwritten>>

Verify(r) ==
    /\ At(r, "verify")
    /\ MarkSuccess(req[r].booking)
    /\ Becomes(r, Idle)
    /\ UNCHANGED <<batch, listing, bookings, ordered, redis, logged, razorpay, due,
                   aborts, overwritten>>

-------------------------------------------------------------------------------
(* PaymentsService.handleWebhook, pre-booking branch *)

HookPcs == {"hook", "hookTx", "hookRecord", "hookLog", "hookClear"}
Hooks(b) == {r \in Requests : req[r].pc \in HookPcs /\ req[r].booking = b}

\* The payment is found by its Razorpay order; one that no row names any more is
\* acknowledged and forgotten, which is no step.
Deliver(r, b) ==
    /\ req[r] = Idle
    /\ <<b, payments[b].rz>> \in captured
    /\ Cardinality(Hooks(b)) < MaxDeliveries
    /\ GoesTo(r, "hook", b)
    /\ UNCHANGED <<rows, redis, logged, razorpay, due, aborts, overwritten>>

HookRead(r) ==
    /\ At(r, "hook")
    /\ LET b == req[r].booking
       IN \/ bookings[b].status = "CONFIRMED" /\ Becomes(r, Idle)
          \/ StillAwaiting(b) /\ ~listing.closed /\ GoesTo(r, "hookTx", b)
          \/ /\ bookings[b].status # "CONFIRMED"
             /\ ~StillAwaiting(b) \/ listing.closed
             /\ GoesTo(r, "hookRecord", b)
    /\ UNCHANGED <<rows, redis, logged, razorpay, due, aborts, overwritten>>

\* The transaction; a guard that matches no row rolls it back.
HookTx(r) ==
    /\ At(r, "hookTx")
    /\ LET b == req[r].booking
       IN \/ /\ StillAwaiting(b) /\ ~RowsLocked /\ StockCovers(b)
             /\ MarkSuccess(b)
             /\ SetStatus(b, "CONFIRMED")
             /\ ordered' = ordered \cup {b}
             /\ listing' = [listing EXCEPT !.avail = @ - bookings[b].quantity]
             /\ GoesTo(r, "hookLog", b)
          \/ /\ ~StillAwaiting(b) \/ (~RowsLocked /\ ~StockCovers(b))
             /\ GoesTo(r, "hookRecord", b)
             /\ UNCHANGED <<payments, bookings, ordered, listing>>
    /\ UNCHANGED <<batch, redis, logged, razorpay, due, aborts, overwritten>>

\* recordCapturedPaymentWithoutOrder.
HookRecord(r) ==
    /\ At(r, "hookRecord")
    /\ MarkSuccess(req[r].booking)
    /\ Becomes(r, Idle)
    /\ UNCHANGED <<batch, listing, bookings, ordered, redis, logged, razorpay, due,
                   aborts, overwritten>>

HookLog(r) ==
    /\ At(r, "hookLog")
    /\ logged' = logged \cup {req[r].booking}
    /\ GoesTo(r, "hookClear", req[r].booking)
    /\ UNCHANGED <<rows, redis, razorpay, due, aborts, overwritten>>

HookClear(r) ==
    /\ At(r, "hookClear")
    /\ holds' = holds \ {req[r].booking}
    /\ Becomes(r, Idle)
    /\ UNCHANGED <<rows, counter, logged, razorpay, due, aborts, overwritten>>

-------------------------------------------------------------------------------
(* PreBookingsService.expireOverdueHolds, once a minute *)

StartSweep(r) ==
    /\ req[r] = Idle
    /\ Overdue # {}
    /\ SweepsOn(r, Overdue)
    /\ UNCHANGED <<rows, redis, logged, razorpay, due, aborts, overwritten>>

SweepRow(r) ==
    /\ At(r, "sweep")
    /\ \E b \in req[r].todo :
          \/ /\ StillAwaiting(b)
             /\ SetStatus(b, "EXPIRED")
             /\ Becomes(r, [pc |-> "sweepRelease", booking |-> b, todo |-> req[r].todo \ {b}])
          \/ /\ ~StillAwaiting(b)
             /\ SweepsOn(r, req[r].todo \ {b})
             /\ UNCHANGED bookings
    /\ UNCHANGED <<batch, listing, payments, ordered, redis, logged, razorpay, due,
                   aborts, overwritten>>

SweepRelease(r) ==
    /\ At(r, "sweepRelease")
    /\ Release(req[r].booking)
    /\ Becomes(r, [req[r] EXCEPT !.pc = "sweepClear"])
    /\ UNCHANGED <<rows, holds, logged, razorpay, due, aborts, overwritten>>

SweepClear(r) ==
    /\ At(r, "sweepClear")
    /\ holds' = holds \ {req[r].booking}
    /\ SweepsOn(r, req[r].todo)
    /\ UNCHANGED <<rows, counter, logged, razorpay, due, aborts, overwritten>>

\* 48 hours after the harvest: holdExpiresAt is in the past and the key is gone.
HoldElapses(b) ==
    /\ StillAwaiting(b) /\ b \notin due
    /\ due' = due \cup {b}
    /\ holds' = holds \ {b}
    /\ UNCHANGED <<rows, counter, logged, razorpay, req, aborts, overwritten>>

-------------------------------------------------------------------------------
(* The listing in the hands of the grower and of direct buyers *)

UpdateListing(n) ==
    /\ ~RowsLocked
    /\ listing' = [listing EXCEPT !.avail = n]
    /\ UNCHANGED <<batch, bookings, payments, ordered, redis, logged, razorpay, due, req,
                   aborts, overwritten>>

CloseListing ==
    /\ ~RowsLocked /\ ~listing.closed
    /\ listing' = [listing EXCEPT !.closed = TRUE]
    /\ UNCHANGED <<batch, bookings, payments, ordered, redis, logged, razorpay, due, req,
                   aborts, overwritten>>

\* OrdersService.create, as far as the listing goes.
DirectSale(q) ==
    /\ ~RowsLocked
    /\ listing.published /\ ~listing.closed /\ listing.avail >= q
    /\ listing' = [listing EXCEPT !.avail = @ - q]
    /\ UNCHANGED <<batch, bookings, payments, ordered, redis, logged, razorpay, due, req,
                   aborts, overwritten>>

\* A request dies at an await: the process stops, or the next call throws.
Abort(r) ==
    /\ req[r] # Idle
    /\ aborts < MaxAborts
    /\ aborts' = aborts + 1
    /\ Becomes(r, Idle)
    /\ UNCHANGED <<rows, redis, logged, razorpay, due, overwritten>>

-------------------------------------------------------------------------------
\* The rest of a handler that has started.
Continue(r) ==
    \/ Reserve(r) \/ BookRow(r) \/ CancelRow(r) \/ CancelRelease(r)
    \/ HarvestScan(r) \/ HarvestTx(r) \/ SetHolds(r)
    \/ PayCreate(r) \/ RzCreate(r) \/ Verify(r)
    \/ HookRead(r) \/ HookTx(r) \/ HookRecord(r) \/ HookLog(r) \/ HookClear(r)
    \/ SweepRow(r) \/ SweepRelease(r) \/ SweepClear(r)

Start(r) ==
    \/ \E q \in Quantities : StartCreate(r, q)
    \/ \E b \in Bookings : StartCancel(r, b) \/ StartIntent(r, b) \/ StartVerify(r, b)
                           \/ Deliver(r, b)
    \/ \E y \in Yields : StartHarvest(r, y)
    \/ StartSweep(r)

Next ==
    \/ \E r \in Requests : Start(r) \/ Continue(r) \/ Abort(r)
    \/ \E b \in Bookings : HoldElapses(b) \/ \E k \in RzpNumbers : Pay(b, k)
    \/ \E n \in StockEdits : UpdateListing(n)
    \/ \E q \in Quantities : DirectSale(q)
    \/ CloseListing

Spec == Init /\ [][Next]_vars

\* A handler that has started keeps running, time passes, the job runs every
\* minute, and Razorpay retries a delivery until it is acknowledged.
FairSpec ==
    /\ Spec
    /\ \A r \in Requests : WF_vars(Continue(r))
    /\ \A b \in Bookings : /\ WF_vars(HoldElapses(b))
                           /\ SF_vars(\E r \in Requests : Deliver(r, b))
    /\ SF_vars(\E r \in Requests : StartSweep(r))

-------------------------------------------------------------------------------
(* Properties *)

TypeOK ==
    /\ batch \in [harvestConfirmed : BOOLEAN, actualYield : Nat]
    /\ listing \in [avail : Int, published : BOOLEAN, closed : BOOLEAN]
    /\ bookings \in [Bookings -> [status : PreBookingStatus \cup {"ABSENT"}, quantity : Nat]]
    /\ payments \in [Bookings -> [status : {"ABSENT", "PENDING", "SUCCESS"}, rz : Nat]]
    /\ ordered \subseteq Bookings /\ holds \subseteq Bookings /\ logged \subseteq Bookings
    /\ due \subseteq Bookings /\ overwritten \subseteq Bookings
    /\ counter \in Int
    /\ offered \in [Bookings -> Nat]
    /\ captured \subseteq Bookings \X Nat
    /\ req \in [Requests -> Continuations]
    /\ aborts \in 0..MaxAborts

\* Stock sold to pre-bookings, direct buyers and by hand never goes below zero,
\* whatever commits between a webhook's reads and its transaction.
NoOversell == listing.avail >= 0

Total(S) == MapThenSumSet(LAMBDA b : bookings[b].quantity, S)
Live == InStatus("QUEUED") \cup InStatus("AWAITING_PAYMENT") \cup InStatus("CONFIRMED")

\* Capacity reserved by a create that has no row yet, and capacity of a cancelled
\* or expired row that is not released yet.
InFlight ==
    LET reserved == {r \in Requests : At(r, "bookRow")}
        unreleased == {r \in Requests : At(r, "cancelRelease") \/ At(r, "sweepRelease")}
    IN MapThenSumSet(LAMBDA r : req[r].quantity, reserved)
       + MapThenSumSet(LAMBDA r : bookings[req[r].booking].quantity, unreleased)

\* The Redis counter covers the queue and stays under the cap; it is exact while
\* no request has died, and all this until a stale cancel or harvest write.
CapacityHeld ==
    overwritten = {} =>
        /\ Total(Live) + InFlight <= counter
        /\ counter <= Cap
        /\ aborts = 0 => counter = Total(Live) + InFlight

\* The two writes to a booking's status that do not look at the status they change.
StaleWrite(r) ==
    \/ CancelRow(r) /\ bookings[req[r].booking].status # "QUEUED"
    \/ HarvestTx(r) /\ ~(req[r].found \subseteq InStatus("QUEUED"))

LegalMoves == {<<"QUEUED", "AWAITING_PAYMENT">>, <<"QUEUED", "CANCELLED">>,
               <<"AWAITING_PAYMENT", "CONFIRMED">>, <<"AWAITING_PAYMENT", "EXPIRED">>}

\* A booking is confirmed or expired only while it awaits payment and then never
\* moves again, whichever of webhook and expiry job comes first; only a stale
\* write breaks this.
BookingLifecycle ==
    [][\A b \in Bookings :
            bookings[b].status # "ABSENT" /\ bookings'[b].status # bookings[b].status =>
                \/ <<bookings[b].status, bookings'[b].status>> \in LegalMoves
                \/ \E r \in Requests : StaleWrite(r)]_vars

Paid(b) == payments[b].status = "SUCCESS" /\ \E k \in 1..offered[b] : <<b, k>> \in captured

\* A booking is confirmed exactly when it has an order, and only for captured and
\* recorded money; retried and overlapping deliveries, the expiry job and the
\* harvest never confirm one twice: a booking that has its order is never again in
\* the one status the webhook confirms.  A stale cancel is the one way to lose it.
ConfirmedIsPaid ==
    /\ InStatus("CONFIRMED") \subseteq ordered
    /\ \A b \in ordered :
          /\ Paid(b)
          /\ \/ bookings[b].status = "CONFIRMED"
             \/ bookings[b].status = "CANCELLED" /\ b \in overwritten

\* What makes it inductive: one harvest at a time is past its locks, and what it
\* found was still queued or has been cancelled since.
HarvestInFlight ==
    /\ \A r, s \in Requests : At(r, "harvestTx") /\ At(s, "harvestTx") => r = s
    /\ \A r \in Requests : At(r, "harvestTx") =>
          req[r].found \subseteq (InStatus("QUEUED") \cup InStatus("CANCELLED")) \ ordered

\* When nothing is in flight and no request died, every order has its history
\* entry and every booking inside its 48 hours has its hold.
SideStoresAgree ==
    aborts = 0 /\ (\A r \in Requests : req[r] = Idle) =>
        /\ logged = ordered
        /\ InStatus("AWAITING_PAYMENT") \ due \subseteq holds

\* Once the harvest is confirmed and nothing is in flight, nobody is left in the
\* queue.
QueueEmptied ==
    batch.harvestConfirmed /\ (\A r \in Requests : req[r] = Idle) => InStatus("QUEUED") = {}

\* Nobody awaits payment for ever: the job outlives its own crashes.
HoldsEnd ==
    \A b \in Bookings :
        bookings[b].status = "AWAITING_PAYMENT" ~> bookings[b].status # "AWAITING_PAYMENT"

\* Captured money is recorded in the end, as long as the vendor was only ever
\* given one Razorpay order.
CaptureIsRecorded ==
    \A b \in Bookings : <<b, 1>> \in captured ~> payments[b].status = "SUCCESS" \/ offered[b] > 1

===============================================================================
