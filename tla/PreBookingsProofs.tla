--------------------------- MODULE PreBookingsProofs ---------------------------
(* What holds of PreBookings for every set of bookings, requests and quantities, *)
(* every capacity and any number of webhook deliveries at a time.                *)
EXTENDS PreBookings, FiniteSetTheorems, TLAPS

BookingRow == [status : PreBookingStatus \cup {"ABSENT"}, quantity : Nat]
PaymentRow == [status : {"ABSENT", "PENDING", "SUCCESS"}, rz : Nat]
BatchRow == [harvestConfirmed : BOOLEAN, actualYield : Nat]
ListingRow == [avail : Int, published : BOOLEAN, closed : BOOLEAN]

-------------------------------------------------------------------------------
(* Continuations *)

LEMMA ContinuationType ==
    ASSUME TypeOK, NEW r \in Requests
    PROVE  /\ req[r].pc \in {"reserve", "bookRow"} => req[r].quantity \in Quantities
           /\ req[r].pc \in BookingPcs => req[r].booking \in Bookings
           /\ req[r].pc \in {"harvestScan", "harvestTx"} => req[r].yield \in Yields
           /\ req[r].pc \in {"harvestTx", "setHolds"} => req[r].found \in SUBSET Bookings
           /\ req[r].pc \in {"sweep", "sweepRelease", "sweepClear"} =>
                req[r].todo \in SUBSET Bookings
           /\ req[r].pc \in {"sweepRelease", "sweepClear"} => req[r].booking \in Bookings
<1>1. req[r] \in Continuations
  BY DEF TypeOK
<1> QED
  BY <1>1 DEF Continuations, Idle, BookingPcs

LEMMA ContinuationsContain ==
    /\ Idle \in Continuations
    /\ \A q \in Quantities, pc \in {"reserve", "bookRow"} :
          [pc |-> pc, quantity |-> q] \in Continuations
    /\ \A b \in Bookings, pc \in BookingPcs : [pc |-> pc, booking |-> b] \in Continuations
    /\ \A y \in Yields : [pc |-> "harvestScan", yield |-> y] \in Continuations
    /\ \A y \in Yields, S \in SUBSET Bookings :
          [pc |-> "harvestTx", yield |-> y, found |-> S] \in Continuations
    /\ \A S \in SUBSET Bookings : [pc |-> "setHolds", found |-> S] \in Continuations
    /\ \A S \in SUBSET Bookings : [pc |-> "sweep", todo |-> S] \in Continuations
    /\ \A b \in Bookings, S \in SUBSET Bookings, pc \in {"sweepRelease", "sweepClear"} :
          [pc |-> pc, booking |-> b, todo |-> S] \in Continuations
  BY DEF Continuations

LEMMA BecomesType ==
    ASSUME TypeOK, NEW r \in Requests, NEW cont \in Continuations, Becomes(r, cont)
    PROVE  /\ req' \in [Requests -> Continuations]
           /\ req'[r] = cont
           /\ \A s \in Requests \ {r} : req'[s] = req[s]
  BY DEF TypeOK, Becomes

\* The request of r goes on to booking b.
LEMMA GoesToType ==
    ASSUME TypeOK, NEW r \in Requests, NEW pc \in BookingPcs, NEW b \in Bookings,
           GoesTo(r, pc, b)
    PROVE  /\ req' \in [Requests -> Continuations]
           /\ req'[r] = [pc |-> pc, booking |-> b]
           /\ \A s \in Requests \ {r} : req'[s] = req[s]
  BY BecomesType, ContinuationsContain DEF GoesTo

LEMMA EndsType ==
    ASSUME TypeOK, NEW r \in Requests, Becomes(r, Idle)
    PROVE  /\ req' \in [Requests -> Continuations]
           /\ req'[r] = Idle
           /\ \A s \in Requests \ {r} : req'[s] = req[s]
  BY BecomesType, ContinuationsContain

LEMMA SweepsOnType ==
    ASSUME TypeOK, NEW r \in Requests, NEW S \in SUBSET Bookings, SweepsOn(r, S)
    PROVE  /\ req' \in [Requests -> Continuations]
           /\ req'[r].pc \in {"idle", "sweep"}
           /\ \A s \in Requests \ {r} : req'[s] = req[s]
<1>1. CASE S = {}
  BY <1>1, EndsType DEF SweepsOn, Idle
<1>2. CASE S # {}
  <2>1. Becomes(r, [pc |-> "sweep", todo |-> S])
    BY <1>2 DEF SweepsOn
  <2> QED
    BY <2>1, BecomesType, ContinuationsContain
<1> QED
  BY <1>1, <1>2

-------------------------------------------------------------------------------
(* Rows whose status is written *)

LEMMA StatusWritten ==
    ASSUME TypeOK, NEW b \in Bookings, NEW s \in PreBookingStatus, SetStatus(b, s)
    PROVE  /\ bookings' \in [Bookings -> BookingRow]
           /\ bookings'[b].status = s
           /\ \A a \in Bookings \ {b} : bookings'[a] = bookings[a]
<1>1. bookings[b] \in BookingRow
  BY DEF TypeOK, BookingRow
<1>2. /\ [bookings[b] EXCEPT !.status = s] \in BookingRow
      /\ [bookings[b] EXCEPT !.status = s].status = s
  BY <1>1 DEF BookingRow
<1>3. bookings' = [bookings EXCEPT ![b] = [bookings[b] EXCEPT !.status = s]]
  BY DEF SetStatus
<1> QED
  BY <1>2, <1>3 DEF TypeOK, BookingRow

LEMMA SuccessWritten ==
    ASSUME TypeOK, NEW b \in Bookings, MarkSuccess(b)
    PROVE  /\ payments' \in [Bookings -> PaymentRow]
           /\ payments'[b].status = "SUCCESS"
           /\ \A a \in Bookings : payments[a].status = "SUCCESS" => payments'[a].status = "SUCCESS"
<1>1. payments[b] \in PaymentRow
  BY DEF TypeOK, PaymentRow
<1>2. /\ [payments[b] EXCEPT !.status = "SUCCESS"] \in PaymentRow
      /\ [payments[b] EXCEPT !.status = "SUCCESS"].status = "SUCCESS"
  BY <1>1 DEF PaymentRow
<1>3. payments' = [payments EXCEPT ![b] = [payments[b] EXCEPT !.status = "SUCCESS"]]
  BY DEF MarkSuccess
<1> QED
  BY <1>2, <1>3 DEF TypeOK, PaymentRow

LEMMA AvailWritten ==
    ASSUME TypeOK, NEW n \in Int
    PROVE  [listing EXCEPT !.avail = n] \in ListingRow
  BY DEF TypeOK, ListingRow

LEMMA QuantityType ==
    /\ \A q \in Quantities : q \in Nat
    /\ \A y \in Yields : y \in Nat
    /\ \A n \in StockEdits : n \in Nat
  BY QuantitiesAssumption

-------------------------------------------------------------------------------
(* Types *)

LEMMA TypeInit == Init => TypeOK
  BY ContinuationsContain, BoundsAssumption
     DEF Init, TypeOK, PreBookingStatus

\* Steps that write no row: the request goes on.
LEMMA TypeGoesOn ==
    ASSUME TypeOK, UNCHANGED <<rows, redis, logged, razorpay, due, aborts, overwritten>>,
           req' \in [Requests -> Continuations]
    PROVE  TypeOK'
  BY DEF TypeOK, rows, redis, razorpay

LEMMA TypeStart ==
    ASSUME TypeOK, NEW r \in Requests, Start(r)
    PROVE  TypeOK'
<1>1. ASSUME NEW q \in Quantities, StartCreate(r, q) PROVE TypeOK'
  BY <1>1, TypeGoesOn, BecomesType, ContinuationsContain DEF StartCreate
<1>2. ASSUME NEW b \in Bookings,
             StartCancel(r, b) \/ StartIntent(r, b) \/ StartVerify(r, b) \/ Deliver(r, b)
      PROVE  TypeOK'
  BY <1>2, TypeGoesOn, GoesToType DEF StartCancel, StartIntent, StartVerify, Deliver, BookingPcs
<1>3. ASSUME NEW y \in Yields, StartHarvest(r, y) PROVE TypeOK'
  BY <1>3, TypeGoesOn, BecomesType, ContinuationsContain DEF StartHarvest
<1>4. CASE StartSweep(r)
  <2>1. Overdue \in SUBSET Bookings
    BY DEF Overdue, TypeOK
  <2> QED
    BY <1>4, <2>1, TypeGoesOn, SweepsOnType DEF StartSweep
<1> QED
  BY <1>1, <1>2, <1>3, <1>4 DEF Start

LEMMA TypeContinue ==
    ASSUME TypeOK, NEW r \in Requests, Continue(r)
    PROVE  TypeOK'
<1>1. CASE Reserve(r)
  <2>1. req[r].quantity \in Quantities
    BY <1>1, ContinuationType DEF Reserve, At
  <2>2. req' \in [Requests -> Continuations]
    BY <1>1, <2>1, BecomesType, ContinuationsContain DEF Reserve
  <2>3. counter' \in Int
    BY <1>1, <2>1, QuantityType DEF Reserve, TypeOK
  <2> QED
    BY <1>1, <2>2, <2>3 DEF Reserve, TypeOK, rows, razorpay
<1>2. CASE BookRow(r)
  <2>1. req[r].quantity \in Nat
    BY <1>2, ContinuationType, QuantityType DEF BookRow, At
  <2>2. [status |-> "QUEUED", quantity |-> req[r].quantity] \in BookingRow
    BY <2>1 DEF BookingRow, PreBookingStatus
  <2>3. bookings' \in [Bookings -> BookingRow]
    BY <1>2, <2>2 DEF BookRow, TypeOK, BookingRow
  <2> QED
    BY <1>2, <2>3, EndsType DEF BookRow, TypeOK, BookingRow, redis, razorpay
<1>3. CASE CancelRow(r)
  <2>1. req[r].booking \in Bookings
    BY <1>3, ContinuationType DEF CancelRow, At, BookingPcs
  <2>2. req' \in [Requests -> Continuations]
    BY <1>3, <2>1, GoesToType DEF CancelRow, BookingPcs
  <2>3. bookings' \in [Bookings -> BookingRow]
    BY <1>3, <2>1, StatusWritten DEF CancelRow, PreBookingStatus
  <2>4. overwritten' \subseteq Bookings
    BY <1>3, <2>1 DEF CancelRow, TypeOK
  <2> QED
    BY <1>3, <2>2, <2>3, <2>4 DEF CancelRow, TypeOK, BookingRow, redis, razorpay
<1>4. CASE CancelRelease(r) \/ SweepRelease(r)
  <2>1. req[r].booking \in Bookings
    BY <1>4, ContinuationType DEF CancelRelease, SweepRelease, At, BookingPcs
  <2>2. counter' \in Int
    BY <1>4, <2>1 DEF CancelRelease, SweepRelease, Release, TypeOK
  <2>3. req' \in [Requests -> Continuations]
    <3>1. CASE CancelRelease(r)
      BY <3>1, EndsType DEF CancelRelease
    <3>2. CASE SweepRelease(r)
      <4>1. req[r] \in Continuations /\ req[r].pc = "sweepRelease"
        BY <3>2 DEF SweepRelease, At, TypeOK
      <4>2. [req[r] EXCEPT !.pc = "sweepClear"] \in Continuations
        BY <4>1 DEF Continuations, Idle, BookingPcs
      <4> QED
        BY <3>2, <4>2, BecomesType DEF SweepRelease
    <3> QED
      BY <1>4, <3>1, <3>2
  <2> QED
    BY <1>4, <2>2, <2>3 DEF CancelRelease, SweepRelease, TypeOK, rows, razorpay
<1>5. CASE HarvestScan(r)
  <2>1. req[r].yield \in Yields /\ InStatus("QUEUED") \in SUBSET Bookings
    BY <1>5, ContinuationType DEF HarvestScan, At, InStatus
  <2> QED
    BY <1>5, <2>1, TypeGoesOn, BecomesType, ContinuationsContain DEF HarvestScan
<1>6. CASE HarvestTx(r)
  <2>1. PICK y \in Nat, S \in SUBSET Bookings : y = req[r].yield /\ S = req[r].found
    BY <1>6, ContinuationType, QuantityType DEF HarvestTx, At
  <2>2. req' \in [Requests -> Continuations]
    BY <1>6, <2>1, BecomesType, ContinuationsContain DEF HarvestTx
  <2>3. batch' \in BatchRow
    BY <1>6, <2>1 DEF HarvestTx, BatchRow
  <2>4. listing' \in ListingRow
    <3>1. [listing EXCEPT !.avail = y] \in ListingRow
      BY AvailWritten
    <3>2. listing' = [[listing EXCEPT !.avail = y] EXCEPT !.published = TRUE]
      BY <1>6, <2>1 DEF HarvestTx, TypeOK
    <3> QED
      BY <3>1, <3>2 DEF ListingRow
  <2>5. bookings' \in [Bookings -> BookingRow]
    <3>1. \A b \in Bookings : [bookings[b] EXCEPT !.status = "AWAITING_PAYMENT"] \in BookingRow
      BY DEF TypeOK, BookingRow, PreBookingStatus
    <3>2. \A b \in Bookings : bookings[b] \in BookingRow
      BY DEF TypeOK, BookingRow
    <3>3. bookings' = [b \in Bookings |-> IF b \in S
                          THEN [bookings[b] EXCEPT !.status = "AWAITING_PAYMENT"]
                          ELSE bookings[b]]
      BY <1>6, <2>1 DEF HarvestTx
    <3> QED
      BY <3>1, <3>2, <3>3
  <2>6. overwritten' \subseteq Bookings
    BY <1>6, <2>1 DEF HarvestTx, TypeOK
  <2> QED
    BY <1>6, <2>2, <2>3, <2>4, <2>5, <2>6
       DEF HarvestTx, TypeOK, BatchRow, ListingRow, BookingRow, redis, razorpay
<1>7. CASE SetHolds(r)
  <2>1. req[r].found \in SUBSET Bookings
    BY <1>7, ContinuationType DEF SetHolds, At
  <2> QED
    BY <1>7, <2>1, EndsType DEF SetHolds, TypeOK, rows, razorpay
<1>8. CASE PayCreate(r)
  <2>1. req[r].booking \in Bookings
    BY <1>8, ContinuationType DEF PayCreate, At, BookingPcs
  <2>2. req' \in [Requests -> Continuations]
    BY <1>8, <2>1, EndsType, GoesToType DEF PayCreate, BookingPcs
  <2>3. [status |-> "PENDING", rz |-> 0] \in PaymentRow
    BY DEF PaymentRow
  <2>4. payments' \in [Bookings -> PaymentRow]
    BY <1>8, <2>1, <2>3 DEF PayCreate, TypeOK, PaymentRow
  <2> QED
    BY <1>8, <2>2, <2>4 DEF PayCreate, TypeOK, PaymentRow, redis, razorpay
<1>9. CASE RzCreate(r)
  <2>1. PICK b \in Bookings, k \in Nat :
           /\ b = req[r].booking /\ k = offered[b] + 1
           /\ offered' = [offered EXCEPT ![b] = k]
           /\ payments' = [payments EXCEPT ![b] = [payments[b] EXCEPT !.rz = k]]
    <3>1. req[r].booking \in Bookings
      BY <1>9, ContinuationType DEF RzCreate, At, BookingPcs
    <3>2. offered[req[r].booking] + 1 \in Nat
      BY <3>1 DEF TypeOK
    <3> QED
      BY <1>9, <3>1, <3>2 DEF RzCreate
  <2>2. [payments[b] EXCEPT !.rz = k] \in PaymentRow
    BY DEF TypeOK, PaymentRow
  <2>3. payments' \in [Bookings -> PaymentRow] /\ offered' \in [Bookings -> Nat]
    BY <2>1, <2>2 DEF TypeOK, PaymentRow
  <2> QED
    BY <1>9, <2>3, EndsType DEF RzCreate, TypeOK, PaymentRow, redis
<1>10. CASE Verify(r) \/ HookRecord(r)
  <2>1. req[r].booking \in Bookings
    BY <1>10, ContinuationType DEF Verify, HookRecord, At, BookingPcs
  <2>2. payments' \in [Bookings -> PaymentRow]
    BY <1>10, <2>1, SuccessWritten DEF Verify, HookRecord
  <2> QED
    BY <1>10, <2>2, EndsType DEF Verify, HookRecord, TypeOK, PaymentRow, redis, razorpay
<1>11. CASE HookRead(r)
  <2>1. req[r].booking \in Bookings
    BY <1>11, ContinuationType DEF HookRead, At, BookingPcs
  <2>2. req' \in [Requests -> Continuations]
    BY <1>11, <2>1, EndsType, GoesToType DEF HookRead, BookingPcs
  <2> QED
    BY <1>11, <2>2, TypeGoesOn DEF HookRead
<1>12. CASE HookTx(r)
  <2>1. req[r].booking \in Bookings
    BY <1>12, ContinuationType DEF HookTx, At, BookingPcs
  <2>2. req' \in [Requests -> Continuations]
    BY <1>12, <2>1, GoesToType DEF HookTx, BookingPcs
  <2>3. CASE UNCHANGED <<payments, bookings, ordered, listing>>
    BY <1>12, <2>2, <2>3 DEF HookTx, TypeOK, redis, razorpay
  <2>4. CASE ~UNCHANGED <<payments, bookings, ordered, listing>>
    <3>1. PICK b \in Bookings :
             /\ MarkSuccess(b) /\ SetStatus(b, "CONFIRMED")
             /\ ordered' = ordered \cup {b}
             /\ listing' = [listing EXCEPT !.avail = listing.avail - bookings[b].quantity]
      BY <1>12, <2>1, <2>4 DEF HookTx
    <3>2. payments' \in [Bookings -> PaymentRow] /\ bookings' \in [Bookings -> BookingRow]
      BY <3>1, SuccessWritten, StatusWritten DEF PreBookingStatus
    <3>3. listing.avail - bookings[b].quantity \in Int
      BY DEF TypeOK
    <3>4. listing' \in ListingRow
      BY <3>1, <3>3, AvailWritten
    <3> QED
      BY <1>12, <2>2, <3>1, <3>2, <3>4
         DEF HookTx, TypeOK, PaymentRow, BookingRow, ListingRow, redis, razorpay
  <2> QED
    BY <2>3, <2>4
<1>13. CASE HookLog(r)
  <2>1. req[r].booking \in Bookings
    BY <1>13, ContinuationType DEF HookLog, At, BookingPcs
  <2>2. req' \in [Requests -> Continuations]
    BY <1>13, <2>1, GoesToType DEF HookLog, BookingPcs
  <2> QED
    BY <1>13, <2>1, <2>2 DEF HookLog, TypeOK, rows, redis, razorpay
<1>14. CASE HookClear(r)
  BY <1>14, EndsType DEF HookClear, TypeOK, rows, razorpay
<1>15. CASE SweepRow(r)
  <2>1. PICK b \in Bookings, S \in SUBSET Bookings :
           /\ S = req[r].todo \ {b}
           /\ \/ SetStatus(b, "EXPIRED")
                 /\ Becomes(r, [pc |-> "sweepRelease", booking |-> b, todo |-> S])
              \/ SweepsOn(r, S) /\ UNCHANGED bookings
    BY <1>15, ContinuationType DEF SweepRow, At
  <2>2. req' \in [Requests -> Continuations]
    BY <2>1, SweepsOnType, BecomesType, ContinuationsContain
  <2>3. bookings' \in [Bookings -> BookingRow]
    BY <2>1, StatusWritten DEF PreBookingStatus, TypeOK, BookingRow
  <2> QED
    BY <1>15, <2>2, <2>3 DEF SweepRow, TypeOK, BookingRow, redis, razorpay
<1>16. CASE SweepClear(r)
  <2>1. req[r].todo \in SUBSET Bookings
    BY <1>16, ContinuationType DEF SweepClear, At
  <2>2. req' \in [Requests -> Continuations]
    BY <1>16, <2>1, SweepsOnType DEF SweepClear
  <2> QED
    BY <1>16, <2>2 DEF SweepClear, TypeOK, rows, razorpay
<1> QED
  BY <1>1, <1>2, <1>3, <1>4, <1>5, <1>6, <1>7, <1>8, <1>9, <1>10, <1>11, <1>12, <1>13,
     <1>14, <1>15, <1>16 DEF Continue

LEMMA TypeStep == TypeOK /\ [Next]_vars => TypeOK'
<1> SUFFICES ASSUME TypeOK, [Next]_vars PROVE TypeOK'
  OBVIOUS
<1>1. ASSUME NEW r \in Requests, Abort(r) PROVE TypeOK'
  <2>1. aborts' \in 0..MaxAborts
    BY <1>1, BoundsAssumption DEF Abort, TypeOK
  <2> QED
    BY <1>1, <2>1, EndsType DEF Abort, TypeOK, rows, redis, razorpay
<1>2. ASSUME NEW b \in Bookings, HoldElapses(b) PROVE TypeOK'
  BY <1>2 DEF HoldElapses, TypeOK, rows, razorpay
<1>3. ASSUME NEW b \in Bookings, NEW k \in RzpNumbers, Pay(b, k) PROVE TypeOK'
  <2>1. k \in Nat
    BY RequestsAssumption, FS_CardinalityType DEF RzpNumbers
  <2> QED
    BY <1>3, <2>1 DEF Pay, TypeOK, rows, redis
<1>4. ASSUME NEW n \in StockEdits, UpdateListing(n) PROVE TypeOK'
  BY <1>4, AvailWritten, QuantityType DEF UpdateListing, TypeOK, ListingRow, redis, razorpay
<1>5. ASSUME NEW q \in Quantities, DirectSale(q) PROVE TypeOK'
  <2>1. listing.avail - q \in Int
    BY QuantityType DEF TypeOK
  <2>2. listing' \in ListingRow
    BY <1>5, <2>1, AvailWritten DEF DirectSale
  <2> QED
    BY <1>5, <2>2 DEF DirectSale, TypeOK, ListingRow, redis, razorpay
<1>6. CASE CloseListing
  <2>1. listing' \in ListingRow
    BY <1>6 DEF CloseListing, TypeOK, ListingRow
  <2> QED
    BY <1>6, <2>1 DEF CloseListing, TypeOK, ListingRow, redis, razorpay
<1>7. CASE UNCHANGED vars
  BY <1>7 DEF vars, TypeOK, rows, redis, razorpay
<1> QED
  BY <1>1, <1>2, <1>3, <1>4, <1>5, <1>6, <1>7, TypeStart, TypeContinue DEF Next

\* Rows, keys and continuations of the pre-booking services keep their types.
THEOREM PreBookingsTypeCorrect == Spec => []TypeOK
  BY TypeInit, TypeStep, PTL DEF Spec

-------------------------------------------------------------------------------
(* The inductive invariant *)

Money(b) == \E k \in 1..offered[b] : <<b, k>> \in captured

\* Razorpay captures money only for an order it made, and a webhook is only ever
\* handled for captured money.
CapturedOffered == \A b \in Bookings, k \in Nat : <<b, k>> \in captured => k \in 1..offered[b]
HooksPaid == \A r \in Requests : req[r].pc \in HookPcs => Money(req[r].booking)

Inv == TypeOK /\ NoOversell /\ CapturedOffered /\ HooksPaid /\ ConfirmedIsPaid /\ HarvestInFlight

LEMMA InvInit == Init => Inv
<1> SUFFICES ASSUME Init PROVE Inv
  OBVIOUS
<1>1. TypeOK
  BY TypeInit
<1>2. NoOversell /\ CapturedOffered
  BY DEF Init, NoOversell, CapturedOffered
<1>3. \A r \in Requests : req[r].pc = "idle"
  BY DEF Init, Idle
<1>4. HooksPaid /\ HarvestInFlight
  BY <1>3 DEF HooksPaid, HarvestInFlight, HookPcs, At
<1>5. ConfirmedIsPaid
  BY DEF Init, ConfirmedIsPaid, InStatus
<1> QED
  BY <1>1, <1>2, <1>4, <1>5 DEF Inv

-------------------------------------------------------------------------------
(* What every step does but the transactions of webhook and harvest *)

RequestsGoOn ==
    \A s \in Requests :
        /\ req'[s].pc = "harvestTx" => req'[s] = req[s]
        /\ req'[s].pc \in HookPcs =>
              \/ req[s].pc \in HookPcs /\ req'[s].booking = req[s].booking
              \/ Money(req'[s].booking)

MoneyStays ==
    /\ \A b \in Bookings : offered[b] <= offered'[b]
    /\ captured \subseteq captured'

StatusGoesOn(b) ==
    \/ bookings'[b].status = bookings[b].status
    \/ bookings[b].status = "ABSENT" /\ bookings'[b].status = "QUEUED"
    \/ bookings'[b].status = "CANCELLED" /\ (bookings[b].status = "QUEUED" \/ b \in overwritten')
    \/ bookings[b].status = "AWAITING_PAYMENT" /\ bookings'[b].status = "EXPIRED"

RowsGoOn ==
    /\ ordered' = ordered
    /\ overwritten \subseteq overwritten'
    /\ \A b \in Bookings : payments[b].status = "SUCCESS" => payments'[b].status = "SUCCESS"
    /\ \A b \in Bookings : StatusGoesOn(b)

LEMMA MoneyKept ==
    ASSUME TypeOK, TypeOK', MoneyStays, NEW b \in Bookings, Money(b)
    PROVE  Money(b)'
<1>1. PICK k \in 1..offered[b] : <<b, k>> \in captured
  BY DEF Money
<1>2. offered[b] \in Nat /\ offered'[b] \in Nat /\ offered[b] <= offered'[b]
  BY DEF TypeOK, MoneyStays
<1>3. k \in 1..offered'[b] /\ <<b, k>> \in captured'
  BY <1>1, <1>2 DEF MoneyStays
<1> QED
  BY <1>3 DEF Money

LEMMA HooksGoOn ==
    ASSUME Inv, TypeOK', RequestsGoOn, MoneyStays
    PROVE  HooksPaid'
<1> SUFFICES ASSUME NEW r \in Requests, req'[r].pc \in HookPcs
             PROVE  Money(req[r].booking)'
  BY DEF HooksPaid
<1>1. PICK b \in Bookings : b = req'[r].booking
  <2>1. req'[r] \in Continuations
    BY DEF TypeOK
  <2> QED
    BY <2>1 DEF Continuations, Idle, BookingPcs, HookPcs
<1>2. Money(b)
  BY <1>1 DEF RequestsGoOn, Inv, HooksPaid
<1>3. Money(b)'
  BY <1>2, MoneyKept DEF Inv
<1> QED
  BY <1>1, <1>3 DEF Money

LEMMA GoesOn ==
    ASSUME Inv, TypeOK', NoOversell', CapturedOffered', RequestsGoOn, MoneyStays, RowsGoOn
    PROVE  Inv'
<1>1. HooksPaid'
  BY HooksGoOn
<1>2. ConfirmedIsPaid'
  <2>1. ASSUME NEW b \in Bookings, bookings'[b].status = "CONFIRMED" PROVE b \in ordered'
    BY <2>1 DEF Inv, ConfirmedIsPaid, InStatus, RowsGoOn, StatusGoesOn
  <2>2. ASSUME NEW b \in ordered'
        PROVE  /\ payments'[b].status = "SUCCESS" /\ Money(b)'
               /\ \/ bookings'[b].status = "CONFIRMED"
                  \/ bookings'[b].status = "CANCELLED" /\ b \in overwritten'
    <3>1. b \in ordered /\ b \in Bookings
      BY <2>2 DEF RowsGoOn, Inv, TypeOK
    <3>2. payments[b].status = "SUCCESS" /\ Money(b)
      BY <3>1 DEF Inv, ConfirmedIsPaid, Paid, Money
    <3>3. \/ bookings[b].status = "CONFIRMED"
          \/ bookings[b].status = "CANCELLED" /\ b \in overwritten
      BY <3>1 DEF Inv, ConfirmedIsPaid
    <3>4. Money(b)'
      BY <3>1, <3>2, MoneyKept DEF Inv
    <3> QED
      BY <3>1, <3>2, <3>3, <3>4 DEF RowsGoOn, StatusGoesOn
  <2> QED
    BY <2>1, <2>2 DEF ConfirmedIsPaid, InStatus, Paid, Money
<1>3. HarvestInFlight'
  <2>1. \A r, s \in Requests : At(r, "harvestTx")' /\ At(s, "harvestTx")' => r = s
    BY DEF RequestsGoOn, Inv, HarvestInFlight, At
  <2>2. ASSUME NEW r \in Requests, At(r, "harvestTx")', NEW b \in req'[r].found
        PROVE  b \in ((InStatus("QUEUED") \cup InStatus("CANCELLED")) \ ordered)'
    <3>1. At(r, "harvestTx") /\ b \in req[r].found
      BY <2>2 DEF RequestsGoOn, At
    <3>2. b \in (InStatus("QUEUED") \cup InStatus("CANCELLED")) \ ordered
      BY <3>1 DEF Inv, HarvestInFlight
    <3> QED
      BY <3>2 DEF RowsGoOn, StatusGoesOn, InStatus
  <2> QED
    BY <2>1, <2>2 DEF HarvestInFlight
<1> QED
  BY <1>1, <1>2, <1>3 DEF Inv

-------------------------------------------------------------------------------
(* Each step *)

LEMMA RequestGoesOn ==
    ASSUME TypeOK, NEW r \in Requests, NEW cont \in Continuations, Becomes(r, cont),
           cont.pc # "harvestTx",
           cont.pc \in HookPcs =>
              \/ req[r].pc \in HookPcs /\ cont.booking = req[r].booking
              \/ Money(cont.booking)
    PROVE  RequestsGoOn
<1>1. req'[r] = cont /\ \A s \in Requests \ {r} : req'[s] = req[s]
  BY BecomesType
<1> QED
  BY <1>1 DEF RequestsGoOn

LEMMA RequestEnds ==
    ASSUME TypeOK, NEW r \in Requests, Becomes(r, Idle)
    PROVE  RequestsGoOn
  BY RequestGoesOn, ContinuationsContain DEF Idle, HookPcs

LEMMA SweepGoesOn ==
    ASSUME TypeOK, NEW r \in Requests, NEW S \in SUBSET Bookings, SweepsOn(r, S)
    PROVE  RequestsGoOn
  BY SweepsOnType DEF RequestsGoOn, HookPcs

LEMMA RequestsStay ==
    ASSUME TypeOK, UNCHANGED req
    PROVE  RequestsGoOn
  BY DEF RequestsGoOn

LEMMA RowsStay ==
    ASSUME TypeOK, UNCHANGED <<bookings, ordered, overwritten>>,
           \A b \in Bookings : payments[b].status = "SUCCESS" => payments'[b].status = "SUCCESS"
    PROVE  RowsGoOn
  BY DEF RowsGoOn, StatusGoesOn

LEMMA MoneyUntouched ==
    ASSUME TypeOK, CapturedOffered, UNCHANGED razorpay
    PROVE  MoneyStays /\ CapturedOffered'
<1>1. \A b \in Bookings : offered[b] <= offered[b]
  BY DEF TypeOK
<1> QED
  BY <1>1 DEF MoneyStays, CapturedOffered, razorpay

\* A step that writes neither bookings nor orders nor stock.
LEMMA QuietStep ==
    ASSUME Inv, TypeOK', RequestsGoOn, UNCHANGED <<bookings, ordered, overwritten, razorpay>>,
           listing'.avail >= 0,
           \A b \in Bookings : payments[b].status = "SUCCESS" => payments'[b].status = "SUCCESS"
    PROVE  Inv'
<1>1. RowsGoOn
  BY RowsStay DEF Inv
<1>2. MoneyStays /\ CapturedOffered'
  BY MoneyUntouched DEF Inv
<1> QED
  BY <1>1, <1>2, GoesOn DEF NoOversell

LEMMA InvStart ==
    ASSUME Inv, TypeOK', NEW r \in Requests, Start(r)
    PROVE  Inv'
<1>1. UNCHANGED <<rows, redis, logged, razorpay, due, aborts, overwritten>>
  BY DEF Start, StartCreate, StartCancel, StartIntent, StartVerify, Deliver, StartHarvest,
         StartSweep
<1>2. RequestsGoOn
  <2>1. ASSUME NEW q \in Quantities, StartCreate(r, q) PROVE RequestsGoOn
    BY <2>1, RequestGoesOn, ContinuationsContain DEF StartCreate, HookPcs, Inv
  <2>2. ASSUME NEW b \in Bookings, StartCancel(r, b) \/ StartIntent(r, b) \/ StartVerify(r, b)
        PROVE  RequestsGoOn
    <3>1. PICK pc \in {"cancelRow", "payCreate", "rzCreate", "verify"} : GoesTo(r, pc, b)
      BY <2>2 DEF StartCancel, StartIntent, StartVerify
    <3>2. [pc |-> pc, booking |-> b] \in Continuations
      BY <3>1, ContinuationsContain DEF BookingPcs
    <3> QED
      BY <3>1, <3>2, RequestGoesOn DEF GoesTo, HookPcs, Inv
  <2>3. ASSUME NEW b \in Bookings, Deliver(r, b) PROVE RequestsGoOn
    <3>1. Money(b)
      <4>1. payments[b].rz \in Nat
        BY DEF Inv, TypeOK
      <4>2. payments[b].rz \in 1..offered[b]
        BY <2>3, <4>1 DEF Deliver, Inv, CapturedOffered
      <4> QED
        BY <2>3, <4>2 DEF Deliver, Money
    <3>2. [pc |-> "hook", booking |-> b] \in Continuations
      BY ContinuationsContain DEF BookingPcs
    <3> QED
      BY <2>3, <3>1, <3>2, RequestGoesOn DEF Deliver, GoesTo, Inv
  <2>4. ASSUME NEW y \in Yields, StartHarvest(r, y) PROVE RequestsGoOn
    BY <2>4, RequestGoesOn, ContinuationsContain DEF StartHarvest, HookPcs, Inv
  <2>5. CASE StartSweep(r)
    <3>1. Overdue \in SUBSET Bookings
      BY DEF Overdue, Inv, TypeOK
    <3> QED
      BY <2>5, <3>1, SweepGoesOn DEF StartSweep, Inv
  <2> QED
    BY <2>1, <2>2, <2>3, <2>4, <2>5 DEF Start
<1> QED
  BY <1>1, <1>2, QuietStep DEF rows, Inv, NoOversell

\* The rest of a handler, up to the commits of webhook and harvest.
LEMMA InvReserve ==
    ASSUME Inv, TypeOK', NEW r \in Requests, Reserve(r) \/ CancelRelease(r) \/ SetHolds(r)
    PROVE  Inv'
<1>1. RequestsGoOn
  <2>1. CASE Reserve(r)
    <3>1. req[r].quantity \in Quantities
      BY <2>1, ContinuationType DEF Reserve, At, Inv
    <3>2. /\ [pc |-> "bookRow", quantity |-> req[r].quantity] \in Continuations
          /\ [pc |-> "bookRow", quantity |-> req[r].quantity].pc \notin HookPcs
      BY <3>1, ContinuationsContain DEF HookPcs
    <3> QED
      BY <2>1, <3>2, RequestGoesOn, RequestEnds DEF Reserve, Inv
  <2> QED
    BY <2>1, RequestEnds DEF CancelRelease, SetHolds, Inv
<1> QED
  BY <1>1, QuietStep DEF Reserve, CancelRelease, SetHolds, rows, Inv, NoOversell

LEMMA InvSweepOn ==
    ASSUME Inv, TypeOK', NEW r \in Requests, SweepRelease(r) \/ SweepClear(r)
    PROVE  Inv'
<1>1. RequestsGoOn
  <2>1. CASE SweepRelease(r)
    <3>1. req[r] \in Continuations /\ req[r].pc = "sweepRelease"
      BY <2>1 DEF SweepRelease, At, Inv, TypeOK
    <3>2. /\ [req[r] EXCEPT !.pc = "sweepClear"] \in Continuations
          /\ [req[r] EXCEPT !.pc = "sweepClear"].pc = "sweepClear"
      BY <3>1 DEF Continuations, Idle, BookingPcs
    <3> QED
      BY <2>1, <3>2, RequestGoesOn DEF SweepRelease, HookPcs, Inv
  <2>2. CASE SweepClear(r)
    <3>1. req[r].todo \in SUBSET Bookings
      BY <2>2, ContinuationType DEF SweepClear, At, Inv
    <3> QED
      BY <2>2, <3>1, SweepGoesOn DEF SweepClear, Inv
  <2> QED
    BY <2>1, <2>2
<1> QED
  BY <1>1, QuietStep DEF SweepRelease, SweepClear, rows, Inv, NoOversell

LEMMA InvPay ==
    ASSUME Inv, TypeOK', NEW r \in Requests, PayCreate(r) \/ Verify(r) \/ HookRecord(r)
    PROVE  Inv'
<1>1. PICK b \in Bookings : b = req[r].booking
  BY ContinuationType DEF PayCreate, Verify, HookRecord, At, BookingPcs, Inv
<1>2. RequestsGoOn
  <2>1. CASE PayCreate(r)
    <3>1. /\ [pc |-> "rzCreate", booking |-> b] \in Continuations
          /\ [pc |-> "rzCreate", booking |-> b].pc \notin HookPcs
      BY ContinuationsContain DEF HookPcs, BookingPcs
    <3> QED
      BY <1>1, <2>1, <3>1, RequestGoesOn, RequestEnds DEF PayCreate, GoesTo, Inv
  <2> QED
    BY <2>1, RequestEnds DEF Verify, HookRecord, Inv
<1>3. \A a \in Bookings : payments[a].status = "SUCCESS" => payments'[a].status = "SUCCESS"
  <2>1. CASE PayCreate(r)
    BY <1>1, <2>1 DEF PayCreate, Inv, TypeOK
  <2> QED
    BY <1>1, <2>1, SuccessWritten DEF Verify, HookRecord, Inv
<1> QED
  BY <1>2, <1>3, QuietStep DEF PayCreate, Verify, HookRecord, razorpay, Inv, NoOversell

LEMMA InvRzCreate ==
    ASSUME Inv, TypeOK', NEW r \in Requests, RzCreate(r)
    PROVE  Inv'
<1>1. PICK b \in Bookings : b = req[r].booking
  BY ContinuationType DEF RzCreate, At, BookingPcs, Inv
<1>2. RequestsGoOn
  BY RequestEnds DEF RzCreate, Inv
<1>3. \A a \in Bookings : payments'[a].status = payments[a].status
  <2>1. payments[b] \in PaymentRow /\ offered[b] + 1 \in Nat
    BY DEF Inv, TypeOK, PaymentRow
  <2>2. [payments[b] EXCEPT !.rz = offered[b] + 1].status = payments[b].status
    BY <2>1 DEF PaymentRow
  <2>3. payments' = [payments EXCEPT ![b] = [payments[b] EXCEPT !.rz = offered[b] + 1]]
    BY <1>1 DEF RzCreate
  <2> QED
    BY <2>2, <2>3 DEF Inv, TypeOK
<1>4. \A a \in Bookings : offered[a] \in Nat /\ offered'[a] \in Nat /\ offered[a] <= offered'[a]
  BY <1>1 DEF RzCreate, Inv, TypeOK
<1>5. MoneyStays
  BY <1>4 DEF MoneyStays, RzCreate
<1>6. CapturedOffered'
  <2> SUFFICES ASSUME NEW a \in Bookings, NEW k \in Nat, <<a, k>> \in captured
               PROVE  k \in 1..offered'[a]
    BY DEF CapturedOffered, RzCreate
  <2>1. k \in 1..offered[a]
    BY DEF Inv, CapturedOffered
  <2> QED
    BY <1>4, <2>1
<1>7. RowsGoOn
  BY <1>3, RowsStay DEF RzCreate, Inv
<1> QED
  BY <1>2, <1>5, <1>6, <1>7, GoesOn DEF RzCreate, Inv, NoOversell

LEMMA InvHook ==
    ASSUME Inv, TypeOK', NEW r \in Requests,
           HookRead(r) \/ HookLog(r) \/ HookClear(r)
           \/ (HookTx(r) /\ UNCHANGED <<payments, bookings, ordered, listing>>)
    PROVE  Inv'
<1>1. PICK b \in Bookings : b = req[r].booking
  BY ContinuationType DEF HookRead, HookTx, HookLog, HookClear, At, BookingPcs, Inv
<1>2. req[r].pc \in HookPcs
  BY DEF HookRead, HookTx, HookLog, HookClear, At, HookPcs
<1>3. Becomes(r, Idle) \/ \E pc \in HookPcs : GoesTo(r, pc, b)
  BY <1>1 DEF HookRead, HookTx, HookLog, HookClear, HookPcs
<1>4. RequestsGoOn
  <2>1. ASSUME NEW pc \in HookPcs, GoesTo(r, pc, b) PROVE RequestsGoOn
    <3>1. [pc |-> pc, booking |-> b] \in Continuations /\ pc # "harvestTx"
      BY ContinuationsContain DEF HookPcs, BookingPcs
    <3> QED
      BY <1>1, <1>2, <2>1, <3>1, RequestGoesOn DEF GoesTo, Inv
  <2> QED
    BY <1>3, <2>1, RequestEnds DEF Inv
<1>5. UNCHANGED <<payments, bookings, ordered, listing, razorpay, overwritten>>
  BY DEF HookRead, HookTx, HookLog, HookClear, rows
<1> QED
  BY <1>4, <1>5, QuietStep DEF Inv, NoOversell

\* A booking gets its row, is cancelled or expires.
LEMMA InvStatus ==
    ASSUME Inv, TypeOK', NEW r \in Requests, BookRow(r) \/ CancelRow(r) \/ SweepRow(r)
    PROVE  Inv'
<1>1. RowsGoOn
  <2>1. CASE BookRow(r)
    <3>1. PICK b \in InStatus("ABSENT") :
             bookings' = [bookings EXCEPT ![b] =
                             [status |-> "QUEUED", quantity |-> req[r].quantity]]
      BY <2>1 DEF BookRow
    <3>2. \A a \in Bookings : StatusGoesOn(a)
      BY <3>1 DEF StatusGoesOn, InStatus, Inv, TypeOK
    <3> QED
      BY <2>1, <3>2 DEF BookRow, RowsGoOn
  <2>2. CASE CancelRow(r)
    <3>1. PICK b \in Bookings : b = req[r].booking
      BY <2>2, ContinuationType DEF CancelRow, At, BookingPcs, Inv
    <3>2. /\ SetStatus(b, "CANCELLED")
          /\ overwritten \subseteq overwritten'
          /\ bookings[b].status = "QUEUED" \/ b \in overwritten'
      BY <2>2, <3>1 DEF CancelRow
    <3>3. \A a \in Bookings : StatusGoesOn(a)
      BY <3>2, StatusWritten DEF StatusGoesOn, PreBookingStatus, Inv
    <3> QED
      BY <2>2, <3>2, <3>3 DEF CancelRow, RowsGoOn
  <2>3. CASE SweepRow(r)
    <3>1. req[r].todo \in SUBSET Bookings
      BY <2>3, ContinuationType DEF SweepRow, At, Inv
    <3>2. \A a \in Bookings : StatusGoesOn(a)
      BY <2>3, <3>1, StatusWritten DEF SweepRow, StillAwaiting, StatusGoesOn, PreBookingStatus, Inv
    <3> QED
      BY <2>3, <3>2 DEF SweepRow, RowsGoOn
  <2> QED
    BY <2>1, <2>2, <2>3
<1>2. RequestsGoOn
  <2>1. CASE BookRow(r)
    BY <2>1, RequestEnds DEF BookRow, Inv
  <2>2. CASE CancelRow(r)
    <3>1. PICK b \in Bookings : b = req[r].booking
      BY <2>2, ContinuationType DEF CancelRow, At, BookingPcs, Inv
    <3>2. [pc |-> "cancelRelease", booking |-> b] \in Continuations
      BY ContinuationsContain DEF BookingPcs
    <3> QED
      BY <2>2, <3>1, <3>2, RequestGoesOn DEF CancelRow, GoesTo, HookPcs, Inv
  <2>3. CASE SweepRow(r)
    <3>1. PICK b \in Bookings, S \in SUBSET Bookings :
             \/ Becomes(r, [pc |-> "sweepRelease", booking |-> b, todo |-> S])
             \/ SweepsOn(r, S)
      <4>1. req[r].todo \in SUBSET Bookings
        BY <2>3, ContinuationType DEF SweepRow, At, Inv
      <4> QED
        BY <2>3, <4>1 DEF SweepRow
    <3>2. [pc |-> "sweepRelease", booking |-> b, todo |-> S] \in Continuations
      BY ContinuationsContain
    <3>3. CASE SweepsOn(r, S)
      BY <3>3, SweepGoesOn DEF Inv
    <3>4. CASE Becomes(r, [pc |-> "sweepRelease", booking |-> b, todo |-> S])
      BY <3>2, <3>4, RequestGoesOn DEF HookPcs, Inv
    <3> QED
      BY <3>1, <3>3, <3>4
  <2> QED
    BY <2>1, <2>2, <2>3
<1>3. UNCHANGED <<razorpay, listing>>
  BY DEF BookRow, CancelRow, SweepRow
<1>4. MoneyStays /\ CapturedOffered'
  BY <1>3, MoneyUntouched DEF Inv
<1> QED
  BY <1>1, <1>2, <1>3, <1>4, GoesOn DEF Inv, NoOversell

-------------------------------------------------------------------------------
(* The transactions of webhook and harvest *)

\* What a request that was not the one to move holds of the hooks in flight.
LEMMA OtherHooks ==
    ASSUME Inv, TypeOK', NEW r \in Requests, MoneyStays,
           \A s \in Requests \ {r} : req'[s] = req[s],
           req'[r].pc \in HookPcs => Money(req'[r].booking)
    PROVE  HooksPaid'
<1>1. \A s \in Requests : req'[s].pc \in HookPcs => Money(req'[s].booking)
  BY DEF Inv, HooksPaid
<1>2. \A s \in Requests : req'[s].pc \in HookPcs => req'[s].booking \in Bookings
  <2>1. \A s \in Requests : req'[s] \in Continuations
    BY DEF TypeOK
  <2> QED
    BY <2>1 DEF Continuations, Idle, BookingPcs, HookPcs
<1>3. ASSUME NEW s \in Requests, req'[s].pc \in HookPcs PROVE Money(req[s].booking)'
  <2>1. PICK b \in Bookings : b = req'[s].booking
    BY <1>2, <1>3
  <2>2. Money(b)'
    BY <1>1, <1>3, <2>1, MoneyKept DEF Inv
  <2> QED
    BY <2>1, <2>2 DEF Money
<1> QED
  BY <1>3 DEF HooksPaid

LEMMA InvHookTx ==
    ASSUME Inv, TypeOK', NEW r \in Requests, HookTx(r),
           ~UNCHANGED <<payments, bookings, ordered, listing>>
    PROVE  Inv'
<1>1. PICK b \in Bookings : b = req[r].booking
  BY ContinuationType DEF HookTx, At, BookingPcs, Inv
<1>2. /\ StillAwaiting(b) /\ StockCovers(b)
      /\ MarkSuccess(b) /\ SetStatus(b, "CONFIRMED")
      /\ ordered' = ordered \cup {b}
      /\ listing' = [listing EXCEPT !.avail = listing.avail - bookings[b].quantity]
      /\ GoesTo(r, "hookLog", b)
      /\ UNCHANGED <<razorpay, overwritten>>
  BY <1>1 DEF HookTx
<1>3. Money(b)
  BY <1>1 DEF HookTx, At, HookPcs, Inv, HooksPaid
<1>4. MoneyStays /\ CapturedOffered'
  BY <1>2, MoneyUntouched DEF Inv
<1>5. Money(b)'
  BY <1>3, <1>4, MoneyKept DEF Inv
<1>6. /\ bookings'[b].status = "CONFIRMED"
      /\ \A a \in Bookings \ {b} : bookings'[a] = bookings[a]
  BY <1>2, StatusWritten DEF PreBookingStatus, Inv
<1>7. /\ payments'[b].status = "SUCCESS"
      /\ \A a \in Bookings : payments[a].status = "SUCCESS" => payments'[a].status = "SUCCESS"
  BY <1>2, SuccessWritten DEF Inv
<1>8. /\ req'[r] = [pc |-> "hookLog", booking |-> b]
      /\ \A s \in Requests \ {r} : req'[s] = req[s]
  BY <1>2, GoesToType DEF BookingPcs, Inv
<1>9. NoOversell'
  <2>1. listing \in ListingRow /\ bookings[b].quantity \in Nat
    BY DEF Inv, TypeOK, ListingRow
  <2>2. listing'.avail = listing.avail - bookings[b].quantity
    BY <1>2, <2>1 DEF ListingRow
  <2>3. listing.avail >= bookings[b].quantity /\ listing.avail \in Int
    BY <1>2, <2>1 DEF StockCovers, ListingRow
  <2> QED
    BY <2>1, <2>2, <2>3 DEF NoOversell
<1>10. HooksPaid'
  BY <1>3, <1>4, <1>8, OtherHooks
<1>11. ConfirmedIsPaid'
  <2>1. ASSUME NEW a \in Bookings, bookings'[a].status = "CONFIRMED" PROVE a \in ordered'
    BY <1>2, <1>6, <2>1 DEF Inv, ConfirmedIsPaid, InStatus
  <2>2. ASSUME NEW a \in ordered'
        PROVE  /\ payments'[a].status = "SUCCESS" /\ Money(a)'
               /\ \/ bookings'[a].status = "CONFIRMED"
                  \/ bookings'[a].status = "CANCELLED" /\ a \in overwritten'
    <3>1. CASE a = b
      <4>1. Money(a)'
        BY <1>5, <3>1 DEF Money
      <4> QED
        BY <1>6, <1>7, <3>1, <4>1
    <3>2. CASE a # b
      <4>1. a \in ordered /\ a \in Bookings
        BY <1>2, <2>2, <3>2 DEF Inv, TypeOK
      <4>2. payments[a].status = "SUCCESS" /\ Money(a)
        BY <4>1 DEF Inv, ConfirmedIsPaid, Paid, Money
      <4>3. Money(a)'
        BY <1>4, <4>1, <4>2, MoneyKept DEF Inv
      <4>4. \/ bookings[a].status = "CONFIRMED"
            \/ bookings[a].status = "CANCELLED" /\ a \in overwritten
        BY <4>1 DEF Inv, ConfirmedIsPaid
      <4> QED
        BY <1>2, <1>6, <1>7, <3>2, <4>1, <4>2, <4>3, <4>4
    <3> QED
      BY <3>1, <3>2
  <2> QED
    BY <2>1, <2>2 DEF ConfirmedIsPaid, InStatus, Paid, Money
<1>12. HarvestInFlight'
  <2>1. \A s \in Requests : At(s, "harvestTx")' => s # r /\ req'[s] = req[s] /\ At(s, "harvestTx")
    BY <1>8 DEF At
  <2>2. ASSUME NEW s \in Requests, At(s, "harvestTx")', NEW a \in req'[s].found
        PROVE  a \in ((InStatus("QUEUED") \cup InStatus("CANCELLED")) \ ordered)'
    <3>1. a \in (InStatus("QUEUED") \cup InStatus("CANCELLED")) \ ordered
      BY <2>1, <2>2 DEF Inv, HarvestInFlight
    <3>2. a # b
      BY <1>2, <3>1 DEF StillAwaiting, InStatus
    <3> QED
      BY <1>2, <1>6, <3>1, <3>2 DEF InStatus
  <2> QED
    BY <2>1, <2>2 DEF HarvestInFlight, Inv
<1> QED
  BY <1>4, <1>9, <1>10, <1>11, <1>12 DEF Inv

LEMMA InvHarvestScan ==
    ASSUME Inv, TypeOK', NEW r \in Requests, HarvestScan(r)
    PROVE  Inv'
<1>1. req[r].yield \in Yields /\ InStatus("QUEUED") \in SUBSET Bookings
  BY ContinuationType DEF HarvestScan, At, InStatus, Inv
<1>2. /\ req'[r].pc = "harvestTx" /\ req'[r].found = InStatus("QUEUED")
      /\ \A s \in Requests \ {r} : req'[s] = req[s]
  BY <1>1, BecomesType, ContinuationsContain DEF HarvestScan, Inv
<1>3. MoneyStays /\ CapturedOffered'
  BY MoneyUntouched DEF HarvestScan, Inv
<1>4. HooksPaid'
  BY <1>2, <1>3, OtherHooks DEF HookPcs
<1>5. UNCHANGED <<listing, bookings, payments, ordered, offered, captured, overwritten>>
  BY DEF HarvestScan, rows, razorpay
<1>6. NoOversell' /\ ConfirmedIsPaid'
  BY <1>5 DEF Inv, NoOversell, ConfirmedIsPaid, InStatus, Paid
<1>7. HarvestInFlight'
  <2>1. \A s \in Requests : At(s, "harvestTx")' => s = r
    BY <1>2 DEF HarvestScan, RowsLocked, At
  <2>2. InStatus("QUEUED") \cap ordered = {}
    BY DEF Inv, ConfirmedIsPaid, InStatus
  <2> QED
    BY <1>2, <1>5, <2>1, <2>2 DEF HarvestInFlight, InStatus
<1> QED
  BY <1>3, <1>4, <1>6, <1>7 DEF Inv

LEMMA InvHarvestTx ==
    ASSUME Inv, TypeOK', NEW r \in Requests, HarvestTx(r)
    PROVE  Inv'
<1>1. PICK y \in Nat, S \in SUBSET Bookings : y = req[r].yield /\ S = req[r].found
  BY ContinuationType, QuantityType DEF HarvestTx, At, Inv
<1>2. At(r, "harvestTx") /\ S \cap ordered = {}
  BY <1>1 DEF HarvestTx, Inv, HarvestInFlight
<1>3. /\ req'[r].pc = "setHolds"
      /\ \A s \in Requests \ {r} : req'[s] = req[s]
  BY <1>1, BecomesType, ContinuationsContain DEF HarvestTx, Inv
<1>4. MoneyStays /\ CapturedOffered'
  BY MoneyUntouched DEF HarvestTx, Inv
<1>5. HooksPaid'
  BY <1>3, <1>4, OtherHooks DEF HookPcs
<1>6. NoOversell'
  <2>1. listing' = [[listing EXCEPT !.avail = y] EXCEPT !.published = TRUE]
    BY <1>1 DEF HarvestTx, Inv, TypeOK
  <2>2. listing \in ListingRow
    BY DEF Inv, TypeOK, ListingRow
  <2>3. listing'.avail = y
    BY <2>1, <2>2 DEF ListingRow
  <2> QED
    BY <2>3 DEF NoOversell
<1>7. ConfirmedIsPaid'
  <2>1. UNCHANGED <<payments, ordered, offered, captured>> /\ overwritten \subseteq overwritten'
    BY DEF HarvestTx, razorpay
  <2>2. bookings' = [b \in Bookings |-> IF b \in S
                        THEN [bookings[b] EXCEPT !.status = "AWAITING_PAYMENT"]
                        ELSE bookings[b]]
    BY <1>1 DEF HarvestTx
  <2>3. \A b \in Bookings : [bookings[b] EXCEPT !.status = "AWAITING_PAYMENT"].status
                               = "AWAITING_PAYMENT"
    BY DEF Inv, TypeOK
  <2>4. \A b \in Bookings : bookings'[b].status = "CONFIRMED" => bookings[b].status = "CONFIRMED"
    BY <2>2, <2>3
  <2>5. \A b \in ordered : b \in Bookings /\ bookings'[b] = bookings[b]
    BY <1>2, <2>2 DEF Inv, TypeOK
  <2> QED
    BY <2>1, <2>4, <2>5 DEF Inv, ConfirmedIsPaid, InStatus, Paid
<1>8. HarvestInFlight'
  BY <1>2, <1>3 DEF Inv, HarvestInFlight, At
<1> QED
  BY <1>4, <1>5, <1>6, <1>7, <1>8 DEF Inv

LEMMA InvOther ==
    ASSUME Inv, TypeOK',
           \/ \E r \in Requests : Abort(r)
           \/ \E b \in Bookings : HoldElapses(b)
           \/ \E n \in StockEdits : UpdateListing(n)
           \/ \E q \in Quantities : DirectSale(q)
           \/ CloseListing
           \/ UNCHANGED vars
    PROVE  Inv'
<1>1. RequestsGoOn
  <2>1. CASE UNCHANGED req
    BY <2>1, RequestsStay DEF Inv
  <2>2. ASSUME NEW r \in Requests, Abort(r) PROVE RequestsGoOn
    BY <2>2, RequestEnds DEF Abort, Inv
  <2> QED
    BY <2>1, <2>2 DEF HoldElapses, UpdateListing, DirectSale, CloseListing, vars
<1>2. listing'.avail >= 0
  <2>1. listing \in ListingRow /\ listing.avail >= 0
    BY DEF Inv, TypeOK, NoOversell, ListingRow
  <2>2. ASSUME NEW n \in StockEdits, UpdateListing(n) PROVE listing'.avail >= 0
    BY <2>1, <2>2, QuantityType DEF UpdateListing, ListingRow
  <2>3. ASSUME NEW q \in Quantities, DirectSale(q) PROVE listing'.avail >= 0
    <3>1. listing' = [listing EXCEPT !.avail = listing.avail - q] /\ listing.avail >= q
      BY <2>3 DEF DirectSale
    <3> QED
      BY <2>1, <3>1, QuantityType DEF ListingRow
  <2>4. CASE CloseListing
    BY <2>1, <2>4 DEF CloseListing, ListingRow
  <2>5. CASE UNCHANGED listing
    BY <2>1, <2>5
  <2> QED
    BY <2>2, <2>3, <2>4, <2>5 DEF Abort, HoldElapses, rows, vars
<1>3. UNCHANGED <<bookings, ordered, overwritten, razorpay, payments>>
  BY DEF Abort, HoldElapses, UpdateListing, DirectSale, CloseListing, rows, vars
<1> QED
  BY <1>1, <1>2, <1>3, QuietStep

LEMMA InvCapture ==
    ASSUME Inv, TypeOK', NEW b \in Bookings, NEW k \in RzpNumbers, Pay(b, k)
    PROVE  Inv'
<1>1. /\ k \in 1..offered[b] /\ offered' = offered
      /\ captured' = captured \cup {<<b, k>>}
  BY RequestsAssumption, FS_CardinalityType DEF Pay, RzpNumbers, Inv, TypeOK
<1>2. \A a \in Bookings : offered[a] <= offered'[a]
  BY <1>1 DEF Inv, TypeOK
<1>3. MoneyStays /\ CapturedOffered'
  BY <1>1, <1>2 DEF MoneyStays, CapturedOffered, Inv
<1>4. RequestsGoOn
  BY RequestsStay DEF Pay, Inv
<1>5. RowsGoOn
  BY RowsStay DEF Pay, rows, Inv
<1> QED
  BY <1>3, <1>4, <1>5, GoesOn DEF Pay, rows, Inv, NoOversell

LEMMA InvStep == Inv /\ [Next]_vars => Inv'
<1> SUFFICES ASSUME Inv, [Next]_vars PROVE Inv'
  OBVIOUS
<1>1. TypeOK'
  BY TypeStep DEF Inv
<1>2. ASSUME NEW r \in Requests, Continue(r) PROVE Inv'
  <2>1. CASE HookTx(r)
    BY <1>1, <2>1, InvHook, InvHookTx
  <2> QED
    BY <1>1, <1>2, <2>1, InvReserve, InvSweepOn, InvPay, InvRzCreate, InvHook, InvStatus,
       InvHarvestScan, InvHarvestTx DEF Continue
<1> QED
  BY <1>1, <1>2, InvStart, InvOther, InvCapture DEF Next

LEMMA Invariance == Spec => []Inv
  BY InvInit, InvStep, PTL DEF Spec

\* Whatever commits between the reads and the transaction of a webhook, the stock
\* stays at or above zero.
THEOREM NeverOversold == Spec => []NoOversell
<1>1. Inv => NoOversell
  BY DEF Inv
<1> QED
  BY <1>1, Invariance, PTL

\* Any number of overlapping deliveries, late expiry jobs and stale cancels: a
\* confirmed booking has an order, and an order captured and recorded money.
THEOREM ConfirmedOncePaid == Spec => []ConfirmedIsPaid
<1>1. Inv => ConfirmedIsPaid
  BY DEF Inv
<1> QED
  BY <1>1, Invariance, PTL

\* At most one harvest is between its row locks and its commit, and no booking it
\* found has an order.
THEOREM OneHarvest == Spec => []HarvestInFlight
<1>1. Inv => HarvestInFlight
  BY DEF Inv
<1> QED
  BY <1>1, Invariance, PTL

-------------------------------------------------------------------------------
(* The life of a booking *)

Moves(b) == bookings[b].status # "ABSENT" /\ bookings'[b].status # bookings[b].status

LEMMA LegalMove ==
    ASSUME TypeOK, [Next]_vars, NEW b \in Bookings, Moves(b)
    PROVE  \/ <<bookings[b].status, bookings'[b].status>> \in LegalMoves
           \/ \E r \in Requests : StaleWrite(r)
<1>1. bookings' # bookings
  BY DEF Moves
<1>2. PICK r \in Requests :
         BookRow(r) \/ CancelRow(r) \/ HarvestTx(r) \/ SweepRow(r) \/ HookTx(r)
  BY <1>1 DEF Next, Start, StartCreate, StartCancel, StartIntent, StartVerify, Deliver,
        StartHarvest, StartSweep, Continue, Reserve, CancelRelease, HarvestScan, SetHolds,
        PayCreate, RzCreate, Verify, HookRead, HookRecord, HookLog, HookClear, SweepRelease,
        SweepClear, Abort, HoldElapses, Pay, UpdateListing, DirectSale, CloseListing, rows, vars
<1>3. CASE BookRow(r)
  <2>1. PICK a \in InStatus("ABSENT") :
           bookings' = [bookings EXCEPT ![a] =
                           [status |-> "QUEUED", quantity |-> req[r].quantity]]
    BY <1>3 DEF BookRow
  <2> QED
    BY <2>1 DEF Moves, InStatus, TypeOK
<1>4. CASE CancelRow(r)
  <2>1. PICK a \in Bookings : a = req[r].booking
    BY <1>4, ContinuationType DEF CancelRow, At, BookingPcs
  <2>2. SetStatus(a, "CANCELLED")
    BY <1>4, <2>1 DEF CancelRow
  <2>3. a = b /\ bookings'[b].status = "CANCELLED"
    BY <2>2, StatusWritten DEF Moves, PreBookingStatus
  <2> QED
    BY <1>4, <2>1, <2>3 DEF StaleWrite, LegalMoves
<1>5. CASE HarvestTx(r)
  <2>1. PICK S \in SUBSET Bookings : S = req[r].found
    BY <1>5, ContinuationType DEF HarvestTx, At
  <2>2. bookings' = [a \in Bookings |-> IF a \in S
                        THEN [bookings[a] EXCEPT !.status = "AWAITING_PAYMENT"]
                        ELSE bookings[a]]
    BY <1>5, <2>1 DEF HarvestTx
  <2>3. [bookings[b] EXCEPT !.status = "AWAITING_PAYMENT"].status = "AWAITING_PAYMENT"
    BY DEF TypeOK
  <2>4. b \in S /\ bookings'[b].status = "AWAITING_PAYMENT"
    BY <2>2, <2>3 DEF Moves
  <2> QED
    BY <1>5, <2>1, <2>4 DEF StaleWrite, LegalMoves, InStatus
<1>6. CASE SweepRow(r)
  <2>1. req[r].todo \in SUBSET Bookings
    BY <1>6, ContinuationType DEF SweepRow, At
  <2>2. PICK a \in Bookings : StillAwaiting(a) /\ SetStatus(a, "EXPIRED")
    BY <1>1, <1>6, <2>1 DEF SweepRow
  <2>3. a = b /\ bookings'[b].status = "EXPIRED"
    BY <2>2, StatusWritten DEF Moves, PreBookingStatus
  <2> QED
    BY <2>2, <2>3 DEF StillAwaiting, LegalMoves
<1>7. CASE HookTx(r)
  <2>1. PICK a \in Bookings : a = req[r].booking
    BY <1>7, ContinuationType DEF HookTx, At, BookingPcs
  <2>2. StillAwaiting(a) /\ SetStatus(a, "CONFIRMED")
    BY <1>1, <1>7, <2>1 DEF HookTx
  <2>3. a = b /\ bookings'[b].status = "CONFIRMED"
    BY <2>2, StatusWritten DEF Moves, PreBookingStatus
  <2> QED
    BY <2>2, <2>3 DEF StillAwaiting, LegalMoves
<1> QED
  BY <1>2, <1>3, <1>4, <1>5, <1>6, <1>7

\* A booking's status moves along its life cycle and stops at CONFIRMED, EXPIRED
\* or CANCELLED, but for a cancel or harvest that writes over what it did not read.
THEOREM LifecycleKept == Spec => BookingLifecycle
<1>1. TypeOK /\ [Next]_vars =>
        [\A b \in Bookings :
            bookings[b].status # "ABSENT" /\ bookings'[b].status # bookings[b].status =>
                \/ <<bookings[b].status, bookings'[b].status>> \in LegalMoves
                \/ \E r \in Requests : StaleWrite(r)]_vars
  BY LegalMove DEF Moves
<1> QED
  BY <1>1, PreBookingsTypeCorrect, PTL DEF Spec, BookingLifecycle

-------------------------------------------------------------------------------
(* History and holds *)

\* While no request has died, an order that is not in the history has a webhook that is
\* about to put it there.
LogInv ==
    /\ logged \subseteq ordered
    /\ \A r \in Requests : req[r].pc \in {"hookLog", "hookClear"} => req[r].booking \in ordered
    /\ aborts = 0 => \A b \in ordered \ logged :
                        \E r \in Requests : req[r].pc = "hookLog" /\ req[r].booking = b

\* The job only works on bookings past their 48 hours, and a booking inside them that has
\* no hold yet is one the harvest is about to give it to.
SweepSound(cont) ==
    /\ cont.pc \in {"sweep", "sweepRelease", "sweepClear"} => cont.todo \subseteq due
    /\ cont.pc \in {"sweepRelease", "sweepClear"} => cont.booking \in due
Unheld == (InStatus("AWAITING_PAYMENT") \ due) \ holds
HoldInv ==
    /\ \A r \in Requests : SweepSound(req[r])
    /\ aborts = 0 => \A b \in Unheld :
                        \E r \in Requests : req[r].pc = "setHolds" /\ b \in req[r].found

LEMMA LogQuiet ==
    ASSUME LogInv, UNCHANGED <<ordered, logged, aborts>>,
           \A r \in Requests :
              /\ req[r].pc = "hookLog" => req'[r] = req[r]
              /\ req'[r].pc \in {"hookLog", "hookClear"} => req'[r] = req[r]
    PROVE  LogInv'
  BY DEF LogInv

LEMMA HoldQuiet ==
    ASSUME HoldInv, UNCHANGED aborts, due \subseteq due', Unheld' \subseteq Unheld,
           \A r \in Requests :
              /\ req[r].pc = "setHolds" => req'[r] = req[r]
              /\ req'[r] = req[r] \/ SweepSound(req[r])'
    PROVE  HoldInv'
<1>1. \A r \in Requests : SweepSound(req[r])'
  BY DEF HoldInv, SweepSound
<1> QED
  BY <1>1 DEF HoldInv

LEMMA OthersStay ==
    ASSUME TypeOK, NEW r \in Requests, Start(r) \/ Continue(r) \/ Abort(r)
    PROVE  \A s \in Requests \ {r} : req'[s] = req[s]
<1>1. \E cont : Becomes(r, cont)
  BY DEF Start, StartCreate, StartCancel, StartIntent, StartVerify, Deliver, StartHarvest,
     StartSweep, Continue, Reserve, BookRow, CancelRow, CancelRelease, HarvestScan, HarvestTx,
     SetHolds, PayCreate, RzCreate, Verify, HookRead, HookTx, HookRecord, HookLog, HookClear,
     SweepRow, SweepRelease, SweepClear, Abort, GoesTo, SweepsOn
<1> QED
  BY <1>1 DEF Becomes, TypeOK

\* The steps that neither finish a sweep nor leave history or holds behind.
PlainStep(r) ==
    \/ \E q \in Quantities : StartCreate(r, q)
    \/ \E b \in Bookings : StartCancel(r, b) \/ StartIntent(r, b) \/ StartVerify(r, b)
                           \/ Deliver(r, b)
    \/ \E y \in Yields : StartHarvest(r, y)
    \/ Reserve(r) \/ BookRow(r) \/ CancelRow(r) \/ CancelRelease(r) \/ HarvestScan(r)
    \/ PayCreate(r) \/ RzCreate(r) \/ Verify(r) \/ HookRead(r) \/ HookRecord(r)
    \/ (HookTx(r) /\ UNCHANGED <<payments, bookings, ordered, listing>>)

LEMMA PlainMoves ==
    ASSUME TypeOK, NEW r \in Requests, PlainStep(r)
    PROVE  /\ req[r].pc \notin {"hookLog", "setHolds"}
           /\ req'[r].pc \notin {"hookLog", "hookClear", "sweep", "sweepRelease", "sweepClear"}
           /\ UNCHANGED <<ordered, logged, holds, due, aborts>>
<1>1. req[r].pc \notin {"hookLog", "setHolds"}
  <2>1. \/ req[r] = Idle
        \/ req[r].pc \in {"reserve", "bookRow", "cancelRow", "cancelRelease", "harvestScan",
                          "payCreate", "rzCreate", "verify", "hook", "hookRecord", "hookTx"}
    BY DEF PlainStep, StartCreate, StartCancel, StartIntent, StartVerify, Deliver, StartHarvest,
       Reserve, BookRow, CancelRow, CancelRelease, HarvestScan, PayCreate, RzCreate, Verify,
       HookRead, HookRecord, HookTx, At
  <2> QED
    BY <2>1 DEF Idle
<1>2. \A cont : Becomes(r, cont) => req'[r] = cont
  BY DEF Becomes, TypeOK
<1>3. UNCHANGED <<ordered, logged, holds, due, aborts>>
  BY DEF PlainStep, StartCreate, StartCancel, StartIntent, StartVerify, Deliver, StartHarvest,
     Reserve, BookRow, CancelRow, CancelRelease, HarvestScan, PayCreate, RzCreate, Verify,
     HookRead, HookRecord, HookTx, rows, redis
<1>4. \/ \E b, pc : /\ pc \in {"cancelRow", "payCreate", "rzCreate", "verify", "hook",
                               "cancelRelease", "hookTx", "hookRecord"}
                    /\ Becomes(r, [pc |-> pc, booking |-> b])
      \/ \E q, pc : pc \in {"reserve", "bookRow"} /\ Becomes(r, [pc |-> pc, quantity |-> q])
      \/ \E y : Becomes(r, [pc |-> "harvestScan", yield |-> y])
      \/ \E y, S : Becomes(r, [pc |-> "harvestTx", yield |-> y, found |-> S])
      \/ Becomes(r, Idle)
  <2>1. ASSUME NEW b \in Bookings,
               StartCancel(r, b) \/ StartIntent(r, b) \/ StartVerify(r, b) \/ Deliver(r, b)
        PROVE  \E pc : /\ pc \in {"cancelRow", "payCreate", "rzCreate", "verify", "hook"}
                       /\ Becomes(r, [pc |-> pc, booking |-> b])
    BY <2>1 DEF StartCancel, StartIntent, StartVerify, Deliver, GoesTo
  <2>2. CASE CancelRow(r) \/ PayCreate(r) \/ HookRead(r)
    BY <2>2 DEF CancelRow, PayCreate, HookRead, GoesTo
  <2>3. CASE HookTx(r) /\ UNCHANGED <<payments, bookings, ordered, listing>>
    <3>1. Becomes(r, [pc |-> "hookRecord", booking |-> req[r].booking])
          \/ (MarkSuccess(req[r].booking) /\ SetStatus(req[r].booking, "CONFIRMED")
              /\ StillAwaiting(req[r].booking))
      BY <2>3 DEF HookTx, GoesTo
    <3>2. req[r].booking \in Bookings
      BY <2>3, ContinuationType DEF HookTx, At, BookingPcs
    <3>3. SetStatus(req[r].booking, "CONFIRMED") /\ StillAwaiting(req[r].booking) => FALSE
      BY <2>3, <3>2, StatusWritten DEF StillAwaiting, PreBookingStatus
    <3> QED
      BY <3>1, <3>3
  <2>4. CASE CancelRelease(r) \/ BookRow(r) \/ RzCreate(r) \/ Verify(r) \/ HookRecord(r)
    BY <2>4 DEF CancelRelease, BookRow, RzCreate, Verify, HookRecord
  <2>5. CASE Reserve(r) \/ HarvestScan(r)
    BY <2>5 DEF Reserve, HarvestScan
  <2>6. CASE (\E q \in Quantities : StartCreate(r, q)) \/ \E y \in Yields : StartHarvest(r, y)
    BY <2>6 DEF StartCreate, StartHarvest
  <2> QED
    BY <2>1, <2>2, <2>3, <2>4, <2>5, <2>6 DEF PlainStep
<1>5. req'[r].pc \notin {"hookLog", "hookClear", "sweep", "sweepRelease", "sweepClear"}
  <2>1. ASSUME NEW b, NEW pc \in {"cancelRow", "payCreate", "rzCreate", "verify", "hook",
                                  "cancelRelease", "hookTx", "hookRecord"},
               req'[r] = [pc |-> pc, booking |-> b]
        PROVE  req'[r].pc \notin {"hookLog", "hookClear", "sweep", "sweepRelease", "sweepClear"}
    BY <2>1
  <2>2. ASSUME NEW q, NEW pc \in {"reserve", "bookRow"}, req'[r] = [pc |-> pc, quantity |-> q]
        PROVE  req'[r].pc \notin {"hookLog", "hookClear", "sweep", "sweepRelease", "sweepClear"}
    BY <2>2
  <2>3. \A y : req'[r] = [pc |-> "harvestScan", yield |-> y] => req'[r].pc = "harvestScan"
    OBVIOUS
  <2>4. \A y, S : req'[r] = [pc |-> "harvestTx", yield |-> y, found |-> S]
                    => req'[r].pc = "harvestTx"
    OBVIOUS
  <2>5. req'[r] = Idle => req'[r].pc = "idle"
    BY DEF Idle
  <2>6. CASE \E b, pc : /\ pc \in {"cancelRow", "payCreate", "rzCreate", "verify", "hook",
                                   "cancelRelease", "hookTx", "hookRecord"}
                        /\ Becomes(r, [pc |-> pc, booking |-> b])
    BY <1>2, <2>1, <2>6
  <2>7. CASE \E q, pc : pc \in {"reserve", "bookRow"} /\ Becomes(r, [pc |-> pc, quantity |-> q])
    BY <1>2, <2>2, <2>7
  <2>8. CASE \E y : Becomes(r, [pc |-> "harvestScan", yield |-> y])
    BY <1>2, <2>3, <2>8
  <2>9. CASE \E y, S : Becomes(r, [pc |-> "harvestTx", yield |-> y, found |-> S])
    BY <1>2, <2>4, <2>9
  <2>10. CASE Becomes(r, Idle)
    BY <1>2, <2>5, <2>10
  <2> QED
    BY <1>4, <2>6, <2>7, <2>8, <2>9, <2>10
<1> QED
  BY <1>1, <1>3, <1>5

\* What happens outside any request.
WorldStep ==
    \/ \E b \in Bookings : HoldElapses(b) \/ \E k \in RzpNumbers : Pay(b, k)
    \/ \E n \in StockEdits : UpdateListing(n)
    \/ \E q \in Quantities : DirectSale(q)
    \/ CloseListing
    \/ UNCHANGED vars

CommitStep(r) == HookTx(r) /\ ~UNCHANGED <<payments, bookings, ordered, listing>>

SideStep(r) ==
    \/ PlainStep(r) \/ CommitStep(r) \/ HookLog(r) \/ HookClear(r)
    \/ StartSweep(r) \/ SweepRow(r) \/ SweepRelease(r) \/ SweepClear(r)
    \/ HarvestTx(r) \/ SetHolds(r) \/ Abort(r)

LEMMA StepKinds ==
    ASSUME [Next]_vars
    PROVE  \/ WorldStep
           \/ \E r \in Requests : SideStep(r) /\ (Start(r) \/ Continue(r) \/ Abort(r))
  BY DEF Next, Start, Continue, WorldStep, SideStep, PlainStep, CommitStep

\* Where a request is when it sweeps, gives holds or clears one.
LEMMA SweepMoves ==
    ASSUME TypeOK, HoldInv, NEW r \in Requests,
           StartSweep(r) \/ SweepRow(r) \/ SweepRelease(r) \/ SweepClear(r)
    PROVE  /\ req[r].pc \in {"idle", "sweep", "sweepRelease", "sweepClear"}
           /\ req'[r].pc \in {"idle", "sweep", "sweepRelease", "sweepClear"}
           /\ UNCHANGED <<ordered, logged, due, aborts>>
           /\ SweepSound(req[r])'
<1>1. \A cont : Becomes(r, cont) => req'[r] = cont
  BY DEF Becomes, TypeOK
<1>2. UNCHANGED <<ordered, logged, due, aborts>>
  BY DEF StartSweep, SweepRow, SweepRelease, SweepClear, rows
<1>3. ASSUME NEW S, S \subseteq due, SweepsOn(r, S)
      PROVE  req'[r].pc \in {"idle", "sweep"} /\ SweepSound(req[r])'
  <2>1. CASE S = {}
    BY <1>1, <1>3, <2>1 DEF SweepsOn, SweepSound, Idle
  <2>2. CASE S # {}
    <3>1. req'[r] = [pc |-> "sweep", todo |-> S]
      BY <1>1, <1>3, <2>2 DEF SweepsOn
    <3> QED
      BY <1>2, <1>3, <3>1 DEF SweepSound
  <2> QED
    BY <2>1, <2>2
<1>4. CASE StartSweep(r)
  BY <1>2, <1>3, <1>4 DEF StartSweep, Overdue, Idle
<1>5. CASE SweepRow(r)
  <2>1. req[r].pc = "sweep" /\ req[r].todo \subseteq due
    BY <1>5 DEF SweepRow, At, HoldInv, SweepSound
  <2>2. PICK b \in due, S \in SUBSET due :
           \/ Becomes(r, [pc |-> "sweepRelease", booking |-> b, todo |-> S])
           \/ SweepsOn(r, S)
    BY <1>5, <2>1 DEF SweepRow
  <2>3. CASE SweepsOn(r, S)
    BY <1>2, <1>3, <2>1, <2>3
  <2>4. CASE Becomes(r, [pc |-> "sweepRelease", booking |-> b, todo |-> S])
    <3>1. req'[r] = [pc |-> "sweepRelease", booking |-> b, todo |-> S]
      BY <1>1, <2>4
    <3> QED
      BY <1>2, <2>1, <3>1 DEF SweepSound
  <2> QED
    BY <2>2, <2>3, <2>4
<1>6. CASE SweepRelease(r)
  <2>1. req[r] \in Continuations /\ req[r].pc = "sweepRelease"
    BY <1>6 DEF SweepRelease, At, TypeOK
  <2>2. req'[r] = [req[r] EXCEPT !.pc = "sweepClear"]
    BY <1>1, <1>6 DEF SweepRelease
  <2>3. /\ req'[r].pc = "sweepClear" /\ req'[r].todo = req[r].todo
        /\ req'[r].booking = req[r].booking
    BY <2>1, <2>2 DEF Continuations, Idle, BookingPcs
  <2> QED
    BY <1>2, <2>1, <2>3 DEF SweepSound, HoldInv
<1>7. CASE SweepClear(r)
  <2>1. req[r].pc = "sweepClear" /\ req[r].todo \subseteq due
    BY <1>7 DEF SweepClear, At, HoldInv, SweepSound
  <2> QED
    BY <1>2, <1>3, <1>7, <2>1 DEF SweepClear
<1> QED
  BY <1>4, <1>5, <1>6, <1>7

\* A webhook's commit, and the two steps after it.
HookMoved(r, b) ==
    /\ b = req[r].booking /\ UNCHANGED <<due, aborts>>
    /\ \/ /\ CommitStep(r) /\ req[r].pc = "hookTx"
          /\ req'[r] = [pc |-> "hookLog", booking |-> b]
          /\ ordered' = ordered \cup {b} /\ UNCHANGED <<logged, holds>>
          /\ SetStatus(b, "CONFIRMED")
       \/ /\ HookLog(r) /\ req[r].pc = "hookLog"
          /\ req'[r] = [pc |-> "hookClear", booking |-> b]
          /\ logged' = logged \cup {b} /\ UNCHANGED <<ordered, holds, bookings>>
       \/ /\ HookClear(r) /\ req[r].pc = "hookClear" /\ req'[r].pc = "idle"
          /\ holds' = holds \ {b} /\ UNCHANGED <<ordered, logged, bookings>>

LEMMA HookMoves ==
    ASSUME TypeOK, NEW r \in Requests, CommitStep(r) \/ HookLog(r) \/ HookClear(r)
    PROVE  \E b \in Bookings : HookMoved(r, b)
<1>1. PICK b \in Bookings : b = req[r].booking
  BY ContinuationType DEF CommitStep, HookTx, HookLog, HookClear, At, BookingPcs
<1>2. \A cont : Becomes(r, cont) => req'[r] = cont
  BY DEF Becomes, TypeOK
<1>3. CASE CommitStep(r)
  <2>1. GoesTo(r, "hookLog", b)
    BY <1>1, <1>3 DEF CommitStep, HookTx
  <2>2. req'[r] = [pc |-> "hookLog", booking |-> b]
    BY <1>2, <2>1 DEF GoesTo
  <2> QED
    BY <1>1, <1>3, <2>2 DEF HookMoved, CommitStep, HookTx, At, redis
<1>4. CASE HookLog(r)
  <2>1. GoesTo(r, "hookClear", b)
    BY <1>1, <1>4 DEF HookLog
  <2>2. req'[r] = [pc |-> "hookClear", booking |-> b]
    BY <1>2, <2>1 DEF GoesTo
  <2> QED
    BY <1>1, <1>4, <2>2 DEF HookMoved, HookLog, At, rows, redis
<1>5. CASE HookClear(r)
  <2>1. req'[r] = Idle
    BY <1>2, <1>5 DEF HookClear
  <2> QED
    BY <1>1, <1>5, <2>1 DEF HookMoved, HookClear, At, rows, Idle
<1> QED
  BY <1>3, <1>4, <1>5

LEMMA HarvestMoves ==
    ASSUME TypeOK, NEW r \in Requests, HarvestTx(r) \/ SetHolds(r)
    PROVE  /\ UNCHANGED <<ordered, logged, due, aborts>>
           /\ req[r].pc \in {"harvestTx", "setHolds"} /\ req'[r].pc \in {"setHolds", "idle"}
           /\ \/ /\ HarvestTx(r) /\ req[r].pc = "harvestTx"
                 /\ req'[r] = [pc |-> "setHolds", found |-> req[r].found]
                 /\ UNCHANGED holds
                 /\ bookings' = [b \in Bookings |-> IF b \in req[r].found
                        THEN [bookings[b] EXCEPT !.status = "AWAITING_PAYMENT"]
                        ELSE bookings[b]]
              \/ /\ SetHolds(r) /\ req[r].pc = "setHolds" /\ req'[r] = Idle
                 /\ holds' = holds \cup req[r].found /\ UNCHANGED bookings
<1>1. \A cont : Becomes(r, cont) => req'[r] = cont
  BY DEF Becomes, TypeOK
<1>2. CASE HarvestTx(r)
  <2>1. req'[r] = [pc |-> "setHolds", found |-> req[r].found]
    BY <1>1, <1>2 DEF HarvestTx
  <2> QED
    BY <1>2, <2>1 DEF HarvestTx, At, redis
<1>3. CASE SetHolds(r)
  <2>1. req'[r] = Idle
    BY <1>1, <1>3 DEF SetHolds
  <2>2. req'[r].pc = "idle"
    BY <2>1 DEF Idle
  <2> QED
    BY <1>3, <2>1, <2>2 DEF SetHolds, At, rows
<1> QED
  BY <1>2, <1>3

LEMMA LogStep ==
    ASSUME TypeOK, LogInv, HoldInv, [Next]_vars
    PROVE  LogInv'
<1>1. CASE WorldStep
  <2>1. UNCHANGED <<ordered, logged, aborts, req>>
    BY <1>1 DEF WorldStep, HoldElapses, Pay, UpdateListing, DirectSale, CloseListing, rows, vars
  <2> QED
    BY <2>1, LogQuiet
<1>2. ASSUME NEW r \in Requests, SideStep(r), \A s \in Requests \ {r} : req'[s] = req[s]
      PROVE  LogInv'
  <2>1. CASE PlainStep(r)
    BY <1>2, <2>1, PlainMoves, LogQuiet
  <2>2. CASE StartSweep(r) \/ SweepRow(r) \/ SweepRelease(r) \/ SweepClear(r)
    BY <1>2, <2>2, SweepMoves, LogQuiet
  <2>3. CASE HarvestTx(r) \/ SetHolds(r)
    <3>1. /\ req[r].pc # "hookLog" /\ req'[r].pc \notin {"hookLog", "hookClear"}
          /\ UNCHANGED <<ordered, logged, aborts>>
      BY <2>3, HarvestMoves
    <3> QED
      BY <1>2, <3>1, LogQuiet
  <2>4. CASE CommitStep(r) \/ HookLog(r) \/ HookClear(r)
    <3>1. PICK b \in Bookings : HookMoved(r, b)
      BY <2>4, HookMoves
    <3> QED
      BY <1>2, <3>1 DEF HookMoved, LogInv
  <2>5. CASE Abort(r)
    <3>1. aborts' # 0 /\ req'[r] = Idle /\ UNCHANGED <<ordered, logged>>
      BY <2>5 DEF Abort, Becomes, TypeOK, rows
    <3> QED
      BY <1>2, <3>1 DEF LogInv, Idle
  <2> QED
    BY <1>2, <2>1, <2>2, <2>3, <2>4, <2>5 DEF SideStep
<1> QED
  BY <1>1, <1>2, StepKinds, OthersStay

\* Only the harvest puts a booking up for payment, and only the last two steps of a webhook
\* or of the job take a hold away.
LEMMA UnheldShrinks ==
    ASSUME TypeOK, UNCHANGED <<due, holds>>,
           \/ UNCHANGED bookings
           \/ \E b \in Bookings : \E s \in {"CANCELLED", "EXPIRED", "CONFIRMED"} : SetStatus(b, s)
           \/ \E b \in Bookings, q \in Nat :
                 bookings' = [bookings EXCEPT ![b] = [status |-> "QUEUED", quantity |-> q]]
    PROVE  Unheld' \subseteq Unheld
<1>1. InStatus("AWAITING_PAYMENT")' \subseteq InStatus("AWAITING_PAYMENT")
  <2>1. CASE UNCHANGED bookings
    BY <2>1 DEF InStatus
  <2>2. ASSUME NEW b \in Bookings, NEW s \in {"CANCELLED", "EXPIRED", "CONFIRMED"},
               SetStatus(b, s)
        PROVE  InStatus("AWAITING_PAYMENT")' \subseteq InStatus("AWAITING_PAYMENT")
    BY <2>2, StatusWritten DEF InStatus, PreBookingStatus
  <2>3. ASSUME NEW b \in Bookings, NEW q \in Nat,
               bookings' = [bookings EXCEPT ![b] = [status |-> "QUEUED", quantity |-> q]]
        PROVE  InStatus("AWAITING_PAYMENT")' \subseteq InStatus("AWAITING_PAYMENT")
    <3>1. bookings'[b].status = "QUEUED"
      BY <2>3 DEF TypeOK
    <3>2. \A a \in Bookings \ {b} : bookings'[a] = bookings[a]
      BY <2>3 DEF TypeOK
    <3> QED
      BY <3>1, <3>2 DEF InStatus
  <2> QED
    BY <2>1, <2>2, <2>3
<1> QED
  BY <1>1 DEF Unheld

LEMMA HoldWorld ==
    ASSUME TypeOK, HoldInv, WorldStep
    PROVE  HoldInv'
<1>1. /\ UNCHANGED <<bookings, aborts, req>> /\ due \subseteq due'
      /\ \/ UNCHANGED <<due, holds>>
         \/ \E b \in Bookings : due' = due \cup {b} /\ holds' = holds \ {b}
  BY DEF WorldStep, HoldElapses, Pay, UpdateListing, DirectSale, CloseListing, rows, redis, vars
<1>2. Unheld' \subseteq Unheld
  BY <1>1 DEF Unheld, InStatus
<1> QED
  BY <1>1, <1>2, HoldQuiet

LEMMA HoldPlain ==
    ASSUME TypeOK, HoldInv, NEW r \in Requests, PlainStep(r),
           \A s \in Requests \ {r} : req'[s] = req[s]
    PROVE  HoldInv'
<1>1. /\ req[r].pc # "setHolds" /\ UNCHANGED <<holds, due, aborts>>
      /\ req'[r].pc \notin {"sweep", "sweepRelease", "sweepClear"}
  BY PlainMoves
<1>2. \/ UNCHANGED bookings
      \/ \E b \in Bookings : \E s \in {"CANCELLED", "EXPIRED", "CONFIRMED"} : SetStatus(b, s)
      \/ \E b \in Bookings, q \in Nat :
            bookings' = [bookings EXCEPT ![b] = [status |-> "QUEUED", quantity |-> q]]
  <2>1. CASE BookRow(r)
    <3>1. req[r].quantity \in Nat
      BY <2>1, ContinuationType, QuantitiesAssumption DEF BookRow, At
    <3> QED
      BY <2>1, <3>1 DEF BookRow, InStatus
  <2>2. CASE CancelRow(r)
    <3>1. req[r].booking \in Bookings
      BY <2>2, ContinuationType DEF CancelRow, At, BookingPcs
    <3> QED
      BY <2>2, <3>1 DEF CancelRow
  <2>3. CASE ~BookRow(r) /\ ~CancelRow(r)
    BY <2>3 DEF PlainStep, StartCreate, StartCancel, StartIntent, StartVerify, Deliver,
       StartHarvest, Reserve, CancelRelease, HarvestScan, PayCreate, RzCreate, Verify, HookRead,
       HookRecord, rows
  <2> QED
    BY <2>1, <2>2, <2>3
<1>3. Unheld' \subseteq Unheld
  BY <1>1, <1>2, UnheldShrinks
<1>4. SweepSound(req[r])'
  BY <1>1 DEF SweepSound
<1> QED
  BY <1>1, <1>3, <1>4, HoldQuiet

LEMMA HoldSweep ==
    ASSUME TypeOK, HoldInv, NEW r \in Requests,
           StartSweep(r) \/ SweepRow(r) \/ SweepRelease(r) \/ SweepClear(r),
           \A s \in Requests \ {r} : req'[s] = req[s]
    PROVE  HoldInv'
<1>1. /\ req[r].pc # "setHolds" /\ UNCHANGED <<due, aborts>> /\ SweepSound(req[r])'
  BY SweepMoves
<1>2. Unheld' \subseteq Unheld
  <2>1. CASE StartSweep(r) \/ SweepRelease(r)
    <3>1. UNCHANGED <<due, holds, bookings>>
      BY <2>1 DEF StartSweep, SweepRelease, rows, redis
    <3> QED
      BY <3>1, UnheldShrinks
  <2>2. CASE SweepRow(r)
    <3>1. req[r].todo \in SUBSET Bookings
      BY <2>2, ContinuationType DEF SweepRow, At
    <3>2. /\ UNCHANGED <<due, holds>>
          /\ UNCHANGED bookings \/ \E b \in Bookings : SetStatus(b, "EXPIRED")
      BY <2>2, <3>1 DEF SweepRow, redis
    <3> QED
      BY <3>2, UnheldShrinks
  <2>3. CASE SweepClear(r)
    <3>1. req[r].booking \in due
      BY <2>3 DEF SweepClear, At, HoldInv, SweepSound
    <3>2. UNCHANGED <<due, bookings>> /\ holds' = holds \ {req[r].booking}
      BY <2>3 DEF SweepClear, rows
    <3> QED
      BY <3>1, <3>2 DEF Unheld, InStatus
  <2> QED
    BY <2>1, <2>2, <2>3
<1> QED
  BY <1>1, <1>2, HoldQuiet

\* A webhook clears the hold of a booking that is confirmed.
LEMMA HoldHook ==
    ASSUME TypeOK, ConfirmedIsPaid, LogInv, HoldInv, NEW r \in Requests,
           CommitStep(r) \/ HookLog(r) \/ HookClear(r),
           \A s \in Requests \ {r} : req'[s] = req[s]
    PROVE  HoldInv'
<1>1. PICK b \in Bookings : HookMoved(r, b)
  BY HookMoves
<1>2. Unheld' \subseteq Unheld
  <2>1. CASE holds' = holds
    BY <1>1, <2>1, UnheldShrinks DEF HookMoved
  <2>2. CASE HookClear(r) /\ req[r].pc = "hookClear" /\ holds' = holds \ {b}
             /\ UNCHANGED <<ordered, logged, bookings>>
    <3>1. b \in ordered
      BY <1>1, <2>2 DEF HookMoved, LogInv
    <3>2. b \notin InStatus("AWAITING_PAYMENT")
      BY <3>1 DEF ConfirmedIsPaid, InStatus
    <3> QED
      BY <1>1, <2>2, <3>2 DEF HookMoved, Unheld, InStatus
  <2> QED
    BY <1>1, <2>1, <2>2 DEF HookMoved
<1>3. /\ req[r].pc # "setHolds" /\ UNCHANGED <<due, aborts>>
      /\ req'[r].pc \notin {"sweep", "sweepRelease", "sweepClear"}
  BY <1>1 DEF HookMoved
<1>4. SweepSound(req[r])'
  BY <1>3 DEF SweepSound
<1> QED
  BY <1>2, <1>3, <1>4, HoldQuiet

LEMMA HoldHarvest ==
    ASSUME TypeOK, HoldInv, NEW r \in Requests, HarvestTx(r) \/ SetHolds(r),
           \A s \in Requests \ {r} : req'[s] = req[s]
    PROVE  HoldInv'
<1>1. /\ UNCHANGED <<due, aborts>>
      /\ req'[r].pc \notin {"sweep", "sweepRelease", "sweepClear"}
  BY HarvestMoves
<1>2. \A s \in Requests : SweepSound(req[s])'
  BY <1>1 DEF SweepSound, HoldInv
<1>3. ASSUME aborts = 0, NEW b \in Unheld'
      PROVE  \E s \in Requests : req'[s].pc = "setHolds" /\ b \in req'[s].found
  <2>1. b \in Bookings
    BY <1>3 DEF Unheld, InStatus
  <2>2. CASE HarvestTx(r)
    <3>1. /\ req'[r] = [pc |-> "setHolds", found |-> req[r].found] /\ UNCHANGED holds
          /\ req[r].pc = "harvestTx"
          /\ bookings' = [a \in Bookings |-> IF a \in req[r].found
                 THEN [bookings[a] EXCEPT !.status = "AWAITING_PAYMENT"]
                 ELSE bookings[a]]
      BY <2>2, HarvestMoves DEF HarvestTx, SetHolds, At
    <3>2. CASE b \in req[r].found
      BY <3>1, <3>2
    <3>3. CASE b \notin req[r].found
      <4>1. b \in Unheld
        <5>1. bookings'[b] = bookings[b]
          BY <2>1, <3>1, <3>3
        <5> QED
          BY <1>1, <1>3, <3>1, <5>1 DEF Unheld, InStatus
      <4> QED
        BY <1>3, <3>1, <4>1 DEF HoldInv
    <3> QED
      BY <3>2, <3>3
  <2>3. CASE SetHolds(r)
    <3>1. holds' = holds \cup req[r].found /\ UNCHANGED bookings
      BY <2>3 DEF SetHolds, rows
    <3>2. b \in Unheld /\ b \notin req[r].found
      BY <1>1, <1>3, <3>1 DEF Unheld, InStatus
    <3> QED
      BY <1>3, <3>2 DEF HoldInv
  <2> QED
    BY <2>2, <2>3
<1> QED
  BY <1>1, <1>2, <1>3 DEF HoldInv

LEMMA HoldStep ==
    ASSUME TypeOK, ConfirmedIsPaid, LogInv, HoldInv, [Next]_vars
    PROVE  HoldInv'
<1>1. CASE WorldStep
  BY <1>1, HoldWorld
<1>2. ASSUME NEW r \in Requests, SideStep(r), \A s \in Requests \ {r} : req'[s] = req[s]
      PROVE  HoldInv'
  <2>1. CASE PlainStep(r)
    BY <1>2, <2>1, HoldPlain
  <2>2. CASE StartSweep(r) \/ SweepRow(r) \/ SweepRelease(r) \/ SweepClear(r)
    BY <1>2, <2>2, HoldSweep
  <2>3. CASE HarvestTx(r) \/ SetHolds(r)
    BY <1>2, <2>3, HoldHarvest
  <2>4. CASE CommitStep(r) \/ HookLog(r) \/ HookClear(r)
    BY <1>2, <2>4, HoldHook
  <2>5. CASE Abort(r)
    <3>1. aborts' # 0 /\ req'[r] = Idle /\ UNCHANGED due
      BY <2>5 DEF Abort, Becomes, TypeOK
    <3> QED
      BY <1>2, <3>1 DEF HoldInv, SweepSound, Idle
  <2> QED
    BY <1>2, <2>1, <2>2, <2>3, <2>4, <2>5 DEF SideStep
<1> QED
  BY <1>1, <1>2, StepKinds, OthersStay

\* When no request has died and none is in flight, the history holds exactly the orders
\* there are, and every booking inside its 48 hours has its hold.
THEOREM SideStores == Spec => []SideStoresAgree
<1>1. Init => LogInv /\ HoldInv
  BY DEF Init, LogInv, HoldInv, SweepSound, Unheld, InStatus, Idle
<1>2. Inv /\ LogInv /\ HoldInv /\ [Next]_vars => LogInv' /\ HoldInv'
  BY LogStep, HoldStep DEF Inv
<1>3. LogInv /\ HoldInv => SideStoresAgree
  <2>1. Idle.pc = "idle"
    BY DEF Idle
  <2> QED
    BY <2>1 DEF LogInv, HoldInv, Unheld, SideStoresAgree
<1> QED
  BY <1>1, <1>2, <1>3, Invariance, PTL DEF Spec

===============================================================================
