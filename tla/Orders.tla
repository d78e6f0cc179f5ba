-------------------------------- MODULE Orders --------------------------------
(*****************************************************************************)
(* Direct orders against one listing: cash-on-delivery and prepaid checkout, *)
(* the Razorpay webhook that turns a captured payment into an order, the     *)
(* grower's status steps, the buyer's cancel, the admin's dispute, and the   *)
(* grower's stock edits.  Every await of a handler is a place where another  *)
(* handler may run, so each handler is cut there: req[r] holds what request  *)
(* r keeps in its local variables between two of its database calls.         *)
(*                                                                           *)
(* One statement, and one $transaction, is one step (READ COMMITTED, row     *)
(* locks held to the commit).  Prices, addresses and the retail ceiling      *)
(* decide only which orders are accepted; any quantity in Quantities is.     *)
(*****************************************************************************)
EXTENDS Integers, FiniteSets

CONSTANTS
    OrderIds,       \* primary keys of "Order"
    Intents,        \* primary keys of "OrderIntent" (and of their Razorpay orders)
    Requests,       \* slots for HTTP requests in flight
    Quantities,     \* the quantities buyers order
    StockEdits,     \* the stock figures the grower sets by hand
    Methods,        \* the payment methods in use: "COD", "ONLINE"
    Deliveries,     \* the delivery methods in use: "DELIVERY", "PICKUP"
    InitialStock,   \* availableQuantity the listing was created with
    MaxDeliveries,  \* webhook deliveries of one payment handled at a time
    MaxAborts,      \* bound: requests that die half way
    None            \* SQL NULL

ASSUME QuantitiesAssumption == (Quantities \cup StockEdits) \subseteq Nat \ {0}
ASSUME StockAssumption == InitialStock \in Nat
ASSUME OrderIdsAssumption == OrderIds # {} /\ None \notin OrderIds
ASSUME BoundsAssumption == MaxDeliveries \in Nat /\ MaxAborts \in Nat
ASSUME RequestsAssumption == IsFiniteSet(Requests)
ASSUME MethodsAssumption ==
    Methods \subseteq {"COD", "ONLINE"} /\ Deliveries \subseteq {"DELIVERY", "PICKUP"}

VARIABLES
    listing,    \* the Listing row
    orders,     \* the Order rows; an id not yet used has status "ABSENT"
    intents,    \* the OrderIntent rows; quantity 0 while there is none
    payments,   \* the Payment row of each intent
    captured,   \* intents whose money Razorpay has captured
    logged,     \* statuses in the Mongo OrderStatusHistory of each order
    req,        \* the continuation of each request in flight
    aborts,     \* requests that died half way
    overwritten, \* history: orders whose status a stale step overwrote
    made,       \* history: the orders the webhook made for each intent
    overlap,    \* history: the most deliveries of each intent at work at one time
    short       \* history: intents a webhook answered without an order, for want of stock

rows == <<listing, orders, intents, payments>>
history == <<overwritten, made, overlap, short>>
vars == <<rows, captured, logged, req, aborts, history>>

-------------------------------------------------------------------------------
(* Statuses *)

Statuses == {"PLACED", "CONFIRMED", "OUT_FOR_DELIVERY", "READY_FOR_PICKUP",
             "DELIVERED", "PICKED_UP", "CANCELLED"}
DeliveryMethods == {"DELIVERY", "PICKUP"}

CANCELLABLE_STATUSES == {"PLACED", "CONFIRMED"}

\* Variants named <definition>_<fault> are the definition with one plausible
\* fault; no action uses them.  They show that a property would notice it.
NEXT_STATUS_SwappedBranch(delivery) ==
    {<<"PLACED", "CONFIRMED">>,
     <<"CONFIRMED",
       IF delivery = "PICKUP" THEN "OUT_FOR_DELIVERY" ELSE "READY_FOR_PICKUP">>,
     <<"OUT_FOR_DELIVERY", "DELIVERED">>,
     <<"READY_FOR_PICKUP", "PICKED_UP">>}
NEXT_STATUS_UnknownStatus(delivery) == {<<"PLACED", "ACCEPTED">>}
NEXT_STATUS_SkipsStage(delivery) ==
    {<<"PLACED", "CONFIRMED">>,
     <<"CONFIRMED", IF delivery = "DELIVERY" THEN "DELIVERED" ELSE "PICKED_UP">>}

\* NEXT_STATUS as a set of edges; the branch at CONFIRMED is by delivery method.
NEXT_STATUS(delivery) ==
    {<<"PLACED", "CONFIRMED">>,
     <<"CONFIRMED",
       IF delivery = "DELIVERY" THEN "OUT_FOR_DELIVERY" ELSE "READY_FOR_PICKUP">>,
     <<"OUT_FOR_DELIVERY", "DELIVERED">>,
     <<"READY_FOR_PICKUP", "PICKED_UP">>}

NoOrder == [status |-> "ABSENT", quantity |-> 0, delivery |-> "PICKUP", method |-> "COD"]
NewOrder(q, d, m) == [status |-> "PLACED", quantity |-> q, delivery |-> d, method |-> m]

Placed == {o \in OrderIds : orders[o].status # "ABSENT"}
Active == {o \in Placed : orders[o].status # "CANCELLED"}

-------------------------------------------------------------------------------
(* Continuations *)

Idle == [pc |-> "idle"]

OrderRow == [status : Statuses \cup {"ABSENT"}, quantity : Nat,
             delivery : DeliveryMethods, method : {"COD", "ONLINE"}]

Continuations ==
    {Idle}
    \cup [pc : {"codTx", "intentRow"}, quantity : Quantities, delivery : DeliveryMethods]
    \cup [pc : {"paymentRow", "hook", "hookShort"}, intent : Intents]
    \cup [pc : {"hookTx"}, intent : Intents, seen : Int]
    \cup [pc : {"advance"}, order : OrderIds, from : Statuses, to : Statuses]
    \cup [pc : {"cancelTx", "disputeTx"}, order : OrderIds]
    \cup [pc : {"log"}, order : OrderIds, status : Statuses]

HookPcs == {"hook", "hookTx", "hookShort"}

\* The webhook deliveries for intent i being handled now.
Hooks(i) == {r \in Requests : req[r].pc \in HookPcs /\ req[r].intent = i}

Becomes(r, cont) == req' = [req EXCEPT ![r] = cont]
ThenLog_NoLog(r, o, s) == Becomes(r, Idle)
ThenLog(r, o, s) == Becomes(r, [pc |-> "log", order |-> o, status |-> s])

Init ==
    /\ listing = [avail |-> InitialStock, published |-> TRUE, closed |-> FALSE]
    /\ orders = [o \in OrderIds |-> NoOrder]
    /\ intents = [i \in Intents |-> [quantity |-> 0, delivery |-> "PICKUP"]]
    /\ payments = [i \in Intents |-> [status |-> "ABSENT", order |-> None]]
    /\ captured = {}
    /\ logged = [o \in OrderIds |-> {}]
    /\ req = [r \in Requests |-> Idle]
    /\ aborts = 0
    /\ overwritten = {} /\ short = {}
    /\ made = [i \in Intents |-> {}] /\ overlap = [i \in Intents |-> 0]

-------------------------------------------------------------------------------
(* The conditions in the where clauses, which the database evaluates *)

StockCovers_Unguarded(q) == TRUE
StockCovers(q) == listing.avail >= q
StillCancellable(o) == orders[o].status \in CANCELLABLE_STATUSES
NotCancelled_Unguarded(o) == TRUE
NotCancelled(o) == orders[o].status # "CANCELLED"
NoOrderYet_Unguarded(i) == TRUE
NoOrderYet(i) == payments[i].order = None

MarkSuccess_Pending(i) == payments' = [payments EXCEPT ![i].status = "PENDING"]
MarkSuccess_Forgotten(i) == UNCHANGED payments
MarkSuccess(i) == payments' = [payments EXCEPT ![i].status = "SUCCESS"]

\* { increment: order.quantity } next to status := CANCELLED, in one transaction.
CancelAndRestock(o) ==
    /\ orders' = [orders EXCEPT ![o].status = "CANCELLED"]
    /\ listing' = [listing EXCEPT !.avail = @ + orders[o].quantity]

-------------------------------------------------------------------------------
(* OrdersService.create *)

\* The checks before the first write; cash orders go on to the guarded
\* transaction, the others to the OrderIntent.
StartCreate(r, q, d, m) ==
    /\ req[r] = Idle
    /\ listing.published /\ ~listing.closed
    /\ q <= listing.avail
    /\ Becomes(r, [pc |-> IF m = "COD" THEN "codTx" ELSE "intentRow",
                   quantity |-> q, delivery |-> d])
    /\ UNCHANGED <<rows, captured, logged, aborts, history>>

\* The transaction: conditional decrement and the new row; a miss is a 409.
CodTx(r) ==
    /\ req[r].pc = "codTx"
    /\ \/ /\ StockCovers(req[r].quantity)
          /\ \E o \in OrderIds \ Placed :
                /\ orders' = [orders EXCEPT ![o] =
                                NewOrder(req[r].quantity, req[r].delivery, "COD")]
                /\ ThenLog(r, o, "PLACED")
          /\ listing' = [listing EXCEPT !.avail = @ - req[r].quantity]
       \/ /\ ~StockCovers(req[r].quantity)
          /\ Becomes(r, Idle)
          /\ UNCHANGED <<orders, listing>>
    /\ UNCHANGED <<intents, payments, captured, logged, aborts, history>>

CreateIntent(r) ==
    /\ req[r].pc = "intentRow"
    /\ \E i \in Intents :
          /\ intents[i].quantity = 0
          /\ intents' = [intents EXCEPT ![i] =
                [quantity |-> req[r].quantity, delivery |-> req[r].delivery]]
          /\ Becomes(r, [pc |-> "paymentRow", intent |-> i])
    /\ UNCHANGED <<listing, orders, payments, captured, logged, aborts, history>>

\* createOrderIntentPayment: the Razorpay order, then the PENDING Payment row.
\* Only then does the buyer learn the Razorpay order and can pay it.
CreatePayment(r) ==
    /\ req[r].pc = "paymentRow"
    /\ payments' = [payments EXCEPT ![req[r].intent].status = "PENDING"]
    /\ Becomes(r, Idle)
    /\ UNCHANGED <<listing, orders, intents, captured, logged, aborts, history>>

-------------------------------------------------------------------------------
(* Razorpay and the confirmation of a prepaid order *)

\* External: the buyer pays and Razorpay captures the money.
Pay(i) ==
    /\ payments[i].status # "ABSENT"
    /\ i \notin captured
    /\ captured' = captured \cup {i}
    /\ UNCHANGED <<rows, logged, req, aborts, history>>

\* verifyOrderIntentPayment: a signature only Razorpay can give, then SUCCESS.
VerifyPayment(i) ==
    /\ i \in captured
    /\ MarkSuccess(i)
    /\ UNCHANGED <<listing, orders, intents, captured, logged, req, aborts, history>>

\* handleWebhook up to the payment row it reads; one with an order is a no-op.
\* Razorpay delivers at least once, and again when a reply is late.
Deliver(r, i) ==
    /\ req[r] = Idle
    /\ i \in captured
    /\ Cardinality(Hooks(i)) < MaxDeliveries
    /\ NoOrderYet(i)
    /\ Becomes(r, [pc |-> "hook", intent |-> i])
    /\ overlap' = [overlap EXCEPT ![i] = IF @ > Cardinality(Hooks(i)) THEN @
                                         ELSE Cardinality(Hooks(i)) + 1]
    /\ UNCHANGED <<rows, captured, logged, aborts, overwritten, made, short>>

\* confirmOrderIntentPayment: the listing is read before the transaction.
HookRead(r) ==
    /\ req[r].pc = "hook"
    /\ Becomes(r, IF listing.avail < intents[req[r].intent].quantity
                  THEN [pc |-> "hookShort", intent |-> req[r].intent]
                  ELSE [pc |-> "hookTx", intent |-> req[r].intent, seen |-> listing.avail])
    /\ UNCHANGED <<rows, captured, logged, aborts, history>>

\* Out of stock: the money is recorded, no order is made.
HookShort(r) ==
    /\ req[r].pc = "hookShort"
    /\ MarkSuccess(req[r].intent)
    /\ short' = short \cup {req[r].intent}
    /\ Becomes(r, Idle)
    /\ UNCHANGED <<listing, orders, intents, captured, logged, aborts, overwritten, made, overlap>>

\* The transaction: order, payment and an absolute stock figure computed from
\* the listing read in HookRead.
HookTx(r) ==
    /\ req[r].pc = "hookTx"
    /\ LET i == req[r].intent
           q == intents[i].quantity
       IN \E o \in OrderIds \ Placed :
            /\ orders' = [orders EXCEPT ![o] = NewOrder(q, intents[i].delivery, "ONLINE")]
            /\ payments' = [payments EXCEPT ![i] = [status |-> "SUCCESS", order |-> o]]
            /\ listing' = [listing EXCEPT !.avail = req[r].seen - q]
            /\ made' = [made EXCEPT ![i] = @ \cup {o}]
            /\ ThenLog(r, o, "PLACED")
    /\ UNCHANGED <<intents, captured, logged, aborts, overwritten, overlap, short>>

-------------------------------------------------------------------------------
(* OrdersService.advanceStatus, cancel and dispute *)

\* The read.  Bound: an order that a stale step has overwritten is left alone,
\* or cancel and stale advance could alternate for ever.
StartAdvance(r, o) ==
    /\ req[r] = Idle
    /\ o \in Placed \ overwritten
    /\ \E edge \in NEXT_STATUS(orders[o].delivery) :
          /\ edge[1] = orders[o].status
          /\ Becomes(r, [pc |-> "advance", order |-> o, from |-> edge[1], to |-> edge[2]])
    /\ UNCHANGED <<rows, captured, logged, aborts, history>>

\* The write, by id alone.
Advance(r) ==
    /\ req[r].pc = "advance"
    /\ LET o == req[r].order
           now == orders[o].status
       IN /\ orders' = [orders EXCEPT ![o].status = req[r].to]
          /\ overwritten' = IF now \in {req[r].from, req[r].to}
                            THEN overwritten ELSE overwritten \cup {o}
          /\ ThenLog(r, o, req[r].to)
    /\ UNCHANGED <<listing, intents, payments, captured, logged, aborts, made, overlap, short>>

StartCancel(r, o) ==
    /\ req[r] = Idle
    /\ o \in Placed
    /\ StillCancellable(o)
    /\ Becomes(r, [pc |-> "cancelTx", order |-> o])
    /\ UNCHANGED <<rows, captured, logged, aborts, history>>

CancelTx(r) ==
    /\ req[r].pc = "cancelTx"
    /\ LET o == req[r].order
       IN \/ /\ StillCancellable(o)
             /\ CancelAndRestock(o)
             /\ ThenLog(r, o, "CANCELLED")
          \/ /\ ~StillCancellable(o)
             /\ Becomes(r, Idle)
             /\ UNCHANGED <<orders, listing>>
    /\ UNCHANGED <<intents, payments, captured, logged, aborts, history>>

StartDispute(r, o) ==
    /\ req[r] = Idle
    /\ o \in Placed
    /\ NotCancelled(o)
    /\ Becomes(r, [pc |-> "disputeTx", order |-> o])
    /\ UNCHANGED <<rows, captured, logged, aborts, history>>

DisputeTx(r) ==
    /\ req[r].pc = "disputeTx"
    /\ LET o == req[r].order
       IN \/ /\ NotCancelled(o)
             /\ CancelAndRestock(o)
             /\ ThenLog(r, o, "CANCELLED")
          \/ /\ ~NotCancelled(o)
             /\ Becomes(r, Idle)
             /\ UNCHANGED <<orders, listing>>
    /\ UNCHANGED <<intents, payments, captured, logged, aborts, history>>

\* logStatusChange: the Mongo insert that follows each committed change.
Log(r) ==
    /\ req[r].pc = "log"
    /\ logged' = [logged EXCEPT ![req[r].order] = @ \cup {req[r].status}]
    /\ Becomes(r, Idle)
    /\ UNCHANGED <<rows, captured, aborts, history>>

-------------------------------------------------------------------------------
(* ListingsService.update and close *)

UpdateListing(n) ==
    /\ listing' = [listing EXCEPT !.avail = n]
    /\ UNCHANGED <<orders, intents, payments, captured, logged, req, aborts, history>>

CloseListing ==
    /\ ~listing.closed
    /\ listing' = [listing EXCEPT !.closed = TRUE]
    /\ UNCHANGED <<orders, intents, payments, captured, logged, req, aborts, history>>

\* A request dies at an await: the process stops, or the next call throws.
Abort(r) ==
    /\ req[r] # Idle
    /\ aborts < MaxAborts
    /\ aborts' = aborts + 1
    /\ Becomes(r, Idle)
    /\ UNCHANGED <<rows, captured, logged, history>>

\* Bound: a request that needs a row id when the model has none left ends.
OutOfIds(r) ==
    /\ \/ req[r].pc \in {"codTx", "hookTx"} /\ Placed = OrderIds
       \/ req[r].pc = "intentRow" /\ \A i \in Intents : intents[i].quantity # 0
    /\ Becomes(r, Idle)
    /\ UNCHANGED <<rows, captured, logged, aborts, history>>

-------------------------------------------------------------------------------
\* The rest of a request that has started.
Continue(r) ==
    \/ CodTx(r) \/ CreateIntent(r) \/ CreatePayment(r)
    \/ HookRead(r) \/ HookShort(r) \/ HookTx(r)
    \/ Advance(r) \/ CancelTx(r) \/ DisputeTx(r) \/ Log(r)
    \/ OutOfIds(r)

Start(r) ==
    \/ \E q \in Quantities, d \in Deliveries, m \in Methods : StartCreate(r, q, d, m)
    \/ \E i \in Intents : Deliver(r, i)
    \/ \E o \in OrderIds : StartAdvance(r, o) \/ StartCancel(r, o) \/ StartDispute(r, o)

Next ==
    \/ \E r \in Requests : Start(r) \/ Continue(r) \/ Abort(r)
    \/ \E i \in Intents : Pay(i) \/ VerifyPayment(i)
    \/ \E n \in StockEdits : UpdateListing(n)
    \/ CloseListing

Spec == Init /\ [][Next]_vars

\* A handler that has started keeps running; Razorpay retries a delivery until
\* it is acknowledged.  Nothing obliges a buyer, grower or admin to act.
FairSpec ==
    /\ Spec
    /\ \A r \in Requests : WF_vars(Continue(r))
    /\ \A i \in Intents : SF_vars(i \notin short /\ \E r \in Requests : Deliver(r, i))

-------------------------------------------------------------------------------
(* Properties *)

TypeOK ==
    /\ listing \in [avail : Int, published : BOOLEAN, closed : BOOLEAN]
    /\ orders \in [OrderIds -> OrderRow]
    /\ intents \in [Intents -> [quantity : Nat, delivery : DeliveryMethods]]
    /\ payments \in [Intents -> [status : {"ABSENT", "PENDING", "SUCCESS"},
                                 order : OrderIds \cup {None}]]
    /\ captured \subseteq Intents
    /\ logged \in [OrderIds -> SUBSET Statuses]
    /\ req \in [Requests -> Continuations]
    /\ aborts \in 0..MaxAborts
    /\ overwritten \subseteq OrderIds /\ short \subseteq Intents
    /\ made \in [Intents -> SUBSET OrderIds] /\ overlap \in [Intents -> Nat]

\* Stock never goes below zero, whichever orders and webhooks commit in between
\* the check of one order and its write.
NoOversell == listing.avail >= 0

\* What an order row keeps off the shelf.
Taken(row) == IF row.status \in {"ABSENT", "CANCELLED"} THEN 0 ELSE row.quantity

\* A unit leaves the shelf only with the order that takes it and comes back only
\* with that order's cancellation, once.
OrderMovesStock ==
    \E o \in OrderIds :
        /\ \A p \in OrderIds \ {o} : orders'[p] = orders[p]
        /\ listing'.avail - listing.avail = Taken(orders[o]) - Taken(orders'[o])

\* The two writes of the code that are not conditional on what was read.
StaleStockWrite(r) == HookTx(r) /\ listing.avail # req[r].seen
StaleStatusWrite(r) == Advance(r) /\ orders[req[r].order].status # req[r].from

\* Stock follows the orders in every step but the grower's own edit and the two
\* stale writes: two cancels of one order, or a cancel racing a dispute, never
\* give its stock back twice, and a rejected or aborted order takes none.
StockFollowsOrders ==
    [][\/ OrderMovesStock
       \/ \E n \in StockEdits : UpdateListing(n)
       \/ \E r \in Requests : StaleStockWrite(r) \/ StaleStatusWrite(r)]_vars

\* The same with the webhook's absolute write included: what the comment over
\* the guarded update of create says of concurrent orders.
NoStockLost ==
    [][\/ OrderMovesStock
       \/ \E n \in StockEdits : UpdateListing(n)
       \/ \E r \in Requests : StaleStatusWrite(r)]_vars

\* Every prepaid order was made for one payment, whose money was captured and is on
\* record, and a payment is turned into no more orders than deliveries of it were at work
\* at one time: a crash, a retry after an answer or a delivery that comes late makes no
\* second order.  What overlapping deliveries do is in RetriesAreSafe.
OnlineOrdersPaid ==
    /\ \A o \in Placed : orders[o].method = "ONLINE" =>
          \E i \in captured : /\ o \in made[i] /\ payments[i].status = "SUCCESS"
                              /\ \A j \in Intents \ {i} : o \notin made[j]
    /\ \A i \in Intents :
          /\ Cardinality(made[i]) <= overlap[i]
          /\ IF made[i] = {} THEN payments[i].order = None ELSE payments[i].order \in made[i]

\* What API-Design.md says of the webhook, "Idempotent: checks current state before acting,
\* so retried webhook deliveries are safe": no prepaid order is left without the payment
\* that made it.
RetriesAreSafe ==
    \A o \in Placed : orders[o].method = "ONLINE" =>
        \E i \in captured : payments[i].order = o

\* The rows of a checkout are written in one order: intent, payment, capture,
\* order.
RowsLinked ==
    /\ \A i \in Intents : payments[i].status # "ABSENT" => intents[i].quantity # 0
    /\ \A i \in captured : payments[i].status # "ABSENT"
    /\ \A i \in Intents : payments[i].order # None =>
          /\ i \in captured
          /\ payments[i].status = "SUCCESS"
          /\ payments[i].order \in Placed
    /\ \A i, j \in Intents :
          payments[i].order # None /\ payments[i].order = payments[j].order => i = j

\* Each intent has one request that will write its payment row.
CheckoutInFlight ==
    /\ \A r \in Requests : req[r].pc = "paymentRow" =>
          /\ intents[req[r].intent].quantity # 0
          /\ payments[req[r].intent].status = "ABSENT"
    /\ \A r, s \in Requests : req[r].pc = "paymentRow" /\ req[s].pc = "paymentRow"
                              /\ req[r].intent = req[s].intent => r = s

\* A webhook handler works on captured money, and enters its transaction only
\* with enough stock in the listing it read.
HookInFlight ==
    \A r \in Requests :
        /\ req[r].pc \in HookPcs => req[r].intent \in captured
        /\ req[r].pc = "hookTx" => req[r].seen >= intents[req[r].intent].quantity

\* From the intent to the order, no link is made twice or out of turn, whatever
\* dies in between.  With TypeOK this is inductive.
PaymentChain == RowsLinked /\ CheckoutInFlight /\ HookInFlight

\* While a payment has no order, overlap counts the deliveries at work on it; once it has
\* one no delivery starts, and those still at work may each make one more.
DeliveriesCounted ==
    \A i \in Intents :
        /\ made[i] \subseteq Placed /\ IsFiniteSet(made[i])
        /\ made[i] = {} <=> payments[i].order = None
        /\ Cardinality(made[i]) + Cardinality(Hooks(i)) <= overlap[i]

\* When nothing is in flight and no request died, the audit trail has the
\* status every order now is in.
AuditComplete ==
    aborts = 0 /\ (\A r \in Requests : req[r] = Idle) =>
        \A o \in Placed : orders[o].status \in logged[o]

\* How far along an order is; the two deliveries share their stages.
Stage == [s \in Statuses |->
    CASE s = "PLACED" -> 1
      [] s = "CONFIRMED" -> 2
      [] s \in {"OUT_FOR_DELIVERY", "READY_FOR_PICKUP"} -> 3
      [] s \in {"DELIVERED", "PICKED_UP"} -> 4
      [] OTHER -> 0]

OnItsPath(status, delivery) ==
    /\ status \in {"OUT_FOR_DELIVERY", "DELIVERED"} => delivery = "DELIVERY"
    /\ status \in {"READY_FOR_PICKUP", "PICKED_UP"} => delivery = "PICKUP"

\* Every order is on the path of its delivery method, and what a request in
\* flight is about to write is a step on that path, even when it is stale.
FulfilmentPath ==
    /\ \A o \in Placed : OnItsPath(orders[o].status, orders[o].delivery)
    /\ \A r \in Requests : req[r].pc = "advance" =>
          /\ req[r].order \in Placed
          /\ "CANCELLED" \notin {req[r].from, req[r].to}
          /\ OnItsPath(req[r].to, orders[req[r].order].delivery)
          /\ Stage[req[r].to] = Stage[req[r].from] + 1
    /\ \A r \in Requests : req[r].pc \in {"cancelTx", "disputeTx"} => req[r].order \in Placed

\* A live order goes one stage on, on the path of its delivery method, or is
\* cancelled, by a dispute also after it was handed over; a cancelled one stays so.
LegalChange(from, to) ==
    /\ OnItsPath(to.status, to.delivery)
    /\ from.status # "CANCELLED"
    /\ to.status = "CANCELLED" \/ Stage[to.status] = Stage[from.status] + 1

\* Every change of a placed order's status is legal, but for the steps that
\* overwrite a status newer than the one they read.
LegalUnlessStale ==
    [][\A o \in Placed : orders'[o].status # orders[o].status =>
            \/ LegalChange(orders[o], orders'[o])
            \/ \E r \in Requests : StaleStatusWrite(r)]_vars

\* Captured money is recorded in the end, and an order made for it unless a webhook found
\* too little stock: retries outlive every aborted delivery.
CapturedIsRecorded ==
    \A i \in Intents :
        (i \in captured) ~> /\ payments[i].status = "SUCCESS"
                            /\ payments[i].order # None \/ i \in short

===============================================================================
