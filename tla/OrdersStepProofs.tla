--------------------------- MODULE OrdersStepProofs ---------------------------
(* What a step of Orders may do to the stock and to the status of an order, what *)
(* the audit log holds of it, and why the prepaid part implements Checkout.       *)
EXTENDS OrdersRefinement, OrdersProofs

\* A step that leaves orders and stock alone moves no stock.
LEMMA StockUntouched ==
    ASSUME TypeOK, UNCHANGED orders, listing'.avail = listing.avail
    PROVE  OrderMovesStock
<1>1. PICK o \in OrderIds : TRUE
  BY OrderIdsAssumption
<1>2. Taken(orders[o]) \in Nat /\ listing.avail \in Int
  BY DEF Taken, TypeOK, OrderRow
<1> QED
  BY <1>1, <1>2 DEF OrderMovesStock

\* An order is cancelled and its quantity comes back, together.
LEMMA StockRestored ==
    ASSUME TypeOK, NEW o \in Placed, NotCancelled(o), CancelAndRestock(o)
    PROVE  OrderMovesStock
<1>1. o \in OrderIds /\ orders[o].quantity \in Nat /\ listing.avail \in Int
  BY DEF Placed, TypeOK, OrderRow
<1>2. Taken(orders[o]) = orders[o].quantity
  BY DEF Taken, Placed, NotCancelled
<1>3. orders' = [orders EXCEPT ![o] = [orders[o] EXCEPT !.status = "CANCELLED"]]
  BY DEF CancelAndRestock
<1>4. Taken(orders'[o]) = 0
  <2>1. [orders[o] EXCEPT !.status = "CANCELLED"].status = "CANCELLED"
    BY <1>1 DEF TypeOK, OrderRow
  <2> QED
    BY <1>1, <1>3, <2>1 DEF Taken, TypeOK
<1>5. listing'.avail = listing.avail + orders[o].quantity
  BY DEF CancelAndRestock, TypeOK
<1>6. \A p \in OrderIds \ {o} : orders'[p] = orders[p]
  BY <1>3 DEF TypeOK
<1> QED
  BY <1>1, <1>2, <1>4, <1>5, <1>6 DEF OrderMovesStock

\* A new order takes its quantity off the shelf, together.
LEMMA StockTaken ==
    ASSUME TypeOK, NEW o \in OrderIds \ Placed, NEW q \in Nat, NEW d, NEW m,
           orders' = [orders EXCEPT ![o] = NewOrder(q, d, m)],
           listing'.avail = listing.avail - q
    PROVE  OrderMovesStock
<1>1. Taken(orders[o]) = 0
  BY DEF Taken, Placed
<1>2. Taken(orders'[o]) = q
  BY DEF Taken, NewOrder, TypeOK
<1>3. \A p \in OrderIds \ {o} : orders'[p] = orders[p]
  BY DEF TypeOK
<1>4. listing.avail \in Int
  BY DEF TypeOK
<1> QED
  BY <1>1, <1>2, <1>3, <1>4 DEF OrderMovesStock

\* A status step between two live statuses moves no stock.
LEMMA StockKept ==
    ASSUME TypeOK, FulfilmentPath, NEW r \in Requests, Advance(r), ~StaleStatusWrite(r)
    PROVE  OrderMovesStock
<1> DEFINE o == req[r].order
<1>1. /\ o \in Placed /\ o \in OrderIds
      /\ orders[o].status = req[r].from
      /\ "CANCELLED" \notin {req[r].from, req[r].to}
      /\ req[r].to \in Statuses
  BY ContinuationType DEF Advance, FulfilmentPath, StaleStatusWrite, Placed
<1>2. orders' = [orders EXCEPT ![o] = [orders[o] EXCEPT !.status = req[r].to]]
  BY DEF Advance
<1>3. /\ [orders[o] EXCEPT !.status = req[r].to].status = req[r].to
      /\ [orders[o] EXCEPT !.status = req[r].to].quantity = orders[o].quantity
  BY <1>1 DEF TypeOK, OrderRow
<1>4. Taken(orders[o]) = orders[o].quantity /\ Taken(orders'[o]) = orders[o].quantity
  BY <1>1, <1>2, <1>3 DEF Taken, Placed, TypeOK, Statuses
<1>5. \A p \in OrderIds \ {o} : orders'[p] = orders[p]
  BY <1>1, <1>2 DEF TypeOK
<1>6. listing' = listing /\ orders[o].quantity \in Nat /\ listing.avail \in Int
  BY <1>1 DEF Advance, TypeOK, OrderRow
<1> QED
  BY <1>1, <1>4, <1>5, <1>6 DEF OrderMovesStock

LEMMA StockStep ==
    ASSUME TypeOK, FulfilmentPath, Next
    PROVE  \/ OrderMovesStock
           \/ \E n \in StockEdits : UpdateListing(n)
           \/ \E r \in Requests : StaleStockWrite(r) \/ StaleStatusWrite(r)
<1> DEFINE Goal == \/ OrderMovesStock
                   \/ \E n \in StockEdits : UpdateListing(n)
                   \/ \E r \in Requests : StaleStockWrite(r) \/ StaleStatusWrite(r)
<1>1. ASSUME NEW r \in Requests, CodTx(r) PROVE Goal
  <2>1. CASE UNCHANGED <<orders, listing>>
    BY <2>1, StockUntouched
  <2>2. CASE /\ \E o \in OrderIds \ Placed :
                  orders' = [orders EXCEPT ![o] =
                               NewOrder(req[r].quantity, req[r].delivery, "COD")]
             /\ listing' = [listing EXCEPT !.avail = @ - req[r].quantity]
    <3>1. req[r].quantity \in Nat
      BY <1>1, ContinuationType, ConstantsType DEF CodTx
    <3>2. listing'.avail = listing.avail - req[r].quantity
      BY <2>2 DEF TypeOK
    <3> QED
      BY <2>2, <3>1, <3>2, StockTaken
  <2> QED
    BY <1>1, <2>1, <2>2 DEF CodTx
<1>2. ASSUME NEW r \in Requests, HookTx(r) PROVE Goal
  <2> DEFINE q == intents[req[r].intent].quantity
  <2>1. CASE listing.avail # req[r].seen
    BY <1>2, <2>1 DEF StaleStockWrite
  <2>2. CASE listing.avail = req[r].seen
    <3>1. q \in Nat
      BY <1>2, ContinuationType DEF HookTx, TypeOK
    <3>2. listing'.avail = listing.avail - q
      BY <1>2, <2>2 DEF HookTx, TypeOK
    <3>3. PICK o \in OrderIds \ Placed :
             orders' = [orders EXCEPT ![o] =
                          NewOrder(q, intents[req[r].intent].delivery, "ONLINE")]
      BY <1>2 DEF HookTx
    <3>4. OrderMovesStock
      BY <3>1, <3>2, <3>3, StockTaken
    <3> QED
      BY <3>4
  <2> QED
    BY <2>1, <2>2
<1>3. ASSUME NEW r \in Requests, Advance(r) PROVE Goal
  BY <1>3, StockKept
<1>4. ASSUME NEW r \in Requests, CancelTx(r) \/ DisputeTx(r) PROVE Goal
  <2>1. req[r].order \in Placed
    BY <1>4 DEF CancelTx, DisputeTx, FulfilmentPath
  <2>2. CASE UNCHANGED <<orders, listing>>
    BY <2>2, StockUntouched
  <2>3. CASE NotCancelled(req[r].order) /\ CancelAndRestock(req[r].order)
    BY <2>1, <2>3, StockRestored
  <2>4. StillCancellable(req[r].order) => NotCancelled(req[r].order)
    BY DEF StillCancellable, NotCancelled, CANCELLABLE_STATUSES
  <2> QED
    BY <1>4, <2>2, <2>3, <2>4 DEF CancelTx, DisputeTx
<1>5. ASSUME NEW r \in Requests,
             \/ Start(r) \/ Abort(r) \/ CreateIntent(r) \/ CreatePayment(r)
             \/ HookRead(r) \/ HookShort(r) \/ Log(r) \/ OutOfIds(r)
      PROVE  Goal
  <2>1. UNCHANGED <<orders, listing>>
    BY <1>5 DEF Start, StartCreate, Deliver, StartAdvance, StartCancel, StartDispute, Abort,
                CreateIntent, CreatePayment, HookRead, HookShort, Log, OutOfIds, rows
  <2> QED
    BY <2>1, StockUntouched
<1>6. ASSUME NEW i \in Intents, Pay(i) \/ VerifyPayment(i) PROVE Goal
  <2>1. UNCHANGED <<orders, listing>>
    BY <1>6 DEF Pay, VerifyPayment, rows
  <2> QED
    BY <2>1, StockUntouched
<1>7. CASE CloseListing
  <2>1. UNCHANGED orders /\ listing'.avail = listing.avail
    BY <1>7 DEF CloseListing, TypeOK
  <2> QED
    BY <2>1, StockUntouched
<1> QED
  BY <1>1, <1>2, <1>3, <1>4, <1>5, <1>6, <1>7 DEF Next, Continue

\* Stock follows the orders: but for the grower's edits and the two stale writes,
\* each step moves exactly what the one order it touches takes or gives back.
THEOREM StockConserved == Spec => StockFollowsOrders
<1>1. TypeOK /\ FulfilmentPath /\ [Next]_vars =>
        [\/ OrderMovesStock
         \/ \E n \in StockEdits : UpdateListing(n)
         \/ \E r \in Requests : StaleStockWrite(r) \/ StaleStatusWrite(r)]_vars
  BY StockStep
<1> QED
  BY <1>1, TypeCorrect, OnPath, PTL DEF Spec, StockFollowsOrders

-------------------------------------------------------------------------------
LEMMA LegalStep ==
    ASSUME TypeOK, FulfilmentPath, Next, NEW o \in Placed,
           orders'[o].status # orders[o].status
    PROVE  \/ LegalChange(orders[o], orders'[o])
           \/ \E r \in Requests : StaleStatusWrite(r)
<1>1. o \in OrderIds /\ orders[o].status # "ABSENT"
  BY DEF Placed
<1>2. CASE \E p \in OrderIds \ Placed : \E row : orders' = [orders EXCEPT ![p] = row]
  <2>1. PICK p \in OrderIds \ Placed : \E row : orders' = [orders EXCEPT ![p] = row]
    BY <1>2
  <2>2. p # o
    OBVIOUS
  <2> QED
    BY <1>1, <2>1, <2>2 DEF TypeOK
<1>3. ASSUME NEW r \in Requests, Advance(r), ~StaleStatusWrite(r)
      PROVE  LegalChange(orders[o], orders'[o])
  <2>1. /\ req[r].order \in Placed
        /\ orders[req[r].order].status = req[r].from
        /\ "CANCELLED" \notin {req[r].from, req[r].to}
        /\ OnItsPath(req[r].to, orders[req[r].order].delivery)
        /\ Stage[req[r].to] = Stage[req[r].from] + 1
    BY <1>3 DEF Advance, FulfilmentPath, StaleStatusWrite
  <2>2. orders' = [orders EXCEPT ![req[r].order] =
                      [orders[req[r].order] EXCEPT !.status = req[r].to]]
    BY <1>3 DEF Advance
  <2>3. req[r].order = o
    BY <1>1, <2>2 DEF TypeOK
  <2>4. /\ orders'[o].status = req[r].to
        /\ orders'[o].delivery = orders[o].delivery
    BY <1>1, <2>2, <2>3 DEF TypeOK, OrderRow
  <2> QED
    BY <2>1, <2>3, <2>4 DEF LegalChange
<1>4. ASSUME NEW p \in OrderIds, NotCancelled(p), CancelAndRestock(p)
      PROVE  LegalChange(orders[o], orders'[o])
  <2>1. orders' = [orders EXCEPT ![p] = [orders[p] EXCEPT !.status = "CANCELLED"]]
    BY <1>4 DEF CancelAndRestock
  <2>2. p = o
    BY <1>1, <2>1 DEF TypeOK
  <2>3. orders'[o].status = "CANCELLED"
    BY <1>1, <2>1, <2>2 DEF TypeOK, OrderRow
  <2> QED
    BY <1>4, <2>2, <2>3 DEF LegalChange, OnItsPath, NotCancelled
<1>5. ASSUME NEW r \in Requests, CodTx(r) \/ HookTx(r)
      PROVE  \/ UNCHANGED orders
             \/ \E p \in OrderIds \ Placed : \E row : orders' = [orders EXCEPT ![p] = row]
  <2>1. CASE CodTx(r)
    BY <2>1 DEF CodTx
  <2>2. CASE HookTx(r)
    <3>1. PICK p \in OrderIds \ Placed :
             orders' = [orders EXCEPT ![p] =
                NewOrder(intents[req[r].intent].quantity, intents[req[r].intent].delivery,
                         "ONLINE")]
      BY <2>2 DEF HookTx
    <3> QED
      BY <3>1
  <2> QED
    BY <1>5, <2>1, <2>2
<1>6. ASSUME NEW r \in Requests, CancelTx(r) \/ DisputeTx(r)
      PROVE  LegalChange(orders[o], orders'[o])
  <2>1. req[r].order \in OrderIds
    BY <1>6, ContinuationType DEF CancelTx, DisputeTx
  <2>2. StillCancellable(req[r].order) => NotCancelled(req[r].order)
    BY DEF StillCancellable, NotCancelled, CANCELLABLE_STATUSES
  <2>3. orders' # orders
    OBVIOUS
  <2>4. NotCancelled(req[r].order) /\ CancelAndRestock(req[r].order)
    BY <1>6, <2>2, <2>3 DEF CancelTx, DisputeTx
  <2> QED
    BY <1>4, <2>1, <2>4
<1>7. ASSUME NEW r \in Requests,
             \/ Start(r) \/ Abort(r) \/ CreateIntent(r) \/ CreatePayment(r)
             \/ HookRead(r) \/ HookShort(r) \/ Log(r) \/ OutOfIds(r)
      PROVE  UNCHANGED orders
  BY <1>7 DEF Start, StartCreate, Deliver, StartAdvance, StartCancel, StartDispute, Abort,
              CreateIntent, CreatePayment, HookRead, HookShort, Log, OutOfIds, rows
<1>8. ASSUME \/ \E i \in Intents : Pay(i) \/ VerifyPayment(i)
             \/ \E n \in StockEdits : UpdateListing(n)
             \/ CloseListing
      PROVE  UNCHANGED orders
  BY <1>8 DEF Pay, VerifyPayment, UpdateListing, CloseListing, rows
<1>9. CASE UNCHANGED orders
  BY <1>9
<1> QED
  BY <1>2, <1>3, <1>5, <1>6, <1>7, <1>8, <1>9 DEF Next, Continue

\* A placed order only goes one stage on or is cancelled, and a cancelled one
\* stays cancelled, in every step but a stale status write.
THEOREM StatusLegal == Spec => LegalUnlessStale
<1>1. TypeOK /\ FulfilmentPath /\ [Next]_vars =>
        [\A o \in Placed : orders'[o].status # orders[o].status =>
            \/ LegalChange(orders[o], orders'[o])
            \/ \E r \in Requests : StaleStatusWrite(r)]_vars
  BY LegalStep
<1> QED
  BY <1>1, TypeCorrect, OnPath, PTL DEF Spec, LegalUnlessStale

-------------------------------------------------------------------------------
(* The audit trail *)

\* While no request has died, a status that is not in the history yet has a request
\* that is about to write it there.
Accounted(o) ==
    \/ orders[o].status \in logged[o]
    \/ \E r \in Requests : req[r] = [pc |-> "log", order |-> o, status |-> orders[o].status]
AuditInFlight == aborts = 0 => \A o \in Placed : Accounted(o)

\* A step of a request that has nothing to log and changes no order.
LEMMA AuditQuiet ==
    ASSUME TypeOK, AuditInFlight, NEW r \in Requests, req[r].pc # "log",
           \A s \in Requests \ {r} : req'[s] = req[s],
           UNCHANGED <<orders, logged, aborts>>
    PROVE  AuditInFlight'
<1> SUFFICES ASSUME aborts = 0, NEW o \in Placed PROVE Accounted(o)'
  BY DEF AuditInFlight, Placed
<1>1. Accounted(o)
  BY DEF AuditInFlight
<1>2. CASE orders[o].status \in logged[o]
  BY <1>2 DEF Accounted
<1>3. ASSUME NEW s \in Requests,
             req[s] = [pc |-> "log", order |-> o, status |-> orders[o].status]
      PROVE  Accounted(o)'
  <2>1. s # r
    BY <1>3
  <2> QED
    BY <1>3, <2>1 DEF Accounted
<1> QED
  BY <1>1, <1>2, <1>3 DEF Accounted

\* A step that writes one order's status and goes on to log it.
LEMMA AuditWrite ==
    ASSUME TypeOK, AuditInFlight, NEW r \in Requests, req[r].pc # "log",
           NEW o \in OrderIds, NEW s \in Statuses, NEW row,
           orders' = [orders EXCEPT ![o] = row], row.status = s,
           ThenLog(r, o, s), UNCHANGED <<logged, aborts>>
    PROVE  AuditInFlight'
<1>1. /\ req'[r] = [pc |-> "log", order |-> o, status |-> s]
      /\ \A t \in Requests \ {r} : req'[t] = req[t]
  BY BecomesType, ContinuationsContain DEF ThenLog
<1>2. orders'[o].status = s /\ \A p \in OrderIds \ {o} : orders'[p] = orders[p]
  BY DEF TypeOK
<1> SUFFICES ASSUME aborts = 0, NEW p \in Placed' PROVE Accounted(p)'
  BY DEF AuditInFlight
<1>3. CASE p = o
  BY <1>1, <1>2, <1>3 DEF Accounted
<1>4. CASE p # o
  <2>1. p \in Placed /\ orders'[p] = orders[p]
    BY <1>2, <1>4 DEF Placed
  <2>2. Accounted(p)
    BY <2>1 DEF AuditInFlight
  <2>3. ASSUME NEW t \in Requests,
               req[t] = [pc |-> "log", order |-> p, status |-> orders[p].status]
        PROVE  Accounted(p)'
    <3>1. t # r
      BY <2>3
    <3> QED
      BY <1>1, <2>1, <2>3, <3>1 DEF Accounted
  <2> QED
    BY <2>1, <2>2, <2>3 DEF Accounted
<1> QED
  BY <1>3, <1>4

LEMMA AuditLog ==
    ASSUME TypeOK, AuditInFlight, NEW r \in Requests, Log(r)
    PROVE  AuditInFlight'
<1>1. PICK a \in OrderIds, s \in Statuses : a = req[r].order /\ s = req[r].status
  BY ContinuationType DEF Log
<1>2. logged' = [logged EXCEPT ![a] = logged[a] \cup {s}]
  BY <1>1 DEF Log
<1>3. \A t \in Requests \ {r} : req'[t] = req[t]
  BY BecomesType, ContinuationsContain DEF Log
<1> SUFFICES ASSUME aborts = 0, NEW o \in Placed PROVE Accounted(o)'
  BY DEF AuditInFlight, Log, rows, Placed
<1>4. Accounted(o) /\ o \in OrderIds /\ orders' = orders
  BY DEF AuditInFlight, Log, rows, Placed
<1>5. logged[o] \subseteq logged'[o] /\ s \in logged'[a]
  BY <1>2, <1>4 DEF TypeOK
<1>6. ASSUME NEW t \in Requests,
             req[t] = [pc |-> "log", order |-> o, status |-> orders[o].status]
      PROVE  Accounted(o)'
  <2>1. CASE t = r
    BY <1>1, <1>4, <1>5, <1>6, <2>1 DEF Accounted
  <2>2. CASE t # r
    BY <1>3, <1>4, <1>6, <2>2 DEF Accounted
  <2> QED
    BY <2>1, <2>2
<1> QED
  BY <1>4, <1>5, <1>6 DEF Accounted

LEMMA AuditStep == TypeOK /\ AuditInFlight /\ [Next]_vars => AuditInFlight'
<1> SUFFICES ASSUME TypeOK, AuditInFlight, [Next]_vars PROVE AuditInFlight'
  OBVIOUS
<1>1. ASSUME UNCHANGED <<orders, logged, aborts>>, NEW r \in Requests, req[r].pc # "log",
             NEW cont, Becomes(r, cont)
      PROVE  AuditInFlight'
  <2>1. \A s \in Requests \ {r} : req'[s] = req[s]
    BY <1>1 DEF Becomes, TypeOK
  <2> QED
    BY <1>1, <2>1, AuditQuiet
<1>2. CASE UNCHANGED <<orders, logged, aborts, req>>
  BY <1>2 DEF AuditInFlight, Accounted, Placed
<1>3. ASSUME NEW r \in Requests,
             \/ \E q \in Quantities, d \in Deliveries, m \in Methods : StartCreate(r, q, d, m)
             \/ \E i \in Intents : Deliver(r, i)
             \/ \E o \in OrderIds : StartAdvance(r, o) \/ StartCancel(r, o) \/ StartDispute(r, o)
      PROVE  AuditInFlight'
  <2>1. req[r].pc # "log" /\ UNCHANGED <<orders, logged, aborts>>
    <3>1. req[r] = Idle /\ UNCHANGED <<rows, logged, aborts>>
      BY <1>3 DEF StartCreate, Deliver, StartAdvance, StartCancel, StartDispute
    <3> QED
      BY <3>1 DEF Idle, rows
  <2>2. PICK cont : Becomes(r, cont)
    BY <1>3 DEF StartCreate, Deliver, StartAdvance, StartCancel, StartDispute
  <2> QED
    BY <1>1, <2>1, <2>2
<1>4. ASSUME NEW r \in Requests,
             CreateIntent(r) \/ CreatePayment(r) \/ HookRead(r) \/ HookShort(r) \/ OutOfIds(r)
      PROVE  AuditInFlight'
  <2>1. req[r].pc # "log" /\ UNCHANGED <<orders, logged, aborts>>
    BY <1>4 DEF CreateIntent, CreatePayment, HookRead, HookShort, OutOfIds, rows
  <2>2. PICK cont : Becomes(r, cont)
    BY <1>4 DEF CreateIntent, CreatePayment, HookRead, HookShort, OutOfIds
  <2> QED
    BY <1>1, <2>1, <2>2
<1>5. ASSUME NEW r \in Requests, CodTx(r) \/ HookTx(r) PROVE AuditInFlight'
  <2>1. req[r].pc # "log" /\ UNCHANGED <<logged, aborts>>
    BY <1>5 DEF CodTx, HookTx
  <2>2. CASE UNCHANGED orders /\ Becomes(r, Idle)
    BY <1>1, <2>1, <2>2
  <2>3. ASSUME NEW o \in OrderIds, NEW q, NEW d, NEW m,
               orders' = [orders EXCEPT ![o] = NewOrder(q, d, m)], ThenLog(r, o, "PLACED")
        PROVE  AuditInFlight'
    BY <2>1, <2>3, AuditWrite DEF NewOrder, Statuses
  <2>4. CASE CodTx(r)
    BY <2>2, <2>3, <2>4 DEF CodTx
  <2>5. CASE HookTx(r)
    <3>1. PICK o \in OrderIds \ Placed :
             /\ orders' = [orders EXCEPT ![o] =
                   NewOrder(intents[req[r].intent].quantity,
                            intents[req[r].intent].delivery, "ONLINE")]
             /\ ThenLog(r, o, "PLACED")
      BY <2>5 DEF HookTx
    <3> QED
      BY <2>3, <3>1
  <2> QED
    BY <1>5, <2>4, <2>5
<1>6. ASSUME NEW r \in Requests, Advance(r) PROVE AuditInFlight'
  <2>1. PICK o \in OrderIds, s \in Statuses : o = req[r].order /\ s = req[r].to
    BY <1>6, ContinuationType DEF Advance
  <2>2. [orders[o] EXCEPT !.status = s].status = s
    <3>1. orders[o] \in OrderRow
      BY DEF TypeOK
    <3> QED
      BY <3>1 DEF OrderRow
  <2>3. orders' = [orders EXCEPT ![o] = [orders[o] EXCEPT !.status = s]]
    BY <1>6, <2>1 DEF Advance
  <2> QED
    BY <1>6, <2>1, <2>2, <2>3, AuditWrite DEF Advance
<1>7. ASSUME NEW r \in Requests, CancelTx(r) \/ DisputeTx(r) PROVE AuditInFlight'
  <2>1. PICK o \in OrderIds : o = req[r].order
    BY <1>7, ContinuationType DEF CancelTx, DisputeTx
  <2>2. req[r].pc # "log" /\ UNCHANGED <<logged, aborts>>
    BY <1>7 DEF CancelTx, DisputeTx
  <2>3. CASE UNCHANGED orders /\ Becomes(r, Idle)
    BY <1>1, <2>2, <2>3
  <2>4. CASE CancelAndRestock(o) /\ ThenLog(r, o, "CANCELLED")
    <3>1. [orders[o] EXCEPT !.status = "CANCELLED"].status = "CANCELLED"
      BY DEF TypeOK, OrderRow
    <3>2. orders' = [orders EXCEPT ![o] = [orders[o] EXCEPT !.status = "CANCELLED"]]
      BY <2>4 DEF CancelAndRestock
    <3> QED
      BY <2>2, <2>4, <3>1, <3>2, AuditWrite DEF Statuses
  <2> QED
    BY <1>7, <2>1, <2>3, <2>4 DEF CancelTx, DisputeTx
<1>8. ASSUME NEW r \in Requests, Abort(r) PROVE AuditInFlight'
  <2>1. aborts' # 0
    BY <1>8 DEF Abort, TypeOK
  <2> QED
    BY <2>1 DEF AuditInFlight
<1>9. ASSUME NEW i \in Intents, Pay(i) \/ VerifyPayment(i) PROVE AuditInFlight'
  BY <1>2, <1>9 DEF Pay, VerifyPayment, rows
<1>10. CASE (\E n \in StockEdits : UpdateListing(n)) \/ CloseListing \/ UNCHANGED vars
  BY <1>2, <1>10 DEF UpdateListing, CloseListing, rows, vars
<1> QED
  BY <1>3, <1>4, <1>5, <1>6, <1>7, <1>8, <1>9, <1>10, AuditLog DEF Next, Start, Continue

\* The history written to Mongo after each commit misses no status an order stays in,
\* for any number of overlapping requests: only a request that dies loses an entry.
THEOREM AuditTrail == Spec => []AuditComplete
<1>1. Init => AuditInFlight
  BY DEF Init, AuditInFlight, Placed, NoOrder
<1>2. AuditInFlight => AuditComplete
  <2> SUFFICES ASSUME AuditInFlight, aborts = 0, \A r \in Requests : req[r] = Idle,
                      NEW o \in Placed
               PROVE  orders[o].status \in logged[o]
    BY DEF AuditComplete
  <2>1. \A r \in Requests : req[r].pc = "idle"
    BY DEF Idle
  <2>2. \A r \in Requests : req[r] # [pc |-> "log", order |-> o, status |-> orders[o].status]
    BY <2>1
  <2> QED
    BY <2>2 DEF AuditInFlight, Accounted
<1> QED
  BY <1>1, <1>2, AuditStep, TypeInit, TypeStep, PTL DEF Spec

-------------------------------------------------------------------------------
(* The prepaid part of Orders implements Checkout, for every set of intents,    *)
(* orders and requests, however often and closely Razorpay delivers.            *)

\* The stage of a purchase is read off three facts about it.
LEMMA SameStage ==
    ASSUME NEW j \in Intents, payments'[j] = payments[j],
           intents'[j].quantity = intents[j].quantity, (j \in captured') = (j \in captured)
    PROVE  PurchaseStage(j)' = PurchaseStage(j)
  BY DEF PurchaseStage

LEMMA Stages ==
    ASSUME NEW i \in Intents
    PROVE  /\ payments[i].order # None => PurchaseStage(i) = "ordered"
           /\ payments[i].order = None /\ payments[i].status = "SUCCESS" =>
                PurchaseStage(i) = "kept"
           /\ payments[i].order = None /\ payments[i].status = "PENDING" /\ i \in captured =>
                PurchaseStage(i) = "paid"
           /\ payments[i].order = None /\ payments[i].status = "PENDING" /\ i \notin captured =>
                PurchaseStage(i) = "due"
           /\ payments[i].order = None /\ payments[i].status = "ABSENT" =>
                PurchaseStage(i) = IF intents[i].quantity = 0 THEN "none" ELSE "draft"
  BY DEF PurchaseStage

LEMMA StagesAfter ==
    ASSUME NEW i \in Intents
    PROVE  /\ payments'[i].order # None => PurchaseStage(i)' = "ordered"
           /\ payments'[i].order = None /\ payments'[i].status = "SUCCESS" =>
                PurchaseStage(i)' = "kept"
           /\ payments'[i].order = None /\ payments'[i].status = "PENDING" /\ i \in captured' =>
                PurchaseStage(i)' = "paid"
           /\ payments'[i].order = None /\ payments'[i].status = "PENDING" /\ i \notin captured' =>
                PurchaseStage(i)' = "due"
           /\ payments'[i].order = None /\ payments'[i].status = "ABSENT" =>
                PurchaseStage(i)' = IF intents'[i].quantity = 0 THEN "none" ELSE "draft"
  BY DEF PurchaseStage

\* One purchase moves, the others and all orders bought stay.
LEMMA OneMoves ==
    ASSUME NEW i \in Intents, NEW from, NEW to,
           PurchaseStage(i) \in from, PurchaseStage(i)' = to,
           \A j \in Intents \ {i} : PurchaseStage(j)' = PurchaseStage(j)
    PROVE  Purchases!Moves(i, from, to)
  BY DEF Purchases!Moves

LEMMA QuietImplements ==
    ASSUME \A j \in Intents : PurchaseStage(j)' = PurchaseStage(j), UNCHANGED <<made, overlap>>
    PROVE  UNCHANGED Purchases!vars
  BY DEF Purchases!vars

\* Money that is recorded: a purchase whose payment was captured is paid or kept.
LEMMA KeepImplements ==
    ASSUME TypeOK, PaymentChain, NEW i \in Intents, i \in captured, MarkSuccess(i),
           UNCHANGED <<intents, captured, made, overlap>>
    PROVE  Purchases!Next \/ UNCHANGED Purchases!vars
<1>1. /\ \A j \in Intents : payments'[j].order = payments[j].order
      /\ \A j \in Intents \ {i} : payments'[j] = payments[j]
      /\ payments'[i].status = "SUCCESS"
  BY DEF MarkSuccess, TypeOK
<1>2. \A j \in Intents \ {i} : PurchaseStage(j)' = PurchaseStage(j)
  BY <1>1, SameStage
<1>3. payments[i].status \in {"PENDING", "SUCCESS"}
  BY DEF PaymentChain, RowsLinked, TypeOK
<1>4. CASE payments[i].order # None \/ payments[i].status = "SUCCESS"
  <2>1. PurchaseStage(i)' = PurchaseStage(i)
    BY <1>1, <1>4, Stages, StagesAfter
  <2> QED
    BY <1>1, <1>2, <2>1, QuietImplements
<1>5. CASE payments[i].order = None /\ payments[i].status = "PENDING"
  <2>1. PurchaseStage(i) = "paid" /\ PurchaseStage(i)' = "kept"
    BY <1>1, <1>5, Stages, StagesAfter
  <2>2. Purchases!Moves(i, {"paid"}, "kept")
    BY <1>2, <2>1, OneMoves
  <2>3. Purchases!Keep(i)
    BY <2>2 DEF Purchases!Keep
  <2> QED
    BY <2>3 DEF Purchases!Next
<1> QED
  BY <1>3, <1>4, <1>5

LEMMA InitImplements == Init => Purchases!Init
<1> SUFFICES ASSUME Init PROVE Purchases!Init
  OBVIOUS
<1>1. \A i \in Intents : payments[i].order = None /\ PurchaseStage(i) = "none"
  BY Stages DEF Init
<1> QED
  BY <1>1 DEF Init, Purchases!Init

LEMMA StepImplements ==
    TypeOK /\ PaymentChain /\ DeliveriesCounted /\ [Next]_vars
        => [Purchases!Next]_(Purchases!vars)
<1> SUFFICES ASSUME TypeOK, PaymentChain, DeliveriesCounted, [Next]_vars
             PROVE  Purchases!Next \/ UNCHANGED Purchases!vars
  OBVIOUS
<1>1. ASSUME NEW r \in Requests, CreateIntent(r) PROVE Purchases!Next
  <2>1. PICK i \in Intents :
           /\ intents[i].quantity = 0
           /\ intents' = [intents EXCEPT ![i] =
                 [quantity |-> req[r].quantity, delivery |-> req[r].delivery]]
    BY <1>1 DEF CreateIntent
  <2>2. UNCHANGED <<payments, captured, made, overlap>> /\ req[r].quantity \in Nat \ {0}
    BY <1>1, ContinuationType, QuantitiesAssumption DEF CreateIntent, history
  <2>3. intents'[i].quantity # 0 /\ \A j \in Intents \ {i} : intents'[j] = intents[j]
    BY <2>1, <2>2 DEF TypeOK
  <2>4. payments[i].status = "ABSENT" /\ payments[i].order = None
    BY <2>1 DEF PaymentChain, RowsLinked, TypeOK
  <2>5. PurchaseStage(i) = "none" /\ PurchaseStage(i)' = "draft"
    BY <2>1, <2>2, <2>3, <2>4, Stages, StagesAfter
  <2>6. Purchases!Moves(i, {"none"}, "draft")
    BY <2>2, <2>3, <2>5, SameStage, OneMoves
  <2>7. Purchases!Draft(i)
    BY <2>2, <2>6 DEF Purchases!Draft
  <2> QED
    BY <2>7 DEF Purchases!Next
<1>2. ASSUME NEW r \in Requests, CreatePayment(r) PROVE Purchases!Next
  <2>1. PICK i \in Intents :
           i = req[r].intent /\ payments' = [payments EXCEPT ![i].status = "PENDING"]
    BY <1>2, ContinuationType DEF CreatePayment
  <2>2. UNCHANGED <<intents, captured, made, overlap>>
    BY <1>2 DEF CreatePayment, history
  <2>3. payments[i].status = "ABSENT" /\ intents[i].quantity # 0
    BY <1>2, <2>1 DEF CreatePayment, PaymentChain, CheckoutInFlight
  <2>4. i \notin captured /\ payments[i].order = None
    BY <2>3 DEF PaymentChain, RowsLinked
  <2>5. /\ \A j \in Intents : payments'[j].order = payments[j].order
        /\ \A j \in Intents \ {i} : payments'[j] = payments[j]
        /\ payments'[i].status = "PENDING"
    BY <2>1 DEF TypeOK
  <2>6. PurchaseStage(i) = "draft" /\ PurchaseStage(i)' = "due"
    BY <2>2, <2>3, <2>4, <2>5, Stages, StagesAfter
  <2>7. Purchases!Moves(i, {"draft"}, "due")
    BY <2>2, <2>5, <2>6, SameStage, OneMoves
  <2>8. Purchases!Offer(i)
    BY <2>2, <2>7 DEF Purchases!Offer
  <2> QED
    BY <2>8 DEF Purchases!Next
<1>3. ASSUME NEW i \in Intents, Pay(i)
      PROVE  Purchases!Next \/ UNCHANGED Purchases!vars
  <2>1. /\ payments[i].status \in {"PENDING", "SUCCESS"} /\ payments[i].order = None
        /\ i \notin captured /\ captured' = captured \cup {i}
        /\ UNCHANGED <<payments, intents, made, overlap>>
    BY <1>3 DEF Pay, rows, history, PaymentChain, RowsLinked, TypeOK
  <2>2. \A j \in Intents \ {i} : PurchaseStage(j)' = PurchaseStage(j)
    BY <2>1, SameStage
  <2>3. CASE payments[i].status = "SUCCESS"
    <3>1. PurchaseStage(i)' = PurchaseStage(i)
      BY <2>1, <2>3, Stages, StagesAfter
    <3> QED
      BY <2>1, <2>2, <3>1, QuietImplements
  <2>4. CASE payments[i].status = "PENDING"
    <3>1. PurchaseStage(i) = "due" /\ PurchaseStage(i)' = "paid"
      BY <2>1, <2>4, Stages, StagesAfter
    <3>2. Purchases!Moves(i, {"due"}, "paid")
      BY <2>2, <3>1, OneMoves
    <3>3. Purchases!Capture(i)
      BY <2>1, <3>2 DEF Purchases!Capture
    <3> QED
      BY <3>3 DEF Purchases!Next
  <2> QED
    BY <2>1, <2>3, <2>4
<1>4. ASSUME NEW i \in Intents, VerifyPayment(i)
      PROVE  Purchases!Next \/ UNCHANGED Purchases!vars
  BY <1>4, KeepImplements DEF VerifyPayment, history
<1>5. ASSUME NEW r \in Requests, HookShort(r)
      PROVE  Purchases!Next \/ UNCHANGED Purchases!vars
  <2>1. req[r].intent \in Intents /\ req[r].intent \in captured
    BY <1>5, ContinuationType DEF HookShort, HookPcs, PaymentChain, HookInFlight
  <2> QED
    BY <1>5, <2>1, KeepImplements DEF HookShort
<1>6. ASSUME NEW r \in Requests, HookTx(r) PROVE Purchases!Next
  <2>1. PICK i \in Intents, o \in OrderIds \ Placed :
           /\ i = req[r].intent
           /\ payments' = [payments EXCEPT ![i] = [status |-> "SUCCESS", order |-> o]]
           /\ made' = [made EXCEPT ![i] = @ \cup {o}]
    BY <1>6, ContinuationType DEF HookTx
  <2>2. UNCHANGED <<intents, captured, overlap>> /\ o # None
    BY <1>6, OrderIdsAssumption DEF HookTx
  <2>3. i \in captured /\ r \in Hooks(i)
    BY <1>6, <2>1 DEF HookTx, Hooks, HookPcs, PaymentChain, HookInFlight
  <2>4. payments[i].status \in {"PENDING", "SUCCESS"}
    BY <2>3 DEF PaymentChain, RowsLinked, TypeOK
  <2>5. /\ payments'[i].order = o
        /\ \A j \in Intents \ {i} : payments'[j] = payments[j]
    BY <2>1 DEF TypeOK
  <2>6. PurchaseStage(i) \in {"paid", "kept", "ordered"} /\ PurchaseStage(i)' = "ordered"
    BY <2>2, <2>3, <2>4, <2>5, Stages, StagesAfter
  <2>7. Purchases!Moves(i, {"paid", "kept", "ordered"}, "ordered")
    BY <2>2, <2>5, <2>6, SameStage, OneMoves
  <2>8. \A j \in Intents : o \notin made[j]
    BY <2>1 DEF DeliveriesCounted
  <2>9. Cardinality(made[i]) < overlap[i]
    <3>1. IsFiniteSet(made[i]) /\ Cardinality(made[i]) + Cardinality(Hooks(i)) <= overlap[i]
      BY DEF DeliveriesCounted
    <3>2. Cardinality(made[i]) \in Nat /\ overlap[i] \in Nat
      BY <3>1, FS_CardinalityType DEF TypeOK
    <3>3. Cardinality(Hooks(i)) # 0
      BY <2>3, FiniteHooks, FS_EmptySet
    <3> QED
      BY <3>1, <3>2, <3>3, FiniteHooks
  <2>10. Purchases!Make(i, o)
    <3>1. made' = [made EXCEPT ![i] = @ \cup {o}] /\ UNCHANGED overlap
      BY <2>1, <2>2
    <3>2. Purchases!Moves(i, {"paid", "kept", "ordered"}, "ordered")
      BY <2>7
    <3>3. Purchases!Cardinality(made[i]) = Cardinality(made[i])
      BY DEF Purchases!Cardinality, Cardinality
    <3> QED
      BY <2>8, <2>9, <3>1, <3>2, <3>3 DEF Purchases!Make
  <2> QED
    BY <2>10 DEF Purchases!Next
<1>7. ASSUME UNCHANGED <<payments, intents, captured, made, overlap>>
      PROVE  UNCHANGED Purchases!vars
  BY <1>7, SameStage, QuietImplements
<1>8. ASSUME NEW r \in Requests, NEW i \in Intents, Deliver(r, i)
      PROVE  Purchases!Next \/ UNCHANGED Purchases!vars
  <2>1. /\ UNCHANGED <<payments, intents, captured, made>>
        /\ i \in captured /\ payments[i].order = None
    BY <1>8 DEF Deliver, NoOrderYet, rows
  <2>2. \A j \in Intents : PurchaseStage(j)' = PurchaseStage(j)
    BY <2>1, SameStage
  <2>3. PurchaseStage(i) \in {"paid", "kept"}
    BY <2>1, Stages DEF PaymentChain, RowsLinked, TypeOK
  <2>4. /\ overlap \in [Intents -> Nat]
        /\ overlap' = [overlap EXCEPT ![i] = IF overlap[i] > Cardinality(Hooks(i))
                                             THEN overlap[i] ELSE Cardinality(Hooks(i)) + 1]
    BY <1>8 DEF Deliver, TypeOK
  <2>5. overlap[i] >= Cardinality(Hooks(i))
    <3>1. IsFiniteSet(made[i]) /\ Cardinality(made[i]) + Cardinality(Hooks(i)) <= overlap[i]
      BY DEF DeliveriesCounted
    <3>2. Cardinality(made[i]) \in Nat
      BY <3>1, FS_CardinalityType
    <3> QED
      BY <2>4, <3>1, <3>2, FiniteHooks
  <2>6. CASE overlap[i] > Cardinality(Hooks(i))
    <3>1. UNCHANGED overlap
      BY <2>4, <2>6
    <3> QED
      BY <2>1, <3>1, <1>7
  <2>7. CASE ~(overlap[i] > Cardinality(Hooks(i)))
    <3>1. overlap[i] = Cardinality(Hooks(i))
      BY <2>4, <2>5, <2>7, FiniteHooks
    <3>2. overlap' = [overlap EXCEPT ![i] = overlap[i] + 1]
      BY <2>4, <2>7, <3>1
    <3>3. Purchases!Attempt(i)
      BY <2>1, <2>2, <2>3, <3>2 DEF Purchases!Attempt
    <3> QED
      BY <3>3 DEF Purchases!Next
  <2> QED
    BY <2>6, <2>7
<1>9. ASSUME \/ \E r \in Requests :
                  \/ \E q \in Quantities, d \in Deliveries, m \in Methods : StartCreate(r, q, d, m)
                  \/ \E o \in OrderIds : \/ StartAdvance(r, o) \/ StartCancel(r, o)
                                         \/ StartDispute(r, o)
                  \/ Abort(r) \/ CodTx(r) \/ HookRead(r) \/ Advance(r) \/ CancelTx(r)
                  \/ DisputeTx(r) \/ Log(r) \/ OutOfIds(r)
             \/ \E n \in StockEdits : UpdateListing(n)
             \/ CloseListing
             \/ UNCHANGED vars
      PROVE  UNCHANGED <<payments, intents, captured, made, overlap>>
  BY <1>9 DEF StartCreate, StartAdvance, StartCancel, StartDispute, Abort,
              CodTx, HookRead, Advance, CancelTx, DisputeTx, Log, OutOfIds,
              UpdateListing, CloseListing, vars, rows, history
<1> QED
  BY <1>1, <1>2, <1>3, <1>4, <1>5, <1>6, <1>7, <1>8, <1>9 DEF Next, Start, Continue

\* The prepaid checkout of OrdersService and PaymentsService implements Checkout, however
\* often and closely Razorpay delivers: a purchase is paid once, keeps its place through
\* crashes, redeliveries and a verification that races the webhook, and becomes no more
\* orders than deliveries were at work on it before its first, none of them another's.
THEOREM PrepaidCheckout == Spec => ImplementsCheckout
<1> QED
  BY InitImplements, StepImplements, CountedInit, CountedStep, TypeCorrect, PaymentChainHolds,
     OnPath, PTL DEF Spec, ImplementsCheckout, Purchases!Spec
=============================================================================
