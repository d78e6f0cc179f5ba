----------------------------- MODULE OrdersProofs -----------------------------
(* What holds of Orders for every set of ids, requests and quantities. *)
EXTENDS Orders, FiniteSetTheorems, TLAPS

\* What a request holds in its local variables, by where it is.
LEMMA ContinuationType ==
    ASSUME TypeOK, NEW r \in Requests
    PROVE  /\ req[r].pc \in {"codTx", "intentRow"} =>
                req[r].quantity \in Quantities /\ req[r].delivery \in DeliveryMethods
           /\ req[r].pc \in {"paymentRow", "hook", "hookShort", "hookTx"} =>
                req[r].intent \in Intents
           /\ req[r].pc = "hookTx" => req[r].seen \in Int
           /\ req[r].pc = "advance" => /\ req[r].order \in OrderIds
                                       /\ req[r].from \in Statuses
                                       /\ req[r].to \in Statuses
           /\ req[r].pc \in {"cancelTx", "disputeTx", "log"} => req[r].order \in OrderIds
           /\ req[r].pc = "log" => req[r].status \in Statuses
<1>1. req[r] \in Continuations
  BY DEF TypeOK
<1> QED
  BY <1>1 DEF Continuations, Idle

\* Replacing one continuation by a well-typed one keeps req well typed.
LEMMA BecomesType ==
    ASSUME TypeOK, NEW r \in Requests, NEW cont \in Continuations, Becomes(r, cont)
    PROVE  /\ req' \in [Requests -> Continuations]
           /\ req'[r] = cont
           /\ \A s \in Requests \ {r} : req'[s] = req[s]
  BY DEF TypeOK, Becomes

LEMMA ContinuationsContain ==
    /\ Idle \in Continuations
    /\ \A q \in Quantities, d \in DeliveryMethods, pc \in {"codTx", "intentRow"} :
          [pc |-> pc, quantity |-> q, delivery |-> d] \in Continuations
    /\ \A i \in Intents, pc \in {"paymentRow", "hook", "hookShort"} :
          [pc |-> pc, intent |-> i] \in Continuations
    /\ \A i \in Intents, n \in Int : [pc |-> "hookTx", intent |-> i, seen |-> n] \in Continuations
    /\ \A o \in OrderIds, from \in Statuses, to \in Statuses :
          [pc |-> "advance", order |-> o, from |-> from, to |-> to] \in Continuations
    /\ \A o \in OrderIds, pc \in {"cancelTx", "disputeTx"} :
          [pc |-> pc, order |-> o] \in Continuations
    /\ \A o \in OrderIds, s \in Statuses :
          [pc |-> "log", order |-> o, status |-> s] \in Continuations
  BY DEF Continuations

\* A row whose status is replaced is still a row.
LEMMA StatusReplaced ==
    ASSUME NEW row \in OrderRow, NEW s \in Statuses
    PROVE  [row EXCEPT !.status = s] \in OrderRow
  BY DEF OrderRow

\* So is a listing with another figure, and a payment with another status.
LEMMA AvailReplaced ==
    ASSUME TypeOK, NEW n \in Int, listing' = [listing EXCEPT !.avail = n]
    PROVE  listing' \in [avail : Int, published : BOOLEAN, closed : BOOLEAN]
<1>1. listing \in [avail : Int, published : BOOLEAN, closed : BOOLEAN]
  BY DEF TypeOK
<1> QED
  BY <1>1

LEMMA SuccessMarked ==
    ASSUME TypeOK, NEW i, MarkSuccess(i)
    PROVE  payments' \in [Intents -> [status : {"ABSENT", "PENDING", "SUCCESS"},
                                     order : OrderIds \cup {None}]]
<1>1. payments \in [Intents -> [status : {"ABSENT", "PENDING", "SUCCESS"},
                               order : OrderIds \cup {None}]]
  BY DEF TypeOK
<1> QED
  BY <1>1 DEF MarkSuccess

\* The edges of NEXT_STATUS, one by one.
LEMMA NextStatusEdges ==
    ASSUME NEW d, NEW edge \in NEXT_STATUS(d)
    PROVE  \/ edge[1] = "PLACED" /\ edge[2] = "CONFIRMED"
           \/ edge[1] = "CONFIRMED" /\ edge[2] = "OUT_FOR_DELIVERY" /\ d = "DELIVERY"
           \/ edge[1] = "CONFIRMED" /\ edge[2] = "READY_FOR_PICKUP" /\ d # "DELIVERY"
           \/ edge[1] = "OUT_FOR_DELIVERY" /\ edge[2] = "DELIVERED"
           \/ edge[1] = "READY_FOR_PICKUP" /\ edge[2] = "PICKED_UP"
<1>1. CASE d = "DELIVERY"
  <2>1. NEXT_STATUS(d) = {<<"PLACED", "CONFIRMED">>, <<"CONFIRMED", "OUT_FOR_DELIVERY">>,
                          <<"OUT_FOR_DELIVERY", "DELIVERED">>,
                          <<"READY_FOR_PICKUP", "PICKED_UP">>}
    BY <1>1, Zenon DEF NEXT_STATUS
  <2> QED
    BY <1>1, <2>1
<1>2. CASE d # "DELIVERY"
  <2>1. NEXT_STATUS(d) = {<<"PLACED", "CONFIRMED">>, <<"CONFIRMED", "READY_FOR_PICKUP">>,
                          <<"OUT_FOR_DELIVERY", "DELIVERED">>,
                          <<"READY_FOR_PICKUP", "PICKED_UP">>}
    BY <1>2, Zenon DEF NEXT_STATUS
  <2> QED
    BY <1>2, <2>1
<1> QED
  BY <1>1, <1>2

\* Quantities are positive integers, and NULL is no order id.
LEMMA ConstantsType ==
    /\ Quantities \subseteq Nat
    /\ \A q \in Quantities : q # 0
    /\ StockEdits \subseteq Nat
    /\ InitialStock \in Nat
    /\ MaxAborts \in Nat
    /\ Deliveries \subseteq DeliveryMethods
  BY QuantitiesAssumption, StockAssumption, BoundsAssumption, MethodsAssumption
     DEF DeliveryMethods

-------------------------------------------------------------------------------
(* Type correctness *)

LEMMA TypeInit == Init => TypeOK
  BY ConstantsType, ContinuationsContain
     DEF Init, TypeOK, NoOrder, OrderRow, DeliveryMethods

LEMMA TypeStep == TypeOK /\ [Next]_vars => TypeOK'
<1> SUFFICES ASSUME TypeOK, [Next]_vars PROVE TypeOK'
  OBVIOUS
<1> USE ConstantsType, ContinuationsContain
<1>1. ASSUME NEW r \in Requests, NEW q \in Quantities, NEW d \in Deliveries,
             NEW m \in Methods, StartCreate(r, q, d, m)
      PROVE  TypeOK'
  <2> DEFINE cont == [pc |-> IF m = "COD" THEN "codTx" ELSE "intentRow",
                      quantity |-> q, delivery |-> d]
  <2>1. cont \in Continuations
    OBVIOUS
  <2>2. req' \in [Requests -> Continuations]
    BY <1>1, <2>1, BecomesType DEF StartCreate
  <2> QED
    BY <1>1, <2>2 DEF StartCreate, TypeOK, history, rows
<1>2. ASSUME NEW r \in Requests, CodTx(r) PROVE TypeOK'
  <2>1. req[r].quantity \in Quantities /\ req[r].delivery \in DeliveryMethods
    BY <1>2, ContinuationType DEF CodTx
  <2>2. CASE StockCovers(req[r].quantity)
              /\ \E o \in OrderIds \ Placed :
                   /\ orders' = [orders EXCEPT ![o] =
                                   NewOrder(req[r].quantity, req[r].delivery, "COD")]
                   /\ ThenLog(r, o, "PLACED")
              /\ listing' = [listing EXCEPT !.avail = @ - req[r].quantity]
    <3>1. PICK o \in OrderIds :
             /\ orders' = [orders EXCEPT ![o] =
                             NewOrder(req[r].quantity, req[r].delivery, "COD")]
             /\ ThenLog(r, o, "PLACED")
      BY <2>2
    <3>2. NewOrder(req[r].quantity, req[r].delivery, "COD") \in OrderRow
      BY <2>1 DEF NewOrder, OrderRow, Statuses
    <3>3. orders' \in [OrderIds -> OrderRow]
      BY <3>1, <3>2 DEF TypeOK
    <3>4. req' \in [Requests -> Continuations]
      BY <3>1, BecomesType DEF ThenLog, Statuses
    <3>5. listing' \in [avail : Int, published : BOOLEAN, closed : BOOLEAN]
      <4>1. listing.avail \in Int
        BY ONLY TypeOK DEF TypeOK
      <4>2. Quantities \subseteq Int
        BY ONLY ConstantsType
      <4>3. req[r].quantity \in Int
        BY ONLY <2>1, <4>2, Zenon
      <4> QED
        BY <2>2, <4>1, <4>3, AvailReplaced
    <3> QED
      BY <1>2, <3>3, <3>4, <3>5 DEF CodTx, TypeOK, history
  <2>3. CASE Becomes(r, Idle) /\ UNCHANGED <<orders, listing>>
    <3>1. req' \in [Requests -> Continuations]
      BY <2>3, BecomesType
    <3> QED
      BY <1>2, <2>3, <3>1 DEF CodTx, TypeOK, history
  <2> QED
    BY <1>2, <2>2, <2>3 DEF CodTx
<1>3. ASSUME NEW r \in Requests, CreateIntent(r) PROVE TypeOK'
  <2>1. req[r].quantity \in Quantities /\ req[r].delivery \in DeliveryMethods
    BY <1>3, ContinuationType DEF CreateIntent
  <2>2. PICK i \in Intents :
           /\ intents' = [intents EXCEPT ![i] =
                 [quantity |-> req[r].quantity, delivery |-> req[r].delivery]]
           /\ Becomes(r, [pc |-> "paymentRow", intent |-> i])
    BY <1>3 DEF CreateIntent
  <2>3. req' \in [Requests -> Continuations]
    BY <2>2, BecomesType
  <2>4. intents' \in [Intents -> [quantity : Nat, delivery : DeliveryMethods]]
    BY <2>1, <2>2 DEF TypeOK
  <2> QED
    BY <1>3, <2>3, <2>4 DEF CreateIntent, TypeOK, history
<1>4. ASSUME NEW r \in Requests, CreatePayment(r) PROVE TypeOK'
  <2>1. req' \in [Requests -> Continuations]
    BY <1>4, BecomesType DEF CreatePayment
  <2> QED
    BY <1>4, <2>1 DEF CreatePayment, TypeOK, history
<1>5. ASSUME NEW i \in Intents, Pay(i) PROVE TypeOK'
  BY <1>5 DEF Pay, TypeOK, history, rows
<1>6. ASSUME NEW i \in Intents, VerifyPayment(i) PROVE TypeOK'
  BY <1>6 DEF VerifyPayment, MarkSuccess, TypeOK, history
<1>7. ASSUME NEW r \in Requests, NEW i \in Intents, Deliver(r, i) PROVE TypeOK'
  <2>1. req' \in [Requests -> Continuations]
    BY <1>7, BecomesType DEF Deliver
  <2>2. Cardinality(Hooks(i)) \in Nat
    BY RequestsAssumption, FS_Subset, FS_CardinalityType DEF Hooks
  <2>3. overlap' \in [Intents -> Nat]
    BY <1>7, <2>2 DEF Deliver, TypeOK
  <2> QED
    BY <1>7, <2>1, <2>3 DEF Deliver, TypeOK, history, rows
<1>8. ASSUME NEW r \in Requests, HookRead(r) PROVE TypeOK'
  <2>1. req[r].intent \in Intents /\ listing.avail \in Int
    BY <1>8, ContinuationType DEF HookRead, TypeOK
  <2>2. req' \in [Requests -> Continuations]
    <3>1. CASE listing.avail < intents[req[r].intent].quantity
      BY <1>8, <2>1, <3>1, BecomesType DEF HookRead
    <3>2. CASE ~(listing.avail < intents[req[r].intent].quantity)
      BY <1>8, <2>1, <3>2, BecomesType DEF HookRead
    <3> QED
      BY <3>1, <3>2
  <2> QED
    BY <1>8, <2>2 DEF HookRead, TypeOK, history, rows
<1>9. ASSUME NEW r \in Requests, HookShort(r) PROVE TypeOK'
  <2>1. req' \in [Requests -> Continuations]
    BY <1>9, BecomesType DEF HookShort
  <2>2. short' \subseteq Intents
    BY <1>9, ContinuationType DEF HookShort, TypeOK
  <2>3. payments' \in [Intents -> [status : {"ABSENT", "PENDING", "SUCCESS"},
                                   order : OrderIds \cup {None}]]
    BY <1>9, SuccessMarked DEF HookShort
  <2> QED
    BY <1>9, <2>1, <2>2, <2>3 DEF HookShort, TypeOK, history
<1>10. ASSUME NEW r \in Requests, HookTx(r) PROVE TypeOK'
  <2> DEFINE i == req[r].intent
             q == intents[i].quantity
             row == NewOrder(q, intents[i].delivery, "ONLINE")
  <2>1. i \in Intents /\ req[r].seen \in Int
    BY <1>10, ContinuationType DEF HookTx
  <2>2. q \in Nat /\ row \in OrderRow
    BY <2>1 DEF TypeOK, NewOrder, OrderRow, Statuses
  <2>3. PICK o \in OrderIds :
           /\ orders' = [orders EXCEPT ![o] = row]
           /\ payments' = [payments EXCEPT ![i] = [status |-> "SUCCESS", order |-> o]]
           /\ listing' = [listing EXCEPT !.avail = req[r].seen - q]
           /\ made' = [made EXCEPT ![i] = @ \cup {o}]
           /\ ThenLog(r, o, "PLACED")
    BY <1>10 DEF HookTx
  <2>4. orders' \in [OrderIds -> OrderRow]
    BY <2>2, <2>3 DEF TypeOK
  <2>5. listing' \in [avail : Int, published : BOOLEAN, closed : BOOLEAN]
    <3>1. req[r].seen - q \in Int
      BY <2>1, <2>2
    <3> QED
      BY <2>3, <3>1, AvailReplaced
  <2>6. req' \in [Requests -> Continuations]
    BY <2>3, BecomesType DEF ThenLog, Statuses
  <2>7. payments' \in [Intents -> [status : {"ABSENT", "PENDING", "SUCCESS"},
                                   order : OrderIds \cup {None}]]
    BY <2>3 DEF TypeOK
  <2>8. made' \in [Intents -> SUBSET OrderIds]
    BY <2>3 DEF TypeOK
  <2> QED
    BY <1>10, <2>4, <2>5, <2>6, <2>7, <2>8 DEF HookTx, TypeOK, history
<1>11. ASSUME NEW r \in Requests, NEW o \in OrderIds, StartAdvance(r, o) PROVE TypeOK'
  <2>1. PICK edge \in NEXT_STATUS(orders[o].delivery) :
           Becomes(r, [pc |-> "advance", order |-> o, from |-> edge[1], to |-> edge[2]])
    BY <1>11 DEF StartAdvance
  <2>2. edge[1] \in Statuses /\ edge[2] \in Statuses
    BY NextStatusEdges DEF Statuses
  <2>3. req' \in [Requests -> Continuations]
    BY <2>1, <2>2, BecomesType
  <2> QED
    BY <1>11, <2>3 DEF StartAdvance, TypeOK, history, rows
<1>12. ASSUME NEW r \in Requests, Advance(r) PROVE TypeOK'
  <2>1. req[r].order \in OrderIds /\ req[r].to \in Statuses
    BY <1>12, ContinuationType DEF Advance
  <2>2. req' \in [Requests -> Continuations]
    BY <1>12, <2>1, BecomesType DEF Advance, ThenLog
  <2>3. orders' \in [OrderIds -> OrderRow]
    <3>1. [orders[req[r].order] EXCEPT !.status = req[r].to] \in OrderRow
      BY <2>1, StatusReplaced DEF TypeOK
    <3> QED
      BY <1>12, <2>1, <3>1 DEF Advance, TypeOK, history
  <2>4. overwritten' \subseteq OrderIds
    BY <1>12, <2>1 DEF Advance, TypeOK
  <2> QED
    BY <1>12, <2>2, <2>3, <2>4 DEF Advance, TypeOK, history
<1>13. ASSUME NEW r \in Requests, NEW o \in OrderIds,
              StartCancel(r, o) \/ StartDispute(r, o)
       PROVE  TypeOK'
  <2>1. req' \in [Requests -> Continuations]
    BY <1>13, BecomesType DEF StartCancel, StartDispute
  <2> QED
    BY <1>13, <2>1 DEF StartCancel, StartDispute, TypeOK, history, rows
<1>14. ASSUME NEW r \in Requests, CancelTx(r) \/ DisputeTx(r) PROVE TypeOK'
  <2>1. req[r].order \in OrderIds
    BY <1>14, ContinuationType DEF CancelTx, DisputeTx
  <2>2. CASE CancelAndRestock(req[r].order) /\ ThenLog(r, req[r].order, "CANCELLED")
    <3>1. req' \in [Requests -> Continuations]
      BY <2>1, <2>2, BecomesType DEF ThenLog, Statuses
    <3>2. orders' \in [OrderIds -> OrderRow]
      <4>1. [orders[req[r].order] EXCEPT !.status = "CANCELLED"] \in OrderRow
        BY <2>1, StatusReplaced DEF TypeOK, Statuses
      <4> QED
        BY <2>1, <2>2, <4>1 DEF CancelAndRestock, TypeOK
    <3>3. listing' \in [avail : Int, published : BOOLEAN, closed : BOOLEAN]
      <4>1. orders[req[r].order].quantity \in Nat
        BY <2>1 DEF TypeOK, OrderRow
      <4>2. listing' = [listing EXCEPT !.avail = @ + orders[req[r].order].quantity]
        BY <2>2 DEF CancelAndRestock
      <4>3. listing \in [avail : Int, published : BOOLEAN, closed : BOOLEAN]
        BY DEF TypeOK
      <4> QED
        BY <4>1, <4>2, <4>3
    <3> QED
      BY <1>14, <3>1, <3>2, <3>3 DEF CancelTx, DisputeTx, TypeOK, history
  <2>3. CASE Becomes(r, Idle) /\ UNCHANGED <<orders, listing>>
    <3>1. req' \in [Requests -> Continuations]
      BY <2>3, BecomesType
    <3> QED
      BY <1>14, <2>3, <3>1 DEF CancelTx, DisputeTx, TypeOK, history
  <2> QED
    BY <1>14, <2>2, <2>3 DEF CancelTx, DisputeTx
<1>15. ASSUME NEW r \in Requests, Log(r) PROVE TypeOK'
  <2>1. req[r].order \in OrderIds /\ req[r].status \in Statuses
    BY <1>15, ContinuationType DEF Log
  <2>2. req' \in [Requests -> Continuations]
    BY <1>15, BecomesType DEF Log
  <2> QED
    BY <1>15, <2>1, <2>2 DEF Log, TypeOK, history, rows
<1>16. ASSUME NEW r \in Requests, Abort(r) \/ OutOfIds(r) PROVE TypeOK'
  <2>1. req' \in [Requests -> Continuations]
    BY <1>16, BecomesType DEF Abort, OutOfIds
  <2>2. aborts' \in 0..MaxAborts
    BY <1>16 DEF Abort, OutOfIds, TypeOK
  <2> QED
    BY <1>16, <2>1, <2>2 DEF Abort, OutOfIds, TypeOK, history, rows
<1>17. ASSUME NEW n \in StockEdits, UpdateListing(n) PROVE TypeOK'
  <2>1. listing' \in [avail : Int, published : BOOLEAN, closed : BOOLEAN]
    BY <1>17, AvailReplaced DEF UpdateListing
  <2> QED
    BY <1>17, <2>1 DEF UpdateListing, TypeOK, history
<1>18. CASE CloseListing
  BY <1>18 DEF CloseListing, TypeOK, history
<1>19. CASE UNCHANGED vars
  BY <1>19 DEF vars, rows, TypeOK, history
<1> QED
  BY <1>1, <1>2, <1>3, <1>4, <1>5, <1>6, <1>7, <1>8, <1>9, <1>10, <1>11, <1>12,
     <1>13, <1>14, <1>15, <1>16, <1>17, <1>18, <1>19
     DEF Next, Start, Continue

\* Every row, continuation and history value keeps its type.
THEOREM TypeCorrect == Spec => []TypeOK
<1> QED
  BY TypeInit, TypeStep, PTL DEF Spec

-------------------------------------------------------------------------------
(* The chain from intent to order *)

\* Order ids once used stay used.
LEMMA PlacedGrows ==
    ASSUME TypeOK, NEW o \in OrderIds, NEW row, row.status # "ABSENT",
           orders' = [orders EXCEPT ![o] = row]
    PROVE  Placed \subseteq Placed' /\ o \in Placed'
  BY DEF Placed, TypeOK

\* A request that moves on to something other than a payment leaves the chain alone.
LEMMA ChainQuiet ==
    ASSUME TypeOK, PaymentChain, UNCHANGED <<intents, payments, captured>>,
           Placed \subseteq Placed',
           NEW r \in Requests, NEW cont \in Continuations, Becomes(r, cont),
           cont.pc \notin HookPcs \cup {"paymentRow"}
    PROVE  PaymentChain'
<1>1. /\ req'[r] = cont
      /\ \A s \in Requests \ {r} : req'[s] = req[s]
  BY BecomesType
<1>2. RowsLinked'
  BY DEF PaymentChain, RowsLinked
<1>3. CheckoutInFlight'
  BY <1>1 DEF PaymentChain, CheckoutInFlight
<1>4. HookInFlight'
  BY <1>1 DEF PaymentChain, HookInFlight, HookPcs
<1> QED
  BY <1>2, <1>3, <1>4 DEF PaymentChain

LEMMA ChainInit == Init => PaymentChain
  BY OrderIdsAssumption
     DEF Init, PaymentChain, RowsLinked, CheckoutInFlight, HookInFlight, HookPcs, Idle

\* What CreateIntent, CreatePayment and HookTx each do to their own intent.
LEMMA ChainCreateIntent ==
    ASSUME TypeOK, PaymentChain, NEW r \in Requests, CreateIntent(r)
    PROVE  PaymentChain'
<1>1. req[r].quantity # 0
  BY ContinuationType, ConstantsType DEF CreateIntent
<1>2. PICK i \in Intents :
         /\ intents[i].quantity = 0
         /\ intents' = [intents EXCEPT ![i] =
               [quantity |-> req[r].quantity, delivery |-> req[r].delivery]]
         /\ Becomes(r, [pc |-> "paymentRow", intent |-> i])
  BY DEF CreateIntent
<1>3. /\ req'[r] = [pc |-> "paymentRow", intent |-> i]
      /\ \A s \in Requests \ {r} : req'[s] = req[s]
  BY <1>2, BecomesType, ContinuationsContain
<1>4. /\ intents'[i].quantity = req[r].quantity
      /\ \A j \in Intents \ {i} : intents'[j] = intents[j]
  BY <1>2 DEF TypeOK
<1>5. UNCHANGED <<payments, captured, orders>>
  BY DEF CreateIntent
<1>6. payments[i].status = "ABSENT" /\ i \notin captured
  BY <1>2 DEF PaymentChain, RowsLinked, TypeOK
<1>7. RowsLinked'
  BY <1>1, <1>4, <1>5 DEF PaymentChain, RowsLinked, TypeOK, Placed
<1>8. CheckoutInFlight'
  <2>1. \A s \in Requests : req[s].pc = "paymentRow" => req[s].intent \in Intents \ {i}
    BY <1>2, ContinuationType DEF PaymentChain, CheckoutInFlight
  <2> QED
    BY <1>1, <1>3, <1>4, <1>5, <1>6, <2>1 DEF PaymentChain, CheckoutInFlight
<1>9. HookInFlight'
  <2>1. \A s \in Requests : req[s].pc \in HookPcs => req[s].intent \in Intents \ {i}
    BY <1>6, ContinuationType DEF PaymentChain, HookInFlight, HookPcs
  <2>2. \A s \in Requests \ {r} : req[s].pc \in HookPcs =>
            intents'[req[s].intent] = intents[req[s].intent]
    BY <1>4, <2>1
  <2>3. req'[r].pc \notin HookPcs
    BY <1>3 DEF HookPcs
  <2>4. \A s \in Requests : req[s].pc = "hookTx" => req[s].pc \in HookPcs
    BY DEF HookPcs
  <2> QED
    BY <1>3, <1>5, <2>2, <2>3, <2>4 DEF PaymentChain, HookInFlight
<1> QED
  BY <1>7, <1>8, <1>9 DEF PaymentChain

LEMMA ChainCreatePayment ==
    ASSUME TypeOK, PaymentChain, NEW r \in Requests, CreatePayment(r)
    PROVE  PaymentChain'
<1> DEFINE i == req[r].intent
<1>1. i \in Intents /\ intents[i].quantity # 0 /\ payments[i].status = "ABSENT"
  BY ContinuationType DEF CreatePayment, PaymentChain, CheckoutInFlight
<1>2. /\ req'[r] = Idle
      /\ \A s \in Requests \ {r} : req'[s] = req[s]
  BY BecomesType, ContinuationsContain DEF CreatePayment
<1>3. /\ payments'[i].status = "PENDING"
      /\ payments'[i].order = payments[i].order
      /\ \A j \in Intents \ {i} : payments'[j] = payments[j]
  BY <1>1 DEF CreatePayment, TypeOK
<1>4. UNCHANGED <<intents, captured, orders>>
  BY DEF CreatePayment
<1>5. payments[i].order = None
  BY <1>1 DEF PaymentChain, RowsLinked
<1>6. RowsLinked'
  <2>1. \A j \in Intents : payments'[j].order = payments[j].order
    BY <1>3
  <2>2. captured \subseteq Intents /\ Placed' = Placed
    BY <1>4 DEF TypeOK, Placed
  <2>3. \A j \in Intents : payments'[j].status # "ABSENT" => intents'[j].quantity # 0
    BY <1>1, <1>3, <1>4 DEF PaymentChain, RowsLinked
  <2>4. \A j \in captured' : payments'[j].status # "ABSENT"
    BY <1>3, <1>4, <2>2 DEF PaymentChain, RowsLinked
  <2>5. \A j \in Intents : payments'[j].order # None =>
            j \in captured' /\ payments'[j].status = "SUCCESS" /\ payments'[j].order \in Placed'
    BY <1>3, <1>4, <1>5, <2>1, <2>2 DEF PaymentChain, RowsLinked
  <2>6. \A j, k \in Intents : payments'[j].order # None
                           /\ payments'[j].order = payments'[k].order => j = k
    BY <2>1 DEF PaymentChain, RowsLinked
  <2> QED
    BY <2>3, <2>4, <2>5, <2>6 DEF RowsLinked
<1>7. CheckoutInFlight'
  <2>1. \A s \in Requests \ {r} : req[s].pc = "paymentRow" => req[s].intent \in Intents \ {i}
    BY ContinuationType DEF PaymentChain, CheckoutInFlight, CreatePayment
  <2>2. req'[r].pc # "paymentRow"
    BY <1>2 DEF Idle
  <2> QED
    BY <1>2, <1>3, <1>4, <2>1, <2>2 DEF PaymentChain, CheckoutInFlight
<1>8. HookInFlight'
  BY <1>2, <1>4 DEF PaymentChain, HookInFlight, HookPcs, Idle
<1> QED
  BY <1>6, <1>7, <1>8 DEF PaymentChain

LEMMA ChainHookTx ==
    ASSUME TypeOK, PaymentChain, NEW r \in Requests, HookTx(r)
    PROVE  PaymentChain'
<1> DEFINE i == req[r].intent
<1>1. i \in Intents /\ i \in captured
  BY ContinuationType DEF HookTx, PaymentChain, HookInFlight, HookPcs
<1>2. PICK o \in OrderIds \ Placed :
         /\ orders' = [orders EXCEPT ![o] =
                NewOrder(intents[i].quantity, intents[i].delivery, "ONLINE")]
         /\ payments' = [payments EXCEPT ![i] = [status |-> "SUCCESS", order |-> o]]
         /\ ThenLog(r, o, "PLACED")
  BY DEF HookTx
<1>3. Placed \subseteq Placed' /\ o \in Placed'
  BY <1>2, PlacedGrows DEF NewOrder
<1>4. /\ req'[r] = [pc |-> "log", order |-> o, status |-> "PLACED"]
      /\ \A s \in Requests \ {r} : req'[s] = req[s]
  BY <1>2, BecomesType, ContinuationsContain DEF ThenLog, Statuses
<1>5. /\ payments'[i] = [status |-> "SUCCESS", order |-> o]
      /\ \A j \in Intents \ {i} : payments'[j] = payments[j]
  BY <1>1, <1>2 DEF TypeOK
<1>6. UNCHANGED <<intents, captured>>
  BY DEF HookTx
<1>7. RowsLinked'
  <2>1. \A j \in Intents \ {i} : payments[j].order # o
    BY <1>2, OrderIdsAssumption DEF PaymentChain, RowsLinked
  <2>2. captured \subseteq Intents
    BY DEF TypeOK
  <2>3. \A j, k \in Intents : payments'[j].order # None
                           /\ payments'[j].order = payments'[k].order => j = k
    BY <1>5, <2>1 DEF PaymentChain, RowsLinked
  <2>4. \A j \in Intents : payments'[j].status # "ABSENT" => intents'[j].quantity # 0
    BY <1>1, <1>5, <1>6 DEF PaymentChain, RowsLinked
  <2>5. \A j \in captured' : payments'[j].status # "ABSENT"
    BY <1>5, <1>6, <2>2 DEF PaymentChain, RowsLinked
  <2>6. \A j \in Intents : payments'[j].order # None =>
            j \in captured' /\ payments'[j].status = "SUCCESS" /\ payments'[j].order \in Placed'
    BY <1>1, <1>3, <1>5, <1>6 DEF PaymentChain, RowsLinked
  <2> QED
    BY <2>3, <2>4, <2>5, <2>6 DEF RowsLinked
<1>8. CheckoutInFlight'
  <2>1. \A s \in Requests : req[s].pc = "paymentRow" => req[s].intent \in Intents \ {i}
    BY <1>1, ContinuationType DEF PaymentChain, CheckoutInFlight, RowsLinked
  <2> QED
    BY <1>4, <1>5, <1>6, <2>1 DEF PaymentChain, CheckoutInFlight
<1>9. HookInFlight'
  BY <1>4, <1>6 DEF PaymentChain, HookInFlight, HookPcs
<1> QED
  BY <1>7, <1>8, <1>9 DEF PaymentChain

\* Marking the payment of captured money as SUCCESS.
LEMMA ChainMarkSuccess ==
    ASSUME TypeOK, PaymentChain, NEW i \in captured, MarkSuccess(i),
           UNCHANGED <<intents, captured, orders>>
    PROVE  /\ RowsLinked'
           /\ \A j \in Intents \ {i} : payments'[j] = payments[j]
<1>1. i \in Intents /\ captured \subseteq Intents
  BY DEF TypeOK
<1>2. /\ payments'[i].status = "SUCCESS"
      /\ \A j \in Intents : payments'[j].order = payments[j].order
      /\ \A j \in Intents \ {i} : payments'[j] = payments[j]
  BY <1>1 DEF MarkSuccess, TypeOK
<1>3. Placed' = Placed
  BY DEF Placed
<1>4. \A j \in Intents : payments'[j].status # "ABSENT" => intents'[j].quantity # 0
  BY <1>1, <1>2 DEF PaymentChain, RowsLinked
<1>5. \A j \in captured' : payments'[j].status # "ABSENT"
  BY <1>1, <1>2 DEF PaymentChain, RowsLinked
<1>6. \A j \in Intents : payments'[j].order # None =>
          j \in captured' /\ payments'[j].status = "SUCCESS" /\ payments'[j].order \in Placed'
  BY <1>2, <1>3 DEF PaymentChain, RowsLinked
<1>7. \A j, k \in Intents : payments'[j].order # None
                         /\ payments'[j].order = payments'[k].order => j = k
  BY <1>2 DEF PaymentChain, RowsLinked
<1> QED
  BY <1>2, <1>4, <1>5, <1>6, <1>7 DEF RowsLinked

LEMMA ChainStep == TypeOK /\ PaymentChain /\ [Next]_vars => PaymentChain'
<1> SUFFICES ASSUME TypeOK, PaymentChain, [Next]_vars PROVE PaymentChain'
  OBVIOUS
<1> USE ContinuationsContain
<1>1. ASSUME NEW r \in Requests, NEW q \in Quantities, NEW d \in Deliveries,
             NEW m \in Methods, StartCreate(r, q, d, m)
      PROVE  PaymentChain'
  <2> DEFINE cont == [pc |-> IF m = "COD" THEN "codTx" ELSE "intentRow",
                      quantity |-> q, delivery |-> d]
  <2>1. cont \in Continuations /\ cont.pc \notin HookPcs \cup {"paymentRow"}
    BY ConstantsType DEF HookPcs
  <2>2. UNCHANGED <<intents, payments, captured>> /\ Placed' = Placed
    BY <1>1 DEF StartCreate, rows, Placed
  <2>3. Becomes(r, cont)
    BY <1>1 DEF StartCreate
  <2> QED
    BY <2>1, <2>2, <2>3, ChainQuiet
<1>2. ASSUME NEW r \in Requests, CodTx(r) PROVE PaymentChain'
  <2>1. UNCHANGED <<intents, payments, captured>>
    BY <1>2 DEF CodTx
  <2>2. ASSUME NEW o \in OrderIds,
               orders' = [orders EXCEPT ![o] =
                            NewOrder(req[r].quantity, req[r].delivery, "COD")],
               ThenLog(r, o, "PLACED")
        PROVE  PaymentChain'
    <3>1. Placed \subseteq Placed'
      BY <2>2, PlacedGrows DEF NewOrder
    <3>2. [pc |-> "log", order |-> o, status |-> "PLACED"] \in Continuations
      BY DEF Statuses
    <3> QED
      BY <2>1, <2>2, <3>1, <3>2, ChainQuiet DEF ThenLog, HookPcs
  <2>3. CASE Becomes(r, Idle) /\ UNCHANGED <<orders, listing>>
    <3>1. Placed' = Placed
      BY <2>3 DEF Placed
    <3> QED
      BY <2>1, <2>3, <3>1, ChainQuiet DEF Idle, HookPcs
  <2> QED
    BY <1>2, <2>2, <2>3 DEF CodTx
<1>3. ASSUME NEW r \in Requests, CreateIntent(r) PROVE PaymentChain'
  BY <1>3, ChainCreateIntent
<1>4. ASSUME NEW r \in Requests, CreatePayment(r) PROVE PaymentChain'
  BY <1>4, ChainCreatePayment
<1>5. ASSUME NEW i \in Intents, Pay(i) PROVE PaymentChain'
  <2>1. /\ UNCHANGED <<orders, intents, payments, req>>
        /\ captured' = captured \cup {i}
        /\ payments[i].status # "ABSENT"
    BY <1>5 DEF Pay, rows
  <2>2. RowsLinked'
    BY <2>1 DEF PaymentChain, RowsLinked, Placed
  <2>3. CheckoutInFlight' /\ HookInFlight'
    BY <2>1 DEF PaymentChain, CheckoutInFlight, HookInFlight
  <2> QED
    BY <2>2, <2>3 DEF PaymentChain
<1>6. ASSUME NEW i \in Intents, VerifyPayment(i) PROVE PaymentChain'
  <2>1. i \in captured /\ MarkSuccess(i) /\ UNCHANGED <<intents, captured, orders, req>>
    BY <1>6 DEF VerifyPayment
  <2>2. RowsLinked' /\ \A j \in Intents \ {i} : payments'[j] = payments[j]
    BY <2>1, ChainMarkSuccess
  <2>3. \A r \in Requests : req[r].pc = "paymentRow" => req[r].intent \in Intents \ {i}
    BY <2>1, ContinuationType DEF PaymentChain, RowsLinked, CheckoutInFlight
  <2>4. CheckoutInFlight'
    BY <2>1, <2>2, <2>3 DEF PaymentChain, CheckoutInFlight
  <2>5. HookInFlight'
    BY <2>1 DEF PaymentChain, HookInFlight
  <2> QED
    BY <2>2, <2>4, <2>5 DEF PaymentChain
<1>7. ASSUME NEW r \in Requests, NEW i \in Intents, Deliver(r, i) PROVE PaymentChain'
  <2>1. /\ UNCHANGED <<orders, intents, payments, captured>>
        /\ i \in captured
    BY <1>7 DEF Deliver, rows
  <2>2. /\ req'[r] = [pc |-> "hook", intent |-> i]
        /\ \A s \in Requests \ {r} : req'[s] = req[s]
    BY <1>7, BecomesType DEF Deliver
  <2>3. RowsLinked'
    BY <2>1 DEF PaymentChain, RowsLinked, Placed
  <2>4. CheckoutInFlight' /\ HookInFlight'
    BY <2>1, <2>2 DEF PaymentChain, CheckoutInFlight, HookInFlight
  <2> QED
    BY <2>3, <2>4 DEF PaymentChain
<1>8. ASSUME NEW r \in Requests, HookRead(r) PROVE PaymentChain'
  <2> DEFINE i == req[r].intent
  <2>1. i \in Intents /\ i \in captured /\ listing.avail \in Int
    BY <1>8, ContinuationType DEF HookRead, PaymentChain, HookInFlight, HookPcs, TypeOK
  <2>2. UNCHANGED <<orders, intents, payments, captured>> /\ intents[i].quantity \in Nat
    BY <1>8, <2>1 DEF HookRead, rows, TypeOK
  <2>3. /\ \A s \in Requests \ {r} : req'[s] = req[s]
        /\ \/ req'[r] = [pc |-> "hookShort", intent |-> i]
           \/ /\ req'[r] = [pc |-> "hookTx", intent |-> i, seen |-> listing.avail]
              /\ listing.avail >= intents[i].quantity
    <3>1. CASE listing.avail < intents[i].quantity
      BY <1>8, <2>1, <3>1, BecomesType DEF HookRead
    <3>2. CASE ~(listing.avail < intents[i].quantity)
      BY <1>8, <2>1, <2>2, <3>2, BecomesType DEF HookRead
    <3> QED
      BY <3>1, <3>2
  <2>4. RowsLinked'
    BY <2>2 DEF PaymentChain, RowsLinked, Placed
  <2>5. CheckoutInFlight'
    BY <2>2, <2>3 DEF PaymentChain, CheckoutInFlight
  <2>6. HookInFlight'
    BY <2>1, <2>2, <2>3 DEF PaymentChain, HookInFlight
  <2> QED
    BY <2>4, <2>5, <2>6 DEF PaymentChain
<1>9. ASSUME NEW r \in Requests, HookShort(r) PROVE PaymentChain'
  <2> DEFINE i == req[r].intent
  <2>1. i \in captured
    BY <1>9 DEF HookShort, PaymentChain, HookInFlight, HookPcs
  <2>2. MarkSuccess(i) /\ UNCHANGED <<intents, captured, orders>>
    BY <1>9 DEF HookShort
  <2>3. RowsLinked' /\ \A j \in Intents \ {i} : payments'[j] = payments[j]
    BY <2>1, <2>2, ChainMarkSuccess
  <2>4. /\ req'[r] = Idle
        /\ \A s \in Requests \ {r} : req'[s] = req[s]
    BY <1>9, BecomesType DEF HookShort
  <2>5. \A s \in Requests : req[s].pc = "paymentRow" => req[s].intent \in Intents \ {i}
    BY <2>1, ContinuationType DEF PaymentChain, RowsLinked, CheckoutInFlight
  <2>6. CheckoutInFlight'
    BY <2>2, <2>3, <2>4, <2>5 DEF PaymentChain, CheckoutInFlight, Idle
  <2>7. HookInFlight'
    BY <2>2, <2>4 DEF PaymentChain, HookInFlight, HookPcs, Idle
  <2> QED
    BY <2>3, <2>6, <2>7 DEF PaymentChain
<1>10. ASSUME NEW r \in Requests, HookTx(r) PROVE PaymentChain'
  BY <1>10, ChainHookTx
<1>11. ASSUME NEW r \in Requests, NEW o \in OrderIds, StartAdvance(r, o)
       PROVE  PaymentChain'
  <2>1. PICK edge \in NEXT_STATUS(orders[o].delivery) :
           Becomes(r, [pc |-> "advance", order |-> o, from |-> edge[1], to |-> edge[2]])
    BY <1>11 DEF StartAdvance
  <2>2. edge[1] \in Statuses /\ edge[2] \in Statuses
    BY NextStatusEdges DEF Statuses
  <2>3. UNCHANGED <<intents, payments, captured>> /\ Placed' = Placed
    BY <1>11 DEF StartAdvance, rows, Placed
  <2> QED
    BY <2>1, <2>2, <2>3, ChainQuiet DEF HookPcs
<1>12. ASSUME NEW r \in Requests, Advance(r) PROVE PaymentChain'
  <2>1. req[r].order \in OrderIds /\ req[r].to \in Statuses
    BY <1>12, ContinuationType DEF Advance
  <2>2. Placed \subseteq Placed'
    <3>1. [orders[req[r].order] EXCEPT !.status = req[r].to].status # "ABSENT"
      <4>1. orders[req[r].order] \in OrderRow /\ req[r].to # "ABSENT"
        BY <2>1 DEF TypeOK, Statuses
      <4> QED
        BY <4>1 DEF OrderRow
    <3>2. orders' = [orders EXCEPT ![req[r].order] =
                        [orders[req[r].order] EXCEPT !.status = req[r].to]]
      BY <1>12 DEF Advance
    <3> QED
      BY <2>1, <3>1, <3>2, PlacedGrows
  <2>3. UNCHANGED <<intents, payments, captured>>
    BY <1>12 DEF Advance
  <2>4. Becomes(r, [pc |-> "log", order |-> req[r].order, status |-> req[r].to])
    BY <1>12 DEF Advance, ThenLog
  <2> QED
    BY <2>1, <2>2, <2>3, <2>4, ChainQuiet DEF HookPcs
<1>13. ASSUME NEW r \in Requests, NEW o \in OrderIds,
              StartCancel(r, o) \/ StartDispute(r, o)
       PROVE  PaymentChain'
  <2>1. UNCHANGED <<intents, payments, captured>> /\ Placed' = Placed
    BY <1>13 DEF StartCancel, StartDispute, rows, Placed
  <2>2. \E pc \in {"cancelTx", "disputeTx"} : Becomes(r, [pc |-> pc, order |-> o])
    BY <1>13 DEF StartCancel, StartDispute
  <2> QED
    BY <2>1, <2>2, ChainQuiet DEF HookPcs
<1>14. ASSUME NEW r \in Requests, CancelTx(r) \/ DisputeTx(r) PROVE PaymentChain'
  <2>1. req[r].order \in OrderIds /\ UNCHANGED <<intents, payments, captured>>
    BY <1>14, ContinuationType DEF CancelTx, DisputeTx
  <2>2. CASE CancelAndRestock(req[r].order) /\ ThenLog(r, req[r].order, "CANCELLED")
    <3>1. [orders[req[r].order] EXCEPT !.status = "CANCELLED"].status # "ABSENT"
      BY <2>1 DEF TypeOK, OrderRow
    <3>2. orders' = [orders EXCEPT ![req[r].order] =
                        [orders[req[r].order] EXCEPT !.status = "CANCELLED"]]
      BY <2>2 DEF CancelAndRestock
    <3>3. Placed \subseteq Placed'
      BY <2>1, <3>1, <3>2, PlacedGrows
    <3>4. [pc |-> "log", order |-> req[r].order, status |-> "CANCELLED"] \in Continuations
      BY <2>1 DEF Statuses
    <3> QED
      BY <2>1, <2>2, <3>3, <3>4, ChainQuiet DEF ThenLog, HookPcs
  <2>3. CASE Becomes(r, Idle) /\ UNCHANGED <<orders, listing>>
    <3>1. Placed' = Placed
      BY <2>3 DEF Placed
    <3> QED
      BY <2>1, <2>3, <3>1, ChainQuiet DEF Idle, HookPcs
  <2> QED
    BY <1>14, <2>2, <2>3 DEF CancelTx, DisputeTx
<1>15. ASSUME NEW r \in Requests, Log(r) \/ Abort(r) \/ OutOfIds(r) PROVE PaymentChain'
  <2>1. /\ UNCHANGED <<intents, payments, captured>>
        /\ Placed' = Placed
        /\ Becomes(r, Idle)
    BY <1>15 DEF Log, Abort, OutOfIds, rows, Placed
  <2> QED
    BY <2>1, ChainQuiet DEF Idle, HookPcs
<1>16. CASE (\E n \in StockEdits : UpdateListing(n)) \/ CloseListing \/ UNCHANGED vars
  <2>1. UNCHANGED <<orders, intents, payments, captured, req>>
    BY <1>16 DEF UpdateListing, CloseListing, vars, rows
  <2> QED
    BY <2>1 DEF PaymentChain, RowsLinked, CheckoutInFlight, HookInFlight, Placed
<1> QED
  BY <1>1, <1>2, <1>3, <1>4, <1>5, <1>6, <1>7, <1>8, <1>9, <1>10, <1>11, <1>12,
     <1>13, <1>14, <1>15, <1>16
     DEF Next, Start, Continue

\* From intent to order no link is made twice or out of turn.
THEOREM PaymentChainHolds == Spec => []PaymentChain
<1> QED
  BY TypeInit, TypeStep, ChainInit, ChainStep, PTL DEF Spec

-------------------------------------------------------------------------------
(* Stock never goes below zero *)

LEMMA OversellStep == TypeOK /\ PaymentChain /\ NoOversell /\ [Next]_vars => NoOversell'
<1> SUFFICES ASSUME TypeOK, PaymentChain, NoOversell, [Next]_vars PROVE NoOversell'
  OBVIOUS
<1>1. CASE UNCHANGED listing
  BY <1>1 DEF NoOversell
<1>2. ASSUME NEW r \in Requests, CodTx(r) PROVE NoOversell'
  <2>1. req[r].quantity \in Nat /\ listing.avail \in Int
    BY <1>2, ContinuationType, ConstantsType DEF CodTx, TypeOK
  <2>2. CASE StockCovers(req[r].quantity)
             /\ listing' = [listing EXCEPT !.avail = @ - req[r].quantity]
    BY <2>1, <2>2 DEF StockCovers, NoOversell, TypeOK
  <2> QED
    BY <1>1, <1>2, <2>2 DEF CodTx
<1>3. ASSUME NEW r \in Requests, HookTx(r) PROVE NoOversell'
  <2>1. req[r].intent \in Intents /\ req[r].seen \in Int
    BY <1>3, ContinuationType DEF HookTx
  <2>2. req[r].seen >= intents[req[r].intent].quantity
    BY <1>3 DEF HookTx, PaymentChain, HookInFlight
  <2>3. intents[req[r].intent].quantity \in Nat
    BY <2>1 DEF TypeOK
  <2>4. listing'.avail = req[r].seen - intents[req[r].intent].quantity
    BY <1>3 DEF HookTx, TypeOK
  <2> QED
    BY <2>1, <2>2, <2>3, <2>4 DEF NoOversell
<1>4. ASSUME NEW r \in Requests, CancelTx(r) \/ DisputeTx(r) PROVE NoOversell'
  <2>1. req[r].order \in OrderIds
    BY <1>4, ContinuationType DEF CancelTx, DisputeTx
  <2>2. orders[req[r].order].quantity \in Nat /\ listing.avail \in Int
    BY <2>1 DEF TypeOK, OrderRow
  <2>3. CASE CancelAndRestock(req[r].order)
    <3>1. listing'.avail = listing.avail + orders[req[r].order].quantity
      BY <2>3 DEF CancelAndRestock, TypeOK
    <3> QED
      BY <2>2, <3>1 DEF NoOversell
  <2> QED
    BY <1>1, <1>4, <2>3 DEF CancelTx, DisputeTx
<1>5. ASSUME NEW n \in StockEdits, UpdateListing(n) PROVE NoOversell'
  <2>1. listing'.avail = n /\ n \in Nat
    BY <1>5, ConstantsType DEF UpdateListing, TypeOK
  <2> QED
    BY <2>1 DEF NoOversell
<1>6. CASE CloseListing
  <2>1. listing'.avail = listing.avail
    BY <1>6 DEF CloseListing, TypeOK
  <2> QED
    BY <2>1 DEF NoOversell
<1>7. ASSUME NEW r \in Requests,
             \/ Start(r) \/ Abort(r) \/ CreateIntent(r) \/ CreatePayment(r) \/ HookRead(r)
             \/ HookShort(r) \/ Advance(r) \/ Log(r) \/ OutOfIds(r)
      PROVE  UNCHANGED listing
  BY <1>7 DEF Start, StartCreate, Deliver, StartAdvance, StartCancel, StartDispute, Abort,
              CreateIntent, CreatePayment, HookRead, HookShort, Advance, Log, OutOfIds, rows
<1>8. ASSUME NEW i \in Intents, Pay(i) \/ VerifyPayment(i) PROVE UNCHANGED listing
  BY <1>8 DEF Pay, VerifyPayment, rows
<1>9. CASE UNCHANGED vars
  BY <1>1, <1>9 DEF vars, rows
<1> QED
  BY <1>1, <1>2, <1>3, <1>4, <1>5, <1>6, <1>7, <1>8, <1>9 DEF Next, Continue

\* Whatever commits between an order's check and its write, the listing is never
\* sold below zero: the guarded decrement of create, and the webhook's figure.
THEOREM NeverOversold == Spec => []NoOversell
<1>1. Init => NoOversell
  BY ConstantsType DEF Init, NoOversell
<1> QED
  BY <1>1, OversellStep, TypeInit, TypeStep, ChainInit, ChainStep, PTL DEF Spec

-------------------------------------------------------------------------------
(* Orders stay on the path of their delivery method *)

\* A request that moves on to no order write, and orders that stay on their path.
LEMMA PathKept ==
    ASSUME TypeOK, FulfilmentPath,
           NEW r \in Requests, NEW cont \in Continuations, Becomes(r, cont),
           cont.pc \notin {"advance", "cancelTx", "disputeTx"},
           \A o \in Placed : o \in Placed' /\ orders'[o].delivery = orders[o].delivery,
           \A o \in Placed' : OnItsPath(orders'[o].status, orders'[o].delivery)
    PROVE  FulfilmentPath'
<1>1. /\ req'[r] = cont
      /\ \A s \in Requests \ {r} : req'[s] = req[s]
  BY BecomesType
<1>2. \A o \in Placed' : OnItsPath(orders'[o].status, orders'[o].delivery)
  OBVIOUS
<1>3. \A s \in Requests : req'[s].pc = "advance" =>
          /\ req'[s].order \in Placed'
          /\ "CANCELLED" \notin {req'[s].from, req'[s].to}
          /\ OnItsPath(req'[s].to, orders'[req'[s].order].delivery)
          /\ Stage[req'[s].to] = Stage[req'[s].from] + 1
  BY <1>1 DEF FulfilmentPath
<1>4. \A s \in Requests : req'[s].pc \in {"cancelTx", "disputeTx"} => req'[s].order \in Placed'
  BY <1>1 DEF FulfilmentPath
<1> QED
  BY <1>2, <1>3, <1>4 DEF FulfilmentPath

\* The same when the orders do not change.
LEMMA PathQuiet ==
    ASSUME TypeOK, FulfilmentPath, UNCHANGED orders,
           NEW r \in Requests, NEW cont \in Continuations, Becomes(r, cont),
           cont.pc \notin {"advance", "cancelTx", "disputeTx"}
    PROVE  FulfilmentPath'
<1>1. Placed' = Placed
  BY DEF Placed
<1>2. \A o \in Placed' : OnItsPath(orders'[o].status, orders'[o].delivery)
  BY <1>1 DEF FulfilmentPath
<1>3. \A o \in Placed : o \in Placed' /\ orders'[o].delivery = orders[o].delivery
  BY <1>1
<1> QED
  BY <1>2, <1>3, PathKept

\* A new order starts on its path.
LEMMA PathNewOrder ==
    ASSUME TypeOK, FulfilmentPath, NEW r \in Requests, NEW o \in OrderIds \ Placed,
           NEW q, NEW d, NEW m, orders' = [orders EXCEPT ![o] = NewOrder(q, d, m)],
           ThenLog(r, o, "PLACED")
    PROVE  FulfilmentPath'
<1>1. [pc |-> "log", order |-> o, status |-> "PLACED"] \in Continuations
  BY ContinuationsContain DEF Statuses
<1>2. \A p \in OrderIds \ {o} : orders'[p] = orders[p]
  BY DEF TypeOK
<1>3. orders'[o].status = "PLACED"
  BY DEF TypeOK, NewOrder
<1>4. \A p \in Placed : p \in Placed' /\ orders'[p].delivery = orders[p].delivery
  BY <1>2 DEF Placed
<1>5. \A p \in Placed' : OnItsPath(orders'[p].status, orders'[p].delivery)
  BY <1>2, <1>3 DEF Placed, OnItsPath, FulfilmentPath
<1> QED
  BY <1>1, <1>4, <1>5, PathKept DEF ThenLog

\* A status on the order's path, written over whatever status it has.
LEMMA PathStatusWrite ==
    ASSUME TypeOK, FulfilmentPath, NEW r \in Requests, NEW o \in Placed, NEW s \in Statuses,
           OnItsPath(s, orders[o].delivery),
           orders' = [orders EXCEPT ![o].status = s], ThenLog(r, o, s)
    PROVE  FulfilmentPath'
<1>1. o \in OrderIds /\ [pc |-> "log", order |-> o, status |-> s] \in Continuations
  BY ContinuationsContain DEF Placed
<1>2. /\ \A p \in OrderIds \ {o} : orders'[p] = orders[p]
      /\ orders'[o].status = s
      /\ orders'[o].delivery = orders[o].delivery
  BY <1>1 DEF TypeOK, OrderRow
<1>3. s # "ABSENT"
  BY DEF Statuses
<1>4. \A p \in Placed : p \in Placed' /\ orders'[p].delivery = orders[p].delivery
  BY <1>2, <1>3 DEF Placed
<1>5. \A p \in Placed' : OnItsPath(orders'[p].status, orders'[p].delivery)
  BY <1>2 DEF Placed, FulfilmentPath
<1> QED
  BY <1>1, <1>4, <1>5, PathKept DEF ThenLog

\* An edge of NEXT_STATUS is one stage on, and stays on the path it starts on.
LEMMA EdgeOnPath ==
    ASSUME NEW d \in DeliveryMethods, NEW edge \in NEXT_STATUS(d), OnItsPath(edge[1], d)
    PROVE  /\ "CANCELLED" \notin {edge[1], edge[2]}
           /\ OnItsPath(edge[2], d)
           /\ Stage[edge[2]] = Stage[edge[1]] + 1
<1>1. /\ Stage["PLACED"] = 1 /\ Stage["CONFIRMED"] = 2
      /\ Stage["OUT_FOR_DELIVERY"] = 3 /\ Stage["READY_FOR_PICKUP"] = 3
      /\ Stage["DELIVERED"] = 4 /\ Stage["PICKED_UP"] = 4
  BY DEF Stage, Statuses
<1> QED
  BY <1>1, NextStatusEdges DEF OnItsPath, DeliveryMethods

LEMMA PathStep == TypeOK /\ FulfilmentPath /\ [Next]_vars => FulfilmentPath'
<1> SUFFICES ASSUME TypeOK, FulfilmentPath, [Next]_vars PROVE FulfilmentPath'
  OBVIOUS
<1>1. ASSUME NEW r \in Requests, CodTx(r) \/ HookTx(r) PROVE FulfilmentPath'
  <2>1. CASE UNCHANGED orders /\ Becomes(r, Idle)
    BY <2>1, PathQuiet, ContinuationsContain DEF Idle
  <2>2. CASE CodTx(r)
    <3>1. CASE \E o \in OrderIds \ Placed :
                  /\ orders' = [orders EXCEPT ![o] =
                                  NewOrder(req[r].quantity, req[r].delivery, "COD")]
                  /\ ThenLog(r, o, "PLACED")
      BY <3>1, PathNewOrder
    <3> QED
      BY <2>1, <2>2, <3>1 DEF CodTx
  <2>3. CASE HookTx(r)
    <3>1. PICK o \in OrderIds \ Placed :
             /\ orders' = [orders EXCEPT ![o] =
                    NewOrder(intents[req[r].intent].quantity, intents[req[r].intent].delivery,
                             "ONLINE")]
             /\ ThenLog(r, o, "PLACED")
      BY <2>3 DEF HookTx
    <3> QED
      BY <3>1, PathNewOrder
  <2> QED
    BY <1>1, <2>2, <2>3
<1>2. ASSUME NEW r \in Requests, NEW o \in OrderIds, StartAdvance(r, o) PROVE FulfilmentPath'
  <2>1. PICK edge \in NEXT_STATUS(orders[o].delivery) :
           /\ edge[1] = orders[o].status
           /\ Becomes(r, [pc |-> "advance", order |-> o, from |-> edge[1], to |-> edge[2]])
    BY <1>2 DEF StartAdvance
  <2>2. edge[1] \in Statuses /\ edge[2] \in Statuses
    BY NextStatusEdges DEF Statuses
  <2>3. /\ req'[r] = [pc |-> "advance", order |-> o, from |-> edge[1], to |-> edge[2]]
        /\ \A s \in Requests \ {r} : req'[s] = req[s]
    BY <2>1, <2>2, BecomesType, ContinuationsContain
  <2>4. UNCHANGED orders /\ Placed' = Placed /\ o \in Placed
    BY <1>2 DEF StartAdvance, rows, Placed
  <2>5. orders[o].delivery \in DeliveryMethods
    BY DEF TypeOK, OrderRow
  <2>6. /\ "CANCELLED" \notin {edge[1], edge[2]}
        /\ OnItsPath(edge[2], orders[o].delivery)
        /\ Stage[edge[2]] = Stage[edge[1]] + 1
    BY <2>1, <2>4, <2>5, EdgeOnPath DEF FulfilmentPath
  <2> QED
    BY <2>3, <2>4, <2>6 DEF FulfilmentPath
<1>3. ASSUME NEW r \in Requests, Advance(r) PROVE FulfilmentPath'
  <2>1. /\ req[r].order \in Placed
        /\ req[r].to \in Statuses
        /\ OnItsPath(req[r].to, orders[req[r].order].delivery)
    BY <1>3, ContinuationType DEF Advance, FulfilmentPath
  <2>2. /\ orders' = [orders EXCEPT ![req[r].order].status = req[r].to]
        /\ ThenLog(r, req[r].order, req[r].to)
    BY <1>3 DEF Advance
  <2> QED
    BY <2>1, <2>2, PathStatusWrite
<1>4. ASSUME NEW r \in Requests, NEW o \in OrderIds, StartCancel(r, o) \/ StartDispute(r, o)
      PROVE  FulfilmentPath'
  <2>1. UNCHANGED orders /\ Placed' = Placed /\ o \in Placed
    BY <1>4 DEF StartCancel, StartDispute, rows, Placed
  <2>2. PICK pc \in {"cancelTx", "disputeTx"} : Becomes(r, [pc |-> pc, order |-> o])
    BY <1>4 DEF StartCancel, StartDispute
  <2>3. /\ req'[r] = [pc |-> pc, order |-> o]
        /\ \A s \in Requests \ {r} : req'[s] = req[s]
    BY <2>2, BecomesType, ContinuationsContain
  <2> QED
    BY <2>1, <2>3 DEF FulfilmentPath
<1>5. ASSUME NEW r \in Requests, CancelTx(r) \/ DisputeTx(r) PROVE FulfilmentPath'
  <2>1. req[r].order \in Placed
    BY <1>5 DEF CancelTx, DisputeTx, FulfilmentPath
  <2>2. CASE UNCHANGED orders /\ Becomes(r, Idle)
    BY <2>2, PathQuiet, ContinuationsContain DEF Idle
  <2>3. CASE CancelAndRestock(req[r].order) /\ ThenLog(r, req[r].order, "CANCELLED")
    <3>1. OnItsPath("CANCELLED", orders[req[r].order].delivery) /\ "CANCELLED" \in Statuses
      BY DEF OnItsPath, Statuses
    <3>2. orders' = [orders EXCEPT ![req[r].order].status = "CANCELLED"]
      BY <2>3 DEF CancelAndRestock
    <3> QED
      BY <2>1, <2>3, <3>1, <3>2, PathStatusWrite
  <2> QED
    BY <1>5, <2>2, <2>3 DEF CancelTx, DisputeTx
<1>6. ASSUME NEW r \in Requests, UNCHANGED orders,
             \A s \in Requests \ {r} : req'[s] = req[s],
             req'[r].pc \notin {"advance", "cancelTx", "disputeTx"}
      PROVE  FulfilmentPath'
  BY <1>6 DEF FulfilmentPath, Placed
<1>7. ASSUME NEW r \in Requests,
             \/ \E q \in Quantities, d \in Deliveries, m \in Methods : StartCreate(r, q, d, m)
             \/ \E i \in Intents : Deliver(r, i)
             \/ CreateIntent(r) \/ CreatePayment(r) \/ HookRead(r) \/ HookShort(r)
             \/ Log(r) \/ Abort(r) \/ OutOfIds(r)
      PROVE  FulfilmentPath'
  <2>1. UNCHANGED orders
    BY <1>7 DEF StartCreate, Deliver, CreateIntent, CreatePayment, HookRead, HookShort,
                Log, Abort, OutOfIds, rows
  <2>2. /\ \A s \in Requests \ {r} : req'[s] = req[s]
        /\ req'[r].pc \notin {"advance", "cancelTx", "disputeTx"}
    BY <1>7 DEF StartCreate, Deliver, CreateIntent, CreatePayment, HookRead, HookShort,
                Log, Abort, OutOfIds, Becomes, Idle, TypeOK
  <2> QED
    BY <1>6, <2>1, <2>2
<1>8. CASE UNCHANGED <<orders, req>>
  BY <1>8 DEF FulfilmentPath, Placed
<1>9. CASE \/ \E i \in Intents : Pay(i) \/ VerifyPayment(i)
           \/ \E n \in StockEdits : UpdateListing(n)
           \/ CloseListing
           \/ UNCHANGED vars
  BY <1>8, <1>9 DEF Pay, VerifyPayment, UpdateListing, CloseListing, vars, rows
<1> QED
  BY <1>1, <1>2, <1>3, <1>4, <1>5, <1>7, <1>9 DEF Next, Start, Continue

\* Every order stays on the path of its delivery method, stale writes included.
THEOREM OnPath == Spec => []FulfilmentPath
<1>1. Init => FulfilmentPath
  BY DEF Init, FulfilmentPath, Placed, NoOrder, Idle
<1> QED
  BY <1>1, PathStep, TypeInit, TypeStep, PTL DEF Spec

-------------------------------------------------------------------------------
(* What the webhook makes of a payment *)

\* Writing the status of a payment leaves every link as it is.
LEMMA PaymentStatusOnly ==
    ASSUME TypeOK, NEW i \in Intents, NEW s, payments' = [payments EXCEPT ![i].status = s]
    PROVE  /\ \A j \in Intents : payments'[j].order = payments[j].order
           /\ \A j \in Intents \ {i} : payments'[j] = payments[j]
           /\ s = payments[i].status => payments'[i] = payments[i]
  BY DEF TypeOK

\* The deliveries at work are finitely many, now and after any step.
LEMMA FiniteHooks ==
    ASSUME NEW i \in Intents
    PROVE  /\ IsFiniteSet(Hooks(i)) /\ Cardinality(Hooks(i)) \in Nat
           /\ IsFiniteSet(Hooks(i)') /\ Cardinality(Hooks(i)') \in Nat
<1>1. IsFiniteSet(Hooks(i)) /\ IsFiniteSet(Hooks(i)')
  BY RequestsAssumption, FS_Subset DEF Hooks
<1> QED
  BY <1>1, FS_CardinalityType

\* A step that starts no delivery, makes no order and keeps every link.
LEMMA CountedQuiet ==
    ASSUME TypeOK, DeliveriesCounted, UNCHANGED <<made, overlap>>, Placed \subseteq Placed',
           \A i \in Intents : payments'[i].order = payments[i].order,
           \A s \in Requests : req'[s].pc \in HookPcs =>
               req[s].pc \in HookPcs /\ req'[s].intent = req[s].intent
    PROVE  DeliveriesCounted'
<1> SUFFICES ASSUME NEW i \in Intents
             PROVE  /\ made'[i] \subseteq Placed' /\ IsFiniteSet(made'[i])
                    /\ made'[i] = {} <=> payments'[i].order = None
                    /\ Cardinality(made'[i]) + Cardinality(Hooks(i)') <= overlap'[i]
  BY DEF DeliveriesCounted
<1>1. Hooks(i)' \subseteq Hooks(i)
  BY DEF Hooks
<1>2. Cardinality(Hooks(i)') <= Cardinality(Hooks(i))
  BY <1>1, FiniteHooks, FS_Subset
<1>3. /\ made[i] \subseteq Placed /\ IsFiniteSet(made[i])
      /\ made[i] = {} <=> payments[i].order = None
      /\ Cardinality(made[i]) + Cardinality(Hooks(i)) <= overlap[i]
  BY DEF DeliveriesCounted
<1>4. Cardinality(made[i]) \in Nat /\ overlap[i] \in Nat
  BY <1>3, FS_CardinalityType DEF TypeOK
<1>5. Cardinality(made[i]) + Cardinality(Hooks(i)') <= overlap[i]
  BY <1>2, <1>3, <1>4, FiniteHooks
<1> QED
  BY <1>3, <1>5

LEMMA CountedDeliver ==
    ASSUME TypeOK, DeliveriesCounted, NEW r \in Requests, NEW i \in Intents, Deliver(r, i)
    PROVE  DeliveriesCounted'
<1>1. /\ req'[r] = [pc |-> "hook", intent |-> i]
      /\ \A s \in Requests \ {r} : req'[s] = req[s]
  BY BecomesType, ContinuationsContain DEF Deliver
<1>2. /\ UNCHANGED <<made, payments>> /\ Placed' = Placed
      /\ payments[i].order = None /\ req[r].pc \notin HookPcs
  BY DEF Deliver, NoOrderYet, rows, Placed, Idle, HookPcs
<1> SUFFICES ASSUME NEW j \in Intents
             PROVE  /\ made'[j] \subseteq Placed' /\ IsFiniteSet(made'[j])
                    /\ made'[j] = {} <=> payments'[j].order = None
                    /\ Cardinality(made'[j]) + Cardinality(Hooks(j)') <= overlap'[j]
  BY DEF DeliveriesCounted
<1>3. /\ made[j] \subseteq Placed /\ IsFiniteSet(made[j])
      /\ made[j] = {} <=> payments[j].order = None
      /\ Cardinality(made[j]) + Cardinality(Hooks(j)) <= overlap[j]
  BY DEF DeliveriesCounted
<1>4. CASE j = i
  <2>1. Hooks(i)' = Hooks(i) \cup {r} /\ r \notin Hooks(i)
    BY <1>1, <1>2 DEF Hooks, HookPcs
  <2>2. Cardinality(Hooks(i)') = Cardinality(Hooks(i)) + 1
    BY <2>1, FiniteHooks, FS_AddElement
  <2>3. Cardinality(made[i]) = 0
    BY <1>2, <1>3, <1>4, FS_EmptySet
  <2>4. overlap'[i] >= Cardinality(Hooks(i)) + 1
    <3>1. overlap[i] \in Nat
      BY DEF TypeOK
    <3>2. overlap'[i] = IF overlap[i] > Cardinality(Hooks(i)) THEN overlap[i]
                        ELSE Cardinality(Hooks(i)) + 1
      BY DEF Deliver, TypeOK
    <3> QED
      BY <3>1, <3>2, FiniteHooks
  <2>5. overlap'[i] \in Nat
    BY FiniteHooks DEF Deliver, TypeOK
  <2>6. Cardinality(made'[i]) + Cardinality(Hooks(i)') <= overlap'[i]
    BY <1>2, <2>2, <2>3, <2>4, <2>5, FiniteHooks
  <2> QED
    BY <1>2, <1>3, <1>4, <2>6
<1>5. CASE j # i
  <2>1. Hooks(j)' = Hooks(j)
    BY <1>1, <1>2, <1>5 DEF Hooks
  <2>2. overlap'[j] = overlap[j]
    BY <1>5 DEF Deliver, TypeOK
  <2> QED
    BY <1>2, <1>3, <2>1, <2>2
<1> QED
  BY <1>4, <1>5

\* The order made by a delivery takes the place of that delivery in the count.
LEMMA CountedHookTx ==
    ASSUME TypeOK, DeliveriesCounted, NEW r \in Requests, HookTx(r)
    PROVE  DeliveriesCounted'
<1>1. PICK i \in Intents : i = req[r].intent /\ req[r].pc \in HookPcs
  BY ContinuationType DEF HookTx, HookPcs
<1>2. PICK o \in OrderIds \ Placed :
         /\ orders' = [orders EXCEPT ![o] =
                NewOrder(intents[i].quantity, intents[i].delivery, "ONLINE")]
         /\ payments' = [payments EXCEPT ![i] = [status |-> "SUCCESS", order |-> o]]
         /\ made' = [made EXCEPT ![i] = @ \cup {o}]
         /\ ThenLog(r, o, "PLACED")
  BY <1>1 DEF HookTx
<1>3. /\ req'[r] = [pc |-> "log", order |-> o, status |-> "PLACED"]
      /\ \A s \in Requests \ {r} : req'[s] = req[s]
  BY <1>2, BecomesType, ContinuationsContain DEF ThenLog, Statuses
<1>4. Placed \subseteq Placed' /\ o \in Placed'
  BY <1>2, PlacedGrows DEF NewOrder
<1> SUFFICES ASSUME NEW j \in Intents
             PROVE  /\ made'[j] \subseteq Placed' /\ IsFiniteSet(made'[j])
                    /\ made'[j] = {} <=> payments'[j].order = None
                    /\ Cardinality(made'[j]) + Cardinality(Hooks(j)') <= overlap'[j]
  BY DEF DeliveriesCounted
<1>5. /\ made[j] \subseteq Placed /\ IsFiniteSet(made[j])
      /\ made[j] = {} <=> payments[j].order = None
      /\ Cardinality(made[j]) + Cardinality(Hooks(j)) <= overlap[j]
  BY DEF DeliveriesCounted
<1>6. UNCHANGED overlap
  BY DEF HookTx
<1>7. CASE j = i
  <2>1. /\ made'[i] = made[i] \cup {o} /\ o \notin made[i]
        /\ payments'[i].order = o /\ o # None
    BY <1>2, <1>5, <1>7, OrderIdsAssumption DEF TypeOK
  <2>2. /\ IsFiniteSet(made'[i])
        /\ Cardinality(made'[i]) = Cardinality(made[i]) + 1
    <3>1. IsFiniteSet(made[i])
      BY <1>5, <1>7
    <3>2. /\ IsFiniteSet(made[i] \cup {o})
          /\ Cardinality(made[i] \cup {o}) = Cardinality(made[i]) + 1
      BY ONLY <2>1, <3>1, FS_AddElement
    <3> QED
      BY <2>1, <3>2
  <2>3. Hooks(i)' = Hooks(i) \ {r} /\ r \in Hooks(i)
    BY <1>1, <1>3 DEF Hooks, HookPcs
  <2>4. Cardinality(Hooks(i)') = Cardinality(Hooks(i)) - 1
    <3>1. IsFiniteSet(Hooks(i))
      BY FiniteHooks
    <3> QED
      BY <2>3, <3>1, FS_RemoveElement
  <2>5. Cardinality(made[i]) \in Nat
    BY <1>5, <1>7, FS_CardinalityType
  <2>6. Cardinality(made'[i]) + Cardinality(Hooks(i)') = Cardinality(made[i]) + Cardinality(Hooks(i))
    BY <1>1, <2>2, <2>4, <2>5, FiniteHooks
  <2> QED
    BY <1>4, <1>5, <1>6, <1>7, <2>1, <2>2, <2>6
<1>8. CASE j # i
  <2>1. Hooks(j)' = Hooks(j)
    <3>1. r \notin Hooks(j) /\ r \notin Hooks(j)'
      BY <1>1, <1>3, <1>8 DEF Hooks, HookPcs
    <3> QED
      BY <1>3, <3>1 DEF Hooks
  <2>2. made'[j] = made[j] /\ payments'[j] = payments[j]
    BY <1>2, <1>8 DEF TypeOK
  <2> QED
    BY <1>4, <1>5, <1>6, <2>1, <2>2
<1> QED
  BY <1>7, <1>8

\* No step takes an order away.
LEMMA PlacedKept == TypeOK /\ FulfilmentPath /\ [Next]_vars => Placed \subseteq Placed'
<1> SUFFICES ASSUME TypeOK, FulfilmentPath, [Next]_vars PROVE Placed \subseteq Placed'
  OBVIOUS
<1>1. CASE UNCHANGED orders
  BY <1>1 DEF Placed
<1>2. ASSUME NEW o \in OrderIds, NEW q, NEW d, NEW m,
             orders' = [orders EXCEPT ![o] = NewOrder(q, d, m)]
      PROVE  Placed \subseteq Placed'
  BY <1>2, PlacedGrows DEF NewOrder
<1>3. ASSUME NEW r \in Requests, CodTx(r) \/ HookTx(r) PROVE Placed \subseteq Placed'
  <2>1. CASE CodTx(r)
    BY <1>1, <1>2, <2>1 DEF CodTx
  <2>2. CASE HookTx(r)
    <3>1. PICK o \in OrderIds : orders' = [orders EXCEPT ![o] =
              NewOrder(intents[req[r].intent].quantity, intents[req[r].intent].delivery, "ONLINE")]
      BY <2>2 DEF HookTx
    <3> QED
      BY <1>2, <3>1
  <2> QED
    BY <1>3, <2>1, <2>2
<1>4. ASSUME NEW r \in Requests, Advance(r) \/ CancelTx(r) \/ DisputeTx(r)
      PROVE  Placed \subseteq Placed'
  <2>1. req[r].order \in OrderIds /\ (req[r].pc = "advance" => req[r].to \in Statuses)
    BY <1>4, ContinuationType DEF Advance, CancelTx, DisputeTx
  <2>2. CASE \E s \in Statuses : orders' = [orders EXCEPT ![req[r].order].status = s]
    <3>1. PICK s \in Statuses : orders' = [orders EXCEPT ![req[r].order] =
                                             [orders[req[r].order] EXCEPT !.status = s]]
      BY <2>2
    <3>2. [orders[req[r].order] EXCEPT !.status = s].status # "ABSENT"
      BY <2>1 DEF TypeOK, OrderRow, Statuses
    <3> QED
      BY <2>1, <3>1, <3>2, PlacedGrows
  <2>3. "CANCELLED" \in Statuses
    BY DEF Statuses
  <2> QED
    BY <1>1, <1>4, <2>1, <2>2, <2>3 DEF Advance, CancelTx, DisputeTx, CancelAndRestock
<1>5. ASSUME NEW r \in Requests,
             \/ Start(r) \/ Abort(r) \/ CreateIntent(r) \/ CreatePayment(r) \/ HookRead(r)
             \/ HookShort(r) \/ Log(r) \/ OutOfIds(r)
      PROVE  UNCHANGED orders
  BY <1>5 DEF Start, StartCreate, Deliver, StartAdvance, StartCancel, StartDispute, Abort,
              CreateIntent, CreatePayment, HookRead, HookShort, Log, OutOfIds, rows
<1>6. CASE \/ \E i \in Intents : Pay(i) \/ VerifyPayment(i)
           \/ \E n \in StockEdits : UpdateListing(n)
           \/ CloseListing
           \/ UNCHANGED vars
  BY <1>1, <1>6 DEF Pay, VerifyPayment, UpdateListing, CloseListing, vars, rows
<1> QED
  BY <1>1, <1>3, <1>4, <1>5, <1>6 DEF Next, Continue

LEMMA CountedStep ==
    TypeOK /\ FulfilmentPath /\ DeliveriesCounted /\ [Next]_vars => DeliveriesCounted'
<1> SUFFICES ASSUME TypeOK, FulfilmentPath, DeliveriesCounted, [Next]_vars
             PROVE  DeliveriesCounted'
  OBVIOUS
<1>1. Placed \subseteq Placed'
  BY PlacedKept
<1>2. ASSUME NEW r \in Requests, NEW cont \in Continuations, Becomes(r, cont),
             cont.pc \notin HookPcs \/ (/\ req[r].pc \in HookPcs
                                        /\ cont.intent = req[r].intent),
             UNCHANGED <<made, overlap>>,
             \A i \in Intents : payments'[i].order = payments[i].order
      PROVE  DeliveriesCounted'
  <2>1. /\ req'[r] = cont
        /\ \A s \in Requests \ {r} : req'[s] = req[s]
    BY <1>2, BecomesType
  <2>2. \A s \in Requests : req'[s].pc \in HookPcs =>
            req[s].pc \in HookPcs /\ req'[s].intent = req[s].intent
    BY <1>2, <2>1
  <2> QED
    BY <1>1, <1>2, <2>2, CountedQuiet
<1>3. ASSUME UNCHANGED <<req, made, overlap>>,
             \A i \in Intents : payments'[i].order = payments[i].order
      PROVE  DeliveriesCounted'
  BY <1>1, <1>3, CountedQuiet
<1>4. ASSUME NEW i \in Intents, Pay(i) \/ VerifyPayment(i) PROVE DeliveriesCounted'
  <2>1. \A j \in Intents : payments'[j].order = payments[j].order
    BY <1>4, PaymentStatusOnly DEF Pay, VerifyPayment, MarkSuccess, rows
  <2>2. UNCHANGED <<req, made, overlap>>
    BY <1>4 DEF Pay, VerifyPayment, history
  <2> QED
    BY <1>3, <2>1, <2>2
<1>5. ASSUME NEW r \in Requests, HookRead(r) PROVE DeliveriesCounted'
  <2>1. /\ req[r].intent \in Intents /\ listing.avail \in Int /\ req[r].pc \in HookPcs
        /\ UNCHANGED <<payments, made, overlap>>
    BY <1>5, ContinuationType DEF HookRead, TypeOK, rows, history, HookPcs
  <2>2. CASE listing.avail < intents[req[r].intent].quantity
    BY <1>2, <1>5, <2>1, <2>2, ContinuationsContain DEF HookRead
  <2>3. CASE ~(listing.avail < intents[req[r].intent].quantity)
    BY <1>2, <1>5, <2>1, <2>3, ContinuationsContain DEF HookRead
  <2> QED
    BY <2>2, <2>3
<1>6. ASSUME NEW r \in Requests, CreatePayment(r) \/ HookShort(r) PROVE DeliveriesCounted'
  <2>1. \A i \in Intents : payments'[i].order = payments[i].order
    BY <1>6, ContinuationType, PaymentStatusOnly DEF CreatePayment, HookShort, MarkSuccess
  <2>2. Becomes(r, Idle) /\ UNCHANGED <<made, overlap>>
    BY <1>6 DEF CreatePayment, HookShort, history
  <2> QED
    BY <1>2, <2>1, <2>2, ContinuationsContain DEF Idle, HookPcs
<1>7. ASSUME NEW r \in Requests,
             \/ \E q \in Quantities, d \in Deliveries, m \in Methods : StartCreate(r, q, d, m)
             \/ \E o \in OrderIds : StartAdvance(r, o) \/ StartCancel(r, o) \/ StartDispute(r, o)
             \/ CodTx(r) \/ CreateIntent(r) \/ Advance(r) \/ CancelTx(r) \/ DisputeTx(r)
             \/ Log(r) \/ Abort(r) \/ OutOfIds(r)
      PROVE  DeliveriesCounted'
  <2>1. UNCHANGED <<payments, made, overlap>>
    BY <1>7 DEF StartCreate, StartAdvance, StartCancel, StartDispute, CodTx, CreateIntent,
                Advance, CancelTx, DisputeTx, Log, Abort, OutOfIds, rows, history
  <2>2. /\ \A s \in Requests \ {r} : req'[s] = req[s]
        /\ req'[r].pc \notin HookPcs
    BY <1>7 DEF StartCreate, StartAdvance, StartCancel, StartDispute, CodTx, CreateIntent,
                Advance, CancelTx, DisputeTx, Log, Abort, OutOfIds, Becomes, ThenLog, Idle,
                HookPcs, TypeOK
  <2>3. \A s \in Requests : req'[s].pc \in HookPcs =>
            req[s].pc \in HookPcs /\ req'[s].intent = req[s].intent
    BY <2>2
  <2> QED
    BY <1>1, <2>1, <2>3, CountedQuiet
<1>8. CASE (\E n \in StockEdits : UpdateListing(n)) \/ CloseListing \/ UNCHANGED vars
  BY <1>3, <1>8 DEF UpdateListing, CloseListing, vars, rows, history
<1> QED
  BY <1>4, <1>5, <1>6, <1>7, <1>8, CountedDeliver, CountedHookTx DEF Next, Start, Continue

\* OnlineOrdersPaid without what PaymentChain and DeliveriesCounted give: a prepaid order
\* was made for one payment, and a payment refers to one of its orders.
OneMaker ==
    /\ \A o \in Placed : orders[o].method = "ONLINE" =>
          \E i \in Intents : o \in made[i] /\ \A j \in Intents \ {i} : o \notin made[j]
    /\ \A i \in Intents : made[i] # {} => payments[i].order \in made[i]

LEMMA OneMakerSuffices ==
    TypeOK /\ PaymentChain /\ DeliveriesCounted /\ OneMaker => OnlineOrdersPaid
<1> SUFFICES ASSUME TypeOK, PaymentChain, DeliveriesCounted, OneMaker PROVE OnlineOrdersPaid
  OBVIOUS
<1>1. \A i \in Intents : made[i] # {} => i \in captured /\ payments[i].status = "SUCCESS"
  BY DEF DeliveriesCounted, PaymentChain, RowsLinked
<1>2. \A i \in Intents : Cardinality(made[i]) <= overlap[i]
  <2> SUFFICES ASSUME NEW i \in Intents PROVE Cardinality(made[i]) <= overlap[i]
    OBVIOUS
  <2>1. IsFiniteSet(made[i]) /\ Cardinality(made[i]) + Cardinality(Hooks(i)) <= overlap[i]
    BY DEF DeliveriesCounted
  <2>2. Cardinality(made[i]) \in Nat /\ overlap[i] \in Nat
    BY <2>1, FS_CardinalityType DEF TypeOK
  <2> QED
    BY <2>1, <2>2, FiniteHooks
<1>3. \A i \in Intents :
         IF made[i] = {} THEN payments[i].order = None ELSE payments[i].order \in made[i]
  BY DEF DeliveriesCounted, OneMaker
<1>4. \A o \in Placed : orders[o].method = "ONLINE" =>
         \E i \in captured : /\ o \in made[i] /\ payments[i].status = "SUCCESS"
                             /\ \A j \in Intents \ {i} : o \notin made[j]
  <2> SUFFICES ASSUME NEW o \in Placed, orders[o].method = "ONLINE"
               PROVE  \E i \in captured :
                         /\ o \in made[i] /\ payments[i].status = "SUCCESS"
                         /\ \A j \in Intents \ {i} : o \notin made[j]
    OBVIOUS
  <2>1. PICK i \in Intents : o \in made[i] /\ \A j \in Intents \ {i} : o \notin made[j]
    BY DEF OneMaker
  <2> QED
    BY <1>1, <2>1
<1> QED
  BY <1>2, <1>3, <1>4 DEF OnlineOrdersPaid

LEMMA OneMakerStep ==
    TypeOK /\ FulfilmentPath /\ DeliveriesCounted /\ OneMaker /\ [Next]_vars => OneMaker'
<1> SUFFICES ASSUME TypeOK, FulfilmentPath, DeliveriesCounted, OneMaker, [Next]_vars
             PROVE  OneMaker'
  OBVIOUS
\* A step that adds no prepaid order and keeps every link in place.
<1>1. ASSUME UNCHANGED made, \A i \in Intents : payments'[i].order = payments[i].order,
             \A o \in Placed' : orders'[o].method = "ONLINE" =>
                o \in Placed /\ orders[o].method = "ONLINE"
      PROVE  OneMaker'
  BY <1>1 DEF OneMaker
<1>2. ASSUME NEW r \in Requests, HookTx(r) PROVE OneMaker'
  <2> DEFINE i == req[r].intent
  <2>1. i \in Intents
    BY <1>2, ContinuationType DEF HookTx
  <2>2. PICK o \in OrderIds \ Placed :
           /\ orders' = [orders EXCEPT ![o] =
                  NewOrder(intents[i].quantity, intents[i].delivery, "ONLINE")]
           /\ payments' = [payments EXCEPT ![i] = [status |-> "SUCCESS", order |-> o]]
           /\ made' = [made EXCEPT ![i] = @ \cup {o}]
    BY <1>2 DEF HookTx
  <2>3. /\ made'[i] = made[i] \cup {o} /\ payments'[i].order = o
        /\ \A j \in Intents \ {i} : made'[j] = made[j] /\ payments'[j] = payments[j]
    BY <2>1, <2>2 DEF TypeOK
  <2>4. \A j \in Intents : o \notin made[j]
    BY <2>2 DEF DeliveriesCounted
  <2>5. ASSUME NEW p \in Placed', orders'[p].method = "ONLINE"
        PROVE  \E k \in Intents : p \in made'[k] /\ \A j \in Intents \ {k} : p \notin made'[j]
    <3>1. CASE p = o
      BY <2>1, <2>3, <2>4, <3>1
    <3>2. CASE p # o
      <4>1. p \in Placed /\ orders[p].method = "ONLINE"
        BY <2>2, <2>5, <3>2 DEF Placed, TypeOK
      <4>2. PICK k \in Intents : p \in made[k] /\ \A j \in Intents \ {k} : p \notin made[j]
        BY <4>1 DEF OneMaker
      <4>3. \A j \in Intents : p \in made'[j] <=> p \in made[j]
        BY <2>3, <3>2
      <4> QED
        BY <4>2, <4>3
    <3> QED
      BY <3>1, <3>2
  <2>6. \A j \in Intents : made'[j] # {} => payments'[j].order \in made'[j]
    BY <2>3 DEF OneMaker
  <2> QED
    BY <2>5, <2>6 DEF OneMaker
<1>3. ASSUME NEW r \in Requests, CodTx(r) PROVE OneMaker'
  <2>1. UNCHANGED <<made, payments>>
    BY <1>3 DEF CodTx, history
  <2>2. ASSUME NEW o \in OrderIds,
               orders' = [orders EXCEPT ![o] =
                            NewOrder(req[r].quantity, req[r].delivery, "COD")]
        PROVE  OneMaker'
    <3>1. \A p \in Placed' : orders'[p].method = "ONLINE" =>
              p \in Placed /\ orders[p].method = "ONLINE"
      BY <2>2 DEF Placed, TypeOK, NewOrder
    <3> QED
      BY <1>1, <2>1, <3>1
  <2>3. CASE UNCHANGED orders
    BY <1>1, <2>1, <2>3 DEF Placed
  <2> QED
    BY <1>3, <2>2, <2>3 DEF CodTx
<1>4. ASSUME NEW r \in Requests, Advance(r) \/ CancelTx(r) \/ DisputeTx(r)
      PROVE  OneMaker'
  <2>1. UNCHANGED <<made, payments>>
    BY <1>4 DEF Advance, CancelTx, DisputeTx, history
  <2>2. req[r].order \in OrderIds /\ req[r].order \in Placed
    BY <1>4 DEF Advance, CancelTx, DisputeTx, FulfilmentPath, Placed
  <2>3. CASE UNCHANGED orders
    BY <1>1, <2>1, <2>3 DEF Placed
  <2>4. ASSUME NEW s, orders' = [orders EXCEPT ![req[r].order].status = s]
        PROVE  OneMaker'
    <3>1. \A p \in OrderIds : orders'[p].method = orders[p].method
      BY <2>2, <2>4 DEF TypeOK, OrderRow
    <3>2. \A p \in OrderIds \ {req[r].order} : orders'[p] = orders[p]
      BY <2>2, <2>4 DEF TypeOK
    <3>3. Placed' \subseteq Placed
      BY <2>2, <3>2 DEF Placed
    <3>4. Placed \subseteq OrderIds
      BY DEF Placed
    <3> QED
      BY <1>1, <2>1, <3>1, <3>3, <3>4
  <2> QED
    BY <1>4, <2>3, <2>4 DEF Advance, CancelTx, DisputeTx, CancelAndRestock
<1>5. ASSUME NEW i \in Intents, NEW s, payments' = [payments EXCEPT ![i].status = s],
             UNCHANGED <<orders, made>>
      PROVE  OneMaker'
  BY <1>1, <1>5, PaymentStatusOnly DEF Placed
<1>6. ASSUME NEW r \in Requests, CreatePayment(r) \/ HookShort(r) PROVE OneMaker'
  <2>1. req[r].intent \in Intents /\ UNCHANGED <<orders, made>>
    BY <1>6, ContinuationType DEF CreatePayment, HookShort, history
  <2>2. \/ payments' = [payments EXCEPT ![req[r].intent].status = "PENDING"]
        \/ payments' = [payments EXCEPT ![req[r].intent].status = "SUCCESS"]
    BY <1>6 DEF CreatePayment, HookShort, MarkSuccess
  <2> QED
    BY <1>5, <2>1, <2>2
<1>7. ASSUME NEW i \in Intents, VerifyPayment(i) PROVE OneMaker'
  BY <1>5, <1>7 DEF VerifyPayment, MarkSuccess, history
<1>8. CASE UNCHANGED <<orders, payments, made>>
  BY <1>1, <1>8 DEF Placed
<1>9. ASSUME NEW r \in Requests,
             \/ Start(r) \/ Abort(r) \/ CreateIntent(r) \/ HookRead(r) \/ Log(r) \/ OutOfIds(r)
      PROVE  OneMaker'
  BY <1>8, <1>9 DEF Start, StartCreate, Deliver, StartAdvance, StartCancel, StartDispute,
                    Abort, CreateIntent, HookRead, Log, OutOfIds, rows, history
<1>10. CASE \/ \E i \in Intents : Pay(i)
            \/ \E n \in StockEdits : UpdateListing(n)
            \/ CloseListing
            \/ UNCHANGED vars
  BY <1>8, <1>10 DEF Pay, UpdateListing, CloseListing, vars, rows, history
<1> QED
  BY <1>2, <1>3, <1>4, <1>6, <1>7, <1>9, <1>10 DEF Next, Continue

LEMMA CountedInit == Init => DeliveriesCounted
<1> SUFFICES ASSUME Init PROVE DeliveriesCounted
  OBVIOUS
<1>1. \A i \in Intents : Hooks(i) = {}
  BY DEF Init, Hooks, HookPcs, Idle
<1>2. \A i \in Intents : made[i] = {} /\ overlap[i] = 0 /\ payments[i].order = None
  BY DEF Init
<1> QED
  BY <1>1, <1>2, FS_EmptySet DEF DeliveriesCounted

\* However often Razorpay delivers, a prepaid order was made for one captured payment, and
\* a payment makes no more orders than deliveries of it were at work at one time.
THEOREM PaidOnce == Spec => []OnlineOrdersPaid
<1>1. Init => OneMaker
  BY DEF Init, OneMaker, Placed, NoOrder
<1> QED
  BY <1>1, CountedInit, CountedStep, OneMakerStep, OneMakerSuffices, TypeCorrect,
     PaymentChainHolds, OnPath, PTL DEF Spec
===============================================================================
