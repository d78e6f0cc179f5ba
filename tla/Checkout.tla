------------------------------- MODULE Checkout --------------------------------
(*****************************************************************************)
(* What a prepaid checkout promises, without requests, stock or deliveries:  *)
(* a purchase is drafted, offered for payment, paid once, and its money is   *)
(* kept on record; attempts to confirm it make orders of a paid purchase, no *)
(* more of them than attempts were made before the first, and an order is    *)
(* never another purchase's.  OrdersRefinement shows that Orders implements  *)
(* it.  A purchase with one attempt has one order at most.                   *)
(*****************************************************************************)
EXTENDS Naturals, FiniteSets

CONSTANTS Intents, OrderIds

VARIABLES
    stage,     \* how far the purchase of each intent is
    attempts,  \* the attempts to confirm each, at one time
    bought     \* the orders it became

vars == <<stage, attempts, bought>>

Init ==
    /\ stage = [i \in Intents |-> "none"]
    /\ attempts = [i \in Intents |-> 0]
    /\ bought = [i \in Intents |-> {}]

Moves(i, from, to) ==
    /\ stage[i] \in from
    /\ stage' = [stage EXCEPT ![i] = to]

Draft(i) == Moves(i, {"none"}, "draft") /\ UNCHANGED <<attempts, bought>>
Offer(i) == Moves(i, {"draft"}, "due") /\ UNCHANGED <<attempts, bought>>
Capture(i) == Moves(i, {"due"}, "paid") /\ UNCHANGED <<attempts, bought>>
Keep(i) == Moves(i, {"paid"}, "kept") /\ UNCHANGED <<attempts, bought>>

Attempt(i) ==
    /\ stage[i] \in {"paid", "kept"}
    /\ attempts' = [attempts EXCEPT ![i] = @ + 1]
    /\ UNCHANGED <<stage, bought>>

Make(i, o) ==
    /\ Moves(i, {"paid", "kept", "ordered"}, "ordered")
    /\ Cardinality(bought[i]) < attempts[i]
    /\ \A j \in Intents : o \notin bought[j]
    /\ bought' = [bought EXCEPT ![i] = @ \cup {o}]
    /\ UNCHANGED attempts

Next ==
    \E i \in Intents :
        \/ Draft(i) \/ Offer(i) \/ Capture(i) \/ Keep(i) \/ Attempt(i)
        \/ \E o \in OrderIds : Make(i, o)

Spec == Init /\ [][Next]_vars
===============================================================================
