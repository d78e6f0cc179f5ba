--------------------------- MODULE OrdersRefinement ----------------------------
(* The prepaid part of Orders implements Checkout: where a purchase is can be   *)
(* read off the rows and Razorpay's captures.                                   *)
EXTENDS Orders

PurchaseStage(i) ==
    CASE payments[i].order # None -> "ordered"
      [] payments[i].order = None /\ payments[i].status = "SUCCESS" -> "kept"
      [] payments[i].order = None /\ payments[i].status = "PENDING" ->
            IF i \in captured THEN "paid" ELSE "due"
      [] OTHER -> IF intents[i].quantity = 0 THEN "none" ELSE "draft"

Purchases == INSTANCE Checkout WITH
    stage <- [i \in Intents |-> PurchaseStage(i)],
    attempts <- overlap,
    bought <- made

\* A prepaid checkout does what Checkout promises: crashes, retries, a verification that
\* races the webhook and a webhook without stock never pay a purchase twice, lose its place
\* or give it more orders than deliveries were at work on it together.
ImplementsCheckout == Purchases!Spec
===============================================================================
