------------------------------- MODULE MCOrders -------------------------------
(* Orders on small sets of model values; order ids, intents and request slots *)
(* are interchangeable.                                                       *)
EXTENDS OrdersRefinement, TLC

Symmetry ==
    Permutations(OrderIds) \cup Permutations(Intents) \cup Permutations(Requests)
===============================================================================
