---------------------------- MODULE MCPreBookings -----------------------------
(* PreBookings on small sets of model values; booking ids and request slots   *)
(* are interchangeable.                                                       *)
EXTENDS PreBookings, TLC

Symmetry == Permutations(Bookings) \cup Permutations(Requests)
===============================================================================
