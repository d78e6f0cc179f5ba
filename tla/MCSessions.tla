------------------------------ MODULE MCSessions ------------------------------
(* Sessions with interchangeable people, tokens and request slots. *)
EXTENDS Sessions, TLC

Symmetry == Permutations(Users) \cup Permutations(Tokens) \cup Permutations(Requests)

===============================================================================
