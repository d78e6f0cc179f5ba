------------------------------- MODULE MCCatalog -------------------------------
(* Catalog with interchangeable rows and request slots: no property tells them   *)
(* apart.                                                                        *)
EXTENDS Catalog, TLC

Symmetry ==
    Permutations(Growers) \cup Permutations(Crops) \cup Permutations(Varieties)
        \cup Permutations(Uses) \cup Permutations(Reviews) \cup Permutations(Requests)

===============================================================================
