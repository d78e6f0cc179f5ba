------------------------------- MODULE MCGrowing -------------------------------
(* Growing with interchangeable milestones, batches and request slots. *)
EXTENDS Growing, TLC

Symmetry == Permutations(Milestones) \cup Permutations(Batches) \cup Permutations(Requests)

===============================================================================
