------------------------------ MODULE MCLibrary ------------------------------
(* The users, the generations, the requests and the skills are interchangeable. *)
EXTENDS Library, TLC
Symmetry == Permutations(Users) \cup Permutations(Generations) \cup Permutations(Requests) \cup Permutations(Skills)
=============================================================================
