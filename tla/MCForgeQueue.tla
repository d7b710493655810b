----------------------------- MODULE MCForgeQueue -----------------------------
(* Model-checking instance of ForgeQueue. *)
EXTENDS ForgeQueue, TLC

\* Generations and instances are interchangeable; used for safety runs only.
Symmetry == Permutations(Gens) \cup Permutations(Instances)
===============================================================================
