--------------------------- MODULE MCAccountState ---------------------------
EXTENDS AccountState, TLC

(* Handlers and workers are interchangeable.                                 *)
Symmetry == Permutations(Handlers) \union Permutations(Workers)
=============================================================================
