--------------------------- MODULE MCActionBudget ---------------------------
(* Two kinds with a limit of one a day each; days of three hours, of which   *)
(* the last two are active, and a second day of which they are reached.      *)
EXTENDS ActionBudget, TLC

Limits == [k \in Kinds |-> 1]
(* Workers are interchangeable.                                              *)
Symmetry == Permutations(Workers)
=============================================================================
