---------------------------- MODULE MCConfigFiles ---------------------------
EXTENDS ConfigFiles, TLC

(* An edit switches the follow channel off and empties it.                   *)
Off == {[on |-> FALSE, follow |-> {}]}

(* Bound: a file edited by hand and a file a request has spoilt are not       *)
(* followed any further together; each alone is.                             *)
Apart == spoilt = {} \/ byHand = 0

Symmetry == Permutations(Names) \union Permutations(Handlers)
=============================================================================
