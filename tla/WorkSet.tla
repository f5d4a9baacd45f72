------------------------------ MODULE WorkSet -------------------------------
(* What a work queue of RuntimeCoordinator promises its callers: a set of    *)
(* owed work.  An enqueue that returns leaves the item owed, whether it was  *)
(* added or refused as a duplicate; an owed item is taken by one client,     *)
(* which then works on it or hands it back.                                  *)
CONSTANTS Items, Clients, NoItem

VARIABLES owed,      \* the items some later delivery must hand out
          hand       \* the item each client is working on

vars == <<owed, hand>>

Init == owed = {} /\ hand = [c \in Clients |-> NoItem]

Enqueue(i) == owed' = owed \union {i} /\ UNCHANGED hand

Take(c, i) ==
    /\ hand[c] = NoItem /\ i \in owed
    /\ owed' = owed \ {i}
    /\ hand' = [hand EXCEPT ![c] = i]

Finish(c) == hand[c] # NoItem /\ hand' = [hand EXCEPT ![c] = NoItem] /\ UNCHANGED owed

HandBack(c) ==
    /\ hand[c] # NoItem
    /\ owed' = owed \union {hand[c]}
    /\ hand' = [hand EXCEPT ![c] = NoItem]

Next == \/ \E i \in Items : Enqueue(i)
        \/ \E c \in Clients : Finish(c) \/ HandBack(c) \/ \E i \in Items : Take(c, i)

Spec == Init /\ [][Next]_vars
=============================================================================
