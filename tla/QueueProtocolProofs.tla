------------------------ MODULE QueueProtocolProofs -------------------------
(* The safety of the work queue for any number of items, clients and stops.  *)
(* Inv is inductive: ownership of an item by the list or by one client that  *)
(* is between its two commands, which NoDuplicates alone does not say.       *)
EXTENDS QueueProtocol, RuntimeQueueProofs

Inv == TypeOK /\ NoDuplicates /\ Ownership /\ NothingLost

LEMMA InitInv == Init => Inv
  BY QueueAssumption, EmptySeq
  DEF Init, QueueInit, Inv, TypeOK, QueueTypeOK, NoDuplicates, Ownership, NothingLost, Between,
      Queued, Range, Phases

-----------------------------------------------------------------------------
(* Each action keeps Inv.                                                    *)
LEMMA EnqueueAddsInv ==
    ASSUME NEW c \in Clients, NEW i \in Items, Inv, EnqueueAdds(c, i)  PROVE  Inv'
  BY QueueAssumption
  DEF Inv, TypeOK, QueueTypeOK, NoDuplicates, Ownership, NothingLost, Between, Queued, Range,
      EnqueueAdds, SaddNew, Goto, Phases

LEMMA EnqueueRefusedInv ==
    ASSUME NEW c \in Clients, NEW i \in Items, Inv, EnqueueRefused(c, i)  PROVE  Inv'
  BY QueueAssumption
  DEF Inv, TypeOK, QueueTypeOK, NoDuplicates, Ownership, NothingLost, Between, Queued, Range,
      EnqueueRefused, SaddRefused, Goto, Phases, queueVars

LEMMA EnqueuePushesInv ==
    ASSUME NEW c \in Clients, Inv, EnqueuePushes(c)  PROVE  Inv'
<1> DEFINE i == item[c]
<1>1. i \in Items /\ i \in pending /\ i \notin Queued /\ queue \in Seq(Items) /\ Distinct(queue)
  BY QueueAssumption
  DEF Inv, TypeOK, QueueTypeOK, Ownership, NoDuplicates, Between, EnqueuePushes, Distinct
<1>2. queue' \in Seq(Items) /\ Queued' = Queued \union {i} /\ NoDuplicates'
  BY <1>1, AppendQueued DEF EnqueuePushes, Rpush, Queued, NoDuplicates, Distinct
<1>3. TypeOK'
  BY <1>2 DEF Inv, TypeOK, QueueTypeOK, EnqueuePushes, Rpush, Goto, Phases
<1>4. Ownership'
  BY <1>1, <1>2 DEF Inv, TypeOK, Ownership, EnqueuePushes, Rpush, Goto, Between
<1>5. NothingLost'
  BY <1>1, <1>2 DEF Inv, TypeOK, NothingLost, EnqueuePushes, Rpush, Goto, Between
<1> QED BY <1>2, <1>3, <1>4, <1>5 DEF Inv

LEMMA DequeuePopsInv ==
    ASSUME NEW c \in Clients, Inv, DequeuePops(c)  PROVE  Inv'
<1>1. PICK i \in Items : Blpop(i) /\ Goto(c, "popped", i)
  BY DEF DequeuePops
<1>2. queue \in Seq(Items) /\ Distinct(queue) /\ queue # <<>> /\ i = Head(queue) /\ queue' = Tail(queue)
  BY <1>1 DEF Inv, TypeOK, QueueTypeOK, NoDuplicates, Distinct, Blpop
<1>3. queue' \in Seq(Items) /\ Queued = Queued' \union {i} /\ i \notin Queued' /\ NoDuplicates'
  BY <1>2, TailQueued DEF Queued, NoDuplicates, Distinct
<1>4. TypeOK'
  BY <1>1, <1>3, QueueAssumption DEF Inv, TypeOK, QueueTypeOK, DequeuePops, Blpop, Goto, Phases
<1>5. Ownership'
  BY <1>1, <1>3 DEF Inv, TypeOK, Ownership, DequeuePops, Blpop, Goto, Between
<1>6. NothingLost'
  BY <1>1, <1>3 DEF Inv, TypeOK, NothingLost, DequeuePops, Blpop, Goto, Between
<1> QED BY <1>3, <1>4, <1>5, <1>6 DEF Inv

LEMMA DequeueClearsInv ==
    ASSUME NEW c \in Clients, Inv, DequeueClears(c)  PROVE  Inv'
  BY QueueAssumption
  DEF Inv, TypeOK, QueueTypeOK, NoDuplicates, Ownership, NothingLost, Between, Queued,
      DequeueClears, Srem, Goto, Phases

LEMMA FinishInv ==
    ASSUME NEW c \in Clients, Inv, Finish(c)  PROVE  Inv'
  BY QueueAssumption
  DEF Inv, TypeOK, QueueTypeOK, NoDuplicates, Ownership, NothingLost, Between, Queued,
      Finish, Goto, Phases

LEMMA CrashInv ==
    ASSUME NEW c \in Clients, Inv, Crash(c)  PROVE  Inv'
  BY QueueAssumption
  DEF Inv, TypeOK, QueueTypeOK, NoDuplicates, Ownership, NothingLost, Between, Queued,
      Crash, Goto, Phases, queueVars

LEMMA NextInv == Inv /\ [Next]_vars => Inv'
<1> SUFFICES ASSUME Inv, [Next]_vars PROVE Inv'
  OBVIOUS
<1>1. CASE UNCHANGED vars
  BY <1>1 DEF Inv, TypeOK, QueueTypeOK, NoDuplicates, Ownership, NothingLost, Between, Queued, vars
<1>2. CASE Next
  BY <1>2, EnqueueAddsInv, EnqueueRefusedInv, EnqueuePushesInv, DequeuePopsInv, DequeueClearsInv,
     FinishInv, CrashInv DEF Next
<1> QED BY <1>1, <1>2

(* The whole invariant holds in every reachable state.                       *)
THEOREM Invariance == Spec => []Inv
<1> QED BY InitInv, NextInv, PTL DEF Spec

(* The state keeps its shape (redis.py:29-60).                               *)
THEOREM TypeCorrect == Spec => []TypeOK
<1>1. Inv => TypeOK
  BY DEF Inv
<1> QED BY Invariance, <1>1, PTL

(* For any number of clients and stops the list never holds an item twice,   *)
(* so a delivery that clears the set leaves no second copy behind.           *)
THEOREM NeverQueuedTwice == Spec => []NoDuplicates
<1>1. Inv => NoDuplicates
  BY DEF Inv
<1> QED BY Invariance, <1>1, PTL

(* An item whose enqueue is refused is in the list, or a client is about to  *)
(* push or clear it, or a stop stranded it (redis.py:48-52).                 *)
THEOREM NoLostWakeup == Spec => []NothingLost
<1>1. Inv => NothingLost
  BY DEF Inv
<1> QED BY Invariance, <1>1, PTL

-----------------------------------------------------------------------------
(* Refinement.  The set of owed work is pending; a client's hand is full     *)
(* while it is "working".                                                    *)
Hand == [c \in Clients |-> IF phase[c] = "working" THEN item[c] ELSE NoItem]

LEMMA InitRefines == Init => AsWorkSet!Init
  BY DEF Init, QueueInit, AsWorkSet!Init

LEMMA HandStep ==
    ASSUME TypeOK, NEW c \in Clients, NEW p \in Phases, NEW i, Goto(c, p, i)
    PROVE  Hand' = [Hand EXCEPT ![c] = IF p = "working" THEN i ELSE NoItem]
  BY DEF Hand, Goto, TypeOK

LEMMA NextRefines == Inv /\ [Next]_vars => [AsWorkSet!Next]_(AsWorkSet!vars)
<1> SUFFICES ASSUME Inv, [Next]_vars PROVE [AsWorkSet!Next]_(AsWorkSet!vars)
  OBVIOUS
<1> USE DEF Inv
<1>1. CASE UNCHANGED vars
  BY <1>1 DEF vars, AsWorkSet!vars
<1>2. ASSUME NEW c \in Clients, NEW i \in Items, EnqueueAdds(c, i)
      PROVE  AsWorkSet!Enqueue(i) \/ AsWorkSet!HandBack(c)
  BY <1>2, HandStep, QueueAssumption
  DEF EnqueueAdds, SaddNew, AsWorkSet!Enqueue, AsWorkSet!HandBack, Hand, TypeOK, Goto, Phases
<1>3. ASSUME NEW c \in Clients, NEW i \in Items, EnqueueRefused(c, i)
      PROVE  UNCHANGED AsWorkSet!vars \/ AsWorkSet!Finish(c)
  BY <1>3, HandStep, QueueAssumption
  DEF EnqueueRefused, SaddRefused, queueVars, AsWorkSet!vars, AsWorkSet!Finish, Hand, TypeOK, Goto, Phases
<1>4. ASSUME NEW c \in Clients, EnqueuePushes(c)  PROVE UNCHANGED AsWorkSet!vars
  BY <1>4, HandStep DEF EnqueuePushes, Rpush, AsWorkSet!vars, Hand, TypeOK, Goto, Phases
<1>5. ASSUME NEW c \in Clients, DequeuePops(c)  PROVE UNCHANGED AsWorkSet!vars
  BY <1>5, HandStep DEF DequeuePops, Blpop, AsWorkSet!vars, Hand, TypeOK, Goto, Phases
<1>6. ASSUME NEW c \in Clients, DequeueClears(c)
      PROVE  \E i \in Items : AsWorkSet!Take(c, i)
  <2>1. item[c] \in Items /\ item[c] \in pending /\ phase[c] = "popped"
    BY <1>6, QueueAssumption DEF DequeueClears, TypeOK, Ownership, Between
  <2>2. /\ Hand[c] = NoItem
        /\ pending' = pending \ {item[c]} /\ Hand' = [Hand EXCEPT ![c] = item[c]]
    BY <1>6, <2>1, HandStep DEF DequeueClears, Srem, Hand, Phases
  <2> QED BY <2>1, <2>2 DEF AsWorkSet!Take, Hand
<1>7. ASSUME NEW c \in Clients, Finish(c)  PROVE AsWorkSet!Finish(c)
  BY <1>7, HandStep, QueueAssumption DEF Finish, AsWorkSet!Finish, Hand, TypeOK, Goto, Phases
<1>8. ASSUME NEW c \in Clients, Crash(c)  PROVE UNCHANGED AsWorkSet!vars \/ AsWorkSet!Finish(c)
  BY <1>8, HandStep, QueueAssumption
  DEF Crash, queueVars, AsWorkSet!vars, AsWorkSet!Finish, Hand, TypeOK, Goto, Phases
<1>9. CASE Next
  <2>1. ASSUME NEW c \in Clients, NEW i \in Items, EnqueueAdds(c, i) \/ EnqueueRefused(c, i)
        PROVE  [AsWorkSet!Next]_(AsWorkSet!vars)
    BY <2>1, <1>2, <1>3 DEF AsWorkSet!Next
  <2>2. ASSUME NEW c \in Clients, EnqueuePushes(c) \/ DequeuePops(c) \/ Crash(c)
        PROVE  [AsWorkSet!Next]_(AsWorkSet!vars)
    BY <2>2, <1>4, <1>5, <1>8 DEF AsWorkSet!Next
  <2>3. ASSUME NEW c \in Clients, DequeueClears(c)  PROVE AsWorkSet!Next
    BY <2>3, <1>6 DEF AsWorkSet!Next
  <2>4. ASSUME NEW c \in Clients, Finish(c)  PROVE AsWorkSet!Next
    BY <2>4, <1>7 DEF AsWorkSet!Next
  <2> QED BY <1>9, <2>1, <2>2, <2>3, <2>4 DEF Next
<1> QED BY <1>1, <1>9

(* The two-command queue implements the set of owed work, stops included:    *)
(* an enqueue takes effect at SADD and a dequeue at SREM (redis.py:29-60).   *)
THEOREM QueueImplementsWorkSet == Spec => ImplementsWorkSet
<1> QED BY InitRefines, NextRefines, Invariance, PTL DEF Spec, ImplementsWorkSet, AsWorkSet!Spec
=============================================================================
