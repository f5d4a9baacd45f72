--------------------------- MODULE QueueProtocol ----------------------------
(* The clients of a work queue: API handlers that enqueue, and workers that  *)
(* dequeue, work, and sometimes hand the item back (the account lock was     *)
(* taken: app/actions/service.py:593-595).  Between the two commands of an   *)
(* enqueue or a dequeue any other client may run, and the process may stop.  *)
EXTENDS RuntimeQueue, Naturals

CONSTANTS Clients, NoItem,
          MaxCrashes     \* bound: how many times a process stops

ASSUME QueueAssumption == NoItem \notin Items /\ MaxCrashes \in Nat

VARIABLES phase,     \* phase[c]: "idle", "pushing" (SADD done), "popped" (BLPOP done), "working"
          item,      \* the item of that phase
          stranded,  \* history: items whose client stopped between its two commands
          crashes

vars == <<queue, pending, phase, item, stranded, crashes>>

Phases == {"idle", "pushing", "popped", "working"}

(* Between its two commands a client is the only one that can put the item   *)
(* into the list, or take it out of the set.                                 *)
Between(c) == phase[c] \in {"pushing", "popped"}

Init == /\ QueueInit
        /\ phase = [c \in Clients |-> "idle"]
        /\ item = [c \in Clients |-> NoItem]
        /\ stranded = {}
        /\ crashes = 0

Goto(c, p, i) ==
    /\ phase' = [phase EXCEPT ![c] = p]
    /\ item' = [item EXCEPT ![c] = i]

(* enqueue by a client that holds no work, or with the item it works on.     *)
EnqueueAdds(c, i) ==
    /\ phase[c] = "idle" \/ (phase[c] = "working" /\ i = item[c])
    /\ SaddNew(i) /\ Goto(c, "pushing", i)
    /\ UNCHANGED <<stranded, crashes>>

EnqueueRefused(c, i) ==
    /\ phase[c] = "idle" \/ (phase[c] = "working" /\ i = item[c])
    /\ SaddRefused(i) /\ Goto(c, "idle", NoItem)
    /\ UNCHANGED <<stranded, crashes>>

EnqueuePushes(c) ==
    /\ phase[c] = "pushing"
    /\ Rpush(item[c]) /\ Goto(c, "idle", NoItem)
    /\ UNCHANGED <<stranded, crashes>>

DequeuePops(c) ==
    /\ phase[c] = "idle"
    /\ \E i \in Items : Blpop(i) /\ Goto(c, "popped", i)
    /\ UNCHANGED <<stranded, crashes>>

DequeueClears(c) ==
    /\ phase[c] = "popped"
    /\ Srem(item[c]) /\ Goto(c, "working", item[c])
    /\ UNCHANGED <<stranded, crashes>>

Finish(c) ==
    /\ phase[c] = "working"
    /\ Goto(c, "idle", NoItem)
    /\ UNCHANGED <<queue, pending, stranded, crashes>>

(* The process stops; Redis keeps its list and its set, and the process is   *)
(* started again with nothing in hand.                                       *)
Crash(c) ==
    /\ crashes < MaxCrashes /\ phase[c] # "idle"
    /\ crashes' = crashes + 1
    /\ stranded' = stranded \union (IF Between(c) THEN {item[c]} ELSE {})
    /\ Goto(c, "idle", NoItem)
    /\ UNCHANGED queueVars

Step(c) == EnqueuePushes(c) \/ DequeueClears(c) \/ Finish(c)

Next == \E c \in Clients :
            \/ EnqueuePushes(c) \/ DequeuePops(c) \/ DequeueClears(c) \/ Finish(c) \/ Crash(c)
            \/ \E i \in Items : EnqueueAdds(c, i) \/ EnqueueRefused(c, i)

Spec == Init /\ [][Next]_vars

(* A coroutine that was started goes on; the worker loop keeps polling.      *)
Fairness == /\ \A c \in Clients : WF_vars(Step(c))
            /\ WF_vars(\E c \in Clients : DequeuePops(c))

FairSpec == Spec /\ Fairness
-----------------------------------------------------------------------------
(* The state is of the declared shape; a client holds an item exactly when   *)
(* it is inside an enqueue, a dequeue or its work.                           *)
TypeOK ==
    /\ QueueTypeOK
    /\ phase \in [Clients -> Phases]
    /\ item \in [Clients -> Items \union {NoItem}]
    /\ \A c \in Clients : item[c] = NoItem <=> phase[c] = "idle"
    /\ stranded \in SUBSET Items
    /\ crashes \in 0 .. MaxCrashes

(* The list never holds an item twice: the set that SADD consults            *)
(* deduplicates although SADD and RPUSH, and BLPOP and SREM, are separate    *)
(* commands (redis.py:29-60).                                                *)
NoDuplicates == \A j, k \in DOMAIN queue : queue[j] = queue[k] => j = k

(* Whatever the list holds is in the set, and so is the item of a client     *)
(* between its two commands, which is not in the list and is no other such   *)
(* client's: the ownership that makes NoDuplicates inductive.                *)
Ownership ==
    /\ Queued \subseteq pending
    /\ \A c \in Clients : Between(c) => item[c] \in pending /\ item[c] \notin Queued
    /\ \A c, d \in Clients : Between(c) /\ Between(d) /\ item[c] = item[d] => c = d

(* No lost wakeup: an enqueue is refused only because the item is in the     *)
(* set, and an item in the set is in the list or with a client that will     *)
(* still push or clear it, unless a process stopped between its commands.    *)
NothingLost ==
    \A i \in pending : i \in Queued \union stranded \/ \E c \in Clients : Between(c) /\ item[c] = i

(* Every item in the set leaves it, by a delivery, or is stranded by a stop. *)
Delivered == \A i \in Items : i \in pending ~> (i \notin pending \/ i \in stranded)

(* The two-command queue behaves as the set of owed work: an enqueue takes   *)
(* effect at SADD, a dequeue at SREM.                                        *)
AsWorkSet == INSTANCE WorkSet WITH
                owed <- pending,
                hand <- [c \in Clients |-> IF phase[c] = "working" THEN item[c] ELSE NoItem]
ImplementsWorkSet == AsWorkSet!Spec
=============================================================================
