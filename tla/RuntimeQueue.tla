---------------------------- MODULE RuntimeQueue ----------------------------
(* One of the two Redis work queues of RuntimeCoordinator                    *)
(* (src/app/runtime/redis.py): a list that holds the work and a set that     *)
(* deduplicates it.  enqueue_fetch/enqueue_action and dequeue_fetch/         *)
(* dequeue_action are each two Redis commands with an await between them;    *)
(* every command is atomic in Redis, the pair is not.  This module gives the *)
(* four commands; QueueProtocol and ActionService say who issues them, when. *)
EXTENDS Sequences, Functions

CONSTANT Items       \* what is queued: account ids or action ids

VARIABLES queue,     \* the Redis list (runtime:action_queue, runtime:fetch_queue)
          pending    \* the Redis set (runtime:action_pending, runtime:fetch_pending)

queueVars == <<queue, pending>>

QueueInit == queue = <<>> /\ pending = {}

QueueTypeOK == queue \in Seq(Items) /\ pending \in SUBSET Items

(* Faulty variants, against which the runs are tried: SADD whose answer is   *)
(* not looked at, RPUSH forgotten, SREM forgotten.                           *)
SaddUnchecked(i) == pending' = pending \union {i} /\ UNCHANGED queue
RpushForgotten(i) == i = i /\ UNCHANGED queueVars
SremForgotten(i) == i = i /\ UNCHANGED queueVars

(* SADD: it reports whether the item was new, and only then is RPUSH issued. *)
SaddNew(i) == i \notin pending /\ pending' = pending \union {i} /\ UNCHANGED queue
SaddRefused(i) == i \in pending /\ UNCHANGED queueVars

Rpush(i) == queue' = Append(queue, i) /\ UNCHANGED pending

(* BLPOP with an answer; its timeout changes nothing. *)
Blpop(i) == queue # <<>> /\ i = Head(queue) /\ queue' = Tail(queue) /\ UNCHANGED pending

Srem(i) == pending' = pending \ {i} /\ UNCHANGED queue

(* The list as a set. *)
Queued == Range(queue)
=============================================================================
