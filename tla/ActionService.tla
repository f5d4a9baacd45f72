--------------------------- MODULE ActionService ----------------------------
(* The life of an action request (app/actions/service.py): API handlers      *)
(* create requests and decide on them, workers execute them.  A handler is a *)
(* coroutine of the API process, a worker a run of app/worker.py.  One       *)
(* action of this module is one database transaction, one Redis command or   *)
(* one remote call; between two of them every other process may step.  The   *)
(* ORM has no row lock and no version column: a commit writes what was       *)
(* decided from an earlier read, whatever the row holds by then.             *)
EXTENDS RuntimeQueue, Naturals, FiniteSets

CONSTANTS Requests,     \* what may be requested: [account, kind, tweet, handle, row]
          Accounts, Handlers, Workers,
          None,         \* SQL NULL, and an empty hand
          NoToken,      \* an account lock that is not set
          Orphan,       \* the token of a process that is gone
          Deletable,    \* rows that clear_tweets, cleanup_stale_tweets or delete_account may delete
          LockMayExpire,     \* the worker's places at which its lock's TTL may run out
          OneAtATime,        \* TRUE: no two handlers are between their read and their commit
          AccountMayVanish,  \* TRUE: an account may be missing from the registry or the database
          MaxCrashes         \* bound: how many times a process stops

VARIABLES
    request, status, edited, learning,   \* columns of action_requests, by id
    expired,                             \* ids whose expires_at has passed
    lock,                                \* runtime:lock:<account> -> token
    hpc, hitem, hreq, hdec,              \* each handler: place, action, request, decision
    wpc, witem, wedited,                 \* each worker: place, action, edited_draft as it read it
    calls, approvals,                    \* history: calls that took effect, commits of "approved"
    dropped, crashes                     \* history: what a stopped process had in hand; stops

rowVars == <<request, status, edited, learning>>
handlerVars == <<hpc, hitem, hreq, hdec>>
workerVars == <<wpc, witem, wedited>>
historyVars == <<calls, approvals, dropped, crashes>>
vars == <<queueVars, rowVars, expired, lock, handlerVars, workerVars, historyVars>>

Statuses == {"absent", "pending_approval", "approved", "executing", "succeeded", "failed",
             "expired", "rejected", "deleted"}
Terminal == {"succeeded", "failed", "expired", "rejected"}
HandlerPlaces == {"idle", "insert", "commit", "reread", "enqueue", "push"}
Decisions == {"create", "approve", "expire", "skip", "modify"}
Unlocked == {"popped", "read", "fail_unlocked", "acquire", "requeue", "repush"}
Deciding == {"gate", "block", "expire", "start"}
AfterStart == {"calling", "succeed", "fail", "close", "refresh", "release", "delete"}
WorkerPlaces == {"idle", "dead"} \union Unlocked \union Deciding \union AfterStart

ASSUME ServiceAssumption ==
    /\ Items \subseteq Nat /\ Deletable \subseteq Items
    /\ None \notin Items /\ None \notin Requests
    /\ Workers \intersect {NoToken, Orphan} = {} /\ NoToken # Orphan
    /\ \A r \in Requests : r.account \in Accounts /\ r.kind \in {"like", "reply", "follow"}
    /\ LockMayExpire \subseteq AfterStart \ {"delete"}
    /\ OneAtATime \in BOOLEAN /\ AccountMayVanish \in BOOLEAN /\ MaxCrashes \in Nat

AccountOf(a) == request[a].account

Init ==
    /\ QueueInit
    /\ request = [a \in Items |-> None]
    /\ status = [a \in Items |-> "absent"]
    /\ edited = [a \in Items |-> FALSE]
    /\ learning = [a \in Items |-> "none"]
    /\ expired = {}
    /\ lock = [c \in Accounts |-> NoToken]
    /\ hpc = [h \in Handlers |-> "idle"] /\ hitem = [h \in Handlers |-> None]
    /\ hreq = [h \in Handlers |-> None] /\ hdec = [h \in Handlers |-> "create"]
    /\ wpc = [w \in Workers |-> "idle"] /\ witem = [w \in Workers |-> None]
    /\ wedited = [w \in Workers |-> FALSE]
    /\ calls = [a \in Items |-> 0] /\ approvals = [a \in Items |-> 0]
    /\ dropped = {} /\ crashes = 0

SetStatus(a, s) == status' = [status EXCEPT ![a] = s]
Approved(a) == approvals' = [approvals EXCEPT ![a] = @ + 1]

-----------------------------------------------------------------------------
(* API handlers                                                              *)

(* Rows that _find_existing_action compares with a request r: a column that  *)
(* the request leaves NULL is not compared, and the fetched row only counts  *)
(* when the request names no tweet.                                          *)
Matches(r, a) ==
    /\ status[a] \notin {"absent", "deleted"}
    /\ request[a].account = r.account /\ request[a].kind = r.kind
    /\ r.tweet # None => request[a].tweet = r.tweet
    /\ r.handle # None => request[a].handle = r.handle
    /\ r.row # None /\ r.tweet = None => request[a].row = r.row

Reusable(kind) == {"approved", "executing", "succeeded"}
                     \union (IF kind = "reply" THEN {"pending_approval"} ELSE {})

(* Faulty variant: the fetched row is compared even when the tweet is named. *)
FindExistingInRow(r) ==
    {a \in Items : Matches(r, a) /\ request[a].row = r.row /\ status[a] \in Reusable(r.kind)}

FindExisting(r) == {a \in Items : Matches(r, a) /\ status[a] \in Reusable(r.kind)}

Newest(a, S) == a \in S /\ \A b \in S : b <= a

HandlerGoto(h, p, a, r, d) ==
    /\ hpc' = [hpc EXCEPT ![h] = p] /\ hitem' = [hitem EXCEPT ![h] = a]
    /\ hreq' = [hreq EXCEPT ![h] = r] /\ hdec' = [hdec EXCEPT ![h] = d]

HandlerDone(h) == HandlerGoto(h, "idle", None, None, "create")

MayBegin(h) ==
    /\ hpc[h] = "idle"
    /\ OneAtATime => \A k \in Handlers : hpc[k] \notin {"insert", "commit"}

(* Bound: no more rows are ever inserted than there are Items.               *)
RoomForARow == Cardinality({a \in Items : status[a] = "absent"})
                   > Cardinality({h \in Handlers : hpc[h] = "insert"})

(* create_like_request, create_reply_request, create_follow_request: look    *)
(* for a row to reuse.  A reused row that is not approved is just returned.  *)
CreateReuses(h, r) ==
    /\ MayBegin(h)
    /\ \E a \in Items :
        /\ Newest(a, FindExisting(r)) /\ status[a] = "approved"
        /\ HandlerGoto(h, "enqueue", a, None, "create")
    /\ UNCHANGED <<queueVars, rowVars, expired, lock, workerVars, historyVars>>

CreateMisses(h, r) ==
    /\ MayBegin(h) /\ FindExisting(r) = {} /\ RoomForARow
    /\ HandlerGoto(h, "insert", None, r, "create")
    /\ UNCHANGED <<queueVars, rowVars, expired, lock, workerVars, historyVars>>

(* The INSERT commits under the next id; likes and follows are approved.     *)
CreateInserts(h) ==
    /\ hpc[h] = "insert"
    /\ \E a \in Items :
        /\ status[a] = "absent" /\ \A b \in Items : b < a => status[b] # "absent"
        /\ request' = [request EXCEPT ![a] = hreq[h]]
        /\ IF hreq[h].kind = "reply"
           THEN SetStatus(a, "pending_approval") /\ HandlerDone(h) /\ UNCHANGED approvals
           ELSE /\ SetStatus(a, "approved") /\ HandlerGoto(h, "reread", a, None, "create")
                /\ Approved(a)
    /\ UNCHANGED <<queueVars, edited, learning, expired, lock, workerVars, calls, dropped, crashes>>

(* What approve_action, skip_action and modify_action read before they       *)
(* decide, and the guard each puts on it.                                    *)
DecisionReads(h, a, d) ==
    /\ MayBegin(h) /\ status[a] = "pending_approval"
    /\ HandlerGoto(h, "commit", a, None, d)
    /\ UNCHANGED <<queueVars, rowVars, expired, lock, workerVars, historyVars>>

ApproveReads(h, a) == DecisionReads(h, a, IF a \in expired THEN "expire" ELSE "approve")
ModifyReads(h, a) == DecisionReads(h, a, "modify") /\ request[a].kind = "reply"

(* Faulty variant: the status is not looked at before the decision.          *)
SkipReadsUnguarded(h, a) ==
    /\ MayBegin(h) /\ status[a] \notin {"absent", "deleted"}
    /\ HandlerGoto(h, "commit", a, None, "skip")
    /\ UNCHANGED <<queueVars, rowVars, expired, lock, workerVars, historyVars>>

SkipReads(h, a) == DecisionReads(h, a, "skip")

(* Their UPDATE by primary key.  On a deleted row it raises; otherwise it    *)
(* sets the status whatever it is by now.                                    *)
DecisionCommits(h, d, s) ==
    /\ hpc[h] = "commit" /\ hdec[h] = d
    /\ status[hitem[h]] # "deleted" /\ SetStatus(hitem[h], s)
    /\ UNCHANGED <<queueVars, request, expired, lock, workerVars, calls, dropped, crashes>>

ApproveCommits(h) ==
    /\ DecisionCommits(h, "approve", "approved") /\ Approved(hitem[h])
    /\ HandlerGoto(h, "reread", hitem[h], None, "approve")
    /\ UNCHANGED <<edited, learning>>

ExpireCommits(h) ==
    /\ DecisionCommits(h, "expire", "expired")
    /\ HandlerGoto(h, "reread", hitem[h], None, "expire")
    /\ UNCHANGED <<edited, learning, approvals>>

SkipCommits(h) ==
    /\ DecisionCommits(h, "skip", "rejected") /\ HandlerDone(h)
    /\ UNCHANGED <<edited, learning, approvals>>

ModifyCommits(h) ==
    /\ DecisionCommits(h, "modify", "approved") /\ Approved(hitem[h])
    /\ edited' = [edited EXCEPT ![hitem[h]] = TRUE]
    /\ learning' = [learning EXCEPT ![hitem[h]] = "pending"]
    /\ HandlerGoto(h, "reread", hitem[h], None, "modify")

(* Faulty variant: only approve_action enqueues what it approved.            *)
RereadsForgetting(h) ==
    /\ hpc[h] = "reread"
    /\ IF hdec[h] # "approve" \/ status[hitem[h]] # "approved"
       THEN HandlerDone(h)
       ELSE HandlerGoto(h, "enqueue", hitem[h], None, "approve")
    /\ UNCHANGED <<queueVars, rowVars, expired, lock, workerVars, historyVars>>

(* session.refresh: raises if the row is gone; approve_action enqueues only  *)
(* if the row it reads back is approved, the others always.                  *)
Rereads(h) ==
    LET a == hitem[h] d == hdec[h] IN
    /\ hpc[h] = "reread"
    /\ IF \/ status[a] = "deleted"
          \/ d \in {"approve", "expire"} /\ status[a] # "approved"
       THEN HandlerDone(h)
       ELSE HandlerGoto(h, "enqueue", a, None, d)
    /\ UNCHANGED <<queueVars, rowVars, expired, lock, workerVars, historyVars>>

HandlerRaises(h) ==
    /\ hpc[h] = "commit" /\ status[hitem[h]] = "deleted"
    /\ HandlerDone(h)
    /\ UNCHANGED <<queueVars, rowVars, expired, lock, workerVars, historyVars>>

HandlerEnqueues(h) ==
    /\ hpc[h] = "enqueue"
    /\ \/ SaddNew(hitem[h]) /\ HandlerGoto(h, "push", hitem[h], None, hdec[h])
       \/ SaddRefused(hitem[h]) /\ HandlerDone(h)
    /\ UNCHANGED <<rowVars, expired, lock, workerVars, historyVars>>

HandlerPushes(h) ==
    /\ hpc[h] = "push"
    /\ Rpush(hitem[h]) /\ HandlerDone(h)
    /\ UNCHANGED <<rowVars, expired, lock, workerVars, historyVars>>

(* The API process stops, one handler at a time.                             *)
HandlerStops(h) ==
    /\ hpc[h] # "idle" /\ crashes < MaxCrashes
    /\ crashes' = crashes + 1
    /\ dropped' = dropped \union ({hitem[h]} \ {None})
    /\ HandlerDone(h)
    /\ UNCHANGED <<queueVars, rowVars, expired, lock, workerVars, calls, approvals>>

HandlerStep(h) ==
    \/ CreateInserts(h) \/ ApproveCommits(h) \/ ExpireCommits(h) \/ SkipCommits(h)
    \/ ModifyCommits(h) \/ HandlerRaises(h) \/ Rereads(h) \/ HandlerEnqueues(h)
    \/ HandlerPushes(h)

-----------------------------------------------------------------------------
(* Workers: dequeue_action, then process_action                              *)

WorkerGoto(w, p) == wpc' = [wpc EXCEPT ![w] = p] /\ UNCHANGED <<witem, wedited>>

WorkerDone(w) ==
    /\ wpc' = [wpc EXCEPT ![w] = "idle"] /\ witem' = [witem EXCEPT ![w] = None]
    /\ wedited' = [wedited EXCEPT ![w] = FALSE]

WorkerPops(w) ==
    /\ wpc[w] = "idle"
    /\ \E a \in Items : Blpop(a) /\ witem' = [witem EXCEPT ![w] = a]
    /\ wpc' = [wpc EXCEPT ![w] = "popped"]
    /\ UNCHANGED <<rowVars, expired, lock, handlerVars, wedited, historyVars>>

WorkerClears(w) ==
    /\ wpc[w] = "popped"
    /\ Srem(witem[w]) /\ WorkerGoto(w, "read")
    /\ UNCHANGED <<rowVars, expired, lock, handlerVars, historyVars>>

(* The first session: anything but an approved row is left alone.            *)
WorkerReads(w) ==
    /\ wpc[w] = "read"
    /\ \/ status[witem[w]] # "approved" /\ WorkerDone(w)
       \/ status[witem[w]] = "approved" /\ WorkerGoto(w, "acquire")
       \/ status[witem[w]] = "approved" /\ AccountMayVanish /\ WorkerGoto(w, "fail_unlocked")
    /\ UNCHANGED <<queueVars, rowVars, expired, lock, handlerVars, historyVars>>

WorkerFailsUnlocked(w) ==
    /\ wpc[w] = "fail_unlocked" /\ status[witem[w]] # "deleted"
    /\ SetStatus(witem[w], "failed") /\ WorkerGoto(w, "refresh")
    /\ UNCHANGED <<queueVars, request, edited, learning, expired, lock, handlerVars, historyVars>>

(* Faulty variant: SET without NX.                                           *)
WorkerAcquiresAnyway(w) ==
    /\ wpc[w] = "acquire"
    /\ lock' = [lock EXCEPT ![AccountOf(witem[w])] = w] /\ WorkerGoto(w, "gate")
    /\ UNCHANGED <<queueVars, rowVars, expired, handlerVars, historyVars>>

WorkerAcquires(w) ==
    LET c == AccountOf(witem[w]) IN
    /\ wpc[w] = "acquire"
    /\ IF lock[c] = NoToken
       THEN lock' = [lock EXCEPT ![c] = w] /\ WorkerGoto(w, "gate")
       ELSE UNCHANGED lock /\ WorkerGoto(w, "requeue")
    /\ UNCHANGED <<queueVars, rowVars, expired, handlerVars, historyVars>>

WorkerRequeues(w) ==
    /\ wpc[w] = "requeue"
    /\ \/ SaddNew(witem[w]) /\ WorkerGoto(w, "repush")
       \/ SaddRefused(witem[w]) /\ WorkerDone(w)
    /\ UNCHANGED <<rowVars, expired, lock, handlerVars, historyVars>>

WorkerRepushes(w) ==
    /\ wpc[w] = "repush"
    /\ Rpush(witem[w]) /\ WorkerDone(w)
    /\ UNCHANGED <<rowVars, expired, lock, handlerVars, historyVars>>

(* Faulty variant: the row is not read again under the lock.                 *)
WorkerGatesStale(w) ==
    LET a == witem[w] IN
    /\ wpc[w] = "gate"
    /\ wedited' = [wedited EXCEPT ![w] = edited[a]]
    /\ \E p \in {"block", "expire", "start"} :
        /\ p = "expire" <=> a \in expired
        /\ wpc' = [wpc EXCEPT ![w] = p]
    /\ UNCHANGED <<queueVars, rowVars, expired, lock, handlerVars, witem, historyVars>>

(* The second session, under the lock: the row is read again and judged.     *)
(* What blocks it (pause, active hours, cooldown, daily limit, read_only) is *)
(* the subject of ActionBudget and a free choice here.                       *)
WorkerGates(w) ==
    LET a == witem[w] IN
    /\ wpc[w] = "gate"
    /\ wedited' = [wedited EXCEPT ![w] = edited[a]]
    /\ \E p \in {"release", "block", "expire", "start"} :
        /\ p = "release" <=> status[a] # "approved"
        /\ p = "expire" => a \in expired
        /\ p = "start" => a \notin expired
        /\ p = "block" => a \notin expired \/ AccountMayVanish
        /\ wpc' = [wpc EXCEPT ![w] = p]
    /\ UNCHANGED <<queueVars, rowVars, expired, lock, handlerVars, witem, historyVars>>

(* The worker's commits.  Each sets the status whatever it is by then.       *)
WorkerBlocks(w) ==
    /\ wpc[w] = "block" /\ status[witem[w]] # "deleted"
    /\ SetStatus(witem[w], "failed") /\ WorkerGoto(w, "refresh")
    /\ UNCHANGED <<queueVars, request, edited, learning, expired, lock, handlerVars, historyVars>>

WorkerExpires(w) ==
    /\ wpc[w] = "expire" /\ status[witem[w]] # "deleted"
    /\ SetStatus(witem[w], "expired") /\ WorkerGoto(w, "refresh")
    /\ UNCHANGED <<queueVars, request, edited, learning, expired, lock, handlerVars, historyVars>>

(* Faulty variant: the EXECUTING status is not committed before the call.    *)
WorkerStartsUncommitted(w) ==
    /\ wpc[w] = "start" /\ status[witem[w]] # "deleted" /\ WorkerGoto(w, "calling")
    /\ UNCHANGED <<queueVars, rowVars, expired, lock, handlerVars, historyVars>>

WorkerStarts(w) ==
    LET a == witem[w] IN
    /\ wpc[w] = "start" /\ status[a] # "deleted"
    /\ SetStatus(a, "executing") /\ WorkerGoto(w, "calling")
    /\ learning' = [learning EXCEPT ![a] = IF wedited[w] THEN "pending" ELSE @]
    /\ UNCHANGED <<queueVars, request, edited, expired, lock, handlerVars, historyVars>>

(* _execute_action: a dry run has no effect and returns; a live call returns *)
(* having taken effect, or raises, and a call that raises (a timeout) may    *)
(* have taken effect all the same.                                           *)
WorkerCalls(w) ==
    /\ wpc[w] = "calling"
    /\ \E effect \in {0, 1}, p \in {"succeed", "fail"} :
        /\ calls' = [calls EXCEPT ![witem[w]] = @ + effect]
        /\ WorkerGoto(w, p)
    /\ UNCHANGED <<queueVars, rowVars, expired, lock, handlerVars, approvals, dropped, crashes>>

(* Faulty variant: a call that raised puts the action back up for execution. *)
WorkerFailsRetrying(w) ==
    /\ wpc[w] = "fail" /\ status[witem[w]] # "deleted"
    /\ SetStatus(witem[w], "approved") /\ WorkerGoto(w, "refresh")
    /\ UNCHANGED <<queueVars, request, edited, learning, expired, lock, handlerVars, historyVars>>

WorkerFails(w) ==
    /\ wpc[w] = "fail" /\ status[witem[w]] # "deleted"
    /\ SetStatus(witem[w], "failed") /\ WorkerGoto(w, "refresh")
    /\ UNCHANGED <<queueVars, request, edited, learning, expired, lock, handlerVars, historyVars>>

WorkerSucceeds(w) ==
    /\ wpc[w] = "succeed" /\ status[witem[w]] # "deleted"
    /\ SetStatus(witem[w], "succeeded") /\ WorkerGoto(w, "close")
    /\ UNCHANGED <<queueVars, request, edited, learning, expired, lock, handlerVars, historyVars>>

(* Faulty variant: the learning of an edited reply is forgotten.             *)
WorkerClosesUnlearned(w) ==
    /\ wpc[w] = "close" /\ status[witem[w]] # "deleted"
    /\ WorkerGoto(w, "refresh")
    /\ UNCHANGED <<queueVars, rowVars, expired, lock, handlerVars, historyVars>>

(* apply_learning of an edited reply, whose exceptions are caught; for any   *)
(* other action the learning status it read, NONE, is left as it is.         *)
WorkerCloses(w) ==
    LET a == witem[w] IN
    /\ wpc[w] = "close" /\ status[a] # "deleted"
    /\ IF request[a].kind = "reply" /\ wedited[w]
       THEN \E l \in {"applied", "failed"} : learning' = [learning EXCEPT ![a] = l]
       ELSE UNCHANGED learning
    /\ WorkerGoto(w, "refresh")
    /\ UNCHANGED <<queueVars, request, status, edited, expired, lock, handlerVars, historyVars>>

(* session.refresh after a commit; without the lock there is no release.     *)
WorkerRefreshes(w) ==
    /\ wpc[w] = "refresh" /\ status[witem[w]] # "deleted"
    /\ IF lock[AccountOf(witem[w])] = w THEN WorkerGoto(w, "release") ELSE WorkerDone(w)
    /\ UNCHANGED <<queueVars, rowVars, expired, lock, handlerVars, historyVars>>

(* release_account_lock: GET and compare, then DELETE.                       *)
WorkerReleases(w) ==
    /\ wpc[w] = "release"
    /\ IF lock[AccountOf(witem[w])] = w THEN WorkerGoto(w, "delete") ELSE WorkerDone(w)
    /\ UNCHANGED <<queueVars, rowVars, expired, lock, handlerVars, historyVars>>

WorkerDeletes(w) ==
    /\ wpc[w] = "delete"
    /\ lock' = [lock EXCEPT ![AccountOf(witem[w])] = NoToken]
    /\ WorkerDone(w)
    /\ UNCHANGED <<queueVars, rowVars, expired, handlerVars, historyVars>>

Dead(w) == /\ wpc' = [wpc EXCEPT ![w] = "dead"] /\ witem' = [witem EXCEPT ![w] = None]
           /\ wedited' = [wedited EXCEPT ![w] = FALSE]

(* A commit to or a refresh of a deleted row raises, run_worker    *)
(* has no handler, and the process ends; the finally clause may or may not   *)
(* get to the release.                                                       *)
WorkerDies(w) ==
    LET a == witem[w] c == AccountOf(a) IN
    /\ wpc[w] \in {"fail_unlocked", "block", "expire", "start", "fail", "succeed", "close",
                  "refresh"}
    /\ status[a] = "deleted"
    /\ IF lock[c] = w
       THEN \E t \in {NoToken, Orphan} : lock' = [lock EXCEPT ![c] = t]
       ELSE UNCHANGED lock
    /\ Dead(w)
    /\ UNCHANGED <<queueVars, rowVars, expired, handlerVars, historyVars>>

(* The worker process stops; its lock stays until the TTL runs out.          *)
WorkerStops(w) ==
    /\ wpc[w] \notin {"idle", "dead"} /\ crashes < MaxCrashes
    /\ crashes' = crashes + 1
    /\ dropped' = dropped \union {witem[w]}
    /\ lock' = [c \in Accounts |-> IF lock[c] = w THEN Orphan ELSE lock[c]]
    /\ Dead(w)
    /\ UNCHANGED <<queueVars, rowVars, expired, handlerVars, calls, approvals>>

WorkerRestarts(w) ==
    /\ wpc[w] = "dead" /\ wpc' = [wpc EXCEPT ![w] = "idle"]
    /\ UNCHANGED <<queueVars, rowVars, expired, lock, handlerVars, witem, wedited, historyVars>>

WorkerStep(w) ==
    \/ WorkerPops(w) \/ WorkerClears(w) \/ WorkerReads(w) \/ WorkerFailsUnlocked(w)
    \/ WorkerAcquires(w) \/ WorkerRequeues(w) \/ WorkerRepushes(w) \/ WorkerGates(w)
    \/ WorkerBlocks(w) \/ WorkerExpires(w) \/ WorkerStarts(w) \/ WorkerCalls(w)
    \/ WorkerFails(w) \/ WorkerSucceeds(w) \/ WorkerCloses(w) \/ WorkerRefreshes(w)
    \/ WorkerReleases(w) \/ WorkerDeletes(w) \/ WorkerDies(w)

-----------------------------------------------------------------------------
(* Time and maintenance                                                      *)

Expire(a) ==
    /\ status[a] \in {"pending_approval", "approved"} /\ a \notin expired
    /\ expired' = expired \union {a}
    /\ UNCHANGED <<queueVars, rowVars, lock, handlerVars, workerVars, historyVars>>

DeleteRow(a) ==
    /\ a \in Deletable /\ status[a] \notin {"absent", "deleted"}
    /\ SetStatus(a, "deleted")
    /\ UNCHANGED <<queueVars, request, edited, learning, expired, lock, handlerVars, workerVars,
                   historyVars>>

LockExpires(c) ==
    /\ \/ lock[c] = Orphan
       \/ \E w \in Workers : lock[c] = w /\ wpc[w] \in LockMayExpire
    /\ lock' = [lock EXCEPT ![c] = NoToken]
    /\ UNCHANGED <<queueVars, rowVars, expired, handlerVars, workerVars, historyVars>>

Next ==
    \/ \E h \in Handlers :
        \/ CreateInserts(h) \/ ApproveCommits(h) \/ ExpireCommits(h) \/ SkipCommits(h)
        \/ ModifyCommits(h) \/ HandlerRaises(h) \/ Rereads(h) \/ HandlerEnqueues(h)
        \/ HandlerPushes(h) \/ HandlerStops(h)
        \/ \E r \in Requests : CreateReuses(h, r) \/ CreateMisses(h, r)
        \/ \E a \in Items : ApproveReads(h, a) \/ SkipReads(h, a) \/ ModifyReads(h, a)
    \/ \E w \in Workers :
        \/ WorkerPops(w) \/ WorkerClears(w) \/ WorkerReads(w) \/ WorkerFailsUnlocked(w)
        \/ WorkerAcquires(w) \/ WorkerRequeues(w) \/ WorkerRepushes(w) \/ WorkerGates(w)
        \/ WorkerBlocks(w) \/ WorkerExpires(w) \/ WorkerStarts(w) \/ WorkerCalls(w)
        \/ WorkerFails(w) \/ WorkerSucceeds(w) \/ WorkerCloses(w) \/ WorkerRefreshes(w)
        \/ WorkerReleases(w) \/ WorkerDeletes(w) \/ WorkerDies(w) \/ WorkerStops(w)
        \/ WorkerRestarts(w)
    \/ \E a \in Items : Expire(a) \/ DeleteRow(a)
    \/ \E c \in Accounts : LockExpires(c)

Spec == Init /\ [][Next]_vars

(* Coroutines go on, a live worker keeps polling, a TTL runs out.            *)
Fairness ==
    /\ \A h \in Handlers : WF_vars(HandlerStep(h))
    /\ \A w \in Workers : WF_vars(WorkerStep(w))
    /\ \A c \in Accounts : WF_vars(lock[c] = Orphan /\ LockExpires(c))

FairSpec == Spec /\ Fairness
-----------------------------------------------------------------------------
(* The state is of the declared shape, and a process holds an action exactly *)
(* where its place in the code needs one.                                    *)
RowsOK ==
    /\ request \in [Items -> Requests \union {None}]
    /\ status \in [Items -> Statuses]
    /\ \A a \in Items : request[a] = None <=> status[a] = "absent"
    /\ edited \in [Items -> BOOLEAN]
    /\ learning \in [Items -> {"none", "pending", "applied", "failed"}]
HandlersOK ==
    /\ hpc \in [Handlers -> HandlerPlaces]
    /\ hitem \in [Handlers -> Items \union {None}]
    /\ \A h \in Handlers : hitem[h] = None <=> hpc[h] \in {"idle", "insert"}
    /\ hreq \in [Handlers -> Requests \union {None}]
    /\ \A h \in Handlers : hreq[h] = None <=> hpc[h] # "insert"
    /\ hdec \in [Handlers -> Decisions]
WorkersOK ==
    /\ wpc \in [Workers -> WorkerPlaces]
    /\ witem \in [Workers -> Items \union {None}]
    /\ \A w \in Workers : witem[w] = None <=> wpc[w] \in {"idle", "dead"}
    /\ wedited \in [Workers -> BOOLEAN]
HistoryOK ==
    /\ calls \in [Items -> Nat] /\ approvals \in [Items -> Nat]
    /\ dropped \in SUBSET Items /\ crashes \in 0 .. MaxCrashes
TypeOK ==
    /\ QueueTypeOK /\ RowsOK /\ HandlersOK /\ WorkersOK /\ HistoryOK
    /\ expired \in SUBSET Items
    /\ lock \in [Accounts -> Workers \union {NoToken, Orphan}]

(* A process that will still see to it that an approved action is processed. *)
HandlerOwes(a) == \E h \in Handlers : hitem[h] = a /\ hpc[h] \in {"reread", "enqueue", "push"}
WorkerOwes(a) ==
    \E w \in Workers : witem[w] = a /\ wpc[w] \in Unlocked \union Deciding

(* No two tweet actions of the same account and kind on one tweet are open   *)
(* or done, whichever fetched rows they came from (service.py:999-1003).     *)
Live(a) == status[a] \in Reusable(request[a].kind) /\ status[a] # "absent"
SameTweet(a, b) ==
    /\ request[a].account = request[b].account /\ request[a].kind = request[b].kind
    /\ request[a].tweet # None /\ request[a].tweet = request[b].tweet
OneOpenPerTweet == \A a, b \in Items :
    request[a] # None /\ request[b] # None /\ Live(a) /\ Live(b) /\ SameTweet(a, b) => a = b

(* An action acts on Twitter at most once, although it may be queued again   *)
(* while a worker has it in hand, the lock's TTL may run out during the      *)
(* call, and processes stop (service.py:573-748).                            *)
AtMostOnce == \A a \in Items : calls[a] <= 1

(* What was skipped or has expired never acted (service.py:464, 516, 618).   *)
RefusedNeverCalled == \A a \in Items : status[a] \in {"rejected", "expired"} => calls[a] = 0

(* An approved action is queued or in the hands of a process that will see   *)
(* to it, and an executing one in those of a worker in its call, except for  *)
(* what a stopped process had in hand (service.py:495, 570, 593, 671-719).   *)
NoOrphan == \A a \in Items \ dropped :
    /\ status[a] = "approved" => a \in Queued \/ HandlerOwes(a) \/ WorkerOwes(a)
    /\ status[a] = "executing" =>
        \E w \in Workers : witem[w] = a /\ wpc[w] \in {"calling", "succeed", "fail"}

(* Up to the EXECUTING commit no two workers are past the lock of an account *)
(* (redis.py:62-77, service.py:592-681).                                     *)
OneDecider == \A v, w \in Workers :
    /\ wpc[v] \in Deciding /\ wpc[w] \in Deciding
    /\ AccountOf(witem[v]) = AccountOf(witem[w])
    => v = w

(* Every effect was paid for by a commit of "approved", however many         *)
(* handlers decide on the action at a time.                                  *)
CallsPaid == \A a \in Items : calls[a] <= approvals[a]

(* A decided action stays decided: succeeded, failed, expired and rejected   *)
(* rows change no more, except that they may be deleted.                     *)
TerminalIsFinal ==
    [][\A a \in Items : status[a] \in Terminal => status'[a] \in {status[a], "deleted"}]_vars

(* An action is approved only while it is pending approval, or as it is      *)
(* created: the guard "action is not pending approval" (service.py:461-462). *)
ApprovedFromPending ==
    [][\A a \in Items : approvals'[a] # approvals[a] => status[a] \in {"absent", "pending_approval"}]_vars

(* Every approved action is decided, and every edited reply that succeeded   *)
(* has its learning closed, unless a process stopped with it in hand, the    *)
(* row was deleted or no worker is left.                                     *)
ApprovedIsDecided == \A a \in Items :
    status[a] = "approved" ~> (status[a] \in Terminal \/ a \in dropped \/ status[a] = "deleted")
LearningClosed == \A a \in Items :
    (status[a] = "succeeded" /\ edited[a])
        ~> (learning[a] \in {"applied", "failed"} \/ a \in dropped \/ status[a] = "deleted")

(* The action queue, used this way, is the set of owed work of WorkSet.      *)
AsWorkSet == INSTANCE WorkSet WITH
    Clients <- Workers, NoItem <- None, owed <- pending,
    hand <- [w \in Workers |-> IF wpc[w] \in {"popped", "repush"} THEN None ELSE witem[w]]
ImplementsWorkSet == AsWorkSet!Spec
=============================================================================
