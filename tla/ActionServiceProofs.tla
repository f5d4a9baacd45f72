------------------------ MODULE ActionServiceProofs -------------------------
(* The safety of ActionService for any requests, rows, handlers, workers,    *)
(* deletions and stops.  Inv is what holds however many decisions run at a   *)
(* time, SerialInv what holds besides if no two do.                          *)
EXTENDS ActionService, RuntimeQueueProofs, FiniteSetTheorems

(* Whatever is queued, or in the hands of a process that was handed it, has  *)
(* been decided on; what a handler is about to commit to has been inserted.  *)
Decided(a) == status[a] \notin {"absent", "pending_approval"}
Handed ==
    /\ \A a \in Queued : Decided(a)
    /\ \A h \in Handlers : hpc[h] = "commit" => status[hitem[h]] # "absent"
    /\ \A h \in Handlers : hpc[h] \in {"reread", "enqueue", "push"} => Decided(hitem[h])
    /\ \A w \in Workers : witem[w] # None => Decided(witem[w])

(* A worker that decides, or is about to delete the lock, is who holds it.   *)
LockHeld == \A w \in Workers :
    wpc[w] \in Deciding \union {"delete"} => lock[AccountOf(witem[w])] = w

(* Between its two commands a process owns the action in the set: it is not  *)
(* in the list, and no other process is between its two commands with it.    *)
HandlerHolds(h, a) == hpc[h] = "push" /\ hitem[h] = a
WorkerHolds(w, a) == wpc[w] \in {"popped", "repush"} /\ witem[w] = a
Ownership ==
    /\ Distinct(queue) /\ Queued \subseteq pending
    /\ \A a \in Items, h \in Handlers : HandlerHolds(h, a) => a \in pending \ Queued
    /\ \A a \in Items, w \in Workers : WorkerHolds(w, a) => a \in pending \ Queued
    /\ \A a \in Items, h, k \in Handlers : HandlerHolds(h, a) /\ HandlerHolds(k, a) => h = k
    /\ \A a \in Items, v, w \in Workers : WorkerHolds(v, a) /\ WorkerHolds(w, a) => v = w
    /\ \A a \in Items, h \in Handlers, w \in Workers : ~ (HandlerHolds(h, a) /\ WorkerHolds(w, a))

(* What the set refuses is in the list or on its way in or out.              *)
InCare == \A a \in pending \ dropped :
    \/ a \in Queued
    \/ \E h \in Handlers : HandlerHolds(h, a)
    \/ \E w \in Workers : WorkerHolds(w, a)

(* Each commit of "approved" pays for one call: the calls that were made,    *)
(* those a worker is about to make, and one to come while the row is         *)
(* approved or a worker is about to start it.                                *)
CallingOn(a) == {w \in Workers : wpc[w] = "calling" /\ witem[w] = a}
StartingOn(a) == \E w \in Workers : wpc[w] = "start" /\ witem[w] = a
Credit(a) == IF status[a] = "approved" \/ StartingOn(a) THEN 1 ELSE 0
Funded == \A a \in Items :
    /\ IsFiniteSet(CallingOn(a))
    /\ calls[a] + Cardinality(CallingOn(a)) + Credit(a) <= approvals[a]

Inv == TypeOK /\ Handed /\ LockHeld /\ Ownership /\ InCare /\ NoOrphan /\ Funded

-----------------------------------------------------------------------------
(* Where a process goes: it alone moves, and it holds what its place needs.  *)
LEMMA HandlerGoes ==
    ASSUME HandlersOK, NEW h \in Handlers, NEW p \in HandlerPlaces, NEW a \in Items \union {None},
           NEW r \in Requests \union {None}, NEW d \in Decisions, HandlerGoto(h, p, a, r, d),
           a = None <=> p \in {"idle", "insert"}, r = None <=> p # "insert"
    PROVE  /\ HandlersOK'
           /\ hpc'[h] = p /\ hitem'[h] = a /\ hreq'[h] = r /\ hdec'[h] = d
           /\ \A k \in Handlers \ {h} :
                hpc'[k] = hpc[k] /\ hitem'[k] = hitem[k] /\ hreq'[k] = hreq[k] /\ hdec'[k] = hdec[k]
  BY DEF HandlersOK, HandlerGoto

LEMMA HandlerEnds ==
    ASSUME HandlersOK, NEW h \in Handlers, HandlerDone(h)
    PROVE  /\ HandlersOK'
           /\ hpc'[h] = "idle" /\ hitem'[h] = None /\ hreq'[h] = None
           /\ \A k \in Handlers \ {h} :
                hpc'[k] = hpc[k] /\ hitem'[k] = hitem[k] /\ hreq'[k] = hreq[k] /\ hdec'[k] = hdec[k]
  BY HandlerGoes DEF HandlerDone, HandlerPlaces, Decisions

LEMMA HandlerGoesOn ==
    ASSUME HandlersOK, NEW h \in Handlers, NEW p \in HandlerPlaces \ {"idle", "insert"},
           hitem[h] \in Items, HandlerGoto(h, p, hitem[h], None, hdec[h])
    PROVE  /\ HandlersOK'
           /\ hpc'[h] = p /\ hitem'[h] = hitem[h]
           /\ \A k \in Handlers \ {h} :
                hpc'[k] = hpc[k] /\ hitem'[k] = hitem[k] /\ hreq'[k] = hreq[k] /\ hdec'[k] = hdec[k]
<1>1. hdec[h] \in Decisions /\ hitem[h] # None
  BY ServiceAssumption DEF HandlersOK
<1> QED BY <1>1, HandlerGoes

LEMMA WorkerGoes ==
    ASSUME WorkersOK, NEW w \in Workers, NEW p \in WorkerPlaces \ {"idle", "dead"},
           witem[w] # None, WorkerGoto(w, p)
    PROVE  /\ WorkersOK'
           /\ wpc'[w] = p /\ \A v \in Workers \ {w} : wpc'[v] = wpc[v]
           /\ \A v \in Workers : witem'[v] = witem[v] /\ wedited'[v] = wedited[v]
  BY DEF WorkersOK, WorkerGoto

LEMMA WorkerEnds ==
    ASSUME WorkersOK, NEW w \in Workers, WorkerDone(w) \/ Dead(w)
    PROVE  /\ WorkersOK'
           /\ wpc'[w] \in {"idle", "dead"} /\ witem'[w] = None
           /\ \A v \in Workers \ {w} :
                wpc'[v] = wpc[v] /\ witem'[v] = witem[v] /\ wedited'[v] = wedited[v]
<1>1. CASE WorkerDone(w)
  BY <1>1 DEF WorkersOK, WorkerDone, WorkerPlaces
<1>2. CASE Dead(w)
  BY <1>2 DEF WorkersOK, Dead, WorkerPlaces
<1> QED BY <1>1, <1>2

(* An action that was inserted has a request, and an account.                *)
LEMMA Inserted ==
    ASSUME RowsOK, NEW a \in Items, status[a] # "absent"
    PROVE  request[a] \in Requests /\ AccountOf(a) \in Accounts
  BY ServiceAssumption DEF RowsOK, AccountOf

LEMMA StatusSet ==
    ASSUME RowsOK, NEW a \in Items, NEW s \in Statuses \ {"absent"}, SetStatus(a, s)
    PROVE  /\ status' \in [Items -> Statuses] /\ status'[a] = s
           /\ \A b \in Items \ {a} : status'[b] = status[b]
  BY DEF RowsOK, SetStatus

(* What a step leaves alone stays in shape.                                  *)
LEMMA Stays ==
    /\ HandlersOK /\ UNCHANGED <<hpc, hitem, hreq, hdec>> => HandlersOK'
    /\ WorkersOK /\ UNCHANGED <<wpc, witem, wedited>> => WorkersOK'
  BY DEF HandlersOK, WorkersOK

(* Who is on the way has an action in hand.                                  *)
LEMMA HandlerHas ==
    ASSUME HandlersOK, NEW h \in Handlers
    PROVE  /\ hpc[h] \in HandlerPlaces /\ hdec[h] \in Decisions
           /\ hpc[h] \notin {"idle", "insert"} => hitem[h] \in Items /\ hitem[h] # None
           /\ hpc[h] = "insert" => hreq[h] \in Requests
  BY ServiceAssumption DEF HandlersOK

LEMMA WorkerHas ==
    ASSUME WorkersOK, NEW w \in Workers
    PROVE  /\ wpc[w] \in WorkerPlaces
           /\ wpc[w] \notin {"idle", "dead"} => witem[w] \in Items /\ witem[w] # None
           /\ witem[w] # None => witem[w] \in Items
  BY ServiceAssumption DEF WorkersOK

-----------------------------------------------------------------------------
(* What a step of each actor leaves alone.                                   *)
HandlerActs(h) ==
    \/ CreateInserts(h) \/ ApproveCommits(h) \/ ExpireCommits(h) \/ SkipCommits(h)
    \/ ModifyCommits(h) \/ HandlerRaises(h) \/ Rereads(h) \/ HandlerEnqueues(h)
    \/ HandlerPushes(h) \/ HandlerStops(h)
    \/ \E r \in Requests : CreateReuses(h, r) \/ CreateMisses(h, r)
    \/ \E a \in Items : ApproveReads(h, a) \/ SkipReads(h, a) \/ ModifyReads(h, a)
WorkerActs(w) ==
    \/ WorkerPops(w) \/ WorkerClears(w) \/ WorkerReads(w) \/ WorkerFailsUnlocked(w)
    \/ WorkerAcquires(w) \/ WorkerRequeues(w) \/ WorkerRepushes(w) \/ WorkerGates(w)
    \/ WorkerBlocks(w) \/ WorkerExpires(w) \/ WorkerStarts(w) \/ WorkerCalls(w)
    \/ WorkerFails(w) \/ WorkerSucceeds(w) \/ WorkerCloses(w) \/ WorkerRefreshes(w)
    \/ WorkerReleases(w) \/ WorkerDeletes(w) \/ WorkerDies(w) \/ WorkerStops(w)
    \/ WorkerRestarts(w)
OthersAct ==
    \/ \E a \in Items : Expire(a) \/ DeleteRow(a)
    \/ \E c \in Accounts : LockExpires(c)

LEMMA Steps ==
    ASSUME [Next]_vars
    PROVE  \/ \E h \in Handlers : HandlerActs(h)
           \/ \E w \in Workers : WorkerActs(w)
           \/ OthersAct
           \/ UNCHANGED vars
  BY DEF Next, HandlerActs, WorkerActs, OthersAct

LEMMA HandlerFrame ==
    ASSUME NEW h \in Handlers, HandlerActs(h)
    PROVE  UNCHANGED <<workerVars, lock, expired, calls>>
  BY DEF HandlerActs, CreateReuses, CreateMisses, CreateInserts, ApproveReads, SkipReads,
         ModifyReads, DecisionReads, ApproveCommits, ExpireCommits, SkipCommits, ModifyCommits,
         DecisionCommits, HandlerRaises, Rereads, HandlerEnqueues, HandlerPushes, HandlerStops,
         historyVars

LEMMA WorkerFrame ==
    ASSUME NEW w \in Workers, WorkerActs(w)
    PROVE  UNCHANGED <<handlerVars, request, edited, expired, approvals>>
  BY DEF WorkerActs, WorkerPops, WorkerClears, WorkerReads, WorkerFailsUnlocked, WorkerAcquires,
         WorkerRequeues, WorkerRepushes, WorkerGates, WorkerBlocks, WorkerExpires, WorkerStarts,
         WorkerCalls, WorkerFails, WorkerSucceeds, WorkerCloses, WorkerRefreshes, WorkerReleases,
         WorkerDeletes, WorkerDies, WorkerStops, WorkerRestarts, rowVars, historyVars

LEMMA OthersFrame ==
    ASSUME OthersAct
    PROVE  UNCHANGED <<queueVars, request, edited, learning, handlerVars, workerVars, historyVars>>
  BY DEF OthersAct, Expire, DeleteRow, LockExpires, rowVars

(* The other handlers, and the other workers, stay where they are.           *)
HandlersRest(h) == \A k \in Handlers \ {h} :
    hpc'[k] = hpc[k] /\ hitem'[k] = hitem[k] /\ hreq'[k] = hreq[k] /\ hdec'[k] = hdec[k]
WorkersRest(w) == \A v \in Workers \ {w} : wpc'[v] = wpc[v] /\ witem'[v] = witem[v]

LEMMA HandlerMoves ==
    ASSUME TypeOK, NEW h \in Handlers, HandlerActs(h)
    PROVE  HandlersOK' /\ HandlersRest(h)
<1> USE HandlerHas, HandlerGoes, HandlerEnds, ServiceAssumption
    DEF TypeOK, HandlersRest, HandlerPlaces, Decisions
<1>1. ASSUME NEW r \in Requests, CreateReuses(h, r)  PROVE HandlersOK' /\ HandlersRest(h)
  BY <1>1 DEF CreateReuses
<1>2. ASSUME NEW r \in Requests, CreateMisses(h, r)  PROVE HandlersOK' /\ HandlersRest(h)
  BY <1>2 DEF CreateMisses
<1>3. ASSUME NEW a \in Items, ApproveReads(h, a)  PROVE HandlersOK' /\ HandlersRest(h)
  BY <1>3 DEF ApproveReads, DecisionReads
<1>4. ASSUME NEW a \in Items, SkipReads(h, a)  PROVE HandlersOK' /\ HandlersRest(h)
  BY <1>4 DEF SkipReads, DecisionReads
<1>5. ASSUME NEW a \in Items, ModifyReads(h, a)  PROVE HandlersOK' /\ HandlersRest(h)
  BY <1>5 DEF ModifyReads, DecisionReads
<1>6. CASE CreateInserts(h)
  BY <1>6 DEF CreateInserts
<1>7. CASE ApproveCommits(h)
  BY <1>7 DEF ApproveCommits, DecisionCommits
<1>8. CASE ExpireCommits(h)
  BY <1>8 DEF ExpireCommits, DecisionCommits
<1>9. CASE SkipCommits(h)
  BY <1>9 DEF SkipCommits, DecisionCommits
<1>10. CASE ModifyCommits(h)
  BY <1>10 DEF ModifyCommits, DecisionCommits
<1>11. CASE HandlerRaises(h)
  BY <1>11 DEF HandlerRaises
<1>12. CASE Rereads(h)
  <2>1. hitem[h] \in Items /\ hitem[h] # None /\ hdec[h] \in Decisions
    BY <1>12 DEF Rereads
  <2>2. HandlerDone(h) \/ HandlerGoto(h, "enqueue", hitem[h], None, hdec[h])
    BY <1>12 DEF Rereads
  <2>3. CASE HandlerDone(h)
    BY <2>3
  <2>4. CASE HandlerGoto(h, "enqueue", hitem[h], None, hdec[h])
    BY <2>1, <2>4, HandlerGoesOn
  <2> QED BY <2>2, <2>3, <2>4
<1>13. CASE HandlerEnqueues(h)
  <2>1. hitem[h] \in Items /\ hitem[h] # None /\ hdec[h] \in Decisions
    BY <1>13 DEF HandlerEnqueues
  <2>2. HandlerDone(h) \/ HandlerGoto(h, "push", hitem[h], None, hdec[h])
    BY <1>13 DEF HandlerEnqueues
  <2>3. CASE HandlerDone(h)
    BY <2>3
  <2>4. CASE HandlerGoto(h, "push", hitem[h], None, hdec[h])
    BY <2>1, <2>4, HandlerGoesOn
  <2> QED BY <2>2, <2>3, <2>4
<1>14. CASE HandlerPushes(h)
  BY <1>14 DEF HandlerPushes
<1>15. CASE HandlerStops(h)
  BY <1>15 DEF HandlerStops
<1> QED BY <1>1, <1>2, <1>3, <1>4, <1>5, <1>6, <1>7, <1>8, <1>9, <1>10, <1>11, <1>12, <1>13,
           <1>14, <1>15 DEF HandlerActs

LEMMA WorkerMoves ==
    ASSUME TypeOK, NEW w \in Workers, WorkerActs(w)
    PROVE  WorkersOK' /\ WorkersRest(w)
<1> USE WorkerHas, WorkerGoes, WorkerEnds, ServiceAssumption
    DEF TypeOK, WorkersRest, WorkerPlaces, Unlocked, Deciding, AfterStart
<1>1. CASE WorkerPops(w)
  BY <1>1 DEF WorkerPops, WorkersOK
<1>2. CASE WorkerClears(w)
  BY <1>2 DEF WorkerClears, Srem
<1>3. CASE WorkerReads(w)
  BY <1>3 DEF WorkerReads
<1>4. CASE WorkerFailsUnlocked(w)
  BY <1>4 DEF WorkerFailsUnlocked
<1>5. CASE WorkerAcquires(w)
  BY <1>5 DEF WorkerAcquires
<1>6. CASE WorkerRequeues(w)
  BY <1>6 DEF WorkerRequeues, SaddNew, SaddRefused
<1>7. CASE WorkerRepushes(w)
  BY <1>7 DEF WorkerRepushes
<1>8. CASE WorkerGates(w)
  <2>1. PICK p \in {"release", "block", "expire", "start"} : wpc' = [wpc EXCEPT ![w] = p]
    BY <1>8 DEF WorkerGates
  <2>2. /\ wpc[w] = "gate" /\ UNCHANGED witem
        /\ wedited' = [wedited EXCEPT ![w] = edited[witem[w]]]
    BY <1>8 DEF WorkerGates
  <2>3. edited[witem[w]] \in BOOLEAN
    BY <2>2 DEF RowsOK
  <2> QED BY <2>1, <2>2, <2>3 DEF WorkersOK
<1>9. CASE WorkerBlocks(w)
  BY <1>9 DEF WorkerBlocks
<1>10. CASE WorkerExpires(w)
  BY <1>10 DEF WorkerExpires
<1>11. CASE WorkerStarts(w)
  BY <1>11 DEF WorkerStarts
<1>12. CASE WorkerCalls(w)
  BY <1>12 DEF WorkerCalls
<1>13. CASE WorkerFails(w)
  BY <1>13 DEF WorkerFails
<1>14. CASE WorkerSucceeds(w)
  BY <1>14 DEF WorkerSucceeds
<1>15. CASE WorkerCloses(w)
  BY <1>15 DEF WorkerCloses
<1>16. CASE WorkerRefreshes(w)
  BY <1>16 DEF WorkerRefreshes
<1>17. CASE WorkerReleases(w)
  BY <1>17 DEF WorkerReleases
<1>18. CASE WorkerDeletes(w)
  BY <1>18 DEF WorkerDeletes
<1>19. CASE WorkerDies(w)
  BY <1>19 DEF WorkerDies
<1>20. CASE WorkerStops(w)
  BY <1>20 DEF WorkerStops
<1>21. CASE WorkerRestarts(w)
  BY <1>21 DEF WorkerRestarts, WorkersOK
<1> QED BY <1>1, <1>2, <1>3, <1>4, <1>5, <1>6, <1>7, <1>8, <1>9, <1>10, <1>11, <1>12, <1>13,
           <1>14, <1>15, <1>16, <1>17, <1>18, <1>19, <1>20, <1>21 DEF WorkerActs

(* The rows keep their shape.  A row that was inserted keeps its request, and *)
(* one that was decided on is never pending again.                           *)
Onward == \A a \in Items : status[a] # "absent" =>
    /\ request'[a] = request[a] /\ status'[a] # "absent"
    /\ status[a] # "pending_approval" => status'[a] # "pending_approval"

LEMMA HandlerRows ==
    ASSUME TypeOK, Handed, NEW h \in Handlers, HandlerActs(h)
    PROVE  RowsOK' /\ Onward
<1> USE HandlerHas, ServiceAssumption
    DEF TypeOK, RowsOK, Handed, Decided, Onward, rowVars, SetStatus, Statuses
<1>1. ASSUME NEW r \in Requests, CreateReuses(h, r)  PROVE RowsOK' /\ Onward
  BY <1>1 DEF CreateReuses
<1>2. ASSUME NEW r \in Requests, CreateMisses(h, r)  PROVE RowsOK' /\ Onward
  BY <1>2 DEF CreateMisses
<1>3. ASSUME NEW a \in Items, ApproveReads(h, a)  PROVE RowsOK' /\ Onward
  BY <1>3 DEF ApproveReads, DecisionReads
<1>4. ASSUME NEW a \in Items, SkipReads(h, a)  PROVE RowsOK' /\ Onward
  BY <1>4 DEF SkipReads, DecisionReads
<1>5. ASSUME NEW a \in Items, ModifyReads(h, a)  PROVE RowsOK' /\ Onward
  BY <1>5 DEF ModifyReads, DecisionReads
<1>6. CASE CreateInserts(h)
  BY <1>6 DEF CreateInserts
<1>7. CASE ApproveCommits(h)
  BY <1>7 DEF ApproveCommits, DecisionCommits
<1>8. CASE ExpireCommits(h)
  BY <1>8 DEF ExpireCommits, DecisionCommits
<1>9. CASE SkipCommits(h)
  BY <1>9 DEF SkipCommits, DecisionCommits
<1>10. CASE ModifyCommits(h)
  BY <1>10 DEF ModifyCommits, DecisionCommits
<1>11. CASE HandlerRaises(h)
  BY <1>11 DEF HandlerRaises
<1>12. CASE Rereads(h)
  BY <1>12 DEF Rereads
<1>13. CASE HandlerEnqueues(h)
  BY <1>13 DEF HandlerEnqueues, SaddNew, SaddRefused
<1>14. CASE HandlerPushes(h)
  BY <1>14 DEF HandlerPushes
<1>15. CASE HandlerStops(h)
  BY <1>15 DEF HandlerStops
<1> QED BY <1>1, <1>2, <1>3, <1>4, <1>5, <1>6, <1>7, <1>8, <1>9, <1>10, <1>11, <1>12, <1>13,
           <1>14, <1>15 DEF HandlerActs

LEMMA WorkerRows ==
    ASSUME TypeOK, Handed, NEW w \in Workers, WorkerActs(w)
    PROVE  RowsOK' /\ Onward
<1> USE WorkerHas, ServiceAssumption
    DEF TypeOK, RowsOK, Handed, Decided, Onward, rowVars, SetStatus, Statuses
<1>1. CASE WorkerPops(w)
  BY <1>1 DEF WorkerPops
<1>2. CASE WorkerClears(w)
  BY <1>2 DEF WorkerClears, Srem
<1>3. CASE WorkerReads(w)
  BY <1>3 DEF WorkerReads
<1>4. CASE WorkerFailsUnlocked(w)
  BY <1>4 DEF WorkerFailsUnlocked
<1>5. CASE WorkerAcquires(w)
  BY <1>5 DEF WorkerAcquires
<1>6. CASE WorkerRequeues(w)
  BY <1>6 DEF WorkerRequeues, SaddNew, SaddRefused
<1>7. CASE WorkerRepushes(w)
  BY <1>7 DEF WorkerRepushes
<1>8. CASE WorkerGates(w)
  BY <1>8 DEF WorkerGates
<1>9. CASE WorkerBlocks(w)
  BY <1>9 DEF WorkerBlocks
<1>10. CASE WorkerExpires(w)
  BY <1>10 DEF WorkerExpires
<1>11. CASE WorkerStarts(w)
  BY <1>11 DEF WorkerStarts
<1>12. CASE WorkerCalls(w)
  BY <1>12 DEF WorkerCalls
<1>13. CASE WorkerFails(w)
  BY <1>13 DEF WorkerFails
<1>14. CASE WorkerSucceeds(w)
  BY <1>14 DEF WorkerSucceeds
<1>15. CASE WorkerCloses(w)
  BY <1>15 DEF WorkerCloses
<1>16. CASE WorkerRefreshes(w)
  BY <1>16 DEF WorkerRefreshes
<1>17. CASE WorkerReleases(w)
  BY <1>17 DEF WorkerReleases
<1>18. CASE WorkerDeletes(w)
  BY <1>18 DEF WorkerDeletes
<1>19. CASE WorkerDies(w)
  BY <1>19 DEF WorkerDies
<1>20. CASE WorkerStops(w)
  BY <1>20 DEF WorkerStops
<1>21. CASE WorkerRestarts(w)
  BY <1>21 DEF WorkerRestarts
<1> QED BY <1>1, <1>2, <1>3, <1>4, <1>5, <1>6, <1>7, <1>8, <1>9, <1>10, <1>11, <1>12, <1>13,
           <1>14, <1>15, <1>16, <1>17, <1>18, <1>19, <1>20, <1>21 DEF WorkerActs

LEMMA OthersRows ==
    ASSUME TypeOK, OthersAct
    PROVE  RowsOK' /\ Onward
<1> USE DEF TypeOK, RowsOK, Onward, rowVars, SetStatus, Statuses
<1>1. ASSUME NEW a \in Items, Expire(a)  PROVE RowsOK' /\ Onward
  BY <1>1 DEF Expire
<1>2. ASSUME NEW a \in Items, DeleteRow(a)  PROVE RowsOK' /\ Onward
  BY <1>2 DEF DeleteRow
<1>3. ASSUME NEW c \in Accounts, LockExpires(c)  PROVE RowsOK' /\ Onward
  BY <1>3 DEF LockExpires
<1> QED BY <1>1, <1>2, <1>3 DEF OthersAct

(* So do the queue, the locks and the histories.                             *)
LockOK == lock \in [Accounts -> Workers \union {NoToken, Orphan}]

LEMMA Counts ==
    ASSUME NEW f \in [Items -> Nat], NEW a \in Items, NEW n \in Nat
    PROVE  [f EXCEPT ![a] = @ + n] \in [Items -> Nat]
<1>1. f[a] + n \in Nat
  OBVIOUS
<1> QED BY <1>1

LEMMA HandlerKeeps ==
    ASSUME TypeOK, NEW h \in Handlers, HandlerActs(h)
    PROVE  QueueTypeOK' /\ HistoryOK'
<1> USE HandlerHas, ServiceAssumption
    DEF TypeOK, QueueTypeOK, HistoryOK, queueVars, historyVars, Approved
<1>1. ASSUME NEW r \in Requests, CreateReuses(h, r)  PROVE QueueTypeOK' /\ HistoryOK'
  BY <1>1 DEF CreateReuses
<1>2. ASSUME NEW r \in Requests, CreateMisses(h, r)  PROVE QueueTypeOK' /\ HistoryOK'
  BY <1>2 DEF CreateMisses
<1>3. ASSUME NEW a \in Items, ApproveReads(h, a)  PROVE QueueTypeOK' /\ HistoryOK'
  BY <1>3 DEF ApproveReads, DecisionReads
<1>4. ASSUME NEW a \in Items, SkipReads(h, a)  PROVE QueueTypeOK' /\ HistoryOK'
  BY <1>4 DEF SkipReads, DecisionReads
<1>5. ASSUME NEW a \in Items, ModifyReads(h, a)  PROVE QueueTypeOK' /\ HistoryOK'
  BY <1>5 DEF ModifyReads, DecisionReads
<1>6. CASE CreateInserts(h)
  BY <1>6 DEF CreateInserts
<1>7. CASE ApproveCommits(h)
  <2>1. hitem[h] \in Items
    BY <1>7 DEF ApproveCommits, DecisionCommits
  <2>2. approvals' = [approvals EXCEPT ![hitem[h]] = @ + 1] /\ UNCHANGED <<queueVars, calls, dropped, crashes>>
    BY <1>7 DEF ApproveCommits, DecisionCommits
  <2>3. approvals' \in [Items -> Nat]
    BY <2>1, <2>2, Counts
  <2> QED BY <2>2, <2>3
<1>8. CASE ExpireCommits(h)
  BY <1>8 DEF ExpireCommits, DecisionCommits
<1>9. CASE SkipCommits(h)
  BY <1>9 DEF SkipCommits, DecisionCommits
<1>10. CASE ModifyCommits(h)
  <2>1. hitem[h] \in Items
    BY <1>10 DEF ModifyCommits, DecisionCommits
  <2>2. approvals' = [approvals EXCEPT ![hitem[h]] = @ + 1] /\ UNCHANGED <<queueVars, calls, dropped, crashes>>
    BY <1>10 DEF ModifyCommits, DecisionCommits
  <2>3. approvals' \in [Items -> Nat]
    BY <2>1, <2>2, Counts
  <2> QED BY <2>2, <2>3
<1>11. CASE HandlerRaises(h)
  BY <1>11 DEF HandlerRaises
<1>12. CASE Rereads(h)
  BY <1>12 DEF Rereads
<1>13. CASE HandlerEnqueues(h)
  BY <1>13 DEF HandlerEnqueues, SaddNew, SaddRefused
<1>14. CASE HandlerPushes(h)
  BY <1>14, AppendQueued DEF HandlerPushes, Rpush
<1>15. CASE HandlerStops(h)
  <2>1. hitem[h] \in Items \union {None}
    BY DEF HandlersOK
  <2>2. dropped' \in SUBSET Items
    BY <1>15, <2>1 DEF HandlerStops
  <2>3. crashes < MaxCrashes /\ crashes' = crashes + 1
    BY <1>15 DEF HandlerStops
  <2>4. crashes' \in 0 .. MaxCrashes
    BY <2>3
  <2> QED BY <1>15, <2>2, <2>4 DEF HandlerStops
<1> QED BY <1>1, <1>2, <1>3, <1>4, <1>5, <1>6, <1>7, <1>8, <1>9, <1>10, <1>11, <1>12, <1>13,
           <1>14, <1>15 DEF HandlerActs

LEMMA WorkerKeeps ==
    ASSUME TypeOK, Handed, NEW w \in Workers, WorkerActs(w)
    PROVE  QueueTypeOK' /\ HistoryOK' /\ LockOK'
<1> USE WorkerHas, Inserted, ServiceAssumption
    DEF TypeOK, QueueTypeOK, HistoryOK, LockOK, queueVars, historyVars
<1>1. CASE WorkerPops(w)
  BY <1>1, TailQueued DEF WorkerPops, Blpop
<1>2. CASE WorkerClears(w)
  BY <1>2 DEF WorkerClears, Srem
<1>3. CASE WorkerReads(w)
  BY <1>3 DEF WorkerReads
<1>4. CASE WorkerFailsUnlocked(w)
  BY <1>4 DEF WorkerFailsUnlocked
<1>5. CASE WorkerAcquires(w)
  BY <1>5 DEF WorkerAcquires
<1>6. CASE WorkerRequeues(w)
  BY <1>6 DEF WorkerRequeues, SaddNew, SaddRefused
<1>7. CASE WorkerRepushes(w)
  BY <1>7, AppendQueued DEF WorkerRepushes, Rpush
<1>8. CASE WorkerGates(w)
  BY <1>8 DEF WorkerGates
<1>9. CASE WorkerBlocks(w)
  BY <1>9 DEF WorkerBlocks
<1>10. CASE WorkerExpires(w)
  BY <1>10 DEF WorkerExpires
<1>11. CASE WorkerStarts(w)
  BY <1>11 DEF WorkerStarts
<1>12. CASE WorkerCalls(w)
  <2>1. witem[w] \in Items
    BY <1>12 DEF WorkerCalls
  <2>2. PICK effect \in {0, 1} : calls' = [calls EXCEPT ![witem[w]] = @ + effect]
    BY <1>12 DEF WorkerCalls
  <2>3. calls' \in [Items -> Nat]
    BY <2>1, <2>2, Counts
  <2> QED BY <1>12, <2>3 DEF WorkerCalls
<1>13. CASE WorkerFails(w)
  BY <1>13 DEF WorkerFails
<1>14. CASE WorkerSucceeds(w)
  BY <1>14 DEF WorkerSucceeds
<1>15. CASE WorkerCloses(w)
  BY <1>15 DEF WorkerCloses
<1>16. CASE WorkerRefreshes(w)
  BY <1>16 DEF WorkerRefreshes
<1>17. CASE WorkerReleases(w)
  BY <1>17 DEF WorkerReleases
<1>18. CASE WorkerDeletes(w)
  BY <1>18 DEF WorkerDeletes
<1>19. CASE WorkerDies(w)
  BY <1>19 DEF WorkerDies
<1>20. CASE WorkerStops(w)
  <2>1. witem[w] \in Items
    BY <1>20, ServiceAssumption DEF WorkerStops, WorkersOK
  <2>2. dropped' \in SUBSET Items
    BY <1>20, <2>1 DEF WorkerStops
  <2>3. crashes < MaxCrashes /\ crashes' = crashes + 1
    BY <1>20 DEF WorkerStops
  <2>4. crashes' \in 0 .. MaxCrashes
    BY <2>3
  <2>5. LockOK'
    BY <1>20 DEF WorkerStops
  <2> QED BY <1>20, <2>2, <2>4, <2>5 DEF WorkerStops
<1>21. CASE WorkerRestarts(w)
  BY <1>21 DEF WorkerRestarts
<1> QED BY <1>1, <1>2, <1>3, <1>4, <1>5, <1>6, <1>7, <1>8, <1>9, <1>10, <1>11, <1>12, <1>13,
           <1>14, <1>15, <1>16, <1>17, <1>18, <1>19, <1>20, <1>21 DEF WorkerActs

LEMMA OthersKeep ==
    ASSUME TypeOK, OthersAct
    PROVE  expired' \in SUBSET Items /\ LockOK'
<1> USE DEF TypeOK, LockOK
<1>1. ASSUME NEW a \in Items, Expire(a)  PROVE expired' \in SUBSET Items /\ LockOK'
  BY <1>1 DEF Expire
<1>2. ASSUME NEW a \in Items, DeleteRow(a)  PROVE expired' \in SUBSET Items /\ LockOK'
  BY <1>2 DEF DeleteRow
<1>3. ASSUME NEW c \in Accounts, LockExpires(c)  PROVE expired' \in SUBSET Items /\ LockOK'
  BY <1>3 DEF LockExpires
<1> QED BY <1>1, <1>2, <1>3 DEF OthersAct

LEMMA TypeStep ==
    ASSUME TypeOK, Handed, [Next]_vars
    PROVE  TypeOK' /\ Onward
<1>1. ASSUME NEW h \in Handlers, HandlerActs(h)  PROVE TypeOK' /\ Onward
  <2>1. WorkersOK' /\ LockOK' /\ expired' \in SUBSET Items
    BY <1>1, HandlerFrame DEF TypeOK, WorkersOK, LockOK, workerVars
  <2> QED BY <1>1, <2>1, HandlerMoves, HandlerRows, HandlerKeeps DEF TypeOK, LockOK
<1>2. ASSUME NEW w \in Workers, WorkerActs(w)  PROVE TypeOK' /\ Onward
  <2>1. HandlersOK' /\ expired' \in SUBSET Items
    BY <1>2, WorkerFrame DEF TypeOK, HandlersOK, handlerVars
  <2> QED BY <1>2, <2>1, WorkerMoves, WorkerRows, WorkerKeeps DEF TypeOK, LockOK
<1>3. CASE OthersAct
  <2>1. QueueTypeOK' /\ HandlersOK' /\ WorkersOK' /\ HistoryOK'
    BY <1>3, OthersFrame
    DEF TypeOK, QueueTypeOK, HandlersOK, WorkersOK, HistoryOK, queueVars, handlerVars, workerVars,
        historyVars
  <2> QED BY <1>3, <2>1, OthersRows, OthersKeep DEF TypeOK, LockOK
<1>4. CASE UNCHANGED vars
  BY <1>4
  DEF TypeOK, QueueTypeOK, RowsOK, HandlersOK, WorkersOK, HistoryOK, Onward, vars, queueVars,
      rowVars, handlerVars, workerVars, historyVars
<1> QED BY <1>1, <1>2, <1>3, <1>4, Steps

-----------------------------------------------------------------------------
(* What a step does to the queue.                                            *)
HandlerQueues(h) ==
    \/ /\ UNCHANGED queueVars /\ dropped \subseteq dropped'
       /\ hpc[h] = "push" => hitem[h] \in dropped'
       /\ hpc'[h] # "push"
    \/ /\ hpc[h] = "enqueue" /\ SaddNew(hitem[h]) /\ UNCHANGED dropped
       /\ hpc'[h] = "push" /\ hitem'[h] = hitem[h]
    \/ /\ hpc[h] = "push" /\ Rpush(hitem[h]) /\ UNCHANGED dropped
       /\ hpc'[h] = "idle"
WorkerQueues(w) ==
    \/ /\ UNCHANGED queueVars /\ dropped \subseteq dropped'
       /\ wpc[w] \in {"popped", "repush"} => witem[w] \in dropped'
       /\ wpc'[w] \notin {"popped", "repush"} /\ witem'[w] \in {witem[w], None}
    \/ /\ wpc[w] = "idle" /\ Blpop(witem'[w]) /\ UNCHANGED dropped
       /\ wpc'[w] = "popped" /\ witem'[w] \in Items
    \/ /\ wpc[w] = "popped" /\ Srem(witem[w]) /\ UNCHANGED dropped
       /\ wpc'[w] = "read" /\ witem'[w] = witem[w]
    \/ /\ wpc[w] = "requeue" /\ SaddNew(witem[w]) /\ UNCHANGED dropped
       /\ wpc'[w] = "repush" /\ witem'[w] = witem[w]
    \/ /\ wpc[w] = "repush" /\ Rpush(witem[w]) /\ UNCHANGED dropped
       /\ wpc'[w] = "idle" /\ witem'[w] = None

LEMMA HandlerQueueStep ==
    ASSUME TypeOK, NEW h \in Handlers, HandlerActs(h)
    PROVE  HandlerQueues(h)
<1> USE HandlerHas, ServiceAssumption
    DEF TypeOK, HandlersOK, HandlerQueues, HandlerGoto, HandlerDone, queueVars, historyVars
<1>1. ASSUME NEW r \in Requests, CreateReuses(h, r)  PROVE HandlerQueues(h)
  BY <1>1 DEF CreateReuses, MayBegin
<1>2. ASSUME NEW r \in Requests, CreateMisses(h, r)  PROVE HandlerQueues(h)
  BY <1>2 DEF CreateMisses, MayBegin
<1>3. ASSUME NEW a \in Items, ApproveReads(h, a)  PROVE HandlerQueues(h)
  BY <1>3 DEF ApproveReads, DecisionReads, MayBegin
<1>4. ASSUME NEW a \in Items, SkipReads(h, a)  PROVE HandlerQueues(h)
  BY <1>4 DEF SkipReads, DecisionReads, MayBegin
<1>5. ASSUME NEW a \in Items, ModifyReads(h, a)  PROVE HandlerQueues(h)
  BY <1>5 DEF ModifyReads, DecisionReads, MayBegin
<1>6. CASE CreateInserts(h)
  BY <1>6 DEF CreateInserts
<1>7. CASE ApproveCommits(h)
  BY <1>7 DEF ApproveCommits, DecisionCommits
<1>8. CASE ExpireCommits(h)
  BY <1>8 DEF ExpireCommits, DecisionCommits
<1>9. CASE SkipCommits(h)
  BY <1>9 DEF SkipCommits, DecisionCommits
<1>10. CASE ModifyCommits(h)
  BY <1>10 DEF ModifyCommits, DecisionCommits
<1>11. CASE HandlerRaises(h)
  BY <1>11 DEF HandlerRaises
<1>12. CASE Rereads(h)
  BY <1>12 DEF Rereads
<1>13. CASE HandlerEnqueues(h)
  BY <1>13 DEF HandlerEnqueues, SaddRefused
<1>14. CASE HandlerPushes(h)
  BY <1>14 DEF HandlerPushes
<1>15. CASE HandlerStops(h)
  BY <1>15 DEF HandlerStops
<1> QED BY <1>1, <1>2, <1>3, <1>4, <1>5, <1>6, <1>7, <1>8, <1>9, <1>10, <1>11, <1>12, <1>13,
           <1>14, <1>15 DEF HandlerActs

LEMMA WorkerQueueStep ==
    ASSUME TypeOK, NEW w \in Workers, WorkerActs(w)
    PROVE  WorkerQueues(w)
<1> USE WorkerHas, ServiceAssumption
    DEF TypeOK, WorkersOK, WorkerQueues, WorkerGoto, WorkerDone, Dead, queueVars, historyVars
<1>1. CASE WorkerPops(w)
  BY <1>1 DEF WorkerPops
<1>2. CASE WorkerClears(w)
  BY <1>2 DEF WorkerClears
<1>3. CASE WorkerReads(w)
  BY <1>3 DEF WorkerReads
<1>4. CASE WorkerFailsUnlocked(w)
  BY <1>4 DEF WorkerFailsUnlocked
<1>5. CASE WorkerAcquires(w)
  BY <1>5 DEF WorkerAcquires
<1>6. CASE WorkerRequeues(w)
  BY <1>6 DEF WorkerRequeues, SaddRefused
<1>7. CASE WorkerRepushes(w)
  BY <1>7 DEF WorkerRepushes
<1>8. CASE WorkerGates(w)
  BY <1>8 DEF WorkerGates
<1>9. CASE WorkerBlocks(w)
  BY <1>9 DEF WorkerBlocks
<1>10. CASE WorkerExpires(w)
  BY <1>10 DEF WorkerExpires
<1>11. CASE WorkerStarts(w)
  BY <1>11 DEF WorkerStarts
<1>12. CASE WorkerCalls(w)
  BY <1>12 DEF WorkerCalls
<1>13. CASE WorkerFails(w)
  BY <1>13 DEF WorkerFails
<1>14. CASE WorkerSucceeds(w)
  BY <1>14 DEF WorkerSucceeds
<1>15. CASE WorkerCloses(w)
  BY <1>15 DEF WorkerCloses
<1>16. CASE WorkerRefreshes(w)
  BY <1>16 DEF WorkerRefreshes
<1>17. CASE WorkerReleases(w)
  BY <1>17 DEF WorkerReleases
<1>18. CASE WorkerDeletes(w)
  BY <1>18 DEF WorkerDeletes
<1>19. CASE WorkerDies(w)
  BY <1>19 DEF WorkerDies
<1>20. CASE WorkerStops(w)
  BY <1>20 DEF WorkerStops
<1>21. CASE WorkerRestarts(w)
  BY <1>21 DEF WorkerRestarts
<1> QED BY <1>1, <1>2, <1>3, <1>4, <1>5, <1>6, <1>7, <1>8, <1>9, <1>10, <1>11, <1>12, <1>13,
           <1>14, <1>15, <1>16, <1>17, <1>18, <1>19, <1>20, <1>21 DEF WorkerActs

LEMMA QueuedStep ==
    ASSUME TypeOK, TypeOK'
    PROVE  /\ \A a \in Items : Rpush(a) => Queued' = Queued \union {a}
           /\ \A a \in Items : Rpush(a) /\ Distinct(queue) /\ a \notin Queued => Distinct(queue')
           /\ \A a \in Items : Blpop(a) => a \in Queued /\ Queued = Queued' \union {a}
           /\ \A a \in Items : Blpop(a) /\ Distinct(queue) => Distinct(queue') /\ a \notin Queued'
           /\ UNCHANGED queue => Queued' = Queued
           /\ Queued \subseteq Items /\ Queued' \subseteq Items
<1>1. queue \in Seq(Items) /\ queue' \in Seq(Items)
  BY DEF TypeOK, QueueTypeOK
<1>2. \A a \in Items : Rpush(a) => Queued' = Queued \union {a}
  BY <1>1, AppendQueued DEF Rpush, Queued
<1>3. \A a \in Items : Rpush(a) /\ Distinct(queue) /\ a \notin Queued => Distinct(queue')
  BY <1>1, AppendQueued DEF Rpush, Queued
<1>4. \A a \in Items : Blpop(a) => a \in Queued /\ Queued = Queued' \union {a}
  BY <1>1, TailQueued DEF Blpop, Queued
<1>5. \A a \in Items : Blpop(a) /\ Distinct(queue) => Distinct(queue') /\ a \notin Queued'
  BY <1>1, TailQueued DEF Blpop, Queued
<1>6. UNCHANGED queue => Queued' = Queued
  BY DEF Queued
<1>7. Queued \subseteq Items /\ Queued' \subseteq Items
  BY <1>1, LenProperties DEF Queued, Range
<1> QED BY <1>2, <1>3, <1>4, <1>5, <1>6, <1>7

(* A handler hands on only what was decided on, and reads before it commits. *)
LEMMA HandlerHands ==
    ASSUME TypeOK, Handed, TypeOK', NEW h \in Handlers, HandlerActs(h)
    PROVE  /\ hpc'[h] = "commit" => status'[hitem'[h]] # "absent"
           /\ hpc'[h] \in {"reread", "enqueue", "push"} => Decided(hitem[h])'
<1> DEFINE G == /\ hpc'[h] = "commit" => status'[hitem'[h]] # "absent"
                /\ hpc'[h] \in {"reread", "enqueue", "push"} => status'[hitem'[h]] \notin {"absent", "pending_approval"}
<1> USE HandlerHas, ServiceAssumption
    DEF TypeOK, RowsOK, HandlersOK, Handed, Decided, HandlerGoto, HandlerDone, rowVars, SetStatus
<1>1. ASSUME NEW r \in Requests, CreateReuses(h, r)  PROVE G
  BY <1>1 DEF CreateReuses
<1>2. ASSUME NEW r \in Requests, CreateMisses(h, r)  PROVE G
  BY <1>2 DEF CreateMisses
<1>3. ASSUME NEW a \in Items, ApproveReads(h, a)  PROVE G
  BY <1>3 DEF ApproveReads, DecisionReads
<1>4. ASSUME NEW a \in Items, SkipReads(h, a)  PROVE G
  BY <1>4 DEF SkipReads, DecisionReads
<1>5. ASSUME NEW a \in Items, ModifyReads(h, a)  PROVE G
  BY <1>5 DEF ModifyReads, DecisionReads
<1>6. ASSUME CreateInserts(h)  PROVE G
  BY <1>6 DEF CreateInserts
<1>7. ASSUME ApproveCommits(h)  PROVE G
  BY <1>7 DEF ApproveCommits, DecisionCommits
<1>8. ASSUME ExpireCommits(h)  PROVE G
  BY <1>8 DEF ExpireCommits, DecisionCommits
<1>9. ASSUME SkipCommits(h)  PROVE G
  BY <1>9 DEF SkipCommits, DecisionCommits
<1>10. ASSUME ModifyCommits(h)  PROVE G
  BY <1>10 DEF ModifyCommits, DecisionCommits
<1>11. ASSUME HandlerRaises(h)  PROVE G
  BY <1>11 DEF HandlerRaises
<1>12. ASSUME Rereads(h)  PROVE G
  BY <1>12 DEF Rereads
<1>13. ASSUME HandlerEnqueues(h)  PROVE G
  BY <1>13 DEF HandlerEnqueues
<1>14. ASSUME HandlerPushes(h)  PROVE G
  BY <1>14 DEF HandlerPushes
<1>15. ASSUME HandlerStops(h)  PROVE G
  BY <1>15 DEF HandlerStops
<1> QED BY <1>1, <1>2, <1>3, <1>4, <1>5, <1>6, <1>7, <1>8, <1>9, <1>10, <1>11, <1>12, <1>13,
           <1>14, <1>15 DEF HandlerActs

LEMMA HandedStep ==
    ASSUME TypeOK, Handed, TypeOK', Onward, [Next]_vars
    PROVE  Handed'
<1>0. \A a \in Items : Decided(a) => Decided(a)'
  BY DEF Onward, Decided
<1>1. ASSUME NEW h \in Handlers, HandlerActs(h)  PROVE Handed'
  <2>1. \A a \in Queued' : a \in Items /\ Decided(a)
    <3>1. Queued' = Queued \/ (hpc[h] = "push" /\ Queued' = Queued \union {hitem[h]})
      BY <1>1, HandlerQueueStep, QueuedStep, HandlerHas DEF HandlerQueues, TypeOK, queueVars,
         SaddNew
    <3> QED BY <3>1, QueuedStep, HandlerHas DEF Handed, TypeOK
  <2>2. \A k \in Handlers : /\ hpc'[k] = "commit" => status'[hitem'[k]] # "absent"
                            /\ hpc'[k] \in {"reread", "enqueue", "push"} => Decided(hitem[k])'
    <3>1. ASSUME NEW k \in Handlers, k # h
          PROVE  /\ hpc'[k] = "commit" => status'[hitem'[k]] # "absent"
                 /\ hpc'[k] \in {"reread", "enqueue", "push"} => Decided(hitem[k])'
      BY <1>0, <1>1, <3>1, HandlerMoves, HandlerHas DEF HandlersRest, Handed, Onward, Decided,
         TypeOK
    <3> QED BY <1>1, <3>1, HandlerHands
  <2>3. \A w \in Workers : witem'[w] # None => Decided(witem[w])'
    BY <1>0, <1>1, HandlerFrame, WorkerHas DEF workerVars, Handed, Decided, TypeOK
  <2> QED BY <1>0, <2>1, <2>2, <2>3 DEF Handed
<1>2. ASSUME NEW w \in Workers, WorkerActs(w)  PROVE Handed'
  <2>1. \A a \in Queued' : a \in Items /\ Decided(a)
    <3>1. \/ Queued' \subseteq Queued
          \/ wpc[w] = "repush" /\ Queued' = Queued \union {witem[w]}
      <4>1. wpc[w] = "repush" => witem[w] \in Items
        BY WorkerHas DEF TypeOK
      <4>2. WorkerQueues(w)
        BY <1>2, WorkerQueueStep
      <4> QED BY <4>1, <4>2, QueuedStep DEF WorkerQueues, queueVars, SaddNew, Srem
    <3> QED BY <3>1, QueuedStep, WorkerHas DEF Handed, TypeOK
  <2>2. \A k \in Handlers : /\ hpc'[k] = "commit" => status'[hitem'[k]] # "absent"
                            /\ hpc'[k] \in {"reread", "enqueue", "push"} => Decided(hitem[k])'
    BY <1>0, <1>2, WorkerFrame, HandlerHas DEF handlerVars, Handed, Onward, Decided, TypeOK
  <2>3. witem'[w] # None => witem'[w] \in Items /\ Decided(witem'[w])
    BY <1>2, WorkerQueueStep, QueuedStep, WorkerHas DEF WorkerQueues, Handed, TypeOK
  <2>4. \A v \in Workers : witem'[v] # None => Decided(witem[v])'
    BY <1>0, <1>2, <2>3, WorkerMoves, WorkerHas DEF WorkersRest, Handed, Decided, TypeOK
  <2> QED BY <1>0, <2>1, <2>2, <2>4 DEF Handed
<1>3. CASE OthersAct
  BY <1>0, <1>3, OthersFrame, HandlerHas, WorkerHas
  DEF queueVars, handlerVars, workerVars, Handed, Onward, Decided, Queued, Range, TypeOK, QueueTypeOK
<1>4. CASE UNCHANGED vars
  BY <1>4 DEF vars, rowVars, queueVars, handlerVars, workerVars, Handed, Decided, Queued
<1> QED BY <1>1, <1>2, <1>3, <1>4, Steps

-----------------------------------------------------------------------------
(* The lock.  A worker takes nobody else's lock away, and has its own where  *)
(* it decides.                                                               *)
Locks(w) ==
    /\ \A c \in Accounts, v \in Workers \ {w} : lock[c] = v => lock'[c] = v
    /\ wpc'[w] \in Deciding \union {"delete"} =>
        witem'[w] = witem[w] /\ witem[w] # None /\ lock'[AccountOf(witem[w])] = w

LEMMA WorkerLocks ==
    ASSUME TypeOK, Handed, LockHeld, NEW w \in Workers, WorkerActs(w)
    PROVE  Locks(w)
<1> USE WorkerHas, Inserted, ServiceAssumption
    DEF TypeOK, WorkersOK, Handed, Decided, LockHeld, Locks, Deciding, WorkerGoto, WorkerDone, Dead
<1>1. CASE WorkerPops(w)
  BY <1>1 DEF WorkerPops
<1>2. CASE WorkerClears(w)
  BY <1>2 DEF WorkerClears
<1>3. CASE WorkerReads(w)
  BY <1>3 DEF WorkerReads
<1>4. CASE WorkerFailsUnlocked(w)
  BY <1>4 DEF WorkerFailsUnlocked
<1>5. CASE WorkerAcquires(w)
  BY <1>5 DEF WorkerAcquires
<1>6. CASE WorkerRequeues(w)
  BY <1>6 DEF WorkerRequeues
<1>7. CASE WorkerRepushes(w)
  BY <1>7 DEF WorkerRepushes
<1>8. CASE WorkerGates(w)
  BY <1>8 DEF WorkerGates
<1>9. CASE WorkerBlocks(w)
  BY <1>9 DEF WorkerBlocks
<1>10. CASE WorkerExpires(w)
  BY <1>10 DEF WorkerExpires
<1>11. CASE WorkerStarts(w)
  BY <1>11 DEF WorkerStarts
<1>12. CASE WorkerCalls(w)
  BY <1>12 DEF WorkerCalls
<1>13. CASE WorkerFails(w)
  BY <1>13 DEF WorkerFails
<1>14. CASE WorkerSucceeds(w)
  BY <1>14 DEF WorkerSucceeds
<1>15. CASE WorkerCloses(w)
  BY <1>15 DEF WorkerCloses
<1>16. CASE WorkerRefreshes(w)
  BY <1>16 DEF WorkerRefreshes
<1>17. CASE WorkerReleases(w)
  BY <1>17 DEF WorkerReleases
<1>18. CASE WorkerDeletes(w)
  BY <1>18 DEF WorkerDeletes
<1>19. CASE WorkerDies(w)
  BY <1>19 DEF WorkerDies
<1>20. CASE WorkerStops(w)
  BY <1>20 DEF WorkerStops
<1>21. CASE WorkerRestarts(w)
  BY <1>21 DEF WorkerRestarts
<1> QED BY <1>1, <1>2, <1>3, <1>4, <1>5, <1>6, <1>7, <1>8, <1>9, <1>10, <1>11, <1>12, <1>13,
           <1>14, <1>15, <1>16, <1>17, <1>18, <1>19, <1>20, <1>21 DEF WorkerActs

LEMMA LockStep ==
    ASSUME TypeOK, Handed, LockHeld, TypeOK', Onward, [Next]_vars
    PROVE  LockHeld'
<1>0. \A a \in Items : status[a] # "absent" => AccountOf(a)' = AccountOf(a) /\ AccountOf(a) \in Accounts
  BY Inserted DEF Onward, AccountOf, TypeOK
<1>1. \A w \in Workers : wpc[w] \in Deciding \union {"delete"} =>
        witem[w] \in Items /\ status[witem[w]] # "absent"
  BY WorkerHas DEF Deciding, Handed, Decided, TypeOK
<1>2. ASSUME NEW h \in Handlers, HandlerActs(h)  PROVE LockHeld'
  BY <1>0, <1>1, <1>2, HandlerFrame DEF workerVars, LockHeld, AccountOf
<1>3. ASSUME NEW w \in Workers, WorkerActs(w)  PROVE LockHeld'
  <2>1. Locks(w) /\ WorkersRest(w) /\ UNCHANGED request
    BY <1>3, WorkerLocks, WorkerMoves, WorkerFrame
  <2> QED BY <1>0, <1>1, <2>1 DEF Locks, WorkersRest, LockHeld, AccountOf
<1>4. CASE OthersAct
  <2>1. UNCHANGED <<request, wpc, witem>>
    BY <1>4, OthersFrame DEF workerVars
  <2>2. \A c \in Accounts, w \in Workers :
            wpc[w] \in Deciding \union {"delete"} /\ lock[c] = w => lock'[c] = w
    <3>1. ASSUME NEW d \in Accounts, LockExpires(d), NEW c \in Accounts, NEW w \in Workers,
                 wpc[w] \in Deciding \union {"delete"}, lock[c] = w
          PROVE  lock'[c] = w
      BY <3>1, ServiceAssumption DEF LockExpires, TypeOK, Deciding, AfterStart
    <3>2. ASSUME NEW a \in Items, Expire(a) \/ DeleteRow(a)  PROVE UNCHANGED lock
      BY <3>2 DEF Expire, DeleteRow
    <3> QED BY <1>4, <3>1, <3>2 DEF OthersAct
  <2> QED BY <1>0, <1>1, <2>1, <2>2 DEF LockHeld, AccountOf
<1>5. CASE UNCHANGED vars
  BY <1>5 DEF vars, rowVars, workerVars, LockHeld, AccountOf
<1> QED BY <1>2, <1>3, <1>4, <1>5, Steps

(* One worker per account decides.                                           *)
LEMMA HolderDecides == LockHeld => OneDecider
  BY DEF LockHeld, OneDecider

-----------------------------------------------------------------------------
(* The two-command queue: who owns an action between the commands, and that  *)
(* what the set refuses is in somebody's care.                               *)
LEMMA HandlerOwns ==
    ASSUME TypeOK, TypeOK', Ownership, InCare, NEW h \in Handlers, HandlerActs(h)
    PROVE  Ownership' /\ InCare'
<1>1. /\ \A k \in Handlers \ {h}, a \in Items : HandlerHolds(k, a)' <=> HandlerHolds(k, a)
      /\ \A w \in Workers, a \in Items : WorkerHolds(w, a)' <=> WorkerHolds(w, a)
  BY HandlerMoves, HandlerFrame DEF HandlersRest, HandlerHolds, WorkerHolds, workerVars
<1>2. /\ Queued \subseteq Items /\ Queued' \subseteq Items /\ pending \subseteq Items
      /\ UNCHANGED queue => Queued' = Queued
      /\ \A a \in Items : Rpush(a) => Queued' = Queued \union {a}
      /\ \A a \in Items : Rpush(a) /\ Distinct(queue) /\ a \notin Queued => Distinct(queue')
  BY QueuedStep DEF TypeOK, QueueTypeOK
<1>3. CASE /\ UNCHANGED queueVars /\ dropped \subseteq dropped'
           /\ hpc[h] = "push" => hitem[h] \in dropped'
           /\ hpc'[h] # "push"
  <2>1. \A a \in Items : ~ HandlerHolds(h, a)'
    BY <1>3 DEF HandlerHolds
  <2>2. \A a \in Items \ dropped' : ~ HandlerHolds(h, a)
    BY <1>3 DEF HandlerHolds
  <2>3. queue' = queue /\ pending' = pending /\ Queued' = Queued
    BY <1>2, <1>3 DEF queueVars
  <2>4. Ownership'
    BY <1>1, <2>1, <2>3 DEF Ownership
  <2>5. InCare'
    BY <1>1, <1>2, <1>3, <2>2, <2>3 DEF InCare
  <2> QED BY <2>4, <2>5
<1>4. CASE /\ hpc[h] = "enqueue" /\ SaddNew(hitem[h]) /\ UNCHANGED dropped
           /\ hpc'[h] = "push" /\ hitem'[h] = hitem[h]
  <2> DEFINE i == hitem[h]
  <2>1. i \in Items /\ i \notin pending /\ pending' = pending \union {i} /\ queue' = queue
    BY <1>4, HandlerHas DEF SaddNew, TypeOK
  <2>2. \A a \in Items : (HandlerHolds(h, a)' <=> a = i) /\ ~ HandlerHolds(h, a)
    BY <1>4 DEF HandlerHolds
  <2>3. Ownership'
    BY <1>1, <1>2, <2>1, <2>2 DEF Ownership
  <2>4. InCare'
    BY <1>1, <1>2, <1>4, <2>1, <2>2 DEF InCare
  <2> QED BY <2>3, <2>4
<1>5. CASE /\ hpc[h] = "push" /\ Rpush(hitem[h]) /\ UNCHANGED dropped
           /\ hpc'[h] = "idle"
  <2> DEFINE i == hitem[h]
  <2>1. i \in Items /\ pending' = pending /\ HandlerHolds(h, i)
    BY <1>5, HandlerHas DEF Rpush, TypeOK, HandlerHolds
  <2>2. \A a \in Items : ~ HandlerHolds(h, a)' /\ (HandlerHolds(h, a) <=> a = i)
    BY <1>5 DEF HandlerHolds
  <2>3. i \in pending /\ i \notin Queued /\ Queued' = Queued \union {i} /\ Distinct(queue')
    BY <1>2, <1>5, <2>1 DEF Ownership
  <2>4. Ownership'
    BY <1>1, <2>1, <2>2, <2>3 DEF Ownership
  <2>5. InCare'
    BY <1>1, <1>2, <1>5, <2>1, <2>2, <2>3 DEF InCare
  <2> QED BY <2>4, <2>5
<1> QED BY <1>3, <1>4, <1>5, HandlerQueueStep DEF HandlerQueues

LEMMA WorkerOwns ==
    ASSUME TypeOK, TypeOK', Ownership, InCare, NEW w \in Workers, WorkerActs(w)
    PROVE  Ownership' /\ InCare'
<1>1. /\ \A v \in Workers \ {w}, a \in Items : WorkerHolds(v, a)' <=> WorkerHolds(v, a)
      /\ \A h \in Handlers, a \in Items : HandlerHolds(h, a)' <=> HandlerHolds(h, a)
  BY WorkerMoves, WorkerFrame DEF WorkersRest, HandlerHolds, WorkerHolds, handlerVars
<1>2. /\ Queued \subseteq Items /\ Queued' \subseteq Items /\ pending \subseteq Items
      /\ UNCHANGED queue => Queued' = Queued
      /\ \A a \in Items : Rpush(a) => Queued' = Queued \union {a}
      /\ \A a \in Items : Rpush(a) /\ Distinct(queue) /\ a \notin Queued => Distinct(queue')
      /\ \A a \in Items : Blpop(a) => a \in Queued /\ Queued = Queued' \union {a}
      /\ \A a \in Items : Blpop(a) /\ Distinct(queue) => Distinct(queue') /\ a \notin Queued'
  BY QueuedStep DEF TypeOK, QueueTypeOK
<1>3. CASE /\ UNCHANGED queueVars /\ dropped \subseteq dropped'
           /\ wpc[w] \in {"popped", "repush"} => witem[w] \in dropped'
           /\ wpc'[w] \notin {"popped", "repush"}
  <2>1. \A a \in Items : ~ WorkerHolds(w, a)'
    BY <1>3 DEF WorkerHolds
  <2>2. \A a \in Items \ dropped' : ~ WorkerHolds(w, a)
    BY <1>3 DEF WorkerHolds
  <2>3. queue' = queue /\ pending' = pending /\ Queued' = Queued
    BY <1>2, <1>3 DEF queueVars
  <2>4. Ownership'
    BY <1>1, <2>1, <2>3 DEF Ownership
  <2>5. InCare'
    BY <1>1, <1>2, <1>3, <2>2, <2>3 DEF InCare
  <2> QED BY <2>4, <2>5
<1>4. CASE /\ wpc[w] = "idle" /\ Blpop(witem'[w]) /\ UNCHANGED dropped
           /\ wpc'[w] = "popped" /\ witem'[w] \in Items
  <2> DEFINE i == witem'[w]
  <2>1. i \in Items /\ pending' = pending
    BY <1>4 DEF Blpop
  <2>2. \A a \in Items : (WorkerHolds(w, a)' <=> a = i) /\ ~ WorkerHolds(w, a)
    BY <1>4 DEF WorkerHolds
  <2>3. i \in Queued /\ i \in pending /\ Queued = Queued' \union {i} /\ i \notin Queued' /\ Distinct(queue')
    BY <1>2, <1>4 DEF Ownership
  <2>4. Ownership'
    BY <1>1, <2>1, <2>2, <2>3 DEF Ownership
  <2>5. InCare'
    BY <1>1, <1>2, <1>4, <2>1, <2>2, <2>3 DEF InCare
  <2> QED BY <2>4, <2>5
<1>5. CASE /\ wpc[w] = "popped" /\ Srem(witem[w]) /\ UNCHANGED dropped
           /\ wpc'[w] = "read" /\ witem'[w] = witem[w]
  <2> DEFINE i == witem[w]
  <2>1. i \in Items /\ pending' = pending \ {i} /\ queue' = queue /\ WorkerHolds(w, i)
    BY <1>5, WorkerHas DEF Srem, TypeOK, WorkerHolds
  <2>2. \A a \in Items : ~ WorkerHolds(w, a)' /\ (WorkerHolds(w, a) <=> a = i)
    BY <1>5 DEF WorkerHolds
  <2>3. Ownership'
    BY <1>1, <1>2, <2>1, <2>2 DEF Ownership
  <2>4. InCare'
    BY <1>1, <1>2, <1>5, <2>1, <2>2 DEF InCare
  <2> QED BY <2>3, <2>4
<1>6. CASE /\ wpc[w] = "requeue" /\ SaddNew(witem[w]) /\ UNCHANGED dropped
           /\ wpc'[w] = "repush" /\ witem'[w] = witem[w]
  <2> DEFINE i == witem[w]
  <2>1. i \in Items /\ i \notin pending /\ pending' = pending \union {i} /\ queue' = queue
    BY <1>6, WorkerHas DEF SaddNew, TypeOK
  <2>2. \A a \in Items : (WorkerHolds(w, a)' <=> a = i) /\ ~ WorkerHolds(w, a)
    BY <1>6 DEF WorkerHolds
  <2>3. Ownership'
    BY <1>1, <1>2, <2>1, <2>2 DEF Ownership
  <2>4. InCare'
    BY <1>1, <1>2, <1>6, <2>1, <2>2 DEF InCare
  <2> QED BY <2>3, <2>4
<1>7. CASE /\ wpc[w] = "repush" /\ Rpush(witem[w]) /\ UNCHANGED dropped
           /\ wpc'[w] = "idle" /\ witem'[w] = None
  <2> DEFINE i == witem[w]
  <2>1. i \in Items /\ pending' = pending /\ WorkerHolds(w, i)
    BY <1>7, WorkerHas DEF Rpush, TypeOK, WorkerHolds
  <2>2. \A a \in Items : ~ WorkerHolds(w, a)' /\ (WorkerHolds(w, a) <=> a = i)
    BY <1>7 DEF WorkerHolds
  <2>3. i \in pending /\ i \notin Queued /\ Queued' = Queued \union {i} /\ Distinct(queue')
    BY <1>2, <1>7, <2>1 DEF Ownership
  <2>4. Ownership'
    BY <1>1, <2>1, <2>2, <2>3 DEF Ownership
  <2>5. InCare'
    BY <1>1, <1>2, <1>7, <2>1, <2>2, <2>3 DEF InCare
  <2> QED BY <2>4, <2>5
<1> QED BY <1>3, <1>4, <1>5, <1>6, <1>7, WorkerQueueStep DEF WorkerQueues

LEMMA OwnershipStep ==
    ASSUME TypeOK, TypeOK', Ownership, InCare, [Next]_vars
    PROVE  Ownership' /\ InCare'
<1>1. CASE OthersAct \/ UNCHANGED vars
  <2>1. UNCHANGED <<queue, pending, hpc, hitem, wpc, witem, dropped>>
    BY <1>1, OthersFrame DEF vars, queueVars, handlerVars, workerVars, historyVars
  <2> QED BY <2>1 DEF Ownership, InCare, HandlerHolds, WorkerHolds, Queued
<1> QED BY <1>1, HandlerOwns, WorkerOwns, Steps

-----------------------------------------------------------------------------
(* No orphans.  What a handler owes it passes on, and what it approves it    *)
(* owes; what a worker owes or executes it passes on or decides.             *)
Owing == {"reread", "enqueue", "push"}
HandlerPasses(h) ==
    /\ \A a \in Items \ dropped' : hitem[h] = a /\ hpc[h] \in Owing /\ status'[a] = "approved" =>
        \/ a \in Queued'
        \/ hitem'[h] = a /\ hpc'[h] \in Owing
        \/ a \in pending \ dropped /\ hpc[h] = "enqueue"
    /\ \A a \in Items : status'[a] = "approved" =>
        status[a] = "approved" \/ (hitem'[h] = a /\ hpc'[h] \in Owing)
    /\ \A a \in Items : status'[a] = "executing" => status[a] = "executing"
WorkerPasses(w) ==
    /\ \A a \in Items \ dropped' :
        witem[w] = a /\ wpc[w] \in Unlocked \union Deciding /\ status'[a] = "approved" =>
            \/ a \in Queued'
            \/ witem'[w] = a /\ wpc'[w] \in Unlocked \union Deciding
            \/ a \in pending \ dropped /\ wpc[w] = "requeue"
    /\ \A a \in Items \ dropped' :
        witem[w] = a /\ wpc[w] \in {"calling", "succeed", "fail"} /\ status'[a] = "executing" =>
            witem'[w] = a /\ wpc'[w] \in {"calling", "succeed", "fail"}
    /\ \A a \in Items : status'[a] = "approved" => status[a] = "approved"
    /\ \A a \in Items : status'[a] = "executing" =>
        status[a] = "executing" \/ (witem'[w] = a /\ wpc'[w] = "calling")

LEMMA HandlerPassesOn ==
    ASSUME TypeOK, TypeOK', NEW h \in Handlers, HandlerActs(h)
    PROVE  HandlerPasses(h)
<1> USE HandlerHas, ServiceAssumption
    DEF TypeOK, RowsOK, HandlersOK, HandlerPasses, Owing, HandlerGoto, HandlerDone, rowVars,
        SetStatus, historyVars
<1>1. ASSUME NEW r \in Requests, CreateReuses(h, r)  PROVE HandlerPasses(h)
  BY <1>1 DEF CreateReuses, MayBegin
<1>2. ASSUME NEW r \in Requests, CreateMisses(h, r)  PROVE HandlerPasses(h)
  BY <1>2 DEF CreateMisses, MayBegin
<1>3. ASSUME NEW a \in Items, ApproveReads(h, a)  PROVE HandlerPasses(h)
  BY <1>3 DEF ApproveReads, DecisionReads, MayBegin
<1>4. ASSUME NEW a \in Items, SkipReads(h, a)  PROVE HandlerPasses(h)
  BY <1>4 DEF SkipReads, DecisionReads, MayBegin
<1>5. ASSUME NEW a \in Items, ModifyReads(h, a)  PROVE HandlerPasses(h)
  BY <1>5 DEF ModifyReads, DecisionReads, MayBegin
<1>6. CASE CreateInserts(h)
  BY <1>6 DEF CreateInserts
<1>7. CASE ApproveCommits(h)
  BY <1>7 DEF ApproveCommits, DecisionCommits
<1>8. CASE ExpireCommits(h)
  BY <1>8 DEF ExpireCommits, DecisionCommits
<1>9. CASE SkipCommits(h)
  BY <1>9 DEF SkipCommits, DecisionCommits
<1>10. CASE ModifyCommits(h)
  BY <1>10 DEF ModifyCommits, DecisionCommits
<1>11. CASE HandlerRaises(h)
  BY <1>11 DEF HandlerRaises
<1>12. CASE Rereads(h)
  BY <1>12 DEF Rereads
<1>13. CASE HandlerEnqueues(h)
  BY <1>13 DEF HandlerEnqueues, SaddNew, SaddRefused
<1>14. CASE HandlerPushes(h)
  BY <1>14, QueuedStep DEF HandlerPushes
<1>15. CASE HandlerStops(h)
  BY <1>15 DEF HandlerStops
<1> QED BY <1>1, <1>2, <1>3, <1>4, <1>5, <1>6, <1>7, <1>8, <1>9, <1>10, <1>11, <1>12, <1>13,
           <1>14, <1>15 DEF HandlerActs

LEMMA WorkerPassesOn ==
    ASSUME TypeOK, TypeOK', NEW w \in Workers, WorkerActs(w)
    PROVE  WorkerPasses(w)
<1> USE WorkerHas, ServiceAssumption
    DEF TypeOK, RowsOK, WorkersOK, WorkerPasses, WorkerGoto, WorkerDone, Dead, rowVars, SetStatus,
        historyVars, Unlocked, Deciding
<1>1. CASE WorkerPops(w)
  BY <1>1 DEF WorkerPops
<1>2. CASE WorkerClears(w)
  BY <1>2 DEF WorkerClears
<1>3. CASE WorkerReads(w)
  BY <1>3 DEF WorkerReads
<1>4. CASE WorkerFailsUnlocked(w)
  BY <1>4 DEF WorkerFailsUnlocked
<1>5. CASE WorkerAcquires(w)
  BY <1>5 DEF WorkerAcquires
<1>6. CASE WorkerRequeues(w)
  BY <1>6 DEF WorkerRequeues, SaddNew, SaddRefused
<1>7. CASE WorkerRepushes(w)
  BY <1>7, QueuedStep DEF WorkerRepushes
<1>8. CASE WorkerGates(w)
  BY <1>8 DEF WorkerGates
<1>9. CASE WorkerBlocks(w)
  BY <1>9 DEF WorkerBlocks
<1>10. CASE WorkerExpires(w)
  BY <1>10 DEF WorkerExpires
<1>11. CASE WorkerStarts(w)
  BY <1>11 DEF WorkerStarts
<1>12. CASE WorkerCalls(w)
  BY <1>12 DEF WorkerCalls
<1>13. CASE WorkerFails(w)
  BY <1>13 DEF WorkerFails
<1>14. CASE WorkerSucceeds(w)
  BY <1>14 DEF WorkerSucceeds
<1>15. CASE WorkerCloses(w)
  BY <1>15 DEF WorkerCloses
<1>16. CASE WorkerRefreshes(w)
  BY <1>16 DEF WorkerRefreshes
<1>17. CASE WorkerReleases(w)
  BY <1>17 DEF WorkerReleases
<1>18. CASE WorkerDeletes(w)
  BY <1>18 DEF WorkerDeletes
<1>19. CASE WorkerDies(w)
  BY <1>19 DEF WorkerDies
<1>20. CASE WorkerStops(w)
  BY <1>20 DEF WorkerStops
<1>21. CASE WorkerRestarts(w)
  BY <1>21 DEF WorkerRestarts
<1> QED BY <1>1, <1>2, <1>3, <1>4, <1>5, <1>6, <1>7, <1>8, <1>9, <1>10, <1>11, <1>12, <1>13,
           <1>14, <1>15, <1>16, <1>17, <1>18, <1>19, <1>20, <1>21 DEF WorkerActs

LEMMA OrphanStep ==
    ASSUME TypeOK, InCare, NoOrphan, TypeOK', [Next]_vars
    PROVE  NoOrphan'
<1> USE DEF NoOrphan, HandlerOwes, WorkerOwes
<1>0. \A a \in pending \ dropped : a \in Queued \/ (\E h \in Handlers : HandlerHolds(h, a))
                                     \/ (\E w \in Workers : WorkerHolds(w, a))
  BY DEF InCare
<1>1. ASSUME NEW h \in Handlers, HandlerActs(h)  PROVE NoOrphan'
  <2>1. HandlerPasses(h) /\ HandlersRest(h) /\ wpc' = wpc /\ witem' = witem
    BY <1>1, HandlerPassesOn, HandlerMoves, HandlerFrame DEF workerVars
  <2>2. dropped \subseteq dropped' /\ Queued \subseteq Queued'
    BY <1>1, HandlerQueueStep, QueuedStep, HandlerHas DEF HandlerQueues, TypeOK, queueVars, SaddNew
  <2>3. ASSUME NEW a \in Items \ dropped', status'[a] = "approved"
        PROVE  a \in Queued' \/ HandlerOwes(a)' \/ WorkerOwes(a)'
    <3>1. CASE status[a] # "approved"
      BY <2>1, <2>3, <3>1 DEF HandlerPasses, Owing
    <3>2. CASE a \in Queued
      BY <2>2, <3>2
    <3>3. CASE \E k \in Handlers \ {h} : hitem[k] = a /\ hpc[k] \in Owing
      BY <2>1, <3>3 DEF HandlersRest, Owing
    <3>4. CASE WorkerOwes(a)
      BY <2>1, <3>4
    <3>5. CASE a \in pending \ dropped /\ hpc[h] = "enqueue"
      <4>1. CASE \E k \in Handlers : HandlerHolds(k, a)
        BY <3>5, <3>3, <4>1 DEF HandlerHolds, Owing
      <4>2. CASE \E w \in Workers : WorkerHolds(w, a)
        BY <3>4, <4>2 DEF WorkerHolds, Unlocked
      <4> QED BY <1>0, <3>2, <3>5, <4>1, <4>2
    <3>6. CASE hitem[h] = a /\ hpc[h] \in Owing
      BY <2>1, <2>3, <3>5, <3>6 DEF HandlerPasses, Owing
    <3> QED BY <2>2, <3>1, <3>2, <3>3, <3>4, <3>6 DEF Owing
  <2>4. ASSUME NEW a \in Items \ dropped', status'[a] = "executing"
        PROVE  \E w \in Workers : witem'[w] = a /\ wpc'[w] \in {"calling", "succeed", "fail"}
    BY <2>1, <2>2, <2>4 DEF HandlerPasses
  <2> QED BY <2>3, <2>4
<1>2. ASSUME NEW w \in Workers, WorkerActs(w)  PROVE NoOrphan'
  <2>1. WorkerPasses(w) /\ WorkersRest(w) /\ hpc' = hpc /\ hitem' = hitem
    BY <1>2, WorkerPassesOn, WorkerMoves, WorkerFrame DEF handlerVars
  <2>2. /\ dropped \subseteq dropped'
        /\ \A a \in Queued : a \in Queued' \/ (witem'[w] = a /\ wpc'[w] = "popped")
    BY <1>2, WorkerQueueStep, QueuedStep, WorkerHas DEF WorkerQueues, TypeOK, queueVars, SaddNew,
       Srem
  <2>3. ASSUME NEW a \in Items \ dropped', status'[a] = "approved"
        PROVE  a \in Queued' \/ HandlerOwes(a)' \/ WorkerOwes(a)'
    <3>1. status[a] = "approved" /\ a \notin dropped
      BY <2>1, <2>2, <2>3 DEF WorkerPasses
    <3>2. CASE a \in Queued
      BY <2>2, <3>2 DEF Unlocked
    <3>3. CASE HandlerOwes(a)
      BY <2>1, <3>3
    <3>4. CASE \E v \in Workers \ {w} : witem[v] = a /\ wpc[v] \in Unlocked \union Deciding
      BY <2>1, <3>4 DEF WorkersRest
    <3>5. CASE a \in pending \ dropped /\ wpc[w] = "requeue"
      <4>1. CASE \E v \in Workers : WorkerHolds(v, a)
        BY <3>5, <3>4, <4>1 DEF WorkerHolds, Unlocked
      <4>2. CASE \E h \in Handlers : HandlerHolds(h, a)
        BY <3>3, <4>2 DEF HandlerHolds
      <4> QED BY <1>0, <3>2, <3>5, <4>1, <4>2
    <3>6. CASE witem[w] = a /\ wpc[w] \in Unlocked \union Deciding
      BY <2>1, <2>3, <3>5, <3>6 DEF WorkerPasses
    <3> QED BY <3>1, <3>2, <3>3, <3>4, <3>6
  <2>4. ASSUME NEW a \in Items \ dropped', status'[a] = "executing"
        PROVE  \E v \in Workers : witem'[v] = a /\ wpc'[v] \in {"calling", "succeed", "fail"}
    <3>1. CASE status[a] # "executing"
      BY <2>1, <2>4, <3>1 DEF WorkerPasses
    <3>2. CASE status[a] = "executing"
      <4>1. PICK v \in Workers : witem[v] = a /\ wpc[v] \in {"calling", "succeed", "fail"}
        BY <2>2, <3>2
      <4>2. CASE v = w
        BY <2>1, <2>4, <4>1, <4>2 DEF WorkerPasses
      <4>3. CASE v # w
        BY <2>1, <4>1, <4>3 DEF WorkersRest
      <4> QED BY <4>2, <4>3
    <3> QED BY <3>1, <3>2
  <2> QED BY <2>3, <2>4
<1>3. CASE OthersAct \/ UNCHANGED vars
  <2>1. UNCHANGED <<queue, hpc, hitem, wpc, witem, dropped>>
    BY <1>3, OthersFrame DEF vars, queueVars, handlerVars, workerVars, historyVars
  <2>2. \A a \in Items : status'[a] \in {"approved", "executing"} => status'[a] = status[a]
    <3>1. ASSUME NEW a \in Items, DeleteRow(a)  PROVE \A b \in Items : status'[b] \in {"approved", "executing"} => status'[b] = status[b]
      BY <3>1 DEF DeleteRow, SetStatus, TypeOK, RowsOK
    <3>2. CASE UNCHANGED status
      BY <3>2
    <3> QED BY <1>3, <3>1, <3>2 DEF OthersAct, Expire, LockExpires, vars, rowVars
  <2> QED BY <2>1, <2>2 DEF Queued
<1> QED BY <1>1, <1>2, <1>3, Steps

-----------------------------------------------------------------------------
(* Each commit of "approved" pays for one call.                              *)
HandlerFunds(h) == \A a \in Items :
    \/ approvals'[a] = approvals[a] /\ (status'[a] = "approved" => status[a] = "approved")
    \/ approvals'[a] = approvals[a] + 1
WorkerIdles(w) ==
    /\ wpc[w] # "calling" /\ wpc'[w] # "calling" /\ UNCHANGED calls
    /\ wpc'[w] = "start" => status[witem'[w]] = "approved"
    /\ \A a \in Items : status'[a] = "approved" => status[a] = "approved"
WorkerCommits(w) ==
    /\ wpc[w] = "start" /\ wpc'[w] = "calling" /\ witem'[w] = witem[w] /\ UNCHANGED calls
    /\ status'[witem[w]] = "executing"
    /\ \A a \in Items \ {witem[w]} : status'[a] = status[a]
WorkerReturns(w) ==
    /\ wpc[w] = "calling" /\ wpc'[w] \notin {"calling", "start"} /\ UNCHANGED status
    /\ \A a \in Items \ {witem[w]} : calls'[a] = calls[a]
    /\ calls'[witem[w]] \in {calls[witem[w]], calls[witem[w]] + 1}

LEMMA HandlerFundsIt ==
    ASSUME TypeOK, NEW h \in Handlers, HandlerActs(h)
    PROVE  HandlerFunds(h)
<1> USE HandlerHas, ServiceAssumption
    DEF TypeOK, RowsOK, HandlersOK, HistoryOK, HandlerFunds, rowVars, SetStatus, historyVars, Approved
<1>1. ASSUME NEW r \in Requests, CreateReuses(h, r)  PROVE HandlerFunds(h)
  BY <1>1 DEF CreateReuses
<1>2. ASSUME NEW r \in Requests, CreateMisses(h, r)  PROVE HandlerFunds(h)
  BY <1>2 DEF CreateMisses
<1>3. ASSUME NEW a \in Items, ApproveReads(h, a)  PROVE HandlerFunds(h)
  BY <1>3 DEF ApproveReads, DecisionReads
<1>4. ASSUME NEW a \in Items, SkipReads(h, a)  PROVE HandlerFunds(h)
  BY <1>4 DEF SkipReads, DecisionReads
<1>5. ASSUME NEW a \in Items, ModifyReads(h, a)  PROVE HandlerFunds(h)
  BY <1>5 DEF ModifyReads, DecisionReads
<1>6. CASE CreateInserts(h)
  <2>1. PICK a \in Items :
            /\ status[a] = "absent"
            /\ \/ SetStatus(a, "pending_approval") /\ UNCHANGED approvals
               \/ SetStatus(a, "approved") /\ Approved(a)
    BY <1>6 DEF CreateInserts
  <2> QED BY <2>1
<1>7. CASE ApproveCommits(h)
  BY <1>7 DEF ApproveCommits, DecisionCommits
<1>8. CASE ExpireCommits(h)
  BY <1>8 DEF ExpireCommits, DecisionCommits
<1>9. CASE SkipCommits(h)
  BY <1>9 DEF SkipCommits, DecisionCommits
<1>10. CASE ModifyCommits(h)
  BY <1>10 DEF ModifyCommits, DecisionCommits
<1>11. CASE HandlerRaises(h)
  BY <1>11 DEF HandlerRaises
<1>12. CASE Rereads(h)
  BY <1>12 DEF Rereads
<1>13. CASE HandlerEnqueues(h)
  BY <1>13 DEF HandlerEnqueues
<1>14. CASE HandlerPushes(h)
  BY <1>14 DEF HandlerPushes
<1>15. CASE HandlerStops(h)
  BY <1>15 DEF HandlerStops
<1> QED BY <1>1, <1>2, <1>3, <1>4, <1>5, <1>6, <1>7, <1>8, <1>9, <1>10, <1>11, <1>12, <1>13,
           <1>14, <1>15 DEF HandlerActs

LEMMA WorkerSpends ==
    ASSUME TypeOK, NEW w \in Workers, WorkerActs(w)
    PROVE  WorkerIdles(w) \/ WorkerCommits(w) \/ WorkerReturns(w)
<1>0. \A a \in Items : calls[a] \in Nat /\ calls[a] + 0 = calls[a]
  BY DEF TypeOK, HistoryOK
<1> USE WorkerHas, ServiceAssumption
    DEF TypeOK, RowsOK, WorkersOK, HistoryOK, WorkerIdles, WorkerCommits, WorkerReturns, WorkerGoto,
        WorkerDone, Dead, rowVars, SetStatus, historyVars
<1>1. CASE WorkerPops(w)
  BY <1>1 DEF WorkerPops
<1>2. CASE WorkerClears(w)
  BY <1>2 DEF WorkerClears
<1>3. CASE WorkerReads(w)
  BY <1>3 DEF WorkerReads
<1>4. CASE WorkerFailsUnlocked(w)
  BY <1>4 DEF WorkerFailsUnlocked
<1>5. CASE WorkerAcquires(w)
  BY <1>5 DEF WorkerAcquires
<1>6. CASE WorkerRequeues(w)
  BY <1>6 DEF WorkerRequeues
<1>7. CASE WorkerRepushes(w)
  BY <1>7 DEF WorkerRepushes
<1>8. CASE WorkerGates(w)
  BY <1>8 DEF WorkerGates
<1>9. CASE WorkerBlocks(w)
  BY <1>9 DEF WorkerBlocks
<1>10. CASE WorkerExpires(w)
  BY <1>10 DEF WorkerExpires
<1>11. CASE WorkerStarts(w)
  BY <1>11 DEF WorkerStarts
<1>12. CASE WorkerCalls(w)
  <2>1. PICK effect \in {0, 1}, p \in {"succeed", "fail"} :
            calls' = [calls EXCEPT ![witem[w]] = @ + effect] /\ WorkerGoto(w, p)
    BY <1>12 DEF WorkerCalls
  <2>2. wpc[w] = "calling" /\ UNCHANGED status /\ witem[w] \in Items
    BY <1>12 DEF WorkerCalls
  <2> QED BY <1>0, <2>1, <2>2
<1>13. CASE WorkerFails(w)
  BY <1>13 DEF WorkerFails
<1>14. CASE WorkerSucceeds(w)
  BY <1>14 DEF WorkerSucceeds
<1>15. CASE WorkerCloses(w)
  BY <1>15 DEF WorkerCloses
<1>16. CASE WorkerRefreshes(w)
  BY <1>16 DEF WorkerRefreshes
<1>17. CASE WorkerReleases(w)
  BY <1>17 DEF WorkerReleases
<1>18. CASE WorkerDeletes(w)
  BY <1>18 DEF WorkerDeletes
<1>19. CASE WorkerDies(w)
  BY <1>19 DEF WorkerDies
<1>20. CASE WorkerStops(w)
  BY <1>20 DEF WorkerStops
<1>21. CASE WorkerRestarts(w)
  BY <1>21 DEF WorkerRestarts
<1> QED BY <1>1, <1>2, <1>3, <1>4, <1>5, <1>6, <1>7, <1>8, <1>9, <1>10, <1>11, <1>12, <1>13,
           <1>14, <1>15, <1>16, <1>17, <1>18, <1>19, <1>20, <1>21 DEF WorkerActs

LEMMA FundedStep ==
    ASSUME TypeOK, LockHeld, Funded, TypeOK', [Next]_vars
    PROVE  Funded'
<1>0. \A a \in Items : /\ calls[a] \in Nat /\ calls'[a] \in Nat /\ approvals[a] \in Nat /\ approvals'[a] \in Nat
                       /\ IsFiniteSet(CallingOn(a)) /\ Cardinality(CallingOn(a)) \in Nat
                       /\ calls[a] + Cardinality(CallingOn(a)) + Credit(a) <= approvals[a]
                       /\ Credit(a) \in {0, 1} /\ Credit(a)' \in {0, 1}
  BY FS_CardinalityType DEF TypeOK, HistoryOK, Funded, Credit
<1>1. ASSUME NEW h \in Handlers, HandlerActs(h)  PROVE Funded'
  <2>1. HandlerFunds(h) /\ calls' = calls /\ wpc' = wpc /\ witem' = witem
    BY <1>1, HandlerFundsIt, HandlerFrame DEF workerVars
  <2>2. \A a \in Items : CallingOn(a)' = CallingOn(a) /\ (StartingOn(a)' <=> StartingOn(a))
    BY <2>1 DEF CallingOn, StartingOn
  <2>3. \A a \in Items : Credit(a)' + approvals[a] <= Credit(a) + approvals'[a]
    BY <1>0, <2>1, <2>2 DEF HandlerFunds, Credit
  <2>4. \A a \in Items : calls'[a] + Cardinality(CallingOn(a)') + Credit(a)' <= approvals'[a]
    BY <1>0, <2>1, <2>2, <2>3
  <2> QED BY <1>0, <2>2, <2>4 DEF Funded
<1>2. ASSUME NEW w \in Workers, WorkerActs(w)  PROVE Funded'
  <2>1. WorkersRest(w) /\ approvals' = approvals
    BY <1>2, WorkerMoves, WorkerFrame
  <2>2. CASE WorkerIdles(w)
    <3>1. \A a \in Items : CallingOn(a)' = CallingOn(a)
      BY <2>1, <2>2 DEF WorkersRest, WorkerIdles, CallingOn
    <3>2. \A a \in Items : Credit(a)' = 1 => Credit(a) = 1
      BY <2>1, <2>2 DEF WorkersRest, WorkerIdles, Credit, StartingOn
    <3>3. \A a \in Items : calls'[a] + Cardinality(CallingOn(a)') + Credit(a)' <= approvals'[a]
      BY <1>0, <2>1, <2>2, <3>1, <3>2 DEF WorkerIdles
    <3> QED BY <1>0, <3>1, <3>3 DEF Funded
  <2>3. CASE WorkerCommits(w)
    <3>1. PICK i \in Items : i = witem[w]
      BY <2>3, WorkerHas DEF WorkerCommits, TypeOK
    <3>2. CallingOn(i)' = CallingOn(i) \union {w} /\ w \notin CallingOn(i)
      BY <2>1, <2>3, <3>1 DEF WorkersRest, WorkerCommits, CallingOn
    <3>3. \A a \in Items \ {i} : CallingOn(a)' = CallingOn(a) /\ (Credit(a)' = 1 => Credit(a) = 1)
      BY <2>1, <2>3, <3>1 DEF WorkersRest, WorkerCommits, CallingOn, Credit, StartingOn
    <3>4. \A v \in Workers \ {w} : ~ (wpc[v] = "start" /\ witem[v] = i)
      BY <2>3, <3>1 DEF LockHeld, WorkerCommits, Deciding
    <3>5. Credit(i) = 1 /\ Credit(i)' = 0
      BY <2>1, <2>3, <3>1, <3>4 DEF WorkersRest, WorkerCommits, Credit, StartingOn
    <3>6. IsFiniteSet(CallingOn(i)') /\ Cardinality(CallingOn(i)') = Cardinality(CallingOn(i)) + 1
      BY <1>0, <3>1, <3>2, FS_AddElement
    <3>7. ASSUME NEW a \in Items
          PROVE  /\ IsFiniteSet(CallingOn(a)')
                 /\ calls'[a] + Cardinality(CallingOn(a)') + Credit(a)' <= approvals'[a]
      <4>1. CASE a = i
        BY <1>0, <2>1, <2>3, <3>1, <3>5, <3>6, <4>1 DEF WorkerCommits
      <4>2. CASE a # i
        <5>1. CallingOn(a)' = CallingOn(a) /\ (Credit(a)' = 1 => Credit(a) = 1)
          BY <3>3, <4>2
        <5> QED BY <1>0, <2>1, <2>3, <5>1 DEF WorkerCommits
      <4> QED BY <4>1, <4>2
    <3> QED BY <3>7 DEF Funded
  <2>4. CASE WorkerReturns(w)
    <3>1. PICK i \in Items : i = witem[w]
      BY <2>4, WorkerHas DEF WorkerReturns, TypeOK
    <3>2. CallingOn(i)' = CallingOn(i) \ {w} /\ w \in CallingOn(i)
      <4>1. wpc[w] = "calling" /\ wpc'[w] # "calling"
        BY <2>4 DEF WorkerReturns
      <4>2. \A v \in Workers \ {w} : wpc'[v] = wpc[v] /\ witem'[v] = witem[v]
        BY <2>1 DEF WorkersRest
      <4> QED BY <3>1, <4>1, <4>2 DEF CallingOn
    <3>3. \A a \in Items \ {i} : CallingOn(a)' = CallingOn(a)
      BY <2>1, <2>4, <3>1 DEF WorkersRest, WorkerReturns, CallingOn
    <3>4. \A a \in Items : Credit(a)' = 1 => Credit(a) = 1
      BY <2>1, <2>4, <3>1 DEF WorkersRest, WorkerReturns, Credit, StartingOn
    <3>5. IsFiniteSet(CallingOn(i)') /\ Cardinality(CallingOn(i)') = Cardinality(CallingOn(i)) - 1
      BY <1>0, <3>1, <3>2, FS_RemoveElement
    <3>6. ASSUME NEW a \in Items
          PROVE  /\ IsFiniteSet(CallingOn(a)')
                 /\ calls'[a] + Cardinality(CallingOn(a)') + Credit(a)' <= approvals'[a]
      <4>1. Credit(a)' <= Credit(a)
        BY <1>0, <3>4
      <4>2. CASE a = i
        <5>1. calls'[a] <= calls[a] + 1
          BY <1>0, <2>4, <3>1, <4>2 DEF WorkerReturns
        <5>2. Cardinality(CallingOn(a)') = Cardinality(CallingOn(a)) - 1 /\ approvals'[a] = approvals[a]
          BY <2>1, <3>5, <4>2
        <5> QED BY <1>0, <3>5, <4>1, <4>2, <5>1, <5>2
      <4>3. CASE a # i
        <5>1. CallingOn(a)' = CallingOn(a) /\ calls'[a] = calls[a] /\ approvals'[a] = approvals[a]
          BY <2>1, <2>4, <3>1, <3>3, <4>3 DEF WorkerReturns
        <5> QED BY <1>0, <4>1, <5>1
      <4> QED BY <4>2, <4>3
    <3> QED BY <3>6 DEF Funded
  <2> QED BY <1>2, <2>2, <2>3, <2>4, WorkerSpends
<1>3. CASE OthersAct \/ UNCHANGED vars
  <2>1. UNCHANGED <<wpc, witem, calls, approvals>>
    BY <1>3, OthersFrame DEF vars, workerVars, historyVars
  <2>2. \A a \in Items : status'[a] = "approved" => status[a] = "approved"
    <3>1. ASSUME NEW a \in Items, DeleteRow(a), NEW b \in Items, status'[b] = "approved"
          PROVE  status[b] = "approved"
      BY <3>1 DEF DeleteRow, SetStatus, TypeOK, RowsOK
    <3>2. CASE UNCHANGED status
      BY <3>2
    <3> QED BY <1>3, <3>1, <3>2 DEF OthersAct, Expire, LockExpires, vars, rowVars
  <2>3. \A a \in Items : CallingOn(a)' = CallingOn(a) /\ (Credit(a)' = 1 => Credit(a) = 1)
    BY <2>1, <2>2 DEF CallingOn, Credit, StartingOn
  <2>4. \A a \in Items : calls'[a] + Cardinality(CallingOn(a)') + Credit(a)' <= approvals'[a]
    BY <1>0, <2>1, <2>3
  <2> QED BY <1>0, <2>3, <2>4 DEF Funded
<1> QED BY <1>1, <1>2, <1>3, Steps

LEMMA FundedPays == TypeOK /\ Funded => CallsPaid
<1> SUFFICES ASSUME TypeOK, Funded, NEW a \in Items  PROVE calls[a] <= approvals[a]
  BY DEF CallsPaid
<1>1. /\ calls[a] \in Nat /\ approvals[a] \in Nat /\ Cardinality(CallingOn(a)) \in Nat
      /\ Credit(a) \in {0, 1} /\ calls[a] + Cardinality(CallingOn(a)) + Credit(a) <= approvals[a]
  BY FS_CardinalityType DEF TypeOK, HistoryOK, Funded, Credit
<1> QED BY <1>1

-----------------------------------------------------------------------------
LEMMA InitInv == Init => Inv
<1> SUFFICES ASSUME Init  PROVE Inv
  OBVIOUS
<1>1. TypeOK
  BY ServiceAssumption, EmptySeq
  DEF Init, QueueInit, TypeOK, QueueTypeOK, RowsOK, HandlersOK, WorkersOK, HistoryOK, Statuses,
      HandlerPlaces, Decisions, WorkerPlaces
<1>2. Queued = {} /\ Distinct(queue)
  BY EmptySeq DEF Init, QueueInit, Queued, Range, Distinct
<1>3. Handed /\ LockHeld /\ Ownership /\ InCare /\ NoOrphan
  BY <1>2
  DEF Init, QueueInit, Handed, LockHeld, Deciding, Ownership, HandlerHolds, WorkerHolds, InCare, NoOrphan
<1>4. Funded
  <2>1. \A a \in Items : CallingOn(a) = {} /\ Credit(a) = 0
    BY DEF Init, CallingOn, Credit, StartingOn
  <2>2. \A a \in Items : calls[a] = 0 /\ approvals[a] = 0
    BY DEF Init
  <2> QED BY <2>1, <2>2, FS_EmptySet DEF Funded
<1> QED BY <1>1, <1>3, <1>4 DEF Inv

LEMMA NextInv == Inv /\ [Next]_vars => Inv'
<1> SUFFICES ASSUME Inv, [Next]_vars  PROVE Inv'
  OBVIOUS
<1> USE DEF Inv
<1>1. TypeOK' /\ Onward
  BY TypeStep
<1>2. Handed' /\ LockHeld'
  BY <1>1, HandedStep, LockStep
<1>3. Ownership' /\ InCare'
  BY <1>1, OwnershipStep
<1>4. NoOrphan' /\ Funded'
  BY <1>1, OrphanStep, FundedStep
<1> QED BY <1>1, <1>2, <1>3, <1>4

(* The whole invariant holds in every reachable state.                       *)
THEOREM Invariance == Spec => []Inv
<1> QED BY InitInv, NextInv, PTL DEF Spec

(* The state keeps its shape, and a process holds an action exactly where    *)
(* its place in the code needs one (service.py:439-748).                     *)
THEOREM TypeCorrect == Spec => []TypeOK
<1>1. Inv => TypeOK
  BY DEF Inv
<1> QED BY Invariance, <1>1, PTL

(* Up to the EXECUTING commit one worker per account decides, whatever       *)
(* handlers, deletions and stops do meanwhile (redis.py:62-77).              *)
THEOREM OneDecides == Spec => []OneDecider
<1>1. Inv => OneDecider
  BY HolderDecides DEF Inv
<1> QED BY Invariance, <1>1, PTL

(* No approved or executing action is forgotten, except in a stop            *)
(* (service.py:495, 570, 593, 671-719).                                      *)
THEOREM NoneForgotten == Spec => []NoOrphan
<1>1. Inv => NoOrphan
  BY DEF Inv
<1> QED BY Invariance, <1>1, PTL

(* No call without its commit of "approved", however many decisions, copies  *)
(* in the queue and expired locks there are (service.py:457-570, 671-681).   *)
THEOREM EveryCallPaid == Spec => []CallsPaid
<1>1. Inv => CallsPaid
  BY FundedPays DEF Inv
<1> QED BY Invariance, <1>1, PTL

-----------------------------------------------------------------------------
(* Refinement.  The owed work is pending; a worker's hand is full from SREM  *)
(* on, until it is done or SADD hands the action back.                       *)
Hand == [w \in Workers |-> IF wpc[w] \in {"popped", "repush"} THEN None ELSE witem[w]]
WorkerHands(w) ==
    \/ UNCHANGED pending /\ Hand'[w] = Hand[w]
    \/ UNCHANGED pending /\ Hand[w] # None /\ Hand'[w] = None
    \/ wpc[w] = "popped" /\ Hand[w] = None /\ pending' = pending \ {witem[w]} /\ Hand'[w] = witem[w]
    \/ Hand[w] # None /\ pending' = pending \union {Hand[w]} /\ Hand'[w] = None

LEMMA InitRefines == Init => AsWorkSet!Init
  BY DEF Init, QueueInit, AsWorkSet!Init

LEMMA WorkerHandsOver ==
    ASSUME TypeOK, NEW w \in Workers, WorkerActs(w)
    PROVE  WorkerHands(w)
<1> USE WorkerHas, ServiceAssumption
    DEF TypeOK, WorkersOK, WorkerHands, Hand, WorkerGoto, WorkerDone, Dead, queueVars
<1>1. CASE WorkerPops(w)
  BY <1>1 DEF WorkerPops, Blpop
<1>2. CASE WorkerClears(w)
  BY <1>2 DEF WorkerClears, Srem
<1>3. CASE WorkerReads(w)
  BY <1>3 DEF WorkerReads
<1>4. CASE WorkerFailsUnlocked(w)
  BY <1>4 DEF WorkerFailsUnlocked
<1>5. CASE WorkerAcquires(w)
  BY <1>5 DEF WorkerAcquires
<1>6. CASE WorkerRequeues(w)
  BY <1>6 DEF WorkerRequeues, SaddNew, SaddRefused
<1>7. CASE WorkerRepushes(w)
  BY <1>7 DEF WorkerRepushes, Rpush
<1>8. CASE WorkerGates(w)
  BY <1>8 DEF WorkerGates
<1>9. CASE WorkerBlocks(w)
  BY <1>9 DEF WorkerBlocks
<1>10. CASE WorkerExpires(w)
  BY <1>10 DEF WorkerExpires
<1>11. CASE WorkerStarts(w)
  BY <1>11 DEF WorkerStarts
<1>12. CASE WorkerCalls(w)
  BY <1>12 DEF WorkerCalls
<1>13. CASE WorkerFails(w)
  BY <1>13 DEF WorkerFails
<1>14. CASE WorkerSucceeds(w)
  BY <1>14 DEF WorkerSucceeds
<1>15. CASE WorkerCloses(w)
  BY <1>15 DEF WorkerCloses
<1>16. CASE WorkerRefreshes(w)
  BY <1>16 DEF WorkerRefreshes
<1>17. CASE WorkerReleases(w)
  BY <1>17 DEF WorkerReleases
<1>18. CASE WorkerDeletes(w)
  BY <1>18 DEF WorkerDeletes
<1>19. CASE WorkerDies(w)
  BY <1>19 DEF WorkerDies
<1>20. CASE WorkerStops(w)
  BY <1>20 DEF WorkerStops
<1>21. CASE WorkerRestarts(w)
  BY <1>21 DEF WorkerRestarts
<1> QED BY <1>1, <1>2, <1>3, <1>4, <1>5, <1>6, <1>7, <1>8, <1>9, <1>10, <1>11, <1>12, <1>13,
           <1>14, <1>15, <1>16, <1>17, <1>18, <1>19, <1>20, <1>21 DEF WorkerActs

LEMMA NextRefines == Inv /\ [Next]_vars => [AsWorkSet!Next]_(AsWorkSet!vars)
<1> SUFFICES ASSUME Inv, [Next]_vars  PROVE [AsWorkSet!Next]_(AsWorkSet!vars)
  OBVIOUS
<1> USE DEF Inv
<1>1. ASSUME NEW h \in Handlers, HandlerActs(h)  PROVE [AsWorkSet!Next]_(AsWorkSet!vars)
  <2>1. UNCHANGED Hand
    BY <1>1, HandlerFrame DEF Hand, workerVars
  <2>2. UNCHANGED pending \/ \E a \in Items : pending' = pending \union {a}
    BY <1>1, HandlerQueueStep, HandlerHas DEF HandlerQueues, TypeOK, queueVars, SaddNew, Rpush
  <2> QED BY <2>1, <2>2 DEF Hand, AsWorkSet!Next, AsWorkSet!Enqueue, AsWorkSet!vars
<1>2. ASSUME NEW w \in Workers, WorkerActs(w)  PROVE [AsWorkSet!Next]_(AsWorkSet!vars)
  <2>1. Hand' = [Hand EXCEPT ![w] = Hand'[w]]
    BY <1>2, WorkerMoves DEF WorkersRest, Hand
  <2>2. CASE UNCHANGED pending /\ Hand'[w] = Hand[w]
    BY <2>1, <2>2 DEF Hand, AsWorkSet!vars
  <2>3. CASE UNCHANGED pending /\ Hand[w] # None /\ Hand'[w] = None
    BY <2>1, <2>3 DEF Hand, AsWorkSet!Next, AsWorkSet!Finish
  <2>4. CASE wpc[w] = "popped" /\ Hand[w] = None /\ pending' = pending \ {witem[w]} /\ Hand'[w] = witem[w]
    <3>1. witem[w] \in Items /\ witem[w] \in pending
      BY <2>4, WorkerHas DEF TypeOK, Ownership, WorkerHolds
    <3> QED BY <2>1, <2>4, <3>1 DEF Hand, AsWorkSet!Next, AsWorkSet!Take
  <2>5. CASE Hand[w] # None /\ pending' = pending \union {Hand[w]} /\ Hand'[w] = None
    BY <2>1, <2>5 DEF Hand, AsWorkSet!Next, AsWorkSet!HandBack
  <2> QED BY <1>2, <2>2, <2>3, <2>4, <2>5, WorkerHandsOver DEF WorkerHands
<1>3. CASE OthersAct \/ UNCHANGED vars
  BY <1>3, OthersFrame DEF vars, queueVars, workerVars, AsWorkSet!vars
<1> QED BY <1>1, <1>2, <1>3, Steps

(* The action queue is a set of owed work also in the hands of its real      *)
(* clients: requests that enqueue twice, workers that hand an action of a    *)
(* locked account back, and stops (redis.py:29-60, service.py:593-595).      *)
THEOREM ActionsImplementWorkSet == Spec => ImplementsWorkSet
<1> QED BY InitRefines, NextRefines, Invariance, PTL DEF Spec, ImplementsWorkSet, AsWorkSet!Spec

-----------------------------------------------------------------------------
(* What holds besides while no two decisions run at a time.                  *)
Writes == {"insert", "commit"}
Judging == {"block", "expire", "start"}
Executing == {"calling", "succeed", "fail"}
(* What process_action writes without the lock, for a missing account.       *)
Vanished == IF AccountMayVanish THEN {"failed"} ELSE {}

(* One handler at a time is between its read and its commit, and what it     *)
(* read still holds.                                                         *)
OneWriter == \A h, k \in Handlers : hpc[h] \in Writes /\ hpc[k] \in Writes => h = k
ReadHolds == \A h \in Handlers :
    hpc[h] = "commit" => status[hitem[h]] \in {"pending_approval", "deleted"}

(* What a worker judged or executes still has the status it found or set,    *)
(* and no other worker judges or executes it.                                *)
Unlocks == AccountMayVanish \/ \A w \in Workers : wpc[w] # "fail_unlocked"
StatusHolds == \A w \in Workers :
    /\ wpc[w] \in Judging => status[witem[w]] \in {"approved", "deleted"} \union Vanished
    /\ wpc[w] \in Executing => status[witem[w]] \in {"executing", "deleted"} \union Vanished
OneJudge == \A v, w \in Workers :
    /\ wpc[v] \in Judging \union Executing /\ wpc[w] \in Judging \union Executing
    /\ witem[v] = witem[w]
    => v = w

(* An effect leaves the action where nothing starts it again.                *)
CalledOnce ==
    /\ \A a \in Items : calls[a] # 0 =>
        calls[a] = 1 /\ status[a] \in {"executing", "succeeded", "failed", "deleted"}
    /\ \A w \in Workers : wpc[w] \in Judging \union {"calling"} => calls[witem[w]] = 0

(* A like or a follow is never pending, and what a handler is about to       *)
(* insert is still not there.                                                *)
RepliesPend == \A a \in Items : status[a] = "pending_approval" => request[a].kind = "reply"
StillMissing == AccountMayVanish \/ \A h \in Handlers : hpc[h] = "insert" => FindExisting(hreq[h]) = {}

SerialInv == OneWriter /\ ReadHolds /\ Unlocks /\ StatusHolds /\ OneJudge /\ CalledOnce
                /\ RepliesPend /\ StillMissing

-----------------------------------------------------------------------------
(* What a handler's step does to the rows, and what it has read when it is   *)
(* about to write.                                                           *)
HandlerWrites(h) ==
    \/ UNCHANGED <<status, request>>
    \/ /\ hpc[h] = "commit" /\ UNCHANGED request
       /\ status[hitem[h]] # "deleted"
       /\ \E s \in {"approved", "expired", "rejected"} : SetStatus(hitem[h], s)
    \/ /\ hpc[h] = "insert"
       /\ \E a \in Items :
            /\ status[a] = "absent" /\ request' = [request EXCEPT ![a] = hreq[h]]
            /\ SetStatus(a, IF hreq[h].kind = "reply" THEN "pending_approval" ELSE "approved")
HandlerReads(h) ==
    /\ hpc'[h] \in Writes => UNCHANGED <<status, request>> /\ \A k \in Handlers : hpc[k] \notin Writes
    /\ hpc'[h] = "commit" => status[hitem'[h]] = "pending_approval"
    /\ hpc'[h] = "insert" => FindExisting(hreq'[h]) = {}

LEMMA HandlerStepWrites ==
    ASSUME OneAtATime, TypeOK, NEW h \in Handlers, HandlerActs(h)
    PROVE  HandlerWrites(h) /\ HandlerReads(h)
<1> USE HandlerHas
    DEF TypeOK, HandlersOK, HandlerWrites, HandlerReads, Writes, HandlerGoto, HandlerDone, rowVars
<1>1. ASSUME NEW r \in Requests, CreateReuses(h, r)  PROVE HandlerWrites(h) /\ HandlerReads(h)
  BY <1>1 DEF CreateReuses, MayBegin
<1>2. ASSUME NEW r \in Requests, CreateMisses(h, r)  PROVE HandlerWrites(h) /\ HandlerReads(h)
  BY <1>2 DEF CreateMisses, MayBegin
<1>3. ASSUME NEW a \in Items, ApproveReads(h, a)  PROVE HandlerWrites(h) /\ HandlerReads(h)
  BY <1>3 DEF ApproveReads, DecisionReads, MayBegin
<1>4. ASSUME NEW a \in Items, SkipReads(h, a)  PROVE HandlerWrites(h) /\ HandlerReads(h)
  BY <1>4 DEF SkipReads, DecisionReads, MayBegin
<1>5. ASSUME NEW a \in Items, ModifyReads(h, a)  PROVE HandlerWrites(h) /\ HandlerReads(h)
  BY <1>5 DEF ModifyReads, DecisionReads, MayBegin
<1>6. CASE CreateInserts(h)
  BY <1>6 DEF CreateInserts
<1>7. CASE ApproveCommits(h)
  BY <1>7 DEF ApproveCommits, DecisionCommits
<1>8. CASE ExpireCommits(h)
  BY <1>8 DEF ExpireCommits, DecisionCommits
<1>9. CASE SkipCommits(h)
  BY <1>9 DEF SkipCommits, DecisionCommits
<1>10. CASE ModifyCommits(h)
  BY <1>10 DEF ModifyCommits, DecisionCommits
<1>11. CASE HandlerRaises(h)
  BY <1>11 DEF HandlerRaises
<1>12. CASE Rereads(h)
  BY <1>12 DEF Rereads
<1>13. CASE HandlerEnqueues(h)
  BY <1>13 DEF HandlerEnqueues
<1>14. CASE HandlerPushes(h)
  BY <1>14 DEF HandlerPushes
<1>15. CASE HandlerStops(h)
  BY <1>15 DEF HandlerStops
<1> QED BY <1>1, <1>2, <1>3, <1>4, <1>5, <1>6, <1>7, <1>8, <1>9, <1>10, <1>11, <1>12, <1>13,
           <1>14, <1>15 DEF HandlerActs

(* What a worker's step does to the rows and the calls.                      *)
WorkerWaits(w) ==
    /\ UNCHANGED <<status, calls>>
    /\ wpc'[w] \in Judging => witem'[w] = witem[w] /\ wpc[w] = "gate" /\ status[witem[w]] = "approved"
    /\ wpc'[w] \notin Executing
    /\ wpc'[w] = "fail_unlocked" => AccountMayVanish
WorkerWrites(w, from, s, to) ==
    /\ wpc[w] = from /\ wpc'[w] = to /\ witem'[w] = witem[w] /\ UNCHANGED calls
    /\ status[witem[w]] # "deleted" /\ SetStatus(witem[w], s)
WorkerActsOnce(w) ==
    /\ wpc[w] = "calling" /\ wpc'[w] \in {"succeed", "fail"} /\ witem'[w] = witem[w] /\ UNCHANGED status
    /\ \E effect \in {0, 1} : calls' = [calls EXCEPT ![witem[w]] = @ + effect]
WorkerDecides(w) ==
    \/ WorkerWaits(w) \/ WorkerActsOnce(w)
    \/ WorkerWrites(w, "fail_unlocked", "failed", "refresh")
    \/ WorkerWrites(w, "block", "failed", "refresh")
    \/ WorkerWrites(w, "expire", "expired", "refresh")
    \/ WorkerWrites(w, "start", "executing", "calling")
    \/ WorkerWrites(w, "fail", "failed", "refresh")
    \/ WorkerWrites(w, "succeed", "succeeded", "close")

LEMMA WorkerStepDecides ==
    ASSUME TypeOK, NEW w \in Workers, WorkerActs(w)
    PROVE  WorkerDecides(w)
<1> USE WorkerHas
    DEF TypeOK, WorkersOK, WorkerDecides, WorkerWaits, WorkerActsOnce, WorkerWrites, Judging, Executing,
        WorkerGoto, WorkerDone, Dead, rowVars, historyVars
<1>1. CASE WorkerPops(w)
  BY <1>1 DEF WorkerPops
<1>2. CASE WorkerClears(w)
  BY <1>2 DEF WorkerClears
<1>3. CASE WorkerReads(w)
  BY <1>3 DEF WorkerReads
<1>4. CASE WorkerFailsUnlocked(w)
  BY <1>4 DEF WorkerFailsUnlocked
<1>5. CASE WorkerAcquires(w)
  BY <1>5 DEF WorkerAcquires
<1>6. CASE WorkerRequeues(w)
  BY <1>6 DEF WorkerRequeues
<1>7. CASE WorkerRepushes(w)
  BY <1>7 DEF WorkerRepushes
<1>8. CASE WorkerGates(w)
  BY <1>8 DEF WorkerGates
<1>9. CASE WorkerBlocks(w)
  BY <1>9 DEF WorkerBlocks
<1>10. CASE WorkerExpires(w)
  BY <1>10 DEF WorkerExpires
<1>11. CASE WorkerStarts(w)
  BY <1>11 DEF WorkerStarts
<1>12. CASE WorkerCalls(w)
  BY <1>12 DEF WorkerCalls
<1>13. CASE WorkerFails(w)
  BY <1>13 DEF WorkerFails
<1>14. CASE WorkerSucceeds(w)
  BY <1>14 DEF WorkerSucceeds
<1>15. CASE WorkerCloses(w)
  BY <1>15 DEF WorkerCloses
<1>16. CASE WorkerRefreshes(w)
  BY <1>16 DEF WorkerRefreshes
<1>17. CASE WorkerReleases(w)
  BY <1>17 DEF WorkerReleases
<1>18. CASE WorkerDeletes(w)
  BY <1>18 DEF WorkerDeletes
<1>19. CASE WorkerDies(w)
  BY <1>19 DEF WorkerDies
<1>20. CASE WorkerStops(w)
  BY <1>20 DEF WorkerStops
<1>21. CASE WorkerRestarts(w)
  BY <1>21 DEF WorkerRestarts
<1> QED BY <1>1, <1>2, <1>3, <1>4, <1>5, <1>6, <1>7, <1>8, <1>9, <1>10, <1>11, <1>12, <1>13,
           <1>14, <1>15, <1>16, <1>17, <1>18, <1>19, <1>20, <1>21 DEF WorkerActs

-----------------------------------------------------------------------------
(* Each step keeps SerialInv.                                                *)
LEMMA SetsOne ==
    ASSUME TypeOK, NEW a \in Items, NEW s, SetStatus(a, s)
    PROVE  status'[a] = s /\ \A b \in Items \ {a} : status'[b] = status[b]
  BY DEF TypeOK, RowsOK, SetStatus

LEMMA SameRows ==
    ASSUME UNCHANGED <<status, request>>
    PROVE  \A r : FindExisting(r)' = FindExisting(r)
  BY DEF FindExisting, Matches

(* Workers have in hand what was decided on.                                 *)
LEMMA WorkerItems ==
    ASSUME TypeOK, Handed, NEW w \in Workers
    PROVE  wpc[w] \notin {"idle", "dead"} => witem[w] \in Items /\ Decided(witem[w])
  BY WorkerHas DEF TypeOK, Handed

(* A handler writes to a row that nobody else can have in hand.              *)
HandlerTouches(h, i) ==
    /\ status[i] \in {"absent", "pending_approval"} /\ hpc[h] \in Writes
    /\ \A a \in Items \ {i} : status'[a] = status[a] /\ request'[a] = request[a]
    /\ status'[i] = "pending_approval" => request'[i].kind = "reply"

LEMMA HandlerSerial ==
    ASSUME OneAtATime, Inv, SerialInv, TypeOK', NEW h \in Handlers, HandlerActs(h)
    PROVE  SerialInv'
<1> USE DEF Inv, SerialInv
<1>1. /\ HandlerWrites(h) /\ HandlerReads(h) /\ HandlersRest(h)
      /\ wpc' = wpc /\ witem' = witem /\ calls' = calls
  BY HandlerStepWrites, HandlerMoves, HandlerFrame DEF workerVars
<1>2. /\ \A k \in Handlers : hpc[k] = "commit" => hitem[k] \in Items
      /\ \A k \in Handlers : hpc[k] = "insert" => hreq[k] \in Requests
      /\ \A w \in Workers : wpc[w] \in Judging \union Executing => witem[w] \in Items /\ Decided(witem[w])
  BY HandlerHas, WorkerItems DEF TypeOK, Judging, Executing
<1>3. OneWriter'
  BY <1>1 DEF OneWriter, HandlerReads, HandlersRest
<1>4. Unlocks' /\ OneJudge'
  BY <1>1 DEF Unlocks, OneJudge
<1>5. \A a \in Items : calls[a] # 0 => status[a] \notin {"absent", "pending_approval"}
  BY DEF CalledOnce
<1>6. CASE UNCHANGED <<status, request>>
  <2>1. ReadHolds'
    BY <1>1, <1>6 DEF ReadHolds, HandlerReads, HandlersRest
  <2>2. StatusHolds' /\ CalledOnce' /\ RepliesPend'
    BY <1>1, <1>6 DEF StatusHolds, CalledOnce, RepliesPend
  <2>3. StillMissing'
    BY <1>1, <1>6, SameRows DEF StillMissing, HandlerReads, HandlersRest
  <2> QED BY <1>3, <1>4, <2>1, <2>2, <2>3
<1>7. CASE ~ UNCHANGED <<status, request>>
  <2>1. PICK i \in Items : HandlerTouches(h, i)
    <3>1. ASSUME hpc[h] = "commit", UNCHANGED request, status[hitem[h]] # "deleted",
                 NEW s \in {"approved", "expired", "rejected"}, SetStatus(hitem[h], s)
          PROVE  \E i \in Items : HandlerTouches(h, i)
      BY <1>2, <3>1, SetsOne DEF HandlerTouches, ReadHolds, Writes
    <3>2. ASSUME hpc[h] = "insert", NEW a \in Items, status[a] = "absent",
                 request' = [request EXCEPT ![a] = hreq[h]],
                 SetStatus(a, IF hreq[h].kind = "reply" THEN "pending_approval" ELSE "approved")
          PROVE  \E i \in Items : HandlerTouches(h, i)
      BY <1>2, <3>2, SetsOne DEF HandlerTouches, Writes, TypeOK, RowsOK
    <3> QED BY <1>1, <1>7, <3>1, <3>2 DEF HandlerWrites
  <2>2. hpc'[h] \notin Writes /\ \A k \in Handlers \ {h} : hpc'[k] \notin Writes
    BY <1>1, <1>7, <2>1 DEF HandlerTouches, HandlerReads, HandlersRest, OneWriter
  <2>3. ReadHolds' /\ StillMissing'
    BY <2>2 DEF ReadHolds, StillMissing, Writes
  <2>4. StatusHolds'
    BY <1>1, <1>2, <2>1 DEF HandlerTouches, StatusHolds, Decided
  <2>5. CalledOnce'
    BY <1>1, <1>2, <1>5, <2>1 DEF HandlerTouches, CalledOnce
  <2>6. RepliesPend'
    BY <2>1 DEF HandlerTouches, RepliesPend
  <2> QED BY <1>3, <1>4, <2>3, <2>4, <2>5, <2>6
<1> QED BY <1>6, <1>7

(* A worker writes to the row it has in hand, which no other worker judges   *)
(* or executes.                                                              *)
LEMMA WorkerSerial ==
    ASSUME OneAtATime, Inv, SerialInv, TypeOK', NEW w \in Workers, WorkerActs(w)
    PROVE  SerialInv'
<1> USE DEF Inv, SerialInv
<1>1. /\ WorkerDecides(w) /\ WorkersRest(w) /\ OneDecider
      /\ hpc' = hpc /\ hitem' = hitem /\ hreq' = hreq /\ request' = request
  BY WorkerStepDecides, WorkerMoves, WorkerFrame, HolderDecides DEF handlerVars
<1>2. /\ \A k \in Handlers : hpc[k] = "commit" => hitem[k] \in Items
      /\ \A v \in Workers : wpc[v] \in Judging \union Executing \union {"fail_unlocked"} =>
            witem[v] \in Items /\ Decided(witem[v])
  BY HandlerHas, WorkerItems DEF TypeOK, Judging, Executing
<1>3. OneWriter'
  BY <1>1 DEF OneWriter
<1>4. \A a \in Items : calls[a] # 0 => calls[a] = 1 /\ status[a] \in {"executing", "succeeded", "failed", "deleted"}
  BY DEF CalledOnce
<1>5. CASE WorkerWaits(w)
  <2>1. ReadHolds' /\ Unlocks' /\ RepliesPend'
    BY <1>1, <1>5 DEF WorkerWaits, WorkersRest, ReadHolds, Unlocks, RepliesPend
  <2>2. StatusHolds'
    BY <1>1, <1>5 DEF WorkerWaits, WorkersRest, StatusHolds
  <2>3. \A v \in Workers \ {w} : wpc'[w] \in Judging /\ wpc[v] \in Judging \union Executing => witem[v] # witem[w]
    <3>1. SUFFICES ASSUME NEW v \in Workers \ {w}, wpc[w] = "gate", status[witem[w]] = "approved",
                          wpc[v] \in Judging \union Executing, witem[v] = witem[w]
                   PROVE  FALSE
      BY <1>5 DEF WorkerWaits
    <3>2. CASE wpc[v] \in Judging
      BY <1>1, <3>1, <3>2 DEF OneDecider, Deciding, Judging
    <3>3. CASE wpc[v] \in Executing
      BY <3>1, <3>3 DEF StatusHolds, Vanished
    <3> QED BY <3>1, <3>2, <3>3
  <2>4. OneJudge'
    BY <1>1, <1>5, <2>3 DEF WorkerWaits, WorkersRest, OneJudge
  <2>5. wpc'[w] \in Judging => witem[w] \in Items /\ calls[witem[w]] = 0
    BY <1>4, <1>5, WorkerHas DEF WorkerWaits, TypeOK
  <2>6. CalledOnce'
    BY <1>1, <1>5, <2>5 DEF WorkerWaits, WorkersRest, CalledOnce, Executing
  <2>7. StillMissing'
    BY <1>1, <1>5, SameRows DEF WorkerWaits, StillMissing
  <2> QED BY <1>3, <2>1, <2>2, <2>4, <2>6, <2>7
<1>6. CASE WorkerActsOnce(w)
  <2>1. ReadHolds' /\ Unlocks' /\ RepliesPend'
    BY <1>1, <1>6 DEF WorkerActsOnce, WorkersRest, ReadHolds, Unlocks, RepliesPend
  <2>2. StatusHolds' /\ OneJudge'
    BY <1>1, <1>6 DEF WorkerActsOnce, WorkersRest, StatusHolds, OneJudge, Judging, Executing
  <2>3. witem[w] \in Items /\ calls[witem[w]] = 0 /\ status[witem[w]] \in {"executing", "failed", "deleted"}
    BY <1>2, <1>6 DEF WorkerActsOnce, CalledOnce, StatusHolds, Executing, Vanished
  <2>4. calls'[witem[w]] \in {0, 1} /\ \A a \in Items \ {witem[w]} : calls'[a] = calls[a]
    BY <1>6, <2>3 DEF WorkerActsOnce, TypeOK, HistoryOK
  <2>5. \A v \in Workers \ {w} : wpc[v] \in Judging \union {"calling"} => witem[v] # witem[w]
    BY <1>6 DEF WorkerActsOnce, OneJudge, Judging, Executing
  <2>6. CalledOnce'
    BY <1>1, <1>2, <1>6, <2>3, <2>4, <2>5 DEF WorkerActsOnce, WorkersRest, CalledOnce, Judging,
       Executing
  <2>7. StillMissing'
    BY <1>1, <1>6, SameRows DEF WorkerActsOnce, StillMissing
  <2> QED BY <1>3, <2>1, <2>2, <2>6, <2>7
<1>7. ASSUME NEW from, NEW s, NEW to, WorkerWrites(w, from, s, to),
             <<from, s, to>> \in
                {<<"fail_unlocked", "failed", "refresh">>, <<"block", "failed", "refresh">>,
                 <<"expire", "expired", "refresh">>, <<"start", "executing", "calling">>,
                 <<"fail", "failed", "refresh">>, <<"succeed", "succeeded", "close">>}
      PROVE  SerialInv'
  <2>0. /\ from \in {"fail_unlocked", "block", "expire", "start", "fail", "succeed"}
        /\ to \in {"refresh", "calling", "close"} /\ (to = "calling" <=> s = "executing")
        /\ s \in {"failed", "expired", "executing", "succeeded"}
        /\ s = "executing" <=> from = "start"
        /\ s = "expired" <=> from = "expire"
        /\ from \in {"fail_unlocked", "block", "fail"} => s = "failed"
        /\ from = "succeed" => s = "succeeded"
    BY <1>7
  <2>1. PICK i \in Items : /\ i = witem[w] /\ Decided(i) /\ status'[i] = s /\ status[i] # "deleted"
                           /\ \A a \in Items \ {i} : status'[a] = status[a]
    BY <1>2, <1>7, <2>0, SetsOne DEF WorkerWrites, Judging, Executing
  <2>2. wpc[w] = from /\ wpc'[w] = to /\ witem'[w] = witem[w] /\ calls' = calls
    BY <1>7 DEF WorkerWrites
  <2>3. \A k \in Handlers : hpc[k] = "commit" /\ hitem[k] = i => FALSE
    BY <2>1 DEF ReadHolds, Decided
  <2>4. ReadHolds' /\ Unlocks' /\ RepliesPend'
    BY <1>1, <1>2, <2>0, <2>1, <2>2, <2>3 DEF WorkersRest, ReadHolds, Unlocks, RepliesPend
  <2>5. \A v \in Workers \ {w} : wpc[v] \in Judging \union Executing /\ witem[v] = i =>
            from = "fail_unlocked" /\ AccountMayVanish
    BY <2>0, <2>1, <2>2 DEF OneJudge, Judging, Executing, Unlocks
  <2>6. StatusHolds'
    <3>1. ASSUME NEW v \in Workers \ {w}
          PROVE  /\ wpc'[v] \in Judging => status'[witem'[v]] \in {"approved", "deleted"} \union Vanished
                 /\ wpc'[v] \in Executing => status'[witem'[v]] \in {"executing", "deleted"} \union Vanished
      <4>1. wpc'[v] = wpc[v] /\ witem'[v] = witem[v]
        BY <1>1 DEF WorkersRest
      <4>2. CASE witem[v] = i
        BY <2>0, <2>1, <2>5, <4>1, <4>2 DEF Vanished
      <4>3. CASE witem[v] # i
        BY <1>2, <2>1, <4>1, <4>3 DEF StatusHolds
      <4> QED BY <4>2, <4>3
    <3>2. /\ wpc'[w] \notin Judging
          /\ wpc'[w] \in Executing => status'[witem'[w]] \in {"executing", "deleted"} \union Vanished
      BY <2>0, <2>1, <2>2 DEF Judging, Executing
    <3> QED BY <3>1, <3>2 DEF StatusHolds
  <2>7. OneJudge'
    BY <1>1, <2>0, <2>1, <2>2, <2>5 DEF WorkersRest, OneJudge, Judging, Executing
  <2>8. CalledOnce'
    <3>1. from = "start" => calls[i] = 0
      BY <2>1, <2>2 DEF CalledOnce, Judging
    <3>2. from = "expire" => calls[i] = 0
      BY <2>1, <2>2 DEF CalledOnce, Judging
    <3>3. \A a \in Items : calls'[a] # 0 =>
            calls'[a] = 1 /\ status'[a] \in {"executing", "succeeded", "failed", "deleted"}
      BY <1>4, <2>0, <2>1, <2>2, <3>2
    <3>4. \A v \in Workers : wpc'[v] \in Judging \union {"calling"} => calls'[witem'[v]] = 0
      BY <1>1, <2>0, <2>1, <2>2, <3>1 DEF WorkersRest, CalledOnce, Judging
    <3> QED BY <3>3, <3>4 DEF CalledOnce
  <2>9. StillMissing'
    <3>1. CASE AccountMayVanish
      BY <3>1 DEF StillMissing
    <3>2. CASE ~ AccountMayVanish
      <4>1. \A a \in Items : \A kind : status'[a] \in Reusable(kind) => status[a] \in Reusable(kind)
        <5>1. status'[i] \in {"executing", "succeeded"} => status[i] \in {"approved", "executing"}
          BY <2>0, <2>1, <2>2, <3>2 DEF StatusHolds, Vanished, Judging, Executing
        <5> QED BY <2>0, <2>1, <5>1 DEF Reusable
      <4>2. \A r : \A a \in Items : Matches(r, a)' => Matches(r, a)
        BY <1>1, <2>1, <2>0 DEF Matches, Decided
      <4>3. ASSUME NEW r, NEW a \in Items, Matches(r, a)', status'[a] \in Reusable(r.kind)
            PROVE  Matches(r, a) /\ status[a] \in Reusable(r.kind)
        BY <4>1, <4>2, <4>3
      <4>4. \A r : FindExisting(r) = {} => FindExisting(r)' = {}
        BY <4>3 DEF FindExisting
      <4> QED BY <1>1, <3>2, <4>4 DEF StillMissing
    <3> QED BY <3>1, <3>2
  <2> QED BY <1>3, <2>4, <2>6, <2>7, <2>8, <2>9
<1> QED BY <1>1, <1>5, <1>6, <1>7 DEF WorkerDecides

LEMMA OthersSerial ==
    ASSUME Inv, SerialInv, TypeOK', OthersAct \/ UNCHANGED vars
    PROVE  SerialInv'
<1> USE DEF Inv, SerialInv
<1>1. UNCHANGED <<request, hpc, hitem, hreq, wpc, witem, calls>>
  BY OthersFrame DEF vars, rowVars, handlerVars, workerVars, historyVars
<1>2. \A a \in Items : status'[a] \in {status[a], "deleted"} /\ (status[a] = "absent" => status'[a] = "absent")
  <2>1. ASSUME NEW b \in Items, DeleteRow(b), NEW a \in Items
        PROVE  status'[a] \in {status[a], "deleted"} /\ (status[a] = "absent" => status'[a] = "absent")
    BY <2>1, SetsOne DEF DeleteRow
  <2>2. CASE UNCHANGED status
    BY <2>2
  <2> QED BY <2>1, <2>2 DEF OthersAct, Expire, LockExpires, vars, rowVars
<1>3. /\ \A k \in Handlers : hpc[k] = "commit" => hitem[k] \in Items
      /\ \A w \in Workers : wpc[w] \in Judging \union Executing => witem[w] \in Items
  BY HandlerHas, WorkerItems DEF TypeOK, Judging, Executing
<1>4. OneWriter' /\ ReadHolds' /\ Unlocks' /\ OneJudge'
  BY <1>1, <1>2, <1>3 DEF OneWriter, ReadHolds, Unlocks, OneJudge
<1>5. StatusHolds' /\ CalledOnce' /\ RepliesPend'
  BY <1>1, <1>2, <1>3 DEF StatusHolds, CalledOnce, RepliesPend
<1>6. StillMissing'
  <2>1. ASSUME NEW r, NEW a \in Items, Matches(r, a)', status'[a] \in Reusable(r.kind)
        PROVE  Matches(r, a) /\ status[a] \in Reusable(r.kind)
    <3>1. status'[a] = status[a]
      BY <1>2, <2>1 DEF Reusable
    <3> QED BY <1>1, <2>1, <3>1 DEF Matches
  <2>2. \A r : FindExisting(r) = {} => FindExisting(r)' = {}
    BY <2>1 DEF FindExisting
  <2> QED BY <1>1, <2>2 DEF StillMissing
<1> QED BY <1>4, <1>5, <1>6

LEMMA InitSerial == Init => SerialInv
  BY DEF Init, SerialInv, OneWriter, ReadHolds, Unlocks, StatusHolds, OneJudge, CalledOnce,
         RepliesPend, StillMissing, Writes, Judging, Executing

LEMMA NextSerial ==
    ASSUME OneAtATime, Inv, SerialInv, [Next]_vars
    PROVE  SerialInv'
<1>1. TypeOK'
  BY NextInv DEF Inv
<1> QED BY <1>1, HandlerSerial, WorkerSerial, OthersSerial, Steps

(* The whole invariant holds in every reachable state.                       *)
THEOREM SerialInvariance ==
    ASSUME OneAtATime
    PROVE  Spec => []SerialInv
<1>1. Inv /\ SerialInv /\ [Next]_vars => SerialInv'
  BY NextSerial
<1> QED BY InitSerial, Invariance, <1>1, PTL DEF Spec

(* While no two decisions run at a time an action acts on Twitter at most    *)
(* once, however often it is queued, wherever the lock's TTL runs out during *)
(* the call, and whatever stops or is deleted (service.py:573-748).          *)
THEOREM ActsAtMostOnce ==
    ASSUME OneAtATime
    PROVE  Spec => []AtMostOnce
<1>1. Inv /\ SerialInv => AtMostOnce
  BY DEF Inv, TypeOK, HistoryOK, SerialInv, CalledOnce, AtMostOnce
<1> QED BY Invariance, SerialInvariance, <1>1, PTL

(* What was skipped or has expired never acted (service.py:464, 516, 618).   *)
THEOREM RefusedNeverActs ==
    ASSUME OneAtATime
    PROVE  Spec => []RefusedNeverCalled
<1>1. SerialInv => RefusedNeverCalled
  BY DEF SerialInv, CalledOnce, RefusedNeverCalled
<1> QED BY SerialInvariance, <1>1, PTL

-----------------------------------------------------------------------------
(* A decided action stays decided: a decision finds it pending, and a worker *)
(* finds what it judged or executes as it left it.                           *)
LEMMA FinalStep ==
    ASSUME OneAtATime, ~ AccountMayVanish, Inv, SerialInv, [Next]_vars,
           NEW a \in Items, status[a] \in Terminal
    PROVE  status'[a] \in {status[a], "deleted"}
<1> USE DEF Inv, SerialInv
<1>1. ASSUME NEW h \in Handlers, HandlerActs(h)  PROVE status'[a] = status[a]
  <2>1. HandlerWrites(h)
    BY <1>1, HandlerStepWrites
  <2>2. hpc[h] = "commit" => hitem[h] \in Items /\ status[hitem[h]] \in {"pending_approval", "deleted"}
    BY HandlerHas DEF TypeOK, ReadHolds
  <2> QED BY <2>1, <2>2, SetsOne DEF HandlerWrites, Terminal
<1>2. ASSUME NEW w \in Workers, WorkerActs(w)  PROVE status'[a] = status[a]
  <2>1. WorkerDecides(w)
    BY <1>2, WorkerStepDecides
  <2>2. wpc[w] \in Judging \union Executing =>
            witem[w] \in Items /\ status[witem[w]] \in {"approved", "executing", "deleted"}
    BY WorkerItems DEF StatusHolds, Vanished, Judging, Executing
  <2>3. wpc[w] # "fail_unlocked"
    BY DEF Unlocks
  <2>4. CASE UNCHANGED status
    BY <2>4
  <2>5. ASSUME NEW from \in Judging \union Executing, NEW s, NEW to, WorkerWrites(w, from, s, to)
        PROVE  status'[a] = status[a]
    BY <2>2, <2>5, SetsOne DEF WorkerWrites, Terminal
  <2>6. ASSUME NEW s, NEW to, WorkerWrites(w, "fail_unlocked", s, to)  PROVE FALSE
    BY <2>3, <2>6 DEF WorkerWrites
  <2> QED BY <2>1, <2>4, <2>5, <2>6
          DEF WorkerDecides, WorkerWaits, WorkerActsOnce, Judging, Executing
<1>3. CASE OthersAct
  <2>1. ASSUME NEW b \in Items, DeleteRow(b)  PROVE status'[a] \in {status[a], "deleted"}
    BY <2>1, SetsOne DEF DeleteRow
  <2> QED BY <1>3, <2>1 DEF OthersAct, Expire, LockExpires, rowVars
<1>4. CASE UNCHANGED vars
  BY <1>4 DEF vars, rowVars
<1> QED BY <1>1, <1>2, <1>3, <1>4, Steps

(* Succeeded, failed, expired and rejected actions change no more, while no  *)
(* two decisions run at a time and no account vanishes                       *)
(* (service.py:457-570, 573-748).                                            *)
THEOREM DecidedIsFinal ==
    ASSUME OneAtATime, ~ AccountMayVanish
    PROVE  Spec => TerminalIsFinal
<1>1. Inv /\ SerialInv /\ [Next]_vars =>
        [\A a \in Items : status[a] \in Terminal => status'[a] \in {status[a], "deleted"}]_vars
  BY FinalStep
<1> QED BY Invariance, SerialInvariance, <1>1, PTL DEF Spec, TerminalIsFinal

-----------------------------------------------------------------------------
(* One open action per tweet.  The tweet of a request names its author, so   *)
(* two requests for one tweet agree on the handle that is compared.          *)
TweetNamesAuthor == \A q, r \in Requests : q.tweet = r.tweet /\ q.tweet # None => q.handle = r.handle

(* A row becomes open only by its insertion.                                 *)
LEMMA LiveStays ==
    ASSUME OneAtATime, ~ AccountMayVanish, Inv, SerialInv, TypeOK', [Next]_vars,
           NEW a \in Items, status[a] # "absent", Live(a)'
    PROVE  Live(a) /\ request'[a] = request[a]
<1> USE DEF Inv, SerialInv
<1>1. request'[a] = request[a]
  BY TypeStep DEF Onward
<1>2. ASSUME NEW h \in Handlers, HandlerActs(h)  PROVE Live(a)
  <2>1. HandlerWrites(h)
    BY <1>2, HandlerStepWrites
  <2>2. hpc[h] = "commit" => hitem[h] \in Items /\ status[hitem[h]] \in {"pending_approval", "deleted"}
    BY HandlerHas DEF TypeOK, ReadHolds
  <2>3. status'[a] = status[a] \/ status[a] = "pending_approval"
    BY <2>1, <2>2, SetsOne DEF HandlerWrites
  <2> QED BY <1>1, <2>3 DEF Live, Reusable, RepliesPend
<1>3. ASSUME NEW w \in Workers, WorkerActs(w)  PROVE Live(a)
  <2>1. WorkerDecides(w)
    BY <1>3, WorkerStepDecides
  <2>2. wpc[w] \in Judging \union Executing =>
            witem[w] \in Items /\ status[witem[w]] \in {"approved", "executing", "deleted"}
    BY WorkerItems DEF StatusHolds, Vanished, Judging, Executing
  <2>3. wpc[w] # "fail_unlocked"
    BY DEF Unlocks
  <2>4. CASE UNCHANGED status
    BY <1>1, <2>4 DEF Live
  <2>5. ASSUME NEW from \in Judging \union Executing, NEW s, NEW to, WorkerWrites(w, from, s, to)
        PROVE  status'[a] = status[a] \/ status[a] \in {"approved", "executing"}
    BY <2>2, <2>5, SetsOne DEF WorkerWrites
  <2>6. ASSUME NEW s, NEW to, WorkerWrites(w, "fail_unlocked", s, to)  PROVE FALSE
    BY <2>3, <2>6 DEF WorkerWrites
  <2>7. status'[a] = status[a] \/ status[a] \in {"approved", "executing"}
    BY <2>1, <2>4, <2>5, <2>6 DEF WorkerDecides, WorkerWaits, WorkerActsOnce, Judging, Executing
  <2> QED BY <1>1, <2>7 DEF Live, Reusable
<1>4. CASE OthersAct \/ UNCHANGED vars
  <2>1. status'[a] \in {status[a], "deleted"}
    <3>1. ASSUME NEW b \in Items, DeleteRow(b)  PROVE status'[a] \in {status[a], "deleted"}
      BY <3>1, SetsOne DEF DeleteRow
    <3> QED BY <1>4, <3>1 DEF OthersAct, Expire, LockExpires, vars, rowVars
  <2> QED BY <1>1, <2>1 DEF Live, Reusable
<1> QED BY <1>1, <1>2, <1>3, <1>4, Steps

LEMMA OneOpenStep ==
    ASSUME OneAtATime, ~ AccountMayVanish, TweetNamesAuthor, Inv, SerialInv, OneOpenPerTweet, [Next]_vars
    PROVE  OneOpenPerTweet'
<1> USE DEF Inv, SerialInv
<1>1. TypeOK'
  BY NextInv DEF Inv
<1>2. \A a \in Items : request[a] = None <=> status[a] = "absent"
  BY DEF TypeOK, RowsOK
<1>3. \A a \in Items : status[a] # "absent" /\ Live(a)' => Live(a) /\ request'[a] = request[a]
  BY <1>1, LiveStays
<1>4. CASE \A a \in Items : status[a] = "absent" => ~ Live(a)'
  BY <1>2, <1>3, <1>4 DEF OneOpenPerTweet, SameTweet
<1>5. CASE \E a \in Items : status[a] = "absent" /\ Live(a)'
  <2>1. PICK a \in Items : status[a] = "absent" /\ Live(a)'
    BY <1>5
  <2>2. PICK h \in Handlers : HandlerActs(h)
    <3>1. ASSUME NEW w \in Workers, WorkerActs(w)  PROVE FALSE
      <4>1. WorkerDecides(w)
        BY <3>1, WorkerStepDecides
      <4>2. wpc[w] \in Judging \union Executing \union {"fail_unlocked"} => witem[w] \in Items \ {a}
        BY <2>1, WorkerItems DEF Decided, Judging, Executing
      <4>3. status'[a] = status[a]
        BY <4>1, <4>2, SetsOne DEF WorkerDecides, WorkerWaits, WorkerActsOnce, WorkerWrites,
           Judging, Executing
      <4> QED BY <2>1, <4>3 DEF Live
    <3>2. CASE OthersAct \/ UNCHANGED vars
      <4>1. status'[a] \in {status[a], "deleted"}
        <5>1. ASSUME NEW b \in Items, DeleteRow(b)  PROVE status'[a] \in {status[a], "deleted"}
          BY <5>1, SetsOne DEF DeleteRow
        <5> QED BY <3>2, <5>1 DEF OthersAct, Expire, LockExpires, vars, rowVars
      <4> QED BY <2>1, <4>1 DEF Live, Reusable
    <3> QED BY <3>1, <3>2, Steps
  <2>3. /\ hpc[h] = "insert" /\ status[a] = "absent"
        /\ request' = [request EXCEPT ![a] = hreq[h]]
        /\ \A b \in Items \ {a} : status'[b] = status[b]
    <3>1. HandlerWrites(h)
      BY <2>2, HandlerStepWrites
    <3>2. ASSUME hpc[h] = "commit", NEW s, SetStatus(hitem[h], s), status[hitem[h]] # "deleted"
          PROVE  FALSE
      <4>1. hitem[h] \in Items \ {a}
        BY <2>1, <3>2, HandlerHas DEF TypeOK, ReadHolds
      <4> QED BY <2>1, <3>2, <4>1, SetsOne DEF Live
    <3>3. CASE UNCHANGED <<status, request>>
      BY <2>1, <3>3 DEF Live
    <3>4. ASSUME NEW b \in Items, NEW s, SetStatus(b, s)  PROVE b = a
      BY <2>1, <3>4, SetsOne DEF Live
    <3> QED BY <2>1, <3>1, <3>2, <3>3, <3>4, SetsOne DEF HandlerWrites
  <2> DEFINE r == hreq[h]
  <2>4. r \in Requests /\ request'[a] = r /\ FindExisting(r) = {}
    BY <2>3, HandlerHas DEF TypeOK, RowsOK, StillMissing
  <2>5. ASSUME NEW b \in Items \ {a}, status[b] # "absent", Live(b), SameTweet(a, b)'
        PROVE  FALSE
    <3>1. request'[b] = request[b] /\ request[b] \in Requests
      BY <2>3, <2>5, Inserted DEF TypeOK, RowsOK
    <3>2. /\ request[b].account = r.account /\ request[b].kind = r.kind
          /\ r.tweet # None /\ request[b].tweet = r.tweet /\ request[b].handle = r.handle
      BY <2>4, <2>5, <3>1 DEF SameTweet, TweetNamesAuthor
    <3>3. b \in FindExisting(r)
      BY <2>5, <3>2 DEF FindExisting, Matches, Live, Reusable
    <3> QED BY <2>4, <3>3
  <2>6. \A b \in Items \ {a} : status[b] = "absent" => ~ Live(b)'
    BY <2>3 DEF Live
  <2>7. \A b, c \in Items : SameTweet(b, c)' => SameTweet(c, b)'
    BY DEF SameTweet
  <2>8. ASSUME NEW b \in Items, NEW c \in Items, Live(b)', Live(c)', SameTweet(b, c)'
        PROVE  b = c
    <3>1. CASE b = a
      BY <1>3, <2>5, <2>6, <2>8, <3>1
    <3>2. CASE c = a
      BY <1>3, <2>5, <2>6, <2>7, <2>8, <3>2
    <3>3. CASE b # a /\ c # a
      <4>1. status[b] # "absent" /\ status[c] # "absent"
        BY <2>6, <2>8, <3>3
      <4>2. Live(b) /\ Live(c) /\ request'[b] = request[b] /\ request'[c] = request[c]
        BY <1>3, <2>8, <4>1
      <4> QED BY <1>2, <2>8, <4>1, <4>2 DEF OneOpenPerTweet, SameTweet
    <3> QED BY <3>1, <3>2, <3>3
  <2> QED BY <2>8 DEF OneOpenPerTweet
<1> QED BY <1>4, <1>5

(* Never two open actions of one account and kind on one tweet, whichever    *)
(* fetched row each came from, while no two requests are between their look  *)
(* and their insert, and no account vanishes (service.py:957-1003).          *)
THEOREM OneOpen ==
    ASSUME OneAtATime, ~ AccountMayVanish, TweetNamesAuthor
    PROVE  Spec => []OneOpenPerTweet
<1>1. Init => OneOpenPerTweet
  BY DEF Init, OneOpenPerTweet
<1>2. Inv /\ SerialInv /\ OneOpenPerTweet /\ [Next]_vars => OneOpenPerTweet'
  BY OneOpenStep
<1> QED BY <1>1, <1>2, Invariance, SerialInvariance, PTL DEF Spec
=============================================================================
