----------------------------- MODULE FetchLoop ------------------------------
(* When accounts are fetched: the loop of app/worker.py (a sweep, the action *)
(* queue, the fetch queue), the gate of fetch_account, the waits that a mark *)
(* leaves behind, quiet hours and the follower snapshot of the day           *)
(* (app/fetching/service.py, app/runtime/redis.py), against the API's        *)
(* fetch-now and session validation.                                         *)
(* One tick is a share of the worker's poll interval.  Only remote calls and *)
(* waiting take time: a tick passes when every worker is in one of them.     *)
EXTENDS RuntimeQueue, Integers, SequencesExt

CONSTANTS Workers, Handlers,          \* Items, of RuntimeQueue, are the accounts
          QuietHours,                 \* what the configuration may say: pairs <<start, end>>, or None
          Poll,                       \* worker_poll_interval_seconds
          Interval, Jitter,           \* base_interval_minutes, interval_jitter_minutes
          BackoffBase, BackoffMax, RetryAfter, LockTTL,
          PauseAfterFailures,
          Hours,                      \* hours of a day, each of one tick
          MaxActions,                 \* bound: actions in the queue
          None

(* Hours in a file are of the clock, and a window is never empty             *)
(* (accounts/schemas.py:96-99).                                              *)
ASSUME FetchAssumption ==
    /\ IsFiniteSet(Items) /\ Workers \intersect Handlers = {}
    /\ None \notin Items \union Workers
    /\ \A q \in QuietHours \ {None} :
          q \in (0 .. Hours - 1) \X (0 .. Hours - 1) /\ q[1] # q[2]
    /\ {Poll, Interval, Jitter, BackoffBase, BackoffMax, RetryAfter, PauseAfterFailures,
        MaxActions} \subseteq Nat
    /\ {LockTTL, Hours} \subseteq Nat \ {0}

VARIABLES
    hour,             \* the local time
    file, edited,     \* the accounts' quiet hours in their files; ticks since they were edited
    reg, timer,       \* worker -> quiet hours as its registry has them; ticks since its last sweep
    actions,          \* the action queue, as the accounts of its actions
    row,              \* account -> status, streak, ticks until next_fetch_not_before_at
    backoff, lock,    \* account -> ticks left; holder and ticks left
    snapshots,        \* the accounts with a snapshot of this day
    pc, my,           \* worker or handler -> place, locals
    asked,            \* history: account -> ticks left of the wait its last failure calls for
    overrun,          \* history: accounts fetched by two workers because a lock ran out
    stranded          \* history: accounts whose client stopped between two queue commands

clock == <<hour, file, edited, reg, timer>>
redis == <<queueVars, actions, backoff, lock>>
history == <<asked, overrun, stranded>>
vars == <<clock, redis, row, snapshots, pc, my, history>>

Accounts == Items
Actors == Workers \union Handlers
Outcomes == {"success", "throttled", "transient", "refused"}
Snapping == {"clear", "look", "profile", "again", "insert"}
(* Places where the account lock is held.                                    *)
Fetching == {"gate", "start", "calling", "mark", "wait", "release"} \union Snapping
Places == {"idle", "dead", "sweep", "push", "fetch", "popped", "locking", "acting",
           "validating"}
          \union Fetching
Free == [by |-> None, ttl |-> 0]
AtRest == [account |-> None, todo |-> <<>>, out |-> None, streak |-> 0,
           found |-> FALSE, crowded |-> FALSE]
Largest(m, n) == IF m < n THEN n ELSE m
Smallest(m, n) == IF m < n THEN m ELSE n

Init ==
    /\ QueueInit /\ actions = <<>>
    /\ hour = 0 /\ file \in QuietHours /\ edited = Poll + 1
    /\ reg = [w \in Workers |-> file] /\ timer = [w \in Workers |-> Poll]
    /\ row = [a \in Accounts |-> [status |-> "enabled", streak |-> 0, due |-> 0]]
    /\ backoff = [a \in Accounts |-> 0] /\ lock = [a \in Accounts |-> Free]
    /\ snapshots = {}
    /\ pc = [g \in Actors |-> "idle"] /\ my = [g \in Actors |-> AtRest]
    /\ asked = [a \in Accounts |-> 0] /\ overrun = {} /\ stranded = {}

-----------------------------------------------------------------------------
Goes(g, place) == pc' = [pc EXCEPT ![g] = place]
Rests(g, place) == Goes(g, place) /\ my' = [my EXCEPT ![g] = AtRest]
It(g) == my[g].account
Enabled(a) == row[a].status = "enabled"
AtWork(a) == {w \in Workers : pc[w] \in Fetching /\ It(w) = a}

(* Faulty: a window that wraps around midnight is empty.                     *)
QuietUnwrapped(q, h) == q # None /\ q[1] <= h /\ h < q[2]
(* Faulty: the end belongs to the window, as that of the active hours does.  *)
QuietToTheEnd(q, h) ==
    /\ q # None
    /\ IF q[1] < q[2] THEN q[1] <= h /\ h <= q[2] ELSE h >= q[1] \/ h <= q[2]
(* _is_within_quiet_hours.                                                   *)
Quiet(q, h) ==
    /\ q # None
    /\ IF q[1] < q[2] THEN q[1] <= h /\ h < q[2] ELSE h >= q[1] \/ h < q[2]

(* schedule_backoff's ttl.                                                   *)
Backoff(streak) == Smallest(BackoffMax, BackoffBase * 2 ^ Largest(streak - 1, 0))
Counted(streak) == Smallest(streak + 1, PauseAfterFailures)

Acquires(w, a) ==
    /\ lock[a] = Free
    /\ lock' = [lock EXCEPT ![a] = [by |-> w, ttl |-> LockTTL]]
Releases(w, a) == lock' = [lock EXCEPT ![a] = IF @.by = w THEN Free ELSE @]
(* The end of fetch_account's try, or of a handler's method.                 *)
Done(g) ==
    /\ Goes(g, IF g \in Workers THEN "release" ELSE "idle")
    /\ my' = [my EXCEPT ![g] = IF g \in Workers THEN [AtRest EXCEPT !.account = It(g)] ELSE AtRest]

-----------------------------------------------------------------------------
(* The worker's loop.  The sweep reloads the registry and lists the due      *)
(* accounts ...                                                              *)
Due(a, q) == Enabled(a) /\ backoff[a] = 0 /\ ~Quiet(q, hour) /\ row[a].due = 0
SweepBegins(w) ==
    /\ pc[w] = "idle" /\ timer[w] = Poll
    /\ reg' = [reg EXCEPT ![w] = file] /\ timer' = [timer EXCEPT ![w] = 0]
    /\ my' = [my EXCEPT ![w].todo = SetToSeq({a \in Accounts : Due(a, file)})]
    /\ Goes(w, "sweep")
    /\ UNCHANGED <<hour, file, edited, redis, row, snapshots, history>>

(* ... and enqueues them, unless they are queued already.                    *)
SweepEnqueues(w) ==
    /\ pc[w] = "sweep" /\ my[w].todo # <<>>
    /\ LET a == Head(my[w].todo) IN
       \/ SaddNew(a) /\ Goes(w, "push") /\ my' = [my EXCEPT ![w].todo = Tail(@), ![w].account = a]
       \/ SaddRefused(a) /\ UNCHANGED pc /\ my' = [my EXCEPT ![w].todo = Tail(@)]
    /\ UNCHANGED <<clock, actions, backoff, lock, row, snapshots, history>>
SweepPushes(w) ==
    /\ pc[w] = "push"
    /\ Rpush(It(w)) /\ Goes(w, "sweep") /\ my' = [my EXCEPT ![w].account = None]
    /\ UNCHANGED <<clock, actions, backoff, lock, row, snapshots, history>>
(* The dequeue of an action comes before that of a fetch.                    *)
DequeuesActions(w) ==
    \/ pc[w] = "sweep" /\ my[w].todo = <<>>
    \/ pc[w] = "idle" /\ timer[w] < Poll

(* process_action, when the lock is free, and when the action is requeued.   *)
ActionBegins(w) ==
    /\ DequeuesActions(w) /\ actions # <<>>
    /\ Acquires(w, Head(actions)) /\ actions' = Tail(actions)
    /\ Goes(w, "acting") /\ my' = [my EXCEPT ![w] = [AtRest EXCEPT !.account = Head(actions)]]
    /\ UNCHANGED <<clock, queueVars, backoff, row, snapshots, history>>
ActionRequeued(w) ==
    /\ DequeuesActions(w) /\ actions # <<>> /\ lock[Head(actions)] # Free
    /\ actions' = Append(Tail(actions), Head(actions))
    /\ Rests(w, "idle")
    /\ UNCHANGED <<clock, queueVars, backoff, lock, row, snapshots, history>>
ActionEnds(w) ==
    /\ pc[w] = "acting"
    /\ Releases(w, It(w)) /\ Rests(w, "idle")
    /\ UNCHANGED <<clock, queueVars, actions, backoff, row, snapshots, history>>
(* It is dropped without a lock: decided otherwise, or gone.                 *)
ActionDropped(w) ==
    /\ DequeuesActions(w) /\ actions # <<>>
    /\ actions' = Tail(actions)
    /\ Rests(w, "idle")
    /\ UNCHANGED <<clock, queueVars, backoff, lock, row, snapshots, history>>

NoActions(w) ==
    /\ DequeuesActions(w) /\ actions = <<>>
    /\ Rests(w, "fetch")
    /\ UNCHANGED <<clock, redis, row, snapshots, history>>
FetchPops(w) ==
    /\ pc[w] = "fetch"
    /\ \E a \in Accounts : Blpop(a) /\ my' = [my EXCEPT ![w].account = a]
    /\ Goes(w, "popped")
    /\ UNCHANGED <<clock, actions, backoff, lock, row, snapshots, history>>
NoFetches(w) ==
    /\ pc[w] = "fetch" /\ queue = <<>>
    /\ Rests(w, "idle")
    /\ UNCHANGED <<clock, redis, row, snapshots, history>>

FetchDequeues(w) ==
    /\ pc[w] = "popped"
    /\ Srem(It(w)) /\ Goes(w, "locking") /\ UNCHANGED my
    /\ UNCHANGED <<clock, actions, backoff, lock, row, snapshots, history>>

(* fetch_account takes the account lock, or skips.                           *)
FetchLocks(w) ==
    /\ pc[w] = "locking"
    /\ Acquires(w, It(w))
    /\ overrun' = IF AtWork(It(w)) # {} THEN overrun \union {It(w)}
                  ELSE IF asked[It(w)] = 0 THEN overrun \ {It(w)} ELSE overrun
    /\ Goes(w, "gate") /\ UNCHANGED my
    /\ UNCHANGED <<clock, queueVars, actions, backoff, row, snapshots, asked, stranded>>
FetchLocked(w) ==
    /\ pc[w] = "locking" /\ lock[It(w)] # Free
    /\ Rests(w, "idle")
    /\ UNCHANGED <<clock, queueVars, actions, backoff, lock, row, snapshots, history>>

-----------------------------------------------------------------------------
(* fetch_account with the lock: the backoff and the quiet hours ...          *)
FetchGate(w) ==
    /\ pc[w] = "gate"
    /\ Goes(w, IF backoff[It(w)] = 0 /\ ~Quiet(reg[w], hour) THEN "start" ELSE "release")
    /\ UNCHANGED <<clock, redis, row, snapshots, my, history>>
(* ... and the row.                                                          *)
FetchStarts(w) ==
    /\ pc[w] = "start"
    /\ Goes(w, IF Enabled(It(w)) /\ row[It(w)].due = 0 THEN "calling" ELSE "release")
    /\ UNCHANGED <<clock, redis, row, snapshots, my, history>>
FetchEnds(w) ==
    /\ pc[w] = "calling"
    /\ \E o \in Outcomes : my' = [my EXCEPT ![w].out = o]
    /\ Goes(w, "mark")
    /\ UNCHANGED <<clock, redis, row, snapshots, history>>

-----------------------------------------------------------------------------
(* _mark_fetch_success: the row, then the backoff, then the snapshot.        *)
MarkSuccess(w) ==
    /\ pc[w] = "mark" /\ my[w].out = "success"
    /\ \E d \in Interval .. Interval + Jitter,
          s \in {"enabled", row[It(w)].status} :   \* a pause for repeated failures is lifted
          row' = [row EXCEPT ![It(w)] = [status |-> s, streak |-> 0, due |-> d]]
    /\ Goes(w, "clear") /\ UNCHANGED my
    /\ UNCHANGED <<clock, redis, snapshots, history>>
ClearsBackoff(g) ==
    /\ pc[g] = "clear"
    /\ backoff' = [backoff EXCEPT ![It(g)] = 0] /\ asked' = [asked EXCEPT ![It(g)] = 0]
    /\ Goes(g, "look") /\ UNCHANGED my
    /\ UNCHANGED <<clock, queueVars, actions, lock, row, snapshots, overrun, stranded>>

(* _mark_fetch_failure: the row, then what the error asks for: a retry-after *)
(* as it is, a backoff if it is worth a retry, nothing if it pauses.         *)
MarkFailure(w) ==
    LET a == It(w)
        streak == Counted(row[a].streak)
    IN  /\ pc[w] = "mark" /\ my[w].out # "success"
        /\ \E d \in Interval .. Interval + Jitter :
              row' = [row EXCEPT ![a] =
                        [status |-> IF my[w].out = "refused" \/ streak >= PauseAfterFailures
                                    THEN "paused" ELSE @.status,
                         streak |-> streak, due |-> d]]
        /\ asked' = [asked EXCEPT ![a] = CASE my[w].out = "throttled" -> RetryAfter
                                          [] my[w].out = "transient" -> Backoff(streak)
                                          [] OTHER -> @]
        /\ Goes(w, "wait") /\ my' = [my EXCEPT ![w].streak = streak]
        /\ UNCHANGED <<clock, redis, snapshots, overrun, stranded>>
(* Faulty: the backoff of the streak, whatever was asked for.                *)
SetsBackoffOnly(w) ==
    /\ pc[w] = "wait"
    /\ backoff' = [backoff EXCEPT ![It(w)] = IF my[w].out = "refused" THEN @ ELSE Backoff(my[w].streak)]
    /\ Done(w)
    /\ UNCHANGED <<clock, queueVars, actions, lock, row, snapshots, history>>
SetsBackoff(w) ==
    /\ pc[w] = "wait"
    /\ backoff' = [backoff EXCEPT ![It(w)] = CASE my[w].out = "throttled" -> RetryAfter
                                              [] my[w].out = "transient" -> Backoff(my[w].streak)
                                              [] OTHER -> @]
    /\ Done(w)
    /\ UNCHANGED <<clock, queueVars, actions, lock, row, snapshots, history>>
Release(w) ==
    /\ pc[w] = "release"
    /\ Releases(w, It(w)) /\ Rests(w, "idle")
    /\ UNCHANGED <<clock, queueVars, actions, backoff, row, snapshots, history>>

(* _record_follower_snapshot_if_needed: nothing if the day has one, ...      *)
Taken(g) == It(g) \in snapshots
SnapshotLooks(g) ==
    /\ pc[g] = "look"
    /\ IF Taken(g) THEN Done(g) ELSE Goes(g, "profile") /\ UNCHANGED my
    /\ UNCHANGED <<clock, redis, row, snapshots, history>>
(* ... or if the profile is not to be had.                                   *)
ProfileEnds(g) ==
    /\ pc[g] = "profile"
    /\ \/ Goes(g, "again") /\ UNCHANGED my
       \/ Done(g)
    /\ UNCHANGED <<clock, redis, row, snapshots, history>>
(* Faulty: it is not looked for a second time.                               *)
SnapshotTrusts(g) ==
    /\ pc[g] = "again"
    /\ my' = [my EXCEPT ![g].found = FALSE, ![g].crowded = FALSE]
    /\ Goes(g, "insert")
    /\ UNCHANGED <<clock, redis, row, snapshots, history>>
SnapshotLooksAgain(g) ==
    /\ pc[g] = "again"
    /\ my' = [my EXCEPT ![g].found = Taken(g), ![g].crowded = FALSE]
    /\ Goes(g, "insert")
    /\ UNCHANGED <<clock, redis, row, snapshots, history>>
(* An insert or an update; those who are about to insert as well are         *)
(* crowded out.                                                              *)
SnapshotWrites(g) ==
    /\ pc[g] = "insert" /\ my[g].found = Taken(g)
    /\ snapshots' = snapshots \union {It(g)}
    /\ LET crowd == {x \in Actors \ {g} : pc[x] = "insert" /\ It(x) = It(g)}
       IN  my' = [x \in Actors |->
                    IF x \in crowd THEN [my[x] EXCEPT !.crowded = TRUE]
                    ELSE IF x # g THEN my[x]
                    ELSE IF g \in Workers THEN [AtRest EXCEPT !.account = It(g)] ELSE AtRest]
    /\ Goes(g, IF g \in Workers THEN "release" ELSE "idle")
    /\ UNCHANGED <<clock, redis, row, history>>
(* The unique constraint: in a fetch the exception marks a failure.          *)
SnapshotRaises(g) ==
    /\ pc[g] = "insert" /\ my[g].found # Taken(g)
    /\ IF g \in Workers THEN Goes(g, "mark") /\ my' = [my EXCEPT ![g].out = "transient"]
       ELSE Rests(g, "idle")
    /\ UNCHANGED <<clock, redis, row, snapshots, history>>

-----------------------------------------------------------------------------
(* The API: fetch-now, and session validation, whose remote call ends in     *)
(* one of two ways; a success lifts a pause that an earlier one set.         *)
FetchNow ==
    /\ \E a \in Accounts :
          /\ Enabled(a) /\ a \notin pending
          /\ pending' = pending \union {a}
          /\ \/ queue' = Append(queue, a) /\ UNCHANGED stranded
             \/ UNCHANGED queue /\ stranded' = stranded \union {a}   \* the API stops in between
    /\ UNCHANGED <<clock, actions, backoff, lock, row, snapshots, pc, my, asked, overrun>>
ValidateBegins(h) ==
    /\ pc[h] = "idle"
    /\ \E a \in Accounts : my' = [my EXCEPT ![h].account = a]
    /\ Goes(h, "validating")
    /\ UNCHANGED <<clock, redis, row, snapshots, history>>
ValidateSucceeds(h) ==
    /\ pc[h] = "validating"
    /\ \E s \in {"enabled", row[It(h)].status} : row' = [row EXCEPT ![It(h)].status = s]
    /\ Goes(h, "clear") /\ UNCHANGED my
    /\ UNCHANGED <<clock, redis, snapshots, history>>
ValidateFails(h) ==
    /\ pc[h] = "validating"
    /\ row' = [row EXCEPT ![It(h)].status = "paused"]
    /\ Rests(h, "idle")
    /\ UNCHANGED <<clock, redis, snapshots, history>>

(* A process stops; what it held in Redis stays, and what it would have      *)
(* written there is forgotten.                                               *)
WorkerStops(w) ==
    /\ pc[w] # "dead"
    /\ Rests(w, "dead")
    /\ stranded' = IF pc[w] \in {"push", "popped"} THEN stranded \union {It(w)} ELSE stranded
    /\ asked' = IF pc[w] = "wait" THEN [asked EXCEPT ![It(w)] = 0] ELSE asked
    /\ UNCHANGED <<clock, redis, row, snapshots, overrun>>
WorkerRestarts(w) ==
    /\ pc[w] = "dead"
    /\ Rests(w, "idle")
    /\ reg' = [reg EXCEPT ![w] = file] /\ timer' = [timer EXCEPT ![w] = Poll]
    /\ UNCHANGED <<hour, file, edited, redis, row, snapshots, history>>
HandlerStops(h) ==
    /\ pc[h] # "idle"
    /\ Rests(h, "idle")
    /\ UNCHANGED <<clock, redis, row, snapshots, history>>

ActionArrives ==
    /\ Len(actions) < MaxActions
    /\ \E a \in Accounts : actions' = Append(actions, a)
    /\ UNCHANGED <<clock, queueVars, backoff, lock, row, snapshots, pc, my, history>>
(* The quiet hours are edited; an admin disables or enables an account.      *)
OperatorEdits ==
    /\ file' \in QuietHours \ {file} /\ edited' = 0
    /\ UNCHANGED <<hour, reg, timer, redis, row, snapshots, pc, my, history>>
OperatorSwitches ==
    /\ \E a \in Accounts, s \in {"enabled", "paused"} :
          row[a].status # s /\ row' = [row EXCEPT ![a].status = s]
    /\ UNCHANGED <<clock, redis, snapshots, pc, my, history>>

(* A worker that has nothing to do but wait.  One that goes round the        *)
(* actions of locked accounts does not get to its fetches.                   *)
Waits(w) ==
    \/ pc[w] \in {"dead", "calling", "acting", "profile"}
    \/ pc[w] = "fetch" /\ queue = <<>> /\ timer[w] < Poll
    \/ /\ pc[w] = "idle" /\ timer[w] < Poll
       /\ IF actions = <<>> THEN queue = <<>> ELSE \A a \in Range(actions) : lock[a] # Free

Down(n) == Largest(n - 1, 0)
Tick ==
    /\ \A w \in Workers : Waits(w)
    /\ hour' = (hour + 1) % Hours
    /\ snapshots' = IF hour' = 0 THEN {} ELSE snapshots
    /\ hour' = 0 => \A g \in Actors : pc[g] \notin {"profile", "again", "insert"}   \* bound
    /\ edited' = Smallest(edited + 1, Poll + 1)
    /\ timer' = [w \in Workers |-> Smallest(timer[w] + 1, Poll)]
    /\ backoff' = [a \in Accounts |-> Down(backoff[a])]
    /\ lock' = [a \in Accounts |-> IF lock[a].ttl <= 1 THEN Free ELSE [lock[a] EXCEPT !.ttl = @ - 1]]
    /\ row' = [a \in Accounts |-> [row[a] EXCEPT !.due = Down(@)]]
    /\ asked' = [a \in Accounts |-> Down(asked[a])]
    /\ UNCHANGED <<file, reg, queueVars, actions, pc, my, overrun, stranded>>

Snapshot(g) ==
    \/ ClearsBackoff(g) \/ SnapshotLooks(g) \/ ProfileEnds(g) \/ SnapshotLooksAgain(g)
    \/ SnapshotWrites(g) \/ SnapshotRaises(g)
WorkerStep(w) ==
    \/ SweepBegins(w) \/ SweepEnqueues(w) \/ SweepPushes(w)
    \/ ActionBegins(w) \/ ActionRequeued(w) \/ ActionEnds(w) \/ ActionDropped(w)
    \/ NoActions(w) \/ FetchPops(w) \/ NoFetches(w) \/ FetchDequeues(w)
    \/ FetchLocks(w) \/ FetchLocked(w)
    \/ FetchGate(w) \/ FetchStarts(w) \/ FetchEnds(w)
    \/ MarkSuccess(w) \/ MarkFailure(w) \/ SetsBackoff(w) \/ Release(w) \/ Snapshot(w)
HandlerStep(h) == ValidateSucceeds(h) \/ ValidateFails(h) \/ Snapshot(h)

Next ==
    \/ \E w \in Workers : WorkerStep(w) \/ WorkerStops(w) \/ WorkerRestarts(w)
    \/ \E h \in Handlers : HandlerStep(h) \/ ValidateBegins(h) \/ HandlerStops(h)
    \/ FetchNow \/ ActionArrives \/ OperatorEdits \/ OperatorSwitches \/ Tick

Spec == Init /\ [][Next]_vars

(* A worker that runs goes on, remote calls end, and so does what a handler  *)
(* began.                                                                    *)
Fairness ==
    /\ \A w \in Workers : WF_vars(WorkerStep(w))
    /\ \A h \in Handlers : WF_vars(HandlerStep(h))
FairSpec == Spec /\ Fairness

-----------------------------------------------------------------------------
(* Every part of the state keeps its shape; a lock that is taken runs out in *)
(* time, and whoever is on the way has an account in hand.                   *)
Row == [status : {"enabled", "paused"}, streak : 0 .. PauseAfterFailures, due : 0 .. Interval + Jitter]
Lock == {Free} \union [by : Workers, ttl : 1 .. LockTTL]
Wait == 0 .. Largest(BackoffMax, RetryAfter)
Local == [account : Accounts \union {None}, todo : Seq(Accounts), out : Outcomes \union {None},
          streak : 0 .. PauseAfterFailures, found : BOOLEAN, crowded : BOOLEAN]
ClockOK ==
    /\ hour \in 0 .. Hours - 1 /\ file \in QuietHours /\ edited \in 0 .. Poll + 1
    /\ reg \in [Workers -> QuietHours] /\ timer \in [Workers -> 0 .. Poll]
WaitsOK ==
    /\ row \in [Accounts -> Row] /\ lock \in [Accounts -> Lock]
    /\ backoff \in [Accounts -> Wait] /\ asked \in [Accounts -> Wait]
ActorsOK ==
    /\ pc \in [Actors -> Places] /\ my \in [Actors -> Local]
    /\ \A g \in Actors :
          pc[g] \in Fetching \union {"push", "popped", "locking", "acting", "validating"}
             => It(g) # None
TypeOK ==
    /\ QueueTypeOK /\ actions \in Seq(Accounts) /\ Len(actions) <= MaxActions
    /\ ClockOK /\ WaitsOK /\ ActorsOK
    /\ snapshots \subseteq Accounts /\ overrun \subseteq Accounts /\ stranded \subseteq Accounts

Starts(w) == pc[w] = "start" /\ pc'[w] = "calling"

(* No fetch starts before the wait is over that the last failure of the      *)
(* account calls for (a retry-after, or a backoff that doubles with the      *)
(* streak), whoever queued it, unless a fetch or a validation has succeeded  *)
(* since, the worker stopped before it could note the wait, or two workers   *)
(* fetched the account at once because a lock had run out.                   *)
WaitKept ==
    [][\A w \in Workers : Starts(w) => asked[It(w)] = 0 \/ It(w) \in overrun]_vars

(* No fetch starts in the quiet hours, whichever way round midnight they go, *)
(* but for a worker that has yet to reload an edit, which it does within a   *)
(* poll interval and the wait for a fetch, even if it is always busy.        *)
InArc(q, h) == q # None /\ (h - q[1]) % Hours < (q[2] - q[1]) % Hours
QuietHoursKept ==
    [][\A w \in Workers : Starts(w) => ~InArc(file, hour) \/ edited <= Poll]_vars

(* A fetch that was marked a success is marked a failure as well only if     *)
(* another actor inserted the snapshot of the day between its second look    *)
(* and its own insert.                                                       *)
SuccessStands ==
    [][\A w \in Workers : pc[w] \in Snapping /\ pc'[w] = "mark" => my[w].crowded]_vars

(* An account that stays enabled is fetched again and again as time passes,  *)
(* as long as a worker lives on, no action arrives from some time on, and no *)
(* process stopped between two commands on the account's place in the fetch  *)
(* queue.                                                                    *)
FetchedAgain ==
    \A a \in Accounts :
        /\ <>[]Enabled(a) /\ <>[](actions = <<>>) /\ (\E q \in QuietHours : <>[](file = q))
        /\ (\E w \in Workers : <>[](pc[w] # "dead")) /\ []<>(hour = 0) /\ []<>(hour # 0)
        => \/ []<>(\E w \in Workers : pc[w] = "calling" /\ It(w) = a)
           \/ <>(a \in stranded)

(* The fetch queue, used this way by the sweeps, the API and stops, is the   *)
(* set of owed work of WorkSet: what is refused as a duplicate is owed.      *)
AsWorkSet == INSTANCE WorkSet WITH
    Clients <- Workers, NoItem <- None, owed <- pending,
    hand <- [w \in Workers |-> IF pc[w] \in Fetching \union {"locking"} THEN It(w) ELSE None]
ImplementsWorkSet == AsWorkSet!Spec
=============================================================================
