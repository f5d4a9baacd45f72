-------------------------- MODULE FetchLoopProofs ---------------------------
(* The safety of FetchLoop for any accounts, workers, handlers, waits and    *)
(* quiet hours, with locks that run out.                                     *)
EXTENDS FetchLoop, RuntimeQueueProofs, FiniteSetTheorems

(* What a worker that is to note a wait will write (redis.py).               *)
Awaited(w) == CASE my[w].out = "throttled" -> RetryAfter
                [] my[w].out = "transient" -> Backoff(my[w].streak)
                [] OTHER -> backoff[It(w)]

(* Unless a lock ran out one worker at a time fetches an account; the wait   *)
(* that is called for is in Redis, or its worker is about to write it; and   *)
(* between the look at the backoff and the call nothing calls for a wait.    *)
OneFetch == \A a \in Accounts \ overrun : \A v, w \in AtWork(a) : v = w
WaitNoted == \A a \in Accounts \ overrun :
    \/ asked[a] <= backoff[a] /\ \A w \in AtWork(a) : pc[w] # "wait"
    \/ \E w \in AtWork(a) : pc[w] = "wait" /\ asked[a] <= Awaited(w)
NoWaitAtStart == \A w \in Workers : pc[w] = "start" => asked[It(w)] = 0 \/ It(w) \in overrun
WaitInv == OneFetch /\ WaitNoted /\ NoWaitAtStart

(* A worker that is to begin a fetch has yet to reload an edit only within a *)
(* poll interval of it.                                                      *)
Swept == {"sweep", "push", "fetch", "popped", "locking", "gate", "start"}
ReloadNears == \A w \in Workers :
    /\ reg[w] # file /\ timer[w] < Poll => edited <= timer[w]
    /\ reg[w] # file /\ pc[w] \in Swept => edited <= Poll
AwakeAtStart == \A w \in Workers : pc[w] = "start" => ~ Quiet(reg[w], hour)

(* What a second look found still holds, or others were crowded out.         *)
LookHolds == \A g \in Actors : pc[g] = "insert" => my[g].crowded \/ my[g].found = Taken(g)

SafetyInv == WaitInv /\ ReloadNears /\ AwakeAtStart /\ LookHolds

-----------------------------------------------------------------------------
(* The numbers of the configuration, and the arithmetic of the waits.        *)
LEMMA Numbers ==
    /\ Poll \in Nat /\ Interval \in Nat /\ Jitter \in Nat /\ BackoffBase \in Nat
    /\ BackoffMax \in Nat /\ RetryAfter \in Nat /\ MaxActions \in Nat
    /\ LockTTL \in Nat \ {0} /\ PauseAfterFailures \in Nat /\ Hours \in Nat \ {0}
    /\ None \notin Items /\ None \notin Workers
BY FetchAssumption

LEMMA PowerOfTwo == ASSUME NEW n \in Nat PROVE 2 ^ n \in Nat
<1>1. IsFiniteSet(1 .. n) /\ Cardinality(1 .. n) = n
  BY FS_Interval
<1>2. IsFiniteSet(SUBSET (1 .. n)) /\ Cardinality(SUBSET (1 .. n)) = 2 ^ n
  BY <1>1, FS_SUBSET
<1> QED BY <1>2, FS_CardinalityType

LEMMA BackoffType == \A s \in 0 .. PauseAfterFailures : Backoff(s) \in Wait
<1>1. SUFFICES ASSUME NEW s \in 0 .. PauseAfterFailures PROVE Backoff(s) \in Wait
  OBVIOUS
<1>2. 2 ^ Largest(s - 1, 0) \in Nat
  BY PowerOfTwo, Numbers DEF Largest
<1>3. \A b, p \in Nat : b * p \in Nat
  OBVIOUS
<1>4. BackoffBase * 2 ^ Largest(s - 1, 0) \in Nat
  BY <1>2, <1>3, Numbers
<1> QED BY <1>4, Numbers DEF Backoff, Wait, Largest, Smallest

LEMMA CountedType ==
    \A s \in 0 .. PauseAfterFailures : Counted(s) \in 0 .. PauseAfterFailures
BY Numbers DEF Counted, Smallest

(* The sweep's list of accounts.                                             *)
LEMMA SetToSeqType ==
    ASSUME NEW S \in SUBSET Accounts PROVE SetToSeq(S) \in Seq(S)
<1>1. IsFiniteSet(S) /\ Cardinality(S) \in Nat
  BY FetchAssumption, FS_Subset, FS_CardinalityType DEF Accounts
<1>2. PICK f : f \in Bijection(1 .. Cardinality(S), S)
  BY <1>1, FS_CardinalityType DEF ExistsBijection
<1>3. f \in [1 .. Cardinality(S) -> S] /\ IsInjective(f)
  BY <1>2 DEF Bijection, Injection
<1>4. SetToSeq(S) \in [1 .. Cardinality(S) -> S]
  BY <1>3 DEF SetToSeq
<1>5. Seq(S) = UNION {[1 .. n -> S] : n \in Nat}
  BY SeqDef
<1> QED BY <1>1, <1>4, <1>5

(* Where an actor goes, and with what in hand; the others stay.              *)
Carrying == Fetching \union {"push", "popped", "locking", "acting", "validating"}
Moves(g, p, m) == pc' = [pc EXCEPT ![g] = p] /\ my' = [my EXCEPT ![g] = m]

LEMMA MovesType ==
    ASSUME ActorsOK, NEW g \in Actors, NEW p \in Places, NEW m \in Local, Moves(g, p, m),
           p \in Carrying => m.account # None
    PROVE  /\ ActorsOK' /\ pc'[g] = p /\ my'[g] = m
           /\ \A x \in Actors \ {g} : pc'[x] = pc[x] /\ my'[x] = my[x]
BY DEF ActorsOK, Moves, Carrying, It

LEMMA RestType == AtRest \in Local /\ AtRest.account = None
BY Numbers DEF Local, AtRest

LEMMA LocalType ==
    ASSUME NEW m \in Local
    PROVE  /\ m.account \in Accounts \union {None} /\ m.todo \in Seq(Accounts)
           /\ m.out \in Outcomes \union {None} /\ m.streak \in 0 .. PauseAfterFailures
           /\ \A a \in Accounts \union {None} : [m EXCEPT !.account = a] \in Local
           /\ \A t \in Seq(Accounts) : [m EXCEPT !.todo = t] \in Local
           /\ \A t \in Seq(Accounts), a \in Accounts \union {None} :
                 [m EXCEPT !.todo = t, !.account = a] \in Local
           /\ \A o \in Outcomes \union {None} : [m EXCEPT !.out = o] \in Local
           /\ \A s \in 0 .. PauseAfterFailures : [m EXCEPT !.streak = s] \in Local
           /\ \A b, c \in BOOLEAN : [m EXCEPT !.found = b, !.crowded = c] \in Local
BY DEF Local

(* An actor that keeps what it has in hand, or drops it.                     *)
LEMMA StaysOrRests ==
    ASSUME ActorsOK, NEW g \in Actors, NEW p \in Places
    PROVE  /\ my[g] \in Local /\ pc[g] \in Places
           /\ Goes(g, p) /\ UNCHANGED my => Moves(g, p, my[g])
           /\ Rests(g, p) => Moves(g, p, AtRest)
BY DEF ActorsOK, Goes, Rests, Moves

LEMMA Carries ==
    ASSUME ActorsOK, NEW g \in Actors, pc[g] \in Carrying
    PROVE  my[g] \in Local /\ my[g].account = It(g) /\ It(g) \in Accounts /\ It(g) # None
<1>1. my[g] \in Local /\ It(g) # None
  BY DEF ActorsOK, Carrying
<1> QED BY <1>1, LocalType DEF It

(* The end of a fetch or of a handler's method.                              *)
LEMMA DoneType ==
    ASSUME ActorsOK, NEW g \in Actors, pc[g] \in Carrying, Done(g)
    PROVE  \E m \in Local : /\ Moves(g, IF g \in Workers THEN "release" ELSE "idle", m)
                            /\ g \in Workers => m.account = It(g)
<1> DEFINE m == IF g \in Workers THEN [AtRest EXCEPT !.account = It(g)] ELSE AtRest
<1>1. m \in Local
  BY Carries, RestType, LocalType
<1>2. g \in Workers => m.account = It(g)
  BY DEF AtRest
<1> QED BY <1>1, <1>2 DEF Done, Goes, Moves

LEMMA WorkersAct == Workers \subseteq Actors /\ Handlers \subseteq Actors
BY DEF Actors

LEMMA SweepType ==
    ASSUME TypeOK, NEW w \in Workers, SweepBegins(w) \/ SweepEnqueues(w) \/ SweepPushes(w)
    PROVE  TypeOK'
<1>0. w \in Actors /\ my[w] \in Local
  BY WorkersAct DEF TypeOK, ActorsOK
<1>1. CASE SweepBegins(w)
  <2> DEFINE m == [my[w] EXCEPT !.todo = SetToSeq({a \in Accounts : Due(a, file)})]
  <2>1. m \in Local
    <3>1. SetToSeq({a \in Accounts : Due(a, file)}) \in Seq(Accounts)
      BY SetToSeqType, SeqMonotonic
    <3> QED BY <1>0, <3>1, LocalType
  <2>2. Moves(w, "sweep", m)
    BY <1>1, <1>0 DEF SweepBegins, Goes, Moves, TypeOK, ActorsOK
  <2>3. ActorsOK'
    BY <1>0, <2>1, <2>2, MovesType DEF TypeOK, Places, Carrying, Fetching, Snapping
  <2>4. ClockOK'
    BY <1>1, Numbers DEF SweepBegins, TypeOK, ClockOK
  <2> QED BY <1>1, <2>3, <2>4
    DEF SweepBegins, TypeOK, WaitsOK, QueueTypeOK, redis, queueVars, history, clock
<1>2. CASE SweepEnqueues(w)
  <2> DEFINE a == Head(my[w].todo)
             t == Tail(my[w].todo)
  <2>1. a \in Accounts /\ t \in Seq(Accounts)
    BY <1>0, <1>2, LocalType, HeadTailProperties DEF SweepEnqueues
  <2>2. [my[w] EXCEPT !.todo = t, !.account = a] \in Local /\ [my[w] EXCEPT !.todo = t] \in Local
    BY <2>1, <1>0, LocalType
  <2>3. CASE SaddNew(a) /\ Goes(w, "push") /\ my' = [my EXCEPT ![w].todo = t, ![w].account = a]
    <3> DEFINE m == [my[w] EXCEPT !.todo = t, !.account = a]
    <3>1. m.account = a
      BY <1>0 DEF Local
    <3>2. my \in [Actors -> Local]
      BY DEF TypeOK, ActorsOK
    <3>3. my' = [my EXCEPT ![w] = m]
      BY <2>3, <1>0, <3>2, Zenon
    <3>4. Moves(w, "push", m)
      BY <2>3, <3>3 DEF Goes, Moves
    <3>5. ActorsOK'
      BY <1>0, <2>1, <2>2, <3>1, <3>4, MovesType, Numbers DEF TypeOK, Places, Accounts
    <3> QED BY <1>2, <2>1, <2>3, <3>5
      DEF SaddNew, SweepEnqueues, TypeOK, WaitsOK, QueueTypeOK, clock, history, ClockOK, Accounts
  <2>4. CASE SaddRefused(a) /\ UNCHANGED pc /\ my' = [my EXCEPT ![w].todo = t]
    <3> DEFINE m == [my[w] EXCEPT !.todo = t]
    <3>1. Moves(w, "sweep", m)
      BY <2>4, <1>2, <1>0 DEF SweepEnqueues, Moves, TypeOK, ActorsOK
    <3>2. ActorsOK'
      BY <1>0, <2>2, <3>1, MovesType DEF TypeOK, Places, Carrying, Fetching, Snapping
    <3> QED BY <1>2, <2>4, <3>2
      DEF SaddRefused, queueVars, SweepEnqueues, TypeOK, WaitsOK, QueueTypeOK, clock, history, ClockOK
  <2> QED BY <1>2, <2>3, <2>4 DEF SweepEnqueues
<1>3. CASE SweepPushes(w)
  <2> DEFINE m == [my[w] EXCEPT !.account = None]
  <2>1. m \in Local /\ It(w) \in Accounts
    BY <1>0, <1>3, LocalType, Carries DEF SweepPushes, Carrying, TypeOK
  <2>2. Moves(w, "sweep", m)
    BY <1>3, <1>0 DEF SweepPushes, Goes, Moves, TypeOK, ActorsOK
  <2>3. ActorsOK'
    BY <1>0, <2>1, <2>2, MovesType DEF TypeOK, Places, Carrying, Fetching, Snapping
  <2>4. QueueTypeOK'
    BY <1>3, <2>1, AppendProperties DEF SweepPushes, Rpush, TypeOK, QueueTypeOK, Accounts
  <2> QED BY <1>3, <2>3, <2>4 DEF SweepPushes, TypeOK, WaitsOK, clock, history, ClockOK
<1> QED BY <1>1, <1>2, <1>3

(* What taking and letting go of a lock leaves.                              *)
LEMMA LockType ==
    ASSUME WaitsOK, NEW w \in Workers, NEW a \in Accounts, Acquires(w, a) \/ Releases(w, a)
    PROVE  lock' \in [Accounts -> Lock]
BY Numbers DEF WaitsOK, Acquires, Releases, Lock, Free

LEMMA ActionType ==
    ASSUME TypeOK, NEW w \in Workers,
           \/ ActionBegins(w) \/ ActionRequeued(w) \/ ActionEnds(w) \/ ActionDropped(w)
           \/ NoActions(w)
    PROVE  TypeOK'
<1>0. w \in Actors /\ my[w] \in Local /\ ActorsOK /\ WaitsOK
  BY WorkersAct DEF TypeOK, ActorsOK
<1>1. /\ Len(actions) \in Nat /\ MaxActions \in Nat
      /\ actions # <<>> =>
           /\ Head(actions) \in Accounts /\ Tail(actions) \in Seq(Accounts)
           /\ Len(Tail(actions)) = Len(actions) - 1
           /\ Append(Tail(actions), Head(actions)) \in Seq(Accounts)
           /\ Len(Append(Tail(actions), Head(actions))) = Len(actions)
  BY Numbers, HeadTailProperties, AppendProperties, LenProperties DEF TypeOK
<1>2. \A p \in {"idle", "fetch"} : Rests(w, p) => ActorsOK'
  BY <1>0, StaysOrRests, RestType, MovesType DEF Places, Carrying, Fetching, Snapping
<1>3. CASE ActionBegins(w)
  <2> DEFINE m == [AtRest EXCEPT !.account = Head(actions)]
  <2>1. m \in Local /\ m.account = Head(actions) /\ Head(actions) # None
    BY <1>1, <1>3, RestType, LocalType, Numbers DEF ActionBegins, AtRest, Accounts
  <2>2. ActorsOK'
    BY <1>0, <1>3, <2>1, MovesType DEF ActionBegins, Goes, Moves, Places
  <2>3. lock' \in [Accounts -> Lock]
    BY <1>0, <1>1, <1>3, LockType DEF ActionBegins
  <2> QED BY <1>0, <1>1, <1>3, <2>2, <2>3
    DEF ActionBegins, TypeOK, ClockOK, WaitsOK, QueueTypeOK, clock, queueVars, history
<1>4. CASE ActionRequeued(w)
  BY <1>1, <1>2, <1>4
    DEF ActionRequeued, TypeOK, ClockOK, WaitsOK, QueueTypeOK, clock, queueVars, history
<1>5. CASE ActionEnds(w)
  <2>1. lock' \in [Accounts -> Lock]
    BY <1>0, <1>5, LockType, Carries DEF ActionEnds, Carrying
  <2> QED BY <1>0, <1>2, <1>5, <2>1
    DEF ActionEnds, TypeOK, ClockOK, WaitsOK, QueueTypeOK, clock, queueVars, history
<1>6. CASE ActionDropped(w)
  BY <1>1, <1>2, <1>6
    DEF ActionDropped, TypeOK, ClockOK, WaitsOK, QueueTypeOK, clock, queueVars, history
<1>7. CASE NoActions(w)
  BY <1>2, <1>7
    DEF NoActions, TypeOK, ClockOK, WaitsOK, QueueTypeOK, clock, redis, queueVars, history
<1> QED BY <1>3, <1>4, <1>5, <1>6, <1>7

LEMMA QueueType ==
    ASSUME TypeOK, NEW w \in Workers,
           FetchPops(w) \/ NoFetches(w) \/ FetchDequeues(w) \/ FetchLocks(w) \/ FetchLocked(w)
    PROVE  TypeOK'
<1>0. w \in Actors /\ my[w] \in Local /\ ActorsOK /\ WaitsOK /\ QueueTypeOK
  BY WorkersAct DEF TypeOK, ActorsOK
<1>1. Rests(w, "idle") => ActorsOK'
  BY <1>0, StaysOrRests, RestType, MovesType DEF Places, Carrying, Fetching, Snapping
<1>2. CASE FetchPops(w)
  <2>1. PICK a \in Accounts : Blpop(a) /\ my' = [my EXCEPT ![w].account = a]
    BY <1>2 DEF FetchPops
  <2> DEFINE m == [my[w] EXCEPT !.account = a]
  <2>2. m \in Local /\ m.account = a /\ a # None
    <3>1. m \in Local /\ a # None
      BY <1>0, LocalType, Numbers DEF Accounts
    <3> QED BY <1>0, <3>1 DEF Local
  <2>3. ActorsOK'
    BY <1>0, <1>2, <2>1, <2>2, MovesType DEF FetchPops, Goes, Moves, Places, ActorsOK
  <2>4. QueueTypeOK'
    BY <1>0, <2>1, HeadTailProperties DEF Blpop, QueueTypeOK
  <2> QED BY <1>2, <2>3, <2>4 DEF FetchPops, TypeOK, ClockOK, WaitsOK, clock, history
<1>3. CASE NoFetches(w)
  BY <1>1, <1>3
    DEF NoFetches, TypeOK, ClockOK, WaitsOK, QueueTypeOK, clock, redis, queueVars, history
<1>4. CASE FetchLocks(w)
  <2>1. It(w) \in Accounts /\ my[w].account # None
    BY <1>0, <1>4, Carries DEF FetchLocks, Carrying
  <2>2. lock' \in [Accounts -> Lock]
    BY <1>0, <1>4, <2>1, LockType DEF FetchLocks
  <2>3. ActorsOK'
    BY <1>0, <1>4, <2>1, StaysOrRests, MovesType DEF FetchLocks, Places, Fetching
  <2> QED BY <1>0, <1>4, <2>1, <2>2, <2>3
    DEF FetchLocks, TypeOK, ClockOK, WaitsOK, QueueTypeOK, clock, queueVars
<1>5. CASE FetchLocked(w)
  BY <1>1, <1>5
    DEF FetchLocked, TypeOK, ClockOK, WaitsOK, QueueTypeOK, clock, queueVars, history
<1>6. CASE FetchDequeues(w)
  <2>1. my[w].account # None
    BY <1>0, <1>6, Carries DEF FetchDequeues, Carrying
  <2>2. ActorsOK'
    BY <1>0, <1>6, <2>1, StaysOrRests, MovesType DEF FetchDequeues, Places
  <2> QED BY <1>0, <1>6, <2>2
    DEF FetchDequeues, Srem, TypeOK, ClockOK, WaitsOK, QueueTypeOK, clock, history
<1> QED BY <1>2, <1>3, <1>4, <1>5, <1>6

LEMMA CallType ==
    ASSUME TypeOK, NEW w \in Workers,
           FetchGate(w) \/ FetchStarts(w) \/ FetchEnds(w) \/ Release(w)
    PROVE  TypeOK'
<1>0. w \in Actors /\ my[w] \in Local /\ ActorsOK /\ WaitsOK
  BY WorkersAct DEF TypeOK, ActorsOK
<1>1. pc[w] \in Carrying /\ It(w) \in Accounts /\ my[w].account # None
  BY <1>0, Carries DEF Carrying, Fetching, FetchGate, FetchStarts, FetchEnds, Release
<1>2. \A p \in {"start", "calling", "release"} : Goes(w, p) /\ UNCHANGED my => ActorsOK'
  BY <1>0, <1>1, StaysOrRests, MovesType DEF Places, Fetching
<1>3. CASE FetchGate(w)
  BY <1>2, <1>3 DEF FetchGate, TypeOK, ClockOK, WaitsOK, QueueTypeOK, clock, redis, queueVars,
     history
<1>4. CASE FetchStarts(w)
  BY <1>2, <1>4 DEF FetchStarts, TypeOK, ClockOK, WaitsOK, QueueTypeOK, clock, redis, queueVars,
     history
<1>5. CASE FetchEnds(w)
  <2>1. PICK o \in Outcomes : my' = [my EXCEPT ![w].out = o]
    BY <1>5 DEF FetchEnds
  <2> DEFINE m == [my[w] EXCEPT !.out = o]
  <2>2. m \in Local
    BY <1>0, LocalType
  <2>3. m.account = It(w)
    BY <1>0 DEF Local, It
  <2>4. Moves(w, "mark", m)
    BY <1>0, <1>5, <2>1 DEF FetchEnds, Goes, Moves, ActorsOK
  <2>5. ActorsOK'
    BY <1>0, <1>1, <2>2, <2>3, <2>4, MovesType DEF Places, Fetching, It
  <2> QED BY <1>5, <2>5
    DEF FetchEnds, TypeOK, ClockOK, WaitsOK, QueueTypeOK, clock, redis, queueVars, history
<1>6. CASE Release(w)
  <2>1. lock' \in [Accounts -> Lock]
    BY <1>0, <1>1, <1>6, LockType DEF Release
  <2>2. ActorsOK'
    BY <1>0, <1>6, StaysOrRests, RestType, MovesType DEF Release, Places, Carrying, Fetching,
       Snapping
  <2> QED BY <1>0, <1>6, <2>1, <2>2
    DEF Release, TypeOK, ClockOK, WaitsOK, QueueTypeOK, clock, queueVars, history
<1> QED BY <1>3, <1>4, <1>5, <1>6

(* The wait that a failure calls for.                                        *)
LEMMA WaitType ==
    0 \in Wait /\ RetryAfter \in Wait /\ (\A s \in 0 .. PauseAfterFailures : Backoff(s) \in Wait)
BY BackoffType, Numbers DEF Wait, Largest

LEMMA MarkType ==
    ASSUME TypeOK, NEW w \in Workers, MarkSuccess(w) \/ MarkFailure(w) \/ SetsBackoff(w)
    PROVE  TypeOK'
<1>0. w \in Actors /\ my[w] \in Local /\ ActorsOK /\ WaitsOK
  BY WorkersAct DEF TypeOK, ActorsOK
<1>1. pc[w] \in Carrying /\ It(w) \in Accounts /\ my[w].account = It(w) /\ It(w) # None
  BY <1>0, Carries DEF Carrying, Fetching, MarkSuccess, MarkFailure, SetsBackoff
<1>2. /\ row[It(w)] \in Row /\ row[It(w)].status \in {"enabled", "paused"}
      /\ row[It(w)].streak \in 0 .. PauseAfterFailures
      /\ Interval .. Interval + Jitter \subseteq 0 .. Interval + Jitter
  BY <1>0, <1>1, Numbers DEF WaitsOK, Row
<1>3. CASE MarkSuccess(w)
  <2>1. ActorsOK'
    BY <1>0, <1>1, <1>3, StaysOrRests, MovesType DEF MarkSuccess, Places, Fetching, Snapping
  <2>2. row' \in [Accounts -> Row]
    BY <1>0, <1>1, <1>2, <1>3, Numbers DEF MarkSuccess, WaitsOK, Row
  <2> QED BY <1>0, <1>3, <2>1, <2>2
    DEF MarkSuccess, TypeOK, ClockOK, WaitsOK, QueueTypeOK, clock, redis, queueVars, history
<1>4. CASE MarkFailure(w)
  <2> DEFINE s == Counted(row[It(w)].streak)
             m == [my[w] EXCEPT !.streak = s]
  <2>1. s \in 0 .. PauseAfterFailures
    BY <1>2, CountedType
  <2>2. m \in Local
    BY <1>0, <2>1, LocalType
  <2>3. m.account = It(w)
    BY <1>0 DEF Local, It
  <2>4. Moves(w, "wait", m)
    BY <1>0, <1>4 DEF MarkFailure, Goes, Moves, ActorsOK
  <2>5. ActorsOK'
    BY <1>0, <1>1, <2>2, <2>3, <2>4, MovesType DEF Places, Fetching
  <2>6. row' \in [Accounts -> Row]
    BY <1>0, <1>1, <1>2, <1>4, <2>1 DEF MarkFailure, WaitsOK, Row
  <2>7. asked' \in [Accounts -> Wait]
    BY <1>0, <1>1, <1>4, <2>1, WaitType DEF MarkFailure, WaitsOK
  <2> QED BY <1>0, <1>4, <2>5, <2>6, <2>7
    DEF MarkFailure, TypeOK, ClockOK, WaitsOK, QueueTypeOK, clock, redis, queueVars
<1>5. CASE SetsBackoff(w)
  <2>1. my[w].streak \in 0 .. PauseAfterFailures
    BY <1>0, LocalType
  <2>2. backoff' \in [Accounts -> Wait]
    BY <1>0, <1>1, <1>5, <2>1, WaitType DEF SetsBackoff, WaitsOK
  <2>3. ActorsOK'
    BY <1>0, <1>1, <1>5, DoneType, MovesType DEF SetsBackoff, Places, Fetching, Carrying, Snapping
  <2> QED BY <1>0, <1>5, <2>2, <2>3
    DEF SetsBackoff, TypeOK, ClockOK, WaitsOK, QueueTypeOK, clock, queueVars, history
<1> QED BY <1>3, <1>4, <1>5

LEMMA SnapshotType == ASSUME TypeOK, NEW g \in Actors, Snapshot(g) PROVE TypeOK'
<1>0. my[g] \in Local /\ ActorsOK /\ WaitsOK
  BY DEF TypeOK, ActorsOK
<1>1. pc[g] \in Carrying /\ It(g) \in Accounts /\ my[g].account = It(g) /\ It(g) # None
  BY <1>0, Carries DEF Carrying, Fetching, Snapping, Snapshot, ClearsBackoff, SnapshotLooks,
     ProfileEnds, SnapshotLooksAgain, SnapshotWrites, SnapshotRaises
<1>2. \A p \in Snapping : Goes(g, p) /\ UNCHANGED my => ActorsOK'
  BY <1>0, <1>1, StaysOrRests, MovesType DEF Places, Fetching
<1>3. Done(g) => ActorsOK'
  <2>1. SUFFICES ASSUME Done(g) PROVE ActorsOK'
    OBVIOUS
  <2>2. PICK m \in Local : Moves(g, IF g \in Workers THEN "release" ELSE "idle", m)
                        /\ (g \in Workers => m.account = It(g))
    BY <1>0, <1>1, <2>1, DoneType
  <2> QED BY <1>0, <1>1, <2>2, MovesType DEF Places, Fetching, Carrying, Snapping
<1>4. CASE ClearsBackoff(g)
  <2>1. backoff' \in [Accounts -> Wait] /\ asked' \in [Accounts -> Wait]
    BY <1>0, <1>1, <1>4, WaitType DEF ClearsBackoff, WaitsOK
  <2> QED BY <1>0, <1>2, <1>4, <2>1
    DEF ClearsBackoff, TypeOK, ClockOK, WaitsOK, QueueTypeOK, clock, queueVars, Snapping
<1>5. CASE SnapshotLooks(g)
  BY <1>2, <1>3, <1>5 DEF SnapshotLooks, Snapping,
     TypeOK, ClockOK, WaitsOK, QueueTypeOK, clock, redis, queueVars, history
<1>6. CASE ProfileEnds(g)
  BY <1>2, <1>3, <1>6 DEF ProfileEnds, Snapping,
     TypeOK, ClockOK, WaitsOK, QueueTypeOK, clock, redis, queueVars, history
<1>7. CASE SnapshotLooksAgain(g)
  <2> DEFINE m == [my[g] EXCEPT !.found = Taken(g), !.crowded = FALSE]
  <2>1. m \in Local
    <3>1. \A b, c \in BOOLEAN : [my[g] EXCEPT !.found = b, !.crowded = c] \in Local
      BY <1>0, LocalType
    <3>2. Taken(g) \in BOOLEAN /\ FALSE \in BOOLEAN
      BY DEF Taken
    <3> QED BY <3>1, <3>2, Zenon
  <2>2. m.account = It(g)
    BY <1>0 DEF Local, It
  <2>3. my' = [my EXCEPT ![g] = m]
    BY <1>0, <1>7, Zenon DEF SnapshotLooksAgain
  <2>4. ActorsOK'
    BY <1>0, <1>1, <1>7, <2>1, <2>2, <2>3, MovesType
      DEF SnapshotLooksAgain, Goes, Moves, Places, Fetching, Snapping
  <2> QED BY <1>7, <2>4
    DEF SnapshotLooksAgain, TypeOK, ClockOK, WaitsOK, QueueTypeOK, clock, redis, queueVars, history
<1>8. CASE SnapshotWrites(g)
  <2>1. \A x \in Actors : /\ [my[x] EXCEPT !.crowded = TRUE] \in Local
                          /\ [my[x] EXCEPT !.crowded = TRUE].account = It(x)
    BY <1>0 DEF ActorsOK, Local, It
  <2>2. [AtRest EXCEPT !.account = It(g)] \in Local /\ AtRest \in Local
    BY <1>1, RestType, LocalType
  <2>3. [AtRest EXCEPT !.account = It(g)].account = It(g)
    BY DEF AtRest
  <2>4. my' \in [Actors -> Local]
    BY <1>0, <1>8, <2>1, <2>2 DEF SnapshotWrites, ActorsOK
  <2>5. pc' \in [Actors -> Places]
    BY <1>0, <1>8 DEF SnapshotWrites, Goes, ActorsOK, Places, Fetching
  <2>6. ASSUME NEW x \in Actors, pc'[x] \in Carrying PROVE It(x)' # None
    <3>1. CASE x = g
      BY <1>0, <1>1, <1>8, <2>3, <2>6, <3>1
        DEF SnapshotWrites, Goes, ActorsOK, It, Carrying, Fetching, Snapping
    <3>2. CASE x # g
      <4>1. It(x)' = It(x)
        BY <1>8, <2>1, <3>2 DEF SnapshotWrites, It
      <4>2. pc[x] \in Carrying
        BY <1>0, <1>8, <2>6, <3>2 DEF SnapshotWrites, Goes, ActorsOK
      <4> QED BY <1>0, <4>1, <4>2, Carries
    <3> QED BY <3>1, <3>2
  <2>7. ActorsOK'
    BY <2>4, <2>5, <2>6 DEF ActorsOK, Carrying
  <2> QED BY <1>1, <1>8, <2>7
    DEF SnapshotWrites, TypeOK, ClockOK, WaitsOK, QueueTypeOK, clock, redis, queueVars, history
<1>9. CASE SnapshotRaises(g)
  <2> DEFINE m == [my[g] EXCEPT !.out = "transient"]
  <2>1. m \in Local
    BY <1>0, LocalType DEF Outcomes
  <2>2. m.account = It(g)
    BY <1>0 DEF Local, It
  <2>3. g \in Workers => Moves(g, "mark", m)
    BY <1>0, <1>9 DEF SnapshotRaises, Goes, Moves, ActorsOK
  <2>4. g \notin Workers => Moves(g, "idle", AtRest)
    BY <1>9 DEF SnapshotRaises, Rests, Goes, Moves
  <2>5. ActorsOK'
    BY <1>0, <1>1, <2>1, <2>2, <2>3, <2>4, RestType, MovesType
      DEF Places, Carrying, Fetching, Snapping
  <2> QED BY <1>9, <2>5
    DEF SnapshotRaises, TypeOK, ClockOK, WaitsOK, QueueTypeOK, clock, redis, queueVars, history
<1> QED BY <1>4, <1>5, <1>6, <1>7, <1>8, <1>9 DEF Snapshot

LEMMA HandlerType ==
    ASSUME TypeOK, NEW h \in Handlers,
           ValidateBegins(h) \/ ValidateSucceeds(h) \/ ValidateFails(h) \/ HandlerStops(h)
    PROVE  TypeOK'
<1>0. h \in Actors /\ my[h] \in Local /\ ActorsOK /\ WaitsOK
  BY WorkersAct DEF TypeOK, ActorsOK
<1>1. Rests(h, "idle") => ActorsOK'
  BY <1>0, StaysOrRests, RestType, MovesType DEF Places, Carrying, Fetching, Snapping
<1>2. CASE ValidateBegins(h)
  <2>1. PICK a \in Accounts : my' = [my EXCEPT ![h].account = a]
    BY <1>2 DEF ValidateBegins
  <2> DEFINE m == [my[h] EXCEPT !.account = a]
  <2>2. m \in Local
    BY <1>0, LocalType
  <2>3. m.account = a /\ a # None
    BY <1>0, Numbers DEF Local, Accounts
  <2>4. ActorsOK'
    BY <1>0, <1>2, <2>1, <2>2, <2>3, MovesType DEF ValidateBegins, Goes, Moves, Places, ActorsOK
  <2> QED BY <1>2, <2>4
    DEF ValidateBegins, TypeOK, ClockOK, WaitsOK, QueueTypeOK, clock, redis, queueVars, history
<1>3. CASE ValidateSucceeds(h)
  <2>1. It(h) \in Accounts /\ my[h].account # None
    BY <1>0, <1>3, Carries DEF ValidateSucceeds, Carrying
  <2>2. row' \in [Accounts -> Row]
    BY <1>0, <1>3, <2>1 DEF ValidateSucceeds, WaitsOK, Row
  <2>3. ActorsOK'
    BY <1>0, <1>3, <2>1, StaysOrRests, MovesType DEF ValidateSucceeds, Places, Fetching, Snapping
  <2> QED BY <1>0, <1>3, <2>2, <2>3
    DEF ValidateSucceeds, TypeOK, ClockOK, WaitsOK, QueueTypeOK, clock, redis, queueVars, history
<1>4. CASE ValidateFails(h)
  <2>1. row' \in [Accounts -> Row]
    BY <1>0, <1>4 DEF ValidateFails, WaitsOK, Row
  <2> QED BY <1>0, <1>1, <1>4, <2>1
    DEF ValidateFails, TypeOK, ClockOK, WaitsOK, QueueTypeOK, clock, redis, queueVars, history
<1>5. CASE HandlerStops(h)
  BY <1>1, <1>5
    DEF HandlerStops, TypeOK, ClockOK, WaitsOK, QueueTypeOK, clock, redis, queueVars, history
<1> QED BY <1>2, <1>3, <1>4, <1>5

LEMMA WorkerLifeType ==
    ASSUME TypeOK, NEW w \in Workers, WorkerStops(w) \/ WorkerRestarts(w) PROVE TypeOK'
<1>0. w \in Actors /\ my[w] \in Local /\ ActorsOK /\ WaitsOK
  BY WorkersAct DEF TypeOK, ActorsOK
<1>1. \A p \in {"idle", "dead"} : Rests(w, p) => ActorsOK'
  BY <1>0, StaysOrRests, RestType, MovesType DEF Places, Carrying, Fetching, Snapping
<1>2. CASE WorkerStops(w)
  <2>1. pc[w] \in Carrying => It(w) \in Accounts
    BY <1>0, Carries
  <2>2. stranded' \subseteq Accounts /\ asked' \in [Accounts -> Wait]
    BY <1>0, <1>2, <2>1, WaitType DEF WorkerStops, Carrying, Fetching, TypeOK, WaitsOK
  <2> QED BY <1>0, <1>1, <1>2, <2>2
    DEF WorkerStops, TypeOK, ClockOK, WaitsOK, QueueTypeOK, clock, redis, queueVars
<1>3. CASE WorkerRestarts(w)
  BY <1>1, <1>3, Numbers
    DEF WorkerRestarts, TypeOK, ClockOK, WaitsOK, QueueTypeOK, redis, queueVars, history
<1> QED BY <1>2, <1>3

LEMMA OutsideType ==
    ASSUME TypeOK, FetchNow \/ ActionArrives \/ OperatorEdits \/ OperatorSwitches
    PROVE  TypeOK'
<1>1. CASE FetchNow
  <2>1. PICK a \in Accounts : /\ pending' = pending \union {a}
                              /\ queue' = Append(queue, a) \/ UNCHANGED queue
                              /\ UNCHANGED stranded \/ stranded' = stranded \union {a}
    BY <1>1 DEF FetchNow
  <2>2. QueueTypeOK'
    BY <2>1, AppendProperties DEF TypeOK, QueueTypeOK, Accounts
  <2> QED BY <1>1, <2>1, <2>2 DEF FetchNow, TypeOK, ClockOK, WaitsOK, ActorsOK, It, clock
<1>2. CASE ActionArrives
  <2>1. actions' \in Seq(Accounts) /\ Len(actions') <= MaxActions
    BY <1>2, AppendProperties, LenProperties, Numbers DEF ActionArrives, TypeOK
  <2> QED BY <1>2, <2>1
    DEF ActionArrives, TypeOK, QueueTypeOK, ClockOK, WaitsOK, ActorsOK, It, clock, queueVars, history
<1>3. CASE OperatorEdits
  BY <1>3, Numbers DEF OperatorEdits, TypeOK, QueueTypeOK, ClockOK, WaitsOK, ActorsOK, It,
     redis, queueVars, history
<1>4. CASE OperatorSwitches
  <2>1. row' \in [Accounts -> Row]
    BY <1>4 DEF OperatorSwitches, TypeOK, WaitsOK, Row
  <2> QED BY <1>4, <2>1 DEF OperatorSwitches, TypeOK, QueueTypeOK, ClockOK, WaitsOK, ActorsOK, It,
     clock, redis, queueVars, history
<1> QED BY <1>1, <1>2, <1>3, <1>4

LEMMA TickType == ASSUME TypeOK, Tick PROVE TypeOK'
<1>0. WaitsOK /\ ClockOK
  BY DEF TypeOK
<1>1. \A n \in Wait : Down(n) \in Wait
  BY Numbers DEF Wait, Down, Largest
<1>2. backoff' \in [Accounts -> Wait] /\ asked' \in [Accounts -> Wait]
  BY <1>0, <1>1 DEF Tick, WaitsOK
<1>3. lock' \in [Accounts -> Lock]
  <2>1. ASSUME NEW a \in Accounts
        PROVE  (IF lock[a].ttl <= 1 THEN Free ELSE [lock[a] EXCEPT !.ttl = @ - 1]) \in Lock
    <3>1. lock[a] \in Lock
      BY <1>0 DEF WaitsOK
    <3>2. CASE lock[a] = Free
      BY <3>2 DEF Free, Lock
    <3>3. CASE lock[a] \in [by : Workers, ttl : 1 .. LockTTL]
      BY <3>3, Numbers DEF Lock
    <3> QED BY <3>1, <3>2, <3>3 DEF Lock
  <2> QED BY <2>1 DEF Tick
<1>4. row' \in [Accounts -> Row]
  <2>1. ASSUME NEW a \in Accounts PROVE [row[a] EXCEPT !.due = Down(@)] \in Row
    BY <1>0, Numbers DEF WaitsOK, Row, Down, Largest
  <2> QED BY <2>1 DEF Tick
<1>5. ClockOK'
  BY <1>0, Numbers DEF Tick, ClockOK, Smallest
<1> QED BY <1>2, <1>3, <1>4, <1>5 DEF Tick, TypeOK, QueueTypeOK, WaitsOK, ActorsOK, It, queueVars

LEMMA TypeStep == ASSUME TypeOK, [Next]_vars PROVE TypeOK'
<1>1. CASE UNCHANGED vars
  BY <1>1 DEF vars, clock, redis, queueVars, history,
     TypeOK, QueueTypeOK, ClockOK, WaitsOK, ActorsOK, It
<1>2. ASSUME NEW w \in Workers, WorkerStep(w) PROVE TypeOK'
  BY <1>2, WorkersAct, SweepType, ActionType, QueueType, CallType, MarkType, SnapshotType
    DEF WorkerStep
<1>3. ASSUME NEW h \in Handlers, HandlerStep(h) PROVE TypeOK'
  BY <1>3, WorkersAct, HandlerType, SnapshotType DEF HandlerStep
<1> QED BY <1>1, <1>2, <1>3, WorkerLifeType, HandlerType, OutsideType, TickType DEF Next

LEMMA InitType == Init => TypeOK
<1>1. SUFFICES ASSUME Init PROVE TypeOK
  OBVIOUS
<1>2. ActorsOK
  BY <1>1, RestType DEF Init, ActorsOK, Places, Fetching, Snapping
<1>3. ClockOK
  BY <1>1, Numbers DEF Init, ClockOK
<1>4. WaitsOK
  BY <1>1, Numbers DEF Init, WaitsOK, Wait, Largest, Row, Lock, Free
<1> QED BY <1>1, <1>2, <1>3, <1>4, Numbers DEF Init, TypeOK, QueueInit, QueueTypeOK

(* Every part of the state keeps its shape: a lock runs out in LockTTL ticks *)
(* at most, a wait is never longer than a retry-after or the longest         *)
(* backoff, and whoever is on the way has an account in hand.                *)
THEOREM TypeCorrect == Spec => []TypeOK
<1> QED BY InitType, TypeStep, PTL DEF Spec

-----------------------------------------------------------------------------
(* Everybody but g stays where they are.                                     *)
OthersStay(g) == \A x \in Actors \ {g} : pc'[x] = pc[x] /\ my'[x] = my[x]

(* A worker that looks for work holds no account, before and after.          *)
Roams(w) ==
    \/ SweepBegins(w) \/ SweepEnqueues(w) \/ SweepPushes(w)
    \/ ActionBegins(w) \/ ActionRequeued(w) \/ ActionEnds(w) \/ ActionDropped(w)
    \/ NoActions(w) \/ FetchPops(w) \/ NoFetches(w) \/ FetchDequeues(w) \/ FetchLocked(w)
    \/ WorkerRestarts(w)
LEMMA RoamsEffect ==
    ASSUME TypeOK, NEW w \in Workers, Roams(w)
    PROVE  /\ pc[w] \notin Fetching /\ pc'[w] \notin Fetching /\ OthersStay(w)
           /\ UNCHANGED <<backoff, asked, overrun, snapshots, hour, file, edited>>
<1>1. w \in Actors /\ pc \in [Actors -> Places] /\ my \in [Actors -> Local]
  BY WorkersAct DEF TypeOK, ActorsOK
<1>2. pc[w] \notin Fetching
  BY DEF Roams, Fetching, Snapping, SweepBegins, SweepEnqueues, SweepPushes, DequeuesActions,
     ActionBegins, ActionRequeued, ActionEnds, ActionDropped, NoActions, FetchPops, NoFetches,
     FetchDequeues, FetchLocked, WorkerRestarts
<1>3. pc'[w] \notin Fetching
  BY <1>1, <1>2 DEF Goes, Rests, Roams, Fetching, Snapping, SweepBegins, SweepEnqueues, SweepPushes,
     ActionBegins, ActionRequeued, ActionEnds, ActionDropped, NoActions, FetchPops, NoFetches,
     FetchDequeues, FetchLocked, WorkerRestarts
<1>4. OthersStay(w)
  BY <1>1 DEF OthersStay, Goes, Rests, Roams, SweepBegins, SweepEnqueues, SweepPushes,
     ActionBegins, ActionRequeued, ActionEnds, ActionDropped, NoActions, FetchPops, NoFetches,
     FetchDequeues, FetchLocked, WorkerRestarts
<1>5. UNCHANGED <<backoff, asked, overrun, snapshots, hour, file, edited>>
  BY DEF clock, redis, history, Roams, SweepBegins, SweepEnqueues, SweepPushes,
     ActionBegins, ActionRequeued, ActionEnds, ActionDropped, NoActions, FetchPops, NoFetches,
     FetchDequeues, FetchLocked, WorkerRestarts
<1> QED BY <1>2, <1>3, <1>4, <1>5

(* A worker that fetches, but for its steps on the waits, keeps its account. *)
Works(w) ==
    \/ FetchStarts(w) \/ FetchEnds(w) \/ MarkSuccess(w)
    \/ SnapshotLooks(w) \/ ProfileEnds(w) \/ SnapshotLooksAgain(w) \/ SnapshotRaises(w)
LEMMA WorksEffect ==
    ASSUME TypeOK, NEW w \in Workers, Works(w)
    PROVE  /\ pc[w] \in Fetching \ {"wait"} /\ pc'[w] \in Fetching \ {"wait", "start", "gate"}
           /\ It(w)' = It(w) /\ OthersStay(w)
           /\ UNCHANGED <<clock, backoff, asked, overrun, snapshots>>
<1>1. /\ w \in Actors /\ pc \in [Actors -> Places] /\ my \in [Actors -> Local]
      /\ my[w] \in Local
  BY WorkersAct DEF TypeOK, ActorsOK
<1>2. pc[w] \in Fetching \ {"wait"}
  BY DEF Works, Fetching, Snapping, FetchStarts, FetchEnds, MarkSuccess,
     SnapshotLooks, ProfileEnds, SnapshotLooksAgain, SnapshotRaises
<1>3. pc'[w] \in Fetching \ {"wait", "start", "gate"}
  BY <1>1 DEF Goes, Done, Works, Fetching, Snapping, FetchStarts, FetchEnds, MarkSuccess,
     SnapshotLooks, ProfileEnds, SnapshotLooksAgain, SnapshotRaises
<1>4. /\ \A o : [my[w] EXCEPT !.out = o].account = It(w)
      /\ [AtRest EXCEPT !.account = It(w)].account = It(w)
  BY <1>1 DEF Local, It, AtRest
<1>5. It(w)' = It(w)
  <2>1. CASE SnapshotLooksAgain(w)
    <3> DEFINE m == [my[w] EXCEPT !.found = Taken(w), !.crowded = FALSE]
    <3>1. m.account = It(w)
      BY <1>1 DEF Local, It
    <3>2. my'[w] = m
      BY <2>1, <1>1, Zenon DEF SnapshotLooksAgain
    <3> QED BY <3>1, <3>2 DEF It
  <2>2. CASE FetchStarts(w) \/ FetchEnds(w) \/ MarkSuccess(w)
    BY <1>1, <1>4, <2>2 DEF It, FetchStarts, FetchEnds, MarkSuccess
  <2>3. CASE SnapshotLooks(w) \/ ProfileEnds(w)
    BY <1>1, <1>4, <2>3 DEF It, Done, SnapshotLooks, ProfileEnds
  <2>4. CASE SnapshotRaises(w)
    BY <1>1, <1>4, <2>4 DEF It, SnapshotRaises
  <2> QED BY <2>1, <2>2, <2>3, <2>4 DEF Works
<1>6. OthersStay(w)
  BY <1>1 DEF OthersStay, Goes, Done, Works, FetchStarts, FetchEnds, MarkSuccess,
     SnapshotLooks, ProfileEnds, SnapshotLooksAgain, SnapshotRaises
<1>7. UNCHANGED <<clock, backoff, asked, overrun, snapshots>>
  BY DEF redis, history, Works, FetchStarts, FetchEnds, MarkSuccess,
     SnapshotLooks, ProfileEnds, SnapshotLooksAgain, SnapshotRaises
<1> QED BY <1>2, <1>3, <1>5, <1>6, <1>7

(* A step that touches no wait and brings nobody to "wait" or to "start"     *)
(* keeps the invariant of the waits.                                         *)
LEMMA WaitFrame ==
    ASSUME TypeOK, WaitInv, UNCHANGED <<backoff, asked, overrun>>,
           \A v \in Workers :
              \/ /\ pc'[v] = pc[v] /\ It(v)' = It(v)
                 /\ my'[v].out = my[v].out /\ my'[v].streak = my[v].streak
              \/ /\ pc[v] \in Fetching \ {"wait"} /\ pc'[v] \in Fetching \ {"wait", "start"}
                 /\ It(v)' = It(v)
              \/ pc[v] # "wait" /\ pc'[v] \notin Fetching
    PROVE  WaitInv'
<1>1. \A a \in Accounts : AtWork(a)' \subseteq AtWork(a)
  BY DEF AtWork
<1>2. OneFetch'
  BY <1>1 DEF WaitInv, OneFetch
<1>3. NoWaitAtStart'
  BY DEF WaitInv, NoWaitAtStart, Fetching
<1>4. ASSUME NEW a \in Accounts \ overrun
      PROVE  \/ (asked[a] <= backoff[a])' /\ \A w \in AtWork(a)' : pc'[w] # "wait"
             \/ \E w \in AtWork(a)' : pc'[w] = "wait" /\ (asked[a] <= Awaited(w))'
  <2>1. CASE asked[a] <= backoff[a] /\ \A w \in AtWork(a) : pc[w] # "wait"
    BY <1>1, <2>1 DEF AtWork, Fetching
  <2>2. ASSUME NEW w \in AtWork(a), pc[w] = "wait", asked[a] <= Awaited(w)
        PROVE  w \in AtWork(a)' /\ pc'[w] = "wait" /\ (asked[a] <= Awaited(w))'
    <3>1. /\ w \in Workers /\ It(w) = a /\ pc'[w] = "wait" /\ It(w)' = It(w)
          /\ my'[w].out = my[w].out /\ my'[w].streak = my[w].streak
      BY <2>2 DEF AtWork
    <3>2. Awaited(w)' = Awaited(w)
      BY <3>1 DEF Awaited, Backoff
    <3> QED BY <2>2, <3>1, <3>2 DEF AtWork, Fetching
  <2> QED BY <2>1, <2>2 DEF WaitInv, WaitNoted
<1> QED BY <1>2, <1>3, <1>4 DEF WaitInv, WaitNoted

-----------------------------------------------------------------------------
(* Taking the lock of an account that another worker still fetches puts it   *)
(* among the overrun; taking it otherwise leaves this worker alone with it.  *)
LEMMA LockWaits ==
    ASSUME TypeOK, WaitInv, NEW w \in Workers, FetchLocks(w) PROVE WaitInv'
<1>0. PICK a \in Accounts : a = It(w)
  BY WorkersAct, Carries DEF TypeOK, FetchLocks, Carrying
<1>1. /\ w \in Actors /\ pc \in [Actors -> Places] /\ my \in [Actors -> Local]
      /\ a = It(w) /\ pc[w] = "locking" /\ asked \in [Accounts -> Wait]
      /\ pc' = [pc EXCEPT ![w] = "gate"] /\ UNCHANGED <<my, backoff, asked>>
  BY <1>0, WorkersAct DEF TypeOK, ActorsOK, WaitsOK, FetchLocks, Goes
<1>2. \A v \in Workers : It(v)' = It(v) /\ Awaited(v)' = Awaited(v)
  BY <1>1 DEF It, Awaited, Backoff
<1>3. \A v \in Workers : v # w => pc'[v] = pc[v]
  BY <1>1, WorkersAct
<1>4. \A b \in Accounts \ {a} : AtWork(b)' = AtWork(b) /\ (b \in overrun <=> b \in overrun')
  BY <1>1, <1>2, <1>3 DEF AtWork, FetchLocks, Fetching
<1>5. AtWork(a)' = AtWork(a) \union {w} /\ pc'[w] = "gate"
  BY <1>1, <1>2, <1>3 DEF AtWork, Fetching
<1>6. \A b \in Accounts \ {a} : b \notin overrun' =>
        \/ (asked[b] <= backoff[b])' /\ \A v \in AtWork(b)' : pc'[v] # "wait"
        \/ \E v \in AtWork(b)' : pc'[v] = "wait" /\ (asked[b] <= Awaited(v))'
  <2>1. SUFFICES ASSUME NEW b \in Accounts \ {a}, b \notin overrun'
                 PROVE  \/ (asked[b] <= backoff[b])' /\ \A v \in AtWork(b)' : pc'[v] # "wait"
                        \/ \E v \in AtWork(b)' : pc'[v] = "wait" /\ (asked[b] <= Awaited(v))'
    OBVIOUS
  <2>2. b \in Accounts \ overrun /\ AtWork(b)' = AtWork(b)
    BY <1>4, <2>1
  <2>3. \A v \in AtWork(b) : v \in Workers /\ pc'[v] = pc[v] /\ (asked[b] <= Awaited(v))' = (asked[b] <= Awaited(v))
    BY <1>1, <1>2, <1>3 DEF AtWork, Fetching
  <2>4. (asked[b] <= backoff[b])' = (asked[b] <= backoff[b])
    BY <1>1
  <2> QED BY <2>2, <2>3, <2>4 DEF WaitInv, WaitNoted
<1>7. a \notin overrun' => /\ AtWork(a)' = {w}
                           /\ (asked[a] <= backoff[a])' /\ \A v \in AtWork(a)' : pc'[v] # "wait"
  <2>1. SUFFICES ASSUME a \notin overrun' PROVE AtWork(a)' = {w} /\ (asked[a] <= backoff[a])'
    BY <1>5
  <2>2. AtWork(a) = {}
    BY <1>0, <2>1 DEF FetchLocks
  <2>3. asked[a] = 0 \/ a \notin overrun
    BY <2>1, <2>2 DEF FetchLocks
  <2>4. backoff[a] \in Wait
    BY <1>1 DEF TypeOK, WaitsOK
  <2>5. asked[a] <= backoff[a]
    BY <1>1, <2>2, <2>3, <2>4, Numbers DEF WaitInv, WaitNoted, Wait, Largest
  <2>6. AtWork(a)' = {w}
    BY <1>5, <2>2
  <2> QED BY <1>1, <2>5, <2>6
<1>8. OneFetch'
  <2>1. SUFFICES ASSUME NEW b \in Accounts \ overrun',
                        NEW u \in AtWork(b)', NEW v \in AtWork(b)'
                 PROVE  u = v
    BY DEF OneFetch
  <2>2. CASE b = a
    BY <1>7, <2>1, <2>2
  <2>3. CASE b # a
    <3>1. b \in Accounts \ overrun /\ u \in AtWork(b) /\ v \in AtWork(b)
      BY <1>4, <2>1, <2>3
    <3> QED BY <3>1 DEF WaitInv, OneFetch
  <2> QED BY <2>2, <2>3
<1>9. NoWaitAtStart'
  <2>1. ASSUME NEW v \in Workers, pc'[v] = "start" PROVE (asked[It(v)] = 0 \/ It(v) \in overrun)'
    <3>1. pc[v] = "start" /\ v # w /\ It(v)' = It(v)
      BY <2>1, <1>1, <1>2, <1>3
    <3>2. asked[It(v)] = 0 \/ It(v) \in overrun
      BY <3>1 DEF WaitInv, NoWaitAtStart
    <3> QED BY <3>1, <3>2, <1>1 DEF FetchLocks
  <2> QED BY <2>1 DEF NoWaitAtStart
<1>10. WaitNoted'
  <2>1. SUFFICES ASSUME NEW b \in Accounts, b \notin overrun'
                 PROVE  \/ (asked[b] <= backoff[b])' /\ \A v \in AtWork(b)' : pc'[v] # "wait"
                        \/ \E v \in AtWork(b)' : pc'[v] = "wait" /\ (asked[b] <= Awaited(v))'
    BY DEF WaitNoted
  <2>2. CASE b = a
    BY <1>7, <2>1, <2>2
  <2>3. CASE b # a
    BY <1>6, <2>1, <2>3
  <2> QED BY <2>2, <2>3
<1> QED BY <1>8, <1>9, <1>10 DEF WaitInv

(* The look at the backoff: whoever goes on has nothing to wait for.         *)
LEMMA GateWaits ==
    ASSUME TypeOK, WaitInv, NEW w \in Workers, FetchGate(w) PROVE WaitInv'
<1>0. PICK a \in Accounts : a = It(w)
  BY WorkersAct, Carries DEF TypeOK, FetchGate, Carrying, Fetching
<1>1. /\ w \in Actors /\ pc \in [Actors -> Places] /\ my \in [Actors -> Local]
      /\ a = It(w) /\ pc[w] = "gate" /\ asked \in [Accounts -> Wait] /\ backoff \in [Accounts -> Wait]
      /\ UNCHANGED <<my, backoff, asked, overrun>>
  BY <1>0, WorkersAct DEF TypeOK, ActorsOK, WaitsOK, FetchGate, Goes, redis, history
<1>2. \A v \in Workers : It(v)' = It(v) /\ (v # w => pc'[v] = pc[v])
  BY <1>1, WorkersAct DEF It, FetchGate, Goes
<1>3. CASE pc'[w] = "release"
  BY <1>1, <1>2, <1>3, WaitFrame DEF Fetching
<1>4. CASE pc' = [pc EXCEPT ![w] = "start"] /\ backoff[a] = 0
  <2>1. \A b : AtWork(b)' = AtWork(b)
    BY <1>1, <1>2, <1>4 DEF AtWork, Fetching
  <2>2. w \in AtWork(a)
    BY <1>1 DEF AtWork, Fetching
  <2>3. a \notin overrun => asked[a] = 0
    <3>1. SUFFICES ASSUME a \notin overrun PROVE asked[a] = 0
      OBVIOUS
    <3>2. \A v \in AtWork(a) : pc[v] # "wait"
      BY <1>1, <2>2, <3>1 DEF WaitInv, OneFetch
    <3>3. asked[a] <= 0
      BY <1>1, <1>4, <3>1, <3>2 DEF WaitInv, WaitNoted
    <3>4. asked[a] \in Wait
      BY <1>1
    <3> QED BY <3>3, <3>4, Numbers DEF Wait, Largest
  <2>4. NoWaitAtStart'
    BY <1>1, <1>2, <2>3 DEF WaitInv, NoWaitAtStart
  <2>5. OneFetch'
    BY <1>1, <2>1 DEF WaitInv, OneFetch
  <2>6. WaitNoted'
    <3>1. \A v \in Workers : pc'[v] = "wait" <=> pc[v] = "wait"
      BY <1>1, <1>2, <1>4
    <3>2. \A v \in Workers : Awaited(v)' = Awaited(v)
      BY <1>1, <1>2 DEF Awaited, Backoff
    <3>3. \A b : \A v \in AtWork(b) : v \in Workers
      BY DEF AtWork
    <3> QED BY <1>1, <2>1, <3>1, <3>2, <3>3 DEF WaitInv, WaitNoted
  <2> QED BY <2>4, <2>5, <2>6 DEF WaitInv
<1> QED BY <1>1, <1>3, <1>4 DEF FetchGate, Goes

(* A failure calls for a wait, which its worker is about to write, ...       *)
LEMMA FailureWaits ==
    ASSUME TypeOK, WaitInv, NEW w \in Workers, MarkFailure(w) PROVE WaitInv'
<1>0. PICK a \in Accounts : a = It(w)
  BY WorkersAct, Carries DEF TypeOK, MarkFailure, Carrying, Fetching
<1>1. /\ w \in Actors /\ pc \in [Actors -> Places] /\ my \in [Actors -> Local] /\ my[w] \in Local
      /\ a = It(w) /\ pc[w] = "mark" /\ asked \in [Accounts -> Wait] /\ backoff \in [Accounts -> Wait]
      /\ pc' = [pc EXCEPT ![w] = "wait"]
      /\ my' = [my EXCEPT ![w].streak = Counted(row[a].streak)] /\ UNCHANGED <<backoff, overrun>>
  BY <1>0, WorkersAct DEF TypeOK, ActorsOK, WaitsOK, MarkFailure, Goes, redis
<1>2. \A v \in Workers \ {w} : It(v)' = It(v) /\ pc'[v] = pc[v] /\ Awaited(v)' = Awaited(v)
  BY <1>1, WorkersAct DEF It, Awaited, Backoff
<1>3. /\ my'[w].out = my[w].out /\ It(w)' = a /\ pc'[w] = "wait"
      /\ my'[w].streak = Counted(row[a].streak)
  BY <1>1 DEF It, Local
<1>4. \A b : AtWork(b)' = AtWork(b)
  BY <1>1, <1>2, <1>3 DEF AtWork, Fetching
<1>5. w \in AtWork(a) /\ \A b : \A v \in AtWork(b) : v \in Workers /\ It(v) = b
  BY <1>1 DEF AtWork, Fetching
<1>6. \A b \in Accounts \ {a} : asked'[b] = asked[b]
  BY <1>1 DEF MarkFailure
<1>7. a \notin overrun => (asked[a] <= Awaited(w))'
  <2>1. SUFFICES ASSUME a \notin overrun PROVE (asked[a] <= Awaited(w))'
    OBVIOUS
  <2>2. asked[a] <= backoff[a]
    BY <1>1, <1>5, <2>1 DEF WaitInv, WaitNoted, OneFetch
  <2>3. asked'[a] = CASE my[w].out = "throttled" -> RetryAfter
                      [] my[w].out = "transient" -> Backoff(Counted(row[a].streak))
                      [] OTHER -> asked[a]
    BY <1>1 DEF MarkFailure
  <2>4. Awaited(w)' = CASE my[w].out = "throttled" -> RetryAfter
                        [] my[w].out = "transient" -> Backoff(Counted(row[a].streak))
                        [] OTHER -> backoff[a]
    BY <1>1, <1>3 DEF Awaited, Backoff
  <2>5. asked'[a] \in Nat
    BY TypeStep, Numbers DEF TypeOK, WaitsOK, Wait, Largest, Next, WorkerStep
  <2> QED BY <2>2, <2>3, <2>4, <2>5
<1>8. OneFetch'
  BY <1>1, <1>4 DEF WaitInv, OneFetch
<1>9. NoWaitAtStart'
  <2>1. SUFFICES ASSUME NEW v \in Workers, pc'[v] = "start"
                 PROVE  (asked[It(v)] = 0 \/ It(v) \in overrun)'
    BY DEF NoWaitAtStart
  <2>2. v # w /\ pc[v] = "start" /\ It(v)' = It(v)
    BY <1>2, <1>3, <2>1
  <2>3. CASE It(v) = a
    <3>1. v \in AtWork(a)
      BY <2>2, <2>3 DEF AtWork, Fetching
    <3> QED BY <1>1, <1>5, <2>2, <2>3, <3>1 DEF WaitInv, OneFetch
  <2>4. CASE It(v) # a
    <3>1. It(v) \in Accounts
      BY <2>2, WorkersAct, Carries DEF TypeOK, Carrying, Fetching
    <3> QED BY <1>1, <1>6, <2>2, <2>4, <3>1 DEF WaitInv, NoWaitAtStart
  <2> QED BY <2>3, <2>4
<1>10. WaitNoted'
  <2>1. SUFFICES ASSUME NEW b \in Accounts, b \notin overrun
                 PROVE  \/ (asked[b] <= backoff[b])' /\ \A v \in AtWork(b)' : pc'[v] # "wait"
                        \/ \E v \in AtWork(b)' : pc'[v] = "wait" /\ (asked[b] <= Awaited(v))'
    BY <1>1 DEF WaitNoted
  <2>2. CASE b = a
    BY <1>3, <1>4, <1>5, <1>7, <2>1, <2>2
  <2>3. CASE b # a
    <3>1. \A v \in AtWork(b) : v \in Workers \ {w}
      BY <1>1, <1>5, <2>3
    <3>2. asked'[b] = asked[b] /\ backoff'[b] = backoff[b]
      BY <1>1, <1>6, <2>3
    <3> QED BY <1>2, <1>4, <2>1, <3>1, <3>2 DEF WaitInv, WaitNoted
  <2> QED BY <2>2, <2>3
<1> QED BY <1>8, <1>9, <1>10 DEF WaitInv

(* ... and writes.                                                           *)
LEMMA SetsWaits ==
    ASSUME TypeOK, WaitInv, NEW w \in Workers, SetsBackoff(w) PROVE WaitInv'
<1>0. PICK a \in Accounts : a = It(w)
  BY WorkersAct, Carries DEF TypeOK, SetsBackoff, Carrying, Fetching
<1>1. /\ w \in Actors /\ pc \in [Actors -> Places] /\ my \in [Actors -> Local] /\ my[w] \in Local
      /\ a = It(w) /\ pc[w] = "wait" /\ asked \in [Accounts -> Wait] /\ backoff \in [Accounts -> Wait]
      /\ pc' = [pc EXCEPT ![w] = "release"]
      /\ my' = [my EXCEPT ![w] = [AtRest EXCEPT !.account = a]] /\ UNCHANGED <<asked, overrun>>
  BY <1>0, WorkersAct DEF TypeOK, ActorsOK, WaitsOK, SetsBackoff, Goes, Done, history
<1>2. \A v \in Workers \ {w} : It(v)' = It(v) /\ pc'[v] = pc[v] /\ my'[v] = my[v]
  BY <1>1, WorkersAct DEF It
<1>3. It(w)' = a /\ pc'[w] = "release"
  BY <1>1 DEF It, AtRest
<1>4. \A b : AtWork(b)' = AtWork(b)
  BY <1>1, <1>2, <1>3 DEF AtWork, Fetching
<1>5. w \in AtWork(a) /\ \A b : \A v \in AtWork(b) : v \in Workers /\ It(v) = b
  BY <1>1 DEF AtWork, Fetching
<1>6. backoff'[a] = Awaited(w) /\ \A b \in Accounts \ {a} : backoff'[b] = backoff[b]
  BY <1>1 DEF SetsBackoff, Awaited
<1>7. a \notin overrun => /\ (asked[a] <= backoff[a])'
                          /\ \A v \in AtWork(a)' : pc'[v] # "wait"
  <2>1. SUFFICES ASSUME a \notin overrun
                 PROVE  /\ (asked[a] <= backoff[a])'
                        /\ \A v \in AtWork(a) : pc'[v] # "wait"
    BY <1>4
  <2>2. \A v \in AtWork(a) : v = w
    BY <1>5, <2>1 DEF WaitInv, OneFetch
  <2>3. asked[a] <= Awaited(w)
    BY <1>1, <1>5, <2>1, <2>2 DEF WaitInv, WaitNoted
  <2> QED BY <1>1, <1>3, <1>6, <2>2, <2>3
<1>8. OneFetch'
  BY <1>1, <1>4 DEF WaitInv, OneFetch
<1>9. NoWaitAtStart'
  BY <1>1, <1>2, <1>3 DEF WaitInv, NoWaitAtStart
<1>10. WaitNoted'
  <2>1. SUFFICES ASSUME NEW b \in Accounts, b \notin overrun
                 PROVE  \/ (asked[b] <= backoff[b])' /\ \A v \in AtWork(b)' : pc'[v] # "wait"
                        \/ \E v \in AtWork(b)' : pc'[v] = "wait" /\ (asked[b] <= Awaited(v))'
    BY <1>1 DEF WaitNoted
  <2>2. CASE b = a
    BY <1>7, <2>1, <2>2
  <2>3. CASE b # a
    <3>1. \A v \in AtWork(b) : v \in Workers \ {w} /\ It(v) = b
      BY <1>1, <1>5, <2>3
    <3>2. asked'[b] = asked[b] /\ backoff'[b] = backoff[b]
      BY <1>1, <1>6, <2>3
    <3>3. \A v \in AtWork(b) : Awaited(v)' = Awaited(v) /\ pc'[v] = pc[v]
      BY <1>2, <3>1, <3>2 DEF Awaited, Backoff
    <3> QED BY <1>4, <2>1, <3>2, <3>3 DEF WaitInv, WaitNoted
  <2> QED BY <2>2, <2>3
<1> QED BY <1>8, <1>9, <1>10 DEF WaitInv

(* A success takes the wait away, whoever is about to write one.             *)
LEMMA ClearsWaits ==
    ASSUME TypeOK, WaitInv, NEW g \in Actors, ClearsBackoff(g) PROVE WaitInv'
<1>0. PICK a \in Accounts : a = It(g)
  BY Carries DEF TypeOK, ClearsBackoff, Carrying, Fetching, Snapping
<1>1. /\ pc \in [Actors -> Places] /\ asked \in [Accounts -> Wait] /\ backoff \in [Accounts -> Wait]
      /\ a = It(g) /\ pc[g] = "clear" /\ pc' = [pc EXCEPT ![g] = "look"] /\ UNCHANGED <<my, overrun>>
      /\ backoff' = [backoff EXCEPT ![a] = 0] /\ asked' = [asked EXCEPT ![a] = 0]
  BY <1>0 DEF TypeOK, ActorsOK, WaitsOK, ClearsBackoff, Goes
<1>2. \A v \in Workers : It(v)' = It(v) /\ (pc'[v] = pc[v] \/ (pc[v] = "clear" /\ pc'[v] = "look"))
  BY <1>1, WorkersAct DEF It
<1>3. \A b : AtWork(b)' = AtWork(b)
  BY <1>2 DEF AtWork, Fetching, Snapping
<1>4. \A b : \A v \in AtWork(b) : v \in Workers /\ It(v) = b
  BY DEF AtWork
<1>5. OneFetch'
  BY <1>1, <1>3 DEF WaitInv, OneFetch
<1>6. NoWaitAtStart'
  <2>1. SUFFICES ASSUME NEW v \in Workers, pc'[v] = "start"
                 PROVE  (asked[It(v)] = 0 \/ It(v) \in overrun)'
    BY DEF NoWaitAtStart
  <2>2. pc[v] = "start" /\ It(v)' = It(v)
    BY <1>2, <2>1
  <2>3. It(v) \in Accounts
    BY <2>2, WorkersAct, Carries DEF TypeOK, Carrying, Fetching
  <2> QED BY <1>1, <2>2, <2>3 DEF WaitInv, NoWaitAtStart
<1>7. WaitNoted'
  <2>1. SUFFICES ASSUME NEW b \in Accounts, b \notin overrun
                 PROVE  \/ (asked[b] <= backoff[b])' /\ \A v \in AtWork(b)' : pc'[v] # "wait"
                        \/ \E v \in AtWork(b)' : pc'[v] = "wait" /\ (asked[b] <= Awaited(v))'
    BY <1>1 DEF WaitNoted
  <2>2. CASE b = a
    <3>1. asked'[b] = 0 /\ backoff'[b] = 0
      BY <1>1, <2>2
    <3>2. ASSUME NEW v \in AtWork(b), pc'[v] = "wait" PROVE 0 <= Awaited(v)'
      <4>1. v \in Actors /\ It(v)' = b /\ my'[v].streak \in 0 .. PauseAfterFailures
        BY <1>1, <1>2, <1>4, WorkersAct, LocalType DEF TypeOK, ActorsOK
      <4>2. Backoff(my'[v].streak) \in Wait /\ RetryAfter \in Wait
        BY <4>1, WaitType
      <4>3. Awaited(v)' = CASE my'[v].out = "throttled" -> RetryAfter
                            [] my'[v].out = "transient" -> Backoff(my'[v].streak)
                            [] OTHER -> 0
        BY <3>1, <4>1 DEF Awaited, Backoff
      <4> QED BY <4>2, <4>3, Numbers DEF Wait, Largest
    <3> QED BY <1>3, <3>1, <3>2
  <2>3. CASE b # a
    <3>1. asked'[b] = asked[b] /\ backoff'[b] = backoff[b]
      BY <1>1, <2>3
    <3>2. \A v \in AtWork(b) : Awaited(v)' = Awaited(v) /\ (pc'[v] = "wait" <=> pc[v] = "wait")
      BY <1>1, <1>2, <1>4, <3>1 DEF Awaited, Backoff
    <3> QED BY <1>3, <2>1, <3>1, <3>2 DEF WaitInv, WaitNoted
  <2> QED BY <2>2, <2>3
<1> QED BY <1>5, <1>6, <1>7 DEF WaitInv

(* With a worker that stops the wait it was about to write is gone.          *)
LEMMA StopWaits ==
    ASSUME TypeOK, WaitInv, NEW w \in Workers, WorkerStops(w) \/ Release(w) PROVE WaitInv'
<1>1. /\ w \in Actors /\ pc \in [Actors -> Places] /\ my \in [Actors -> Local] /\ my[w] \in Local
      /\ asked \in [Accounts -> Wait] /\ backoff \in [Accounts -> Wait]
  BY WorkersAct DEF TypeOK, ActorsOK, WaitsOK
<1>2. /\ OthersStay(w) /\ pc'[w] \notin Fetching /\ UNCHANGED <<backoff, overrun>>
      /\ asked' = IF pc[w] = "wait" THEN [asked EXCEPT ![It(w)] = 0] ELSE asked
  BY <1>1 DEF WorkerStops, Release, Rests, Goes, OthersStay, Fetching, Snapping, redis, history
<1>3. \A v \in Workers \ {w} : It(v)' = It(v) /\ pc'[v] = pc[v] /\ my'[v] = my[v]
  BY <1>2, WorkersAct DEF It, OthersStay
<1>4. CASE pc[w] # "wait"
  BY <1>2, <1>3, <1>4, WaitFrame
<1>5. CASE pc[w] = "wait"
  <2>1. PICK a \in Accounts : a = It(w)
    BY <1>1, <1>5, Carries DEF TypeOK, Carrying, Fetching
  <2>2. asked' = [asked EXCEPT ![a] = 0]
    BY <1>2, <1>5, <2>1
  <2>3. \A b : AtWork(b)' = AtWork(b) \ {w}
    BY <1>2, <1>3 DEF AtWork
  <2>4. w \in AtWork(a) /\ \A b : \A v \in AtWork(b) : v \in Workers /\ It(v) = b
    BY <1>5, <2>1 DEF AtWork, Fetching
  <2>5. OneFetch'
    BY <1>2, <2>3 DEF WaitInv, OneFetch
  <2>6. NoWaitAtStart'
    <3>1. SUFFICES ASSUME NEW v \in Workers, pc'[v] = "start"
                   PROVE  (asked[It(v)] = 0 \/ It(v) \in overrun)'
      BY DEF NoWaitAtStart
    <3>2. pc[v] = "start" /\ It(v)' = It(v)
      BY <1>2, <1>3, <3>1 DEF Fetching
    <3>3. It(v) \in Accounts
      BY <3>2, WorkersAct, Carries DEF TypeOK, Carrying, Fetching
    <3> QED BY <1>1, <1>2, <2>2, <3>2, <3>3 DEF WaitInv, NoWaitAtStart
  <2>7. WaitNoted'
    <3>1. SUFFICES ASSUME NEW b \in Accounts, b \notin overrun
                   PROVE  \/ (asked[b] <= backoff[b])' /\ \A v \in AtWork(b)' : pc'[v] # "wait"
                          \/ \E v \in AtWork(b)' : pc'[v] = "wait" /\ (asked[b] <= Awaited(v))'
      BY <1>2 DEF WaitNoted
    <3>2. CASE b = a
      <4>1. AtWork(b)' = {}
        BY <2>3, <2>4, <3>1, <3>2 DEF WaitInv, OneFetch
      <4>2. asked'[b] = 0 /\ backoff'[b] \in Wait
        BY <1>1, <1>2, <2>2, <3>2
      <4> QED BY <4>1, <4>2, Numbers DEF Wait, Largest
    <3>3. CASE b # a
      <4>1. \A v \in AtWork(b) : v \in Workers \ {w} /\ It(v) = b
        BY <2>1, <2>4, <3>3
      <4>2. asked'[b] = asked[b] /\ backoff'[b] = backoff[b]
        BY <1>1, <1>2, <2>2, <3>3
      <4>3. \A v \in AtWork(b) : Awaited(v)' = Awaited(v) /\ pc'[v] = pc[v] /\ v \in AtWork(b)'
        BY <1>3, <2>3, <4>1, <4>2 DEF Awaited, Backoff
      <4> QED BY <2>3, <3>1, <4>2, <4>3 DEF WaitInv, WaitNoted
    <3> QED BY <3>2, <3>3
  <2> QED BY <2>5, <2>6, <2>7 DEF WaitInv
<1> QED BY <1>4, <1>5

(* Time passes for a wait as it passes for the backoff.                      *)
LEMMA TickWaits == ASSUME TypeOK, WaitInv, Tick PROVE WaitInv'
<1>1. \A v \in Workers : pc[v] \notin {"wait", "start"}
  BY DEF Tick, Waits
<1>2. UNCHANGED <<pc, my, overrun>>
  BY DEF Tick
<1>3. \A b : AtWork(b)' = AtWork(b)
  BY <1>2 DEF AtWork, It
<1>4. OneFetch' /\ NoWaitAtStart'
  BY <1>1, <1>2, <1>3 DEF WaitInv, OneFetch, NoWaitAtStart
<1>5. ASSUME NEW b \in Accounts, b \notin overrun PROVE (asked[b] <= backoff[b])'
  <2>1. asked[b] \in Nat /\ backoff[b] \in Nat
    BY Numbers DEF TypeOK, WaitsOK, Wait, Largest
  <2>2. asked[b] <= backoff[b]
    BY <1>1, <1>5 DEF WaitInv, WaitNoted, AtWork
  <2> QED BY <2>1, <2>2 DEF Tick, Down, Largest
<1>6. \A b : \A v \in AtWork(b) : pc[v] # "wait"
  BY <1>1 DEF AtWork
<1> QED BY <1>2, <1>3, <1>4, <1>5, <1>6 DEF WaitInv, WaitNoted

(* A snapshot that is written crowds out those who are about to insert one.  *)
LEMMA WritesEffect ==
    ASSUME TypeOK, NEW g \in Actors, SnapshotWrites(g)
    PROVE  /\ pc[g] = "insert" /\ pc'[g] = (IF g \in Workers THEN "release" ELSE "idle")
           /\ g \in Workers => It(g)' = It(g)
           /\ \A x \in Actors \ {g} :
                /\ pc'[x] = pc[x] /\ It(x)' = It(x)
                /\ my'[x].out = my[x].out /\ my'[x].streak = my[x].streak
                /\ my'[x].found = my[x].found
                /\ my'[x].crowded = IF pc[x] = "insert" /\ It(x) = It(g) THEN TRUE ELSE my[x].crowded
           /\ UNCHANGED <<clock, backoff, asked, overrun>>
<1>1. /\ pc \in [Actors -> Places] /\ my \in [Actors -> Local] /\ pc[g] = "insert"
      /\ pc' = [pc EXCEPT ![g] = IF g \in Workers THEN "release" ELSE "idle"]
      /\ my' = [x \in Actors |->
                  IF x \in {y \in Actors \ {g} : pc[y] = "insert" /\ It(y) = It(g)}
                  THEN [my[x] EXCEPT !.crowded = TRUE]
                  ELSE IF x # g THEN my[x]
                  ELSE IF g \in Workers THEN [AtRest EXCEPT !.account = It(g)] ELSE AtRest]
  BY DEF TypeOK, ActorsOK, SnapshotWrites, Goes
<1>2. g \in Workers => It(g)' = It(g)
  <2>1. [AtRest EXCEPT !.account = It(g)].account = It(g)
    BY DEF AtRest
  <2> QED BY <1>1, <2>1 DEF It
<1>3. ASSUME NEW x \in Actors \ {g}
      PROVE  /\ pc'[x] = pc[x] /\ It(x)' = It(x)
             /\ my'[x].out = my[x].out /\ my'[x].streak = my[x].streak
             /\ my'[x].found = my[x].found
             /\ my'[x].crowded = IF pc[x] = "insert" /\ It(x) = It(g) THEN TRUE ELSE my[x].crowded
  <2>1. my[x] \in Local /\ pc'[x] = pc[x]
    BY <1>1
  <2>2. CASE pc[x] = "insert" /\ It(x) = It(g)
    BY <1>1, <2>1, <2>2 DEF Local, It
  <2>3. CASE ~ (pc[x] = "insert" /\ It(x) = It(g))
    <3>1. my'[x] = my[x]
      BY <1>1, <2>3
    <3> QED BY <2>1, <2>3, <3>1 DEF It
  <2> QED BY <2>2, <2>3
<1>4. UNCHANGED <<clock, backoff, asked, overrun>>
  BY DEF SnapshotWrites, redis, history
<1> QED BY <1>1, <1>2, <1>3, <1>4

(* What a handler does but the snapshot's write, and what the API and the    *)
(* operator do, moves no worker.                                             *)
Asks(h) ==
    \/ ValidateBegins(h) \/ ValidateSucceeds(h) \/ ValidateFails(h) \/ HandlerStops(h)
    \/ SnapshotLooks(h) \/ ProfileEnds(h) \/ SnapshotLooksAgain(h) \/ SnapshotRaises(h)
LEMMA AsksEffect ==
    ASSUME TypeOK, NEW h \in Handlers, Asks(h)
    PROVE  /\ OthersStay(h) /\ h \in Actors \ Workers
           /\ UNCHANGED <<clock, backoff, asked, overrun, snapshots>>
<1>1. /\ h \in Actors /\ pc \in [Actors -> Places] /\ my \in [Actors -> Local]
      /\ h \notin Workers
  BY WorkersAct, FetchAssumption DEF TypeOK, ActorsOK
<1>2. OthersStay(h)
  BY <1>1 DEF OthersStay, Goes, Rests, Done, Asks, ValidateBegins, ValidateSucceeds, ValidateFails,
     HandlerStops, SnapshotLooks, ProfileEnds, SnapshotLooksAgain, SnapshotRaises
<1>3. UNCHANGED <<clock, backoff, asked, overrun, snapshots>>
  BY DEF redis, history, Asks, ValidateBegins, ValidateSucceeds, ValidateFails,
     HandlerStops, SnapshotLooks, ProfileEnds, SnapshotLooksAgain, SnapshotRaises
<1> QED BY <1>1, <1>2, <1>3

Outside == FetchNow \/ ActionArrives \/ OperatorEdits \/ OperatorSwitches
LEMMA OutsideEffect ==
    ASSUME Outside
    PROVE  UNCHANGED <<hour, reg, timer, pc, my, backoff, asked, overrun, snapshots>>
BY DEF Outside, FetchNow, ActionArrives, OperatorEdits, OperatorSwitches, clock, redis, history

-----------------------------------------------------------------------------
(* The steps in the groups of the lemmas above.                              *)
LEMMA Steps ==
    ASSUME Next
    PROVE  \/ \E w \in Workers : Roams(w) \/ Works(w) \/ FetchLocks(w) \/ FetchGate(w)
                                 \/ MarkFailure(w) \/ SetsBackoff(w) \/ Release(w) \/ WorkerStops(w)
           \/ \E h \in Handlers : Asks(h)
           \/ \E g \in Actors : ClearsBackoff(g) \/ SnapshotWrites(g)
           \/ Outside \/ Tick
BY WorkersAct DEF Next, WorkerStep, HandlerStep, Snapshot, Roams, Works, Asks, Outside

LEMMA WaitStep == ASSUME TypeOK, WaitInv, [Next]_vars PROVE WaitInv'
<1>1. CASE UNCHANGED vars
  BY <1>1, WaitFrame DEF vars, redis, history, It
<1>2. ASSUME NEW w \in Workers, Roams(w) \/ Works(w) PROVE WaitInv'
  <2>1. \A v \in Workers \ {w} : It(v)' = It(v) /\ pc'[v] = pc[v] /\ my'[v] = my[v]
    BY <1>2, RoamsEffect, WorksEffect, WorkersAct DEF OthersStay, It
  <2>2. CASE Roams(w)
    BY <2>1, <2>2, RoamsEffect, WaitFrame DEF Fetching
  <2>3. CASE Works(w)
    BY <2>1, <2>3, WorksEffect, WaitFrame
  <2> QED BY <1>2, <2>2, <2>3
<1>3. ASSUME NEW h \in Handlers, Asks(h) PROVE WaitInv'
  <2>1. \A v \in Workers : It(v)' = It(v) /\ pc'[v] = pc[v] /\ my'[v] = my[v]
    BY <1>3, AsksEffect, WorkersAct DEF OthersStay, It
  <2> QED BY <1>3, <2>1, AsksEffect, WaitFrame
<1>4. ASSUME NEW g \in Actors, SnapshotWrites(g) PROVE WaitInv'
  <2>1. ASSUME NEW v \in Workers
        PROVE  \/ /\ pc'[v] = pc[v] /\ It(v)' = It(v)
                  /\ my'[v].out = my[v].out /\ my'[v].streak = my[v].streak
               \/ /\ pc[v] \in Fetching \ {"wait"} /\ pc'[v] \in Fetching \ {"wait", "start"}
                  /\ It(v)' = It(v)
    BY <1>4, WritesEffect, WorkersAct DEF Fetching, Snapping
  <2> QED BY <1>4, <2>1, WritesEffect, WaitFrame
<1>5. CASE Outside
  BY <1>5, OutsideEffect, WaitFrame DEF It
<1> QED BY <1>1, <1>2, <1>3, <1>4, <1>5, Steps, LockWaits, GateWaits, FailureWaits, SetsWaits,
           ClearsWaits, StopWaits, TickWaits

-----------------------------------------------------------------------------
(* A step that leaves the clock and brings no worker to the places on the    *)
(* way to a fetch keeps the invariants of the quiet hours.                   *)
LEMMA ClockFrame ==
    ASSUME TypeOK, ReloadNears, AwakeAtStart, UNCHANGED clock,
           \A v \in Workers :
              /\ pc'[v] \in Swept => pc[v] \in Swept \/ timer[v] < Poll
              /\ pc'[v] = "start" => pc[v] = "start" \/ ~ Quiet(reg[v], hour)
    PROVE  ReloadNears' /\ AwakeAtStart'
<1>1. edited \in Nat /\ Poll \in Nat /\ \A v \in Workers : timer[v] \in Nat
  BY Numbers DEF TypeOK, ClockOK
<1>2. ReloadNears'
  BY <1>1 DEF ReloadNears, clock
<1>3. AwakeAtStart'
  BY DEF AwakeAtStart, Quiet, clock
<1> QED BY <1>2, <1>3

LEMMA RoamsClock ==
    ASSUME TypeOK, ReloadNears, AwakeAtStart, NEW w \in Workers, Roams(w)
    PROVE  ReloadNears' /\ AwakeAtStart'
<1>1. /\ pc \in [Actors -> Places] /\ w \in Actors /\ timer \in [Workers -> 0 .. Poll]
      /\ reg \in [Workers -> QuietHours] /\ pc'[w] # "start"
      /\ \A v \in Workers \ {w} : pc'[v] = pc[v]
  BY WorkersAct, RoamsEffect DEF TypeOK, ClockOK, ActorsOK, OthersStay, Fetching
<1>2. CASE SweepBegins(w) \/ WorkerRestarts(w)
  <2>1. reg' = [reg EXCEPT ![w] = file] /\ UNCHANGED <<hour, file, edited>>
    BY <1>2, RoamsEffect DEF SweepBegins, WorkerRestarts
  <2>2. \A v \in Workers \ {w} : timer'[v] = timer[v]
    BY <1>1, <1>2 DEF SweepBegins, WorkerRestarts
  <2>3. ReloadNears'
    BY <1>1, <2>1, <2>2 DEF ReloadNears
  <2>4. AwakeAtStart'
    BY <1>1, <2>1 DEF AwakeAtStart, Quiet
  <2> QED BY <2>3, <2>4
<1>3. CASE ~ (SweepBegins(w) \/ WorkerRestarts(w))
  <2>1. UNCHANGED clock
    BY <1>3 DEF Roams, SweepEnqueues, SweepPushes, ActionBegins, ActionRequeued, ActionEnds,
       ActionDropped, NoActions, FetchPops, NoFetches, FetchDequeues, FetchLocked
  <2>2. pc'[w] \in Swept => pc[w] \in Swept \/ timer[w] < Poll
    BY <1>1, <1>3 DEF Roams, Swept, Goes, Rests, DequeuesActions, SweepEnqueues, SweepPushes,
       ActionBegins, ActionRequeued, ActionEnds, ActionDropped, NoActions, FetchPops, NoFetches,
       FetchDequeues, FetchLocked
  <2> QED BY <1>1, <2>1, <2>2, ClockFrame
<1> QED BY <1>2, <1>3

LEMMA TickClock ==
    ASSUME TypeOK, ReloadNears, AwakeAtStart, Tick PROVE ReloadNears' /\ AwakeAtStart'
<1>1. /\ edited \in Nat /\ Poll \in Nat /\ \A v \in Workers : timer[v] \in Nat
      /\ edited' = Smallest(edited + 1, Poll + 1) /\ UNCHANGED <<pc, reg, file>>
      /\ \A v \in Workers : timer'[v] = Smallest(timer[v] + 1, Poll)
  BY Numbers DEF TypeOK, ClockOK, Tick
<1>2. \A v \in Workers : pc[v] \in Swept => timer[v] < Poll
  BY DEF Tick, Waits, Swept
<1>3. \A v \in Workers : pc[v] # "start"
  BY DEF Tick, Waits
<1>4. ReloadNears'
  BY <1>1, <1>2 DEF ReloadNears, Smallest
<1> QED BY <1>1, <1>3, <1>4 DEF AwakeAtStart

LEMMA ClockStep ==
    ASSUME TypeOK, ReloadNears, AwakeAtStart, [Next]_vars PROVE ReloadNears' /\ AwakeAtStart'
<1>0. pc \in [Actors -> Places]
  BY DEF TypeOK, ActorsOK
<1>1. CASE UNCHANGED vars
  BY <1>1, ClockFrame DEF vars, clock
<1>2. ASSUME NEW w \in Workers, Works(w) PROVE ReloadNears' /\ AwakeAtStart'
  BY <1>2, WorksEffect, WorkersAct, ClockFrame DEF OthersStay, Swept, Fetching, Snapping
<1>3. ASSUME NEW w \in Workers, FetchLocks(w) \/ FetchGate(w) PROVE ReloadNears' /\ AwakeAtStart'
  BY <1>0, <1>3, WorkersAct, ClockFrame DEF FetchLocks, FetchGate, Goes, Swept
<1>4. ASSUME NEW w \in Workers, MarkFailure(w) \/ SetsBackoff(w) \/ Release(w) \/ WorkerStops(w)
      PROVE  ReloadNears' /\ AwakeAtStart'
  BY <1>0, <1>4, WorkersAct, ClockFrame
    DEF MarkFailure, SetsBackoff, Release, WorkerStops, Goes, Rests, Done, Swept
<1>5. ASSUME NEW g \in Actors, ClearsBackoff(g) \/ SnapshotWrites(g) PROVE ReloadNears' /\ AwakeAtStart'
  BY <1>0, <1>5, WorkersAct, ClockFrame DEF ClearsBackoff, SnapshotWrites, Goes, Swept
<1>6. ASSUME NEW h \in Handlers, Asks(h) PROVE ReloadNears' /\ AwakeAtStart'
  BY <1>6, AsksEffect, WorkersAct, ClockFrame DEF OthersStay
<1>7. CASE Outside
  <2>1. CASE OperatorEdits
    <3>1. edited' = 0 /\ Poll \in Nat /\ \A w \in Workers : timer[w] \in Nat
      BY <2>1, Numbers DEF OperatorEdits, TypeOK, ClockOK
    <3>2. UNCHANGED <<hour, reg, timer, pc>>
      BY <1>7, OutsideEffect
    <3>3. ReloadNears'
      BY <3>1, <3>2 DEF ReloadNears
    <3> QED BY <3>2, <3>3 DEF AwakeAtStart, Quiet
  <2>2. CASE ~ OperatorEdits
    BY <2>2, <1>7, OutsideEffect, ClockFrame
      DEF Outside, FetchNow, ActionArrives, OperatorSwitches
  <2> QED BY <2>1, <2>2
<1> QED BY <1>1, <1>2, <1>3, <1>4, <1>5, <1>6, <1>7, Steps, RoamsClock, TickClock

-----------------------------------------------------------------------------
(* The looks at the snapshot.                                                *)
LEMMA LookStep == ASSUME TypeOK, LookHolds, [Next]_vars PROVE LookHolds'
<1>0. pc \in [Actors -> Places] /\ my \in [Actors -> Local]
  BY DEF TypeOK, ActorsOK
<1>1. CASE UNCHANGED vars
  BY <1>1 DEF vars, LookHolds, Taken, It
<1>2. ASSUME NEW g \in Actors, OthersStay(g), UNCHANGED snapshots, pc'[g] # "insert"
      PROVE  LookHolds'
  BY <1>2 DEF OthersStay, LookHolds, Taken, It
<1>3. ASSUME NEW g \in Actors, SnapshotLooksAgain(g) PROVE LookHolds'
  <2> DEFINE m == [my[g] EXCEPT !.found = Taken(g), !.crowded = FALSE]
  <2>1. m.account = It(g) /\ m.found = Taken(g)
    BY <1>0 DEF Local, It
  <2>2. my' = [my EXCEPT ![g] = m]
    BY <1>0, <1>3, Zenon DEF SnapshotLooksAgain
  <2>3. UNCHANGED snapshots /\ \A x \in Actors \ {g} : pc'[x] = pc[x] /\ my'[x] = my[x]
    BY <1>0, <1>3, <2>2 DEF SnapshotLooksAgain, Goes
  <2>4. my'[g].found = Taken(g)'
    BY <1>0, <2>1, <2>2, <2>3 DEF Taken, It
  <2> QED BY <2>3, <2>4 DEF LookHolds, Taken, It
<1>4. ASSUME NEW g \in Actors, SnapshotWrites(g) PROVE LookHolds'
  <2>1. SUFFICES ASSUME NEW x \in Actors, pc'[x] = "insert"
                 PROVE  (my[x].crowded \/ my[x].found = Taken(x))'
    BY DEF LookHolds
  <2>2. x # g /\ pc[x] = "insert" /\ It(x)' = It(x) /\ my'[x].found = my[x].found
    BY <1>4, <2>1, WritesEffect
  <2>3. my'[x].crowded = IF It(x) = It(g) THEN TRUE ELSE my[x].crowded
    BY <1>4, <2>1, <2>2, WritesEffect
  <2>4. snapshots' = snapshots \union {It(g)}
    BY <1>4 DEF SnapshotWrites
  <2>5. It(x) # It(g) => Taken(x)' = Taken(x)
    BY <2>2, <2>4 DEF Taken
  <2> QED BY <2>2, <2>3, <2>5 DEF LookHolds
<1>5. ASSUME NEW w \in Workers, Works(w) \/ FetchLocks(w) \/ FetchGate(w) \/ MarkFailure(w)
                                \/ SetsBackoff(w) \/ Release(w) \/ WorkerStops(w) \/ Roams(w)
      PROVE  LookHolds'
  <2>1. CASE Roams(w)
    BY <1>2, <2>1, RoamsEffect, WorkersAct DEF Fetching, Snapping
  <2>2. CASE Works(w)
    <3>1. pc'[w] # "insert" \/ SnapshotLooksAgain(w)
      BY <1>0, <2>2, WorkersAct DEF Works, FetchStarts, FetchEnds, MarkSuccess,
         SnapshotLooks, ProfileEnds, SnapshotRaises, Goes, Done
    <3> QED BY <1>2, <1>3, <2>2, <3>1, WorksEffect, WorkersAct
  <2>3. CASE FetchLocks(w) \/ FetchGate(w) \/ MarkFailure(w) \/ SetsBackoff(w) \/ Release(w)
             \/ WorkerStops(w)
    <3>1. OthersStay(w) /\ UNCHANGED snapshots /\ pc'[w] # "insert"
      BY <1>0, <2>3, WorkersAct DEF OthersStay, FetchLocks, FetchGate, MarkFailure, SetsBackoff,
         Release, WorkerStops, Goes, Rests, Done
    <3> QED BY <1>2, <3>1, WorkersAct
  <2> QED BY <1>5, <2>1, <2>2, <2>3
<1>6. ASSUME NEW h \in Handlers, Asks(h) PROVE LookHolds'
  <2>1. pc'[h] # "insert" \/ SnapshotLooksAgain(h)
    BY <1>0, <1>6, WorkersAct DEF Asks, ValidateBegins, ValidateSucceeds, ValidateFails,
       HandlerStops,
       SnapshotLooks, ProfileEnds, SnapshotRaises, Goes, Rests, Done
  <2> QED BY <1>2, <1>3, <1>6, <2>1, AsksEffect
<1>7. ASSUME NEW g \in Actors, ClearsBackoff(g) PROVE LookHolds'
  <2>1. OthersStay(g) /\ UNCHANGED snapshots /\ pc'[g] # "insert"
    BY <1>0, <1>7 DEF OthersStay, ClearsBackoff, Goes
  <2> QED BY <1>2, <2>1
<1>8. CASE Outside
  BY <1>8, OutsideEffect DEF LookHolds, Taken, It
<1>9. CASE Tick
  <2>1. UNCHANGED <<pc, my>> /\ (hour' # 0 => UNCHANGED snapshots)
        /\ (hour' = 0 => \A g \in Actors : pc[g] # "insert")
    BY <1>9 DEF Tick
  <2> QED BY <2>1 DEF LookHolds, Taken, It
<1> QED BY <1>1, <1>3, <1>4, <1>5, <1>6, <1>7, <1>8, <1>9, Steps

-----------------------------------------------------------------------------
LEMMA SafetyInit == Init => SafetyInv
<1>1. SUFFICES ASSUME Init PROVE SafetyInv
  OBVIOUS
<1>2. \A a : AtWork(a) = {}
  BY <1>1, WorkersAct DEF Init, AtWork, Fetching, Snapping
<1>3. WaitInv
  BY <1>1, <1>2, WorkersAct DEF Init, WaitInv, OneFetch, WaitNoted, NoWaitAtStart
<1> QED BY <1>1, <1>3, WorkersAct
      DEF Init, SafetyInv, ReloadNears, AwakeAtStart, LookHolds, Swept

LEMMA SafetyHolds == Spec => [](TypeOK /\ SafetyInv)
<1>1. TypeOK /\ SafetyInv /\ [Next]_vars => (TypeOK /\ SafetyInv)'
  BY TypeStep, WaitStep, ClockStep, LookStep DEF SafetyInv
<1> QED BY <1>1, InitType, SafetyInit, PTL DEF Spec

(* No fetch starts before the wait is over that the account's last failure   *)
(* calls for, whoever queued the account and however the workers, the        *)
(* handlers and the clock interleave: the wait is in Redis by the time the   *)
(* lock of the worker that is to write it is free, unless that lock ran out. *)
THEOREM WaitHolds == Spec => WaitKept
<1>1. TypeOK /\ SafetyInv => \A w \in Workers : Starts(w) => asked[It(w)] = 0 \/ It(w) \in overrun
  BY DEF SafetyInv, WaitInv, NoWaitAtStart, Starts
<1> QED BY <1>1, SafetyHolds, PTL DEF WaitKept

(* Arithmetic on the clock.                                                  *)
LEMMA ClockModulo ==
    ASSUME NEW x \in Int
    PROVE  /\ 0 <= x /\ x < Hours => x % Hours = x
           /\ -Hours < x /\ x < 0 => x % Hours = x + Hours
BY Numbers

LEMMA ArcIsQuiet ==
    ASSUME NEW q \in QuietHours, NEW h \in 0 .. Hours - 1, InArc(q, h) PROVE Quiet(q, h)
<1>1. q # None
  BY DEF InArc
<1>2. PICK s \in 0 .. Hours - 1, e \in 0 .. Hours - 1 : q[1] = s /\ q[2] = e /\ s # e
  BY <1>1, FetchAssumption
<1>3. (h - s) % Hours < (e - s) % Hours
  BY <1>2 DEF InArc
<1>4. Hours \in Nat /\ h - s \in Int /\ e - s \in Int
  BY <1>2, Numbers
<1>5. (e - s) % Hours = IF s < e THEN e - s ELSE e - s + Hours
  BY <1>2, <1>4, ClockModulo
<1>6. (h - s) % Hours = IF h >= s THEN h - s ELSE h - s + Hours
  BY <1>2, <1>4, ClockModulo
<1>7. IF s < e THEN s <= h /\ h < e ELSE h >= s \/ h < e
  BY <1>2, <1>3, <1>4, <1>5, <1>6
<1> QED BY <1>1, <1>2, <1>7 DEF Quiet

(* No fetch starts in the quiet hours of the account file, whichever way     *)
(* round midnight they go, unless they were edited within a poll interval.   *)
THEOREM QuietHolds == Spec => QuietHoursKept
<1>1. ASSUME TypeOK, SafetyInv, NEW w \in Workers, Starts(w)
      PROVE  ~ InArc(file, hour) \/ edited <= Poll
  <2>1. file \in QuietHours /\ hour \in 0 .. Hours - 1
    BY <1>1 DEF TypeOK, ClockOK
  <2>2. reg[w] = file => ~ InArc(file, hour)
    BY <1>1, <2>1, ArcIsQuiet DEF SafetyInv, AwakeAtStart, Starts
  <2> QED BY <1>1, <2>2 DEF SafetyInv, ReloadNears, Swept, Starts
<1>2. TypeOK /\ SafetyInv =>
        \A w \in Workers : Starts(w) => ~ InArc(file, hour) \/ edited <= Poll
  BY <1>1
<1> QED BY <1>2, SafetyHolds, PTL DEF QuietHoursKept

(* A success becomes a failure only through the unique constraint, and that  *)
(* only if another actor's insert came between the look and this one.        *)
THEOREM SuccessHolds == Spec => SuccessStands
<1>1. ASSUME TypeOK, SafetyInv, [Next]_vars, NEW w \in Workers, pc[w] \in Snapping, pc'[w] = "mark"
      PROVE  my[w].crowded
  <2>0. w \in Actors /\ pc \in [Actors -> Places] /\ pc[w] \in Fetching
    BY <1>1, WorkersAct DEF TypeOK, ActorsOK, Fetching
  <2>1. SnapshotRaises(w) => my[w].crowded
    BY <1>1, <2>0 DEF SafetyInv, LookHolds, SnapshotRaises
  <2>2. ~ UNCHANGED vars /\ ~ Outside /\ ~ Tick /\ \A h \in Handlers : ~ Asks(h)
    <3>1. pc'[w] # pc[w]
      BY <1>1 DEF Snapping
    <3> QED BY <1>1, <2>0, <3>1, OutsideEffect, AsksEffect DEF vars, Tick, OthersStay
  <2>3. \A v \in Workers : ~ Roams(v) /\ (Works(v) => v = w)
    <3>1. \A v \in Workers : Works(v) \/ Roams(v) => OthersStay(v)
      BY <1>1, RoamsEffect, WorksEffect
    <3>2. pc'[w] # pc[w]
      BY <1>1 DEF Snapping
    <3>3. \A v \in Workers : Roams(v) => pc[v] \notin Fetching
      BY <1>1, RoamsEffect
    <3> QED BY <2>0, <3>1, <3>2, <3>3 DEF OthersStay
  <2>4. Works(w) => SnapshotRaises(w)
    BY <1>1, <2>0 DEF Works, FetchStarts, FetchEnds, MarkSuccess, SnapshotLooks, ProfileEnds,
       SnapshotLooksAgain, Goes, Done, Snapping
  <2>5. ASSUME NEW v \in Workers, FetchLocks(v) \/ FetchGate(v) \/ MarkFailure(v)
                                  \/ SetsBackoff(v) \/ Release(v) \/ WorkerStops(v)
        PROVE  FALSE
    BY <1>1, <2>0, <2>5, WorkersAct DEF FetchLocks, FetchGate, MarkFailure, SetsBackoff,
       Release, WorkerStops, Goes, Rests, Done, Snapping
  <2>6. ASSUME NEW g \in Actors, ClearsBackoff(g) \/ SnapshotWrites(g) PROVE FALSE
    BY <1>1, <2>0, <2>6 DEF ClearsBackoff, SnapshotWrites, Goes, Snapping
  <2> QED BY <1>1, <2>1, <2>2, <2>3, <2>4, <2>5, <2>6, Steps
<1>2. TypeOK /\ SafetyInv /\ [Next]_vars =>
        \A w \in Workers : pc[w] \in Snapping /\ pc'[w] = "mark" => my[w].crowded
  BY <1>1
<1> QED BY <1>2, SafetyHolds, PTL DEF SuccessStands, Spec
-----------------------------------------------------------------------------
(* The fetch queue.  Between its two commands a worker owns the account in   *)
(* the set: it is not in the list, and no other worker is between its two    *)
(* commands with it.                                                         *)
Owning == {"push", "popped"}
Ownership ==
    /\ Distinct(queue) /\ Queued \subseteq pending
    /\ \A w \in Workers : pc[w] \in Owning => It(w) \in pending \ Queued
    /\ \A v, w \in Workers : pc[v] \in Owning /\ pc[w] \in Owning /\ It(v) = It(w) => v = w

(* What a worker is working on, as the set of owed work has it.              *)
Hand == [w \in Workers |-> IF pc[w] \in Fetching \union {"locking"} THEN It(w) ELSE None]

(* The steps on the queue; no other step makes a worker own or hold more.    *)
OnQueue(w) == SweepEnqueues(w) \/ SweepPushes(w) \/ FetchPops(w) \/ FetchDequeues(w)
Apart ==
    /\ UNCHANGED queueVars
    /\ \A v \in Workers : pc'[v] \in Owning => pc[v] \in Owning /\ It(v)' = It(v)
    /\ \/ UNCHANGED Hand
       \/ \E w \in Workers : Hand[w] # None /\ Hand' = [Hand EXCEPT ![w] = None]

(* One worker moves: what that does to the hands.                            *)
LEMMA HandStep ==
    ASSUME TypeOK, NEW w \in Workers, OthersStay(w)
    PROVE  /\ \A v \in Workers \ {w} : pc'[v] = pc[v] /\ It(v)' = It(v)
           /\ Hand' = [Hand EXCEPT ![w] = Hand'[w]]
<1>1. \A v \in Workers \ {w} : pc'[v] = pc[v] /\ It(v)' = It(v)
  BY WorkersAct DEF OthersStay, It
<1>2. \A v \in Workers \ {w} : Hand'[v] = Hand[v]
  BY <1>1 DEF Hand
<1>3. Hand \in [Workers -> {Hand[v] : v \in Workers}] /\ Hand' = [v \in Workers |-> Hand'[v]]
  BY DEF Hand
<1> QED BY <1>1, <1>2, <1>3

(* A worker whose place before and after is apart from the queue's, and who  *)
(* holds what it held or nothing.                                            *)
LEMMA WorkerApart ==
    ASSUME TypeOK, NEW w \in Workers, OthersStay(w), UNCHANGED queueVars,
           pc'[w] \notin Owning, Hand'[w] \in {Hand[w], None}
    PROVE  Apart
<1>1. CASE Hand'[w] = Hand[w]
  <2>1. UNCHANGED Hand
    BY <1>1, HandStep DEF Hand
  <2> QED BY <2>1, HandStep DEF Apart
<1>2. CASE Hand'[w] = None /\ Hand[w] # None
  BY <1>2, HandStep DEF Apart
<1> QED BY <1>1, <1>2

LEMMA RoamsApart ==
    ASSUME TypeOK, NEW w \in Workers, Roams(w), ~ OnQueue(w) PROVE Apart
<1>1. OthersStay(w) /\ pc'[w] \notin Fetching
  BY RoamsEffect
<1>2. UNCHANGED queueVars
  BY DEF Roams, OnQueue, SweepBegins, ActionBegins, ActionRequeued, ActionEnds, ActionDropped,
     NoActions, NoFetches, FetchLocked, WorkerRestarts, redis
<1>3. pc'[w] \notin Owning \union {"locking"}
  BY WorkersAct DEF TypeOK, ActorsOK, Owning, Goes, Rests, Roams, OnQueue, SweepBegins,
     ActionBegins, ActionRequeued, ActionEnds, ActionDropped, NoActions, NoFetches, FetchLocked,
     WorkerRestarts
<1>4. Hand'[w] = None
  BY <1>1, <1>3 DEF Hand
<1> QED BY <1>1, <1>2, <1>3, <1>4, WorkerApart

LEMMA WorksApart ==
    ASSUME TypeOK, NEW w \in Workers, Works(w) \/ FetchLocks(w) \/ FetchGate(w) PROVE Apart
<1>1. CASE Works(w)
  <2>1. /\ pc[w] \in Fetching /\ pc'[w] \in Fetching /\ It(w)' = It(w) /\ OthersStay(w)
    BY <1>1, WorksEffect
  <2>2. UNCHANGED queueVars
    BY <1>1 DEF Works, FetchStarts, FetchEnds, MarkSuccess, SnapshotLooks, ProfileEnds,
       SnapshotLooksAgain, SnapshotRaises, redis
  <2>3. Hand'[w] = Hand[w] /\ pc'[w] \notin Owning
    BY <2>1 DEF Hand, Owning, Fetching, Snapping
  <2> QED BY <2>1, <2>2, <2>3, WorkerApart
<1>2. CASE FetchLocks(w) \/ FetchGate(w)
  <2>1. /\ pc[w] \in {"locking", "gate"} /\ pc'[w] \in {"gate", "start", "release"}
        /\ UNCHANGED <<my, queueVars>> /\ OthersStay(w)
    BY <1>2, WorkersAct DEF FetchLocks, FetchGate, Goes, OthersStay, TypeOK, ActorsOK, redis
  <2>2. Hand'[w] = Hand[w] /\ pc'[w] \notin Owning
    BY <2>1 DEF Hand, It, Owning, Fetching
  <2> QED BY <2>1, <2>2, WorkerApart
<1> QED BY <1>1, <1>2

LEMMA MarksApart ==
    ASSUME TypeOK, NEW w \in Workers,
           \/ MarkFailure(w) \/ SetsBackoff(w) \/ ClearsBackoff(w) \/ SnapshotWrites(w)
    PROVE  Apart
<1>1. w \in Actors /\ pc \in [Actors -> Places] /\ my \in [Actors -> Local] /\ my[w] \in Local
  BY WorkersAct DEF TypeOK, ActorsOK
<1>2. CASE SnapshotWrites(w)
  <2>1. /\ pc[w] = "insert" /\ pc'[w] = "release" /\ It(w)' = It(w)
        /\ \A x \in Workers \ {w} : pc'[x] = pc[x] /\ It(x)' = It(x)
    BY <1>1, <1>2, WritesEffect, WorkersAct
  <2>2. UNCHANGED Hand
    BY <2>1 DEF Hand, Fetching, Snapping
  <2> QED BY <1>2, <2>1, <2>2 DEF Apart, Owning, SnapshotWrites, redis
<1>3. CASE MarkFailure(w) \/ SetsBackoff(w) \/ ClearsBackoff(w)
  <2>1. /\ [AtRest EXCEPT !.account = It(w)].account = It(w)
        /\ \A s : [my[w] EXCEPT !.streak = s].account = It(w)
    BY <1>1 DEF Local, It, AtRest
  <2>2. /\ pc[w] \in Fetching /\ pc'[w] \in Fetching /\ OthersStay(w) /\ UNCHANGED queueVars
    BY <1>1, <1>3 DEF MarkFailure, SetsBackoff, ClearsBackoff, Goes, Done, OthersStay, redis,
       Fetching, Snapping
  <2>3. It(w)' = It(w)
    <3>1. CASE MarkFailure(w)
      BY <1>1, <2>1, <3>1 DEF MarkFailure, It
    <3>2. CASE SetsBackoff(w)
      BY <1>1, <2>1, <3>2 DEF SetsBackoff, Done, It
    <3>3. CASE ClearsBackoff(w)
      BY <3>3 DEF ClearsBackoff, It
    <3> QED BY <1>3, <3>1, <3>2, <3>3
  <2>4. Hand'[w] = Hand[w] /\ pc'[w] \notin Owning
    BY <2>2, <2>3 DEF Hand, Owning, Fetching, Snapping
  <2> QED BY <2>2, <2>4, WorkerApart
<1> QED BY <1>2, <1>3

LEMMA EndsApart ==
    ASSUME TypeOK, NEW w \in Workers, Release(w) \/ WorkerStops(w) PROVE Apart
<1>1. OthersStay(w) /\ UNCHANGED queueVars /\ pc'[w] \in {"idle", "dead"}
  BY WorkersAct DEF Release, WorkerStops, Rests, Goes, OthersStay, TypeOK, ActorsOK, redis
<1>2. Hand'[w] = None /\ pc'[w] \notin Owning
  BY <1>1 DEF Hand, Owning, Fetching, Snapping
<1> QED BY <1>1, <1>2, WorkerApart

LEMMA OthersApart ==
    ASSUME TypeOK,
           \/ \E h \in Handlers : Asks(h) \/ ClearsBackoff(h) \/ SnapshotWrites(h)
           \/ ActionArrives \/ OperatorEdits \/ OperatorSwitches \/ Tick \/ UNCHANGED vars
    PROVE  Apart
<1>1. UNCHANGED queueVars /\ \A v \in Workers : pc'[v] = pc[v] /\ It(v)' = It(v)
  <2>1. ASSUME NEW h \in Handlers, Asks(h) \/ ClearsBackoff(h) \/ SnapshotWrites(h)
        PROVE  UNCHANGED queueVars /\ \A v \in Workers : pc'[v] = pc[v] /\ It(v)' = It(v)
    <3>1. h \in Actors \ Workers /\ pc \in [Actors -> Places]
      BY WorkersAct, FetchAssumption DEF TypeOK, ActorsOK
    <3>2. UNCHANGED queueVars
      BY <2>1 DEF Asks, ValidateBegins, ValidateSucceeds, ValidateFails, HandlerStops,
         SnapshotLooks, ProfileEnds, SnapshotLooksAgain, SnapshotRaises, ClearsBackoff,
         SnapshotWrites, redis
    <3>3. CASE Asks(h)
      BY <3>1, <3>2, <3>3, AsksEffect, WorkersAct DEF OthersStay, It
    <3>4. CASE ClearsBackoff(h)
      BY <3>1, <3>2, <3>4, WorkersAct DEF ClearsBackoff, Goes, It
    <3>5. CASE SnapshotWrites(h)
      BY <3>1, <3>2, <3>5, WritesEffect, WorkersAct
    <3> QED BY <2>1, <3>3, <3>4, <3>5
  <2> QED BY <2>1 DEF ActionArrives, OperatorEdits, OperatorSwitches, Tick, vars, redis, It
<1>2. UNCHANGED Hand
  BY <1>1 DEF Hand
<1> QED BY <1>1, <1>2 DEF Apart

LEMMA QueueSteps ==
    ASSUME TypeOK, [Next]_vars PROVE (\E w \in Workers : OnQueue(w)) \/ FetchNow \/ Apart
<1>1. \A g \in Actors : g \in Workers \/ g \in Handlers
  BY DEF Actors
<1> QED BY <1>1, Steps, RoamsApart, WorksApart, MarksApart, EndsApart, OthersApart DEF Outside

LEMMA ApartOwns == ASSUME Ownership, Apart PROVE Ownership'
BY DEF Ownership, Apart, Queued, queueVars

(* An account that is new to the set is in nobody's hands.                   *)
LEMMA EnqueueOwns ==
    ASSUME TypeOK, Ownership, NEW w \in Workers, SweepEnqueues(w)
    PROVE  /\ Ownership' /\ UNCHANGED Hand
           /\ UNCHANGED pending \/ \E a \in Accounts : pending' = pending \union {a}
<1> DEFINE a == Head(my[w].todo)
           t == Tail(my[w].todo)
<1>1. w \in Actors /\ pc \in [Actors -> Places] /\ my \in [Actors -> Local] /\ my[w] \in Local
      /\ pc[w] = "sweep"
  BY WorkersAct DEF TypeOK, ActorsOK, SweepEnqueues
<1>2. a \in Accounts
  BY <1>1, LocalType, HeadTailProperties DEF SweepEnqueues
<1>3. OthersStay(w) /\ pc'[w] \in {"push", "sweep"}
  BY <1>1 DEF SweepEnqueues, OthersStay, Goes
<1>4. Hand'[w] = Hand[w]
  BY <1>1, <1>3 DEF Hand, Fetching, Snapping
<1>5. UNCHANGED Hand
  BY <1>3, <1>4, HandStep DEF Hand
<1>6. CASE SaddNew(a) /\ Goes(w, "push") /\ my' = [my EXCEPT ![w].todo = t, ![w].account = a]
  <2>1. It(w)' = a
    <3>1. [my[w] EXCEPT !.todo = t, !.account = a].account = a
      BY <1>1 DEF Local
    <3>2. my'[w] = [my[w] EXCEPT !.todo = t, !.account = a]
      BY <1>1, <1>6, Zenon
    <3> QED BY <3>1, <3>2 DEF It
  <2>2. a \notin pending /\ pending' = pending \union {a} /\ UNCHANGED queue
    BY <1>6 DEF SaddNew
  <2>3. \A v \in Workers : pc'[v] \in Owning =>
          \/ v = w /\ It(v)' = a
          \/ v # w /\ pc[v] \in Owning /\ It(v)' = It(v) /\ It(v) # a
    BY <1>3, <2>1, <2>2, HandStep DEF Ownership
  <2>4. Ownership'
    BY <2>2, <2>3 DEF Ownership, Queued
  <2> QED BY <1>2, <1>5, <2>2, <2>4
<1>7. CASE SaddRefused(a) /\ UNCHANGED pc
  <2>1. \A v \in Workers : pc'[v] \in Owning => pc[v] \in Owning /\ It(v)' = It(v)
    BY <1>1, <1>3, <1>7, HandStep DEF Owning
  <2> QED BY <1>5, <1>7, <2>1 DEF Ownership, SaddRefused, queueVars, Queued
<1> QED BY <1>6, <1>7 DEF SweepEnqueues

LEMMA PushOwns ==
    ASSUME TypeOK, Ownership, NEW w \in Workers, SweepPushes(w)
    PROVE  Ownership' /\ UNCHANGED <<Hand, pending>>
<1>1. /\ w \in Actors /\ pc \in [Actors -> Places] /\ my \in [Actors -> Local]
      /\ pc[w] = "push" /\ pc'[w] = "sweep" /\ OthersStay(w)
      /\ queue' = Append(queue, It(w)) /\ UNCHANGED pending
  BY WorkersAct DEF TypeOK, ActorsOK, SweepPushes, Goes, Rpush, OthersStay
<1>2. It(w) \in Accounts /\ It(w) \in pending \ Queued /\ queue \in Seq(Accounts) /\ Distinct(queue)
  BY <1>1, Carries DEF TypeOK, QueueTypeOK, Accounts, Carrying, Ownership, Owning
<1>3. Queued' = Queued \union {It(w)} /\ Distinct(queue')
  BY <1>1, <1>2, AppendQueued DEF Queued
<1>4. \A v \in Workers : pc'[v] \in Owning =>
        v # w /\ pc[v] \in Owning /\ It(v)' = It(v) /\ It(v) # It(w)
  BY <1>1, HandStep DEF Ownership, Owning
<1>5. Ownership'
  BY <1>1, <1>2, <1>3, <1>4 DEF Ownership
<1>6. Hand'[w] = Hand[w]
  BY <1>1 DEF Hand, Fetching, Snapping
<1>7. UNCHANGED Hand
  BY <1>1, <1>6, HandStep DEF Hand
<1> QED BY <1>1, <1>5, <1>7

LEMMA PopOwns ==
    ASSUME TypeOK, Ownership, NEW w \in Workers, FetchPops(w)
    PROVE  Ownership' /\ UNCHANGED <<Hand, pending>>
<1>1. PICK a \in Accounts : Blpop(a) /\ my' = [my EXCEPT ![w].account = a]
  BY DEF FetchPops
<1>2. /\ w \in Actors /\ pc \in [Actors -> Places] /\ my \in [Actors -> Local] /\ my[w] \in Local
      /\ pc[w] = "fetch" /\ pc'[w] = "popped" /\ OthersStay(w)
  BY <1>1, WorkersAct DEF TypeOK, ActorsOK, FetchPops, Goes, OthersStay
<1>3. It(w)' = a
  BY <1>1, <1>2 DEF It, Local
<1>4. /\ queue \in Seq(Accounts) /\ queue # <<>> /\ a = Head(queue) /\ queue' = Tail(queue)
      /\ UNCHANGED pending /\ Distinct(queue)
  BY <1>1 DEF TypeOK, QueueTypeOK, Accounts, Blpop, Ownership
<1>5. Queued = Queued' \union {a} /\ a \notin Queued' /\ Distinct(queue')
  BY <1>4, TailQueued DEF Queued
<1>6. \A v \in Workers : pc'[v] \in Owning =>
        \/ v = w /\ It(v)' = a
        \/ v # w /\ pc[v] \in Owning /\ It(v)' = It(v) /\ It(v) # a
  BY <1>2, <1>3, <1>5, HandStep DEF Ownership
<1>7. Ownership'
  BY <1>4, <1>5, <1>6 DEF Ownership
<1>8. Hand'[w] = Hand[w]
  BY <1>2 DEF Hand, Fetching, Snapping
<1>9. UNCHANGED Hand
  BY <1>2, <1>8, HandStep DEF Hand
<1> QED BY <1>4, <1>7, <1>9

LEMMA DequeueOwns ==
    ASSUME TypeOK, Ownership, NEW w \in Workers, FetchDequeues(w)
    PROVE  /\ Ownership' /\ It(w) \in pending /\ It(w) \in Accounts
           /\ pending' = pending \ {It(w)}
           /\ Hand[w] = None /\ Hand' = [Hand EXCEPT ![w] = It(w)]
<1>1. /\ w \in Actors /\ pc \in [Actors -> Places] /\ pc[w] = "popped" /\ pc'[w] = "locking"
      /\ UNCHANGED <<my, queue>> /\ pending' = pending \ {It(w)} /\ OthersStay(w)
  BY WorkersAct DEF TypeOK, ActorsOK, FetchDequeues, Goes, Srem, OthersStay
<1>2. It(w) \in Accounts /\ It(w) \in pending \ Queued
  BY <1>1, Carries DEF TypeOK, Carrying, Ownership, Owning
<1>3. \A v \in Workers : pc'[v] \in Owning =>
        v # w /\ pc[v] \in Owning /\ It(v)' = It(v) /\ It(v) # It(w)
  BY <1>1, HandStep DEF Ownership, Owning
<1>4. Ownership'
  BY <1>1, <1>2, <1>3 DEF Ownership, Queued
<1>5. Hand[w] = None /\ Hand'[w] = It(w)
  BY <1>1 DEF Hand, It, Fetching, Snapping
<1> QED BY <1>1, <1>2, <1>4, <1>5, HandStep

LEMMA FetchNowOwns ==
    ASSUME TypeOK, Ownership, FetchNow
    PROVE  /\ Ownership' /\ UNCHANGED Hand
           /\ \E a \in Accounts : pending' = pending \union {a}
<1>1. PICK a \in Accounts : /\ a \notin pending /\ pending' = pending \union {a}
                            /\ queue' = Append(queue, a) \/ UNCHANGED queue
  BY DEF FetchNow
<1>2. queue \in Seq(Accounts) /\ Distinct(queue) /\ a \notin Queued
  BY <1>1 DEF TypeOK, QueueTypeOK, Accounts, Ownership
<1>3. Distinct(queue') /\ Queued' \subseteq Queued \union {a}
  <2>1. Distinct(Append(queue, a)) /\ Range(Append(queue, a)) = Queued \union {a}
    BY <1>2, AppendQueued DEF Queued
  <2> QED BY <1>1, <1>2, <2>1 DEF Queued
<1>4. UNCHANGED <<pc, my>>
  BY DEF FetchNow
<1>5. \A v \in Workers : pc[v] \in Owning => It(v) # a
  BY <1>1 DEF Ownership
<1>6. Ownership'
  BY <1>1, <1>3, <1>4, <1>5 DEF Ownership, It
<1> QED BY <1>1, <1>4, <1>6 DEF Hand, It

LEMMA OwnershipStep == ASSUME TypeOK, Ownership, [Next]_vars PROVE Ownership'
BY QueueSteps, ApartOwns, EnqueueOwns, PushOwns, PopOwns, DequeueOwns, FetchNowOwns DEF OnQueue

LEMMA OwnershipHolds == Spec => [](TypeOK /\ Ownership)
<1>1. Init => Ownership
  BY EmptySeq, WorkersAct DEF Init, QueueInit, Ownership, Distinct, Queued, Range, Owning
<1>2. TypeOK /\ Ownership /\ [Next]_vars => (TypeOK /\ Ownership)'
  BY TypeStep, OwnershipStep
<1> QED BY <1>1, <1>2, InitType, PTL DEF Spec

LEMMA InitRefines == Init => AsWorkSet!Init
BY WorkersAct DEF Init, QueueInit, AsWorkSet!Init, Fetching, Snapping

LEMMA NextRefines ==
    TypeOK /\ Ownership /\ [Next]_vars => [AsWorkSet!Next]_(AsWorkSet!vars)
<1> SUFFICES ASSUME TypeOK, Ownership, [Next]_vars PROVE [AsWorkSet!Next]_(AsWorkSet!vars)
  OBVIOUS
<1>1. CASE Apart
  <2>1. UNCHANGED pending
    BY <1>1 DEF Apart, queueVars
  <2>2. CASE UNCHANGED Hand
    BY <2>1, <2>2 DEF Hand, AsWorkSet!vars
  <2>3. ASSUME NEW w \in Workers, Hand[w] # None, Hand' = [Hand EXCEPT ![w] = None]
        PROVE  AsWorkSet!Finish(w)
    BY <2>1, <2>3 DEF Hand, AsWorkSet!Finish
  <2> QED BY <1>1, <2>2, <2>3 DEF Apart, AsWorkSet!Next
<1>2. ASSUME UNCHANGED Hand, UNCHANGED pending \/ \E a \in Accounts : pending' = pending \union {a}
      PROVE  [AsWorkSet!Next]_(AsWorkSet!vars)
  BY <1>2 DEF Hand, Accounts, AsWorkSet!vars, AsWorkSet!Next, AsWorkSet!Enqueue
<1>3. ASSUME NEW w \in Workers, FetchDequeues(w) PROVE AsWorkSet!Next
  BY <1>3, DequeueOwns DEF Hand, Accounts, AsWorkSet!Next, AsWorkSet!Take
<1> QED BY <1>1, <1>2, <1>3, QueueSteps, EnqueueOwns, PushOwns, PopOwns, FetchNowOwns DEF OnQueue

(* The fetch queue is a set of owed work in the hands of the sweeps, of the  *)
(* API and of workers that stop anywhere: an enqueue takes effect at SADD, a *)
(* delivery at SREM, and the rest is work (redis.py:29-47, worker.py).       *)
THEOREM FetchImplementsWorkSet == Spec => ImplementsWorkSet
<1> QED BY InitRefines, NextRefines, OwnershipHolds, PTL
        DEF Spec, ImplementsWorkSet, AsWorkSet!Spec
=============================================================================
