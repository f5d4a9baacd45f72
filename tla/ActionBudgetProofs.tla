------------------------- MODULE ActionBudgetProofs -------------------------
(* The budget holds for every limit, interval, number of workers and bound   *)
(* of time, as long as the lock's TTL outlasts the call of its holder.       *)
EXTENDS ActionBudget, SequenceTheorems, TLAPS

PastGate == {"cooldown", "count", "mode", "calling"}

(* Who is anywhere past Acquire holds the lock, so it is alone.              *)
Mutex == \A w \in Workers : pc[w] \in Guarded => lock = w

(* What a worker has checked stays true until it records.                    *)
Checked == \A w \in Workers :
    /\ pc[w] \in Passed => used[kind[w]][Day(at[w])] < Limit[kind[w]]
    /\ pc[w] \in Passed \union {"count"} => cooldown <= at[w]

(* The cooldown is never shorter than the interval from any record.          *)
Covered == \A i \in DOMAIN records : records[i] + MinInterval <= cooldown

(* Every effect is recorded, about to be recorded, or counted as unrecorded. *)
Recording(k, d) == \E w \in Workers : pc[w] = "record" /\ kind[w] = k /\ Day(at[w]) = d
Accounted == \A k \in Kinds, d \in Days :
    effects[k][d] <= used[k][d] + unrecorded + IF Recording(k, d) THEN 1 ELSE 0

(* The one call that may still take effect is the lock holder's.             *)
InFlight == /\ since \in {0, 1}
            /\ enabled \/ (\E w \in Workers : pc[w] \in PastGate) => since = 0

Inv == TypeOK /\ Mutex /\ Checked /\ DailyLimit /\ Covered /\ Spaced /\ Accounted /\ InFlight

LEMMA DayTyped == \A t \in Times : Day(t) \in Days
  BY DEF Days

LEMMA InitInv == Init => Inv
<1> SUFFICES ASSUME Init PROVE Inv
  OBVIOUS
<1> USE BudgetAssumption
<1>1. 0 \in Times /\ Day(0) \in Days
  BY DayTyped DEF Times
<1>2. TypeOK
  BY <1>1 DEF Init, TypeOK, Modes, Places
<1> QED
  BY <1>2 DEF Init, Inv, Mutex, Guarded, Checked, Passed, DailyLimit, Covered, Spaced, Accounted,
              Recording, InFlight, PastGate

(* The counters and the history of effects are added to in the same way.     *)
LEMMA CountTyped ==
  ASSUME TypeOK, NEW w \in Workers, pc[w] # "idle", NEW f \in [Kinds -> [Days -> Nat]]
  PROVE  /\ kind[w] \in Kinds /\ at[w] \in Times /\ Day(at[w]) \in Days
         /\ Count(f, w) \in [Kinds -> [Days -> Nat]]
<1>1. kind[w] \in Kinds /\ at[w] \in Times
  BY DEF TypeOK
<1>2. Day(at[w]) \in Days
  BY <1>1, DayTyped
<1> DEFINE g == [f[kind[w]] EXCEPT ![Day(at[w])] = @ + 1]
<1>3. g \in [Days -> Nat] /\ Count(f, w) = [f EXCEPT ![kind[w]] = g]
  BY <1>1, <1>2 DEF Count
<1> QED
  BY <1>1, <1>2, <1>3

LEMMA CountAdds ==
  ASSUME TypeOK, NEW w \in Workers, pc[w] # "idle", NEW f \in [Kinds -> [Days -> Nat]],
         NEW k \in Kinds, NEW d \in Days
  PROVE  Count(f, w)[k][d] = IF k = kind[w] /\ d = Day(at[w]) THEN f[k][d] + 1 ELSE f[k][d]
  BY CountTyped DEF Count

(* Only Record touches what these three are about.                           *)
LEMMA Unrecorded ==
  Inv /\ UNCHANGED <<used, cooldown, records>> => DailyLimit' /\ Covered' /\ Spaced'
  BY DEF Inv, DailyLimit, Covered, Spaced

LEMMA StutterInv == Inv /\ UNCHANGED vars => Inv'
  BY DEF Inv, TypeOK, Mutex, Guarded, Checked, Passed, DailyLimit, Covered, Spaced, Accounted,
         Recording, InFlight, PastGate, vars, accountVars, redisVars, workerVars, historyVars

LEMMA AcquireInv == ASSUME LockMayExpire = FALSE, NEW w \in Workers, Inv, Acquire(w) PROVE Inv'
<1> USE BudgetAssumption DEF Acquire, Goto, accountVars, redisVars, workerVars, historyVars
<1>1. TypeOK'
  BY DEF Inv, TypeOK, Places, Modes
<1>2. Mutex'
  BY DEF Inv, TypeOK, Mutex, Guarded, Places
<1>3. Checked'
  BY DEF Inv, TypeOK, Mutex, Checked, Guarded, Passed, Places
<1>4. DailyLimit' /\ Covered' /\ Spaced'
  BY Unrecorded
<1>5. Accounted'
  BY DEF Inv, TypeOK, Accounted, Recording, Mutex, Guarded, Places
<1>6. InFlight'
  BY DEF Inv, TypeOK, InFlight, PastGate, Mutex, Guarded, Places
<1> QED
  BY <1>1, <1>2, <1>3, <1>4, <1>5, <1>6 DEF Inv

LEMMA GateInv == ASSUME LockMayExpire = FALSE, NEW w \in Workers, Inv, Gate(w) PROVE Inv'
<1> USE BudgetAssumption DEF Gate, Goto, accountVars, redisVars, workerVars, historyVars
<1>1. TypeOK'
  BY DEF Inv, TypeOK, Places, Modes
<1>2. Mutex'
  BY DEF Inv, TypeOK, Mutex, Guarded, Places
<1>3. Checked'
  BY DEF Inv, TypeOK, Mutex, Checked, Guarded, Passed, Places
<1>4. DailyLimit' /\ Covered' /\ Spaced'
  BY Unrecorded
<1>5. Accounted'
  BY DEF Inv, TypeOK, Accounted, Recording, Mutex, Guarded, Places
<1>6. InFlight'
  BY DEF Inv, TypeOK, InFlight, PastGate, Mutex, Guarded, Places
<1> QED
  BY <1>1, <1>2, <1>3, <1>4, <1>5, <1>6 DEF Inv

LEMMA CheckCooldownInv == ASSUME LockMayExpire = FALSE, NEW w \in Workers, Inv, CheckCooldown(w) PROVE Inv'
<1> USE BudgetAssumption DEF CheckCooldown, Goto, accountVars, redisVars, workerVars, historyVars
<1>1. TypeOK'
  BY DEF Inv, TypeOK, Places, Modes
<1>2. Mutex'
  BY DEF Inv, TypeOK, Mutex, Guarded, Places
<1>3. Checked'
  <2> SUFFICES ASSUME NEW v \in Workers
              PROVE  /\ pc'[v] \in Passed => used[kind[v]][Day(at[v])] < Limit[kind[v]]
                     /\ pc'[v] \in Passed \union {"count"} => cooldown <= at[v]
    BY DEF Checked
  <2>1. CASE v = w
    BY <2>1 DEF Inv, TypeOK, Checked, Passed, Places, Times
  <2>2. CASE v # w
    BY <2>2 DEF Inv, TypeOK, Checked, Passed, Places
  <2> QED
    BY <2>1, <2>2
<1>4. DailyLimit' /\ Covered' /\ Spaced'
  BY Unrecorded
<1>5. Accounted'
  BY DEF Inv, TypeOK, Accounted, Recording, Mutex, Guarded, Places
<1>6. InFlight'
  BY DEF Inv, TypeOK, InFlight, PastGate, Mutex, Guarded, Places
<1> QED
  BY <1>1, <1>2, <1>3, <1>4, <1>5, <1>6 DEF Inv

LEMMA CheckCountInv == ASSUME LockMayExpire = FALSE, NEW w \in Workers, Inv, CheckCount(w) PROVE Inv'
<1> USE BudgetAssumption DEF CheckCount, Goto, accountVars, redisVars, workerVars, historyVars
<1>1. TypeOK'
  BY DEF Inv, TypeOK, Places, Modes
<1>2. Mutex'
  BY DEF Inv, TypeOK, Mutex, Guarded, Places
<1>3. Checked'
  <2> SUFFICES ASSUME NEW v \in Workers
              PROVE  /\ pc'[v] \in Passed => used[kind[v]][Day(at[v])] < Limit[kind[v]]
                     /\ pc'[v] \in Passed \union {"count"} => cooldown <= at[v]
    BY DEF Checked
  <2>1. CASE v = w
    <3>1. TypeOK /\ pc[w] # "idle" /\ used \in [Kinds -> [Days -> Nat]]
      BY DEF Inv, TypeOK
    <3>2. kind[w] \in Kinds /\ Day(at[w]) \in Days
      BY <3>1, CountTyped
    <3>3. used[kind[w]][Day(at[w])] \in Nat /\ Limit[kind[w]] \in Nat
      BY <3>1, <3>2
    <3> QED
      BY <2>1, <3>3 DEF Inv, TypeOK, Checked, Passed
  <2>2. CASE v # w
    BY <2>2 DEF Inv, TypeOK, Checked, Passed, Places
  <2> QED
    BY <2>1, <2>2
<1>4. DailyLimit' /\ Covered' /\ Spaced'
  BY Unrecorded
<1>5. Accounted'
  BY DEF Inv, TypeOK, Accounted, Recording, Mutex, Guarded, Places
<1>6. InFlight'
  BY DEF Inv, TypeOK, InFlight, PastGate, Mutex, Guarded, Places
<1> QED
  BY <1>1, <1>2, <1>3, <1>4, <1>5, <1>6 DEF Inv

LEMMA CheckModeInv == ASSUME LockMayExpire = FALSE, NEW w \in Workers, Inv, CheckMode(w) PROVE Inv'
<1> USE BudgetAssumption DEF CheckMode, Goto, accountVars, redisVars, workerVars, historyVars
<1>1. TypeOK'
  BY DEF Inv, TypeOK, Places, Modes
<1>2. Mutex'
  BY DEF Inv, TypeOK, Mutex, Guarded, Places
<1>3. Checked'
  BY DEF Inv, TypeOK, Mutex, Checked, Guarded, Passed, Places
<1>4. DailyLimit' /\ Covered' /\ Spaced'
  BY Unrecorded
<1>5. Accounted'
  BY DEF Inv, TypeOK, Accounted, Recording, Mutex, Guarded, Places
<1>6. InFlight'
  BY DEF Inv, TypeOK, InFlight, PastGate, Mutex, Guarded, Places
<1> QED
  BY <1>1, <1>2, <1>3, <1>4, <1>5, <1>6 DEF Inv

LEMMA CallReturnsInv == ASSUME LockMayExpire = FALSE, NEW w \in Workers, Inv, CallReturns(w) PROVE Inv'
<1> USE BudgetAssumption DEF CallReturns, Goto, TakesEffect, accountVars, redisVars, workerVars, historyVars
<1>1. TypeOK'
  <2>1. Count(effects, w) \in [Kinds -> [Days -> Nat]]
    BY CountTyped DEF Inv, TypeOK
  <2>2. effects' \in [Kinds -> [Days -> Nat]]
    BY <2>1 DEF Inv, TypeOK
  <2>3. since' \in Nat
    BY DEF Inv, TypeOK
  <2> QED
    BY <2>2, <2>3 DEF Inv, TypeOK, Places, Modes
<1>2. Mutex'
  BY DEF Inv, TypeOK, Mutex, Guarded, Places
<1>3. Checked'
  BY DEF Inv, TypeOK, Mutex, Checked, Guarded, Passed, Places
<1>4. DailyLimit' /\ Covered' /\ Spaced'
  BY Unrecorded
<1>5. Accounted'
  <2> SUFFICES ASSUME NEW k \in Kinds, NEW d \in Days
              PROVE  effects'[k][d] <= used[k][d] + unrecorded' + IF Recording(k, d)' THEN 1 ELSE 0
    BY DEF Accounted
  <2>1. /\ effects[k][d] \in Nat /\ used[k][d] \in Nat /\ unrecorded \in Nat
        /\ effects[k][d] <= used[k][d] + unrecorded + IF Recording(k, d) THEN 1 ELSE 0
    BY DEF Inv, TypeOK, Accounted
  <2>2. ~Recording(k, d)
    BY DEF Inv, Recording, Mutex, Guarded, Places
  <2>3. Count(effects, w)[k][d] = IF k = kind[w] /\ d = Day(at[w]) THEN effects[k][d] + 1
                                                                 ELSE effects[k][d]
    <3>1. TypeOK /\ pc[w] # "idle" /\ effects \in [Kinds -> [Days -> Nat]]
      BY DEF Inv, TypeOK
    <3> QED
      BY <3>1, CountAdds
  <2>4. k = kind[w] /\ d = Day(at[w]) => Recording(k, d)'
    BY DEF Inv, TypeOK, Recording
  <2> QED
    BY <2>1, <2>2, <2>3, <2>4
<1>6. InFlight'
  BY DEF Inv, TypeOK, InFlight, PastGate, Mutex, Guarded, Places
<1> QED
  BY <1>1, <1>2, <1>3, <1>4, <1>5, <1>6 DEF Inv

LEMMA CallRaisesInv == ASSUME LockMayExpire = FALSE, NEW w \in Workers, Inv, CallRaises(w) PROVE Inv'
<1> USE BudgetAssumption DEF CallRaises, Goto, TakesEffect, accountVars, redisVars, workerVars, historyVars
<1>1. TypeOK'
  <2>1. Count(effects, w) \in [Kinds -> [Days -> Nat]]
    BY CountTyped DEF Inv, TypeOK
  <2>2. effects' \in [Kinds -> [Days -> Nat]]
    BY <2>1 DEF Inv, TypeOK
  <2>3. since' \in Nat
    BY DEF Inv, TypeOK
  <2> QED
    BY <2>2, <2>3 DEF Inv, TypeOK, Places, Modes
<1>2. Mutex'
  BY DEF Inv, TypeOK, Mutex, Guarded, Places
<1>3. Checked'
  BY DEF Inv, TypeOK, Mutex, Checked, Guarded, Passed, Places
<1>4. DailyLimit' /\ Covered' /\ Spaced'
  BY Unrecorded
<1>5. Accounted'
  <2> SUFFICES ASSUME NEW k \in Kinds, NEW d \in Days
              PROVE  effects'[k][d] <= used[k][d] + unrecorded' + IF Recording(k, d)' THEN 1 ELSE 0
    BY DEF Accounted
  <2>1. /\ effects[k][d] \in Nat /\ used[k][d] \in Nat /\ unrecorded \in Nat
        /\ effects[k][d] <= used[k][d] + unrecorded + IF Recording(k, d) THEN 1 ELSE 0
    BY DEF Inv, TypeOK, Accounted
  <2>2. ~Recording(k, d)
    BY DEF Inv, Recording, Mutex, Guarded, Places
  <2>3. Count(effects, w)[k][d] = IF k = kind[w] /\ d = Day(at[w]) THEN effects[k][d] + 1
                                                                 ELSE effects[k][d]
    <3>1. TypeOK /\ pc[w] # "idle" /\ effects \in [Kinds -> [Days -> Nat]]
      BY DEF Inv, TypeOK
    <3> QED
      BY <3>1, CountAdds
  <2> QED
    BY <2>1, <2>2, <2>3
<1>6. InFlight'
  <2>1. CASE UNCHANGED since
    BY <2>1 DEF Inv, TypeOK, InFlight, PastGate, Mutex, Guarded, Places
  <2>2. CASE since' = since + IF enabled THEN 0 ELSE 1
    <3>1. since = 0
      BY DEF Inv, InFlight, PastGate
    <3>2. \A v \in Workers : pc'[v] \notin PastGate
      BY DEF Inv, TypeOK, Mutex, Guarded, PastGate, Places
    <3> QED
      BY <2>2, <3>1, <3>2 DEF InFlight
  <2> QED
    BY <2>1, <2>2
<1> QED
  BY <1>1, <1>2, <1>3, <1>4, <1>5, <1>6 DEF Inv

LEMMA RecordInv == ASSUME LockMayExpire = FALSE, NEW w \in Workers, Inv, Record(w) PROVE Inv'
<1>a. TypeOK /\ pc[w] # "idle" /\ used \in [Kinds -> [Days -> Nat]]
  BY DEF Inv, TypeOK, Record
<1>b. ASSUME NEW k \in Kinds, NEW d \in Days
      PROVE  Count(used, w)[k][d] = IF k = kind[w] /\ d = Day(at[w]) THEN used[k][d] + 1 ELSE used[k][d]
  BY <1>a, CountAdds
<1> USE BudgetAssumption DEF Record, Goto, accountVars, redisVars, workerVars, historyVars
<1>1. TypeOK'
  <2>1. Count(used, w) \in [Kinds -> [Days -> Nat]] /\ at[w] \in Times
    BY CountTyped DEF Inv, TypeOK
  <2>2. cooldown' \in Nat
    BY <2>1 DEF Times
  <2>3. records' \in Seq(Times)
    BY <2>1, AppendProperties DEF Inv, TypeOK
  <2> QED
    BY <2>1, <2>2, <2>3 DEF Inv, TypeOK, Places, Modes
<1>2. Mutex'
  BY DEF Inv, TypeOK, Mutex, Guarded, Places
<1>3. Checked'
  BY DEF Inv, TypeOK, Mutex, Checked, Guarded, Passed, Places
<1>4. DailyLimit' /\ Covered' /\ Spaced'
  <2>1. at[w] \in Times /\ kind[w] \in Kinds /\ Day(at[w]) \in Days
    BY CountTyped DEF Inv, TypeOK
  <2>2. DailyLimit'
    <3> SUFFICES ASSUME NEW k \in Kinds, NEW d \in Days PROVE used'[k][d] <= Limit[k]
      BY DEF DailyLimit
    <3>1. Count(used, w)[k][d] = IF k = kind[w] /\ d = Day(at[w]) THEN used[k][d] + 1
                                                                  ELSE used[k][d]
      BY <1>b
    <3>2. used[k][d] \in Nat /\ Limit[k] \in Nat /\ used[k][d] <= Limit[k]
      BY DEF Inv, TypeOK, DailyLimit
    <3>3. used[kind[w]][Day(at[w])] < Limit[kind[w]]
      BY DEF Inv, Checked, Passed
    <3> QED
      BY <3>1, <3>2, <3>3
  <2>3. /\ cooldown <= at[w] /\ at[w] + MinInterval <= cooldown'
        /\ at[w] \in Nat /\ cooldown \in Nat /\ cooldown' \in Nat
    BY <2>1 DEF Inv, TypeOK, Checked, Passed, Times
  <2>4. /\ \A i \in DOMAIN records : records'[i] = records[i] /\ records[i] \in Nat
        /\ records'[Len(records) + 1] = at[w]
        /\ DOMAIN records' = DOMAIN records \union {Len(records) + 1}
        /\ DOMAIN records = 1 .. Len(records) /\ Len(records) \in Nat
    BY <2>1, AppendProperties, ElementOfSeq DEF Inv, TypeOK, Times
  <2>5. Covered'
    BY <2>3, <2>4 DEF Inv, Covered
  <2>6. Spaced'
    BY <2>3, <2>4 DEF Inv, Covered, Spaced
  <2> QED
    BY <2>2, <2>5, <2>6
<1>5. Accounted'
  <2> SUFFICES ASSUME NEW k \in Kinds, NEW d \in Days
              PROVE  effects[k][d] <= used'[k][d] + unrecorded + IF Recording(k, d)' THEN 1 ELSE 0
    BY DEF Accounted
  <2>1. /\ effects[k][d] \in Nat /\ used[k][d] \in Nat /\ unrecorded \in Nat
        /\ effects[k][d] <= used[k][d] + unrecorded + IF Recording(k, d) THEN 1 ELSE 0
    BY DEF Inv, TypeOK, Accounted
  <2>2. Recording(k, d) => k = kind[w] /\ d = Day(at[w])
    BY DEF Inv, Recording, Mutex, Guarded, Places
  <2>3. Count(used, w)[k][d] = IF k = kind[w] /\ d = Day(at[w]) THEN used[k][d] + 1
                                                                ELSE used[k][d]
    BY <1>b
  <2> QED
    BY <2>1, <2>2, <2>3
<1>6. InFlight'
  BY DEF Inv, TypeOK, InFlight, PastGate, Mutex, Guarded, Places
<1> QED
  BY <1>1, <1>2, <1>3, <1>4, <1>5, <1>6 DEF Inv

LEMMA ReleaseInv == ASSUME LockMayExpire = FALSE, NEW w \in Workers, Inv, Release(w) PROVE Inv'
<1> USE BudgetAssumption DEF Release, Done, Goto, accountVars, redisVars, workerVars, historyVars
<1>1. TypeOK'
  BY DEF Inv, TypeOK, Places, Modes, Times
<1>2. Mutex'
  BY DEF Inv, TypeOK, Mutex, Guarded, Places
<1>3. Checked'
  BY DEF Inv, TypeOK, Mutex, Checked, Guarded, Passed, Places
<1>4. DailyLimit' /\ Covered' /\ Spaced'
  BY Unrecorded
<1>5. Accounted'
  BY DEF Inv, TypeOK, Accounted, Recording, Mutex, Guarded, Places
<1>6. InFlight'
  BY DEF Inv, TypeOK, InFlight, PastGate, Mutex, Guarded, Places
<1> QED
  BY <1>1, <1>2, <1>3, <1>4, <1>5, <1>6 DEF Inv

LEMMA ReloadInv == ASSUME LockMayExpire = FALSE, NEW w \in Workers, Inv, Reload(w) PROVE Inv'
<1> USE BudgetAssumption DEF Reload, accountVars, redisVars, workerVars, historyVars
<1>1. TypeOK'
  BY DEF Inv, TypeOK, Places, Modes
<1>2. Mutex'
  BY DEF Inv, TypeOK, Mutex, Guarded, Places
<1>3. Checked'
  BY DEF Inv, TypeOK, Mutex, Checked, Guarded, Passed, Places
<1>4. DailyLimit' /\ Covered' /\ Spaced'
  BY Unrecorded
<1>5. Accounted'
  BY DEF Inv, TypeOK, Accounted, Recording, Mutex, Guarded, Places
<1>6. InFlight'
  BY DEF Inv, TypeOK, InFlight, PastGate, Mutex, Guarded, Places
<1> QED
  BY <1>1, <1>2, <1>3, <1>4, <1>5, <1>6 DEF Inv

LEMMA CrashInv == ASSUME LockMayExpire = FALSE, NEW w \in Workers, Inv, Crash(w) PROVE Inv'
<1> USE BudgetAssumption DEF Crash, Done, Goto, accountVars, redisVars, workerVars, historyVars
<1>1. TypeOK'
  BY DEF Inv, TypeOK, Places, Modes, Times
<1>2. Mutex'
  BY DEF Inv, TypeOK, Mutex, Guarded, Places
<1>3. Checked'
  BY DEF Inv, TypeOK, Mutex, Checked, Guarded, Passed, Places
<1>4. DailyLimit' /\ Covered' /\ Spaced'
  BY Unrecorded
<1>5. Accounted'
  <2> SUFFICES ASSUME NEW k \in Kinds, NEW d \in Days
              PROVE  effects[k][d] <= used[k][d] + unrecorded' + IF Recording(k, d)' THEN 1 ELSE 0
    BY DEF Accounted
  <2>1. /\ effects[k][d] \in Nat /\ used[k][d] \in Nat /\ unrecorded \in Nat
        /\ effects[k][d] <= used[k][d] + unrecorded + IF Recording(k, d) THEN 1 ELSE 0
    BY DEF Inv, TypeOK, Accounted
  <2>2. Recording(k, d) => pc[w] = "record"
    BY DEF Inv, TypeOK, Recording, Mutex, Guarded, Places
  <2> QED
    BY <2>1, <2>2
<1>6. InFlight'
  BY DEF Inv, TypeOK, InFlight, PastGate, Mutex, Guarded, Places
<1> QED
  BY <1>1, <1>2, <1>3, <1>4, <1>5, <1>6 DEF Inv

LEMMA DisableInv == ASSUME LockMayExpire = FALSE, Inv, Disable PROVE Inv'
<1> USE BudgetAssumption DEF Disable, accountVars, redisVars, workerVars, historyVars
<1>1. TypeOK'
  BY DEF Inv, TypeOK, Places, Modes
<1>2. Mutex'
  BY DEF Inv, TypeOK, Mutex, Guarded, Places
<1>3. Checked'
  BY DEF Inv, TypeOK, Mutex, Checked, Guarded, Passed, Places
<1>4. DailyLimit' /\ Covered' /\ Spaced'
  BY Unrecorded
<1>5. Accounted'
  BY DEF Inv, TypeOK, Accounted, Recording, Mutex, Guarded, Places
<1>6. InFlight'
  BY DEF Inv, TypeOK, InFlight, PastGate, Mutex, Guarded, Places
<1> QED
  BY <1>1, <1>2, <1>3, <1>4, <1>5, <1>6 DEF Inv

LEMMA EnableInv == ASSUME LockMayExpire = FALSE, Inv, Enable PROVE Inv'
<1> USE BudgetAssumption DEF Enable, accountVars, redisVars, workerVars, historyVars
<1>1. TypeOK'
  BY DEF Inv, TypeOK, Places, Modes
<1>2. Mutex'
  BY DEF Inv, TypeOK, Mutex, Guarded, Places
<1>3. Checked'
  BY DEF Inv, TypeOK, Mutex, Checked, Guarded, Passed, Places
<1>4. DailyLimit' /\ Covered' /\ Spaced'
  BY Unrecorded
<1>5. Accounted'
  BY DEF Inv, TypeOK, Accounted, Recording, Mutex, Guarded, Places
<1>6. InFlight'
  BY DEF Inv, TypeOK, InFlight, PastGate, Mutex, Guarded, Places
<1> QED
  BY <1>1, <1>2, <1>3, <1>4, <1>5, <1>6 DEF Inv

LEMMA ConfigureInv == ASSUME LockMayExpire = FALSE, NEW m \in Modes, Inv, Configure(m) PROVE Inv'
<1> USE BudgetAssumption DEF Configure, accountVars, redisVars, workerVars, historyVars
<1>1. TypeOK'
  BY DEF Inv, TypeOK, Places, Modes
<1>2. Mutex'
  BY DEF Inv, TypeOK, Mutex, Guarded, Places
<1>3. Checked'
  BY DEF Inv, TypeOK, Mutex, Checked, Guarded, Passed, Places
<1>4. DailyLimit' /\ Covered' /\ Spaced'
  BY Unrecorded
<1>5. Accounted'
  BY DEF Inv, TypeOK, Accounted, Recording, Mutex, Guarded, Places
<1>6. InFlight'
  BY DEF Inv, TypeOK, InFlight, PastGate, Mutex, Guarded, Places
<1> QED
  BY <1>1, <1>2, <1>3, <1>4, <1>5, <1>6 DEF Inv

LEMMA TickInv == ASSUME LockMayExpire = FALSE, Inv, Tick PROVE Inv'
<1> USE BudgetAssumption DEF Tick, accountVars, redisVars, workerVars, historyVars
<1>1. TypeOK'
  BY DEF Inv, TypeOK, Places, Modes, Times
<1>2. Mutex'
  BY DEF Inv, TypeOK, Mutex, Guarded, Places
<1>3. Checked'
  BY DEF Inv, TypeOK, Mutex, Checked, Guarded, Passed, Places
<1>4. DailyLimit' /\ Covered' /\ Spaced'
  BY Unrecorded
<1>5. Accounted'
  BY DEF Inv, TypeOK, Accounted, Recording, Mutex, Guarded, Places
<1>6. InFlight'
  BY DEF Inv, TypeOK, InFlight, PastGate, Mutex, Guarded, Places
<1> QED
  BY <1>1, <1>2, <1>3, <1>4, <1>5, <1>6 DEF Inv

LEMMA LockExpiresInv == ASSUME LockMayExpire = FALSE, Inv, LockExpires PROVE Inv'
<1> USE BudgetAssumption DEF LockExpires, accountVars, redisVars, workerVars, historyVars
<1>1. TypeOK'
  BY DEF Inv, TypeOK, Places, Modes
<1>2. Mutex'
  BY DEF Inv, TypeOK, Mutex, Guarded, Places
<1>3. Checked'
  BY DEF Inv, TypeOK, Mutex, Checked, Guarded, Passed, Places
<1>4. DailyLimit' /\ Covered' /\ Spaced'
  BY Unrecorded
<1>5. Accounted'
  BY DEF Inv, TypeOK, Accounted, Recording, Mutex, Guarded, Places
<1>6. InFlight'
  BY DEF Inv, TypeOK, InFlight, PastGate, Mutex, Guarded, Places
<1> QED
  BY <1>1, <1>2, <1>3, <1>4, <1>5, <1>6 DEF Inv

LEMMA NextInv == ASSUME LockMayExpire = FALSE, Inv, [Next]_vars PROVE Inv'
<1>1. CASE UNCHANGED vars
  BY <1>1, StutterInv
<1>2. ASSUME NEW w \in Workers,
             \/ Acquire(w) \/ Gate(w) \/ CheckCooldown(w) \/ CheckCount(w) \/ CheckMode(w)
             \/ CallReturns(w) \/ CallRaises(w) \/ Record(w) \/ Release(w) \/ Reload(w) \/ Crash(w)
      PROVE  Inv'
  BY <1>2, AcquireInv, GateInv, CheckCooldownInv, CheckCountInv, CheckModeInv, CallReturnsInv,
     CallRaisesInv, RecordInv, ReleaseInv, ReloadInv, CrashInv
<1>3. CASE Disable \/ Enable \/ Tick \/ LockExpires \/ \E m \in Modes : Configure(m)
  BY <1>3, DisableInv, EnableInv, TickInv, LockExpiresInv, ConfigureInv
<1> QED
  BY <1>1, <1>2, <1>3 DEF Next

THEOREM Invariance == ASSUME LockMayExpire = FALSE PROVE Spec => []Inv
<1>1. Inv /\ [Next]_vars => Inv'
  BY NextInv
<1> QED
  BY <1>1, InitInv, PTL DEF Spec

(* The state keeps its shape, and a worker its action in hand exactly while  *)
(* it is busy.                                                               *)
THEOREM TypeCorrect == ASSUME LockMayExpire = FALSE PROVE Spec => []TypeOK
<1>1. Inv => TypeOK
  BY DEF Inv
<1> QED
  BY <1>1, Invariance, PTL

(* No kind is recorded more often in a day than its limit: between check and *)
(* record nobody but the lock's holder counts (service.py:824-840, 694-699). *)
THEOREM DailyLimitHolds == ASSUME LockMayExpire = FALSE PROVE Spec => []DailyLimit
<1>1. Inv => DailyLimit
  BY DEF Inv
<1> QED
  BY <1>1, Invariance, PTL

(* Two recorded executions start at least the minimum interval apart         *)
(* (service.py:811-822, redis.py:124-130).                                   *)
THEOREM SpacedHolds == ASSUME LockMayExpire = FALSE PROVE Spec => []Spaced
<1>1. Inv => Spaced
  BY DEF Inv
<1> QED
  BY <1>1, Invariance, PTL

(* What took effect in a day exceeds the limit at most by the effects that   *)
(* were not recorded (service.py:683-699).                                   *)
THEOREM EffectsStayBudgeted == ASSUME LockMayExpire = FALSE PROVE Spec => []EffectsBudgeted
<1>1. Inv => EffectsBudgeted
  <2> SUFFICES ASSUME Inv, NEW k \in Kinds, NEW d \in Days
              PROVE  effects[k][d] <= Limit[k] + unrecorded
    BY DEF EffectsBudgeted
  <2>1. /\ effects[k][d] \in Nat /\ used[k][d] \in Nat /\ unrecorded \in Nat /\ Limit[k] \in Nat
        /\ effects[k][d] <= used[k][d] + unrecorded + IF Recording(k, d) THEN 1 ELSE 0
        /\ used[k][d] <= Limit[k]
    BY BudgetAssumption DEF Inv, TypeOK, Accounted, DailyLimit
  <2>2. Recording(k, d) => used[k][d] < Limit[k]
    BY DEF Inv, Recording, Checked, Passed
  <2> QED
    BY <2>1, <2>2
<1> QED
  BY <1>1, Invariance, PTL

(* After an admin's disable at most the call in flight takes effect          *)
(* (service.py:629-644).                                                     *)
THEOREM DisableStopsAll == ASSUME LockMayExpire = FALSE PROVE Spec => []DisableStops
<1>1. Inv => DisableStops
  BY DEF Inv, InFlight, DisableStops
<1> QED
  BY <1>1, Invariance, PTL
=============================================================================
