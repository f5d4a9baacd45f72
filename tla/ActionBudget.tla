---------------------------- MODULE ActionBudget ----------------------------
(* What stands between an approved action of one account and Twitter: the    *)
(* account lock, the account's state, its active hours, its cooldown and its *)
(* daily limits (process_action and _evaluate_budget of                      *)
(* app/actions/service.py, record_action of app/runtime/redis.py).  The      *)
(* status of the action is the subject of ActionService; here an action is   *)
(* its kind.  `now` is read once, under the lock, and that one reading is    *)
(* checked, recorded and made the start of the cooldown, however long the    *)
(* call takes.  Time counts in ticks.                                        *)
EXTENDS Naturals, Sequences

CONSTANTS Kinds, Workers,
          Limit,               \* daily_likes_max, daily_replies_max, daily_follows_max
          MinInterval,         \* min_interval_minutes
          MaxJitter,           \* action_interval_jitter_seconds
          StartHour, EndHour,  \* active_hours, both inclusive
          TicksPerHour, HoursPerDay,
          NoToken, Orphan, NoKind,
          LockMayExpire,       \* TRUE: the lock's TTL may run out while its holder is in its call
          MaxTime,             \* bound: the clock stops there
          MaxUnrecorded,       \* bound: how many calls take effect and raise
          MaxCrashes           \* bound: how many times a worker stops

ASSUME BudgetAssumption ==
    /\ Limit \in [Kinds -> Nat] /\ MinInterval \in Nat /\ MaxJitter \in Nat
    /\ HoursPerDay \in Nat \ {0} /\ TicksPerHour \in Nat \ {0}
    /\ StartHour \in 0 .. EndHour /\ EndHour \in 0 .. HoursPerDay - 1
    /\ Workers \intersect {NoToken, Orphan} = {} /\ NoToken # Orphan
    /\ NoKind \notin Kinds
    /\ LockMayExpire \in BOOLEAN /\ MaxTime \in Nat
    /\ MaxUnrecorded \in Nat /\ MaxCrashes \in Nat

VARIABLES
    clock,
    enabled,          \* lifecycle_status = ENABLED and no admin disable
    mode,             \* execution_mode as configured
    known,            \* each worker: execution_mode as its registry last loaded it
    lock,
    used,             \* runtime:action_counter:<account>:<kind>:<day>
    cooldown,         \* runtime:action_cooldown:<account>; 0 is unset
    pc, kind, at,     \* each worker: place, kind of its action, its reading of the clock
    records,          \* history: the readings of the recorded executions, in order
    effects,          \* history: live calls of a kind that took effect, by day of their reading
    unrecorded,       \* history: such calls whose execution was not recorded
    since,            \* history: effects while the account is disabled
    crashes

accountVars == <<enabled, mode>>
redisVars == <<lock, used, cooldown>>
workerVars == <<pc, kind, at>>
historyVars == <<records, effects, unrecorded, since>>
vars == <<clock, accountVars, known, redisVars, workerVars, historyVars, crashes>>

Modes == {"live", "dry_run", "read_only"}
Places == {"idle", "gate", "cooldown", "count", "mode", "calling", "record", "release"}
Guarded == Places \ {"idle"}     \* where a worker believes to hold the lock
Passed == {"mode", "calling", "record"}    \* past the budget check, not yet recorded

Hour(t) == (t \div TicksPerHour) % HoursPerDay
Day(t) == t \div (TicksPerHour * HoursPerDay)
Times == 0 .. MaxTime
Days == {Day(t) : t \in Times}

Init ==
    /\ clock = 0 /\ enabled = TRUE /\ mode = "live"
    /\ known = [w \in Workers |-> "live"]
    /\ lock = NoToken /\ used = [k \in Kinds |-> [d \in Days |-> 0]] /\ cooldown = 0
    /\ pc = [w \in Workers |-> "idle"] /\ at = [w \in Workers |-> 0]
    /\ kind = [w \in Workers |-> NoKind]
    /\ records = <<>> /\ effects = [k \in Kinds |-> [d \in Days |-> 0]]
    /\ unrecorded = 0 /\ since = 0 /\ crashes = 0

Goto(w, p) == pc' = [pc EXCEPT ![w] = p]
(* Faulty variant: the action stays in hand.                                 *)
DoneKeeping(w) == Goto(w, "idle") /\ UNCHANGED <<kind, at>>
Done(w) ==
    /\ Goto(w, "idle")
    /\ kind' = [kind EXCEPT ![w] = NoKind] /\ at' = [at EXCEPT ![w] = 0]
Count(f, w) == [f EXCEPT ![kind[w]][Day(at[w])] = @ + 1]

-----------------------------------------------------------------------------
(* process_action *)

(* Faulty variant: SET without NX.                                           *)
AcquireAnyway(w) ==
    /\ pc[w] = "idle"
    /\ lock' = w /\ Goto(w, "gate")
    /\ \E k \in Kinds : kind' = [kind EXCEPT ![w] = k]
    /\ UNCHANGED <<clock, accountVars, known, used, cooldown, at, historyVars, crashes>>

Acquire(w) ==
    /\ pc[w] = "idle" /\ lock = NoToken
    /\ lock' = w /\ Goto(w, "gate")
    /\ \E k \in Kinds : kind' = [kind EXCEPT ![w] = k]
    /\ UNCHANGED <<clock, accountVars, known, used, cooldown, at, historyVars, crashes>>

(* The reading of the clock, the account's state and the active hours.       *)
Gate(w) ==
    /\ pc[w] = "gate"
    /\ at' = [at EXCEPT ![w] = clock]
    /\ Goto(w, IF enabled /\ Hour(clock) \in StartHour .. EndHour THEN "cooldown" ELSE "release")
    /\ UNCHANGED <<clock, accountVars, known, redisVars, kind, historyVars, crashes>>

(* Faulty variant: the cooldown is not checked.                              *)
CheckCooldownSkipped(w) ==
    /\ pc[w] = "cooldown" /\ Goto(w, "count")
    /\ UNCHANGED <<clock, accountVars, known, redisVars, kind, at, historyVars, crashes>>

CheckCooldown(w) ==
    /\ pc[w] = "cooldown"
    /\ Goto(w, IF cooldown > at[w] THEN "release" ELSE "count")
    /\ UNCHANGED <<clock, accountVars, known, redisVars, kind, at, historyVars, crashes>>

(* Faulty variant: the limit is off by one.                                  *)
CheckCountInclusive(w) ==
    /\ pc[w] = "count"
    /\ Goto(w, IF used[kind[w]][Day(at[w])] > Limit[kind[w]] THEN "release" ELSE "mode")
    /\ UNCHANGED <<clock, accountVars, known, redisVars, kind, at, historyVars, crashes>>

CheckCount(w) ==
    /\ pc[w] = "count"
    /\ Goto(w, IF used[kind[w]][Day(at[w])] >= Limit[kind[w]] THEN "release" ELSE "mode")
    /\ UNCHANGED <<clock, accountVars, known, redisVars, kind, at, historyVars, crashes>>

(* The mode is the one this process loaded with its registry; read_only is   *)
(* refused after the budget, and anything but live runs dry.                 *)
CheckMode(w) ==
    /\ pc[w] = "mode"
    /\ Goto(w, IF known[w] = "read_only" THEN "release" ELSE "calling")
    /\ UNCHANGED <<clock, accountVars, known, redisVars, kind, at, historyVars, crashes>>

TakesEffect(w) ==
    /\ effects' = Count(effects, w)
    /\ since' = since + IF enabled THEN 0 ELSE 1

(* The executor returns, having taken effect if live; or it raises, whether  *)
(* it took effect or not.  A dry run counts against the budget like a call.  *)
CallReturns(w) ==
    /\ pc[w] = "calling" /\ Goto(w, "record")
    /\ IF known[w] = "live" THEN TakesEffect(w) ELSE UNCHANGED <<effects, since>>
    /\ UNCHANGED <<clock, accountVars, known, redisVars, kind, at, records, unrecorded, crashes>>

CallRaises(w) ==
    /\ pc[w] = "calling" /\ known[w] = "live" /\ Goto(w, "release")
    /\ \/ unrecorded < MaxUnrecorded /\ TakesEffect(w) /\ unrecorded' = unrecorded + 1
       \/ UNCHANGED <<effects, since, unrecorded>>
    /\ UNCHANGED <<clock, accountVars, known, redisVars, kind, at, records, crashes>>

(* Faulty variant: the cooldown is set and the counter is not.               *)
RecordUncounted(w) ==
    /\ pc[w] = "record" /\ Goto(w, "release")
    /\ cooldown' = at[w] + MinInterval
    /\ records' = Append(records, at[w])
    /\ UNCHANGED <<clock, accountVars, known, lock, used, kind, at, effects, unrecorded, since,
                   crashes>>

(* record_action, one pipeline, with the reading of the clock at the gate.   *)
Record(w) ==
    /\ pc[w] = "record" /\ Goto(w, "release")
    /\ used' = Count(used, w)
    /\ \E jitter \in 0 .. MaxJitter : cooldown' = at[w] + MinInterval + jitter
    /\ records' = Append(records, at[w])
    /\ UNCHANGED <<clock, accountVars, known, lock, kind, at, effects, unrecorded, since, crashes>>

(* release_account_lock.  Its GET and DELETE are one step here: the lock     *)
(* does not expire between the two (ActionService has them apart).           *)
Release(w) ==
    /\ pc[w] = "release" /\ Done(w)
    /\ lock' = IF lock = w THEN NoToken ELSE lock
    /\ UNCHANGED <<clock, accountVars, known, used, cooldown, historyVars, crashes>>

-----------------------------------------------------------------------------
(* The administrator, the worker's sweep, time and failures                  *)

Disable ==
    /\ enabled /\ enabled' = FALSE
    /\ UNCHANGED <<clock, mode, known, redisVars, workerVars, historyVars, crashes>>

Enable ==
    /\ ~enabled /\ enabled' = TRUE /\ since' = 0
    /\ UNCHANGED <<clock, mode, known, redisVars, workerVars, records, effects, unrecorded, crashes>>

Configure(m) ==
    /\ m # mode /\ mode' = m
    /\ UNCHANGED <<clock, enabled, known, redisVars, workerVars, historyVars, crashes>>

(* reload_configs of the worker's sweep, between two items of work.          *)
Reload(w) ==
    /\ pc[w] = "idle" /\ known[w] # mode
    /\ known' = [known EXCEPT ![w] = mode]
    /\ UNCHANGED <<clock, accountVars, redisVars, workerVars, historyVars, crashes>>

Tick ==
    /\ clock < MaxTime /\ clock' = clock + 1
    /\ UNCHANGED <<accountVars, known, redisVars, workerVars, historyVars, crashes>>

(* A worker stops: what its call did, if it was made, is never recorded.     *)
Crash(w) ==
    /\ pc[w] # "idle" /\ crashes < MaxCrashes /\ crashes' = crashes + 1
    /\ lock' = IF lock = w THEN Orphan ELSE lock
    /\ unrecorded' = unrecorded + IF pc[w] = "record" THEN 1 ELSE 0
    /\ Done(w)
    /\ UNCHANGED <<clock, accountVars, known, used, cooldown, records, effects, since>>

LockExpires ==
    /\ \/ lock = Orphan
       \/ LockMayExpire /\ \E w \in Workers : lock = w /\ pc[w] = "calling"
    /\ lock' = NoToken
    /\ UNCHANGED <<clock, accountVars, known, used, cooldown, workerVars, historyVars, crashes>>

Next ==
    \/ \E w \in Workers :
        \/ Acquire(w) \/ Gate(w) \/ CheckCooldown(w) \/ CheckCount(w) \/ CheckMode(w)
        \/ CallReturns(w) \/ CallRaises(w) \/ Record(w) \/ Release(w) \/ Reload(w) \/ Crash(w)
    \/ Disable \/ Enable \/ Tick \/ LockExpires
    \/ \E m \in Modes : Configure(m)

Spec == Init /\ [][Next]_vars
-----------------------------------------------------------------------------
(* The state is of the declared shape, and a worker has an action in hand    *)
(* exactly while it is not idle.                                             *)
TypeOK ==
    /\ clock \in Times /\ enabled \in BOOLEAN /\ mode \in Modes
    /\ known \in [Workers -> Modes]
    /\ lock \in Workers \union {NoToken, Orphan}
    /\ used \in [Kinds -> [Days -> Nat]] /\ cooldown \in Nat
    /\ pc \in [Workers -> Places] /\ kind \in [Workers -> Kinds \union {NoKind}] /\ at \in [Workers -> Times]
    /\ records \in Seq(Times) /\ effects \in [Kinds -> [Days -> Nat]]
    /\ \A w \in Workers : kind[w] = NoKind <=> pc[w] = "idle"
    /\ unrecorded \in Nat /\ since \in Nat /\ crashes \in 0 .. MaxCrashes

(* No kind is ever recorded more often in a day than its daily limit, though *)
(* the check and the record are separate commands around a remote call that  *)
(* may outlast midnight (service.py:824-840, 694-699, redis.py:110-131).     *)
DailyLimit == \A k \in Kinds, d \in Days : used[k][d] <= Limit[k]

(* Two recorded executions start at least the minimum interval apart,        *)
(* whatever their kinds (service.py:811-822, redis.py:124-130).              *)
Spaced == \A i, j \in DOMAIN records : i < j => records[j] >= records[i] + MinInterval

(* What reached Twitter in a day exceeds the limit at most by the calls that *)
(* took effect and were not recorded: they raised, or the worker stopped     *)
(* between the call and the record (service.py:683-699).                     *)
EffectsBudgeted == \A k \in Kinds, d \in Days : effects[k][d] <= Limit[k] + unrecorded

(* Once an admin has disabled the account, at most the call that was in      *)
(* flight still takes effect (service.py:629-644).                           *)
DisableStops == since <= 1
=============================================================================
