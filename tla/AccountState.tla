---------------------------- MODULE AccountState ----------------------------
(* The runtime state of one account (a row of account_runtime_states) under  *)
(* everything that writes it: reload_configs, disable, enable and delete     *)
(* (app/accounts/service.py), session validation and the marks of a fetch    *)
(* (app/fetching/service.py).  Each of them loads the row, computes, and     *)
(* commits; the ORM writes by primary key the columns whose value differs    *)
(* from the one it loaded, without a row lock or a version column.  Every    *)
(* process has its own registry, filled from the configuration file when     *)
(* that process reloads.                                                     *)
EXTENDS Integers

CONSTANTS Handlers,            \* request handlers of the API process
          Workers,             \* runs of app/worker.py
          Api,                 \* the API process; a worker is a process of its own
          PauseAfterFailures,  \* settings.pause_after_failures
          NoRow, NoOne,        \* an absent row; an account lock that is not set
          Operations,          \* what the handlers are asked to do
          Files,               \* what the account's YAML file may become: a set of Configs
          LockMayExpire        \* TRUE: the lock's TTL may run out during a fetch

VARIABLES
    file,                 \* the account's YAML file
    reg,                  \* process -> the account as its registry holds it
    row,                  \* the account's row
    lock,                 \* runtime:lock:<account>
    pc, cfg, snap, got,   \* handler or worker: place, account object, loaded row, outcome
    fails,                \* history: failed marks since the last successful one
    torn,                 \* history: a commit wrote over columns that had changed after it loaded them
    older                 \* history: who was in the middle of something when the row was disabled

taskVars == <<pc, cfg, snap, got>>
vars == <<file, reg, row, lock, taskVars, fails, torn, older>>

Actors == Handlers \union Workers
Processes == {Api} \union Workers
ProcessOf(a) == IF a \in Workers THEN a ELSE Api

Configs == {"enabled", "disabled", "absent"}
(* "proxy_failed" stands for the pause reasons only an admin lifts           *)
(* (proxy_failed, schema_changed), "manual" for a disabled configuration.    *)
Reasons == {"none", "manual", "config_removed", "auth_expired", "proxy_failed",
            "repeated_failures", "admin_disabled"}
Rows == [status : {"enabled", "paused"}, reason : Reasons, streak : 0 .. PauseAfterFailures]
(* "transient" stands for the errors that do not pause an account at once.   *)
Outcomes == {"success", "transient", "auth_expired", "proxy_failed"}
Reloading == {"load", "loaded", "reload"}
HandlerPlaces == {"idle", "disable", "enable", "validating", "validate", "unlink"} \union Reloading
Fetching == {"start", "fetching", "marking", "mark", "marked", "release"}
WorkerPlaces == {"idle", "dead"} \union Fetching \union Reloading

Unknown == -1   \* the row was deleted after the last successful mark

ASSUME StateAssumption ==
    /\ Api \notin Workers /\ NoOne \notin Workers /\ NoRow \notin Rows
    /\ Handlers \intersect Workers = {}
    /\ PauseAfterFailures \in Nat \ {0} /\ Files \subseteq Configs /\ LockMayExpire \in BOOLEAN

Default(c) == [status |-> IF c = "enabled" THEN "enabled" ELSE "paused",
               reason |-> IF c = "enabled" THEN "none" ELSE "manual",
               streak |-> 0]
Paused(r, why) == [r EXCEPT !.status = "paused", !.reason = why]
LiftedStatusOnly(r) ==   \* faulty: the reason is forgotten
    [r EXCEPT !.status = "enabled"]
Lifted(r) == [r EXCEPT !.status = "enabled", !.reason = "none"]

(* The account has been started and both processes have loaded it.           *)
Init ==
    /\ file = "enabled" /\ reg = [p \in Processes |-> "enabled"]
    /\ row = Default("enabled")
    /\ lock = NoOne
    /\ pc = [a \in Actors |-> "idle"] /\ cfg = [a \in Actors |-> "absent"]
    /\ snap = [a \in Actors |-> NoRow] /\ got = [a \in Actors |-> "success"]
    /\ fails = 0 /\ torn = FALSE /\ older = {}

-----------------------------------------------------------------------------
Goes(a, place) == pc' = [pc EXCEPT ![a] = place]
Keeps == UNCHANGED <<cfg, snap, got>>
(* The end of a method: its locals are gone.                                 *)
Ends(a, place) ==
    /\ Goes(a, place)
    /\ cfg' = [cfg EXCEPT ![a] = "absent"] /\ snap' = [snap EXCEPT ![a] = NoRow]
    /\ got' = [got EXCEPT ![a] = "success"]

Loads(a) == row # NoRow /\ snap' = [snap EXCEPT ![a] = row]

(* older speaks of the last disable, or of the commit that made a torn row   *)
(* whole again; while the row is torn it does not matter.                    *)
Busy == {a \in Actors : pc[a] \notin {"idle", "dead"}}
Stays == older' = IF torn' THEN {} ELSE IF torn THEN Busy ELSE older
Leaves(a) == older' = (IF torn' THEN {} ELSE IF torn THEN Busy ELSE older) \ {a}

WrittenWhole(new, loaded, now) == new   \* faulty: the row is written as it was loaded
(* UPDATE of the columns that differ from the loaded ones.                   *)
Column(c, new, loaded, now) == IF new[c] # loaded[c] THEN new[c] ELSE now[c]
Written(new, loaded, now) ==
    [status |-> Column("status", new, loaded, now),
     reason |-> Column("reason", new, loaded, now),
     streak |-> Column("streak", new, loaded, now)]
Visible == {"status", "reason"}
Agree(r) == r.status = "enabled" <=> r.reason = "none"
Tears(a, new) == /\ \E c \in Visible : row[c] # snap[a][c]
                 /\ \E c \in Visible : new[c] # snap[a][c]
(* A timestamp always changes, so a commit to a deleted row always raises.   *)
(* A torn row is whole again when a later commit leaves it in agreement.     *)
Commits(a, new) ==
    /\ row # NoRow
    /\ row' = Written(new, snap[a], row)
    /\ torn' = (Tears(a, new) \/ (torn /\ ~Agree(row')))

(* release_account_lock: only the holder's token gives the lock back.        *)
Free(w) == lock' = IF lock = w THEN NoOne ELSE lock

-----------------------------------------------------------------------------
(* The file is edited, removed or put back by hand, by an import or by the   *)
(* admin API, each of which reloads afterwards.                              *)
OperatorEdits ==
    /\ file' \in Files \ {file}
    /\ UNCHANGED <<reg, row, lock, taskVars, fails, torn, older>>

(* update_account_config, update_account_execution_mode: the file is         *)
(* replaced, then reloaded.                                                  *)
EditWrites(h) ==
    /\ "edit" \in Operations /\ pc[h] = "idle" /\ reg[Api] # "absent"
    /\ file' \in Files \ {"absent"}
    /\ Goes(h, "load") /\ Keeps
    /\ UNCHANGED <<reg, row, lock, fails, torn, older>>

(* Faulty: the reload works on what the registry holds already.              *)
ReloadLoadsStale(a) ==
    /\ pc[a] \in {"idle", "load"}
    /\ a \in Handlers /\ pc[a] = "idle" => "reload" \in Operations
    /\ cfg' = [cfg EXCEPT ![a] = reg[ProcessOf(a)]]
    /\ Goes(a, "loaded")
    /\ UNCHANGED <<file, reg, row, lock, snap, got, fails, torn, older>>

(* reload_configs: the registry is filled, the rows are loaded, the changes  *)
(* are committed.  The worker does so in its sweep and when it starts.       *)
ReloadLoads(a) ==
    /\ pc[a] \in {"idle", "load"}
    /\ a \in Handlers /\ pc[a] = "idle" => "reload" \in Operations
    /\ reg' = [reg EXCEPT ![ProcessOf(a)] = file]
    /\ cfg' = [cfg EXCEPT ![a] = file]
    /\ Goes(a, "loaded")
    /\ UNCHANGED <<file, row, lock, snap, got, fails, torn, older>>

ReloadReads(a) ==
    /\ pc[a] = "loaded"
    /\ snap' = [snap EXCEPT ![a] = row]
    /\ Goes(a, "reload")
    /\ UNCHANGED <<file, reg, row, lock, cfg, got, fails, torn, older>>

(* Faulty: the status follows the configuration, whatever an admin has said. *)
ReloadedByDefault(r, c) ==
    CASE c = "absent" -> Paused(r, "config_removed")
      [] c # "absent" /\ r.reason = "config_removed" -> [Default(c) EXCEPT !.streak = r.streak]
      [] c # "absent" /\ r.reason = "admin_disabled" -> [r EXCEPT !.status = Default(c).status]
      [] c = "disabled" /\ r.reason \notin {"config_removed", "admin_disabled"} -> Paused(r, "manual")
      [] c = "enabled" /\ r.reason = "manual" /\ r.status = "paused" -> Lifted(r)
      [] OTHER -> r

(* What reload_configs makes of a row for the configuration it loaded.       *)
Reloaded(r, c) ==
    CASE c = "absent" -> Paused(r, "config_removed")
      [] c # "absent" /\ r.reason = "config_removed" -> [Default(c) EXCEPT !.streak = r.streak]
      [] c # "absent" /\ r.reason = "admin_disabled" -> [r EXCEPT !.status = "paused"]
      [] c = "disabled" /\ r.reason \notin {"config_removed", "admin_disabled"} -> Paused(r, "manual")
      [] c = "enabled" /\ r.reason = "manual" /\ r.status = "paused" -> Lifted(r)
      [] OTHER -> r

ReloadInserts(a) ==
    /\ pc[a] = "reload" /\ snap[a] = NoRow
    /\ \/ cfg[a] = "absent" /\ row' = row
       \/ cfg[a] # "absent" /\ row = NoRow /\ row' = Default(cfg[a])
    /\ UNCHANGED <<file, reg, lock, fails, torn>>
    /\ Ends(a, "idle") /\ Leaves(a)

ReloadUpdates(a) ==
    /\ pc[a] = "reload" /\ snap[a] # NoRow
    /\ Commits(a, Reloaded(snap[a], cfg[a]))
    /\ Ends(a, "idle") /\ Leaves(a)
    /\ UNCHANGED <<file, reg, lock, fails>>

(* The other process inserted the row first, or deleted it.                  *)
ReloadRaises(a) ==
    /\ pc[a] = "reload" /\ cfg[a] # "absent"
    /\ (snap[a] = NoRow) # (row = NoRow)
RemovalRaises(a) ==
    /\ pc[a] = "reload" /\ cfg[a] = "absent"
    /\ snap[a] # NoRow /\ row = NoRow

-----------------------------------------------------------------------------
(* Handlers of the API.                                                      *)
DisableReads(h) ==
    /\ "disable" \in Operations /\ pc[h] = "idle" /\ reg[Api] # "absent"
    /\ Loads(h) /\ Goes(h, "disable")
    /\ UNCHANGED <<file, reg, row, lock, cfg, got, fails, torn, older>>

DisableCommits(h) ==
    /\ pc[h] = "disable"
    /\ Commits(h, Paused(snap[h], "admin_disabled"))
    /\ Ends(h, "idle")
    /\ older' = IF torn' THEN {} ELSE Busy \ {h}
    /\ UNCHANGED <<file, reg, lock, fails>>

EnableReads(h) ==
    /\ "enable" \in Operations /\ pc[h] = "idle" /\ reg[Api] # "absent"
    /\ Loads(h) /\ Goes(h, "enable")
    /\ cfg' = [cfg EXCEPT ![h] = reg[Api]]
    /\ UNCHANGED <<file, reg, row, lock, got, fails, torn, older>>

EnableCommits(h) ==
    /\ pc[h] = "enable"
    /\ Commits(h, IF cfg[h] = "enabled" THEN Lifted(snap[h]) ELSE Paused(snap[h], "manual"))
    /\ Ends(h, "idle") /\ Leaves(h)
    /\ UNCHANGED <<file, reg, lock, fails>>

(* delete_account: the rows, then the file, then a reload.                   *)
DeleteCommits(h) ==
    /\ "delete" \in Operations /\ pc[h] = "idle" /\ reg[Api] # "absent"
    /\ row' = NoRow /\ fails' = Unknown
    /\ Goes(h, "unlink") /\ Keeps
    /\ UNCHANGED <<file, reg, lock, torn, older>>

DeleteUnlinks(h) ==
    /\ pc[h] = "unlink"
    /\ file' = "absent"
    /\ Goes(h, "load") /\ Keeps
    /\ UNCHANGED <<reg, row, lock, fails, torn, older>>

(* Faulty: no guard; and an error code taken as a pause reason.              *)
ValidateBeginsUnguarded(h) ==
    /\ "validate" \in Operations /\ pc[h] = "idle" /\ reg[Api] # "absent"
    /\ row # NoRow
    /\ Goes(h, "validating") /\ Keeps
    /\ UNCHANGED <<file, reg, row, lock, fails, torn, older>>
ValidateReadsAnyError(h) ==
    /\ pc[h] = "validating"
    /\ \E o \in Outcomes : got' = [got EXCEPT ![h] = o]
    /\ Loads(h) /\ Goes(h, "validate")
    /\ UNCHANGED <<file, reg, row, lock, cfg, fails, torn, older>>

(* validate_session: the guard, the remote call, the second session.         *)
ValidateBegins(h) ==
    /\ "validate" \in Operations /\ pc[h] = "idle" /\ reg[Api] # "absent"
    /\ row # NoRow /\ row.reason # "admin_disabled"
    /\ Goes(h, "validating") /\ Keeps
    /\ UNCHANGED <<file, reg, row, lock, fails, torn, older>>

ValidateReads(h) ==
    /\ pc[h] = "validating"
    /\ \E o \in Outcomes \ {"transient"} : got' = [got EXCEPT ![h] = o]
    /\ Loads(h) /\ Goes(h, "validate")
    /\ UNCHANGED <<file, reg, row, lock, cfg, fails, torn, older>>

Validated(r, o) ==
    IF o = "success"
    THEN IF r.reason = "auth_expired" THEN Lifted(r) ELSE r
    ELSE Paused(r, o)

ValidateCommits(h) ==
    /\ pc[h] = "validate"
    /\ Commits(h, Validated(snap[h], got[h]))
    /\ Ends(h, "idle") /\ Leaves(h)
    /\ UNCHANGED <<file, reg, lock, fails>>

(* A request ends early: it raises, it is cancelled, or the API stops.       *)
HandlerStops(h) ==
    /\ pc[h] # "idle"
    /\ UNCHANGED <<file, reg, row, lock, fails, torn>>
    /\ Ends(h, "idle") /\ Leaves(h)

-----------------------------------------------------------------------------
(* fetch_account, in a worker.  The item may have been queued at any time.   *)
FetchBegins(w) ==
    /\ pc[w] = "idle" /\ reg[w] = "enabled"
    /\ lock = NoOne /\ lock' = w
    /\ Goes(w, "start") /\ Keeps
    /\ UNCHANGED <<file, reg, row, fails, torn, older>>

(* In a backoff, in quiet hours and before it is due it is skipped as well.  *)
FetchStarts(w) ==
    /\ pc[w] = "start"
    /\ \/ row # NoRow /\ row.status = "enabled" /\ Goes(w, "fetching") /\ got' = got
       \/ Goes(w, "release") /\ got' = got
       \/ row = NoRow /\ Goes(w, "marking") /\ got' = [got EXCEPT ![w] = "transient"]
    /\ UNCHANGED <<file, reg, row, lock, cfg, snap, fails, torn, older>>

FetchEnds(w) ==
    /\ pc[w] = "fetching"
    /\ \E o \in Outcomes : got' = [got EXCEPT ![w] = o]
    /\ Goes(w, "marking")
    /\ UNCHANGED <<file, reg, row, lock, cfg, snap, fails, torn, older>>

MarkReads(w) ==
    /\ pc[w] = "marking"
    /\ Loads(w) /\ Goes(w, "mark")
    /\ UNCHANGED <<file, reg, row, lock, cfg, got, fails, torn, older>>

Success(r) == [IF r.reason = "repeated_failures" THEN Lifted(r) ELSE r EXCEPT !.streak = 0]

MarkSuccess(w) ==
    /\ pc[w] = "mark" /\ got[w] = "success"
    /\ Commits(w, Success(snap[w])) /\ fails' = 0
    /\ Goes(w, "marked") /\ Keeps /\ Stays
    /\ UNCHANGED <<file, reg, lock>>

(* What raises in the try of fetch_account is marked as a failure: the row   *)
(* is gone when success is to be marked, or the follower snapshot that       *)
(* follows the mark raises.                                                  *)
SuccessRaises(w) ==
    /\ \/ pc[w] \in {"marking", "mark"} /\ got[w] = "success" /\ row = NoRow
       \/ pc[w] = "marked"
    /\ got' = [got EXCEPT ![w] = "transient"]
    /\ Goes(w, "marking")
    /\ UNCHANGED <<file, reg, row, lock, cfg, snap, fails, torn, older>>

(* The streak is counted up to the only value it is compared with.           *)
Counted(n) == IF n < PauseAfterFailures THEN n + 1 ELSE n

Failure(r, o) ==
    LET counted == [r EXCEPT !.streak = Counted(@)] IN
    IF o # "transient" THEN Paused(counted, o)
    ELSE IF counted.streak >= PauseAfterFailures THEN Paused(counted, "repeated_failures")
    ELSE counted

MarkFailure(w) ==
    /\ pc[w] = "mark" /\ got[w] # "success"
    /\ Commits(w, Failure(snap[w], got[w]))
    /\ fails' = IF fails = Unknown THEN Unknown ELSE Counted(fails)
    /\ Goes(w, "release") /\ Keeps /\ Stays
    /\ UNCHANGED <<file, reg, lock>>

Release(w) ==
    /\ pc[w] \in {"marked", "release"}
    /\ UNCHANGED <<file, reg, row, fails, torn>>
    /\ Free(w) /\ Ends(w, "idle") /\ Leaves(w)

(* The process and its registry are gone.                                    *)
Dies(w) == Ends(w, "dead") /\ Leaves(w) /\ reg' = [reg EXCEPT ![w] = "absent"]

(* Nothing in run_worker catches what reload_configs raises, or what         *)
(* _mark_fetch_failure raises when the row is gone.                          *)
FailureRaises(w) == pc[w] \in {"marking", "mark"} /\ got[w] # "success" /\ row = NoRow
WorkerRaises(w) ==
    /\ ReloadRaises(w) \/ RemovalRaises(w) \/ FailureRaises(w)
    /\ UNCHANGED <<file, row, fails, torn>>
    /\ Free(w) /\ Dies(w)

(* A stop of the process leaves its lock to the TTL.                         *)
WorkerStops(w) ==
    /\ pc[w] # "dead"
    /\ UNCHANGED <<file, row, lock, fails, torn>>
    /\ Dies(w)

WorkerRestarts(w) ==
    /\ pc[w] = "dead"
    /\ Goes(w, "load") /\ Keeps
    /\ UNCHANGED <<file, reg, row, lock, fails, torn, older>>

LockExpires ==
    /\ lock # NoOne /\ lock' = NoOne
    /\ LockMayExpire \/ pc[lock] \notin Fetching
    /\ UNCHANGED <<file, reg, row, taskVars, fails, torn, older>>

-----------------------------------------------------------------------------
Reload(a) == ReloadReads(a) \/ ReloadInserts(a) \/ ReloadUpdates(a)
HandlerStep(h) ==
    \/ EditWrites(h) \/ ReloadLoads(h) \/ Reload(h)
    \/ DisableReads(h) \/ DisableCommits(h) \/ EnableReads(h) \/ EnableCommits(h)
    \/ DeleteCommits(h) \/ DeleteUnlinks(h)
    \/ ValidateBegins(h) \/ ValidateReads(h) \/ ValidateCommits(h)
    \/ HandlerStops(h)
WorkerStep(w) ==
    \/ ReloadLoads(w) \/ Reload(w)
    \/ FetchBegins(w) \/ FetchStarts(w) \/ FetchEnds(w)
    \/ MarkReads(w) \/ MarkSuccess(w) \/ SuccessRaises(w) \/ MarkFailure(w)
    \/ Release(w) \/ WorkerRaises(w)

Next ==
    \/ OperatorEdits \/ LockExpires
    \/ \E h \in Handlers : HandlerStep(h)
    \/ \E w \in Workers : WorkerStep(w) \/ WorkerStops(w) \/ WorkerRestarts(w)

(* A worker that runs goes on, remote calls time out, and its sweep timer,   *)
(* which is looked at before each dequeue, comes due again and again.        *)
Fairness == \A w \in Workers : WF_vars(WorkerStep(w)) /\ SF_vars(ReloadLoads(w))

Spec == Init /\ [][Next]_vars
FairSpec == Spec /\ Fairness

-----------------------------------------------------------------------------
TypeOK ==
    /\ file \in Configs /\ reg \in [Processes -> Configs]
    /\ row \in Rows \union {NoRow} /\ lock \in Workers \union {NoOne}
    /\ pc \in [Actors -> HandlerPlaces \union WorkerPlaces]
    /\ cfg \in [Actors -> Configs] /\ snap \in [Actors -> Rows \union {NoRow}]
    /\ got \in [Actors -> Outcomes]
    /\ fails \in {Unknown} \union 0 .. PauseAfterFailures
    /\ torn \in BOOLEAN /\ older \subseteq Actors

(* Status and pause reason agree, so that list_due_accounts (which looks at  *)
(* the status) and the branches of reload_configs and of the marks (which    *)
(* look at the reason) act on the same state.  They part only by a commit    *)
(* over a row that changed after it was loaded, and once a later commit has  *)
(* brought them together they do not part by themselves again.               *)
StatusMatchesReason == row # NoRow /\ ~torn => Agree(row)

(* The streak that pauses an account counts exactly the fetches that failed  *)
(* since the last success, whoever ran them and whatever else wrote the row  *)
(* meanwhile.  After a deletion it is unknown until a fetch succeeds.        *)
StreakCounts == row # NoRow /\ fails # Unknown => row.streak = fails

(* An admin's disable is lifted by an admin's enable, or gives way to the    *)
(* removal of the configuration or to something that was under way when the  *)
(* account was disabled, or its torn row repaired (a fetch or a validation   *)
(* that fails).  No operation that starts later undoes it.                   *)
DisableKept ==
    /\ row # NoRow /\ row.reason = "admin_disabled"
    /\ row' # NoRow /\ row'.reason # "admin_disabled"
    /\ ~torn /\ ~torn'
    => \E a \in Actors :
          /\ pc'[a] # pc[a]
          /\ \/ a \in older \/ pc[a] = "enable"
             \/ pc[a] = "reload" /\ cfg[a] = "absent"
AdminDisableHolds == [][DisableKept]_vars

(* reload_configs keeps an account disabled that an admin disabled, while    *)
(* its configuration is there                                                *)
(* (test_reload_configs_preserves_admin_disabled_accounts).                  *)
ReloadPreservesDisable ==
    [][ \A a \in Actors :
          /\ pc[a] = "reload" /\ pc'[a] = "idle" /\ cfg[a] # "absent"
          /\ row # NoRow /\ row.reason = "admin_disabled"
          => row'.reason = "admin_disabled" ]_vars

SomeWorkerLives == \E w \in Workers : <>[](pc[w] # "dead")

(* A disable that lost half of its update to a concurrent enable leaves an   *)
(* account that is disabled but still fetched; the sweep of any worker that  *)
(* lives on pauses it.                                                       *)
DisabledIsPaused == row # NoRow /\ row.reason = "admin_disabled" => row.status = "paused"
DisableHeals == SomeWorkerLives => []<>DisabledIsPaused

(* A configuration that is removed for good stops the account, and one that  *)
(* is put back releases it, whatever stale registries wrote in between, as   *)
(* long as some worker lives on to sweep.                                    *)
Stopped == row = NoRow \/ row.status = "paused"
Released == row # NoRow /\ row.reason # "config_removed"
ConfigurationApplied ==
    SomeWorkerLives =>
        /\ <>[](file = "absent") => []<>Stopped
        /\ <>[](file # "absent") => []<>Released
=============================================================================
