------------------------- MODULE AccountStateProofs -------------------------
(* What holds of AccountState for any handlers, workers, requested           *)
(* operations, configurations and pause threshold.                           *)
EXTENDS AccountState, TLAPS

(* What the methods compute from a row: again a row, and one whose status    *)
(* and reason agree if they did before.                                      *)
LEMMA DefaultRow ==
    ASSUME NEW c \in Configs \ {"absent"}
    PROVE  /\ Default(c) \in Rows /\ Agree(Default(c))
           /\ Default(c).streak = 0 /\ Default(c).reason # "admin_disabled"
  BY StateAssumption DEF Default, Rows, Reasons, Configs, Agree

LEMMA PausedRow ==
    ASSUME NEW r \in Rows, NEW why \in Reasons \ {"none"}
    PROVE  /\ Paused(r, why) \in Rows /\ Agree(Paused(r, why))
           /\ Paused(r, why).streak = r.streak /\ Paused(r, why).reason = why
  BY StateAssumption DEF Paused, Rows, Reasons, Agree

LEMMA LiftedRow ==
    ASSUME NEW r \in Rows
    PROVE  /\ Lifted(r) \in Rows /\ Agree(Lifted(r)) /\ Lifted(r).streak = r.streak
           /\ Lifted(r).reason = "none"
  BY StateAssumption DEF Lifted, Rows, Reasons, Agree

(* A reload keeps the streak, and the reason of an admin's disable while     *)
(* there is a configuration.                                                 *)
LEMMA ReloadedRow ==
    ASSUME NEW r \in Rows, NEW c \in Configs
    PROVE  /\ Reloaded(r, c) \in Rows
           /\ Agree(r) => Agree(Reloaded(r, c))
           /\ Reloaded(r, c).streak = r.streak
           /\ r.reason = "admin_disabled" /\ c # "absent" => Reloaded(r, c).reason = "admin_disabled"
           /\ Reloaded(r, c).reason = "admin_disabled" => r.reason = "admin_disabled"
<1>1. CASE c = "absent"
  <2>1. Reloaded(r, c) = Paused(r, "config_removed")
    BY <1>1 DEF Reloaded
  <2>. QED BY <1>1, <2>1, PausedRow DEF Reasons
<1>2. CASE c # "absent" /\ r.reason = "config_removed"
  <2>1. Reloaded(r, c) = [Default(c) EXCEPT !.streak = r.streak]
    BY <1>2 DEF Reloaded
  <2>. QED BY <1>2, <2>1, StateAssumption DEF Default, Rows, Reasons, Configs, Agree
<1>3. CASE c # "absent" /\ r.reason = "admin_disabled"
  <2>1. Reloaded(r, c) = [r EXCEPT !.status = "paused"]
    BY <1>3 DEF Reloaded
  <2>. QED BY <1>3, <2>1, StateAssumption DEF Rows, Reasons, Agree
<1>4. CASE c = "disabled" /\ r.reason \notin {"config_removed", "admin_disabled"}
  <2>1. Reloaded(r, c) = Paused(r, "manual")
    BY <1>4 DEF Reloaded
  <2>. QED BY <1>4, <2>1, PausedRow DEF Reasons
<1>5. CASE c = "enabled" /\ r.reason = "manual" /\ r.status = "paused"
  <2>1. Reloaded(r, c) = Lifted(r)
    BY <1>5 DEF Reloaded
  <2>. QED BY <1>5, <2>1, LiftedRow DEF Reasons
<1>6. CASE /\ c = "enabled" /\ r.reason \notin {"config_removed", "admin_disabled"}
           /\ ~ (r.reason = "manual" /\ r.status = "paused")
  <2>1. Reloaded(r, c) = r
    BY <1>6 DEF Reloaded
  <2>. QED BY <1>6, <2>1
<1>. QED BY <1>1, <1>2, <1>3, <1>4, <1>5, <1>6 DEF Configs

LEMMA ValidatedRow ==
    ASSUME NEW r \in Rows, NEW o \in Outcomes \ {"transient"}
    PROVE  /\ Validated(r, o) \in Rows
           /\ Agree(r) => Agree(Validated(r, o))
           /\ Validated(r, o).streak = r.streak
           /\ Validated(r, o).reason = "admin_disabled" => r.reason = "admin_disabled"
<1>1. CASE o = "success" /\ r.reason = "auth_expired"
  BY <1>1, LiftedRow DEF Validated
<1>2. CASE o = "success" /\ r.reason # "auth_expired"
  BY <1>2 DEF Validated
<1>3. CASE o # "success"
  <2>1. o \in Reasons \ {"none", "admin_disabled"}
    BY <1>3 DEF Outcomes, Reasons
  <2>. QED BY <1>3, <2>1, PausedRow DEF Validated
<1>. QED BY <1>1, <1>2, <1>3

LEMMA SuccessRow ==
    ASSUME NEW r \in Rows
    PROVE  /\ Success(r) \in Rows
           /\ Agree(r) => Agree(Success(r))
           /\ Success(r).streak = 0
           /\ Success(r).reason = "admin_disabled" => r.reason = "admin_disabled"
<1>. DEFINE base == IF r.reason = "repeated_failures" THEN Lifted(r) ELSE r
<1>1. /\ base \in Rows
      /\ Agree(r) => Agree(base)
      /\ base.reason = "admin_disabled" => r.reason = "admin_disabled"
  BY LiftedRow
<1>. HIDE DEF base
<1>2. Success(r) = [base EXCEPT !.streak = 0]
  BY DEF Success, base
<1>. QED BY <1>1, <1>2, StateAssumption DEF Rows, Agree

LEMMA FailureRow ==
    ASSUME NEW r \in Rows, NEW o \in Outcomes \ {"success"}
    PROVE  /\ Failure(r, o) \in Rows
           /\ Agree(r) => Agree(Failure(r, o))
           /\ Failure(r, o).streak = Counted(r.streak)
           /\ Failure(r, o).reason = "admin_disabled" => r.reason = "admin_disabled"
<1>. DEFINE counted == [r EXCEPT !.streak = Counted(@)]
<1>1. /\ counted \in Rows /\ counted.status = r.status /\ counted.reason = r.reason
      /\ counted.streak = Counted(r.streak)
  BY StateAssumption DEF Rows, Counted
<1>. HIDE DEF counted
<1>2. Failure(r, o) = IF o # "transient" THEN Paused(counted, o)
                      ELSE IF counted.streak >= PauseAfterFailures
                           THEN Paused(counted, "repeated_failures") ELSE counted
  BY DEF Failure, counted
<1>3. o # "transient" => o \in Reasons \ {"none", "admin_disabled"}
  BY DEF Outcomes, Reasons
<1>4. "repeated_failures" \in Reasons \ {"none", "admin_disabled"}
  BY DEF Reasons
<1>. QED BY <1>1, <1>2, <1>3, <1>4, PausedRow DEF Agree

-----------------------------------------------------------------------------
(* What a commit does to the row, whatever the row holds by then.            *)
LEMMA CommitRow ==
    ASSUME TypeOK, NEW a \in Actors, NEW new \in Rows, snap[a] \in Rows, Commits(a, new)
    PROVE  /\ row \in Rows /\ row' \in Rows /\ torn' \in BOOLEAN
           /\ torn /\ ~torn' => Agree(row')
           /\ new.streak = snap[a].streak => row'.streak = row.streak
           /\ new.streak # snap[a].streak => row'.streak = new.streak
           /\ row'.reason = "admin_disabled"
                  => \/ row.reason = "admin_disabled"
                     \/ new.reason = "admin_disabled" /\ snap[a].reason # "admin_disabled"
<1>1. row \in Rows /\ torn \in BOOLEAN
  BY DEF TypeOK, Commits
<1>2. /\ row'.status = IF new.status # snap[a].status THEN new.status ELSE row.status
      /\ row'.reason = IF new.reason # snap[a].reason THEN new.reason ELSE row.reason
      /\ row'.streak = IF new.streak # snap[a].streak THEN new.streak ELSE row.streak
  BY DEF Commits, Written, Column
<1>3. row' \in Rows
  BY <1>1 DEF Commits, Written, Column, Rows
<1>4. torn' \in BOOLEAN /\ (torn /\ ~torn' => Agree(row'))
  BY <1>1 DEF Commits, Tears
<1>. QED BY <1>1, <1>2, <1>3, <1>4

(* Unless it is torn, a commit either leaves status and reason alone or      *)
(* takes them from the row as it is to what the method computed.             *)
LEMMA CommitUntorn ==
    ASSUME TypeOK, NEW a \in Actors, NEW new \in Rows, snap[a] \in Rows, Commits(a, new), ~torn'
    PROVE  \/ row'.status = row.status /\ row'.reason = row.reason
           \/ /\ snap[a].status = row.status /\ snap[a].reason = row.reason
              /\ row'.status = new.status /\ row'.reason = new.reason
<1>1. /\ row'.status = IF new.status # snap[a].status THEN new.status ELSE row.status
      /\ row'.reason = IF new.reason # snap[a].reason THEN new.reason ELSE row.reason
  BY DEF Commits, Written, Column
<1>2. ~Tears(a, new)
  BY DEF Commits
<1>3. \/ row.status = snap[a].status /\ row.reason = snap[a].reason
      \/ new.status = snap[a].status /\ new.reason = snap[a].reason
  BY <1>2 DEF Tears, Visible
<1>. QED BY <1>1, <1>3

-----------------------------------------------------------------------------
(* Whoever is about to commit has loaded a row; a validation has no          *)
(* transient outcome.                                                        *)
Locals ==
    \A a \in Actors :
        /\ pc[a] \in {"disable", "enable", "validate", "mark"} => snap[a] # NoRow
        /\ pc[a] = "validate" => got[a] # "transient"
TInv == TypeOK /\ Locals

(* The row a committing method computed.                                     *)
NewRow(a) ==
    CASE pc[a] = "reload" -> Reloaded(snap[a], cfg[a])
      [] pc[a] = "disable" -> Paused(snap[a], "admin_disabled")
      [] pc[a] = "enable" -> IF cfg[a] = "enabled" THEN Lifted(snap[a]) ELSE Paused(snap[a], "manual")
      [] pc[a] = "validate" -> Validated(snap[a], got[a])
      [] pc[a] = "mark" /\ got[a] = "success" -> Success(snap[a])
      [] OTHER -> Failure(snap[a], got[a])

CommitPlaces == {"reload", "disable", "enable", "validate", "mark"}
(* A step that commits what its actor computed.                              *)
CommitStep(a) == pc[a] \in CommitPlaces /\ snap[a] # NoRow /\ Commits(a, NewRow(a))

(* Whoever fetches or validates when a torn row is made whole is noted.      *)
Lingering == {"validating", "validate", "fetching", "marking", "mark", "marked"}
Noted == torn /\ ~torn' => \A b \in Actors : pc'[b] \in Lingering => b \in older'

CommittedBy(a) ==
    /\ Noted /\ CommitStep(a) /\ pc'[a] # pc[a]
    /\ pc[a] = "disable" => DisableCommits(a)

LEMMA NewRowOK ==
    ASSUME TInv, NEW a \in Actors, pc[a] \in CommitPlaces, snap[a] # NoRow
    PROVE  /\ snap[a] \in Rows /\ NewRow(a) \in Rows
           /\ Agree(snap[a]) => Agree(NewRow(a))
           /\ pc[a] # "mark" => NewRow(a).streak = snap[a].streak
           /\ pc[a] = "mark" => NewRow(a).streak = IF got[a] = "success" THEN 0
                                                   ELSE Counted(snap[a].streak)
           /\ NewRow(a).reason = "admin_disabled" =>
                 pc[a] = "disable" \/ snap[a].reason = "admin_disabled"
           /\ pc[a] = "disable" => NewRow(a).reason = "admin_disabled"
           /\ pc[a] = "reload" /\ cfg[a] # "absent" /\ snap[a].reason = "admin_disabled"
                 => NewRow(a).reason = "admin_disabled"
<1>1. snap[a] \in Rows /\ cfg[a] \in Configs /\ got[a] \in Outcomes
  BY DEF TInv, TypeOK
<1>2. CASE pc[a] = "reload"
  <2>1. NewRow(a) = Reloaded(snap[a], cfg[a])
    BY <1>2 DEF NewRow
  <2>. QED BY <1>1, <1>2, <2>1, ReloadedRow
<1>3. CASE pc[a] = "disable"
  <2>1. NewRow(a) = Paused(snap[a], "admin_disabled")
    BY <1>3 DEF NewRow
  <2>. QED BY <1>1, <1>3, <2>1, PausedRow DEF Reasons
<1>4. CASE pc[a] = "enable"
  <2>1. NewRow(a) = IF cfg[a] = "enabled" THEN Lifted(snap[a]) ELSE Paused(snap[a], "manual")
    BY <1>4 DEF NewRow
  <2>. QED BY <1>1, <1>4, <2>1, PausedRow, LiftedRow DEF Reasons
<1>5. CASE pc[a] = "validate"
  <2>1. NewRow(a) = Validated(snap[a], got[a])
    BY <1>5 DEF NewRow
  <2>2. got[a] \in Outcomes \ {"transient"}
    BY <1>1, <1>5 DEF TInv, Locals
  <2>. QED BY <1>1, <1>5, <2>1, <2>2, ValidatedRow
<1>6. CASE pc[a] = "mark" /\ got[a] = "success"
  <2>1. NewRow(a) = Success(snap[a])
    BY <1>6 DEF NewRow
  <2>. QED BY <1>1, <1>6, <2>1, SuccessRow
<1>7. CASE pc[a] = "mark" /\ got[a] # "success"
  <2>1. NewRow(a) = Failure(snap[a], got[a])
    BY <1>7 DEF NewRow
  <2>2. got[a] \in Outcomes \ {"success"}
    BY <1>1, <1>7
  <2>. QED BY <1>1, <1>7, <2>1, <2>2, FailureRow
<1>. QED BY <1>2, <1>3, <1>4, <1>5, <1>6, <1>7 DEF CommitPlaces

(* Every step that changes the row is a commit, an insertion or a deletion.  *)
LEMMA RowSteps ==
    ASSUME TInv, Next
    PROVE  \/ UNCHANGED <<row, torn>>
           \/ \E a \in Actors : CommittedBy(a)
           \/ /\ row = NoRow /\ UNCHANGED <<torn, fails>>
              /\ \E c \in Configs \ {"absent"} : row' = Default(c)
           \/ row' = NoRow /\ fails' = Unknown /\ torn' = torn
<1>1. \A a \in Actors : cfg[a] \in Configs /\ pc \in [Actors -> HandlerPlaces \union WorkerPlaces]
  BY DEF TInv, TypeOK
<1>2. CASE \E a \in Actors : ReloadInserts(a)
  BY <1>1, <1>2 DEF ReloadInserts
<1>3. CASE \E a \in Actors : ReloadUpdates(a)
  <2>1. PICK a \in Actors : ReloadUpdates(a)
    BY <1>3
  <2>2. CommitStep(a)
    BY <2>1 DEF ReloadUpdates, CommitStep, NewRow, CommitPlaces
  <2>3. pc'[a] # pc[a]
    BY <1>1, <2>1 DEF ReloadUpdates, Ends, Goes
  <2>5. Noted
    BY <1>1, <2>1 DEF ReloadUpdates, Noted, Lingering, Busy, Goes, Ends, Leaves
  <2>. QED BY <2>1, <2>2, <2>3, <2>5 DEF CommittedBy, ReloadUpdates
<1>4. CASE \E h \in Handlers : DisableCommits(h)
  <2>1. PICK h \in Handlers : DisableCommits(h)
    BY <1>4
  <2>2. h \in Actors /\ snap[h] # NoRow
    BY <2>1 DEF DisableCommits, TInv, Locals, Actors
  <2>3. CommitStep(h)
    BY <2>1, <2>2 DEF DisableCommits, CommitStep, NewRow, CommitPlaces
  <2>4. pc'[h] # pc[h]
    BY <1>1, <2>1, <2>2 DEF DisableCommits, Ends, Goes
  <2>5. Noted
    BY <1>1, <2>1 DEF DisableCommits, Noted, Lingering, Busy, Goes, Ends, Leaves
  <2>. QED BY <2>1, <2>2, <2>3, <2>4, <2>5 DEF CommittedBy
<1>5. CASE \E h \in Handlers : EnableCommits(h)
  <2>1. PICK h \in Handlers : EnableCommits(h)
    BY <1>5
  <2>2. h \in Actors /\ snap[h] # NoRow
    BY <2>1 DEF EnableCommits, TInv, Locals, Actors
  <2>3. CommitStep(h)
    BY <2>1, <2>2 DEF EnableCommits, CommitStep, NewRow, CommitPlaces
  <2>4. pc'[h] # pc[h]
    BY <1>1, <2>1, <2>2 DEF EnableCommits, Ends, Goes
  <2>5. Noted
    BY <1>1, <2>1 DEF EnableCommits, Noted, Lingering, Busy, Goes, Ends, Leaves
  <2>. QED BY <2>1, <2>2, <2>3, <2>4, <2>5 DEF CommittedBy, EnableCommits
<1>6. CASE \E h \in Handlers : ValidateCommits(h)
  <2>1. PICK h \in Handlers : ValidateCommits(h)
    BY <1>6
  <2>2. h \in Actors /\ snap[h] # NoRow
    BY <2>1 DEF ValidateCommits, TInv, Locals, Actors
  <2>3. CommitStep(h)
    BY <2>1, <2>2 DEF ValidateCommits, CommitStep, NewRow, CommitPlaces
  <2>4. pc'[h] # pc[h]
    BY <1>1, <2>1, <2>2 DEF ValidateCommits, Ends, Goes
  <2>5. Noted
    BY <1>1, <2>1 DEF ValidateCommits, Noted, Lingering, Busy, Goes, Ends, Leaves
  <2>. QED BY <2>1, <2>2, <2>3, <2>4, <2>5 DEF CommittedBy, ValidateCommits
<1>7. CASE \E w \in Workers : MarkSuccess(w)
  <2>1. PICK w \in Workers : MarkSuccess(w)
    BY <1>7
  <2>2. w \in Actors /\ snap[w] # NoRow
    BY <2>1 DEF MarkSuccess, TInv, Locals, Actors
  <2>3. CommitStep(w)
    BY <2>1, <2>2 DEF MarkSuccess, CommitStep, NewRow, CommitPlaces
  <2>4. pc'[w] # pc[w]
    BY <1>1, <2>1, <2>2 DEF MarkSuccess, Goes
  <2>5. Noted
    BY <1>1, <2>1 DEF MarkSuccess, Noted, Lingering, Busy, Goes, Stays
  <2>. QED BY <2>1, <2>2, <2>3, <2>4, <2>5 DEF CommittedBy, MarkSuccess
<1>8. CASE \E w \in Workers : MarkFailure(w)
  <2>1. PICK w \in Workers : MarkFailure(w)
    BY <1>8
  <2>2. w \in Actors /\ snap[w] # NoRow
    BY <2>1 DEF MarkFailure, TInv, Locals, Actors
  <2>3. CommitStep(w)
    BY <2>1, <2>2 DEF MarkFailure, CommitStep, NewRow, CommitPlaces
  <2>4. pc'[w] # pc[w]
    BY <1>1, <2>1, <2>2 DEF MarkFailure, Goes
  <2>5. Noted
    BY <1>1, <2>1 DEF MarkFailure, Noted, Lingering, Busy, Goes, Stays
  <2>. QED BY <2>1, <2>2, <2>3, <2>4, <2>5 DEF CommittedBy, MarkFailure
<1>9. CASE \E h \in Handlers : DeleteCommits(h)
  BY <1>9 DEF DeleteCommits
<1>10. CASE \E h \in Handlers : \/ EditWrites(h) \/ DisableReads(h) \/ EnableReads(h)
                               \/ DeleteUnlinks(h) \/ ValidateBegins(h) \/ ValidateReads(h)
                               \/ HandlerStops(h)
  BY <1>10 DEF EditWrites, DisableReads, EnableReads, DeleteUnlinks, ValidateBegins,
               ValidateReads, HandlerStops
<1>11. CASE \E w \in Workers : \/ FetchBegins(w) \/ FetchStarts(w) \/ FetchEnds(w)
                              \/ MarkReads(w) \/ SuccessRaises(w) \/ Release(w)
                              \/ WorkerRaises(w) \/ WorkerStops(w) \/ WorkerRestarts(w)
  BY <1>11 DEF FetchBegins, FetchStarts, FetchEnds, MarkReads, SuccessRaises, Release,
               WorkerRaises, WorkerStops, WorkerRestarts
<1>12. CASE \E a \in Actors : ReloadLoads(a) \/ ReloadReads(a)
  BY <1>12 DEF ReloadLoads, ReloadReads
<1>13. CASE OperatorEdits \/ LockExpires
  BY <1>13 DEF OperatorEdits, LockExpires
<1>. QED BY <1>2, <1>3, <1>4, <1>5, <1>6, <1>7, <1>8, <1>9, <1>10, <1>11, <1>12, <1>13
         DEF Next, HandlerStep, WorkerStep, Reload, Actors

-----------------------------------------------------------------------------
(* The part of TInv that is not about the row.                               *)
Rest ==
    /\ file \in Configs /\ reg \in [Processes -> Configs]
    /\ lock \in Workers \union {NoOne}
    /\ pc \in [Actors -> HandlerPlaces \union WorkerPlaces]
    /\ cfg \in [Actors -> Configs] /\ snap \in [Actors -> Rows \union {NoRow}]
    /\ got \in [Actors -> Outcomes]
    /\ fails \in {Unknown} \union 0 .. PauseAfterFailures
    /\ older \subseteq Actors
    /\ Locals

LEMMA RowTyped == ASSUME TInv, Next PROVE row' \in Rows \union {NoRow} /\ torn' \in BOOLEAN
<1>1. row \in Rows \union {NoRow} /\ torn \in BOOLEAN
  BY DEF TInv, TypeOK
<1>2. ASSUME NEW a \in Actors, CommittedBy(a) PROVE row' \in Rows /\ torn' \in BOOLEAN
  BY <1>2, NewRowOK, CommitRow DEF CommittedBy, CommitStep, TInv
<1>. QED BY <1>1, <1>2, RowSteps, DefaultRow

LEMMA RestStep == ASSUME TInv, [Next]_vars PROVE Rest'
<1>. Rest /\ row \in Rows \union {NoRow} /\ torn \in BOOLEAN
  BY DEF TInv, TypeOK, Rest
<1>a. \A a \in Actors : ProcessOf(a) \in Processes
  BY DEF Actors, ProcessOf, Processes
<1>b. Handlers \subseteq Actors /\ Workers \subseteq Actors /\ Workers \subseteq Processes
      /\ "enabled" \in Configs /\ "disabled" \in Configs /\ "absent" \in Configs
      /\ "success" \in Outcomes /\ "transient" \in Outcomes
      /\ Api \in Processes /\ Files \subseteq Configs
  BY StateAssumption DEF Actors, Processes, Configs, Outcomes
<1>c. \A n \in 0 .. PauseAfterFailures : Counted(n) \in 0 .. PauseAfterFailures
  BY StateAssumption DEF Counted
<1>d. 0 \in 0 .. PauseAfterFailures
  BY StateAssumption
<1>. USE <1>a, <1>b DEF Rest, Locals, Goes, Keeps, Ends, Loads, Leaves, Stays, Busy, Free, Dies
<1>1. ASSUME NEW h \in Handlers, EditWrites(h) PROVE Rest'
  BY <1>1 DEF EditWrites, HandlerPlaces, WorkerPlaces, Reloading, Fetching
<1>2. ASSUME NEW h \in Handlers, DisableReads(h) PROVE Rest'
  BY <1>2 DEF DisableReads, HandlerPlaces, WorkerPlaces, Reloading, Fetching
<1>3. ASSUME NEW h \in Handlers, DisableCommits(h) PROVE Rest'
  BY <1>3 DEF DisableCommits, HandlerPlaces, WorkerPlaces, Reloading, Fetching
<1>4. ASSUME NEW h \in Handlers, EnableReads(h) PROVE Rest'
  BY <1>4 DEF EnableReads, HandlerPlaces, WorkerPlaces, Reloading, Fetching
<1>5. ASSUME NEW h \in Handlers, EnableCommits(h) PROVE Rest'
  BY <1>5 DEF EnableCommits, HandlerPlaces, WorkerPlaces, Reloading, Fetching
<1>6. ASSUME NEW h \in Handlers, DeleteCommits(h) PROVE Rest'
  BY <1>6 DEF DeleteCommits, HandlerPlaces, WorkerPlaces, Reloading, Fetching
<1>7. ASSUME NEW h \in Handlers, DeleteUnlinks(h) PROVE Rest'
  BY <1>7 DEF DeleteUnlinks, HandlerPlaces, WorkerPlaces, Reloading, Fetching
<1>8. ASSUME NEW h \in Handlers, ValidateBegins(h) PROVE Rest'
  BY <1>8 DEF ValidateBegins, HandlerPlaces, WorkerPlaces, Reloading, Fetching
<1>9. ASSUME NEW h \in Handlers, ValidateReads(h) PROVE Rest'
  BY <1>9 DEF ValidateReads, HandlerPlaces, WorkerPlaces, Reloading, Fetching
<1>10. ASSUME NEW h \in Handlers, ValidateCommits(h) PROVE Rest'
  BY <1>10 DEF ValidateCommits, HandlerPlaces, WorkerPlaces, Reloading, Fetching
<1>11. ASSUME NEW h \in Handlers, HandlerStops(h) PROVE Rest'
  BY <1>11 DEF HandlerStops, HandlerPlaces, WorkerPlaces, Reloading, Fetching
<1>12. ASSUME NEW a \in Actors, ReloadLoads(a) PROVE Rest'
  BY <1>12 DEF ReloadLoads, HandlerPlaces, WorkerPlaces, Reloading, Fetching
<1>13. ASSUME NEW a \in Actors, ReloadReads(a) PROVE Rest'
  BY <1>13 DEF ReloadReads, HandlerPlaces, WorkerPlaces, Reloading, Fetching
<1>14. ASSUME NEW a \in Actors, ReloadInserts(a) PROVE Rest'
  BY <1>14 DEF ReloadInserts, HandlerPlaces, WorkerPlaces, Reloading, Fetching
<1>15. ASSUME NEW a \in Actors, ReloadUpdates(a) PROVE Rest'
  BY <1>15 DEF ReloadUpdates, HandlerPlaces, WorkerPlaces, Reloading, Fetching
<1>16. ASSUME NEW w \in Workers, FetchBegins(w) PROVE Rest'
  BY <1>16 DEF FetchBegins, HandlerPlaces, WorkerPlaces, Reloading, Fetching
<1>17. ASSUME NEW w \in Workers, FetchStarts(w) PROVE Rest'
  BY <1>17 DEF FetchStarts, HandlerPlaces, WorkerPlaces, Reloading, Fetching
<1>18. ASSUME NEW w \in Workers, FetchEnds(w) PROVE Rest'
  BY <1>18 DEF FetchEnds, HandlerPlaces, WorkerPlaces, Reloading, Fetching
<1>19. ASSUME NEW w \in Workers, MarkReads(w) PROVE Rest'
  BY <1>19 DEF MarkReads, HandlerPlaces, WorkerPlaces, Reloading, Fetching
<1>20. ASSUME NEW w \in Workers, MarkSuccess(w) PROVE Rest'
  BY <1>d, <1>20 DEF MarkSuccess, HandlerPlaces, WorkerPlaces, Reloading, Fetching
<1>21. ASSUME NEW w \in Workers, SuccessRaises(w) PROVE Rest'
  BY <1>21 DEF SuccessRaises, HandlerPlaces, WorkerPlaces, Reloading, Fetching
<1>22. ASSUME NEW w \in Workers, MarkFailure(w) PROVE Rest'
  BY <1>c, <1>22 DEF MarkFailure, HandlerPlaces, WorkerPlaces, Reloading, Fetching
<1>23. ASSUME NEW w \in Workers, Release(w) PROVE Rest'
  BY <1>23 DEF Release, HandlerPlaces, WorkerPlaces, Reloading, Fetching
<1>24. ASSUME NEW w \in Workers, WorkerRaises(w) PROVE Rest'
  BY <1>24 DEF WorkerRaises, HandlerPlaces, WorkerPlaces, Reloading, Fetching
<1>25. ASSUME NEW w \in Workers, WorkerStops(w) PROVE Rest'
  BY <1>25 DEF WorkerStops, HandlerPlaces, WorkerPlaces, Reloading, Fetching
<1>26. ASSUME NEW w \in Workers, WorkerRestarts(w) PROVE Rest'
  BY <1>26 DEF WorkerRestarts, HandlerPlaces, WorkerPlaces, Reloading, Fetching
<1>27. CASE OperatorEdits \/ LockExpires
  BY <1>27 DEF OperatorEdits, LockExpires, taskVars
<1>28. CASE UNCHANGED vars
  BY <1>28 DEF vars, taskVars
<1>. QED BY <1>1, <1>2, <1>3, <1>4, <1>5, <1>6, <1>7, <1>8, <1>9, <1>10, <1>11, <1>12, <1>13, <1>14, <1>15, <1>16, <1>17, <1>18, <1>19, <1>20, <1>21, <1>22, <1>23, <1>24, <1>25, <1>26, <1>27, <1>28 DEF Next, HandlerStep, WorkerStep, Reload

-----------------------------------------------------------------------------
LEMMA StatusStep == ASSUME TInv, StatusMatchesReason, Next PROVE StatusMatchesReason'
<1>1. CASE UNCHANGED <<row, torn>>
  BY <1>1 DEF StatusMatchesReason
<1>2. ASSUME NEW a \in Actors, CommittedBy(a) PROVE StatusMatchesReason'
  <2>. SUFFICES ASSUME ~torn' PROVE Agree(row')
    BY DEF StatusMatchesReason
  <2>1. /\ snap[a] \in Rows /\ NewRow(a) \in Rows /\ Commits(a, NewRow(a))
        /\ Agree(snap[a]) => Agree(NewRow(a))
    BY <1>2, NewRowOK DEF CommittedBy, CommitStep
  <2>2. \/ row'.status = row.status /\ row'.reason = row.reason
        \/ /\ snap[a].status = row.status /\ snap[a].reason = row.reason
           /\ row'.status = NewRow(a).status /\ row'.reason = NewRow(a).reason
    BY <2>1, CommitUntorn DEF TInv
  <2>3. CASE torn
    BY <2>1, <2>3, CommitRow DEF TInv
  <2>4. CASE ~torn
    <3>1. Agree(row)
      BY <2>1, <2>4 DEF StatusMatchesReason, Commits
    <3>. QED BY <2>1, <2>2, <3>1 DEF Agree
  <2>. QED BY <2>3, <2>4
<1>3. ASSUME NEW c \in Configs \ {"absent"}, row' = Default(c) PROVE StatusMatchesReason'
  BY <1>3, DefaultRow DEF StatusMatchesReason
<1>4. CASE row' = NoRow
  BY <1>4 DEF StatusMatchesReason
<1>. QED BY <1>1, <1>2, <1>3, <1>4, RowSteps

(* While a disabled account's row is whole, whoever still fetches or         *)
(* validates it was under way when it was disabled.                          *)
Disabled == row # NoRow /\ row.reason = "admin_disabled" /\ ~torn
Quiet == Disabled => \A a \in Actors : pc[a] \in Lingering => a \in older

LEMMA DisabledBefore ==
    ASSUME TInv, Next, Disabled'
    PROVE  Disabled \/ (\E h \in Actors : DisableCommits(h)) \/ (torn /\ Noted)
<1>1. CASE UNCHANGED <<row, torn>>
  BY <1>1 DEF Disabled
<1>2. ASSUME NEW a \in Actors, CommittedBy(a)
      PROVE  Disabled \/ (\E h \in Actors : DisableCommits(h)) \/ (torn /\ Noted)
  <2>1. /\ snap[a] \in Rows /\ NewRow(a) \in Rows /\ Commits(a, NewRow(a))
        /\ NewRow(a).reason = "admin_disabled" =>
                 pc[a] = "disable" \/ snap[a].reason = "admin_disabled"
    BY <1>2, NewRowOK DEF CommittedBy, CommitStep
  <2>2. row'.reason = "admin_disabled"
                  => \/ row.reason = "admin_disabled"
                     \/ NewRow(a).reason = "admin_disabled" /\ snap[a].reason # "admin_disabled"
    BY <2>1, CommitRow DEF TInv
  <2>3. pc[a] = "disable" => \E h \in Actors : DisableCommits(h)
    BY <1>2 DEF CommittedBy
  <2>4. Noted
    BY <1>2 DEF CommittedBy
  <2>. QED BY <2>1, <2>2, <2>3, <2>4 DEF Disabled, Commits
<1>3. ASSUME NEW c \in Configs \ {"absent"}, row' = Default(c) PROVE FALSE
  BY <1>3, DefaultRow DEF Disabled
<1>4. CASE row' = NoRow
  BY <1>4 DEF Disabled
<1>. QED BY <1>1, <1>2, <1>3, <1>4, RowSteps

LEMMA QuietStep == ASSUME TInv, StatusMatchesReason, Quiet, Next PROVE Quiet'
<1>. SUFFICES ASSUME Disabled', NEW b \in Actors, pc'[b] \in Lingering PROVE b \in older'
  BY DEF Quiet
<1>a. pc \in [Actors -> HandlerPlaces \union WorkerPlaces] /\ ~torn'
  BY DEF TInv, TypeOK, Disabled
<1>b. Handlers \subseteq Actors /\ Workers \subseteq Actors
  BY DEF Actors
<1>1. CASE \E h \in Actors : DisableCommits(h)
  BY <1>1, <1>a DEF DisableCommits, Ends, Goes, Busy, Lingering
<1>2. CASE Disabled /\ ~ \E h \in Actors : DisableCommits(h)
  <2>. row # NoRow /\ row.reason = "admin_disabled" /\ row.status # "enabled" /\ ~torn
    BY <1>2 DEF Disabled, StatusMatchesReason, Agree
  <2>. pc[b] \in Lingering => b \in older
    BY <1>2 DEF Quiet
  <2>. USE <1>a, <1>b DEF Goes, Keeps, Ends, Leaves, Stays, Dies, Lingering
  <2>1. ASSUME NEW h \in Handlers, EditWrites(h) PROVE b \in older'
    BY <2>1 DEF EditWrites
  <2>2. ASSUME NEW h \in Handlers, EnableReads(h) PROVE b \in older'
    BY <2>2 DEF EnableReads
  <2>3. ASSUME NEW h \in Handlers, EnableCommits(h) PROVE b \in older'
    BY <2>3 DEF EnableCommits
  <2>4. ASSUME NEW h \in Handlers, DisableReads(h) PROVE b \in older'
    BY <2>4 DEF DisableReads
  <2>5. ASSUME NEW h \in Handlers, DeleteCommits(h) PROVE b \in older'
    BY <2>5 DEF DeleteCommits
  <2>6. ASSUME NEW h \in Handlers, DeleteUnlinks(h) PROVE b \in older'
    BY <2>6 DEF DeleteUnlinks
  <2>7. ASSUME NEW h \in Handlers, ValidateBegins(h) PROVE b \in older'
    BY <2>7 DEF ValidateBegins
  <2>8. ASSUME NEW h \in Handlers, ValidateReads(h) PROVE b \in older'
    BY <2>8 DEF ValidateReads
  <2>9. ASSUME NEW h \in Handlers, ValidateCommits(h) PROVE b \in older'
    BY <2>9 DEF ValidateCommits
  <2>10. ASSUME NEW h \in Handlers, HandlerStops(h) PROVE b \in older'
    BY <2>10 DEF HandlerStops
  <2>11. ASSUME NEW a \in Actors, ReloadLoads(a) PROVE b \in older'
    BY <2>11 DEF ReloadLoads
  <2>12. ASSUME NEW a \in Actors, ReloadReads(a) PROVE b \in older'
    BY <2>12 DEF ReloadReads
  <2>13. ASSUME NEW a \in Actors, ReloadInserts(a) PROVE b \in older'
    BY <2>13 DEF ReloadInserts
  <2>14. ASSUME NEW a \in Actors, ReloadUpdates(a) PROVE b \in older'
    BY <2>14 DEF ReloadUpdates
  <2>15. ASSUME NEW w \in Workers, FetchBegins(w) PROVE b \in older'
    BY <2>15 DEF FetchBegins
  <2>16. ASSUME NEW w \in Workers, FetchStarts(w) PROVE b \in older'
    BY <2>16 DEF FetchStarts
  <2>17. ASSUME NEW w \in Workers, FetchEnds(w) PROVE b \in older'
    BY <2>17 DEF FetchEnds
  <2>18. ASSUME NEW w \in Workers, MarkReads(w) PROVE b \in older'
    BY <2>18 DEF MarkReads
  <2>19. ASSUME NEW w \in Workers, MarkSuccess(w) PROVE b \in older'
    BY <2>19 DEF MarkSuccess
  <2>20. ASSUME NEW w \in Workers, SuccessRaises(w) PROVE b \in older'
    BY <2>20 DEF SuccessRaises
  <2>21. ASSUME NEW w \in Workers, MarkFailure(w) PROVE b \in older'
    BY <2>21 DEF MarkFailure
  <2>22. ASSUME NEW w \in Workers, Release(w) PROVE b \in older'
    BY <2>22 DEF Release
  <2>23. ASSUME NEW w \in Workers, WorkerRaises(w) PROVE b \in older'
    BY <2>23 DEF WorkerRaises
  <2>24. ASSUME NEW w \in Workers, WorkerStops(w) PROVE b \in older'
    BY <2>24 DEF WorkerStops
  <2>25. ASSUME NEW w \in Workers, WorkerRestarts(w) PROVE b \in older'
    BY <2>25 DEF WorkerRestarts
  <2>26. CASE OperatorEdits \/ LockExpires
    BY <2>26 DEF OperatorEdits, LockExpires, taskVars
  <2>. QED BY <1>2, <2>1, <2>2, <2>3, <2>4, <2>5, <2>6, <2>7, <2>8, <2>9, <2>10, <2>11, <2>12, <2>13, <2>14, <2>15, <2>16, <2>17, <2>18, <2>19, <2>20, <2>21, <2>22, <2>23, <2>24, <2>25, <2>26 DEF Next, HandlerStep, WorkerStep, Reload
<1>3. CASE torn /\ Noted
  BY <1>3, <1>a DEF Noted
<1>. QED BY <1>1, <1>2, <1>3, DisabledBefore

-----------------------------------------------------------------------------
Inv == TInv /\ StatusMatchesReason /\ Quiet

LEMMA InitInv == Init => Inv
<1>. SUFFICES ASSUME Init PROVE Inv
  OBVIOUS
<1>1. row \in Rows /\ Agree(row) /\ row.reason # "admin_disabled"
  BY DefaultRow DEF Init, Configs
<1>2. TypeOK
  <2>1. "enabled" \in Configs /\ "absent" \in Configs /\ "success" \in Outcomes
        /\ "idle" \in HandlerPlaces /\ 0 \in 0 .. PauseAfterFailures
    BY StateAssumption DEF Configs, Outcomes, HandlerPlaces
  <2>. QED BY <1>1, <2>1 DEF Init, TypeOK
<1>3. Locals /\ StatusMatchesReason /\ Quiet
  BY <1>1 DEF Init, Locals, StatusMatchesReason, Quiet, Disabled
<1>. QED BY <1>2, <1>3 DEF Inv, TInv

LEMMA InvStep == Inv /\ [Next]_vars => Inv'
<1>. SUFFICES ASSUME Inv, [Next]_vars PROVE Inv'
  OBVIOUS
<1>1. CASE Next
  <2>1. Rest' /\ row' \in Rows \union {NoRow} /\ torn' \in BOOLEAN
    BY <1>1, RestStep, RowTyped DEF Inv
  <2>2. StatusMatchesReason' /\ Quiet'
    BY <1>1, StatusStep, QuietStep DEF Inv
  <2>. QED BY <2>1, <2>2 DEF Inv, TInv, TypeOK, Rest
<1>2. CASE UNCHANGED vars
  BY <1>2 DEF vars, taskVars, Inv, TInv, TypeOK, Locals, StatusMatchesReason, Quiet, Disabled
<1>. QED BY <1>1, <1>2

(* Types, places and locals are as declared.                                 *)
THEOREM TypeCorrect == Spec => []TypeOK
<1>1. Inv => TypeOK
  BY DEF Inv, TInv
<1>. QED BY <1>1, InitInv, InvStep, PTL DEF Spec

(* Status and pause reason of the account part only where a commit has       *)
(* overwritten what it had not seen: no method leaves them apart when it     *)
(* writes the row it has loaded.                                             *)
THEOREM StatusAgrees == Spec => []StatusMatchesReason
<1>1. Inv => StatusMatchesReason
  BY DEF Inv
<1>. QED BY <1>1, InitInv, InvStep, PTL DEF Spec

LEMMA KeptStep == Inv /\ [Next]_vars => [DisableKept]_vars
<1>. SUFFICES ASSUME Inv, Next,
                     row # NoRow, row.reason = "admin_disabled",
                     row' # NoRow, row'.reason # "admin_disabled", ~torn, ~torn'
              PROVE  \E a \in Actors :
                        /\ pc'[a] # pc[a]
                        /\ \/ a \in older \/ pc[a] = "enable"
                           \/ pc[a] = "reload" /\ cfg[a] = "absent"
  BY DEF DisableKept
<1>1. PICK a \in Actors : CommittedBy(a)
  BY RowSteps DEF Inv
<1>2. /\ snap[a] \in Rows /\ NewRow(a) \in Rows /\ Commits(a, NewRow(a))
      /\ pc'[a] # pc[a] /\ pc[a] \in CommitPlaces
      /\ pc[a] = "disable" => NewRow(a).reason = "admin_disabled"
      /\ pc[a] = "reload" /\ cfg[a] # "absent" /\ snap[a].reason = "admin_disabled"
            => NewRow(a).reason = "admin_disabled"
  BY <1>1, NewRowOK DEF CommittedBy, CommitStep, Inv
<1>3. snap[a].reason = "admin_disabled" /\ NewRow(a).reason # "admin_disabled" /\ ~torn
  BY <1>2, CommitUntorn, CommitRow DEF Inv, TInv
<1>4. pc[a] \in {"validate", "mark"} => a \in older
  BY <1>3 DEF Inv, Quiet, Disabled, Lingering
<1>. QED BY <1>2, <1>3, <1>4 DEF CommitPlaces

(* An admin's disable stands until an admin's enable, the removal of the     *)
(* configuration, a deletion, a lost update, or a failure of something that  *)
(* was under way when the account was disabled.                              *)
THEOREM DisableHolds == Spec => AdminDisableHolds
  BY InitInv, InvStep, KeptStep, PTL DEF Spec, AdminDisableHolds

-----------------------------------------------------------------------------
(* Fetches of one account do not overlap, as long as the lock outlasts them. *)
OneFetch == \A w \in Workers : pc[w] \in Fetching => lock = w

(* Whoever is about to mark a fetch has loaded the streak the row still has; *)
(* only a deletion and a new row can have come in between.                   *)
Counting ==
    /\ row = NoRow => fails = Unknown
    /\ StreakCounts
    /\ \A w \in Workers :
          pc[w] = "mark" /\ row # NoRow =>
              row.streak = snap[w].streak \/ (fails = Unknown /\ row.streak = 0)

LEMMA OneFetchStep == ASSUME LockMayExpire = FALSE, TInv, OneFetch, Next PROVE OneFetch'
<1>a. pc \in [Actors -> HandlerPlaces \union WorkerPlaces] /\ lock \in Workers \union {NoOne}
  BY DEF TInv, TypeOK
<1>b. /\ Handlers \subseteq Actors /\ Workers \subseteq Actors
      /\ NoOne \notin Workers /\ \A h \in Handlers : h \notin Workers
  BY StateAssumption DEF Actors
<1>. USE <1>a, <1>b DEF OneFetch, Fetching, Goes, Keeps, Ends, Free, Dies
<1>1. ASSUME NEW h \in Handlers, EditWrites(h) PROVE OneFetch'
  BY <1>1 DEF EditWrites
<1>2. ASSUME NEW h \in Handlers, DisableReads(h) PROVE OneFetch'
  BY <1>2 DEF DisableReads
<1>3. ASSUME NEW h \in Handlers, DisableCommits(h) PROVE OneFetch'
  BY <1>3 DEF DisableCommits
<1>4. ASSUME NEW h \in Handlers, EnableReads(h) PROVE OneFetch'
  BY <1>4 DEF EnableReads
<1>5. ASSUME NEW h \in Handlers, EnableCommits(h) PROVE OneFetch'
  BY <1>5 DEF EnableCommits
<1>6. ASSUME NEW h \in Handlers, DeleteCommits(h) PROVE OneFetch'
  BY <1>6 DEF DeleteCommits
<1>7. ASSUME NEW h \in Handlers, DeleteUnlinks(h) PROVE OneFetch'
  BY <1>7 DEF DeleteUnlinks
<1>8. ASSUME NEW h \in Handlers, ValidateBegins(h) PROVE OneFetch'
  BY <1>8 DEF ValidateBegins
<1>9. ASSUME NEW h \in Handlers, ValidateReads(h) PROVE OneFetch'
  BY <1>9 DEF ValidateReads
<1>10. ASSUME NEW h \in Handlers, ValidateCommits(h) PROVE OneFetch'
  BY <1>10 DEF ValidateCommits
<1>11. ASSUME NEW h \in Handlers, HandlerStops(h) PROVE OneFetch'
  BY <1>11 DEF HandlerStops
<1>12. ASSUME NEW a \in Actors, ReloadLoads(a) PROVE OneFetch'
  BY <1>12 DEF ReloadLoads
<1>13. ASSUME NEW a \in Actors, ReloadReads(a) PROVE OneFetch'
  BY <1>13 DEF ReloadReads
<1>14. ASSUME NEW a \in Actors, ReloadInserts(a) PROVE OneFetch'
  BY <1>14 DEF ReloadInserts
<1>15. ASSUME NEW a \in Actors, ReloadUpdates(a) PROVE OneFetch'
  BY <1>15 DEF ReloadUpdates
<1>16. ASSUME NEW w \in Workers, FetchBegins(w) PROVE OneFetch'
  BY <1>16 DEF FetchBegins
<1>17. ASSUME NEW w \in Workers, FetchStarts(w) PROVE OneFetch'
  BY <1>17 DEF FetchStarts
<1>18. ASSUME NEW w \in Workers, FetchEnds(w) PROVE OneFetch'
  BY <1>18 DEF FetchEnds
<1>19. ASSUME NEW w \in Workers, MarkReads(w) PROVE OneFetch'
  BY <1>19 DEF MarkReads
<1>20. ASSUME NEW w \in Workers, MarkSuccess(w) PROVE OneFetch'
  BY <1>20 DEF MarkSuccess
<1>21. ASSUME NEW w \in Workers, SuccessRaises(w) PROVE OneFetch'
  BY <1>21 DEF SuccessRaises
<1>22. ASSUME NEW w \in Workers, MarkFailure(w) PROVE OneFetch'
  BY <1>22 DEF MarkFailure
<1>23. ASSUME NEW w \in Workers, Release(w) PROVE OneFetch'
  BY <1>23 DEF Release
<1>24. ASSUME NEW w \in Workers, WorkerRaises(w) PROVE OneFetch'
  BY <1>24 DEF WorkerRaises
<1>25. ASSUME NEW w \in Workers, WorkerStops(w) PROVE OneFetch'
  BY <1>25 DEF WorkerStops
<1>26. ASSUME NEW w \in Workers, WorkerRestarts(w) PROVE OneFetch'
  BY <1>26 DEF WorkerRestarts
<1>27. CASE OperatorEdits \/ LockExpires
  BY <1>27 DEF OperatorEdits, LockExpires, taskVars
<1>. QED BY <1>1, <1>2, <1>3, <1>4, <1>5, <1>6, <1>7, <1>8, <1>9, <1>10, <1>11, <1>12, <1>13, <1>14, <1>15, <1>16, <1>17, <1>18, <1>19, <1>20, <1>21, <1>22, <1>23, <1>24, <1>25, <1>26, <1>27 DEF Next, HandlerStep, WorkerStep, Reload

LEMMA CountingStep == ASSUME TInv, OneFetch, Counting, Next PROVE Counting'
<1>a. /\ pc \in [Actors -> HandlerPlaces \union WorkerPlaces]
      /\ snap \in [Actors -> Rows \union {NoRow}] /\ row \in Rows \union {NoRow}
      /\ fails \in {Unknown} \union 0 .. PauseAfterFailures
  BY DEF TInv, TypeOK
<1>b. /\ Handlers \subseteq Actors /\ Workers \subseteq Actors
      /\ \A h \in Handlers : h \notin Workers
  BY StateAssumption DEF Actors
<1>c. NoRow \notin Rows /\ Unknown \notin 0 .. PauseAfterFailures
  BY StateAssumption DEF Unknown
<1>d. ASSUME NEW a \in Actors, CommitStep(a)
      PROVE  /\ row \in Rows /\ row' \in Rows /\ row' # NoRow
             /\ pc[a] # "mark" => row'.streak = row.streak
             /\ LET new == IF got[a] = "success" THEN 0 ELSE Counted(snap[a].streak) IN
                pc[a] = "mark" => row'.streak = IF new = snap[a].streak THEN row.streak ELSE new
  <2>1. /\ snap[a] \in Rows /\ NewRow(a) \in Rows /\ Commits(a, NewRow(a))
        /\ pc[a] # "mark" => NewRow(a).streak = snap[a].streak
        /\ pc[a] = "mark" => NewRow(a).streak = IF got[a] = "success" THEN 0
                                                ELSE Counted(snap[a].streak)
    BY <1>d, NewRowOK DEF CommitStep
  <2>2. /\ row \in Rows /\ row' \in Rows
        /\ NewRow(a).streak = snap[a].streak => row'.streak = row.streak
        /\ NewRow(a).streak # snap[a].streak => row'.streak = NewRow(a).streak
    BY <2>1, CommitRow DEF TInv
  <2>. QED BY <1>c, <2>1, <2>2
<1>e. ASSUME NEW a \in Actors, CommitStep(a), pc[a] # "mark", fails' = fails,
             \A w \in Workers : pc'[w] = "mark" => pc[w] = "mark" /\ snap'[w] = snap[w]
      PROVE  Counting'
  BY <1>d, <1>e, <1>c DEF Counting, StreakCounts
<1>1. ASSUME NEW h \in Handlers, DisableCommits(h) PROVE Counting'
  <2>1. h \in Actors /\ CommitStep(h) /\ pc[h] # "mark"
    BY <1>1, <1>b DEF DisableCommits, CommitStep, NewRow, CommitPlaces, TInv, Locals
  <2>. QED BY <1>1, <2>1, <1>a, <1>b, <1>e DEF DisableCommits, Ends, Goes
<1>2. ASSUME NEW h \in Handlers, EnableCommits(h) PROVE Counting'
  <2>1. h \in Actors /\ CommitStep(h) /\ pc[h] # "mark"
    BY <1>2, <1>b DEF EnableCommits, CommitStep, NewRow, CommitPlaces, TInv, Locals
  <2>. QED BY <1>2, <2>1, <1>a, <1>b, <1>e DEF EnableCommits, Ends, Goes
<1>3. ASSUME NEW h \in Handlers, ValidateCommits(h) PROVE Counting'
  <2>1. h \in Actors /\ CommitStep(h) /\ pc[h] # "mark"
    BY <1>3, <1>b DEF ValidateCommits, CommitStep, NewRow, CommitPlaces, TInv, Locals
  <2>. QED BY <1>3, <2>1, <1>a, <1>b, <1>e DEF ValidateCommits, Ends, Goes
<1>4. ASSUME NEW a \in Actors, ReloadUpdates(a) PROVE Counting'
  <2>1. CommitStep(a) /\ pc[a] # "mark"
    BY <1>4 DEF ReloadUpdates, CommitStep, NewRow, CommitPlaces
  <2>. QED BY <1>4, <2>1, <1>a, <1>b, <1>e DEF ReloadUpdates, Ends, Goes
<1>5. ASSUME NEW w \in Workers, MarkSuccess(w) PROVE Counting'
  <2>1. w \in Actors /\ CommitStep(w) /\ pc[w] = "mark" /\ got[w] = "success"
    BY <1>5, <1>b DEF MarkSuccess, CommitStep, NewRow, CommitPlaces, TInv, Locals
  <2>2. row' # NoRow /\ row'.streak = IF 0 = snap[w].streak THEN row.streak ELSE 0
    BY <2>1, <1>d
  <2>3. row.streak = snap[w].streak \/ row.streak = 0
    BY <2>1 DEF Counting, CommitStep, Commits
  <2>4. \A v \in Workers : pc'[v] # "mark"
    BY <1>5, <2>1, <1>a, <1>b DEF MarkSuccess, Goes, OneFetch, Fetching
  <2>. QED BY <1>5, <2>2, <2>3, <2>4 DEF MarkSuccess, Counting, StreakCounts
<1>6. ASSUME NEW w \in Workers, MarkFailure(w) PROVE Counting'
  <2>1. w \in Actors /\ CommitStep(w) /\ pc[w] = "mark" /\ got[w] # "success"
    BY <1>6, <1>b DEF MarkFailure, CommitStep, NewRow, CommitPlaces, TInv, Locals
  <2>2. /\ row' # NoRow
        /\ row'.streak = IF Counted(snap[w].streak) = snap[w].streak THEN row.streak
                         ELSE Counted(snap[w].streak)
    BY <2>1, <1>d
  <2>3. fails # Unknown => row.streak = snap[w].streak /\ row.streak = fails
    BY <2>1 DEF Counting, StreakCounts, CommitStep, Commits
  <2>4. \A v \in Workers : pc'[v] # "mark"
    BY <1>6, <2>1, <1>a, <1>b DEF MarkFailure, Goes, OneFetch, Fetching
  <2>5. fails' = IF fails = Unknown THEN Unknown ELSE Counted(fails)
    BY <1>6 DEF MarkFailure
  <2>. QED BY <2>2, <2>3, <2>4, <2>5 DEF Counting, StreakCounts
<1>7. ASSUME NEW a \in Actors, ReloadInserts(a) PROVE Counting'
  <2>1. row' = row \/ (row = NoRow /\ row'.streak = 0)
    BY <1>7, <1>a, DefaultRow DEF ReloadInserts, TInv, TypeOK
  <2>. QED BY <1>7, <2>1, <1>a, <1>b DEF ReloadInserts, Ends, Goes, Counting, StreakCounts
<1>8. ASSUME NEW h \in Handlers, DeleteCommits(h) PROVE Counting'
  BY <1>8 DEF DeleteCommits, Counting, StreakCounts
<1>9. ASSUME NEW w \in Workers, MarkReads(w) PROVE Counting'
  BY <1>9, <1>a, <1>b DEF MarkReads, Loads, Goes, Counting, StreakCounts
<1>. USE <1>a, <1>b DEF Counting, StreakCounts, Goes, Keeps, Ends, Dies
<1>10. ASSUME NEW h \in Handlers, EditWrites(h) PROVE Counting'
  BY <1>10 DEF EditWrites
<1>11. ASSUME NEW h \in Handlers, DisableReads(h) PROVE Counting'
  BY <1>11 DEF DisableReads, Loads
<1>12. ASSUME NEW h \in Handlers, EnableReads(h) PROVE Counting'
  BY <1>12 DEF EnableReads, Loads
<1>13. ASSUME NEW h \in Handlers, DeleteUnlinks(h) PROVE Counting'
  BY <1>13 DEF DeleteUnlinks
<1>14. ASSUME NEW h \in Handlers, ValidateBegins(h) PROVE Counting'
  BY <1>14 DEF ValidateBegins
<1>15. ASSUME NEW h \in Handlers, ValidateReads(h) PROVE Counting'
  BY <1>15 DEF ValidateReads, Loads
<1>16. ASSUME NEW h \in Handlers, HandlerStops(h) PROVE Counting'
  BY <1>16 DEF HandlerStops
<1>17. ASSUME NEW a \in Actors, ReloadLoads(a) PROVE Counting'
  BY <1>17 DEF ReloadLoads
<1>18. ASSUME NEW a \in Actors, ReloadReads(a) PROVE Counting'
  BY <1>18 DEF ReloadReads
<1>19. ASSUME NEW w \in Workers, FetchBegins(w) PROVE Counting'
  BY <1>19 DEF FetchBegins
<1>20. ASSUME NEW w \in Workers, FetchStarts(w) PROVE Counting'
  BY <1>20 DEF FetchStarts
<1>21. ASSUME NEW w \in Workers, FetchEnds(w) PROVE Counting'
  BY <1>21 DEF FetchEnds
<1>22. ASSUME NEW w \in Workers, SuccessRaises(w) PROVE Counting'
  BY <1>22 DEF SuccessRaises
<1>23. ASSUME NEW w \in Workers, Release(w) PROVE Counting'
  BY <1>23 DEF Release
<1>24. ASSUME NEW w \in Workers, WorkerRaises(w) PROVE Counting'
  BY <1>24 DEF WorkerRaises
<1>25. ASSUME NEW w \in Workers, WorkerStops(w) PROVE Counting'
  BY <1>25 DEF WorkerStops
<1>26. ASSUME NEW w \in Workers, WorkerRestarts(w) PROVE Counting'
  BY <1>26 DEF WorkerRestarts
<1>27. CASE OperatorEdits \/ LockExpires
  BY <1>27 DEF OperatorEdits, LockExpires, taskVars
<1>. QED BY <1>1, <1>2, <1>3, <1>4, <1>5, <1>6, <1>7, <1>8, <1>9, <1>10, <1>11, <1>12, <1>13, <1>14, <1>15, <1>16, <1>17, <1>18, <1>19, <1>20, <1>21, <1>22, <1>23, <1>24, <1>25, <1>26, <1>27 DEF Next, HandlerStep, WorkerStep, Reload

(* If the lock outlasts every fetch, the streak that pauses an account       *)
(* counts the failed fetches since the last successful one.                  *)
THEOREM StreakIsCount == ASSUME LockMayExpire = FALSE PROVE Spec => []StreakCounts
<1>. DEFINE SInv == Inv /\ OneFetch /\ Counting
<1>1. Init => SInv
  <2>. SUFFICES ASSUME Init PROVE OneFetch /\ Counting
    BY InitInv
  <2>1. row # NoRow /\ row.streak = 0
    BY StateAssumption, DefaultRow DEF Init, Configs
  <2>. QED BY <2>1 DEF Init, OneFetch, Counting, StreakCounts, Fetching, Actors
<1>2. SInv /\ [Next]_vars => SInv'
  <2>. SUFFICES ASSUME SInv, [Next]_vars PROVE OneFetch' /\ Counting'
    BY InvStep
  <2>1. CASE Next
    BY <2>1, OneFetchStep, CountingStep DEF Inv
  <2>2. CASE UNCHANGED vars
    BY <2>2 DEF vars, taskVars, OneFetch, Counting, StreakCounts
  <2>. QED BY <2>1, <2>2
<1>3. SInv => StreakCounts
  BY DEF Counting
<1>. QED BY <1>1, <1>2, <1>3, PTL DEF Spec
=============================================================================
