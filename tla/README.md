# OptMonster in TLA+

A verification development for OptMonster: an API process and a worker process
that share a PostgreSQL database and a Redis server, and that like, reply and
follow on Twitter on behalf of configured accounts. Reviewed replies, likes and
follows become *action requests*; a worker executes them within each account's
budget. The models are written from `src/app/`; line numbers in comments are of
the files in `src/app/actions/service.py`, `src/app/runtime/redis.py` and so on.

## The system

`docker-compose.yml` runs one `api` (uvicorn, one event loop, many concurrent
request coroutines) and one `worker` (`python -m app.worker`, a loop that
dequeues one item at a time). Nothing restarts either by itself and nothing
prevents several workers; the models allow several. What they share:

| component | state | operations | interacts with |
|---|---|---|---|
| RuntimeCoordinator (`runtime/redis.py`) | two lists with a deduplicating set each, a lock with a TTL, a backoff, a cooldown and daily counters per account | enqueue, dequeue, acquire/release lock, backoff, cooldown, count, record | everything below calls it; each Redis command is atomic, a method of two commands is not |
| ActionService (`actions/service.py`) | `action_requests` rows: status, drafts, learning status, audit log, expiry | create reply/like/follow, approve, skip, modify, process (by the worker), generate a reply | reads `account_runtime_states`, the registry, the coordinator, the executor, the writing guides |
| AccountService (`accounts/service.py`) | `account_runtime_states` rows: lifecycle status, pause reason, streak; YAML files | reload, disable, enable, edit/import/delete accounts and groups, dashboard, cleanup and clear of tweets (and their actions) | registry, database, coordinator |
| AccountRegistry (`accounts/registry.py`) | per process: the accounts and groups last loaded | reload, get | stale in a process until that process reloads |
| FetchService (`fetching/service.py`) | cursors, fetched tweets, follower snapshots, runtime state columns | list due accounts, enqueue, validate session, fetch an account, score, mark success/failure | coordinator (lock, backoff), data sources, ActionService for scoring |
| Worker loop (`worker.py`) | time of the last sweep | sweep every 30 s (reload, list due, enqueue); dequeue an action, else a fetch | ActionService, FetchService |
| LLM service, writing guides | AI logs, guide files | decide, summarise, apply learning | external providers |
| Executors, data sources | none | calls to Twitter | external |
| Routes, UI, settings, wiring, migrations | none of their own | thin wrappers | |

**What is hard here.** (1) Every method with an `await` may be interleaved with
any other. The ORM has no row lock and no version column: a transaction reads,
decides, and later writes the changed columns by primary key. (2) Status changes
are committed to the database and work is handed over through Redis, without a
transaction over both. (3) A dequeue removes the item before it is worked on, so
a stop in between loses it. (4) The account lock has a TTL shorter than a slow
call may take. (5) The budget is checked before a remote call and recorded after
it. (6) A remote call may take effect and still raise. (7) Actions are deleted
under a worker's feet. (8) Each process has its own copy of the configuration.
`PROJECT.json` lists these hazards with their lines.

**What makes each component correct.**
- *Queues*: nothing is queued twice, nothing that was enqueued is forgotten, and
  a duplicate is only refused when a delivery is still to come.
- *Actions*: approved actions are decided; none acts twice, or without having
  been approved; refused and expired ones never act; decisions are final; one
  tweet has one open action of a kind per account.
- *Budget*: daily limits and the minimum interval hold for everything recorded,
  and what reached Twitter exceeds them only by calls that could not be recorded;
  a disabled account stops.
- *Account state*: nothing that starts after an admin's disable undoes it but an
  enable; status and pause reason agree; the streak counts the failures in a row;
  rows follow the configuration in the end.
- *Fetching*: no fetch starts before the wait the last failure calls for is over
  or in quiet hours; a completed fetch is not marked failed; an account that
  stays enabled is fetched again and again.
- *Scoring*: what a feed shows is collected newest first; a decision leads to its
  actions; the rows of one tweet agree; a reused decision was really made; nothing
  dangles after a deletion; a row that can be decided is decided in the end.
- *Configuration*: no request leaves files that a load would refuse; the registry
  is what a load would give; a followed handle stays followed.

## Modules

| module | models | kind |
|---|---|---|
| `WorkSet` | what a queue promises: a set of owed work | abstract specification |
| `RuntimeQueue` | the four Redis commands of a queue | operators of the queues' clients |
| `RuntimeQueueProofs` | lemmas about the contents of the list under those commands | TLAPS |
| `QueueProtocol`, `MCQueueProtocol` | clients that enqueue, dequeue, hand back and stop | state machine, refines `WorkSet` |
| `QueueProtocolProofs` | theorems about `QueueProtocol` | TLAPS |
| `ActionService`, `MCActionService` | API handlers and workers over action rows, the action queue and the account lock | state machine composed with `RuntimeQueue`, refines `WorkSet` |
| `ActionServiceProofs` | theorems about `ActionService`, however many decisions run at a time, and what holds besides if no two do | TLAPS |
| `ActionBudget`, `MCActionBudget` | what is between an approved action and Twitter: lock, account state, hours, cooldown, limits, mode, and the clock | state machine |
| `ActionBudgetProofs` | theorems about `ActionBudget` | TLAPS |
| `AccountState`, `MCAccountState` | everything that writes the runtime state row of an account: reload, disable, enable, edit, delete, validation, fetch marks | state machine |
| `AccountStateProofs` | theorems about `AccountState` | TLAPS |
| `FetchLoop`, `MCFetchLoop` | the worker's loop with a clock: sweep, both queues, the gates of a fetch, the waits after it, the snapshot of the day; fetch-now and validation of the API | state machine composed with `RuntimeQueue`, refines `WorkSet` |
| `FetchLoopProofs` | theorems about `FetchLoop` | TLAPS |
| `TweetScoring`, `MCTweetScoring` | from the pages of a feed to decisions and action requests, backfill, reuse of decisions, deletion of tweets | state machine with pure parts (pages, answers) |
| `TweetScoringProofs` | theorems about `TweetScoring`, and lemmas about parts, folds and flattened sequences | TLAPS |
| `ConfigFiles`, `MCConfigFiles` | account files, cookies, groups, the API's registry, and every request that writes them | state machine |
| `ConfigFilesProofs` | theorems about `ConfigFiles` | TLAPS |

`ActionService` and `ActionBudget` are two views of `process_action`. The first
has the status of each action, every commit and every queue command, and leaves
*why* an action is blocked open. The second has one account's clock and counters
and leaves *which* action open: an action is its kind.

### RuntimeQueue, QueueProtocol

`queue` is the Redis list, `pending` the set. `SaddNew`/`SaddRefused` are SADD
with its two answers, `Rpush`, `Blpop`, `Srem` the other commands. A client is a
coroutine of either process; `phase` says between which two commands it is. A
client that works on an item may enqueue it again (the worker that found the lock
taken). `Crash` stops a client anywhere; `stranded` remembers the items of
clients that stopped between the two commands of one method: the only items the
queue loses.

### ActionService

A row is `request`, `status`, `edited` (edited_draft is set), `learning`; ids are
taken in order. `hpc`/`hitem`/`hreq`/`hdec` are a handler's place and locals:
between `DecisionReads` and the commit (`commit`), between the lookup and the
INSERT (`insert`), before the refresh (`reread`), before SADD and RPUSH
(`enqueue`, `push`). `wpc`/`witem`/`wedited` are a worker's: `popped` and `read`
are in `dequeue_action` and the first session, `acquire`, `requeue`, `repush` at
the lock, `gate` is the second reading under the lock, `block`, `expire`, `start`
the commits it leads to, `calling` the remote call, `succeed`, `fail`, `close`
the commits after it, `refresh`, `release`, `delete` the end. A commit to a
deleted row raises: in a handler it ends the request (`HandlerRaises`), in a
worker it ends the process (`WorkerDies`), because `run_worker` catches nothing.
`expired` is the set of ids whose `expires_at` has passed. `calls` counts the
calls of an action that took effect and `approvals` the commits of "approved".
A stop is one handler or one worker; what it had in hand is remembered in
`dropped`. Tweets, authors and rows are model values; drafts, audit entries,
operation logs and error codes are left out.

`OneAtATime` says whether two handlers may be between reading and committing at
the same time. The code does nothing to prevent it; what is checked with it on
holds of a console used by one person at a time.

### ActionBudget

Time counts in ticks; `Hour` and `Day` divide it. `at[w]` is the `now` of
`process_action`. `used` and `cooldown` are the Redis keys, which outlive the day
they are for, so their TTLs are not modelled. The executor may take effect and
return, take effect and raise, or raise without effect. `known[w]` is the
execution mode of the worker's registry and `mode` the configured one. `records`,
`effects`, `unrecorded`, `since` are histories the properties speak of.

### AccountState

One account: its YAML `file`, its `row` (`status`, `reason`, `streak`; absent:
`NoRow`), its `lock`, and in `reg` what the registry of each process holds. The
actors are request handlers of the API (`HandlerStep`) and workers
(`WorkerStep`). Every method is split where other coroutines run: `DisableReads`
is the SELECT, `DisableCommits` the COMMIT, and likewise for the others;
`validate_session` has the remote call between its guard and its second SELECT,
a reload has the reading of the file (`ReloadLoads`) before the SELECT. Between
them `snap` is the row as the actor loaded it, `cfg` the account object it took
from the registry, `got` the outcome of its call. A commit writes the columns
that differ *from `snap`* over the row as it now is (`Written`): this is what the
ORM does, and what makes lost and torn updates possible. A commit to a deleted
row raises, and so does a second insert: a request ends (`HandlerStops`), a fetch
marks a failure instead of its success (`SuccessRaises`), and where nothing
catches it the worker ends (`WorkerRaises`).

Histories: `fails` counts the failed marks since the last success; `torn` says
that a commit has changed a row whose status or reason had changed after it was
loaded, and that no later commit has left the two in agreement; `older` is who
was in the middle of a method when the last disable was committed, or when a torn
row was made whole. Abstractions: `proxy_failed` stands for every pause reason that
only an admin lifts (also `schema_changed`), `transient` for every error that
does not pause at once; the streak stops at the threshold, the only value it is
compared with; timestamps, cookie freshness, proxy health and the backoff are
left out. A fetch may begin at any time and may be skipped at any time (queue,
backoff, quiet hours and due time are open here; `FetchLoop` has them); an import is an edit of the file
followed by a reload; the lock and the SELECT after it are one place, because the
row is read once. The worker's actions take the same lock and only read the row:
to this module they are fetches that do not begin.

### FetchLoop

When accounts are fetched. One tick is a share of the poll interval; only remote
calls and waiting take time, so `Tick` asks that every worker is in a call, waits
for something to come, or goes round the actions of locked accounts. `SweepBegins` is the reload
and `list_due_accounts` (`Due`), `SweepEnqueues`/`SweepPushes` the two commands of
`enqueue_fetch`, `ActionBegins`, `ActionRequeued`, `ActionDropped` what
`process_action` does to the loop, `FetchPops` and `FetchDequeues` the two commands
of `dequeue_fetch`, `FetchLocks` to `Release` are `fetch_account`: lock, `FetchGate` (backoff, quiet hours by the worker's
registry), `FetchStarts` (the row), the call, the marks. `MarkFailure` commits
the row and `SetsBackoff` writes Redis after it; `SnapshotLooks` to
`SnapshotRaises` are `_record_follower_snapshot_if_needed`, whose unique
constraint raises (`crowded` says that somebody else inserted in between), which
in a fetch marks a failure after the success. The API's `FetchNow` and
`Validate…` write the same keys without the lock. The fetch queue implements `WorkSet`:
a worker's hand is full from SREM to the end of the fetch or the skip.

`asked` is the wait that the last failure calls for, counted down like the real
one but computed from the error alone; `edited` is how long ago the quiet hours
were edited. Abstractions: the pause reason (this is `AccountState`'s), the
lost updates of the row (likewise), the remaining columns; the registry always has
the account enabled; a handler or worker has no profile call under way at midnight
(a bound). `overrun` is only reached with two workers; the safety properties were
also checked with two workers and no handler (18 million states, too long for a
run kept here).

### TweetScoring

`Requests`, `Persists`, `FetchFails` are the loop over an account's sources with
`fetch_latest_first` on; a feed is a sequence of pages, `Collected` folds
`AddPage` over it as the loop does, and what is stored is decided at `Persists`,
in one transaction. `Scores` is `_auto_score_inserted_tweets`, `Candidates` the
backfill's selection, `Generate…`, `ReuseRecords`, `LLMAnswers`,
`DecisionRecords`, `LikeRequests`, `ReplyRequests` the sessions of
`generate_reply_for_tweet`; `DeleteSelects`/`Deletes` are `clear_tweets` and
`cleanup_stale_tweets`. `Normalised` is what `_parse_decision_result` makes of an
answer in JSON or in lines. Rows, logs and actions name a row by its id and
nothing else ties them.

Histories: `told` (what the LLM decided of a row), `interrupted` (a generation
that ended between its decision and its actions), `bereft` (actions deleted with
one of several rows of a tweet), `doomed` (rows deleted while in hand), `crossed`
(two decisions of one tweet, each made without the other's log). The properties
except exactly these. Abstractions: failed logs, which are only displayed; a row
leaves the recent window at any time (`old`); an existing action may have been
closed meanwhile, so `Requested` may or may not create another; the race of two
requests on one action is `ActionService`'s; AI and `read_only` may be switched at
any time; a feed does not change while it is paged; the fetch lock does not expire.

### ConfigFiles

`files`, `cookies`, `groups` are the directory, `regA`/`regG` the API's registry.
The API is one asyncio process, and from a request's guard to the end of the reload
nothing yields to another configuration request but in `delete_account` (the rows
are deleted first: `erase`) and `import_account_from_cookie` (the session is
validated over the network: `check`). `Turn` says that no other handler is between
two awaits; the places between two awaits are there because *workers* load the
same directory at any instant. `Reloads` is `AccountRegistry.reload`: the groups are
replaced before the accounts are loaded, the accounts only if no file raises.
`Grouped` is `apply_group`. `EditByHand` is an operator with an editor.

Histories: `unseen` (written by hand, or before a load that raised, and not loaded
since), `spoilt` (files that lost their cookie to the deletion or rollback of
another account that shares it, or were given another account's id: the three
ways a request breaks a file; nothing in `src/` rules them out or promises
otherwise), `followed` (account and handle, followed by request and not edited
since). Abstractions: a name stands for the file, the cookie and the id; targets
are a switch and a set of handles, handles modulo case; the write of a file and
the load after it are one step, because nothing else of the process runs in
between and the load changes no file; a worker's load is looked at as at one
instant, although it reads file by file; an import that the process does not
survive is not modelled.

## Runs

| run | question | bounds |
|---|---|---|
| `QueueProtocol` | is the two-command queue a set of owed work, with three clients and a stop? | 3 clients (a third can interfere with the two ends of one item), 2 items, 1 stop |
| `ActionConcurrent` | with nothing serialised: is every effect approved, every approved action in somebody's care, one decider per account, the queue still a work set? | 2 handlers, 2 workers, 1 row (all the races are on one row), deletion, a missing account, lock expiry, 1 stop |
| `ActionSerial` | with one decision at a time: at most one effect, refused never acts, decided is final, approved is eventually decided, learning closed? | 2 handlers, 2 workers, 1 row, lock expiry, 1 stop, fairness |
| `ActionRows` | two rows of one tweet: one open action, none forgotten, also when one is deleted? | 1 handler, 1 worker, 2 rows, 3 requests, deletion, 1 stop |
| `ActionBudget` | do limit, interval and disable hold around a call of any length? | 2 workers, 2 kinds of limit 1, days of 3 hours of which 2 are active, 2 days, 1 unrecorded effect, 1 stop |
| `AccountState` | every operation interleaved with every other: do status and reason agree, does a disable hold, is the streak exact, do sweeps repair and apply what they should? | 1 handler, 1 worker (each of the two processes has its registry), every operation, every file, threshold 1 (the theorems are about every threshold), fairness |
| `AccountDisableLost` | does a reload keep an account disabled? **violated** | 1 handler, 1 worker |
| `ActionDoubleDecision` | is an action only approved while it is pending approval? **violated** | 2 handlers, 1 row |
| `TweetScoring` | a worker and a request on the same tweets: collected, decided, acted on, agreed, reused, deleted as promised? | 1 worker, 1 handler, 1 account with 2 sources (two rows of one tweet need no second account), 2 rows, 5 kinds of tweet, 4 feeds, 4 answers, limit 1; a handler asks for a generation while nothing is decided (it may then wait for any time) |
| `TweetBackfill` | is every row that can be decided scored in the end? | 1 worker, 1 source, 3 rows, limit 1 (one hopeless row uses it up), fairness |
| `FetchLoop` | waits, quiet hours, snapshots; is an enabled account fetched again and again; is the fetch queue a set of owed work? | 1 worker, 1 handler, 1 account, days of 3 hours, 2 quiet windows (one wraps), poll interval 1, backoff 1 then 2, retry-after 2, threshold 2, 1 action |
| `ConfigFiles` | does any mix of requests leave files that do not load, a registry that is not the directory, or lose a follow? | 2 handlers, 2 names, 1 group, 1 handle, 1 edit by hand, every grouping and cookie; an edit asks for empty targets, so that handles come from follows alone; a file edited by hand and a file a request has spoilt are not followed further together (`Apart`); 1.9 million states |

Every bound is a constant of the module (`Items`, `MaxCrashes`, `MaxTime`,
`MaxUnrecorded`). A limit of one per day and an interval of one tick make the
boundary the normal case. One stop suffices for the crash properties, which speak
of what one process had in hand; a second adds no new kind of loss. The action
runs allow TLC to end without a successor (`CHECK_DEADLOCK FALSE`): once all rows
are decided and the bound on rows is reached nothing is left to do, and likewise
when `ActionBudget`'s clock is at its bound. In `AccountState` nothing is bounded
but the streak; two actors suffice for the races on one row, each of which is one
actor's commit between another's SELECT and commit. `TweetScoring` bounds the ids
of rows (`MaxRows`, never used twice) and the logs beside which a handler asks for
a generation (`MaxLogs`); with at most three rows the window of four times the
limit is never the reason that a row is passed over. `FetchLoop` bounds the
actions in the queue; its clock is a ring of hours and its counters count down, so
it runs for ever. `ConfigFiles` bounds only the edits by hand (`MaxByHand`) and
what an edit may ask for (`Edits`); the theorems are about any of both.

**Findings.** `ActionDoubleDecision`: approve, skip and modify check the status
and commit without a lock, so two decisions can both pass the guard, and an
action that was skipped ends up approved and is executed.
`AccountDisableLost`: a test says that a reload preserves an admin's disable; a
reload that read the row before the disable was committed, of an account whose
file has just been disabled, writes its own pause reason over it, and once the
file is enabled again the account runs without the admin.

**Fairness** (`QueueProtocol`, `ActionService`): a coroutine that was started goes
on, a worker that is alive keeps polling its queue and finishes what it has, and
the TTL of an abandoned lock runs out. Nothing is assumed of users (creating and
deciding), of time passing an expiry, of stops, or of a dead worker being
started again. A worker waiting for the lock requeues the action and polls again;
with weak fairness on each worker's steps the holder eventually releases.
`ApprovedIsDecided` and `LearningClosed` except what a stopped process had in
hand, because the code has no recovery for it: this is what `dropped` is for.

**Fairness** (`AccountState`): a worker that is alive goes on, and its calls time
out (weak fairness on `WorkerStep`). Strong fairness on `ReloadLoads`: the worker
is idle again and again but not for long, and the sweep timer is looked at before
each dequeue, so a sweep is not postponed for ever by a full queue. Handlers have
no fairness: a request may hang or be cancelled. The liveness properties have the
premise that some worker lives on (`SomeWorkerLives`), because nothing in the
repository restarts one, and a reload that meets a deleted row ends it.

**Fairness** (`FetchLoop`): a worker that is alive goes on, its calls end (they
time out), and what a handler began ends. Nothing is assumed of the users, nor
that time passes: that is a premise of `FetchedAgain`, with one worker that lives
on, quiet hours no longer edited, and no more actions from some time on. The last
is needed: an action of an account that is locked is requeued and dequeued at once,
and an action always comes before a fetch.

**Fairness** (`TweetBackfill`): the worker fetches again and again, and what may go
wrong does not go wrong every time: the sources answer, AI is on, the backfill
finds the rows recent, and the LLM, asked about a row again and again, at last gives
an answer that can be read. These are strong fairness conditions on the outside
world, each on one step; the code retries (every fetch ends with a backfill) and the
property says that the retries reach every row but those it excepts.

## Proofs

`QueueProtocolProofs` proves, for any sets of clients and items and any number of
stops, type correctness, `NoDuplicates`, `NothingLost` and that `QueueProtocol`
implements `WorkSet`. The inductive invariant adds `Ownership`: what the list
holds is in the set, and the item of a client between its two commands is in the
set, not in the list, and no other such client's. Without it `Rpush` could not be
shown to append something new. The refinement needs that the client that issues
SREM is the one the item is owed to.

`ActionServiceProofs` proves, for any requests, rows, handlers, workers, deletions
and stops, with any number of decisions racing, type correctness, `OneDecider`,
`NoOrphan`, `CallsPaid` and that the composition of handlers, workers and queue
implements `WorkSet`. The steps are grouped first: `HandlerActs`, `WorkerActs`,
`OthersAct` (deletion, expiry, the lock's TTL), each with a lemma of what it moves
and what it leaves alone, so that each part of the invariant is argued once per
group. The parts:
- `Handed`: whatever is queued or in hand has been decided on. It is what lets a
  row be inserted under a fresh id without a worker that has it.
- `LockHeld`: whoever decides, or is about to DELETE the lock, holds it; hence
  `OneDecider`.
- `Ownership`: between its two commands a process owns the action in the set. The
  same invariant as in `QueueProtocol`, over two kinds of processes.
- `InCare`: what the set refuses is queued, on its way in, or on its way out. A
  request whose SADD is refused may forget the action because of this, hence
  `NoOrphan`.
- `Funded`: the calls made, the workers now in a call, and one more while the row is
  approved or a worker is about to start it, are at most the commits of
  "approved"; hence `CallsPaid`. Counting the workers in a call is needed because
  the lock may expire during it and another worker may take the row up again.

Its second part adds what holds if no two decisions run at a time
(`OneAtATime`): `AtMostOnce` and `RefusedNeverCalled`; with no account missing
(`~ AccountMayVanish`) `TerminalIsFinal`; and, for requests that name a tweet's
author alike (`TweetNamesAuthor`), `OneOpenPerTweet`. The invariant `SerialInv`
says that one handler is between reading and writing and what it read still holds
(`OneWriter`, `ReadHolds`, `StillMissing`), that what a worker judges or executes still
has the status it found or set, and no other worker judges or executes it
(`StatusHolds`, `OneJudge`), and that an action with an effect is where nothing
starts it again (`CalledOnce`). A missing account matters because
`process_action` then marks the action failed before it takes the lock: while
another worker, whose registry still has the account, executes the action, this
turns "executing" into "failed" and back into "succeeded", and lets a new action for the
tweet be opened meanwhile. With one worker, as in the run `ActionRows`, this cannot
happen. Assumption of both parts: `ServiceAssumption`; the lock
does not expire up to the EXECUTING commit nor between the GET and the
DELETE of its release.

`ActionBudgetProofs` proves, for any limits, interval, jitter, hours, number of
workers and length of run, type correctness, `DailyLimit`, `Spaced`,
`EffectsBudgeted` and `DisableStops`. Assumption: the lock's TTL outlasts the
call of its holder (`LockMayExpire = FALSE`). The invariant: whoever is past the
acquisition holds the lock (`Mutex`), so what it has checked stays true until it
records (`Checked`); the cooldown covers every record (`Covered`); effects are
recorded, about to be recorded by the lock holder, or counted unrecorded
(`Accounted`); while the account is disabled only the holder can still have an
effect (`InFlight`).

`AccountStateProofs` proves, for any number of handlers and workers, any files
and any threshold, type correctness, `StatusMatchesReason` and
`AdminDisableHolds`, and `StreakCounts` under `LockMayExpire = FALSE`. The
invariant has three parts: what each actor holds at its place (`Locals`: a loaded
row in the places between SELECT and commit, an outcome that validation can
give); `StatusMatchesReason` itself, for which each commit that does not tear the row
either leaves status and reason as they are or replaces both with what a method
computed from an agreeing row; and, while the account is disabled, that whoever still
fetches or validates is in `older` (`Quiet`), because new fetches and validations
are refused. The streak adds that only the holder of the lock is between the
begin and the release of a fetch (`OneFetch`) and that what it loaded is still the
streak of the row (`Counting`).

`ConfigFilesProofs` proves, for any names, groups, handles, handlers and edits,
type correctness, `Loadable`, `RegistryIsDirectory` and `FollowReaches`. A load
that does not raise establishes everything anew (`LoadTakesAll`), so the work is in
the loads that raise and in the steps between two awaits. The invariant `Inv` adds that at
most one handler is between two awaits, that what a handler unlinks the cookie of
is gone (`Unlinked`), and that the registry has the account of a file it has seen in the
file's group (`Taken`): this is what lets the member check of
`delete_group_config`, which reads the registry, protect the files. For
`FollowReaches` it adds what the registry carries (`Carried`): a switch of the
mode writes the registry's account, so the handle has to be there too, even where
the registry lags. Assumption: `ConfigAssumption`, that None is no account, target or group.

`FetchLoopProofs` proves, for any accounts, workers, handlers, quiet windows,
intervals, backoffs and threshold, with locks that run out during a fetch, type
correctness, `WaitKept`, `QuietHoursKept`, `SuccessStands` and `ImplementsWorkSet`.
None of the first three is an invariant: each says what a step may do, and `SafetyInv`
is what the state before that step has to be. Its parts:
- `WaitInv`: unless a lock ran out (`overrun`) one worker at a time is at work on an
  account (`OneFetch`); the wait that its last failure calls for is in Redis and
  nobody is about to overwrite it, or the worker that will write it is at that place
  (`WaitNoted`, over `Awaited`, what that worker will write); and nobody between the
  gate and the start has a wait to keep (`NoWaitAtStart`). The middle part is needed
  because the row is committed before Redis is written.
- `ReloadNears`: a worker whose registry lags behind an edit of the quiet hours will
  sweep within the interval, and between its sweep and the start of a fetch no time
  passes but what it waits for one; with `AwakeAtStart`, that the gate was passed by
  the hour that still is, this bounds the lag in `QuietHoursKept`.
- `LookHolds`: what the second look for a snapshot found is still so, or another actor
  has inserted since.

For the refinement, `Ownership` says of a worker between SADD and RPUSH or BLPOP and
SREM that its account is in the set, not in the list, and no other such worker's. It
makes SREM a `Take` of an account that is owed. Every other step that does not touch
the queue is `Apart`: it leaves list and set, brings nobody between two commands, and
either leaves all hands or empties one. The API has no place between its two commands:
a stop there leaves the account in the set and out of the list, and is an `Enqueue`.
Assumption: `FetchAssumption`, that the constants are numbers, that a window does not
begin where it ends (`FetchScheduleConfig` refuses such a window), and that None is no
account or worker.

`TweetScoringProofs` proves, for any accounts, sources, tweets, filters, feeds, LLM
answers, limits and bounds, type correctness and all six safety properties of the
run. `Base` is inductive: types, ids handed out in order (`RoomLast`), a row in hand
is stored or was deleted while in hand (`Holding`). Most steps leave rows, logs,
actions and histories alone; `Quiet` groups them, so that each invariant is argued for
the other eight. On `Base` rest:
- `Traced`: `NothingDangles`, `ReusedIsTold`, and that what a generation has found but
  not yet recorded was told (`FoundTold`). A log of a reused decision names the row it
  was *first* made for, and this is why a chain of reuses survives the deletion of the
  rows between.
- `AllAccounted`: `DecidedIsActedOn` by row and kind. A deletion must show that an
  action it takes is put into `bereft`; a request that finds an existing action uses
  that it is of the same account, tweet and kind.
- `RowsAgree` is inductive with `Traced`: a decision that is recorded changes the last
  decision of one row, and either equals the newest of the others or puts the tweet
  into `crossed`; a deletion keeps the order of the logs that stay (`Left`), hence the
  last one of each row.
- `FormDoesNotMatter` and `CollectsNewest` speak of one state. The second is about two
  nested folds over any number of pages of any length: that the loop of the code,
  which stops at an empty page, at a full batch, or after a page that reaches back too
  far, keeps the same as the declarative reading, the first `Limit` tweets that pass
  and are recent, each once, of the flattened pages. Induction being out of reach, the
  folds are turned into functions over the prefixes (`ItemsFold`, `PagesFold`), whose
  existence and values follow from the least counterexample of a natural number
  (`LeastNumber`, `FoldExists`, `UpTo`). `Taken` is what is kept of the first m
  tweets shown; a tweet (`TakenStep`), a page (`PageTaken`) and a page after the batch
  is full (`TakenFull`) keep the two in step.

Assumption: `ScoringAssumption`, that the constants have the shapes the code gives
them. `InOrder`, `Part` and `Filter` stand for the sorts and list comprehensions of the
code; the library's `SortSeq` and `SelectSeq` do the same to TLC, but are defined by
recursion, of which the provers know nothing.

Only model-checked: everything under fairness (`Delivered`, `ApprovedIsDecided`,
`LearningClosed`, `DisableHeals`, `ConfigurationApplied`, `EventuallyScored`,
`FetchedAgain`), because liveness is out of reach of the prover. Every safety property
of a passing run is also a theorem. Every module has a `TypeOK`, and each is proved;
those of `ActionBudget` and `AccountState` are among the runs' properties too.

## Assumptions

- A lock does not expire between the GET and the DELETE of its release, nor
  before its holder has committed EXECUTING (`LockMayExpire` names the places).
- A stop of the API is a stop of one handler; several are several stops.
- `ActionBudget` and `StreakCounts`: the lock does not expire during the call or
  the fetch. If it does, the failure of one fetch can be lost to another. It is
  also, but for torn updates, the only way `_mark_fetch_success` meets
  `repeated_failures`: a fetch is refused to an account paused for that reason, and
  only another fetch's failure sets it.
- `AccountState`: a malformed file, which makes a reload raise, is a stop of the
  worker or an end of the request.
- `ActionBudget`: hours and days are
  those of one fixed timezone without change of offset.

- `TweetScoring`: a source's pages end; the loop over them (`fetching/service.py:337`)
  has no bound of its own.
- `ConfigFiles`: hand edits land while every handler awaits something and leave the
  directory loadable.

## Not modelled

- Prompts, providers, the parsing of tweets and pages, YAML and cookie formats, the
  UI, settings and migrations: external, or without behaviour of their own.
- Fetching from a stored cursor (`fetch_latest_first` off): a single request per
  source whose cursor is stored with the batch.
- The dashboard, lists, exports, operation logs: they only read or append. Lost
  audit entries under concurrent decisions are noticed but not modelled.
- Proxies, persona and writing-guide files of an account.
- A worker's load spread over several instants (`loader.py:51`): a file unlinked
  between the listing and the reading makes it raise, and the worker ends. So does
  a file a request has spoilt. `hazards` in `PROJECT.json` lists these with their lines.
- A mode switch or a follow writes the account as last loaded and so overwrites
  an edit by hand that the registry has not seen; `ConfigFiles` does this, and no
  property is stated of it, because nothing in the repository says who should win.
- The account page says that quiet hours hold as soon as they are saved
  (`ui/account.html:236`); a worker obeys them after its next reload. `QuietHoursKept`
  states the bound that the code keeps.

## Plan

What is left that could be modelled faithfully: a worker's load step by step against
the API's unlinks; the dashboard's estimate of the next action against the budget
check; the cursor mode.
