# Verification of the ha_ninebot integration

TLA+ models of the Home Assistant integration in `src/custom_components/ninebot`,
model-checked with TLC and, for the parts section 5 names, proved with TLAPS. Paths and
line numbers below are relative to that directory unless they start with `src/`;
`PROJECT.json` maps every definition to its lines.

## 1. The system

The integration mirrors one Ninebot cloud account per config entry. It runs in
the event loop of Home Assistant: coroutines interleave only at `await`, while
file and database work runs in threads. All accounts share two things: the gate
that limits requests on the wire and a lock per vehicle for commands.

| Component | State | Operations | Talks to | Module |
|---|---|---|---|---|
| Account query broker (`query_broker.py`) | queue of jobs, reads in flight, worker task, active job, streak, cooldown | `async_read`, `async_command`, `async_close` | every reader of the cloud; the shared gate | QueryBroker |
| Private sessions (`session.py`), login flow (`config_flow.py`) | directory of the key, backup, candidates, journal, lock, transactions | prepare, commit, rollback, finalize, recover, remove | config entries, `async_setup_entry` | SessionStore, AtomicSession |
| Vehicle controls (`coordinator.py`, `control_*.py`) | versions per lock, pending tables, observers, follow-ups, dispatch gate | `async_control`, observer, follow-up | broker, status reads | LockControl |
| Shared status reads (`coordinator.py`) | refresh and group tasks by key, barriers, generation | refresh, poll, reap | broker | SharedReads |
| Realtime dispatcher (`realtime.py`, `polling_*.py`) | timer, its task, jobs, deadlines, budget, streak | wake, dispatch, admit, refresh round | coordinator | Polling |
| Full-history discovery (`history_plan.py`, ...) | cursor, phases of months, runs, gaps | claim, accept, finish, reuse, reconcile | archive actor, transport | HistoryScan |
| Audits (`archive_audit.py`, ...) | scan, receipts, page links, marker, revisions | start, step, delta | archive, worker | HistoryAudit |
| Preservation (`preservation.py`, ...) | detail checkpoints, cursors, turns, budget | tick, claim, finish | archive, broker | DetailTasks, UpkeepTurns |
| Range sync (`sync_job.py`, `history_sync.py`) | one durable job | start, advance, record, cancel | archive, worker | SyncJobs |
| Month repair (`month_tasks.py`, `month_sync.py`) | bounded task table | schedule, claim, finish, cancel | archive, broker | MonthTasks |
| Reconstruction (`reconstruction_job.py`, ...) | captured scope, recovery point, progress | start, step, pause, search | archive | Reconstruction |
| Archive actor and backup (`archive_runtime.py`, `backup.py`) | queue and thread per archive, fence, deletions put off | open, run, close, pre- and post-backup | entries, Home Assistant's backup | ArchiveActors |
| Archive store (`ride_archive.py` and codecs) | months, rides, selections, details, revisions | receipts, repair of links, import, merge, walk | all readers | RideStore |
| Archive placement (`account_archive.py`, `startup_recovery.py`) | the files of an account | prepare, open, migrate, adopt, recover, remove | SQLite, file system | ArchiveFiles |
| Archive transfer (`archive_options.py`, ...) | export slots, packages, staging, confirmation | export, import, merge, download | options flow, archive | ArchiveExchange |
| Identity and registry (`identity.py`, `registry.py`) | journal of renames, registry | plan, rename, convert, save | Home Assistant's registry | EntityIdentity |
| Ride events (`ride_events.py`, `event_store.py`, ...) | durable cursor, stability window | observe, save, emit | coordinator | RideEvents |
| Statistics, raw evidence, parsing, services, entities, frontend | projections and caches | reads, conversions | coordinator, archive | - |

What is hard here, and not reached by the unit tests: the order in which two
coroutines pass their awaits; a result that arrives after what it belonged to was
replaced (late status, late error, older command); cancellation in the middle of
anything; a kill of the program between two renames or within a commit; a queue at its
limit; a cooldown meeting a close; durable jobs whose state several transactions read and
write. The list with lines is `hazards` in `PROJECT.json`.

What makes each component correct, in a sentence:

- broker: identical reads share one request, nobody's leaving disturbs the others,
  limits hold, nothing is sent while the account cools down, every call returns;
- sessions: a key has one complete login session whatever crashes or fails, and
  the flow reports what happened;
- controls: a command is confirmed only by a status asked for after its answer, a
  newer command replaces an older one completely, commands of one lock are sent in
  the order of the calls, every call returns and every follow-up ends;
- reads: a read after a command is newer than it, abandoned reads end, every due group is read;
- discovery: no month is called verified that misses a ride, no checkpoint moves back or after its
  end, no run is lost, and the archive always opens again;
- audits: what is certified was checked and has not changed, and a scan is not restarted for ever;
- durable jobs: complete means that the data is there, an end is final, every job ends;
- archive: nothing writes during a backup, selections and rows agree, the better copy stays, no
  start costs an original;
- identity: the journal announces what the registry will have; an owner's rename stands;
- events: no event is emitted twice, none before it is durable, the newest state is processed.

## 2. Modules

A module is one component, with its constants, its variables, one action per stretch of code
between two awaits (or per transaction, or per system call where a crash may fall between), its
type invariant and its properties. The MC modules compose components that one run checks: their
variables are disjoint, and in every behaviour one part moves while the others rest in an initial
state ("mover"), so that the run explores the sum of the parts and not their product. The
composition adds no behaviour to a part and takes none away. Where components do interact, the
interaction is inside a module: the flow, the setup and the store in SessionStore; commands, their
observers and status reads in LockControl; two archives merged into each other in RideStore; worker,
reconciliation and pauses in HistoryScan; the journal, the registry and the owner in EntityIdentity.

### QueryBroker (`query_broker.py`)

State: `on` is the future each caller of `_submit` awaits; `job` holds the fields of
each `_Job`; `queued`, `flights`, `worker`, `active`, `task`, `streak`, `last`,
`failures`, `cooldown` and `closed` are the attributes of the broker. The time of the
cooldown counts in units of 15 seconds. A job identity is reused when nothing refers
to the job any more. Sequence numbers are replaced by the set of queued jobs `before`
a job: only their order is used.

Actions, one per stretch of code between two awaits: `Enter` (join a flight, enter the
queue, or be refused) and `Leave` (result, or cancellation) of `_submit`; `WorkerStart`,
`WorkerSettles` of `_run`, the latter with the choice of the next job (`_choose`);
`AcquireGate`, `OperationReturns`, `OperationRaises`, `TaskCancelled` of `_execute`;
`Close`. `OwnershipMoves` and `PermitChanges` are what the guards of the callers read,
`ForeignAcquires` and `ForeignReleases` the other accounts, `Tick` the clock.

Left out: times on receipts, counters of the diagnostics, and two branches that no
state of the model reaches (a cancelled future in the queue, which its last caller has
already removed; a cancellation of the worker by anything but `async_close`).

### SessionStore and AtomicSession (`session.py`, `config_flow.py`, `__init__.py`)

`AtomicSession` is the promise: a key has a complete session, or none; it changes in
one step, to the session that a transaction in progress offers. `SessionStore` is
the code: `Thread` performs the file operations of `_recover`, `_commit`, `_rollback`,
`async_finalize` and `async_remove` one system call at a time (`Look`, `Clear`,
`Restore`, `Drop`, `Unlink`, `Purge`, `Untemp`, `WriteTemp`, `WriteJournal`, `Keep`,
`Publish`, `Accept`, `Sweep`, `Check`, `Wipe`), each of which may fail (`Raise`,
`Fault`); a removal of a directory that fails leaves it `Torn`. The flow is `_credentials`
with its `finally` clause, step by step, and may be cancelled at every await
(`Cancel`); the entry is set up, unloaded, reloaded and removed; `Crash` kills the
program between any two calls. `Recovered` is the session that recovery would put in
place, and the refinement maps `session` to it and `offered` to the candidate.

Left out: what is in a session, the SMS challenges, options and titles. A flow is
cancelled once. A crash is the end of the process, not of the machine: what a call
wrote stays. A candidate directory of a new entry that crashes before its commit stays
behind, which no code removes and no property is about. In `_commit` the BUSY and
FileExistsError branches are unreachable, which `CommitUnblocked` shows.

### LockControl (`coordinator.py`, `control_targets.py`, `control_polling.py`)

One vehicle of one account. `cmd[c]` is a call of `async_control` with its record in
`ControlResults`, `obs[c]` its observer task (`_confirm_lock`), `fol[c]` its follow-up
(`_control_followup`), `read` the status requests that they and a regular poll have
under way, `gate` the dispatch lock that all accounts share. `pending`, `shown`,
`observer`, `followup`, `versions` and `serial` are the tables of the coordinator.

`Call` runs from the entry of `async_control` to the gate; `Rejected`, `Posted` and
`CommandAnswered` are the broker's work on the command; `Resume` classifies the result and starts
the observer; `Attempt`, `Judge`, `NoSlot`, `Deadline` are the observer; `ObserverEnded` ends
the call; `Cancelled` is the cancellation of the caller at any await. `ReadStarts`,
`ReadAnswered`, `ReadRefused`, `ReadCommits` and `ReadSkipped` are `_group_update` for the
status, whose payload is parsed in a thread between answer and commit.

Abstractions. Each observer and follow-up reads alone, since it raises the barrier in
the key before it reads. A status is a lock state per lock; an unknown state is no
target and is not told apart. `unknown` stands for UNKNOWN and TARGET_NOT_OBSERVED.
Operations of the client raise only `NinebotError`. A vehicle stays in the account:
no code path clears `present`. Calls after closing are not modelled. `Return` is no code:
it forgets a call whose caller has the result. The readback of a bell ends in any of its
results without its read.

What the code does that a reader may not expect, and the model keeps: a newer call
replaces the observer of an older one even when the newer is refused; an older command
whose answer was uncertain returns normally when a newer replaced it; so does an older
one that is cancelled then.

### SharedReads (`coordinator.py`)

The status reads of one vehicle that `_shared` shares: `refresh` and `group` are the
dictionaries `_refreshes` and `_groups`, by key, a key being the generation of the login
and the barrier of the commands; `call` are calls of `async_refresh_vehicle`, `poll` the
regular readers. A refresh task reads with force through the task of `_group`, so a
consumer waits at two levels. `Call`, `PollJoins` and `RefreshStarts` create or join a
task, `CallerLeaves`, `PollLeaves` and `RefreshReaps` leave it, the last one cancelling;
`RefreshEnds`, `RefreshGone`, `Ends` and `GroupGone` are the done callback and what the
readers then get; `GroupSkips`, `Sent`, `Failed`, `AuthFailed`, `Answered` are
`_group_update`; `Fence` is the end of a command, `Close` is `async_close`.

Abstractions. Whether the status is due is a choice of `GroupSkips`. What a response
commits is in LockControl; here a response carries the barrier at which its request was
sent. A refresh that returns False and one that raises the lost login are both "no". A poll
that leaves as the last reader does not wait for the end of its task.
The model keeps that only the creator's `force` counts: a manual refresh that joins the task
of a poll that finds nothing due returns True without a read, which is why
`NoPreCommandReuse` speaks of refreshes whose read sent a request.

### HistoryScan (`history_plan.py`, `history_store.py`, `incremental_runs.py`, `gap_recovery.py`, ...)

How the ride history of one vehicle is discovered. `plan` holds the `HistoryPlan` of the
baseline, which walks the months from the newest to the oldest, and of the single-month
runs; `evidence` is what the tables of pages, identities and judged months hold for a
plan's month; `active`, `link`, `reused`, `token` and `seen` are the keys of `meta`;
`local` is the archive's own copy of a month. A worker (the timer's tick or a service
call) is between two transactions: it waits for the cloud (`calling`), has its answer
(`answered`), or has looked at a month it may reconcile (`viewed`).

Every action on a durable variable is one transaction of the archive, and these run alone:
`ForceMonth` and `SeedGap` schedule runs, `Claim`, `Accept` and `Wait` work on a page, `Reuse`
takes a month from a run, `Finish` ends a plan, `View`, `Reconciled`, `Reconcile` and
`ReconcileSkips` are the reconciliation of the recent months. `Refused` is the answer that
comes too late, `Vanish` a restart or a cancelled call. `Pause` saves the flag and
`PauseSeen` tells the workers.

Abstractions. Time is left out: a lease lapses or a retry is due at any moment, and a run's
list is later than a gap's when it was committed later. The revision of a plan is replaced by `holder`, the
worker whose copy is current. A page has one ride, the newest first; new rides of a month are
newer than all others. `Finish` leaves open when the details are saved. The hourly budget and
the turn between plans only delay a claim. The limit of eight megabytes and the digests
of a reused month are not modelled, nor are details, audits and the months after the
baseline's end. A restart reads the saved pause before any worker steps, and a transaction
whose guard was read just before the workers learned of the pause counts as before it.
`kept` and `later` in `evidence` are observations and no columns.

### RideEvents (`event_store.py`, `ride_events.py`, `ride_lifecycle.py`, ...)

`Poll` replaces the snapshot and feeds the window of stability; `Subscribe` asks for a baseline; the
pipeline's task runs from `Begin` over the save of the cursor (`Write`, which may land and still fail) to
the acknowledgment (`Acknowledge`), after which it may start again (`Again`); `Restart` is a crash or a
stop, which leaves what is on file. `SetBack` sets the clock
back. A ride has an end and a flag whether its metrics changed. The cursors of other vehicles and the
cursors of reports, which are not saved, are left out.

### SyncJobs, MonthTasks, Reconstruction (durable jobs)

Each action is one transaction of the archive (or one await of the executor between two). SyncJobs has
the job of a range with its executor, which re-reads the job before every write, and the other
readers of its months, which advance it. MonthTasks has the bounded table, eviction, claims and
answers. Reconstruction has the captured rides, the recovery point that is published outside of the
transaction, the repair of one ride per step and the search of the copies. Crashes, faults of a
query, an owner who starts, pauses and cancels, and files that disappear are in each. Times are
reduced to due and not due.

### DetailTasks, UpkeepTurns (`preservation.py`)

DetailTasks has a checkpoint per ride, the claim, the query and the finish of its detail, and the polls
and readers that change summary or detail meanwhile. UpkeepTurns has the cursors and turns in
`meta` by which the worker serves details and months, families and vehicles, with the budget. What
is pending is chosen freely.

### HistoryAudit (`archive_audit.py`, `object_checks.py`, `page_reference_audit.py`, `background_audit.py`)

Rows carry an object; a scan walks the captured rows of each kind in batches, receipts belong to
objects, two revision counters tell whether anything changed since. `Store`, `MergeIn`, `RestoreBytes`,
`OtherWrite` and `Decay` change rows and bytes between the batches; `AuditTick` is the worker's turn,
`OwnerVerify` and `OwnerStep` are the service. Digests and sizes are data.

### RideStore, ArchiveActors, ArchiveFiles, ArchiveExchange (the archive)

RideStore: what the tables of two archives hold of a vehicle, with receipts in any order, the link
repair, the import of the first version's ledger, merges, and a reader who walks the selection
page by page. ArchiveActors: a queue and a thread per archive, its opening and closing, adoption under
the account's lock, the backup's hooks and the removal of entries and accounts. ArchiveFiles: the files
by the originals in them; a start adopts, opens, migrates, recovers and merges step by step, with a
crash between any two and within a commit, which leaves a hot journal. ArchiveExchange: the
private directories of exports and imports with the workers in them, cancellation, the
confirmation and the timers.

### Polling (`realtime.py`, `polling_activity.py`, the polling half of `coordinator.py`)

`timer`, `task`, `jobs` and `streak` are the dispatcher's, `tokens` the budget's. `Wake` creates a task that has ended
when `async_create_task` returns, as Home Assistant's default is eager; `Dispatch` is used by it and by
`RoundBegins`, the refresh round of Core. Reads end, fail, are dropped or lose the login;
explicit reads, commands, cooldown, new options and closing happen beside them. Deadlines pass at any
moment, so the arithmetic of the intervals is left out.

### EntityIdentity (`identity.py`, `registry.py`)

`plans` is the journal in memory, `file` what is saved of it, `registry` and `saved` the same for Home Assistant's
registry, which is written some time later (`Persist`). A pass plans all rows, saves, looks at each row
again, renames it and saves the outcomes; the locks are converted after it. `SaveFails` and
`IdentityCrash` may fall anywhere, the owner renames rows at any time. Left out: the seeds, the
unforced branch, the copies that are kept of a row's first plan.

## 3. Runs

| Run | Question | Bounds |
|---|---|---|
| `broker_safety` | Do sharing, limits, cooldown and wake-ups survive every interleaving, with failing operations, changing owners and closing? | 2 callers, 3 jobs, 2 reads and a command of one vehicle, 2 priorities, 2 places, 1 wire slot, backoff up to 2 |
| `history_scan` | Do verdicts, checkpoints, runs and gaps agree whatever is late, lost, paused or changed meanwhile? | 2 months (no ride, up to 3 rides), 2 runs, 2 workers, 2 pages of a month, 1 active month, 2 faults or changes |
| `ride_events` | Is an event emitted once and after it is durable, and is the newest state processed? | 2 rides, a ledger at its limit, failing saves, crash, clock set back |
| `records` | Is every durable or reported record true: session and transaction (and the refinement of AtomicSession), command results and their order, certificates, journal of renames? | 3 versions, 2 crashes, 1 failing call; 2 commands of one lock, 1 poll, 1 read slot; 4 objects of 2 vehicles, 2 writes, 1 decay; 2 rows, 1 stop, 1 failure, 1 change by the owner |
| `archive_jobs` | What does completion claim, what does an end forbid, does each job end? | 2 months, 2 jobs, 1 place in the table, 1 call that schedules, 2 attempts, 2 faults; 2 rides, 2 copies, 2 reconstructions, 1 mishap |
| `archive` | Fences, selections, merges, placement with crashes, exports and imports | 2 entries, 1 backup; 2 archives, 2 rides, 2 months, 4 observations; 3 originals (none before, or two in earlier files, one of them damaged), 2 starts, 1 crash; 3 exports in 2 slots, 1 import with 2 steps of its flow |
| `turns` | What must end or take turns: details, turns, broker calls, commands, login transactions | reads of 2 vehicles, 3 places; 3 versions, 1 crash; 2 commands at 1 place; 2 rides with 2 contents, 1 disturbance; 2 vehicles, 5 kinds of work |
| `reads` | Are shared reads fresh for commands and reclaimed, do refreshes return, is each due group read? | 2 refreshes, 1 poll, 1 command, 1 lost login; 1 car with 2 groups, 2 tasks, 1 token |
| `sync_reopened` | (violated) Does a job only move forward? | as `archive_jobs` |
| `archive_crash` | (violated) Does the next start open what a crash left? | as `archive` |
| `polling_timer` | (violated) Can the timer not be held? | as `reads` |
| `owners_rename` | (violated) Does a later pass leave the owner's name? | as `records` |

Why the bounds are enough. The broker tells jobs apart by their key, priority and
place in the order only, its limits are relative to `MaxPending`, and two callers are
enough for one to leave while another stays, three jobs for one active, one abandoned
and one new. A retry-after behaves as a long backoff and is not varied in the run. In
the session store a flow has one candidate and at most one older version is in the
directory and one in the backup; a third version serves a flow after a crashed one. Two
crashes cover a crash during the recovery from a crash. For controls, a command only
compares its version with the newest and its revision with the last; two commands and
their requests produce all orders of these. One slot stands for
sixteen since an observer keeps nothing between slots but the number of reads.
Locking differs from unlocking in its target only, so one-lock runs use one action.
For shared reads, one poll and two refreshes give every combination of first, joining and last
reader at both levels; one command separates a before from an after. For the dispatcher, one token
and two tasks make the budget and the limit of tasks bite.
For the history, the newest month is one that is reconciled and the other one that may be reused;
three rides on two pages of one make a list that verifies, one that overruns and one whose
pages shift; one active month makes the second compete for room; two runs make a first and a retry.
Two bounded steps are enough for each pair of a lapsed claim, a malformed answer, a change of
the list, a restart, a pause and an explicit request. A job compares only its own revision and
month, so two months give a first and a last; one place in the table makes every second task evict.
Two archives merged both ways, each with an older and a newer observation, give every order of
receipts of a row; three originals tell the archive's own, an earlier one and a late one apart. Two rows
whose names are each other's targets make the conflict of names.

Deadlock checking is off where the system may stop: calls, commands, runs, faults and crashes are
bounded, and a part may have nothing left to do. `ride_events` checks deadlock.

Fairness. A step of a coroutine that is ready is taken (the event loop); threads
return; a request ends since the client gives every one a timeout; operations of other
accounts end for the same reason; timers fire and the budget fills up; the worker's turns come. The
semaphore and the locks are first come first
served, hence strong fairness of `AcquireGate` and `Granted`. The flow as a whole is
strongly fair: the lock it waits for may be taken by setups in between; so is the range job's turn among
the worker's. Nobody is
obliged to call, to leave early, to cancel or to close. As one part of a composition rests, a
conjunct of the fairness may join actions of several parts: `MCTurns`, `MCJobs`, `MCArchive` and `MCReads` do so,
and within a part only actions are joined of which one being taken again and again means that
the part moves on (an execution in which a joined action is starved would need infinitely many steps
of its neighbour, of which there are finitely many unless new work arrives).

What the four violated runs show:

- `sync_reopened`: the executor reads the job again just before it announces a month, so
  the comparison that should catch another reader's completion of the job does not, and a completed job is
  opened again for a month already recorded.
- `archive_crash`: a crash after the empty file of a new archive is created, or within a commit,
  leaves a file that the next start's read-only look refuses for good, although a plain open would recover it.
- `polling_timer`: the dispatch task has ended before it is assigned, and the assigned task that has ended
  keeps `schedule` and `_wake` from ever arming the timer again. Refresh rounds of Core still read.
- `owners_rename`: a forced pass plans again whatever was journalled for another reason than the two
  canonical ones, so a name that its owner gave since is overwritten.

## 4. Known disagreements without a run of their own

These properties are stated in the modules; TLC refutes each of them on the instances above, with
the constants named here. They are kept as definitions, and their hazards say that nothing covers them.

- `RuntimeKeepsItsFiles` with `OtherSetups = TRUE` (SessionStore): the flow looks at the state of the entry
  before it awaits the login. If the entry fails to unload or is set up in
  between, the files of a runtime are replaced, against the comments at
  `config_flow.py:137` and `:257`.
- `NewCommandStopsFollowUps` (LockControl, two locks): the follow-ups of commands of two locks share one entry of
  `_control_followups`; the second overwrites the first without cancelling it, so the
  next command stops only one, against `src/docs/guide.md:144`.
- `OthersNotCancelled` (SharedReads): `_shared` joins a task that is not done, also when its last reader has
  just cancelled it. A refresh that comes in this window ends with CancelledError,
  against `src/docs/architecture.md:26`. `QueryBroker` removes a job from its
  dictionary first and has no such window.
- `GapsStayRetriable` (HistoryScan, an old month with a ride): a run is requested for a month that the baseline has not reached and
  verifies it; the baseline's own attempt then fails. `seed` links the gap to that run, which is
  still saving details, `completed` refuses it as older than the gap, and `seed` skips
  the gap from then on because the linked run has no gap of its own (`gap_recovery.py:175`),
  against `src/CHANGELOG.md:193`. A later request by hand, after that run has ended, resolves it.
- `EachFamilyGetsATurn` (UpkeepTurns, `MaxFamilyWait` > 0): with the budget spent, the range job's step counts as the
  turn of the explicit work although nothing is requested (`preservation.py:341`, `:287`).
- `EverySubscriptionRebaselines` (RideEvents): an entity that subscribes before the first travel read has succeeded
  never gets the baseline it asked for (`event_store.py:150`).

## 5. Proofs

Eight modules hold the proofs. Every theorem is about the safety part of a component's
specification (`Safe`, `ControlSafe`, `SessionSafe`, `TurnsSafe`, `DetailSafe`, `ReadsSafe`, `ActorsSafe`, `FilesSafe`,
`ExchangeSafe`, `StoreSafe`: the initial states and the steps, without fairness; `Spec` of HistoryScan and
RideEvents, which state none; for the durable jobs and the records the compositions `MCJobs` and `MCRecords`,
whose fairness the proofs do not use) and holds for every value of the constants that the named
assumptions of the component allow: finite sets (jobs, vehicles, rides, rows of the registry, payloads held at first),
bounds that are numbers. In each the
argument is an inductive invariant, since none of the properties is inductive
itself, and one lemma per action that it is kept. `PROJECT.json` lists the theorems with the properties of
the runs that they state.

| Module | Theorems | The invariant, and why it is needed |
|---|---|---|
| `QueryBrokerProofs` | `TypeAndService`, `NobodyStranded`, `ReadsCoalesce`, `AdmissionIsBounded`, `TheWireIsWarranted`, `SharedReadsSurvive`, `CooldownEnds` | `ServiceInv`: the worker lives while the queue is not empty, nobody asked the task of an unanswered job to stop, a closed broker has no unanswered job; `ShareInv`, `AdmissionBounds`, `WarrantInv`, see below |
| `LockControlProofs` | `ResultsHold`, `OrderHolds`, `EventsGoOutOnce`, `SnapshotsAreProcessed`, `CursorsRestore` | `ControlInv`: the course of each call, the tables and serials, the order in the gate, and one request on the wire; `EventsInv`: what was announced on this clock is known to every cursor, in memory, on file and about to be saved |
| `SessionStoreProofs` | `SessionTypes`, `FlowTellsTheTruth`, `FilesAreAtomic`, `RuntimesKeepTheirFiles`, `RuntimesServeTheSession` | `SInv`: who has the lock and which job he runs, what is on disk at each step of a job, what the flow knows of both; `RInv` adds which states of the entry a flow meets, and where the journal is while no call has failed |
| `HistoryScanProofs` | `ArchivesOpen`, `NothingIsMissed`, `RunsStay`, `CheckpointsHold` | `IInv`: where a plan and its pages have got to, how far behind the pages the rides not yet seen are, what a worker's claim and answer are worth, what the months point to; see below |
| `UpkeepProofs` | `TurnsAreFair`, `DetailsPreserved`, `ReadsServeTheirReaders` | `TurnsInv`: a side that was passed over has the turn, and what a vehicle waited and its distance from the cursor add up to at most the fleet; `DetailInv`: the marker is the content observed last, which the archive has; `SharedInv`: each request was sent at the barrier of its key or later, each level's task at that of its readers or later, and a read that runs has a reader |
| `ArchiveProofs` | `BackupsAndDeletionsAreAlone`, `ActorsAreTyped`, `ExchangesAreSound`, `AdoptionsAreWhole`, `OriginalsAreKept`, `SelectionsAreOne`, `WritesKeep`, `StoresAreConsistent` | `ActorsInv`, in two halves, see below; `ExchangeInv`: directory, thread, slot and owner at each step of an export or import; `FilesInv`: what lies beside the archive at each step of a start; `StoreInv`: the marks of each month are its list, nothing refers to a month, ride or original the archive lacks, and a reader with a good cursor has seen the selection up to it |
| `JobsProofs` | `CompletionsAreTrue`, `RecoveryPrecedesRepairs`, `EndsStay` | `IInv`: of the range job that each month behind its cursor was recorded complete or is in one of its lists, of a month's executor that it knows a task that is being queried, of a reconstruction that what is behind its cursor is sound |
| `RecordsProofs` | `FileHolds`, `RenamesStand`, `CertificatesHold`, `ScansMoveOn` | `IdInv`: what the journal and its file have announced, and that a row nobody touched has the name it came with or its canonical one; `AuditInv`: while the counters are those of a scan's capture, the rows behind its place are the ones it walked over |

**Broker.** That a caller's job is queued says nothing unless somebody works: `ServiceInv` says who.
The lemmas go by groups of actions (`JoinKeeps`, `SubmitKeeps`, `LeaveKeeps`, ...), with two for what the
actions share, `CollectKeeps` for the reuse of job identities and `ContinueKeeps` for the choice of the next
job, which is opaque in the proof: any queued job would do. The second half rests on the fact that most
steps only make the table of jobs smaller (`Narrows`): jobs are forgotten, futures resolved, callers leave.
Sharing and the budgets survive such steps at once (`NarrowsShare`, `BoundsShrink`), and only joining
and submitting remain. `ShareInv` counts the callers of a command apart, because a command is never
shared. `WarrantInv` says of the queue and of each stage of the task who still
waits for it, and that a request is on the wire only while no cooldown is set; from it follow that a shared
read is cancelled by nobody's leaving and that a cooldown is not extended by a call that
it rejected, which are properties of steps.

**Commands.** `Course` says of one call what it can have done at each of its stages, `TablesInv` which calls the
tables of the coordinator name, `GateInv` that the gate holds the calls in the order of their serials and that
only its first has sent. A request is numbered when it is sent and the account has one request on the
wire (`WireInv`); so a status with a greater number than the command's was asked for after the command was
answered (`AfterInv`), which is what the comparison in `_confirm_lock` relies on and what `OrderHolds`
says. Each action has a lemma on its effect (`...Does`), one on the calls (`...Keeps`) and one on the requests
(`...Requests`); `RunRests` says what the others may do to a call, `EndKeeps` how a call ends. The assumption
is that calls, regular polls, other accounts and the readings of the observers are told apart.

**Events.** `EventsAreOnce` says something of the file only while the clock was never set back, which is not inductive.
`Known` says it of the rides whose count exceeds the number of times the clock went back: they were announced since,
have ended, and are known to the cursor, the file and the cursor that is being saved. Setting the clock back raises
that number and makes it vacuous; a baseline is taken at the present and so covers every ride that has ended; an
observation forgets nothing (`DiscoverDoes`), because the floor rises past what `_retain` evicts
(`RetainDoes`). What is about to be announced was unknown to the cursor, so its count is not above that number
(`Unannounced`). That there are as many lowest rides as are evicted (`LowestExist`) and that a finite set has a greatest
element (`MaxIs`) are shown with the least size for which it would fail, as induction is not available.

**Sessions.** `FilesAreAtomic` is the refinement: every behaviour of the file operations, with failures
and crashes between any two, is a behaviour of `AtomicSession` under the mapping of section 2.
`HolderInv` names the jobs that the holder of the lock may be running, `DiskInv` what directory, backup,
journal and temporary file look like at every step of one, `FlowInv` and `OutcomeInv` what the flow knows; an action
of the thread then maps to a step of the session (the rename that publishes, the removal of the journal) or to
none (`AbstractStep`). For each action there is a lemma on its effect (`...Does`) and one that it keeps the
invariant and refines (`...Keeps`).
The two theorems on runtimes have the hypothesis `~OtherSetups`: Home Assistant sets up or unloads the entry
only between the flow's look at it and its end. Without it both are false; section 4 says how.

**Discovery.** The counts of a month that is complete leave no place for a ride that was missed. While a month is being
enumerated, each ride that was listed all the time and is not among its pages has a rank in the cloud's list
beyond the pages taken (`Behind`): after `k` pages of a month of `total` rides that
now has `n`, its rank is at least `k + 1 + n - total`. A new ride moves it and `n` up by one
(`BehindGrows`), a deleted one moves `n` down by one and it by at most one (`BehindFalls`); a page of rank
`k` takes one ride and puts the others behind `k + 1` (`AnsweredKeeps`), for the worker
that still holds the claim (`AnswerInv`). When the pages hold `total` rides in `k` pages or more, a ride
left would have a rank above `n`, which no ride has (`AcceptAdds`). `PlanInv` is `CheckpointAgrees` and what makes it
inductive, that months below the cursor have no pages. What all steps share is `Stands`:
verdicts stay, and so do a plan's month and the end of its discovery; so a resolved gap stays
resolved, also for the worker that looked at it earlier (`ViewStands`). One lemma each covers the starting of runs
(`RunStarts`), the states of a plan (`PlanTurns`), new evidence (`Advances`), the workers
(`WorkersOnly`) and the cloud (`CloudMoves`). The capacity of a month and `MaxEvents` are arbitrary numbers.

**Upkeep.** Fairness between sides rests on the turn that is handed over whenever the other side is passed
over; between vehicles on a measure: each request that passes a vehicle over brings it one
place nearer to the cursor. For the details the invariant says nothing of checkpoints beyond the
observation that is their newest; that is enough, since a second observation counts only when it
equals the marker, and a change of the ride starts again.

**Shared reads.** A refresh of a command's key may be served by a task that others created, so the invariant
(`SharedInv`) relates barriers along the whole chain: request to read task (`GroupBars`), read task to
refresh (`RefreshBar`), refresh to caller (`CallBars`); all are kept because barriers only rise and a task
that ends takes its readers' reference with it. `ReadInv` counts the readers at both levels; a cancelled
refresh task leaves its read as the last one or not, and the two cases are two lemmas
(`ReapsKeeps`, `RefreshGoneKeeps`). `RoomInv` keeps the bound on generations: one is left for everybody who will
be told of a lost authentication.

**Archive.** The fence: while a backup is on, an actor is quiet, or the hook has not passed its place in the list
and, if it waits at that place, everything that writes is queued before the barrier
(`FenceInv`, `HookInv`); what is fenced is in the list that the end of the backup thaws (`ThawInv`). That a copy
starts with every actor quiet is then `FenceInv` at the end of the list. The deletion: at most one entry has the account
(`SoleInv`), the stage tells who has its lock (`LockInv`), a deletion that is put off or waits has no
actor of another entry ahead of it (`DeferInv`, `WaitInv`), hence none where files are deleted (`EraseInv`).
The thread's, the hook's and the owner's actions disturb one half or the other, and the lemmas (`Gentle`
for steps that the fence does not notice, `StageInv` for the second half) keep them apart.

**Files and exchange.** A start works through the files it found one by one, and can stop anywhere. `FilesInv` says
for each stage which copy exists before the archive is touched and what of the current source has been
taken over; what is removed is in the archive already, so a start that did not fail and has nothing left to
adopt leaves only what the archive holds. An exchange awaits threads that cannot be cancelled: the invariants of the
exports, the slots and the import (`ExportInv`, `SlotsInv`, `ImportInv`) tie every directory to the flow or
download that will remove it and every thread to a directory that is there.

**Archive store.** `StoreInv` asks of each archive that it is `Sound`: its marks fit its lists (`MarksFit`), and
memberships and details refer to months and rides that are there (`Rooted`, `Consistent`). Without `Rooted` neither
of the other two is inductive: the ledger's list may take an empty month only because nothing is marked there, and a
link may be restored only because a ride is behind every detail. Each kind of write has a lemma that it makes a
sound archive sound and no worse (`Better`): `MonthIsSound`, `DetailIsSound`, `LinkIsSound`, `LedgerIsSound` and, for any
two archives, `UnionIsSound`, which needs what the foreign key enforces (`Replayable`). `CommitIsGood` joins
them with the reader: a cursor stays good only while the catalog does, and the catalog fixes what is
selected (`CatalogSelects`, again with `Rooted`). `PageIs` says that the next page is the next ride of the selection.

**Durable jobs.** A range job is read, changed in a local and written in different transactions, so its
evidence (`True`) has to hold of the stored job and of each copy that the executor or the owner may still write
(`RangeInv`); months are only ever added to what was recorded, so a copy's evidence does not age.
`ActorsInv` says that an executor at work and a write of the owner exclude each other, from which a
cancelled job is not written over. A schedule works on its table month by month; that the
recursion has a value and that each of its tables keeps the active tasks (`Kept`) is shown with the least month
for which it would fail (`Least`), since induction is not available. A finished attempt finds its task unchanged,
hence still being queried (`TaskInv`). For a reconstruction, `BehindIsSound` and `CompleteIsBehind` hold
while nobody else moved the archive; a move that the job has not seen yet is seen by its next fences.

**Records.** A name is changed in one place, after its plan was saved, but the registry is written later
than the journal: `Announced` relates the plan in memory, its file and both states of the registry, so that
a crash that brings an older registry back finds the intent (`FileHolds`). The renaming pass is a recursive
function over the rows; that it has a value is shown with the least row for which it would fail
(`AfterExists`), and what it leaves of each row likewise (`AllRows`), again without induction. For the
check of payloads, `BatchIs` says that a batch passes over no row that it does not take, whatever its size,
and `CountersMove` that every write that adds or drops a row moves a counter; a scan whose
counters are still those of its capture has therefore seen exactly the rows that are there (`Walks`).
A stale scan may have seen anything, which is why `AuditInv` says nothing of it and why it cannot certify.

Only model-checked. Every safety property that a passing run checks is stated by a theorem, except `NoTickIsWasted`
(a tick with due work is not disabled), which needs ENABLED. Liveness (`JobsEnd`, `PartsEnd`, `ReadsEnd`) needs
fairness and ENABLED, which are beyond the prover. Polling has no proof: what its runs ask is liveness and a
promise that does not hold, and its dispatcher filters sequences with `SelectSeq`, whose laws take an operator.
Nor are the types of the durable jobs proved (the checks of their `restored` functions). The properties of the
four runs that expect a violation and those of section 4 are false of the code.
One assumption is a bound of the models: that no generation or barrier exceeds its maximum, which may be any number.

## 6. Not modelled

`PROJECT.json` lists each part with its reason. Payload conversions, codecs, statistics,
entities and the frontend are data transformations without ordering. Of the stateful parts these are left
out: the retry of the transport within one deadline; the arithmetic of polling intervals; the contents of battery
and travel reads with their previous-month fallback; months after the baseline's end, where the
reconciliation may give a token to a forced run whose discovery is over; private temporary files that
a crash leaves and that the deletion of an account then refuses (`account_archive.py:248`).

