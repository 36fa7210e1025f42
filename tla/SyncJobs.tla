------------------------------ MODULE SyncJobs ------------------------------
(***************************************************************************)
(* The durable job that fills a selected range of months of one vehicle.   *)
(*                                                                         *)
(* One job is stored per account.  It is moved, newest month first, by an  *)
(* executor that runs either for the owner's action or for a turn of the   *)
(* preservation worker: a month that the archive already has is skipped, a *)
(* missing one is announced in the job, queried and recorded.  Whoever     *)
(* records the announced month advances the job in the same transaction,   *)
(* the executor's query or any other reader of that month.  The executor   *)
(* reads and writes the job in separate transactions, each write compared  *)
(* with the value it expects.                                              *)
(*                                                                         *)
(* Times are reduced to whether a retry is due.  The vehicle is fixed.     *)
(***************************************************************************)
EXTENDS Integers, FiniteSets, FiniteSetsExt

CONSTANTS
    SyncMonths,      \* the months that can be selected: 1..n, newest last
    MaxMissing,  \* MAX_MISSING_MONTHS
    MaxJobs,     \* bound on the jobs started
    MaxFaults    \* bound on failed queries, refused writes, lost owners and crashes

ASSUME SyncJobsAssumption ==
    /\ SyncMonths = 1..Cardinality(SyncMonths) /\ IsFiniteSet(SyncMonths) /\ SyncMonths # {}
    /\ MaxMissing \in Nat \ {0} /\ {MaxJobs, MaxFaults} \subseteq Nat

VARIABLES
    job,       \* meta.sync_job
    saved,     \* list_complete of each month in the archive, or "none"
    waited,    \* the job's retry_at has passed
    executor,  \* HistorySync._task and what it holds in its locals
    control,   \* async_start or async_cancel under way
    syncFaults,    \* faults used so far
    completeOnce   \* months whose saved list was complete at some time (observed)

syncVars == <<job, saved, waited, executor, control, syncFaults, completeOnce>>

Coverage == {"complete", "partial", "unknown"}
NoJob == [id |-> 0, lo |-> 0, hi |-> 0, next |-> 0, state |-> "none", rev |-> 0,
          queried |-> 0, skipped |-> 0, incomplete |-> {}, unknown |-> {}, retry |-> FALSE]
Resting == [at |-> "rest", job |-> NoJob, before |-> NoJob, missing |-> 0, worker |-> FALSE, owns |-> TRUE]
NoControl == [at |-> "rest", expected |-> NoJob, put |-> NoJob]

Terminal(j) == j.state \in {"none", "complete", "cancelled"}

\* The checks of restored_job, which every stored job passes when it is written and read.
Restorable(j) ==
    /\ j.lo <= j.hi /\ j.rev >= 1
    /\ j.queried + j.skipped = IF j.next = 0 THEN j.hi - j.lo + 1 ELSE j.hi - j.next
    /\ j.next # 0 => j.next \in j.lo..j.hi
    /\ (j.state = "complete") = (j.next = 0)
    /\ j.retry => j.state = "waiting"
    /\ j.incomplete \intersect j.unknown = {}
    /\ j.incomplete \union j.unknown \subseteq j.lo..j.hi
    /\ j.next # 0 => \A m \in j.incomplete \union j.unknown : m > j.next

\* Mutant: a month whose coverage is unknown counts as covered.
AdvancedOptimist(j, queried, list) ==
    LET following == IF j.next = j.lo THEN 0 ELSE j.next - 1
    IN [j EXCEPT !.next = following,
                 !.state = IF following = 0 THEN "complete" ELSE "ready",
                 !.rev = @ + 1, !.retry = FALSE,
                 !.queried = @ + (IF queried THEN 1 ELSE 0),
                 !.skipped = @ + (IF queried THEN 0 ELSE 1),
                 !.incomplete = IF list = "partial" THEN @ \union {j.next} ELSE @]

\* SyncJob.advance: one accepted month.
Advanced(j, queried, list) ==
    LET following == IF j.next = j.lo THEN 0 ELSE j.next - 1
    IN [j EXCEPT !.next = following,
                 !.state = IF following = 0 THEN "complete" ELSE "ready",
                 !.rev = @ + 1, !.retry = FALSE,
                 !.queried = @ + (IF queried THEN 1 ELSE 0),
                 !.skipped = @ + (IF queried THEN 0 ELSE 1),
                 !.incomplete = IF list = "partial" THEN @ \union {j.next} ELSE @,
                 !.unknown = IF list = "unknown" THEN @ \union {j.next} ELSE @]

Querying(j) == [j EXCEPT !.state = "querying", !.retry = FALSE, !.rev = @ + 1]

\* HistorySync._wait: "auth" and "unavailable" are retried at the next turn, others later.
Waiting(j, later) == [j EXCEPT !.state = "waiting", !.retry = later, !.rev = @ + 1]

\* async_set_sync_job: the stored job is the expected one and the new one follows it, unless
\* the expected one is over.
MayReplace(expected, new) ==
    /\ job = expected
    /\ \/ Terminal(expected)
       \/ new.id = expected.id /\ new.rev = expected.rev + 1

Locked == executor.at # "rest" \/ control.at # "rest"
Fault == syncFaults < MaxFaults /\ syncFaults' = syncFaults + 1

SyncInit ==
    /\ job = NoJob /\ saved = [m \in SyncMonths |-> "none"] /\ waited = TRUE
    /\ executor = Resting /\ control = NoControl
    /\ syncFaults = 0 /\ completeOnce = {}

\* The executor returns or raises.
Leaves == executor' = Resting
\* The guards of its writes: the vehicle is still this account's, in this session.
Guarded == executor.owns

----------------------------------------------------------------------------
\* The owner's actions.

\* async_start reads the job; a live one is returned (same range) or refused.
StartRead(lo, hi) ==
    /\ ~Locked /\ lo <= hi /\ job.id < MaxJobs /\ Terminal(job)
    /\ control' = [at |-> "start", expected |-> job,
                   put |-> [NoJob EXCEPT !.id = job.id + 1, !.lo = lo, !.hi = hi, !.next = hi,
                                         !.state = "ready", !.rev = 1]]
    /\ UNCHANGED <<job, saved, waited, executor, syncFaults, completeOnce>>

\* Mutant: the cancellation leaves the executor running.
CancelBeginAlone ==
    /\ control.at = "rest" /\ ~Terminal(job)
    /\ control' = [at |-> "cancel", expected |-> job,
                   put |-> [job EXCEPT !.state = "cancelled", !.retry = FALSE, !.rev = @ + 1]]
    /\ UNCHANGED <<job, saved, waited, executor, syncFaults, completeOnce>>

\* async_cancel stops the executor, waits for it, takes the lock and reads the job.  A write of
\* the executor that has reached the archive is finished before its task ends.
CancelBegin ==
    /\ control.at = "rest" /\ ~Terminal(job)
    /\ executor' = Resting
    /\ control' = [at |-> "cancel", expected |-> job,
                   put |-> [job EXCEPT !.state = "cancelled", !.retry = FALSE, !.rev = @ + 1]]
    /\ UNCHANGED <<job, saved, waited, syncFaults, completeOnce>>

\* The write of async_start or async_cancel; it fails when the job has moved meanwhile.
ControlWrite ==
    /\ control.at # "rest"
    /\ job' = IF MayReplace(control.expected, control.put) THEN control.put ELSE job
    /\ control' = NoControl
    /\ UNCHANGED <<saved, waited, executor, syncFaults, completeOnce>>

\* async_advance, for an action or for the worker (_resume_range).
Advance(worker) ==
    /\ ~Locked /\ ~Terminal(job) /\ (job.retry => waited)
    /\ executor' = [Resting EXCEPT !.at = "look", !.job = job, !.worker = worker]
    /\ UNCHANGED <<job, saved, waited, control, syncFaults, completeOnce>>

----------------------------------------------------------------------------
\* The executor's loop (_advance), one step per transaction or query.

\* async_cached_month: the next month is in the archive or not.
Look ==
    /\ executor.at = "look"
    /\ LET limit == IF executor.worker THEN 1 ELSE MaxMissing
       IN executor' = IF Terminal(executor.job) \/ ~executor.owns THEN Resting
                      ELSE IF saved[executor.job.next] # "none" THEN [executor EXCEPT !.at = "skip"]
                      ELSE IF executor.missing >= limit THEN Resting
                      ELSE [executor EXCEPT !.at = "budget"]
    /\ UNCHANGED <<job, saved, waited, control, syncFaults, completeOnce>>

\* async_skip_sync_month, also after a query whose record did not advance the job.
Skip ==
    /\ executor.at \in {"skip", "settle"}
    /\ IF /\ Guarded /\ job = executor.job /\ saved[job.next] # "none"
       THEN /\ job' = Advanced(job, FALSE, saved[job.next])
            /\ executor' = [executor EXCEPT !.at = "look", !.job = job']
       ELSE Leaves /\ UNCHANGED job
    /\ UNCHANGED <<saved, waited, control, syncFaults, completeOnce>>

\* The profile is fresh and, for the worker, the hourly budget is granted; else nothing is asked.
Reserve ==
    /\ executor.at = "budget"
    /\ executor' = [executor EXCEPT !.at = "reread", !.job = Querying(@)]
    /\ UNCHANGED <<job, saved, waited, control, syncFaults, completeOnce>>

NotReserved ==
    /\ executor.at = "budget" /\ Fault
    /\ executor' \in {Resting, [executor EXCEPT !.at = "unavailable"]}
    /\ UNCHANGED <<job, saved, waited, control, completeOnce>>

\* The stored job is read again as what the announcement will be compared with.
Reread ==
    /\ executor.at = "reread"
    /\ executor' = [executor EXCEPT !.at = "announce", !.before = job]
    /\ UNCHANGED <<job, saved, waited, control, syncFaults, completeOnce>>

\* async_set_sync_job of the announcement.
Announce ==
    /\ executor.at = "announce"
    /\ IF Guarded /\ MayReplace(executor.before, executor.job)
       THEN /\ job' = executor.job
            /\ executor' = [executor EXCEPT !.at = "query", !.missing = @ + 1]
       ELSE Leaves /\ UNCHANGED job
    /\ UNCHANGED <<saved, waited, control, syncFaults, completeOnce>>

\* The query is answered and recorded (Record), or its record is refused (storage paused).
Answered ==
    /\ executor.at = "query"
    /\ executor' = IF job.rev # executor.job.rev
                   THEN [executor EXCEPT !.at = "look", !.job = job]
                   ELSE [executor EXCEPT !.at = "settle"]
    /\ saved[executor.job.next] # "none" \/ job.rev # executor.job.rev
    /\ UNCHANGED <<job, saved, waited, control, syncFaults, completeOnce>>

\* The query fails, or its answer could not be stored.
QueryFails(later) ==
    /\ executor.at = "query" /\ Fault
    /\ executor' = IF Guarded THEN [executor EXCEPT !.at = IF later THEN "later" ELSE "unavailable"]
                              ELSE Resting
    /\ UNCHANGED <<job, saved, waited, control, completeOnce>>

\* _wait writes the waiting job over the one the executor knows.
Wait ==
    /\ executor.at \in {"later", "unavailable"}
    /\ LET new == Waiting(executor.job, executor.at = "later")
       IN IF Guarded /\ MayReplace(executor.job, new)
          THEN job' = new /\ waited' = FALSE
          ELSE UNCHANGED <<job, waited>>
    /\ Leaves
    /\ UNCHANGED <<saved, control, syncFaults, completeOnce>>

----------------------------------------------------------------------------
\* The rest of the system.

\* _record_month, for the executor's query, a poll or any other reader of the month: facts and
\* checkpoint in one transaction.
Record(m, list) ==
    /\ saved[m] = "none" \/ saved[m] # list
    /\ saved' = [saved EXCEPT ![m] = list]
    /\ job' = IF job.state = "querying" /\ job.next = m THEN Advanced(job, TRUE, list) ELSE job
    /\ completeOnce' = completeOnce \union (IF list = "complete" THEN {m} ELSE {})
    /\ UNCHANGED <<waited, executor, control, syncFaults>>

\* retry_at passes.
Elapse ==
    /\ ~waited /\ waited' = TRUE
    /\ UNCHANGED <<job, saved, executor, control, syncFaults, completeOnce>>

\* The session or the ownership of the vehicle changes under the executor.
Disowned ==
    /\ executor.at # "rest" /\ executor.owns /\ Fault
    /\ executor' = [executor EXCEPT !.owns = FALSE]
    /\ UNCHANGED <<job, saved, waited, control, completeOnce>>

\* Home Assistant stops or is killed: the job and the months stay.
Crash ==
    /\ Locked /\ Fault
    /\ executor' = Resting /\ control' = NoControl
    /\ UNCHANGED <<job, saved, waited, completeOnce>>

SyncSteps == Look \/ Skip \/ Reserve \/ NotReserved \/ Reread \/ Announce \/ Answered \/ Wait
         \/ \E later \in BOOLEAN : QueryFails(later)

SyncNext ==
    \/ \E lo, hi \in SyncMonths : StartRead(lo, hi)
    \/ CancelBegin \/ ControlWrite \/ \E worker \in BOOLEAN : Advance(worker)
    \/ SyncSteps
    \/ \E m \in SyncMonths, list \in Coverage : Record(m, list)
    \/ Elapse \/ Disowned \/ Crash

\* The executor's query is answered and recorded.
QueryEnds == \E list \in Coverage : /\ executor.at = "query" /\ saved[executor.job.next] = "none"
                                    /\ Record(executor.job.next, list)

----------------------------------------------------------------------------
\* Properties.

\* Types; and no interleaving makes the code store a job that restored_job refuses, which
\* would close the archive at the next start.
SyncTypeOK ==
    /\ job = NoJob \/ Restorable(job)
    /\ job.id \in 0..MaxJobs /\ saved \in [SyncMonths -> Coverage \union {"none"}]
    /\ waited \in BOOLEAN /\ syncFaults \in 0..MaxFaults
    /\ executor.at # "rest" => Restorable(executor.job)
    /\ executor.missing \in 0..MaxMissing

\* public_progress reports "all_rides_complete" only when every selected month was once
\* recorded with a complete list, whoever recorded it and however often the job was resumed.
AllCompleteIsTrue ==
    job.state = "complete" /\ job.incomplete = {} /\ job.unknown = {} =>
        job.lo..job.hi \subseteq completeOnce

\* A cancelled job stays cancelled until another one is started: no executor, reader or
\* retry revives it.
CancelledStays ==
    [][job.state = "cancelled" => job' = job \/ job'.id # job.id]_syncVars

\* The job only moves forward: a month that was processed is not asked for again, and a
\* finished job stays finished.
JobMovesForward ==
    [][job'.id = job.id => job'.rev >= job.rev /\ job'.next <= job.next
                           /\ (Terminal(job) => job' = job)]_syncVars
=============================================================================
