----------------------------- MODULE MonthTasks -----------------------------
(***************************************************************************)
(* The sparse repairs of single months: a bounded table of durable tasks   *)
(* of one vehicle, and the one executor that works them off.               *)
(*                                                                         *)
(* An owner's action schedules and cancels months; the first days of a     *)
(* month schedule the month before it ("recent").  The executor claims a   *)
(* due task in one transaction, queries the month, looks whether the       *)
(* archive holds the answer and finishes the task in another transaction,  *)
(* if the task is still exactly the one it claimed.                        *)
(*                                                                         *)
(* Times are reduced to what they are compared for: whether a task is due, *)
(* and whether its last success is less than a day old.                    *)
(***************************************************************************)
EXTENDS Integers, FiniteSets, FiniteSetsExt

CONSTANTS
    RepairMonths,  \* the months that can be selected: 1..n
    MaxTasks,      \* MAX_TASKS
    MaxAttempts,   \* the attempts after which a failed task is given up (8 in the code)
    MaxSchedules,  \* bound on the calls that schedule
    MaxTaskFaults  \* bound on failed queries, refused writes, lost owners and crashes

ASSUME MonthTasksAssumption ==
    /\ RepairMonths = 1..Cardinality(RepairMonths) /\ IsFiniteSet(RepairMonths)
    /\ {MaxTasks, MaxAttempts} \subseteq Nat \ {0}
    /\ {MaxSchedules, MaxTaskFaults} \subseteq Nat

VARIABLES
    task,        \* the task of each month in meta, or NoTask
    retained,    \* the archive's month: "none", "stale" or "fresh" (received since the claim)
    repair,      \* SparseMonthSync: what the executor holds in its locals
    cancelling,  \* months of an async_cancel that has stopped the executor
    schedules,   \* schedules made so far; stands for created_at
    taskFaults   \* faults used so far

taskVars == <<task, retained, repair, cancelling, schedules, taskFaults>>

ActiveStates == {"pending", "querying", "waiting"}
NoTask == [state |-> "none", source |-> "manual", rev |-> 0, attempts |-> 0, created |-> 0,
           due |-> FALSE, recently |-> FALSE, reason |-> FALSE]
NoRepair == [at |-> "rest", month |-> 0, expected |-> NoTask, owns |-> TRUE]

Active(m) == task[m].state \in ActiveStates
Stored == {m \in RepairMonths : task[m].state # "none"}
TaskFault == taskFaults < MaxTaskFaults /\ taskFaults' = taskFaults + 1

RepairInit ==
    /\ task = [m \in RepairMonths |-> NoTask]
    /\ retained = [m \in RepairMonths |-> "none"]
    /\ repair = NoRepair /\ cancelling = {} /\ schedules = 0 /\ taskFaults = 0

----------------------------------------------------------------------------
\* Scheduling and cancelling.

\* What schedule() leaves alone: an active task, and for "recent" one that was cancelled, has
\* failed or succeeded within the last day.
LeftAlone(old, source) ==
    \/ old.state \in ActiveStates
    \/ source = "recent" /\ (old.state \in {"cancelled", "failed"} \/ old.recently)

\* make_room: the retired tasks that were created first (the first key of them is deleted).
Evictable(table) ==
    LET retired == {m \in DOMAIN table : table[m].state \notin ActiveStates \union {"none"}}
    IN {m \in retired : \A o \in retired : table[m].created <= table[o].created}

\* No room: MonthTaskCapacity rolls the transaction back.
Refused == <<>>

\* schedule() for one month of the selection.
Scheduled(table, m, source) ==
    IF table = Refused \/ LeftAlone(table[m], source) THEN table
    ELSE LET new == [NoTask EXCEPT !.state = "pending", !.source = source, !.due = TRUE,
                                   !.rev = table[m].rev + 1, !.created = schedules + 1]
             stored == {o \in DOMAIN table : table[o].state # "none"}
         IN IF m \in stored \/ Cardinality(stored) < MaxTasks THEN [table EXCEPT ![m] = new]
            ELSE IF Evictable(table) = {} THEN Refused
            ELSE [table EXCEPT ![m] = new, ![Min(Evictable(table))] = NoTask]

\* What one month after the other makes of the table.
Tables(ms, source) ==
    LET after[m \in 0 .. Cardinality(RepairMonths)] ==
            IF m = 0 THEN task
            ELSE IF m \in ms THEN Scheduled(after[m - 1], m, source) ELSE after[m - 1]
    IN  after

\* async_schedule_months: the whole selection or nothing.
Schedule(ms, source) ==
    /\ schedules < MaxSchedules
    /\ task' = Tables(ms, source)[Cardinality(RepairMonths)]
    /\ task' \notin {Refused, task} /\ schedules' = schedules + 1
    /\ UNCHANGED <<retained, repair, cancelling, taskFaults>>

\* SparseMonthSync.async_cancel: an executor that works on one of the months is cancelled and
\* awaited.  While its claim is under way (or none is) it has not told its task yet.
CancelRepair(ms) ==
    /\ cancelling = {} /\ ms # {} /\ \E m \in ms : Active(m)
    /\ cancelling' = ms
    /\ repair' = IF repair.at \in {"query", "settle", "fail"} /\ repair.month \in ms
                 THEN NoRepair ELSE repair
    /\ UNCHANGED <<task, retained, schedules, taskFaults>>

\* async_cancel_months, one transaction.
CancelMonths ==
    /\ cancelling # {}
    /\ task' = [m \in RepairMonths |->
                   IF m \in cancelling /\ Active(m)
                   THEN [task[m] EXCEPT !.state = "cancelled", !.rev = @ + 1, !.reason = FALSE]
                   ELSE task[m]]
    /\ cancelling' = {}
    /\ UNCHANGED <<retained, repair, schedules, taskFaults>>

----------------------------------------------------------------------------
\* The executor.

\* Recent tasks first, then by creation and month.
Before(a, b) ==
    \/ task[a].source = "recent" /\ task[b].source # "recent"
    \/ task[a].source = task[b].source
       /\ \/ task[a].created < task[b].created
          \/ task[a].created = task[b].created /\ a < b

Claimable(m) == Active(m) /\ task[m].due

ClaimedTask(t) == [t EXCEPT !.state = "querying", !.rev = @ + 1, !.due = FALSE,
                            !.attempts = @ + 1, !.reason = FALSE]

\* async_step: the lock is free; claim() in the archive's thread, which also reserves the
\* budget, in one transaction.
ClaimMonth ==
    /\ repair.at = "rest"
    /\ \E m \in RepairMonths :
          /\ Claimable(m)
          /\ \A o \in RepairMonths \ {m} : Claimable(o) => Before(m, o)
          /\ task' = [task EXCEPT ![m] = ClaimedTask(@)]
          /\ retained' = [retained EXCEPT ![m] = IF @ = "none" THEN @ ELSE "stale"]
          /\ repair' = [NoRepair EXCEPT !.at = "claimed", !.month = m, !.expected = task'[m]]
    /\ UNCHANGED <<cancelling, schedules, taskFaults>>

\* The claim is back in the event loop: the task is told, the query starts.
ClaimReturns ==
    /\ repair.at = "claimed" /\ repair' = [repair EXCEPT !.at = "query"]
    /\ UNCHANGED <<task, retained, cancelling, schedules, taskFaults>>

\* async_query_month returns; the archive keeps the answer unless its writes are paused, and
\* async_month tells which.
MonthAnswered(kept) ==
    /\ repair.at = "query" /\ (~kept => TaskFault) /\ (kept => UNCHANGED taskFaults)
    /\ retained' = IF kept THEN [retained EXCEPT ![repair.month] = "fresh"] ELSE retained
    /\ repair' = [repair EXCEPT !.at = "settle"]
    /\ UNCHANGED <<task, cancelling, schedules>>

MonthFails ==
    /\ repair.at = "query" /\ TaskFault /\ repair' = [repair EXCEPT !.at = "fail"]
    /\ UNCHANGED <<task, retained, cancelling, schedules>>

\* The saved month is at least as new as the answer.
IsRetained == retained[repair.month] = "fresh"

\* finish(): the stored task is the claimed one.
StillClaimed == task[repair.month] = repair.expected

\* async_finish_month and the end of async_step.  Without ownership nothing is written.
Settle ==
    /\ repair.at \in {"settle", "fail"}
    /\ LET success == repair.at = "settle" /\ IsRetained
           over == IF success THEN "complete"
                   ELSE IF repair.expected.attempts >= MaxAttempts THEN "failed" ELSE "waiting"
       IN task' = IF repair.owns /\ StillClaimed
                  THEN [task EXCEPT ![repair.month] =
                           [repair.expected EXCEPT !.rev = @ + 1, !.state = over,
                                                   !.recently = success, !.reason = ~success]]
                  ELSE task
    /\ repair' = NoRepair
    /\ UNCHANGED <<retained, cancelling, schedules, taskFaults>>

----------------------------------------------------------------------------
\* The rest of the system.

\* next_attempt passes: the delay of a failed task, or the 120 seconds of a claim.
BecomesDue(m) ==
    /\ Active(m) /\ ~task[m].due
    /\ task' = [task EXCEPT ![m] = [@ EXCEPT !.due = TRUE]]
    \* the comparison in finish() is with next_attempt, which does not change
    /\ repair' = IF repair.expected = task[m] THEN [repair EXCEPT !.expected = task'[m]] ELSE repair
    /\ UNCHANGED <<retained, cancelling, schedules, taskFaults>>

DayPasses(m) ==
    /\ task[m].recently /\ repair.at = "rest"
    /\ task' = [task EXCEPT ![m] = [@ EXCEPT !.recently = FALSE]]
    /\ UNCHANGED <<retained, repair, cancelling, schedules, taskFaults>>

\* A poll records the month meanwhile.
MonthPolled(m) ==
    /\ retained[m] # "fresh"
    /\ retained' = [retained EXCEPT ![m] = "fresh"]
    /\ UNCHANGED <<task, repair, cancelling, schedules, taskFaults>>

\* The session or the ownership of the vehicle changes under the executor.
RepairDisowned ==
    /\ repair.at # "rest" /\ repair.owns /\ TaskFault
    /\ repair' = [repair EXCEPT !.owns = FALSE]
    /\ UNCHANGED <<task, retained, cancelling, schedules>>

\* The entry closes, or Home Assistant is killed: the executor's task is gone, the table stays.
RepairStops ==
    /\ repair.at # "rest" /\ TaskFault
    /\ repair' = NoRepair /\ cancelling' = {}
    /\ UNCHANGED <<task, retained, schedules>>

RepairSteps == ClaimReturns \/ (\E kept \in BOOLEAN : MonthAnswered(kept)) \/ MonthFails \/ Settle

RepairNext ==
    \/ \E ms \in SUBSET RepairMonths, source \in {"manual", "recent"} : Schedule(ms, source)
    \/ \E ms \in SUBSET RepairMonths : CancelRepair(ms)
    \/ CancelMonths \/ ClaimMonth \/ RepairSteps
    \/ \E m \in RepairMonths : BecomesDue(m) \/ DayPasses(m) \/ MonthPolled(m)
    \/ RepairDisowned \/ RepairStops

----------------------------------------------------------------------------
\* Properties.

\* Types; the table stays within its bound and every stored task passes the checks of
\* restored(), which close the archive at the next start when they fail.
RepairTypeOK ==
    /\ Cardinality(Stored) <= MaxTasks
    /\ \A m \in Stored :
          /\ task[m].state \in ActiveStates \union {"complete", "cancelled", "failed"}
          /\ task[m].source \in {"manual", "recent"} /\ task[m].rev >= 1
          /\ task[m].created \in 1..schedules
          /\ task[m].state \in {"pending", "querying", "complete", "cancelled"} => ~task[m].reason
          /\ task[m].state \in {"waiting", "failed"} => task[m].reason
    /\ retained \in [RepairMonths -> {"none", "stale", "fresh"}]
    /\ cancelling \subseteq RepairMonths /\ taskFaults \in 0..MaxTaskFaults

\* A repair that is reported complete has its answer in the archive: an answer that the
\* archive refused, or the month that was there before, is not mistaken for it.
CompleteIsRetained ==
    \A m \in RepairMonths : task[m].state = "complete" => retained[m] = "fresh"

\* An active task leaves the table only by its own attempt or by a cancellation: no other
\* schedule displaces it, and no late answer completes one that was cancelled, retired or
\* scheduled anew.
OnlyItsAttemptEndsIt ==
    [][\A m \in RepairMonths :
          /\ Active(m) => task'[m].state # "none"
          /\ task[m].state # "querying" => task'[m].state \in {task[m].state, "none", "pending",
                                                              "querying", "cancelled"}
          /\ task[m].state = "cancelled" => task'[m].state \in {"cancelled", "none", "pending"}
      ]_taskVars
=============================================================================
