------------------------------- MODULE MCJobs -------------------------------
(***************************************************************************)
(* The three durable jobs of an archive, checked in one run: in every      *)
(* behaviour one of them moves and the others rest.                        *)
(***************************************************************************)
EXTENDS SyncJobs, MonthTasks, Reconstruction

VARIABLE mover

NothingToRebuild == health = [r \in Saved |-> "absent"] /\ holders = [r \in Saved |-> {}]

Init ==
    /\ mover \in {"range", "months", "rebuild"}
    /\ SyncInit /\ RepairInit /\ RebuildInit
    /\ mover # "rebuild" => NothingToRebuild

\* One job moves by an action of its own.
Moves(ofRange, ofMonths, ofRebuild) ==
    \/ mover = "range" /\ ofRange /\ UNCHANGED <<mover, taskVars, rebuildVars>>
    \/ mover = "months" /\ ofMonths /\ UNCHANGED <<mover, syncVars, rebuildVars>>
    \/ mover = "rebuild" /\ ofRebuild /\ UNCHANGED <<mover, syncVars, taskVars>>

Next == Moves(SyncNext, RepairNext, RebuildNext)

vars == <<mover, syncVars, taskVars, rebuildVars>>

\* The event loop runs a ready step, a query ends, the worker's turns come and time passes.  One
\* formula stands for an action of each job, as only one of them moves.
JobsFairness ==
    /\ WF_vars(Moves(SyncSteps, RepairSteps, RebuildSteps))
    /\ WF_vars(Moves(ControlWrite, CancelMonths, FALSE))
    /\ WF_vars(Moves(QueryEnds, ClaimMonth, FALSE))
    /\ WF_vars(Moves(Elapse, FALSE, FALSE))
    /\ \A m \in RepairMonths : WF_vars(Moves(FALSE, BecomesDue(m), FALSE))
    /\ SF_vars(Moves(Advance(TRUE), FALSE, FALSE))

Spec == Init /\ [][Next]_vars /\ JobsFairness

\* The types of the three parts, with the checks of their restored functions: a stored job that
\* fails them closes the archive at the next start.
TypeOK == SyncTypeOK /\ RepairTypeOK /\ RebuildTypeOK

\* Each job that was started ends, by the worker's turns alone and after finitely many failures:
\* the range job, every repair of a month, and the reconstruction unless its owner paused it or
\* its recovery point is gone.
JobsEnd ==
    []<>/\ Terminal(job) /\ \A m \in RepairMonths : ~Active(m)
        /\ Over \/ rebuild.state \in {"paused", "blocked_recovery"}

\* What a job reports as complete is in the archive, and sound.
CompleteIsTrue == AllCompleteIsTrue /\ CompleteIsRetained /\ CompleteIsClean

\* Nobody but the owner of a job's attempt ends it, and what was cancelled stays so.
EndsAreFinal == CancelledStays /\ OnlyItsAttemptEndsIt
=============================================================================
