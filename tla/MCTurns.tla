------------------------------ MODULE MCTurns -------------------------------
(***************************************************************************)
(* What ends: the calls of the broker, the transactions and setups of an   *)
(* entry, the commands of a vehicle, and the worker's details, together    *)
(* with the worker's turns. In every behaviour one part moves and the      *)
(* others rest.                                                            *)
(***************************************************************************)
EXTENDS QueryBroker, SessionStore, LockControl, DetailTasks, UpkeepTurns

VARIABLE mover

\* The second read is of another vehicle.
MCVehicleOf == "r1" :> "v1" @@ "r2" :> "v2"
\* Details of every vehicle and one work of each other kind.
MCWorks == {"detail"} \X Fleet \union {<<"baseline", 1>>, <<"incremental", 1>>, <<"sparse", 2>>, <<"range", 1>>}

\* An archive whose rides are all preserved.
DetailsDone ==
    /\ ride = [r \in Rides |-> [fp |-> 1, changed |-> FALSE, recent |-> FALSE]]
    /\ detail = [r \in Rides |-> 1] /\ marker = [r \in Rides |-> 1]
    /\ checkpoint = [r \in Rides |-> [NoCheckpoint EXCEPT !.fp = 1, !.due = FALSE, !.final = TRUE]]
    /\ fetch = NoFetch
    /\ seen = [r \in Rides |-> <<>>] /\ disturbances = 0

\* A part that rests is in an initial state, or done.
SumInit ==
    /\ mover \in {"broker", "session", "control", "details", "turns"}
    /\ Init /\ SessionInit /\ ControlInit /\ TurnsInit
    /\ mover # "session" => entry = "none"
    /\ IF mover = "details" THEN DetailInit ELSE DetailsDone

\* One part moves by an action of its own.
Moves(ofBroker, ofSession, ofControl, ofDetails, ofTurns) ==
    \/ /\ mover = "broker" /\ ofBroker
       /\ UNCHANGED <<mover, sessionVars, controlVars, detailVars, turnVars>>
    \/ /\ mover = "session" /\ ofSession
       /\ UNCHANGED <<mover, vars, controlVars, detailVars, turnVars>>
    \/ /\ mover = "control" /\ ofControl
       /\ UNCHANGED <<mover, vars, sessionVars, detailVars, turnVars>>
    \/ /\ mover = "details" /\ ofDetails
       /\ UNCHANGED <<mover, vars, sessionVars, controlVars, turnVars>>
    \/ /\ mover = "turns" /\ ofTurns
       /\ UNCHANGED <<mover, vars, sessionVars, controlVars, detailVars>>

SumNext == Moves(UndisturbedNext, SessionNext, ControlNext, DetailNext, TurnsNext)

sumVars == <<mover, vars, sessionVars, controlVars, detailVars, turnVars>>

\* What the event loop, the threads, the timeouts of requests and the clock do by themselves: as
\* long as a step of a part is possible, one is taken. A lock is granted and a flow goes on even if
\* that is not possible all the time; every caller and command has its own turn.
SumFairness ==
    /\ WF_sumVars(Moves(WorkerStart \/ WorkerSettles \/ OperationEnds \/ TaskCancelled,
                        Thread \/ SetupRecovered \/ SetupOpens \/ Removed,
                        \E o \in Others : OtherLeaves(o),
                        ClaimDetail \/ FetchSteps \/ \E r \in Rides : DetailDue(r),
                        FALSE))
    /\ WF_sumVars(Moves(FALSE, other /\ OtherKey, FALSE, \E r \in Rides : Matures(r), FALSE))
    /\ SF_sumVars(Moves(AcquireGate, Granted \/ FlowStep, FALSE, FALSE, FALSE))
    /\ \A c \in Callers :
          WF_sumVars(Moves(Answered(c), FALSE, Progress(c) \/ FollowEnds(c), FALSE, FALSE))

SumSpec == SumInit /\ [][SumNext]_sumVars /\ SumFairness
-----------------------------------------------------------------------------
\* Every ride with a detail identity has its detail in the archive, and is left in peace.
DetailsArrived == \A r \in Rides : ride[r].fp # 0 => detail[r] # 0 /\ checkpoint[r].final

\* Nothing waits for ever: every call of the broker returns and its close completes
\* (EveryCallAnswered, CloseCompletes), transactions and setups of an entry end (TransactionEnds,
\* SetupEnds), commands and follow-ups end (CommandReturns, FollowUpsEnd), and details arrive.
\* "p leads to not p" is the same as "again and again not p"; a resting part has nothing to end.
PartsEnd ==
    \A c \in Callers :
        []<>(/\ on[c] = None
             /\ closed => worker = "idle" /\ queued = {} /\ active = None
             /\ ~InTransaction /\ entry \notin {"recovering", "opening"}
             /\ ~Live(c) /\ fol[c] = "none"
             /\ DetailsArrived)
=============================================================================
