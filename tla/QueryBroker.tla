---------------------------- MODULE QueryBroker ----------------------------
(***************************************************************************)
(* The account scheduler of query_broker.py: one worker task per account,  *)
(* a queue of jobs, coalescing of identical reads, bounded admission, a    *)
(* wire gate shared with the other accounts, and a cooldown after          *)
(* transport failures.                                                     *)
(*                                                                         *)
(* The program is cooperative (asyncio): a step runs from one suspension   *)
(* point to the next, so every action below is the code between two        *)
(* awaits.  The actors are the callers (coroutines inside _submit), the    *)
(* worker (_run), the task of the active job (_execute), the closer        *)
(* (async_close), and the environment: other accounts, the clock, and the  *)
(* owner epoch the guards read.                                            *)
(***************************************************************************)
EXTENDS Integers, FiniteSets

CONSTANTS
    Callers,       \* coroutines that may be inside _submit at the same time
    Jobs,          \* identities of _Job objects, reused once unreachable
    Reads,         \* QueryKey values up to the epoch fields (coalescing keys)
    Commands,      \* POST requests: they have no key
    Priorities,    \* 0..2 in the program: STATUS, INTERACTIVE, BACKGROUND
    Vehicles,
    VehicleOf,     \* [Reads \cup Commands -> Vehicles]
    None,          \* no job
    MaxPending,    \* max_pending, 16 in the program
    JobWaiters,    \* callers that may share one job, 32 in the program
    AllWaiters,    \* callers of the whole broker, 64 in the program
    WireSlots,     \* the gate every account shares, 2 in the program
    MaxRetry,      \* bound: the longest retry_after, in units of 15 seconds
    MaxBackoff     \* the longest backoff in these units, 4 in the program

ASSUME BrokerAssumption ==
    /\ Reads \cap Commands = {}
    /\ Priorities \subseteq 0..2 /\ 0 \in Priorities
    /\ VehicleOf \in [Reads \cup Commands -> Vehicles]
    /\ None \notin Jobs
    /\ {MaxPending, JobWaiters, AllWaiters, WireSlots} \subseteq Nat \ {0}
    /\ {MaxRetry, MaxBackoff} \subseteq Nat
    /\ IsFiniteSet(Jobs) /\ IsFiniteSet(Callers)

Requests   == Reads \cup Commands
Background == 2
Futures    == {"pending", "ok", "failed", "cancelled"}

\* What an operation may raise: AUTH, CONNECTION or PLATFORM, anything else.
Failures == {"auth", "transport", "other"}
\* How the task of a job may end.
Endings  == Failures \cup {"ok", "closed", "cooldown", "cancelled"}

Smaller(m, n) == IF m < n THEN m ELSE n
Larger(m, n)  == IF m < n THEN n ELSE m

CommandLimit == Smaller(4, MaxPending)
ReadLimit    == Larger(1, MaxPending - Smaller(4, MaxPending \div 4))
NoReserve(req, prio) == IF req \in Commands THEN CommandLimit ELSE ReadLimit
Limit(req, prio) ==
    IF req \in Commands THEN CommandLimit
    ELSE IF prio = Background THEN Larger(1, ReadLimit - 2)
    ELSE ReadLimit

VARIABLES
    on,          \* on[c]: the job whose future caller c awaits, or None
    job,         \* the fields of each _Job (see JobRecord)
    queued,      \* _jobs, as a set; the order is in the field before
    flights,     \* _flights, as the set of its values
    worker,      \* _worker: "idle" (None or done), "starting", "awaiting"
    active,      \* _active
    task,        \* the task of the active job
    cancelling,  \* the task of the active job was asked to cancel
    closed,      \* _closed
    streak,      \* _streak, which only matters up to 3
    last,        \* _last_vehicle
    failures,    \* _connection_failures, which only matters up to MaxBackoff
    cooldown,    \* what is left of the cooldown, in units of 15 seconds
    foreign,     \* wire slots held by other accounts
    permit       \* per vehicle: the part of the guards that may come back

workerVars == <<worker, active, task, cancelling, streak, last>>
envVars    == <<foreign, permit>>
vars == <<on, job, queued, flights, worker, active, task, cancelling, closed,
          streak, last, failures, cooldown, foreign, permit>>

\* own: the generation and ownership in the key are still the current ones.
\* before: the queued jobs with a smaller sequence number.
JobRecord == [req : Requests, prio : Priorities, fut : Futures,
              own : BOOLEAN, before : SUBSET Jobs]
Unused == [fut |-> "unused"]
InUse(j) == job[j] # Unused

NoTask == [stage |-> "none"]
TaskRecord == [stage : {"gate", "wire"}]
         \cup [stage : {"done"}, kind : Endings, retry : 0..MaxRetry]
Done(kind, retry) == [stage |-> "done", kind |-> kind, retry |-> retry]

TypeOK ==
    /\ on \in [Callers -> Jobs \cup {None}]
    /\ job \in [Jobs -> JobRecord \cup {Unused}]
    /\ queued \subseteq Jobs
    /\ flights \subseteq Jobs
    /\ worker \in {"idle", "starting", "awaiting"}
    /\ active \in Jobs \cup {None}
    /\ task \in TaskRecord \cup {NoTask}
    /\ cancelling \in BOOLEAN
    /\ closed \in BOOLEAN
    /\ streak \in 0..3
    /\ last \in Vehicles \cup {None}
    /\ failures \in 0..MaxBackoff
    /\ cooldown \in 0..Larger(MaxBackoff, MaxRetry)
    /\ foreign \in 0..WireSlots
    /\ permit \in [Vehicles -> BOOLEAN]

Init ==
    /\ on = [c \in Callers |-> None]
    /\ job = [j \in Jobs |-> Unused]
    /\ queued = {} /\ flights = {}
    /\ worker = "idle" /\ active = None /\ task = NoTask /\ cancelling = FALSE
    /\ closed = FALSE
    /\ streak = 0 /\ last = None
    /\ failures = 0 /\ cooldown = 0
    /\ foreign = 0
    /\ permit = [v \in Vehicles |-> TRUE]

-----------------------------------------------------------------------------
IsRead(j)     == job[j].req \in Reads
Vehicle(j)    == VehicleOf[job[j].req]
Guard(j)      == job[j].own /\ permit[Vehicle(j)]
Waiting(j)    == {c \in Callers : on[c] = j}
Pending       == queued \cup ({active} \ {None})
SameBudget(req) ==
    {j \in Pending : (job[j].req \in Reads) <=> (req \in Reads)}

(***************************************************************************)
(* _submit: a caller joins the flight of its key, or adds a job.           *)
(***************************************************************************)
QueuedFlight(key) == {j \in flights \cap queued : /\ job[j].req = key
                                                /\ job[j].own
                                                /\ job[j].fut = "pending"}
Flight(key) == {j \in flights : /\ job[j].req = key
                                /\ job[j].own
                                /\ job[j].fut = "pending"}

MayEnter(c) ==
    /\ on[c] = None
    /\ ~closed
    /\ Cardinality({d \in Callers : on[d] # None}) < AllWaiters

Join(c, key, prio) ==
    /\ MayEnter(c)
    /\ \E j \in Flight(key) :
        /\ Cardinality(Waiting(j)) < JobWaiters
        /\ on' = [on EXCEPT ![c] = j]
        /\ job' = [job EXCEPT ![j].prio = Smaller(@, prio)]
    /\ UNCHANGED <<queued, flights, closed, failures, cooldown,
                   workerVars, envVars>>

\* A finished flight of the same key is replaced in the dictionary.
Register(j, req) ==
    IF req \in Reads
    THEN {i \in flights : ~(job[i].req = req /\ job[i].own)} \cup {j}
    ELSE flights

\* A worker that is done is replaced by a new one.
WakeOnce == IF worker = "idle" /\ last = None THEN "starting" ELSE worker
Wake     == IF worker = "idle" THEN "starting" ELSE worker

Submit(c, req, prio) ==
    /\ MayEnter(c)
    /\ Flight(req) = {}
    /\ req \in Commands => prio = 0
    /\ Cardinality(Pending) < MaxPending
    /\ Cardinality(SameBudget(req)) < Limit(req, prio)
    /\ \E j \in Jobs :
        /\ ~InUse(j)
        /\ on' = [on EXCEPT ![c] = j]
        /\ job' = [job EXCEPT ![j] = [req |-> req, prio |-> prio,
                                      fut |-> "pending", own |-> TRUE,
                                      before |-> queued]]
        /\ queued' = queued \cup {j}
        /\ flights' = Register(j, req)
    /\ worker' = Wake
    /\ UNCHANGED <<closed, active, task, cancelling, streak, last, failures,
                   cooldown, envVars>>

\* A job object that leaves the queue keeps no place in the order, and one
\* that nothing refers to any more is garbage.
Collect(jobs, alive, waiting) ==
    [j \in Jobs |->
        IF jobs[j] = Unused \/ (j \notin alive /\ j \notin waiting) THEN Unused
        ELSE [jobs[j] EXCEPT !.before = @ \cap alive]]

(***************************************************************************)
(* The finally clause of _submit: caller c resumes, because its future is  *)
(* done or because c itself was cancelled.  The last caller of unfinished  *)
(* work cancels it.                                                        *)
(***************************************************************************)
AbandonsAlways(c) == job[on[c]].fut = "pending"
AbandonsQueued(c) == /\ Waiting(on[c]) = {c} /\ job[on[c]].fut = "pending"
                     /\ on[c] \in queued
Abandons(c)       == Waiting(on[c]) = {c} /\ job[on[c]].fut = "pending"

Leave(c) ==
    LET j         == on[c]
        abandoned == Abandons(c)
        finished  == abandoned \/ job[j].fut # "pending"
        left      == IF abandoned THEN queued \ {j} ELSE queued
        marked    == IF abandoned THEN [job EXCEPT ![j].fut = "cancelled"]
                                  ELSE job
        calls     == [on EXCEPT ![c] = None]
    IN
    /\ j # None
    /\ on' = calls
    /\ queued' = left
    /\ flights' = IF finished THEN flights \ {j} ELSE flights
    /\ cancelling' = (cancelling \/ (abandoned /\ active = j
                                               /\ task.stage # "done"))
    /\ job' = Collect(marked, left \cup {active},
                      {i \in Jobs : \E d \in Callers : calls[d] = i})
    /\ UNCHANGED <<closed, worker, active, task, streak, last, failures,
                   cooldown, envVars>>

-----------------------------------------------------------------------------
(***************************************************************************)
(* _choose: the highest priority, another vehicle than the last one, the   *)
(* oldest; after three such choices the oldest job of a lower priority has *)
(* its turn.                                                               *)
(***************************************************************************)
Older(i, j) == i \in job[j].before

NoTurn == FALSE
Turn == streak >= 3 /\ \E i, j \in queued : job[i].prio # job[j].prio

Lower == {j \in queued : \E i \in queued : job[i].prio < job[j].prio}

Better(i, j) ==
    \/ job[i].prio < job[j].prio
    \/ /\ job[i].prio = job[j].prio
       /\ \/ Vehicle(i) # last /\ Vehicle(j) = last
          \/ (Vehicle(i) = last <=> Vehicle(j) = last) /\ Older(i, j)

Chosen(j) ==
    IF Turn THEN j \in Lower /\ \A i \in Lower \ {j} : Older(j, i)
            ELSE j \in queued /\ \A i \in queued \ {j} : Better(j, i)

(***************************************************************************)
(* The top of the loop of _run, up to its next await.  jobs is the job     *)
(* table left by what the worker did before in the same step.              *)
(***************************************************************************)
Dispatch(j, jobs) ==
    /\ Chosen(j)
    /\ streak' = IF Turn THEN 0 ELSE Smaller(3, streak + 1)
    /\ last' = Vehicle(j)
    /\ queued' = queued \ {j}
    /\ active' = j
    /\ task' = [stage |-> "gate"]
    /\ cancelling' = FALSE
    /\ worker' = "awaiting"
    /\ job' = Collect(jobs, queued, {i \in Jobs : Waiting(i) # {}})
    /\ UNCHANGED flights

\* What the worker and the closer leave in the queue and the dictionary.
All(jobs)  == jobs
Kept(jobs) == IF closed THEN {} ELSE jobs

WorkerEnds(jobs) ==
    /\ worker' = "idle"
    /\ active' = None
    /\ task' = NoTask
    /\ cancelling' = FALSE
    /\ queued' = Kept(queued)
    /\ flights' = Kept(flights)
    /\ job' = Collect(jobs, Kept(queued), {i \in Jobs : Waiting(i) # {}})
    /\ UNCHANGED <<streak, last>>

Continue(jobs) ==
    IF closed \/ queued = {} THEN WorkerEnds(jobs)
    ELSE \E j \in queued : Dispatch(j, jobs)

\* The first step of the worker task.
WorkerStart ==
    /\ worker = "starting"
    /\ Continue(job)
    /\ UNCHANGED <<on, closed, failures, cooldown, envVars>>

Settled(kind) ==
    CASE kind = "ok" -> "ok"
      [] kind = "cancelled" -> "cancelled"
      [] OTHER -> "failed"

\* A future that is done already keeps its answer.
Answer(fut, kind) == IF fut = "pending" THEN Settled(kind) ELSE fut

\* retry_after, and the circuit breaker from the second transport failure on.
DelayOneMore(kind, retry, n) ==
    IF kind = "transport" /\ n >= 2 THEN Larger(retry, n + 1) ELSE retry
Delay(kind, retry, n) ==
    IF kind = "transport" /\ n >= 2 THEN Larger(retry, n) ELSE retry

(***************************************************************************)
(* The worker resumes with the result of the task and goes on with the     *)
(* loop.  Once the broker is closed the worker has been cancelled too and  *)
(* sees only the cancellation.                                             *)
(***************************************************************************)
WorkerSettles ==
    /\ worker = "awaiting"
    /\ task.stage = "done"
    /\ LET kind   == IF closed THEN "cancelled" ELSE task.kind
           count  == IF kind = "transport"
                     THEN Smaller(MaxBackoff, failures + 1) ELSE failures
           served == [job EXCEPT ![active].fut = Answer(@, kind)]
           \* on_auth_failure moves to the next generation.
           known  == [j \in Jobs |->
                         IF kind = "auth" /\ InUse(j)
                         THEN [served[j] EXCEPT !.own = FALSE] ELSE served[j]]
       IN /\ failures' = count
          /\ cooldown' = IF kind \in Failures
                         THEN Larger(cooldown, Delay(kind, task.retry, count))
                         ELSE cooldown
          /\ Continue(known)
    /\ UNCHANGED <<on, closed, envVars>>

-----------------------------------------------------------------------------
(***************************************************************************)
(* _execute, the task of the active job: it waits for the gate, decides    *)
(* whether the operation may run, runs it, and decides about its value.    *)
(***************************************************************************)
AtGate == task.stage = "gate" /\ ~cancelling /\ foreign < WireSlots

\* The wire operation may start: not closed, still owned, no cooldown.
Unchecked ==
    IF closed \/ ~Guard(active) THEN Done("closed", 0) ELSE [stage |-> "wire"]
Counted ==
    IF closed \/ ~Guard(active) THEN Done("closed", 0)
    ELSE IF cooldown > 0 THEN Done("transport", 0) ELSE [stage |-> "wire"]
Admission ==
    IF closed \/ ~Guard(active) THEN Done("closed", 0)
    ELSE IF cooldown > 0 THEN Done("cooldown", 0) ELSE [stage |-> "wire"]

AcquireGate ==
    /\ AtGate
    /\ task' = Admission
    /\ UNCHANGED <<on, job, queued, flights, worker, active, cancelling,
                   closed, streak, last, failures, cooldown, envVars>>

OperationReturns ==
    /\ task.stage = "wire"
    /\ ~cancelling
    /\ IF closed \/ (IsRead(active) /\ ~Guard(active))
       THEN task' = Done("closed", 0) /\ UNCHANGED failures
       ELSE task' = Done("ok", 0) /\ failures' = 0
    /\ UNCHANGED <<on, job, queued, flights, worker, active, cancelling,
                   closed, streak, last, cooldown, envVars>>

OperationRaises(kind, retry) ==
    /\ task.stage = "wire"
    /\ ~cancelling
    /\ task' = Done(kind, retry)
    /\ UNCHANGED <<on, job, queued, flights, worker, active, cancelling,
                   closed, streak, last, failures, cooldown, envVars>>

\* The cancellation reaches the task, at the gate or inside the operation.
TaskCancelled ==
    /\ task.stage \in {"gate", "wire"}
    /\ cancelling
    /\ task' = Done("cancelled", 0)
    /\ UNCHANGED <<on, job, queued, flights, worker, active, cancelling,
                   closed, streak, last, failures, cooldown, envVars>>

-----------------------------------------------------------------------------
(***************************************************************************)
(* async_close, up to its await: every pending future and the worker are   *)
(* cancelled.  A worker task that has not run yet never runs its body, so  *)
(* the queue is cleared by the closer; without a worker there is nothing   *)
(* to wait for.                                                            *)
(***************************************************************************)
Close ==
    LET ended == [j \in Jobs |->
                    IF j \in Pending /\ job[j].fut = "pending"
                    THEN [job[j] EXCEPT !.fut = "cancelled"] ELSE job[j]]
    IN
    /\ ~closed
    /\ closed' = TRUE
    /\ IF worker = "awaiting"
       THEN /\ job' = ended
            /\ cancelling' = (task.stage # "done")
            /\ UNCHANGED <<queued, flights, worker, active, task>>
       ELSE /\ worker' = "idle"
            /\ queued' = {} /\ flights' = {}
            /\ job' = Collect(ended, {}, {i \in Jobs : Waiting(i) # {}})
            /\ UNCHANGED <<active, task, cancelling>>
    /\ UNCHANGED <<on, streak, last, failures, cooldown, envVars>>

-----------------------------------------------------------------------------
(***************************************************************************)
(* The environment.                                                        *)
(***************************************************************************)
\* Other accounts take and release slots of the shared gate.
ForeignAcquires ==
    /\ foreign + (IF task.stage = "wire" THEN 1 ELSE 0) < WireSlots
    /\ foreign' = foreign + 1
    /\ UNCHANGED <<on, job, queued, flights, closed, failures, cooldown,
                   workerVars, permit>>

ForeignReleases ==
    /\ foreign > 0
    /\ foreign' = foreign - 1
    /\ UNCHANGED <<on, job, queued, flights, closed, failures, cooldown,
                   workerVars, permit>>

\* The clock passes 15 seconds.
Tick ==
    /\ cooldown > 0
    /\ cooldown' = cooldown - 1
    /\ UNCHANGED <<on, job, queued, flights, closed, failures,
                   workerVars, envVars>>

\* The coordinator changes the generation or the ownership of vehicles: the
\* keys made before are never current again.
OwnershipMoves(vs) ==
    /\ \E j \in Jobs : InUse(j) /\ Vehicle(j) \in vs /\ job[j].own
    /\ job' = [j \in Jobs |->
                 IF InUse(j) /\ VehicleOf[job[j].req] \in vs
                 THEN [job[j] EXCEPT !.own = FALSE] ELSE job[j]]
    /\ UNCHANGED <<on, queued, flights, closed, failures, cooldown,
                   workerVars, envVars>>

\* Authentication, presence, suspicion and consent may come and go.
PermitChanges(v) ==
    /\ permit' = [permit EXCEPT ![v] = ~@]
    /\ UNCHANGED <<on, job, queued, flights, closed, failures, cooldown,
                   workerVars, foreign>>

-----------------------------------------------------------------------------
Enter(c) ==
    \/ \E key \in Reads, prio \in Priorities : Join(c, key, prio)
    \/ \E req \in Requests, prio \in Priorities : Submit(c, req, prio)

TaskStep ==
    \/ AcquireGate
    \/ OperationReturns
    \/ \E kind \in Failures, retry \in 0..MaxRetry : OperationRaises(kind, retry)
    \/ TaskCancelled

Environment ==
    \/ ForeignAcquires \/ ForeignReleases \/ Tick
    \/ \E v \in Vehicles : OwnershipMoves({v}) \/ PermitChanges(v)
    \/ OwnershipMoves(Vehicles)

Next ==
    \/ \E c \in Callers : Enter(c) \/ Leave(c)
    \/ WorkerStart \/ WorkerSettles
    \/ TaskStep
    \/ Close
    \/ Environment

Safe == Init /\ [][Next]_vars

\* An account alone on the gate, whose operations succeed and whose vehicles
\* and session stay as they are: what the callers do to each other.
UndisturbedNext ==
    \/ \E c \in Callers : Enter(c) \/ Leave(c)
    \/ WorkerStart \/ WorkerSettles
    \/ AcquireGate \/ OperationReturns \/ TaskCancelled
    \/ Close

(***************************************************************************)
(* Fairness.  The event loop runs every ready step: the worker, a task     *)
(* whose cancellation was requested, a caller whose future is done.  An    *)
(* operation ends because the client gives every request a timeout.  The   *)
(* semaphore serves its waiters in order, hence the strong fairness of     *)
(* AcquireGate; the operations of other accounts end too.  Callers need    *)
(* not come, leave early or close the broker.                              *)
(***************************************************************************)
OperationEnds ==
    \/ OperationReturns
    \/ \E kind \in Failures, retry \in 0..MaxRetry : OperationRaises(kind, retry)

Answered(c) == on[c] # None /\ job[on[c]].fut # "pending" /\ Leave(c)

Fairness ==
    /\ WF_vars(WorkerStart) /\ WF_vars(WorkerSettles)
    /\ SF_vars(AcquireGate) /\ WF_vars(OperationEnds) /\ WF_vars(TaskCancelled)
    /\ WF_vars(ForeignReleases)
    /\ \A c \in Callers : WF_vars(Answered(c))

FairUndisturbed == Init /\ [][UndisturbedNext]_vars /\ Fairness

-----------------------------------------------------------------------------
(***************************************************************************)
(* What a caller of the broker relies on.                                  *)
(***************************************************************************)
\* Callers of the same read share one request: two jobs that are still to be
\* answered never have the same current key, and such a job can be joined
\* (it is in the dictionary) until its answer.  A command is never shared
\* (_submit, lines 126-147 and 165).
Coalescing ==
    /\ \A j \in Pending :
         IsRead(j) /\ job[j].own /\ job[j].fut = "pending" => j \in flights
    /\ \A i, j \in Pending :
         /\ IsRead(i) /\ job[i].req = job[j].req
         /\ job[i].own /\ job[j].own
         /\ job[i].fut = "pending" /\ job[j].fut = "pending"
         => i = j
    /\ \A j \in Jobs : InUse(j) /\ ~IsRead(j) => Cardinality(Waiting(j)) <= 1

\* Where the worker is, and what it holds; unanswered work is in its hands.
\* NoStrandedCaller is inductive together with this.
ServiceInv ==
    /\ \A j \in queued : InUse(j)
    /\ worker = "awaiting" <=> active # None
    /\ active # None <=> task # NoTask
    /\ active # None => InUse(active) /\ active \notin queued
    /\ closed => worker # "starting"
    /\ worker = "idle" => queued = {}
    /\ \A c \in Callers : on[c] # None => InUse(on[c])
    /\ \A j \in Jobs : job[j].fut = "pending" => j \in queued \cup {active}
    /\ closed => \A j \in Jobs : job[j].fut # "pending"
    /\ cancelling => active # None /\ job[active].fut # "pending"

\* Nobody waits on everybody: whoever waits for a future that is not done
\* waits for a job the worker still has, in the queue of a live worker or as
\* the active job, and nobody asked its task to stop (_submit, _run and
\* async_close share this duty).
NoStrandedCaller ==
    \A c \in Callers :
        on[c] # None /\ job[on[c]].fut = "pending" =>
            \/ on[c] \in queued /\ worker # "idle" /\ ~closed
            \/ on[c] = active /\ worker = "awaiting" /\ ~cancelling /\ ~closed

\* "Cancelling one waiter cannot cancel other consumers" (the docstring of
\* QueryBroker): short of closing, a future is cancelled when its last caller
\* has left.
SharedReadSurvives ==
    [][\A j \in Jobs :
          /\ InUse(j) /\ job[j].fut = "pending"
          /\ job'[j] # Unused /\ job'[j].fut = "cancelled"
          => closed' \/ \A c \in Callers : on'[c] # j]_vars

\* Work nobody waits for is not sent: a queued job has a caller, and a job
\* that lost its last caller at the gate or on the wire is being cancelled
\* (lines 156-164).
NoAbandonedWork ==
    /\ \A j \in queued : Waiting(j) # {} \/ closed
    /\ task.stage \in {"gate", "wire"} /\ Waiting(active) = {} => cancelling

\* Reads cannot take the places reserved for commands, background reads
\* cannot take the places reserved for due status reads, whatever joins,
\* leaves and priority changes happened in between (lines 133-139).
AdmissionBounds ==
    /\ Cardinality(Pending) <= MaxPending
    /\ Cardinality({j \in Pending : IsRead(j)}) <= ReadLimit
    /\ Cardinality({j \in Pending : ~IsRead(j)}) <= CommandLimit
    /\ Cardinality({j \in Pending : IsRead(j) /\ job[j].prio = Background})
         <= Larger(1, ReadLimit - 2)

\* An account that must wait after a transport failure has nothing on the
\* wire (lines 194-196 and 241-253).
NoWireDuringCooldown == task.stage = "wire" => cooldown = 0

\* A rejection during the cooldown does not extend the cooldown
\* (class _Cooldown, lines 55-56): until it is over it only shrinks.
CooldownNotExtended == [][cooldown > 0 => cooldown' <= cooldown]_vars

\* Every call returns: neither the priorities, nor the preference for another
\* vehicle, nor the other accounts can delay a caller for ever, and closing
\* leaves no caller behind (_choose and its streak, the cancellations).
EveryCallAnswered == \A c \in Callers : on[c] # None ~> on[c] = None

\* async_close ends: its worker stops and nothing is left in the queue.
CloseCompletes == closed ~> worker = "idle" /\ queued = {} /\ active = None

\* What is on the wire, or on its way there, is wanted and allowed.
WireIsWarranted == NoWireDuringCooldown /\ NoAbandonedWork

\* Every call of the broker ends, and closing it does.
BrokerServes == EveryCallAnswered /\ CloseCompletes
=============================================================================
