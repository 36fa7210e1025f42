------------------------ MODULE QueryBrokerProofs ------------------------
(***************************************************************************)
(* Theorems about QueryBroker for every number of callers, jobs, requests  *)
(* and slots.                                                              *)
(***************************************************************************)
EXTENDS QueryBroker, FiniteSetTheorems, TLAPS

BInv == TypeOK /\ ServiceInv

Table == [Jobs -> JobRecord \cup {Unused}]

LEMMA JobTypes ==
    /\ Unused \notin JobRecord
    /\ Unused.fut = "unused"
    /\ \A r \in JobRecord : r.fut \in Futures
BY DEF JobRecord, Unused, Futures

LEMMA TaskTypes ==
    ASSUME BrokerAssumption
    PROVE  /\ NoTask \notin TaskRecord
           /\ [stage |-> "gate"] \in TaskRecord /\ [stage |-> "wire"] \in TaskRecord
           /\ \A kind \in Endings, retry \in 0..MaxRetry : Done(kind, retry) \in TaskRecord
           /\ 0 \in 0..MaxRetry
BY DEF TaskRecord, NoTask, Done, BrokerAssumption

\* What is left of the table old when only alive and waiting refer to jobs.
Remains(new, old, alive, waiting) ==
    /\ new \in Table
    /\ \A j \in Jobs : j \in alive \cup waiting /\ old[j] # Unused => new[j] # Unused
    /\ \A j \in Jobs : new[j] # Unused => old[j] # Unused /\ new[j].fut = old[j].fut
    /\ \A j \in Jobs : new[j].fut = "pending" => old[j].fut = "pending"

\* The garbage collection of jobs keeps the type of the table and the answers,
\* and every live job.
LEMMA CollectKeeps ==
    ASSUME NEW jobs \in Table,
           NEW alive \in SUBSET (Jobs \cup {None}), NEW waiting \in SUBSET Jobs
    PROVE  Remains(Collect(jobs, alive, waiting), jobs, alive, waiting)
<1>1. ASSUME NEW r \in JobRecord
      PROVE  /\ [r EXCEPT !.before = @ \cap alive] \in JobRecord
             /\ [r EXCEPT !.before = @ \cap alive].fut = r.fut
             /\ r # Unused
             /\ [r EXCEPT !.before = @ \cap alive] # Unused
  BY <1>1 DEF JobRecord, Unused, Futures
<1>2. Unused.fut # "pending"
  BY JobTypes
<1> QED BY <1>1, <1>2 DEF Collect, Table, Remains

-----------------------------------------------------------------------------
(***************************************************************************)
(* The worker's way from one await to the next, with the table of jobs the *)
(* step left before it.                                                    *)
(***************************************************************************)
LEMMA ContinueKeeps ==
    ASSUME BrokerAssumption, BInv, worker # "idle",
           NEW jobs \in Table,
           \A j \in Jobs : InUse(j) => jobs[j] # Unused,
           \A j \in Jobs : jobs[j].fut = "pending" => j \in queued,
           closed => \A j \in Jobs : jobs[j].fut # "pending",
           Continue(jobs),
           UNCHANGED <<on, closed>>
    PROVE  /\ job' \in Table
           /\ queued' \subseteq Jobs /\ flights' \subseteq Jobs
           /\ worker' \in {"idle", "starting", "awaiting"}
           /\ active' \in Jobs \cup {None}
           /\ task' \in TaskRecord \cup {NoTask}
           /\ cancelling' \in BOOLEAN
           /\ streak' \in 0..3
           /\ last' \in Vehicles \cup {None}
           /\ ServiceInv'
<1> DEFINE waiting == {i \in Jobs : Waiting(i) # {}}
<1>a. waiting \in SUBSET Jobs
  OBVIOUS
<1>b. \A c \in Callers : on[c] # None => on[c] \in waiting
  BY DEF Waiting, BInv, TypeOK
<1> HIDE DEF waiting
<1>1. CASE closed \/ queued = {}
  <2>1. WorkerEnds(jobs)
    BY <1>1 DEF Continue
  <2>2. Kept(queued) = {}
    BY <1>1 DEF Kept
  <2>3. job' = Collect(jobs, Kept(queued), waiting)
    BY <2>1 DEF WorkerEnds, waiting
  <2>4. /\ job' \in Table
        /\ \A j \in Jobs : j \in waiting /\ jobs[j] # Unused => job'[j] # Unused
        /\ \A j \in Jobs : job'[j].fut = "pending" => jobs[j].fut = "pending"
    <3>1. Remains(job', jobs, {}, waiting)
      BY <1>a, <2>2, <2>3, CollectKeeps
    <3> QED
      BY <3>1 DEF Remains
  <2>5. /\ queued' = {} /\ worker' = "idle" /\ active' = None /\ task' = NoTask
        /\ cancelling' = FALSE
    BY <2>1, <2>2 DEF WorkerEnds
  <2>6. \A j \in Jobs : job'[j].fut # "pending"
    BY <1>1, <2>4
  <2>7. \A c \in Callers : on[c] # None => job'[on[c]] # Unused
    BY <1>b, <2>4 DEF BInv, TypeOK, ServiceInv, InUse
  <2>8. ServiceInv'
    BY <2>5, <2>6, <2>7 DEF ServiceInv, InUse
  <2> QED
    BY <2>1, <2>4, <2>5, <2>8 DEF WorkerEnds, Kept, BInv, TypeOK
<1>2. CASE ~(closed \/ queued = {})
  <2>1. PICK j \in queued : Dispatch(j, jobs)
    BY <1>2 DEF Continue
  <2>2. /\ queued' = queued \ {j} /\ active' = j /\ task' = [stage |-> "gate"]
        /\ cancelling' = FALSE /\ worker' = "awaiting"
        /\ job' = Collect(jobs, queued, waiting)
    BY <2>1 DEF Dispatch, waiting
  <2>3. queued \in SUBSET (Jobs \cup {None}) /\ j \in Jobs /\ j # None
    BY DEF BInv, TypeOK, BrokerAssumption
  <2>4. /\ job' \in Table
        /\ \A i \in Jobs : i \in queued \cup waiting /\ jobs[i] # Unused
                => job'[i] # Unused
        /\ \A i \in Jobs : job'[i].fut = "pending" => jobs[i].fut = "pending"
    <3>1. Remains(job', jobs, queued, waiting)
      BY <1>a, <2>2, <2>3, CollectKeeps
    <3> QED
      BY <3>1 DEF Remains
  <2>5. \A i \in queued : job'[i] # Unused
    BY <2>4 DEF BInv, TypeOK, ServiceInv, InUse
  <2>6. \A i \in Jobs : job'[i].fut = "pending" => i \in queued
    BY <2>4
  <2>7. \A c \in Callers : on[c] # None => job'[on[c]] # Unused
    BY <1>b, <2>4 DEF BInv, TypeOK, ServiceInv, InUse
  <2>8. task' \in TaskRecord /\ task' # NoTask
    BY <2>2, TaskTypes
  <2>9. ServiceInv'
    BY <1>2, <2>2, <2>3, <2>5, <2>6, <2>7, <2>8 DEF ServiceInv, InUse
  <2>10. last' \in Vehicles
    <3>1. job[j] \in JobRecord
      BY DEF BInv, TypeOK, ServiceInv, InUse
    <3> QED
      BY <2>1, <3>1 DEF Dispatch, Vehicle, JobRecord, Requests, BrokerAssumption
  <2>11. streak' \in 0..3
    BY <2>1 DEF Dispatch, Smaller, BInv, TypeOK
  <2> QED
    BY <2>1, <2>2, <2>3, <2>4, <2>8, <2>9, <2>10, <2>11 DEF Dispatch, BInv, TypeOK
<1> QED
  BY <1>1, <1>2

-----------------------------------------------------------------------------
(***************************************************************************)
(* The steps of a caller.                                                  *)
(***************************************************************************)
LEMMA JoinKeeps ==
    ASSUME BrokerAssumption, BInv,
           NEW c \in Callers, NEW key \in Reads, NEW prio \in Priorities,
           Join(c, key, prio)
    PROVE  BInv'
<1>1. PICK j \in Flight(key) :
         /\ on' = [on EXCEPT ![c] = j]
         /\ job' = [job EXCEPT ![j].prio = Smaller(@, prio)]
  BY DEF Join
<1>2. j \in Jobs /\ job[j].fut = "pending" /\ job[j] \in JobRecord
  BY <1>1, JobTypes DEF Flight, BInv, TypeOK
<1>3. Smaller(job[j].prio, prio) \in Priorities
  BY <1>2 DEF Smaller, JobRecord
<1>4. job'[j] \in JobRecord /\ job'[j].fut = job[j].fut
  BY <1>1, <1>2, <1>3 DEF JobRecord, BInv, TypeOK
<1>5. \A i \in Jobs : i # j => job'[i] = job[i]
  BY <1>1 DEF BInv, TypeOK
<1>6. job' \in Table
  BY <1>1, <1>4, <1>5 DEF Table, BInv, TypeOK
<1>7. UNCHANGED <<queued, flights, closed, failures, cooldown, workerVars, envVars>>
  BY DEF Join
<1>8. TypeOK'
  BY <1>1, <1>2, <1>6, <1>7 DEF BInv, TypeOK, Table, workerVars, envVars
<1>9. \A i \in Jobs : InUse(i)' <=> InUse(i)
  BY <1>2, <1>4, <1>5, JobTypes DEF InUse
<1>10. \A i \in Jobs : job'[i].fut = job[i].fut
  BY <1>4, <1>5
<1>11. ServiceInv'
  BY <1>1, <1>2, <1>7, <1>9, <1>10, JobTypes
     DEF BInv, TypeOK, ServiceInv, workerVars, InUse
<1> QED
  BY <1>8, <1>11 DEF BInv

LEMMA SubmitKeeps ==
    ASSUME BrokerAssumption, BInv,
           NEW c \in Callers, NEW req \in Requests, NEW prio \in Priorities,
           Submit(c, req, prio)
    PROVE  BInv'
<1> DEFINE new == [req |-> req, prio |-> prio, fut |-> "pending", own |-> TRUE,
                   before |-> queued]
<1>1. PICK j \in Jobs :
         /\ ~InUse(j)
         /\ on' = [on EXCEPT ![c] = j]
         /\ job' = [job EXCEPT ![j] = new]
         /\ queued' = queued \cup {j}
         /\ flights' = Register(j, req)
  BY DEF Submit
<1>2. new \in JobRecord /\ new.fut = "pending" /\ new # Unused
  BY DEF JobRecord, Futures, Unused, BInv, TypeOK
<1> HIDE DEF new
<1>3. /\ UNCHANGED <<closed, active, task, cancelling, streak, last, failures,
                     cooldown, envVars>>
      /\ ~closed /\ worker' = Wake
  BY DEF Submit, MayEnter
<1>4. job' \in Table /\ job'[j] = new /\ \A i \in Jobs : i # j => job'[i] = job[i]
  BY <1>1, <1>2 DEF Table, BInv, TypeOK
<1>5. flights' \subseteq Jobs
  BY <1>1 DEF Register, BInv, TypeOK
<1>6. worker' \in {"idle", "starting", "awaiting"} /\ worker' # "idle"
      /\ (worker' = "awaiting" <=> worker = "awaiting")
  BY <1>3 DEF Wake, BInv, TypeOK
<1>7. TypeOK'
  BY <1>1, <1>3, <1>4, <1>5, <1>6 DEF BInv, TypeOK, Table, envVars
<1>8. \A i \in Jobs : InUse(i)' <=> InUse(i) \/ i = j
  BY <1>2, <1>4 DEF InUse
<1>9. \A i \in Jobs : job'[i].fut = "pending" => i = j \/ job[i].fut = "pending"
  BY <1>4
<1>10. active # j /\ j \notin queued
  BY <1>1 DEF BInv, ServiceInv, TypeOK, BrokerAssumption
<1>11. \A d \in Callers : on'[d] = IF d = c THEN j ELSE on[d]
  BY <1>1 DEF BInv, TypeOK
<1>12. ServiceInv'
  <2>1. (cancelling => active # None /\ job[active].fut # "pending")'
    BY <1>3, <1>4, <1>10 DEF BInv, ServiceInv, TypeOK
  <2>2. (\A d \in Callers : on[d] # None => InUse(on[d]))'
    BY <1>8, <1>11 DEF BInv, ServiceInv, TypeOK
  <2>3. (\A i \in Jobs : job[i].fut = "pending" => i \in queued \cup {active})'
    BY <1>1, <1>3, <1>9 DEF BInv, ServiceInv
  <2>4. (\A i \in queued : InUse(i))' /\ (active # None => InUse(active) /\ active \notin queued)'
    BY <1>1, <1>3, <1>8, <1>10 DEF BInv, ServiceInv, TypeOK
  <2> QED
    BY <1>3, <1>6, <2>1, <2>2, <2>3, <2>4 DEF BInv, ServiceInv
<1> QED
  BY <1>7, <1>12 DEF BInv

LEMMA LeaveKeeps ==
    ASSUME BrokerAssumption, BInv, NEW c \in Callers, Leave(c)
    PROVE  BInv'
<1> DEFINE j       == on[c]
           left    == IF Abandons(c) THEN queued \ {j} ELSE queued
           marked  == IF Abandons(c) THEN [job EXCEPT ![j].fut = "cancelled"] ELSE job
           calls   == [on EXCEPT ![c] = None]
           waiting == {i \in Jobs : \E d \in Callers : calls[d] = i}
<1>1. j \in Jobs /\ InUse(j)
  BY DEF Leave, BInv, TypeOK, ServiceInv
<1>2. /\ on' = calls /\ queued' = left /\ flights' \subseteq flights
      /\ job' = Collect(marked, left \cup {active}, waiting)
      /\ cancelling' = (cancelling \/ (Abandons(c) /\ active = j /\ task.stage # "done"))
      /\ UNCHANGED <<closed, worker, active, task, streak, last, failures,
                     cooldown, envVars>>
  BY DEF Leave
<1>3. /\ marked \in Table
      /\ \A i \in Jobs : InUse(i) => marked[i] # Unused
      /\ \A i \in Jobs : marked[i].fut = "pending" => job[i].fut = "pending"
      /\ Abandons(c) => marked[j].fut # "pending"
  <2>1. CASE Abandons(c)
    <3>1. job[j] \in JobRecord
      BY <1>1 DEF InUse, BInv, TypeOK
    <3>2. /\ [job[j] EXCEPT !.fut = "cancelled"] \in JobRecord
          /\ [job[j] EXCEPT !.fut = "cancelled"].fut = "cancelled"
      BY <3>1 DEF JobRecord, Futures
    <3>3. /\ marked[j] = [job[j] EXCEPT !.fut = "cancelled"]
          /\ \A i \in Jobs : i # j => marked[i] = job[i]
      BY <1>1, <2>1 DEF BInv, TypeOK
    <3>4. marked \in Table
      BY <1>1, <2>1, <3>2 DEF Table, BInv, TypeOK
    <3> HIDE DEF marked
    <3> QED
      BY <1>1, <3>2, <3>3, <3>4, JobTypes DEF InUse
  <2>2. CASE ~Abandons(c)
    BY <2>2 DEF Table, InUse, BInv, TypeOK
  <2> QED BY <2>1, <2>2
<1>4. left \subseteq queued /\ queued \subseteq Jobs /\ left \cup {active} \in SUBSET (Jobs \cup {None})
      /\ waiting \in SUBSET Jobs
  BY DEF BInv, TypeOK
<1>5. left = IF Abandons(c) THEN queued \ {j} ELSE queued
  OBVIOUS
<1>6. \A d \in Callers : calls[d] # None => calls[d] = on[d] /\ on[d] \in waiting
  BY DEF BInv, TypeOK
<1>7. calls \in [Callers -> Jobs \cup {None}]
  BY DEF BInv, TypeOK
<1> HIDE DEF left, marked, calls, waiting
<1>8. Remains(job', marked, left \cup {active}, waiting)
  BY <1>2, <1>3, <1>4, CollectKeeps
<1>9. TypeOK'
  <2>1. job' \in Table
    BY <1>8 DEF Remains
  <2>2. cancelling' \in BOOLEAN
    BY <1>2 DEF BInv, TypeOK
  <2> QED
    BY <1>2, <1>4, <1>7, <2>1, <2>2 DEF BInv, TypeOK, Table, envVars
<1>10. \A i \in Jobs : i \in left \cup {active} \cup waiting /\ InUse(i) => InUse(i)'
  BY <1>3, <1>8 DEF Remains, InUse
<1>11. \A i \in Jobs : job'[i].fut = "pending" =>
          /\ job[i].fut = "pending"
          /\ ~(Abandons(c) /\ i = j)
  BY <1>1, <1>3, <1>8 DEF Remains
<1>12. ServiceInv'
  <2>1. (\A i \in queued : InUse(i))'
    BY <1>2, <1>4, <1>10 DEF BInv, ServiceInv
  <2>2. (active # None => InUse(active) /\ active \notin queued)'
    BY <1>2, <1>4, <1>10 DEF BInv, ServiceInv, TypeOK
  <2>3. (worker = "idle" => queued = {})'
    BY <1>2, <1>4 DEF BInv, ServiceInv
  <2>4. (\A d \in Callers : on[d] # None => InUse(on[d]))'
    BY <1>2, <1>4, <1>6, <1>10 DEF BInv, ServiceInv
  <2>5. (\A i \in Jobs : job[i].fut = "pending" => i \in queued \cup {active})'
    BY <1>2, <1>5, <1>11 DEF BInv, ServiceInv
  <2>6. (closed => \A i \in Jobs : job[i].fut # "pending")'
    BY <1>2, <1>11 DEF BInv, ServiceInv
  <2>7. (cancelling => active # None /\ job[active].fut # "pending")'
    BY <1>1, <1>2, <1>11 DEF BInv, ServiceInv, TypeOK, BrokerAssumption
  <2> QED
    BY <1>2, <2>1, <2>2, <2>3, <2>4, <2>5, <2>6, <2>7 DEF BInv, ServiceInv
<1> QED
  BY <1>9, <1>12 DEF BInv

-----------------------------------------------------------------------------
(***************************************************************************)
(* The steps of the worker and of the task of the active job.              *)
(***************************************************************************)
LEMMA WorkerStartKeeps ==
    ASSUME BrokerAssumption, BInv, WorkerStart
    PROVE  BInv'
<1>1. /\ worker = "starting" /\ Continue(job)
      /\ UNCHANGED <<on, closed, failures, cooldown, envVars>>
  BY DEF WorkerStart
<1>2. active = None /\ ~closed
  BY <1>1 DEF BInv, ServiceInv
<1>3. \A j \in Jobs : job[j].fut = "pending" => j \in queued
  BY <1>2 DEF BInv, ServiceInv, BrokerAssumption
<1>4. job \in Table /\ \A j \in Jobs : InUse(j) => job[j] # Unused
  BY DEF BInv, TypeOK, Table, InUse
<1> QED
  BY <1>1, <1>2, <1>3, <1>4, ContinueKeeps DEF BInv, TypeOK, Table, envVars

LEMMA WorkerSettlesKeeps ==
    ASSUME BrokerAssumption, BInv, WorkerSettles
    PROVE  BInv'
<1> DEFINE kind   == IF closed THEN "cancelled" ELSE task.kind
           count  == IF kind = "transport"
                     THEN Smaller(MaxBackoff, failures + 1) ELSE failures
           served == [job EXCEPT ![active].fut = Answer(@, kind)]
           known  == [j \in Jobs |->
                         IF kind = "auth" /\ InUse(j)
                         THEN [served[j] EXCEPT !.own = FALSE] ELSE served[j]]
<1>1. /\ worker = "awaiting" /\ task.stage = "done"
      /\ failures' = count
      /\ cooldown' = IF kind \in Failures
                     THEN Larger(cooldown, Delay(kind, task.retry, count))
                     ELSE cooldown
      /\ Continue(known)
      /\ UNCHANGED <<on, closed, envVars>>
  BY DEF WorkerSettles
<1>2. active \in Jobs /\ job[active] \in JobRecord
  BY <1>1 DEF BInv, TypeOK, ServiceInv, InUse
<1>3. kind \in Endings /\ task.retry \in 0..MaxRetry
  BY <1>1 DEF BInv, TypeOK, ServiceInv, TaskRecord, NoTask, Endings
<1>4. Answer(job[active].fut, kind) \in Futures \ {"pending"}
  BY <1>2, JobTypes DEF Answer, Settled, Futures
<1> HIDE DEF kind
<1>5. served \in Table
  BY <1>2, <1>4 DEF Table, BInv, TypeOK, JobRecord
<1>6. /\ served[active] = [job[active] EXCEPT !.fut = Answer(@, kind)]
      /\ \A j \in Jobs : j # active => served[j] = job[j]
  BY <1>2 DEF BInv, TypeOK
<1>7. /\ served[active].fut # "pending" /\ served[active] # Unused
      /\ \A j \in Jobs : served[j].fut = "pending" => j # active /\ job[j].fut = "pending"
      /\ \A j \in Jobs : InUse(j) => served[j] # Unused
  BY <1>2, <1>4, <1>6, JobTypes DEF InUse, JobRecord, Unused, Futures
<1> HIDE DEF served
<1>8. ASSUME NEW j \in Jobs
      PROVE  /\ known[j] \in JobRecord \cup {Unused}
             /\ InUse(j) => known[j] # Unused
             /\ known[j].fut = served[j].fut
  <2>1. ASSUME NEW r \in JobRecord
        PROVE  /\ [r EXCEPT !.own = FALSE] \in JobRecord
               /\ [r EXCEPT !.own = FALSE].fut = r.fut
    BY <2>1 DEF JobRecord
  <2>2. InUse(j) => served[j] \in JobRecord
    BY <1>5, <1>7 DEF Table
  <2> QED
    BY <1>5, <1>7, <2>1, <2>2, JobTypes DEF Table
<1>9. /\ known \in Table
      /\ \A j \in Jobs : InUse(j) => known[j] # Unused
      /\ \A j \in Jobs : known[j].fut = "pending" => j # active /\ job[j].fut = "pending"
  BY <1>7, <1>8 DEF Table
<1> HIDE DEF known
<1>10. /\ \A j \in Jobs : known[j].fut = "pending" => j \in queued
       /\ closed => \A j \in Jobs : known[j].fut # "pending"
  BY <1>9 DEF BInv, ServiceInv
<1>11. failures' \in 0..MaxBackoff
  BY <1>1 DEF Smaller, BInv, TypeOK, BrokerAssumption
<1>12. cooldown' \in 0..Larger(MaxBackoff, MaxRetry)
  BY <1>1, <1>3, <1>11 DEF Larger, Delay, BInv, TypeOK, BrokerAssumption
<1>13. worker # "idle"
  BY <1>1
<1> QED
  BY <1>1, <1>9, <1>10, <1>11, <1>12, <1>13, ContinueKeeps DEF BInv, TypeOK, Table, envVars

LEMMA TaskStepKeeps ==
    ASSUME BrokerAssumption, BInv, TaskStep
    PROVE  BInv'
<1>1. /\ task' \in TaskRecord /\ task # NoTask
      /\ failures' \in {failures, 0}
      /\ UNCHANGED <<on, job, queued, flights, worker, active, cancelling,
                     closed, streak, last, cooldown, envVars>>
  <2>1. CASE AcquireGate
    <3>1. Admission \in TaskRecord
      BY TaskTypes DEF Admission, Endings
    <3> QED BY <2>1, <3>1 DEF AcquireGate, AtGate, NoTask
  <2>2. CASE OperationReturns
    BY <2>2, TaskTypes DEF OperationReturns, Endings, NoTask
  <2>3. ASSUME NEW kind \in Failures, NEW retry \in 0..MaxRetry, OperationRaises(kind, retry)
        PROVE  /\ task' \in TaskRecord /\ task # NoTask
               /\ failures' \in {failures, 0}
               /\ UNCHANGED <<on, job, queued, flights, worker, active,
                              cancelling, closed, streak, last, cooldown, envVars>>
    BY <2>3, TaskTypes DEF OperationRaises, Endings, NoTask
  <2>4. CASE TaskCancelled
    BY <2>4, TaskTypes DEF TaskCancelled, Endings, NoTask
  <2> QED
    BY <2>1, <2>2, <2>3, <2>4 DEF TaskStep
<1>2. TypeOK'
  BY <1>1 DEF BInv, TypeOK, envVars, BrokerAssumption
<1>3. task' # NoTask
  BY <1>1, TaskTypes
<1>4. ServiceInv'
  BY <1>1, <1>3 DEF BInv, ServiceInv, InUse
<1> QED
  BY <1>2, <1>4 DEF BInv

-----------------------------------------------------------------------------
(***************************************************************************)
(* The closer and the environment.                                         *)
(***************************************************************************)
LEMMA CloseKeeps ==
    ASSUME BrokerAssumption, BInv, Close
    PROVE  BInv'
<1> DEFINE ended == [j \in Jobs |->
                       IF j \in Pending /\ job[j].fut = "pending"
                       THEN [job[j] EXCEPT !.fut = "cancelled"] ELSE job[j]]
           waiting == {i \in Jobs : Waiting(i) # {}}
<1>1. ASSUME NEW j \in Jobs
      PROVE  /\ ended[j] \in JobRecord \cup {Unused}
             /\ InUse(j) => ended[j] # Unused
             /\ ended[j].fut # "pending"
  <2>1. ASSUME NEW r \in JobRecord
        PROVE  /\ [r EXCEPT !.fut = "cancelled"] \in JobRecord
               /\ [r EXCEPT !.fut = "cancelled"].fut = "cancelled"
    BY <2>1 DEF JobRecord, Futures
  <2>2. job[j] \in JobRecord \cup {Unused}
    BY DEF BInv, TypeOK
  <2>3. job[j].fut = "pending" => j \in Pending /\ job[j] \in JobRecord
    BY <2>2, JobTypes DEF BInv, ServiceInv, Pending, TypeOK, BrokerAssumption
  <2> QED
    BY <2>1, <2>2, <2>3, JobTypes DEF InUse
<1>2. ended \in Table /\ (\A j \in Jobs : InUse(j) => ended[j] # Unused)
      /\ \A j \in Jobs : ended[j].fut # "pending"
  BY <1>1 DEF Table
<1>3. waiting \in SUBSET Jobs /\ \A c \in Callers : on[c] # None => on[c] \in waiting
  BY DEF Waiting, BInv, TypeOK
<1>4. /\ ~closed /\ closed' = TRUE
      /\ UNCHANGED <<on, streak, last, failures, cooldown, envVars>>
  BY DEF Close
<1>5. CASE worker = "awaiting"
  <2>1. /\ job' = ended /\ cancelling' \in BOOLEAN
        /\ UNCHANGED <<queued, flights, worker, active, task>>
    BY <1>5 DEF Close
  <2> HIDE DEF ended
  <2>2. \A j \in Jobs : (InUse(j) => InUse(j)') /\ job'[j].fut # "pending"
    BY <1>2, <2>1 DEF InUse
  <2> QED
    BY <1>2, <1>4, <1>5, <2>1, <2>2 DEF BInv, TypeOK, ServiceInv, Table, envVars
<1>6. CASE worker # "awaiting"
  <2>1. /\ worker' = "idle" /\ queued' = {} /\ flights' = {}
        /\ job' = Collect(ended, {}, waiting)
        /\ UNCHANGED <<active, task, cancelling>>
    BY <1>6 DEF Close
  <2> HIDE DEF ended, waiting
  <2>2. Remains(job', ended, {}, waiting)
    BY <1>2, <1>3, <2>1, CollectKeeps
  <2>3. job' \in Table /\ \A j \in Jobs : job'[j].fut # "pending"
    BY <1>2, <2>2 DEF Remains
  <2>5. (\A c \in Callers : on[c] # None => InUse(on[c]))'
    <3>1. \A j \in Jobs : j \in waiting /\ InUse(j) => job'[j] # Unused
      BY <1>2, <2>2 DEF Remains
    <3>2. \A c \in Callers : on[c] # None =>
              on[c] \in Jobs /\ InUse(on[c]) /\ on[c] \in waiting
      BY <1>3 DEF BInv, ServiceInv, TypeOK
    <3> QED
      BY <1>4, <3>1, <3>2 DEF InUse
  <2>4. active = None /\ ~cancelling
    BY <1>6 DEF BInv, ServiceInv
  <2> QED
    BY <1>4, <2>1, <2>3, <2>4, <2>5 DEF BInv, TypeOK, ServiceInv, Table, envVars
<1> QED
  BY <1>5, <1>6

LEMMA EnvironmentKeeps ==
    ASSUME BrokerAssumption, BInv, Environment
    PROVE  BInv'
<1>1. CASE ForeignAcquires \/ ForeignReleases
  <2>1. /\ foreign' \in 0..WireSlots
        /\ UNCHANGED <<on, job, queued, flights, closed, failures, cooldown,
                       workerVars, permit>>
    BY <1>1 DEF ForeignAcquires, ForeignReleases, BInv, TypeOK, BrokerAssumption
  <2> QED
    BY <2>1 DEF BInv, TypeOK, ServiceInv, InUse, workerVars
<1>2. CASE Tick
  <2>1. cooldown' \in 0..Larger(MaxBackoff, MaxRetry)
    BY <1>2 DEF Tick, Larger, BInv, TypeOK, BrokerAssumption
  <2> QED
    BY <1>2, <2>1 DEF Tick, BInv, TypeOK, ServiceInv, InUse, workerVars, envVars
<1>3. ASSUME NEW vs \in SUBSET Vehicles, OwnershipMoves(vs)
      PROVE  BInv'
  <2>1. UNCHANGED <<on, queued, flights, closed, failures, cooldown,
                    workerVars, envVars>>
    BY <1>3 DEF OwnershipMoves
  <2>2. ASSUME NEW j \in Jobs
        PROVE  /\ job'[j] \in JobRecord \cup {Unused}
               /\ InUse(j)' <=> InUse(j)
               /\ job'[j].fut = job[j].fut
    <3>1. ASSUME NEW r \in JobRecord
          PROVE  /\ [r EXCEPT !.own = FALSE] \in JobRecord
                 /\ [r EXCEPT !.own = FALSE].fut = r.fut
      BY <3>1 DEF JobRecord
    <3>2. \/ job'[j] = job[j]
          \/ InUse(j) /\ job'[j] = [job[j] EXCEPT !.own = FALSE]
      BY <1>3 DEF OwnershipMoves
    <3>3. job[j] \in JobRecord \cup {Unused}
      BY DEF BInv, TypeOK
    <3>4. CASE job'[j] = job[j]
      BY <3>3, <3>4 DEF InUse
    <3>5. CASE InUse(j) /\ job'[j] = [job[j] EXCEPT !.own = FALSE]
      <4>1. job[j] \in JobRecord
        BY <3>3, <3>5 DEF InUse
      <4> QED
        BY <3>1, <3>5, <4>1, JobTypes DEF InUse
    <3> QED
      BY <3>2, <3>4, <3>5
  <2>3. job' \in Table
    BY <1>3, <2>2 DEF OwnershipMoves, Table
  <2> QED
    BY <2>1, <2>2, <2>3 DEF BInv, TypeOK, ServiceInv, Table, workerVars, envVars
<1>4. ASSUME NEW v \in Vehicles, PermitChanges(v)
      PROVE  BInv'
  BY <1>4 DEF PermitChanges, BInv, TypeOK, ServiceInv, InUse, workerVars
<1> QED
  BY <1>1, <1>2, <1>3, <1>4 DEF Environment

-----------------------------------------------------------------------------
LEMMA BInvInit ==
    ASSUME BrokerAssumption, Init
    PROVE  BInv
<1>1. TypeOK
  <2>1. 0 \in 0..WireSlots /\ 0 \in 0..MaxBackoff /\ 0 \in 0..Larger(MaxBackoff, MaxRetry)
    BY DEF BrokerAssumption, Larger
  <2>2. 0 \in 0..3
    OBVIOUS
  <2> QED
    BY <2>1, <2>2 DEF Init, TypeOK
<1>2. \A j \in Jobs : job[j].fut # "pending"
  BY JobTypes DEF Init
<1>3. ServiceInv
  BY <1>2 DEF Init, ServiceInv
<1> QED
  BY <1>1, <1>3 DEF BInv

LEMMA BInvStep ==
    ASSUME BrokerAssumption, BInv, [Next]_vars
    PROVE  BInv'
<1>1. CASE UNCHANGED vars
  BY <1>1 DEF vars, workerVars, envVars, BInv, TypeOK, ServiceInv, InUse
<1>2. ASSUME NEW c \in Callers, Enter(c) PROVE BInv'
  BY <1>2, JoinKeeps, SubmitKeeps DEF Enter
<1>3. ASSUME NEW c \in Callers, Leave(c) PROVE BInv'
  BY <1>3, LeaveKeeps
<1> QED
  BY <1>1, <1>2, <1>3, WorkerStartKeeps, WorkerSettlesKeeps, TaskStepKeeps,
     CloseKeeps, EnvironmentKeeps DEF Next

\* In every behaviour of the broker the variables have their types and the
\* worker holds all the unanswered work (_submit, _run, async_close).
THEOREM TypeAndService == Safe => [](TypeOK /\ ServiceInv)
<1>1. Init => BInv
  BY BInvInit, BrokerAssumption
<1>2. BInv /\ [Next]_vars => BInv'
  BY BInvStep, BrokerAssumption
<1>3. BInv <=> TypeOK /\ ServiceInv
  BY DEF BInv
<1> QED
  BY <1>1, <1>2, <1>3, PTL DEF Safe

\* No caller waits for a future that nobody will complete: whatever the number
\* of callers and jobs, whoever joined, left, failed or closed before.
THEOREM NobodyStranded == Safe => []NoStrandedCaller
<1>1. TypeOK /\ ServiceInv => NoStrandedCaller
  BY DEF TypeOK, ServiceInv, NoStrandedCaller, BrokerAssumption
<1> QED
  BY <1>1, TypeAndService, PTL

-----------------------------------------------------------------------------
(***************************************************************************)
(* What the broker's callers rely on: sharing, admission, cancellation and *)
(* the wire.                                                               *)
(***************************************************************************)

\* What a step may do to a job that is already there: it is answered, or its key loses its owner.
Kin(new, old) ==
    /\ old # Unused
    /\ new.req = old.req /\ new.prio = old.prio
    /\ new.own => old.own
    /\ new.fut = "pending" => old.fut = "pending"

\* A step that brings no work and no caller: every step but Join and Submit.
Narrows ==
    /\ Pending' \subseteq Pending
    /\ \A j \in Jobs : job'[j] # Unused => Kin(job'[j], job[j])
    /\ \A j \in Pending' : job'[j].fut = "pending" /\ j \in flights => j \in flights'
    /\ \A c \in Callers : on'[c] \in {on[c], None}

\* Collect leaves the fields of what it keeps alone.
LEMMA CollectKin ==
    ASSUME NEW jobs \in Table, NEW alive, NEW waiting, NEW j \in Jobs,
           Collect(jobs, alive, waiting)[j] # Unused
    PROVE  LET new == Collect(jobs, alive, waiting)[j]
           IN  /\ jobs[j] # Unused
               /\ new.req = jobs[j].req /\ new.prio = jobs[j].prio
               /\ new.own = jobs[j].own /\ new.fut = jobs[j].fut
<1>1. ASSUME NEW r \in JobRecord
      PROVE  LET n == [r EXCEPT !.before = @ \cap alive]
             IN  n.req = r.req /\ n.prio = r.prio /\ n.own = r.own /\ n.fut = r.fut
  BY <1>1 DEF JobRecord
<1>2. jobs[j] \in JobRecord /\ Collect(jobs, alive, waiting)[j] = [jobs[j] EXCEPT !.before = @ \cap alive]
  BY DEF Collect, Table
<1> QED
  BY <1>1, <1>2, JobTypes

\* Jobs in use are records.
LEMMA InUseRecord ==
    ASSUME BInv, NEW j \in Jobs, InUse(j)
    PROVE  job[j] \in JobRecord
BY DEF BInv, TypeOK, InUse

LEMMA KinReflexive ==
    ASSUME BInv, NEW j \in Jobs, job[j] # Unused
    PROVE  Kin(job[j], job[j])
BY DEF Kin

-----------------------------------------------------------------------------
(***************************************************************************)
(* All steps but Join and Submit narrow.                                   *)
(***************************************************************************)
LEMMA ContinueNarrows ==
    ASSUME BrokerAssumption, BInv, NEW jobs \in Table,
           \A j \in Jobs : jobs[j] # Unused => Kin(jobs[j], job[j]),
           Continue(jobs), UNCHANGED on
    PROVE  Narrows
<1>1. CASE closed \/ queued = {}
  <2>1. WorkerEnds(jobs)
    BY <1>1 DEF Continue
  <2>2. queued' = {} /\ active' = None /\ job' = Collect(jobs, Kept(queued), {i \in Jobs : Waiting(i) # {}})
    BY <1>1, <2>1 DEF WorkerEnds, Kept
  <2>3. Pending' = {}
    BY <2>2 DEF Pending
  <2>4. ASSUME NEW j \in Jobs, job'[j] # Unused PROVE Kin(job'[j], job[j])
    BY <2>2, <2>4, CollectKin DEF Kin
  <2> QED
    BY <2>3, <2>4 DEF Narrows
<1>2. CASE ~(closed \/ queued = {})
  <2>1. PICK j \in queued : Dispatch(j, jobs)
    BY <1>2 DEF Continue
  <2>2. /\ queued' = queued \ {j} /\ active' = j /\ UNCHANGED flights
        /\ job' = Collect(jobs, queued, {i \in Jobs : Waiting(i) # {}})
    BY <2>1 DEF Dispatch
  <2>3. Pending' \subseteq Pending
    BY <2>2 DEF Pending
  <2>4. ASSUME NEW i \in Jobs, job'[i] # Unused PROVE Kin(job'[i], job[i])
    BY <2>2, <2>4, CollectKin DEF Kin
  <2> QED
    BY <2>2, <2>3, <2>4 DEF Narrows
<1> QED
  BY <1>1, <1>2

\* The table after the worker has answered its job (WorkerSettles).
LEMMA SettledTable ==
    ASSUME BrokerAssumption, BInv, WorkerSettles
    PROVE  \E jobs \in Table :
              /\ Continue(jobs)
              /\ \A j \in Jobs : jobs[j] # Unused => Kin(jobs[j], job[j])
              /\ \A j \in Jobs : InUse(j) => jobs[j] # Unused
              /\ \A j \in Jobs \ {active} : jobs[j].fut = job[j].fut
              /\ jobs[active].fut # "pending"
              /\ job[active].fut = "pending" /\ jobs[active].fut = "cancelled"
                    => closed \/ task.kind = "cancelled"
<1> DEFINE kind   == IF closed THEN "cancelled" ELSE task.kind
           served == [job EXCEPT ![active].fut = Answer(@, kind)]
           known  == [j \in Jobs |->
                         IF kind = "auth" /\ InUse(j)
                         THEN [served[j] EXCEPT !.own = FALSE] ELSE served[j]]
<1>1. worker = "awaiting" /\ task.stage = "done" /\ Continue(known)
  BY DEF WorkerSettles
<1>2. active \in Jobs /\ InUse(active) /\ job[active] \in JobRecord
  BY <1>1 DEF BInv, TypeOK, ServiceInv, InUse
<1>3. Answer(job[active].fut, kind) \in Futures \ {"pending"}
  BY <1>2, JobTypes DEF Answer, Settled, Futures
<1>4. /\ served[active] = [job[active] EXCEPT !.fut = Answer(@, kind)]
      /\ \A j \in Jobs : j # active => served[j] = job[j]
  BY <1>2 DEF BInv, TypeOK
<1>5. job[active].fut = "pending" /\ Answer(job[active].fut, kind) = "cancelled"
         => closed \/ task.kind = "cancelled"
  BY DEF Answer, Settled
<1> HIDE DEF kind, served
<1>6. /\ served[active] \in JobRecord
      /\ served[active].req = job[active].req /\ served[active].prio = job[active].prio
      /\ served[active].own = job[active].own
      /\ served[active].fut = Answer(job[active].fut, kind)
  BY <1>2, <1>3, <1>4 DEF JobRecord
<1>7. ASSUME NEW j \in Jobs
      PROVE  /\ served[j] \in JobRecord \cup {Unused}
             /\ served[j] # Unused <=> InUse(j)
             /\ served[j] # Unused => Kin(served[j], job[j])
  <2>1. CASE j = active
    BY <1>2, <1>3, <1>6, <2>1, JobTypes DEF Kin, InUse
  <2>2. CASE j # active
    BY <1>4, <2>2, KinReflexive DEF InUse, BInv, TypeOK
  <2> QED
    BY <2>1, <2>2
<1>8. ASSUME NEW j \in Jobs
      PROVE  /\ known[j] \in JobRecord \cup {Unused}
             /\ known[j] # Unused <=> InUse(j)
             /\ known[j] # Unused => Kin(known[j], job[j])
             /\ known[j].fut = served[j].fut
  <2>1. ASSUME NEW r \in JobRecord
        PROVE  LET n == [r EXCEPT !.own = FALSE]
               IN  /\ n \in JobRecord /\ n.own = FALSE
                   /\ n.req = r.req /\ n.prio = r.prio /\ n.fut = r.fut
    BY <2>1 DEF JobRecord
  <2>2. CASE kind = "auth" /\ InUse(j)
    <3>1. served[j] \in JobRecord /\ known[j] = [served[j] EXCEPT !.own = FALSE]
      BY <1>7, <2>2
    <3> QED
      BY <1>7, <2>1, <2>2, <3>1, JobTypes DEF Kin
  <2>3. CASE ~(kind = "auth" /\ InUse(j))
    BY <1>7, <2>3
  <2> QED
    BY <2>2, <2>3
<1>9. known \in Table
  BY <1>8 DEF Table
<1> HIDE DEF known
<1> QED
  BY <1>1, <1>2, <1>3, <1>4, <1>5, <1>6, <1>8, <1>9

LEMMA LeaveNarrows ==
    ASSUME BrokerAssumption, BInv, NEW c \in Callers, Leave(c)
    PROVE  Narrows
<1> DEFINE j       == on[c]
           left    == IF Abandons(c) THEN queued \ {j} ELSE queued
           marked  == IF Abandons(c) THEN [job EXCEPT ![j].fut = "cancelled"] ELSE job
           waiting == {i \in Jobs : \E d \in Callers : [on EXCEPT ![c] = None][d] = i}
<1>1. j \in Jobs /\ job[j] \in JobRecord
  BY DEF Leave, BInv, TypeOK, ServiceInv, InUse
<1>2. /\ on' = [on EXCEPT ![c] = None] /\ queued' = left /\ UNCHANGED active
      /\ flights' = IF Abandons(c) \/ job[j].fut # "pending" THEN flights \ {j} ELSE flights
      /\ job' = Collect(marked, left \cup {active}, waiting)
  BY DEF Leave
<1>3. /\ [job[j] EXCEPT !.fut = "cancelled"] \in JobRecord
      /\ Kin([job[j] EXCEPT !.fut = "cancelled"], job[j])
      /\ [job[j] EXCEPT !.fut = "cancelled"].fut = "cancelled"
  BY <1>1, JobTypes DEF JobRecord, Futures, Kin
<1>4. /\ marked \in Table
      /\ \A i \in Jobs : marked[i] # Unused => Kin(marked[i], job[i])
      /\ Abandons(c) => marked[j].fut = "cancelled"
      /\ ~Abandons(c) => marked = job
  BY <1>1, <1>3, KinReflexive DEF Table, BInv, TypeOK
<1>5. Pending' \subseteq Pending
  BY <1>2 DEF Pending
<1> HIDE DEF marked, left, waiting
<1>6. ASSUME NEW i \in Jobs, job'[i] # Unused
      PROVE  Kin(job'[i], job[i]) /\ job'[i].fut = marked[i].fut
  BY <1>2, <1>4, <1>6, CollectKin DEF Kin
<1>7. ASSUME NEW i \in Pending', job'[i].fut = "pending", i \in flights
      PROVE  i \in flights'
  <2>1. i \in Jobs /\ job'[i] # Unused
    BY <1>5, <1>7, JobTypes DEF BInv, TypeOK, Pending
  <2>2. marked[i].fut = "pending"
    BY <1>6, <1>7, <2>1
  <2>3. ~(i = j /\ (Abandons(c) \/ job[j].fut # "pending"))
    BY <1>4, <2>2
  <2> QED
    BY <1>2, <1>7, <2>3
<1>8. \A d \in Callers : on'[d] \in {on[d], None}
  BY <1>2 DEF BInv, TypeOK
<1> QED
  BY <1>5, <1>6, <1>7, <1>8 DEF Narrows

LEMMA CloseNarrows ==
    ASSUME BrokerAssumption, BInv, Close
    PROVE  Narrows
<1> DEFINE ended == [j \in Jobs |->
                       IF j \in Pending /\ job[j].fut = "pending"
                       THEN [job[j] EXCEPT !.fut = "cancelled"] ELSE job[j]]
           waiting == {i \in Jobs : Waiting(i) # {}}
<1>1. ASSUME NEW j \in Jobs
      PROVE  /\ ended[j] \in JobRecord \cup {Unused}
             /\ ended[j] # Unused => Kin(ended[j], job[j])
  <2>1. ASSUME NEW r \in JobRecord
        PROVE  /\ [r EXCEPT !.fut = "cancelled"] \in JobRecord
               /\ Kin([r EXCEPT !.fut = "cancelled"], r)
    BY <2>1, JobTypes DEF JobRecord, Futures, Kin
  <2>2. job[j].fut = "pending" => job[j] \in JobRecord
    BY JobTypes DEF BInv, TypeOK
  <2> QED
    BY <2>1, <2>2, KinReflexive DEF BInv, TypeOK
<1>2. ended \in Table
  BY <1>1 DEF Table
<1> HIDE DEF ended, waiting
<1>3. CASE worker = "awaiting"
  <2>1. job' = ended /\ UNCHANGED <<queued, flights, active, on>>
    BY <1>3 DEF Close, ended
  <2> QED
    BY <1>1, <2>1 DEF Narrows, Pending
<1>4. CASE worker # "awaiting"
  <2>1. /\ queued' = {} /\ job' = Collect(ended, {}, waiting)
        /\ UNCHANGED <<active, on>>
    BY <1>4 DEF Close, ended, waiting
  <2>2. Pending' = {}
    BY <1>4, <2>1 DEF Pending, BInv, ServiceInv
  <2>3. ASSUME NEW i \in Jobs, job'[i] # Unused PROVE Kin(job'[i], job[i])
    BY <1>1, <1>2, <2>1, <2>3, CollectKin DEF Kin
  <2> QED
    BY <2>1, <2>2, <2>3 DEF Narrows
<1> QED
  BY <1>3, <1>4

LEMMA StepNarrows ==
    ASSUME BrokerAssumption, BInv,
           WorkerStart \/ WorkerSettles \/ TaskStep \/ Close \/ Environment
             \/ (\E c \in Callers : Leave(c)) \/ UNCHANGED vars
    PROVE  Narrows
<1>1. CASE WorkerStart
  <2>1. job \in Table /\ Continue(job) /\ UNCHANGED on
    BY <1>1 DEF WorkerStart, BInv, TypeOK, Table
  <2> QED
    BY <2>1, KinReflexive, ContinueNarrows
<1>2. CASE WorkerSettles
  <2>1. PICK jobs \in Table :
           /\ Continue(jobs)
           /\ \A j \in Jobs : jobs[j] # Unused => Kin(jobs[j], job[j])
    BY <1>2, SettledTable
  <2> QED
    BY <1>2, <2>1, ContinueNarrows DEF WorkerSettles
<1>3. CASE UNCHANGED <<on, job, queued, flights, active>>
  BY <1>3, KinReflexive DEF Narrows, Pending
<1>4. CASE TaskStep
  BY <1>3, <1>4 DEF TaskStep, AcquireGate, OperationReturns, OperationRaises, TaskCancelled
<1>5. CASE Environment
  <2>1. ASSUME NEW vs, OwnershipMoves(vs)
        PROVE  Narrows
    <3>1. UNCHANGED <<on, queued, flights, active>>
      BY <2>1 DEF OwnershipMoves, workerVars
    <3>2. ASSUME NEW j \in Jobs, job'[j] # Unused
          PROVE  Kin(job'[j], job[j])
      <4>1. ASSUME NEW r \in JobRecord
            PROVE  LET n == [r EXCEPT !.own = FALSE]
                   IN n.own = FALSE /\ n.req = r.req /\ n.prio = r.prio /\ n.fut = r.fut
        BY <4>1 DEF JobRecord
      <4>2. \/ InUse(j) /\ job'[j] = [job[j] EXCEPT !.own = FALSE]
            \/ job'[j] = job[j]
        BY <2>1 DEF OwnershipMoves
      <4>3. CASE InUse(j) /\ job'[j] = [job[j] EXCEPT !.own = FALSE]
        BY <4>1, <4>3, InUseRecord DEF Kin, InUse
      <4>4. CASE job'[j] = job[j]
        BY <3>2, <4>4 DEF Kin
      <4> QED
        BY <4>2, <4>3, <4>4
    <3> QED
      BY <3>1, <3>2 DEF Narrows, Pending
  <2>2. CASE ForeignAcquires \/ ForeignReleases \/ Tick \/ \E v \in Vehicles : PermitChanges(v)
    BY <1>3, <2>2 DEF ForeignAcquires, ForeignReleases, Tick, PermitChanges, workerVars
  <2> QED
    BY <1>5, <2>1, <2>2 DEF Environment
<1> QED
  BY <1>1, <1>2, <1>3, <1>4, <1>5, CloseNarrows, LeaveNarrows DEF vars, workerVars

-----------------------------------------------------------------------------
(***************************************************************************)
(* Coalescing.                                                             *)
(***************************************************************************)
\* Coalescing, with the callers of a command told apart rather than counted.
ShareInv ==
    /\ \A j \in Pending :
         IsRead(j) /\ job[j].own /\ job[j].fut = "pending" => j \in flights
    /\ \A i, j \in Pending :
         /\ IsRead(i) /\ job[i].req = job[j].req
         /\ job[i].own /\ job[j].own
         /\ job[i].fut = "pending" /\ job[j].fut = "pending"
         => i = j
    /\ \A c, d \in Callers : on[c] # None /\ on[c] = on[d] /\ ~IsRead(on[c]) => c = d

LEMMA PendingInUse ==
    ASSUME BrokerAssumption, BInv, NEW j \in Pending
    PROVE  j \in Jobs /\ InUse(j) /\ job[j] \in JobRecord
BY DEF Pending, BInv, TypeOK, ServiceInv, InUse

LEMMA NarrowsShare ==
    ASSUME BrokerAssumption, BInv, BInv', ShareInv, Narrows
    PROVE  ShareInv'
<1>1. \A j \in Pending' : j \in Pending /\ j \in Jobs /\ Kin(job'[j], job[j])
  <2>1. ASSUME NEW j \in Pending' PROVE j \in Jobs /\ job'[j] # Unused
    BY DEF Pending, BInv, TypeOK, ServiceInv, InUse, BrokerAssumption
  <2> QED
    BY <2>1 DEF Narrows
<1>2. (\A j \in Pending : IsRead(j) /\ job[j].own /\ job[j].fut = "pending" => j \in flights)'
  BY <1>1 DEF Narrows, ShareInv, Kin, IsRead
<1>3. (\A i, j \in Pending :
         /\ IsRead(i) /\ job[i].req = job[j].req
         /\ job[i].own /\ job[j].own
         /\ job[i].fut = "pending" /\ job[j].fut = "pending"
         => i = j)'
  BY <1>1 DEF ShareInv, Kin, IsRead
<1>4. ASSUME NEW c \in Callers, NEW d \in Callers, on'[c] # None, on'[c] = on'[d], ~IsRead(on[c])'
      PROVE  c = d
  <2>1. on'[c] = on[c] /\ on'[d] = on[d]
    BY <1>4 DEF Narrows
  <2>2. on[c] \in Jobs /\ Kin(job'[on[c]], job[on[c]])
    BY <1>4, <2>1 DEF Narrows, BInv, TypeOK, ServiceInv, InUse
  <2> QED
    BY <1>4, <2>1, <2>2 DEF ShareInv, Kin, IsRead
<1> QED
  BY <1>2, <1>3, <1>4 DEF ShareInv

\* What Join does, seen from the jobs: one of them may get a higher priority.
LEMMA JoinEffect ==
    ASSUME BrokerAssumption, BInv,
           NEW c \in Callers, NEW key \in Reads, NEW prio \in Priorities,
           Join(c, key, prio)
    PROVE  /\ UNCHANGED <<queued, flights, closed, cooldown, workerVars>>
           /\ \E j \in Jobs :
                 /\ on' = [on EXCEPT ![c] = j] /\ on[c] = None
                 /\ IsRead(j) /\ InUse(j)
           /\ \A i \in Jobs :
                 /\ InUse(i)' <=> InUse(i)
                 /\ job'[i].fut = job[i].fut
                 /\ InUse(i) => /\ job'[i].req = job[i].req /\ job'[i].own = job[i].own
                                /\ job'[i].prio = Background => job[i].prio = Background
<1>1. PICK j \in Flight(key) :
         /\ on' = [on EXCEPT ![c] = j]
         /\ job' = [job EXCEPT ![j].prio = Smaller(@, prio)]
  BY DEF Join
<1>2. j \in Jobs /\ job[j].fut = "pending" /\ job[j] \in JobRecord /\ job[j].req = key
  BY <1>1, JobTypes DEF Flight, BInv, TypeOK
<1>3. Smaller(job[j].prio, prio) = Background => job[j].prio = Background
  <2>1. job[j].prio \in 0..2 /\ prio \in 0..2
    BY <1>2 DEF JobRecord, BrokerAssumption
  <2> QED
    BY <2>1 DEF Smaller, Background
<1>4. /\ job'[j].fut = job[j].fut /\ job'[j].req = job[j].req /\ job'[j].own = job[j].own
      /\ job'[j].prio = Smaller(job[j].prio, prio)
  BY <1>1, <1>2 DEF JobRecord, BInv, TypeOK
<1>5. \A i \in Jobs : i # j => job'[i] = job[i]
  BY <1>1 DEF BInv, TypeOK
<1>6. InUse(j) /\ InUse(j)'
  BY <1>2, <1>4, JobTypes DEF InUse
<1> QED
  BY <1>1, <1>2, <1>3, <1>4, <1>5, <1>6 DEF Join, MayEnter, IsRead, InUse

\* What Submit does: a job that was not in use enters the queue.
LEMMA SubmitEffect ==
    ASSUME BrokerAssumption, BInv,
           NEW c \in Callers, NEW req \in Requests, NEW prio \in Priorities,
           Submit(c, req, prio)
    PROVE  \E j \in Jobs :
              /\ ~InUse(j) /\ j \notin Pending
              /\ on[c] = None /\ on' = [on EXCEPT ![c] = j]
              /\ queued' = queued \cup {j} /\ flights' = Register(j, req)
              /\ Pending' = Pending \cup {j}
              /\ job'[j].req = req /\ job'[j].prio = prio /\ job'[j].own
              /\ job'[j].fut = "pending" /\ job'[j] # Unused
              /\ \A i \in Jobs \ {j} : job'[i] = job[i]
              /\ ~closed /\ UNCHANGED <<closed, active, task, cancelling, cooldown>>
<1> DEFINE new == [req |-> req, prio |-> prio, fut |-> "pending", own |-> TRUE,
                   before |-> queued]
<1>1. PICK j \in Jobs :
         /\ ~InUse(j)
         /\ on' = [on EXCEPT ![c] = j]
         /\ job' = [job EXCEPT ![j] = new]
         /\ queued' = queued \cup {j}
         /\ flights' = Register(j, req)
  BY DEF Submit
<1>2. new # Unused
  BY DEF Unused
<1>3. job'[j] = new /\ \A i \in Jobs \ {j} : job'[i] = job[i]
  BY <1>1 DEF BInv, TypeOK
<1>4. j \notin Pending
  BY <1>1, PendingInUse
<1>5. /\ ~closed /\ UNCHANGED <<closed, active, task, cancelling, cooldown>>
      /\ on[c] = None
  BY DEF Submit, MayEnter
<1>6. Pending' = Pending \cup {j}
  BY <1>1, <1>5 DEF Pending
<1>7. /\ job'[j].req = req /\ job'[j].prio = prio /\ job'[j].own
      /\ job'[j].fut = "pending" /\ job'[j] # Unused
  BY <1>2, <1>3
<1> HIDE DEF new
<1> QED
  BY <1>1, <1>3, <1>4, <1>5, <1>6, <1>7

LEMMA JoinShares ==
    ASSUME BrokerAssumption, BInv, BInv', ShareInv,
           NEW c \in Callers, NEW key \in Reads, NEW prio \in Priorities,
           Join(c, key, prio)
    PROVE  ShareInv'
<1>1. PICK j \in Jobs :
         on' = [on EXCEPT ![c] = j] /\ on[c] = None /\ IsRead(j) /\ InUse(j)
  BY JoinEffect
<1>2. Pending' = Pending /\ flights' = flights
  BY JoinEffect DEF Pending, workerVars
<1>3. \A i \in Jobs :
         /\ job'[i].fut = job[i].fut
         /\ InUse(i) => job'[i].req = job[i].req /\ job'[i].own = job[i].own
  BY JoinEffect
<1>4. \A d \in Callers : on'[d] = IF d = c THEN j ELSE on[d]
  BY <1>1 DEF BInv, TypeOK
<1>5. ASSUME NEW d \in Callers, NEW e \in Callers, on'[d] # None, on'[d] = on'[e], ~IsRead(on[d])'
      PROVE  d = e
  <2>1. IsRead(j)'
    <3>1. job'[j].req = job[j].req
      BY <1>1, <1>3
    <3> QED
      BY <1>1, <3>1 DEF IsRead
  <2>2. on'[d] # j /\ d # c /\ e # c
    BY <1>4, <1>5, <2>1
  <2>3. on[d] \in Jobs /\ InUse(on[d]) /\ on[d] # None /\ on[d] = on[e]
    BY <1>4, <1>5, <2>2 DEF BInv, TypeOK, ServiceInv
  <2>4. ~IsRead(on[d])
    <3>1. job'[on[d]].req = job[on[d]].req /\ on'[d] = on[d]
      BY <1>3, <1>4, <2>2, <2>3
    <3> QED
      BY <1>5, <3>1 DEF IsRead
  <2> QED
    BY <2>3, <2>4 DEF ShareInv
<1>6. \A i \in Pending :
         job'[i].fut = job[i].fut /\ job'[i].own = job[i].own /\ job'[i].req = job[i].req
  BY <1>3, PendingInUse
<1> QED
  BY <1>2, <1>5, <1>6 DEF ShareInv, IsRead

LEMMA SubmitShares ==
    ASSUME BrokerAssumption, BInv, ShareInv,
           NEW c \in Callers, NEW req \in Requests, NEW prio \in Priorities,
           Submit(c, req, prio)
    PROVE  ShareInv'
<1>1. PICK j \in Jobs :
         /\ ~InUse(j) /\ j \notin Pending
         /\ on[c] = None /\ on' = [on EXCEPT ![c] = j]
         /\ queued' = queued \cup {j} /\ flights' = Register(j, req)
         /\ Pending' = Pending \cup {j}
         /\ job'[j].req = req /\ job'[j].prio = prio /\ job'[j].own
         /\ job'[j].fut = "pending" /\ job'[j] # Unused
         /\ \A i \in Jobs \ {j} : job'[i] = job[i]
         /\ ~closed /\ UNCHANGED <<closed, active, task, cancelling, cooldown>>
  BY SubmitEffect
<1>2. Flight(req) = {}
  BY DEF Submit
<1>3. \A i \in Pending : i \in Jobs \ {j} /\ job'[i] = job[i]
  BY <1>1, PendingInUse
<1>4. \A i \in Pending : ~(job[i].req = req /\ IsRead(i) /\ job[i].own /\ job[i].fut = "pending")
  BY <1>2 DEF Flight, ShareInv
<1>5. (\A i \in Pending : IsRead(i) /\ job[i].own /\ job[i].fut = "pending" => i \in flights)'
  <2>1. ASSUME NEW i \in Pending, IsRead(i)', job'[i].own, job'[i].fut = "pending"
        PROVE  i \in flights'
    BY <1>1, <1>3, <1>4, <2>1 DEF ShareInv, Register, IsRead
  <2>2. IsRead(j)' => j \in flights'
    BY <1>1 DEF Register, IsRead
  <2> QED
    BY <1>1, <2>1, <2>2
<1>6. (\A h, i \in Pending :
         /\ IsRead(h) /\ job[h].req = job[i].req
         /\ job[h].own /\ job[i].own
         /\ job[h].fut = "pending" /\ job[i].fut = "pending"
         => h = i)'
  BY <1>1, <1>3, <1>4 DEF ShareInv, IsRead
<1>7. \A d \in Callers : on'[d] = IF d = c THEN j ELSE on[d]
  BY <1>1 DEF BInv, TypeOK
<1>8. \A d \in Callers : on[d] # None => on[d] \in Jobs \ {j}
  BY <1>1 DEF BInv, TypeOK, ServiceInv
<1>9. (\A d, e \in Callers : on[d] # None /\ on[d] = on[e] /\ ~IsRead(on[d]) => d = e)'
  <2>1. ASSUME NEW d \in Callers, NEW e \in Callers, on'[d] # None, on'[d] = on'[e], ~IsRead(on[d])'
        PROVE  d = e
    <3>1. CASE d = c \/ e = c
      BY <1>7, <1>8, <2>1, <3>1
    <3>2. CASE d # c /\ e # c
      <4>1. on[d] # None /\ on[d] = on[e] /\ on'[d] = on[d] /\ job'[on[d]] = job[on[d]]
        BY <1>1, <1>7, <1>8, <2>1, <3>2
      <4> QED
        BY <2>1, <4>1 DEF ShareInv, IsRead
    <3> QED
      BY <3>1, <3>2
  <2> QED
    BY <2>1
<1> QED
  BY <1>5, <1>6, <1>9 DEF ShareInv

LEMMA ShareStep ==
    ASSUME BrokerAssumption, BInv, BInv', ShareInv, [Next]_vars
    PROVE  ShareInv'
<1>1. ASSUME NEW c \in Callers, Enter(c) PROVE ShareInv'
  BY <1>1, JoinShares, SubmitShares DEF Enter
<1>2. ASSUME Narrows PROVE ShareInv'
  BY <1>2, NarrowsShare
<1> QED
  BY <1>1, <1>2, StepNarrows DEF Next

\* A read that is asked for while the same read is still to be answered joins it, and a command
\* is never shared, in every behaviour (_submit, its dictionary of flights and finally clause).
THEOREM ReadsCoalesce == Safe => []Coalescing
<1>1. Init => ShareInv
  BY DEF Init, ShareInv, Pending
<1>2. BInv /\ BInv' /\ ShareInv /\ [Next]_vars => ShareInv'
  BY ShareStep, BrokerAssumption
<1>3. BInv /\ ShareInv => Coalescing
  <2> SUFFICES ASSUME BInv, ShareInv, NEW j \in Jobs, InUse(j), ~IsRead(j)
               PROVE  Cardinality(Waiting(j)) <= 1
    BY DEF ShareInv, Coalescing
  <2>1. CASE Waiting(j) = {}
    BY <2>1, FS_EmptySet
  <2>2. CASE Waiting(j) # {}
    <3>1. PICK c \in Callers : on[c] = j
      BY <2>2 DEF Waiting
    <3>2. Waiting(j) = {c}
      BY <3>1, BrokerAssumption DEF Waiting, ShareInv, BrokerAssumption
    <3> QED
      BY <3>2, FS_Singleton
  <2> QED
    BY <2>1, <2>2
<1>4. BInv <=> TypeOK /\ ServiceInv
  BY DEF BInv
<1> QED
  BY <1>1, <1>2, <1>3, <1>4, TypeAndService, PTL DEF Safe

-----------------------------------------------------------------------------
(***************************************************************************)
(* Admission.                                                              *)
(***************************************************************************)
\* A part of the pending jobs is no larger than what it is part of.
LEMMA PendingFinite ==
    ASSUME BrokerAssumption, BInv
    PROVE  IsFiniteSet(Pending)
<1>1. Pending \in SUBSET Jobs /\ IsFiniteSet(Jobs)
  BY DEF Pending, BInv, TypeOK, BrokerAssumption
<1> QED
  BY <1>1, FS_Subset

LEMMA PartSmaller ==
    ASSUME NEW S, NEW T, IsFiniteSet(S), T \subseteq S, NEW n \in Nat, Cardinality(S) <= n
    PROVE  IsFiniteSet(T) /\ Cardinality(T) <= n
<1>1. IsFiniteSet(T) /\ Cardinality(T) <= Cardinality(S)
  BY FS_Subset
<1>2. Cardinality(T) \in Nat /\ Cardinality(S) \in Nat
  BY <1>1, FS_CardinalityType
<1> QED
  BY <1>1, <1>2

LEMMA LimitTypes ==
    ASSUME BrokerAssumption
    PROVE  MaxPending \in Nat /\ ReadLimit \in Nat /\ CommandLimit \in Nat /\ Larger(1, ReadLimit - 2) \in Nat
<1>1. MaxPending \in Nat \ {0}
  BY DEF BrokerAssumption
<1>2. MaxPending \div 4 \in Nat
  BY <1>1
<1>3. ReadLimit \in Nat
  BY <1>1, <1>2 DEF ReadLimit, Larger, Smaller
<1> QED
  BY <1>1, <1>3 DEF CommandLimit, Larger, Smaller

\* A step after which every part has only jobs it had before.
LEMMA BoundsShrink ==
    ASSUME BrokerAssumption, BInv, AdmissionBounds,
           Pending' \subseteq Pending,
           \A j \in Pending' :
               /\ job'[j].req = job[j].req
               /\ job'[j].prio = Background => job[j].prio = Background
    PROVE  AdmissionBounds'
<1>1. IsFiniteSet(Pending)
  BY PendingFinite
<1>2. ASSUME NEW S \in SUBSET Pending, NEW T \in SUBSET S, NEW n \in Nat, Cardinality(S) <= n
      PROVE  Cardinality(T) <= n
  <2>1. IsFiniteSet(S)
    BY <1>1, FS_Subset
  <2> QED
    BY <1>2, <2>1, PartSmaller
<1>3. /\ {j \in Pending : IsRead(j)}' \subseteq {j \in Pending : IsRead(j)}
      /\ {j \in Pending : ~IsRead(j)}' \subseteq {j \in Pending : ~IsRead(j)}
      /\ {j \in Pending : IsRead(j) /\ job[j].prio = Background}'
            \subseteq {j \in Pending : IsRead(j) /\ job[j].prio = Background}
  BY BrokerAssumption DEF IsRead
<1>4. Cardinality(Pending') <= MaxPending
  BY <1>2, LimitTypes DEF AdmissionBounds
<1>5. Cardinality({j \in Pending : IsRead(j)}') <= ReadLimit
  BY <1>2, <1>3, LimitTypes DEF AdmissionBounds
<1>6. Cardinality({j \in Pending : ~IsRead(j)}') <= CommandLimit
  BY <1>2, <1>3, LimitTypes DEF AdmissionBounds
<1>7. Cardinality({j \in Pending : IsRead(j) /\ job[j].prio = Background}') <= Larger(1, ReadLimit - 2)
  BY <1>2, <1>3, LimitTypes DEF AdmissionBounds
<1> QED
  BY <1>4, <1>5, <1>6, <1>7 DEF AdmissionBounds

LEMMA SubmitBounds ==
    ASSUME BrokerAssumption, BInv, AdmissionBounds,
           NEW c \in Callers, NEW req \in Requests, NEW prio \in Priorities,
           Submit(c, req, prio)
    PROVE  AdmissionBounds'
<1>1. PICK j \in Jobs :
         /\ ~InUse(j) /\ j \notin Pending
         /\ on[c] = None /\ on' = [on EXCEPT ![c] = j]
         /\ queued' = queued \cup {j} /\ flights' = Register(j, req)
         /\ Pending' = Pending \cup {j}
         /\ job'[j].req = req /\ job'[j].prio = prio /\ job'[j].own
         /\ job'[j].fut = "pending" /\ job'[j] # Unused
         /\ \A i \in Jobs \ {j} : job'[i] = job[i]
         /\ ~closed /\ UNCHANGED <<closed, active, task, cancelling, cooldown>>
  BY SubmitEffect
<1>2. \A i \in Pending : i # j /\ job'[i] = job[i]
  BY <1>1, PendingInUse
<1>3. IsFiniteSet(Pending)
  BY PendingFinite
<1> DEFINE reads == {i \in Pending : IsRead(i)}
           others == {i \in Pending : ~IsRead(i)}
           late == {i \in Pending : IsRead(i) /\ job[i].prio = Background}
<1>4. ASSUME NEW S \in SUBSET Pending, NEW T, T \subseteq S \cup {j}, NEW n \in Nat, Cardinality(S) < n
      PROVE  Cardinality(T) <= n
  <2>1. IsFiniteSet(S) /\ IsFiniteSet(S \cup {j}) /\ Cardinality(S \cup {j}) <= Cardinality(S) + 1
    BY SMTT(30), <1>3, FS_Subset, FS_AddElement, FS_CardinalityType
  <2>2. Cardinality(S \cup {j}) <= n
    BY <1>4, <2>1, FS_CardinalityType
  <2> QED
    BY <1>4, <2>1, <2>2, PartSmaller
<1>5. Cardinality(Pending) < MaxPending /\ Cardinality(SameBudget(req)) < Limit(req, prio)
  BY DEF Submit
<1>6. Cardinality(Pending') <= MaxPending
  BY <1>1, <1>4, <1>5, LimitTypes
<1>7. reads' = reads \cup (IF req \in Reads THEN {j} ELSE {})
  BY <1>1, <1>2 DEF IsRead
<1>8. others' = others \cup (IF req \in Reads THEN {} ELSE {j})
  BY <1>1, <1>2 DEF IsRead
<1>9. late' = late \cup (IF req \in Reads /\ prio = Background THEN {j} ELSE {})
  BY <1>1, <1>2 DEF IsRead
<1>10. CASE req \in Reads
  <2>1. SameBudget(req) = reads /\ req \notin Commands
    BY <1>10 DEF SameBudget, IsRead, BrokerAssumption
  <2>2. Limit(req, prio) <= ReadLimit /\ Limit(req, prio) \in Nat
    BY <2>1, LimitTypes, BrokerAssumption DEF Limit, Larger, ReadLimit, Smaller, BrokerAssumption
  <2>3. Cardinality(reads) < ReadLimit
    <3>1. Cardinality(reads) \in Nat
      BY <1>3, FS_Subset, FS_CardinalityType
    <3> QED
      BY <1>5, <2>1, <2>2, <3>1, LimitTypes
  <2>4. Cardinality(reads') <= ReadLimit
    BY <1>4, <1>7, <1>10, <2>3, LimitTypes
  <2>5. Cardinality(others') <= CommandLimit
    BY <1>8, <1>10 DEF AdmissionBounds
  <2>6. Cardinality(late') <= Larger(1, ReadLimit - 2)
    <3>1. CASE prio = Background
      <4>1. Cardinality(reads) < Larger(1, ReadLimit - 2)
        BY <1>5, <2>1, <3>1 DEF Limit
      <4>2. late' \subseteq reads \cup {j}
        BY <1>9
      <4> QED
        BY <1>4, <4>1, <4>2, LimitTypes
    <3>2. CASE prio # Background
      BY <1>9, <3>2 DEF AdmissionBounds
    <3> QED
      BY <3>1, <3>2
  <2> QED
    BY <1>6, <2>4, <2>5, <2>6 DEF AdmissionBounds
<1>11. CASE req \notin Reads
  <2>1. SameBudget(req) = others /\ req \in Commands
    BY <1>11 DEF SameBudget, IsRead, Requests
  <2>2. Cardinality(others) < CommandLimit
    BY <1>5, <2>1 DEF Limit
  <2>3. Cardinality(others') <= CommandLimit
    BY <1>4, <1>8, <1>11, <2>2, LimitTypes
  <2>4. reads' = reads /\ late' = late
    BY <1>7, <1>9, <1>11
  <2> QED
    BY <1>6, <2>3, <2>4 DEF AdmissionBounds
<1> QED
  BY <1>10, <1>11

LEMMA BoundsStep ==
    ASSUME BrokerAssumption, BInv, BInv', AdmissionBounds, [Next]_vars
    PROVE  AdmissionBounds'
<1>1. ASSUME NEW c \in Callers, NEW key \in Reads, NEW prio \in Priorities, Join(c, key, prio)
      PROVE  AdmissionBounds'
  <2>1. Pending' = Pending
    BY <1>1, JoinEffect DEF Pending, workerVars
  <2>2. \A j \in Pending' :
            /\ job'[j].req = job[j].req
            /\ job'[j].prio = Background => job[j].prio = Background
    BY <1>1, <2>1, JoinEffect, PendingInUse
  <2> QED
    BY <2>1, <2>2, BoundsShrink
<1>2. ASSUME NEW c \in Callers, Enter(c)
      PROVE  AdmissionBounds'
  BY <1>1, <1>2, SubmitBounds DEF Enter
<1>3. ASSUME Narrows PROVE AdmissionBounds'
  <2>1. \A j \in Pending' : j \in Jobs /\ job'[j] # Unused
    BY DEF Pending, BInv, TypeOK, ServiceInv, InUse, BrokerAssumption
  <2>2. \A j \in Pending' :
            /\ job'[j].req = job[j].req
            /\ job'[j].prio = Background => job[j].prio = Background
    BY <1>3, <2>1 DEF Narrows, Kin
  <2> QED
    BY <1>3, <2>2, BoundsShrink DEF Narrows
<1> QED
  BY <1>2, <1>3, StepNarrows DEF Next

\* Neither reads nor background reads ever take the places kept for others, whatever entered,
\* left, joined with another priority or was answered before (_submit and its limits).
THEOREM AdmissionIsBounded == Safe => []AdmissionBounds
<1>1. Init => AdmissionBounds
  <2> SUFFICES ASSUME Init PROVE AdmissionBounds
    OBVIOUS
  <2>1. Pending = {}
    BY DEF Init, Pending
  <2>2. Cardinality({}) = 0
    BY FS_EmptySet
  <2>3. /\ {j \in Pending : IsRead(j)} = {} /\ {j \in Pending : ~IsRead(j)} = {}
        /\ {j \in Pending : IsRead(j) /\ job[j].prio = Background} = {}
    BY <2>1
  <2> QED
    BY <2>1, <2>2, <2>3, LimitTypes, BrokerAssumption DEF AdmissionBounds
<1>2. BInv /\ BInv' /\ AdmissionBounds /\ [Next]_vars => AdmissionBounds'
  BY BoundsStep, BrokerAssumption
<1>3. BInv <=> TypeOK /\ ServiceInv
  BY DEF BInv
<1> QED
  BY <1>1, <1>2, <1>3, TypeAndService, PTL DEF Safe

-----------------------------------------------------------------------------
(***************************************************************************)
(* Cancellation, the wire and the cooldown.                                *)
(***************************************************************************)
\* Somebody waits for job j, which is still to be answered.
Held(j) == job[j].fut = "pending" /\ \E c \in Callers : on[c] = j

\* What is queued is held, and what is at the gate or on the wire too, unless its task is being
\* cancelled; a cancelled task and a failed one tell what they found.
WarrantInv ==
    /\ \A j \in queued : closed \/ Held(j)
    /\ task.stage \in {"gate", "wire"} => cancelling \/ Held(active)
    /\ task.stage = "done" /\ task.kind = "cancelled" => job[active].fut # "pending"
    /\ task.stage = "wire" \/ (task.stage = "done" /\ task.kind \in Failures) => cooldown = 0

\* A future is cancelled only by closing, or when nobody waits for it any more.
Survives ==
    \A j \in Jobs :
       /\ InUse(j) /\ job[j].fut = "pending"
       /\ job'[j] # Unused /\ job'[j].fut = "cancelled"
       => closed' \/ \A c \in Callers : on'[c] # j

CooldownShrinks == cooldown > 0 => cooldown' <= cooldown

LEMMA StageTypes ==
    ASSUME BInv
    PROVE  /\ NoTask.stage = "none"
           /\ task.stage \in {"gate", "wire", "done"} => active \in Jobs /\ active # None /\ worker = "awaiting"
           /\ task.stage = "done" => task.kind \in Endings /\ task.retry \in 0..MaxRetry
<1>1. NoTask.stage = "none"
  BY DEF NoTask
<1>2. task.stage \in {"gate", "wire", "done"} => task # NoTask
  BY DEF NoTask
<1> QED
  BY <1>1, <1>2 DEF BInv, TypeOK, ServiceInv, TaskRecord

LEMMA EnterWarrants ==
    ASSUME BrokerAssumption, BInv, BInv', WarrantInv, NEW c \in Callers, Enter(c)
    PROVE  WarrantInv' /\ Survives /\ CooldownShrinks
<1>1. CASE \E key \in Reads, prio \in Priorities : Join(c, key, prio)
  <2>1. PICK key \in Reads, prio \in Priorities : Join(c, key, prio)
    BY <1>1
  <2>2. UNCHANGED <<queued, closed, cooldown, active, task, cancelling>>
    BY <2>1, JoinEffect DEF workerVars
  <2>3. \A i \in Jobs : job'[i].fut = job[i].fut
    BY <2>1, JoinEffect
  <2>4. \A i \in Jobs : Held(i) => Held(i)'
    <3>1. PICK j \in Jobs : on' = [on EXCEPT ![c] = j] /\ on[c] = None
      BY <2>1, JoinEffect
    <3>2. \A i \in Jobs, d \in Callers : on[d] = i => on'[d] = i
      BY <3>1 DEF BInv, TypeOK, BrokerAssumption
    <3> QED
      BY <2>3, <3>2 DEF Held
  <2>5. \A i \in queued : i \in Jobs
    BY DEF BInv, TypeOK
  <2>6. WarrantInv'
    BY <2>2, <2>3, <2>4, <2>5, StageTypes DEF WarrantInv
  <2>7. cooldown' = cooldown /\ cooldown \in Int
    BY <2>2 DEF BInv, TypeOK, BrokerAssumption, Larger
  <2> QED
    BY <2>3, <2>6, <2>7 DEF Survives, CooldownShrinks
<1>2. CASE \E req \in Requests, prio \in Priorities : Submit(c, req, prio)
  <2>1. PICK req \in Requests, prio \in Priorities : Submit(c, req, prio)
    BY <1>2
  <2>2. PICK j \in Jobs :
           /\ ~InUse(j) /\ j \notin Pending
           /\ on[c] = None /\ on' = [on EXCEPT ![c] = j]
           /\ queued' = queued \cup {j}
           /\ job'[j].fut = "pending"
           /\ \A i \in Jobs \ {j} : job'[i] = job[i]
           /\ UNCHANGED <<closed, active, task, cancelling, cooldown>>
    BY <2>1, SubmitEffect
  <2>3. \A i \in Jobs, d \in Callers : on[d] = i => on'[d] = i
    BY <2>2 DEF BInv, TypeOK, BrokerAssumption
  <2>4. on'[c] = j
    BY <2>2 DEF BInv, TypeOK
  <2>5. Held(j)' /\ \A i \in Jobs \ {j} : Held(i) => Held(i)'
    BY <2>2, <2>3, <2>4 DEF Held
  <2>6. queued \subseteq Jobs \ {j} /\ active # j
    BY <2>2 DEF BInv, TypeOK, Pending, BrokerAssumption
  <2>7. WarrantInv'
    <3>1. (\A i \in queued : closed \/ Held(i))'
      BY <2>2, <2>5, <2>6 DEF WarrantInv
    <3>2. (task.stage \in {"gate", "wire"} => cancelling \/ Held(active))'
      BY <2>2, <2>5, <2>6, StageTypes DEF WarrantInv
    <3>3. (task.stage = "done" /\ task.kind = "cancelled" => job[active].fut # "pending")'
      BY <2>2, <2>6, StageTypes DEF WarrantInv
    <3> QED
      BY <2>2, <3>1, <3>2, <3>3 DEF WarrantInv
  <2>8. cooldown' = cooldown /\ cooldown \in Int
    BY <2>2 DEF BInv, TypeOK, BrokerAssumption, Larger
  <2> QED
    BY <2>2, <2>7, <2>8 DEF Survives, CooldownShrinks
<1> QED
  BY <1>1, <1>2 DEF Enter

LEMMA LeaveWarrants ==
    ASSUME BrokerAssumption, BInv, BInv', WarrantInv, NEW c \in Callers, Leave(c)
    PROVE  WarrantInv' /\ Survives /\ CooldownShrinks
<1> DEFINE j       == on[c]
           left    == IF Abandons(c) THEN queued \ {j} ELSE queued
           marked  == IF Abandons(c) THEN [job EXCEPT ![j].fut = "cancelled"] ELSE job
           waiting == {i \in Jobs : \E d \in Callers : [on EXCEPT ![c] = None][d] = i}
<1>1. j \in Jobs /\ InUse(j) /\ job[j] \in JobRecord
  BY DEF Leave, BInv, TypeOK, ServiceInv, InUse
<1>2. /\ on' = [on EXCEPT ![c] = None] /\ queued' = left
      /\ cancelling' = (cancelling \/ (Abandons(c) /\ active = j /\ task.stage # "done"))
      /\ UNCHANGED <<closed, active, task, cooldown>>
      /\ job' = Collect(marked, left \cup {active}, waiting)
  BY DEF Leave
<1>3. /\ marked \in Table
      /\ marked[j].fut = IF Abandons(c) THEN "cancelled" ELSE job[j].fut
      /\ \A i \in Jobs : i # j => marked[i] = job[i]
  <2>1. /\ [job[j] EXCEPT !.fut = "cancelled"] \in JobRecord
        /\ [job[j] EXCEPT !.fut = "cancelled"].fut = "cancelled"
    BY <1>1 DEF JobRecord, Futures
  <2> QED
    BY <1>1, <2>1 DEF Table, BInv, TypeOK
<1>4. left \subseteq queued /\ left = IF Abandons(c) THEN queued \ {j} ELSE queued
  OBVIOUS
<1>5. \A d \in Callers : on'[d] = IF d = c THEN None ELSE on[d]
  BY <1>2 DEF BInv, TypeOK
<1> HIDE DEF marked, left, waiting
<1>6. \A i \in Jobs : job'[i] # Unused => job'[i].fut = marked[i].fut
  BY <1>2, <1>3, CollectKin
<1>7. Narrows
  BY LeaveNarrows
<1>8. ASSUME NEW i \in Jobs, Held(i), ~(i = j /\ Abandons(c)), InUse(i)'
      PROVE  Held(i)'
  <2>1. job'[i].fut = "pending"
    BY <1>3, <1>6, <1>8 DEF Held, InUse
  <2>2. \E d \in Callers : d # c /\ on[d] = i
    BY <1>8 DEF Held, Abandons, Waiting
  <2>3. \E d \in Callers : on'[d] = i
    BY <1>5, <2>2
  <2> QED
    BY <2>1, <2>3 DEF Held
<1>9. \A i \in queued' : i \in Jobs /\ InUse(i)' /\ i \in queued /\ ~(i = j /\ Abandons(c))
  BY <1>2, <1>4 DEF BInv, TypeOK, ServiceInv
<1>10. (\A i \in queued : closed \/ Held(i))'
  BY <1>2, <1>8, <1>9 DEF WarrantInv
<1>11. (task.stage \in {"gate", "wire"} => cancelling \/ Held(active))'
  <2>1. active # None => InUse(active)'
    BY <1>2 DEF BInv, ServiceInv
  <2> QED
    BY <1>2, <1>8, <2>1, StageTypes DEF WarrantInv
<1>12. (task.stage = "done" /\ task.kind = "cancelled" => job[active].fut # "pending")'
  <2>1. active # None => job'[active] # Unused
    BY <1>2 DEF BInv, ServiceInv, InUse
  <2> QED
    BY <1>2, <1>7, <2>1, StageTypes DEF WarrantInv, Narrows, Kin
<1>13. WarrantInv'
  BY <1>2, <1>10, <1>11, <1>12 DEF WarrantInv
<1>14. Survives
  <2> SUFFICES ASSUME NEW i \in Jobs, job[i].fut = "pending", job'[i] # Unused, job'[i].fut = "cancelled"
               PROVE  \A d \in Callers : on'[d] # i
    BY DEF Survives
  <2>1. marked[i].fut = "cancelled"
    BY <1>6
  <2>2. i = j /\ Abandons(c)
    BY <1>3, <2>1
  <2> QED
    BY <1>1, <1>5, <2>2 DEF Abandons, Waiting, BrokerAssumption
<1>15. CooldownShrinks
  BY <1>2 DEF CooldownShrinks, BInv, TypeOK, Larger, BrokerAssumption
<1> QED
  BY <1>13, <1>14, <1>15

\* The worker's way to its next await; jobs is the table its answer has left.
LEMMA ContinueWarrants ==
    ASSUME BrokerAssumption, BInv, WarrantInv, NEW jobs \in Table,
           \A j \in queued : InUse(j) => jobs[j] # Unused /\ jobs[j].fut = job[j].fut,
           Continue(jobs), UNCHANGED <<on, closed>>
    PROVE  /\ \A j \in queued' : closed' \/ Held(j)'
           /\ task' \in {NoTask, [stage |-> "gate"]}
           /\ task' # NoTask => Held(active)'
<1>1. CASE closed \/ queued = {}
  <2>1. WorkerEnds(jobs)
    BY <1>1 DEF Continue
  <2>2. task' = NoTask /\ queued' = Kept(queued)
    BY <2>1 DEF WorkerEnds
  <2>3. Kept(queued) = {}
    BY <1>1 DEF Kept
  <2> QED
    BY <2>2, <2>3
<1>2. CASE ~(closed \/ queued = {})
  <2>1. PICK j \in queued : Dispatch(j, jobs)
    BY <1>2 DEF Continue
  <2>2. /\ queued' = queued \ {j} /\ active' = j /\ task' = [stage |-> "gate"]
        /\ job' = Collect(jobs, queued, {i \in Jobs : Waiting(i) # {}})
    BY <2>1 DEF Dispatch
  <2>3. ASSUME NEW i \in queued
        PROVE  Held(i)'
    <3>1. Held(i) /\ i \in Jobs /\ InUse(i)
      BY <1>2 DEF WarrantInv, BInv, TypeOK, ServiceInv
    <3>2. jobs[i] # Unused /\ jobs[i].fut = "pending"
      BY <3>1 DEF Held
    <3>3. job'[i] # Unused
      <4>1. /\ queued \in SUBSET (Jobs \cup {None})
            /\ {k \in Jobs : Waiting(k) # {}} \in SUBSET Jobs
        BY DEF BInv, TypeOK
      <4>2. Remains(job', jobs, queued, {k \in Jobs : Waiting(k) # {}})
        BY <2>2, <4>1, CollectKeeps
      <4> QED
        BY <3>1, <3>2, <4>2 DEF Remains
    <3>4. job'[i].fut = "pending"
      BY <2>2, <3>1, <3>2, <3>3, CollectKin
    <3> QED
      BY <3>1, <3>4 DEF Held
  <2> QED
    BY <2>2, <2>3
<1> QED
  BY <1>1, <1>2

LEMMA WorkerWarrants ==
    ASSUME BrokerAssumption, BInv, BInv', WarrantInv, WorkerStart \/ WorkerSettles
    PROVE  WarrantInv' /\ Survives /\ CooldownShrinks
<1> DEFINE waiting == {i \in Jobs : Waiting(i) # {}}
<1>1. PICK jobs \in Table :
         /\ Continue(jobs)
         /\ \A j \in Jobs : InUse(j) => jobs[j] # Unused
         /\ \A j \in queued : jobs[j].fut = job[j].fut
         /\ \A j \in Jobs : job[j].fut = "pending" /\ jobs[j].fut = "cancelled"
               => worker = "awaiting" /\ task.stage = "done" /\ j = active /\ (closed \/ task.kind = "cancelled")
  <2>1. CASE WorkerStart
    <3>1. Continue(job) /\ job \in Table
      BY <2>1 DEF WorkerStart, BInv, TypeOK, Table
    <3> QED
      BY <3>1 DEF InUse
  <2>2. CASE WorkerSettles
    <3>1. worker = "awaiting" /\ task.stage = "done"
      BY <2>2 DEF WorkerSettles
    <3>2. \A j \in queued : j \in Jobs \ {active}
      BY <3>1 DEF BInv, TypeOK, ServiceInv
    <3> QED
      BY <2>2, <3>1, <3>2, SettledTable
  <2> QED
    BY <2>1, <2>2
<1>2. UNCHANGED <<on, closed>>
  BY DEF WorkerStart, WorkerSettles
<1>3. /\ \A j \in queued' : closed' \/ Held(j)'
      /\ task' \in {NoTask, [stage |-> "gate"]}
      /\ task' # NoTask => Held(active)'
  <2>1. \A j \in queued : InUse(j) => jobs[j] # Unused /\ jobs[j].fut = job[j].fut
    BY <1>1 DEF BInv, TypeOK
  <2> QED
    BY <1>1, <1>2, <2>1, ContinueWarrants
<1>4. WarrantInv'
  BY <1>3, StageTypes DEF WarrantInv
<1>5. Survives
  <2> SUFFICES ASSUME NEW j \in Jobs, InUse(j), job[j].fut = "pending", job'[j] # Unused,
                      job'[j].fut = "cancelled", ~closed
               PROVE  FALSE
    BY <1>2 DEF Survives
  <2>1. job' = Collect(jobs, Kept(queued), waiting) \/ job' = Collect(jobs, queued, waiting)
    BY <1>1 DEF Continue, WorkerEnds, Dispatch
  <2>2. jobs[j].fut = "cancelled"
    BY <2>1, CollectKin
  <2>3. task.stage = "done" /\ task.kind = "cancelled" /\ j = active
    BY <1>1, <2>2
  <2> QED
    BY <2>3 DEF WarrantInv
<1>6. CooldownShrinks
  <2>1. cooldown \in Nat
    BY DEF BInv, TypeOK, BrokerAssumption, Larger
  <2>2. CASE WorkerStart
    BY <2>1, <2>2 DEF WorkerStart, CooldownShrinks
  <2>3. CASE WorkerSettles
    <3> SUFFICES ASSUME cooldown > 0 PROVE cooldown' = cooldown
      BY <2>1 DEF CooldownShrinks
    <3>1. task.stage = "done" /\ ~(task.kind \in Failures)
      BY <2>1, <2>3 DEF WorkerSettles, WarrantInv
    <3> QED
      BY <2>3, <3>1 DEF WorkerSettles, Failures
  <2> QED
    BY <2>2, <2>3
<1> QED
  BY <1>4, <1>5, <1>6

LEMMA TaskWarrants ==
    ASSUME BrokerAssumption, BInv, BInv', WarrantInv, TaskStep
    PROVE  WarrantInv' /\ Survives /\ CooldownShrinks
<1>1. /\ UNCHANGED <<on, job, queued, active, cancelling, closed, cooldown>>
      /\ task.stage \in {"gate", "wire"}
      /\ \/ ~cancelling /\ task' = [stage |-> "wire"] /\ cooldown = 0
         \/ \E kind \in Endings, retry \in 0..MaxRetry :
               /\ task' = Done(kind, retry)
               /\ kind \in Failures => cooldown = 0
               /\ kind = "cancelled" => cancelling
  <2>1. CASE AcquireGate
    <3>1. ~cancelling /\ task' = Admission
      BY <2>1 DEF AcquireGate, AtGate
    <3>2. cooldown = 0 \/ cooldown > 0
      BY DEF BInv, TypeOK, BrokerAssumption, Larger
    <3>3. 0 \in 0..MaxRetry
      BY TaskTypes
    <3> QED
      BY <2>1, <3>1, <3>2, <3>3 DEF AcquireGate, AtGate, Admission, Endings, Failures
  <2>2. CASE OperationReturns
    <3>1. 0 \in 0..MaxRetry
      BY TaskTypes
    <3> QED
      BY <2>2, <3>1 DEF OperationReturns, Endings, Failures
  <2>3. CASE \E kind \in Failures, retry \in 0..MaxRetry : OperationRaises(kind, retry)
    BY <2>3 DEF OperationRaises, Endings, Failures, WarrantInv
  <2>4. CASE TaskCancelled
    <3>1. 0 \in 0..MaxRetry
      BY TaskTypes
    <3> QED
      BY <2>4, <3>1 DEF TaskCancelled, Endings, Failures
  <2> QED
    BY <2>1, <2>2, <2>3, <2>4 DEF TaskStep
<1>2. \A i : Held(i)' <=> Held(i)
  BY <1>1 DEF Held
<1>3. (\A i \in queued : closed \/ Held(i))'
  BY <1>1, <1>2 DEF WarrantInv
<1>4. /\ (task.stage \in {"gate", "wire"} => cancelling \/ Held(active))'
      /\ (task.stage = "wire" \/ (task.stage = "done" /\ task.kind \in Failures) => cooldown = 0)'
  BY <1>1, <1>2 DEF WarrantInv, Done
<1>5. (task.stage = "done" /\ task.kind = "cancelled" => job[active].fut # "pending")'
  BY <1>1 DEF Done, BInv, ServiceInv
<1>6. cooldown \in Int
  BY DEF BInv, TypeOK, BrokerAssumption, Larger
<1> QED
  BY <1>1, <1>3, <1>4, <1>5, <1>6 DEF WarrantInv, Survives, CooldownShrinks

LEMMA CloseWarrants ==
    ASSUME BrokerAssumption, BInv, BInv', WarrantInv, Close
    PROVE  WarrantInv' /\ Survives /\ CooldownShrinks
<1>1. closed' /\ UNCHANGED <<active, task, cooldown>>
  BY DEF Close, BInv, ServiceInv
<1>2. task.stage \in {"gate", "wire"} => cancelling'
  BY StageTypes DEF Close
<1>3. (task.stage = "done" /\ task.kind = "cancelled" => job[active].fut # "pending")'
  <2>1. active # None => job'[active] # Unused
    BY <1>1 DEF BInv, ServiceInv, InUse
  <2> QED
    BY <1>1, <2>1, CloseNarrows, StageTypes DEF WarrantInv, Narrows, Kin
<1>4. cooldown \in Int
  BY DEF BInv, TypeOK, BrokerAssumption, Larger
<1> QED
  BY <1>1, <1>2, <1>3, <1>4 DEF WarrantInv, Survives, CooldownShrinks

LEMMA EnvironmentWarrants ==
    ASSUME BrokerAssumption, BInv, BInv', WarrantInv, Environment \/ UNCHANGED vars
    PROVE  WarrantInv' /\ Survives /\ CooldownShrinks
<1>1. cooldown \in Nat
  BY DEF BInv, TypeOK, BrokerAssumption, Larger
<1>2. /\ UNCHANGED <<on, queued, active, task, cancelling, closed>>
      /\ (cooldown' = cooldown \/ (cooldown > 0 /\ cooldown' = cooldown - 1))
      /\ \A j \in Jobs : job'[j].fut = job[j].fut
  <2>1. ASSUME NEW vs, OwnershipMoves(vs)
        PROVE  /\ UNCHANGED <<on, queued, active, task, cancelling, closed, cooldown>>
               /\ \A j \in Jobs : job'[j].fut = job[j].fut
    <3>1. ASSUME NEW j \in Jobs PROVE job'[j].fut = job[j].fut
      <4>1. ASSUME NEW r \in JobRecord PROVE [r EXCEPT !.own = FALSE].fut = r.fut
        BY <4>1 DEF JobRecord
      <4>2. \/ InUse(j) /\ job'[j] = [job[j] EXCEPT !.own = FALSE]
            \/ job'[j] = job[j]
        BY <2>1 DEF OwnershipMoves
      <4>3. CASE InUse(j) /\ job'[j] = [job[j] EXCEPT !.own = FALSE]
        <5>1. job[j] \in JobRecord
          BY <4>3, InUseRecord
        <5> QED
          BY <4>1, <4>3, <5>1
      <4> QED
        BY <4>2, <4>3
    <3> QED
      BY <2>1, <3>1 DEF OwnershipMoves, workerVars
  <2>2. CASE ForeignAcquires \/ ForeignReleases \/ Tick \/ (\E v \in Vehicles : PermitChanges(v)) \/ UNCHANGED vars
    BY <2>2 DEF ForeignAcquires, ForeignReleases, Tick, PermitChanges, workerVars, vars
  <2> QED
    BY <2>1, <2>2 DEF Environment
<1>3. \A i \in Jobs : Held(i)' <=> Held(i)
  BY <1>2 DEF Held
<1>4. queued \subseteq Jobs
  BY DEF BInv, TypeOK
<1>5. WarrantInv'
  BY <1>1, <1>2, <1>3, <1>4, StageTypes DEF WarrantInv
<1> QED
  BY <1>1, <1>2, <1>5 DEF Survives, CooldownShrinks

LEMMA WarrantStep ==
    ASSUME BrokerAssumption, BInv, BInv', WarrantInv, [Next]_vars
    PROVE  WarrantInv' /\ Survives /\ CooldownShrinks
BY EnterWarrants, LeaveWarrants, WorkerWarrants, TaskWarrants, CloseWarrants, EnvironmentWarrants DEF Next

LEMMA AlwaysWarranted == Safe => [](BInv /\ WarrantInv)
<1>1. Init => WarrantInv
  BY DEF Init, WarrantInv, NoTask
<1>2. BInv /\ BInv' /\ WarrantInv /\ [Next]_vars => WarrantInv'
  BY WarrantStep, BrokerAssumption
<1>3. BInv <=> TypeOK /\ ServiceInv
  BY DEF BInv
<1> QED
  BY <1>1, <1>2, <1>3, TypeAndService, PTL DEF Safe

\* Nothing is on the wire while the account cools down, and nobody's work is queued or sent for no
\* caller (_execute, and the finally clause of _submit).
THEOREM TheWireIsWarranted == Safe => []WireIsWarranted
<1>1. BInv /\ WarrantInv => WireIsWarranted
  BY DEF WarrantInv, Held, Waiting, WireIsWarranted, NoWireDuringCooldown, NoAbandonedWork
<1> QED
  BY <1>1, AlwaysWarranted, PTL

\* Cancelling one waiter cannot cancel other consumers, at whatever step of the worker, the task
\* or the closer it falls (the docstring of QueryBroker).
THEOREM SharedReadsSurvive == Safe => SharedReadSurvives
<1>1. BInv /\ BInv' /\ WarrantInv /\ [Next]_vars => [Survives]_vars
  BY WarrantStep, BrokerAssumption
<1>2. Survives <=>
        \A j \in Jobs :
          /\ InUse(j) /\ job[j].fut = "pending"
          /\ job'[j] # Unused /\ job'[j].fut = "cancelled"
          => closed' \/ \A c \in Callers : on'[c] # j
  BY DEF Survives
<1> QED
  BY <1>1, <1>2, AlwaysWarranted, PTL DEF Safe, SharedReadSurvives

\* What is rejected during a cooldown does not extend it: until it is over it only shrinks
\* (class _Cooldown, _execute).
THEOREM CooldownEnds == Safe => CooldownNotExtended
<1>1. BInv /\ BInv' /\ WarrantInv /\ [Next]_vars => [CooldownShrinks]_vars
  BY WarrantStep, BrokerAssumption
<1>2. CooldownShrinks <=> (cooldown > 0 => cooldown' <= cooldown)
  BY DEF CooldownShrinks
<1> QED
  BY <1>1, <1>2, AlwaysWarranted, PTL DEF Safe, CooldownNotExtended
=============================================================================
