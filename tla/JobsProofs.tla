----------------------------- MODULE JobsProofs -----------------------------
(***************************************************************************)
(* What the durable jobs report is true, for any number of months, rides,  *)
(* copies, jobs and faults.                                                *)
(*                                                                         *)
(* A range job carries its own evidence: each month behind its cursor was  *)
(* recorded complete, or is in one of the job's lists.  The evidence holds *)
(* of the stored job and of every job that somebody holds in a local and   *)
(* may write.  A month's task is told apart from later ones by its state:  *)
(* whoever holds a claim holds one that is being queried.  A               *)
(* reconstruction's evidence is its cursor, while nobody else changes the  *)
(* archive.                                                                *)
(***************************************************************************)
EXTENDS MCJobs, FiniteSetTheorems, WellFoundedInduction, TLAPS

\* A set of natural numbers has a least element.
LEMMA Least ==
    ASSUME NEW T \in SUBSET Nat, T # {}
    PROVE  \E x \in T : \A y \in T : x <= y
<1>1. PICK x \in T : \A y \in T : ~(<<y, x>> \in OpToRel(<, Nat))
  BY NatLessThanWellFounded, WFMin, Zenon
<1>2. \A y \in T : ~(y < x)
  BY <1>1 DEF OpToRel
<1> QED
  BY <1>2

\* Min is that element.
LEMMA MinIsLeast ==
    ASSUME NEW T \in SUBSET Nat, T # {}
    PROVE  Min(T) \in T /\ \A y \in T : Min(T) <= y
BY Least DEF Min

-----------------------------------------------------------------------------
(***************************************************************************)
(* The range job.                                                          *)
(***************************************************************************)
RangeStates == {"none", "ready", "querying", "waiting", "complete", "cancelled"}
RangeJobs == [id : Nat, lo : Nat, hi : Nat, next : Nat, state : RangeStates, rev : Nat,
              queried : Nat, skipped : Nat, incomplete : SUBSET Nat, unknown : SUBSET Nat,
              retry : BOOLEAN]
Ats == {"rest", "look", "skip", "settle", "budget", "reread", "announce", "query", "later",
        "unavailable"}
Executors == [at : Ats, job : RangeJobs, before : RangeJobs, missing : Nat, worker : BOOLEAN,
              owns : BOOLEAN]
Controls == [at : {"rest", "start", "cancel"}, expected : RangeJobs, put : RangeJobs]

RangeTypes ==
    /\ job \in RangeJobs /\ saved \in [SyncMonths -> Coverage \union {"none"}]
    /\ executor \in Executors /\ control \in Controls

\* Where the cursor of a job is.
Placed(j) ==
    /\ j.state # "none" =>
          /\ j.lo \in SyncMonths /\ j.hi \in SyncMonths
          /\ j.next = 0 \/ j.next \in j.lo..j.hi
    /\ ~Terminal(j) => j.next # 0
    /\ j.state = "complete" => j.next = 0

\* What a job knows of the months behind its cursor.
Covered(j, done) ==
    j.state # "none" =>
        \A m \in j.lo..j.hi : m > j.next => m \in done \union j.incomplete \union j.unknown

True(j, done) == Placed(j) /\ Covered(j, done)

\* Whoever is in the middle of a change: the executor of a live job, or the owner.
ActorsInv ==
    /\ executor.at \notin {"rest", "look"} => ~Terminal(executor.job)
    /\ executor.at # "rest" => control.at = "rest" /\ job.state # "cancelled"
    /\ control.at = "cancel" => ~Terminal(control.expected)
    /\ control.at = "start" => control.put.id = control.expected.id + 1

RangeInv ==
    /\ RangeTypes
    /\ \A m \in SyncMonths : saved[m] = "complete" => m \in completeOnce
    /\ \A j \in {job, executor.job, control.put} : True(j, completeOnce)
    /\ ActorsInv

\* The months are numbers.
LEMMA MonthsAreNumbers ==
    ASSUME SyncJobsAssumption PROVE SyncMonths \subseteq Nat \ {0}
BY FS_CardinalityType DEF SyncJobsAssumption

\* One accepted month.
LEMMA AdvancedForm ==
    ASSUME NEW j \in RangeJobs, j.next >= j.lo, j.next # 0, NEW queried \in BOOLEAN,
           NEW list \in Coverage \union {"none"}
    PROVE  LET k == Advanced(j, queried, list)
               following == IF j.next = j.lo THEN 0 ELSE j.next - 1
           IN  /\ k \in RangeJobs /\ k.id = j.id /\ k.lo = j.lo /\ k.hi = j.hi
               /\ k.next = following
               /\ k.state = IF following = 0 THEN "complete" ELSE "ready"
               /\ j.incomplete \subseteq k.incomplete /\ j.unknown \subseteq k.unknown
               /\ list = "partial" => j.next \in k.incomplete
               /\ list = "unknown" => j.next \in k.unknown
<1> DEFINE following == IF j.next = j.lo THEN 0 ELSE j.next - 1
           state == IF following = 0 THEN "complete" ELSE "ready"
           asked == j.queried + (IF queried THEN 1 ELSE 0)
           passed == j.skipped + (IF queried THEN 0 ELSE 1)
           part == IF list = "partial" THEN j.incomplete \union {j.next} ELSE j.incomplete
           dark == IF list = "unknown" THEN j.unknown \union {j.next} ELSE j.unknown
<1>1. /\ following \in Nat /\ state \in RangeStates /\ asked \in Nat /\ passed \in Nat
      /\ part \in SUBSET Nat /\ dark \in SUBSET Nat /\ j.rev + 1 \in Nat
  BY DEF RangeJobs, RangeStates
<1>2. Advanced(j, queried, list) =
        [j EXCEPT !.next = following, !.state = state, !.rev = j.rev + 1, !.retry = FALSE,
                  !.queried = asked, !.skipped = passed, !.incomplete = part, !.unknown = dark]
  BY DEF Advanced
<1>3. /\ j.incomplete \subseteq part /\ j.unknown \subseteq dark
      /\ list = "partial" => j.next \in part
      /\ list = "unknown" => j.next \in dark
  OBVIOUS
<1> DEFINE rev == j.rev + 1
           k == Advanced(j, queried, list)
<1>4. rev \in Nat /\ k = [j EXCEPT !.next = following, !.state = state, !.rev = rev,
                                   !.retry = FALSE, !.queried = asked, !.skipped = passed,
                                   !.incomplete = part, !.unknown = dark]
  BY <1>1, <1>2
<1> HIDE DEF following, state, asked, passed, part, dark, rev, k
<1>5. /\ k.id = j.id /\ k.lo = j.lo /\ k.hi = j.hi /\ k.next = following /\ k.state = state
      /\ k.incomplete = part /\ k.unknown = dark
  BY <1>4 DEF RangeJobs
<1>6. k \in RangeJobs
  <2> DEFINE half == [j EXCEPT !.next = following, !.state = state, !.rev = rev, !.retry = FALSE]
  <2>1. half \in RangeJobs
    BY <1>1, <1>4 DEF RangeJobs
  <2>2. k = [half EXCEPT !.queried = asked, !.skipped = passed, !.incomplete = part,
                         !.unknown = dark]
    BY <1>4
  <2> HIDE DEF half
  <2> QED
    BY <1>1, <2>1, <2>2 DEF RangeJobs
<1> QED
  BY <1>3, <1>5, <1>6 DEF following, state, k

\* The other changes of a job keep its cursor and its lists.
Cancelled(j) == [j EXCEPT !.state = "cancelled", !.retry = FALSE, !.rev = @ + 1]
SameCursor(j, k) ==
    /\ k \in RangeJobs /\ k.id = j.id /\ k.lo = j.lo /\ k.hi = j.hi /\ k.next = j.next
    /\ k.incomplete = j.incomplete /\ k.unknown = j.unknown
LEMMA RangeForm ==
    ASSUME NEW j \in RangeJobs
    PROVE  /\ SameCursor(j, Querying(j)) /\ Querying(j).state = "querying"
           /\ \A later \in BOOLEAN : SameCursor(j, Waiting(j, later))
                                     /\ Waiting(j, later).state = "waiting"
           /\ SameCursor(j, Cancelled(j)) /\ Cancelled(j).state = "cancelled"
<1>1. ASSUME NEW s \in RangeStates, NEW b \in BOOLEAN, NEW n \in Nat,
             NEW k, k = [j EXCEPT !.state = s, !.retry = b, !.rev = n]
      PROVE  SameCursor(j, k) /\ k.state = s
  BY <1>1 DEF RangeJobs, SameCursor
<1>2. j.rev + 1 \in Nat /\ {"querying", "waiting", "cancelled"} \subseteq RangeStates
  BY DEF RangeJobs, RangeStates
<1>3. Querying(j) = [j EXCEPT !.state = "querying", !.retry = FALSE, !.rev = j.rev + 1]
  BY DEF Querying
<1>4. Cancelled(j) = [j EXCEPT !.state = "cancelled", !.retry = FALSE, !.rev = j.rev + 1]
  BY DEF Cancelled
<1>5. \A later \in BOOLEAN :
         Waiting(j, later) = [j EXCEPT !.state = "waiting", !.retry = later, !.rev = j.rev + 1]
  BY DEF Waiting
<1>6. SameCursor(j, Querying(j)) /\ Querying(j).state = "querying"
  BY <1>1, <1>2, <1>3
<1>7. SameCursor(j, Cancelled(j)) /\ Cancelled(j).state = "cancelled"
  BY <1>1, <1>2, <1>4
<1>8. \A later \in BOOLEAN : SameCursor(j, Waiting(j, later)) /\ Waiting(j, later).state = "waiting"
  BY <1>1, <1>2, <1>5
<1> QED
  BY <1>6, <1>7, <1>8

\* The first job.
LEMMA NoJobIs == NoJob \in RangeJobs /\ NoJob.state = "none" /\ Terminal(NoJob) /\ NoJob.id = 0
BY DEF NoJob, RangeJobs, RangeStates, Terminal

\* A job stays true while months are recorded.
LEMMA TrueOfMore == \A j, done, more : True(j, done) /\ done \subseteq more => True(j, more)
BY DEF True, Covered

\* A job that starts.
Started(id, lo, hi) == [NoJob EXCEPT !.id = id, !.lo = lo, !.hi = hi, !.next = hi,
                                     !.state = "ready", !.rev = 1]
IsStarted(k, id, lo, hi) ==
    k \in RangeJobs /\ k.id = id /\ k.lo = lo /\ k.hi = hi /\ k.next = hi /\ k.state = "ready"
LEMMA StartedForm ==
    ASSUME NEW id \in Nat, NEW lo \in Nat, NEW hi \in Nat
    PROVE  IsStarted(Started(id, lo, hi), id, lo, hi)
<1>1. ASSUME NEW one \in Nat, NEW s \in RangeStates, s = "ready",
             NEW k, k = [NoJob EXCEPT !.id = id, !.lo = lo, !.hi = hi, !.next = hi, !.state = s,
                                      !.rev = one]
      PROVE  IsStarted(k, id, lo, hi)
  BY <1>1, NoJobIs DEF RangeJobs, IsStarted
<1>2. 1 \in Nat /\ "ready" \in RangeStates
  BY DEF RangeStates
<1> DEFINE k == Started(id, lo, hi)
<1>3. k = [NoJob EXCEPT !.id = id, !.lo = lo, !.hi = hi, !.next = hi, !.state = "ready", !.rev = 1]
  BY DEF Started
<1> HIDE DEF k
<1>4. IsStarted(k, id, lo, hi)
  BY <1>1, <1>2, <1>3
<1> QED
  BY <1>4 DEF k

\* A live job stays true when its state changes.
LEMMA TrueOfSame ==
    \A j \in RangeJobs : \A k, done :
        /\ True(j, done) /\ ~Terminal(j) /\ SameCursor(j, k)
        /\ k.state \in {"querying", "waiting", "cancelled"}
        => True(k, done)
BY DEF True, Placed, Covered, Terminal, SameCursor

\* The cursor of a live job is at a month.
LEMMA LiveCursor ==
    ASSUME SyncJobsAssumption, NEW j \in RangeJobs, NEW done, True(j, done), ~Terminal(j)
    PROVE  j.next \in SyncMonths
<1> DEFINE n == Cardinality(SyncMonths)
<1>1. n \in Nat /\ SyncMonths = 1..n
  BY FS_CardinalityType DEF SyncJobsAssumption
<1> HIDE DEF n
<1>2. j.next \in j.lo..j.hi /\ j.lo \in 1..n /\ j.hi \in 1..n
  BY <1>1 DEF True, Placed, Terminal, RangeJobs
<1> QED
  BY <1>1, <1>2

\* A live job stays true when the month at its cursor is accepted.
LEMMA TrueOfAdvanced ==
    ASSUME SyncJobsAssumption, NEW j \in RangeJobs, NEW done, True(j, done), ~Terminal(j),
           NEW queried \in BOOLEAN, NEW list \in Coverage, list = "complete" => j.next \in done
    PROVE  /\ Advanced(j, queried, list) \in RangeJobs /\ True(Advanced(j, queried, list), done)
           /\ Advanced(j, queried, list).state \in {"ready", "complete"}
<1> DEFINE k == Advanced(j, queried, list)
<1>1. /\ j.state \in RangeStates /\ j.state # "none" /\ j.next \in j.lo..j.hi /\ j.next # 0
      /\ j.lo \in SyncMonths /\ j.hi \in SyncMonths /\ SyncMonths \subseteq Nat \ {0}
  BY MonthsAreNumbers DEF True, Placed, Terminal, RangeJobs
<1>2. j.next >= j.lo
  BY <1>1
<1>3. /\ k \in RangeJobs /\ k.lo = j.lo /\ k.hi = j.hi
      /\ k.next = IF j.next = j.lo THEN 0 ELSE j.next - 1
      /\ k.state = IF k.next = 0 THEN "complete" ELSE "ready"
      /\ j.incomplete \subseteq k.incomplete /\ j.unknown \subseteq k.unknown
      /\ list = "partial" => j.next \in k.incomplete
      /\ list = "unknown" => j.next \in k.unknown
  BY <1>1, <1>2, AdvancedForm DEF Coverage
<1> HIDE DEF k
<1>4. Placed(k)
  <2>1. k.next = 0 \/ k.next \in k.lo..k.hi
    <3>1. j.lo \in Nat /\ j.lo # 0 /\ j.hi \in Nat /\ j.next \in Nat
      BY <1>1 DEF RangeJobs
    <3>2. j.next >= j.lo /\ j.next <= j.hi
      BY <1>1, <3>1
    <3>3. CASE j.next = j.lo
      BY <1>3, <3>3
    <3>4. CASE j.next # j.lo
      <4>1. k.next = j.next - 1
        BY <1>3, <3>4
      <4>2. j.next - 1 \in j.lo..j.hi
        BY <3>1, <3>2, <3>4
      <4> QED
        BY <1>3, <4>1, <4>2
    <3> QED
      BY <3>3, <3>4
  <2>2. k.state = "complete" <=> k.next = 0
    BY <1>3
  <2>3. Terminal(k) => k.state = "complete"
    BY <1>3 DEF Terminal
  <2> QED
    BY <1>1, <1>3, <2>1, <2>2, <2>3 DEF Placed, Terminal
<1>5. Covered(k, done)
  <2> SUFFICES ASSUME NEW m \in k.lo..k.hi, m > k.next
               PROVE  m \in done \union k.incomplete \union k.unknown
    BY DEF Covered
  <2>1. CASE m = j.next
    BY <1>3, <2>1 DEF Coverage
  <2>2. CASE m # j.next
    <3>1. m \in j.lo..j.hi /\ m > j.next
      BY <1>1, <1>3, <2>2
    <3>2. m \in done \union j.incomplete \union j.unknown
      BY <1>1, <3>1 DEF True, Covered
    <3> QED
      BY <1>3, <3>2
  <2> QED
    BY <2>1, <2>2
<1> QED
  BY <1>3, <1>4, <1>5 DEF True, k

\* What a step does to the executor's locals.
At(e, a) == [e EXCEPT !.at = a]
AtJob(e, a, j) == [e EXCEPT !.at = a, !.job = j]
AtBefore(e, a, j) == [e EXCEPT !.at = a, !.before = j]
AtMonth(e, a) == [e EXCEPT !.at = a, !.missing = @ + 1]
Unowned(e) == [e EXCEPT !.owns = FALSE]
Looking(j, worker) == [Resting EXCEPT !.at = "look", !.job = j, !.worker = worker]
Holds(e, a, j) == e \in Executors /\ e.at = a /\ e.job = j

LEMMA RestingForm == Holds(Resting, "rest", NoJob)
BY NoJobIs DEF Resting, Executors, Ats, Holds

LEMMA AtForm == \A e \in Executors, a \in Ats : Holds(At(e, a), a, e.job)
BY DEF Executors, Holds, At

LEMMA AtJobForm == \A e \in Executors, a \in Ats, j \in RangeJobs : Holds(AtJob(e, a, j), a, j)
BY DEF Executors, Holds, AtJob

LEMMA AtBeforeForm ==
    \A e \in Executors, a \in Ats, j \in RangeJobs : Holds(AtBefore(e, a, j), a, e.job)
BY DEF Executors, Holds, AtBefore

LEMMA AtMonthForm == \A e \in Executors, a \in Ats : Holds(AtMonth(e, a), a, e.job)
<1>1. \A e \in Executors, a \in Ats, n \in Nat :
         Holds([e EXCEPT !.at = a, !.missing = n], a, e.job)
  BY DEF Executors, Holds
<1> SUFFICES ASSUME NEW e \in Executors, NEW a \in Ats PROVE Holds(AtMonth(e, a), a, e.job)
  OBVIOUS
<1>2. e.missing + 1 \in Nat
  BY DEF Executors
<1> QED
  BY <1>1, <1>2 DEF AtMonth

LEMMA UnownedForm == \A e \in Executors : Holds(Unowned(e), e.at, e.job)
BY DEF Executors, Holds, Unowned

LEMMA LookingForm ==
    \A j \in RangeJobs, worker \in BOOLEAN : Holds(Looking(j, worker), "look", j)
BY RestingForm DEF Executors, Ats, Holds, Looking

\* Nobody has anything to say of no job.
LEMMA NoJobIsTrue == \A done : True(NoJob, done)
BY NoJobIs DEF True, Placed, Covered

\* What was cancelled stays cancelled.
CancelledRests == job.state = "cancelled" => job' = job \/ job'.id # job.id

\* The executor's steps that write nothing.
LEMMA ExecutorKeeps ==
    ASSUME RangeInv, executor' \in Executors, executor'.job \in {NoJob, job, executor.job, job'},
           executor'.at \notin {"rest", "look"} => ~Terminal(executor'.job),
           executor'.at # "rest" => control.at = "rest" /\ job.state # "cancelled",
           UNCHANGED <<job, saved, control, completeOnce>>
    PROVE  RangeInv' /\ CancelledRests
<1>1. \A j \in {job', executor'.job, control'.put} : True(j, completeOnce')
  BY NoJobIsTrue DEF RangeInv
<1>2. RangeTypes'
  BY DEF RangeInv, RangeTypes
<1>3. ActorsInv'
  BY DEF RangeInv, ActorsInv
<1> QED
  BY <1>1, <1>2, <1>3 DEF RangeInv, CancelledRests

\* The executor's steps that write the job.
LEMMA WriteKeeps ==
    ASSUME RangeInv, executor.at # "rest", job' \in RangeJobs, True(job', completeOnce),
           job'.state # "cancelled", executor' \in Executors, executor'.job \in {NoJob, job', executor.job},
           executor'.at \notin {"rest", "look"} => ~Terminal(executor'.job),
           UNCHANGED <<saved, control, completeOnce>>
    PROVE  RangeInv' /\ CancelledRests
<1>0. control.at = "rest" /\ job.state # "cancelled"
  BY DEF RangeInv, ActorsInv
<1>1. \A j \in {job', executor'.job, control'.put} : True(j, completeOnce')
  BY NoJobIsTrue DEF RangeInv
<1>2. RangeTypes'
  BY DEF RangeInv, RangeTypes
<1>3. ActorsInv'
  BY <1>0 DEF RangeInv, ActorsInv
<1> QED
  BY <1>0, <1>1, <1>2, <1>3 DEF RangeInv, CancelledRests

\* The owner's calls, and what stops the executor.
LEMMA ControlKeeps ==
    ASSUME RangeInv, executor' = Resting, control' \in Controls, True(control'.put, completeOnce),
           control'.at = "cancel" => ~Terminal(control'.expected),
           control'.at = "start" => control'.put.id = control'.expected.id + 1,
           job' \in RangeJobs, True(job', completeOnce), CancelledRests,
           UNCHANGED <<saved, completeOnce>>
    PROVE  RangeInv'
<1>0. Resting \in Executors /\ Resting.at = "rest" /\ Resting.job = NoJob
  BY RestingForm DEF Holds
<1>1. \A j \in {job', executor'.job, control'.put} : True(j, completeOnce')
  BY <1>0, NoJobIsTrue DEF RangeInv
<1>2. RangeTypes'
  BY <1>0 DEF RangeInv, RangeTypes
<1>3. ActorsInv'
  BY <1>0 DEF RangeInv, ActorsInv
<1> QED
  BY <1>1, <1>2, <1>3 DEF RangeInv

\* The executor's loop.
LEMMA LoopKeeps == ASSUME SyncJobsAssumption, RangeInv, SyncSteps PROVE RangeInv' /\ CancelledRests
<1>1. /\ executor \in Executors /\ job \in RangeJobs /\ executor.job \in RangeJobs
      /\ executor.before \in RangeJobs
      /\ True(job, completeOnce) /\ True(executor.job, completeOnce)
      /\ saved \in [SyncMonths -> Coverage \union {"none"}]
      /\ \A m \in SyncMonths : saved[m] = "complete" => m \in completeOnce
  BY DEF RangeInv, RangeTypes, Executors
<1>2. /\ executor.at \notin {"rest", "look"} => ~Terminal(executor.job)
      /\ executor.at # "rest" => control.at = "rest" /\ job.state # "cancelled"
  BY DEF RangeInv, ActorsInv
<1>3. Resting \in Executors /\ Resting.at = "rest" /\ Resting.job = NoJob
  BY RestingForm DEF Holds
<1>4. CASE Look
  <2>1. \/ executor' = Resting
        \/ ~Terminal(executor.job) /\ \E a \in {"skip", "budget"} : executor' = At(executor, a)
    BY <1>4 DEF Look, At
  <2>2. executor.at = "look" /\ UNCHANGED <<job, saved, control, completeOnce>>
    BY <1>4 DEF Look
  <2>3. CASE executor' = Resting
    BY <1>2, <1>3, <2>2, <2>3, ExecutorKeeps
  <2>4. ASSUME NEW a \in {"skip", "budget"}, executor' = At(executor, a), ~Terminal(executor.job)
        PROVE  RangeInv' /\ CancelledRests
    <3>1. a \in Ats /\ Holds(executor', a, executor.job)
      BY <1>1, <2>4, AtForm DEF Ats
    <3> QED
      BY <1>2, <2>2, <2>4, <3>1, ExecutorKeeps DEF Holds
  <2> QED
    BY <2>1, <2>3, <2>4
<1>5. CASE Skip
  <2>1. /\ executor.at \in {"skip", "settle"} /\ UNCHANGED <<saved, control, completeOnce>>
        /\ ~Terminal(executor.job)
    BY <1>2, <1>5 DEF Skip
  <2>2. CASE Guarded /\ job = executor.job /\ saved[job.next] # "none"
    <3>1. job' = Advanced(job, FALSE, saved[job.next]) /\ executor' = AtJob(executor, "look", job')
      BY <1>5, <2>2 DEF Skip, AtJob
    <3>2. job.next \in SyncMonths
      BY <1>1, <2>1, <2>2, LiveCursor
    <3>3. saved[job.next] \in Coverage /\ (saved[job.next] = "complete" => job.next \in completeOnce)
      BY <1>1, <2>2, <3>2
    <3>4. job' \in RangeJobs /\ True(job', completeOnce) /\ job'.state \in {"ready", "complete"}
      BY <1>1, <2>1, <2>2, <3>1, <3>3, TrueOfAdvanced
    <3>5. executor' \in Executors /\ executor'.at = "look" /\ executor'.job = job'
      <4>1. "look" \in Ats
        BY DEF Ats
      <4>2. Holds(AtJob(executor, "look", job'), "look", job')
        BY <1>1, <3>4, <4>1, AtJobForm
      <4> QED
        BY <3>1, <4>2 DEF Holds
    <3> QED
      BY <2>1, <3>4, <3>5, WriteKeeps
  <2>3. CASE ~(Guarded /\ job = executor.job /\ saved[job.next] # "none")
    <3>1. executor' = Resting /\ job' = job
      BY <1>5, <2>3 DEF Skip, Leaves
    <3> QED
      BY <1>3, <2>1, <3>1, ExecutorKeeps
  <2> QED
    BY <2>2, <2>3
<1>6. CASE Reserve
  <2> DEFINE q == Querying(executor.job)
  <2>1. executor.at = "budget" /\ UNCHANGED <<job, saved, control, completeOnce>>
        /\ executor' = AtJob(executor, "reread", q)
    BY <1>6 DEF Reserve, AtJob
  <2>2. SameCursor(executor.job, q) /\ q.state = "querying"
    BY <1>1, RangeForm
  <2> HIDE DEF q
  <2>3. q \in RangeJobs /\ True(q, completeOnce) /\ ~Terminal(q)
    <3>1. ~Terminal(executor.job)
      BY <1>2, <2>1
    <3>2. True(q, completeOnce)
      BY <1>1, <2>2, <3>1, TrueOfSame
    <3> QED
      BY <2>2, <3>2 DEF SameCursor, Terminal
  <2>4. executor' \in Executors /\ executor'.at = "reread" /\ executor'.job = q
    <3>1. "reread" \in Ats
      BY DEF Ats
    <3>2. Holds(AtJob(executor, "reread", q), "reread", q)
      BY <1>1, <2>3, <3>1, AtJobForm
    <3> QED
      BY <2>1, <3>2 DEF Holds
  <2>5. RangeTypes'
    BY <2>1, <2>4 DEF RangeInv, RangeTypes
  <2>6. ActorsInv'
    BY <1>2, <2>1, <2>3, <2>4 DEF RangeInv, ActorsInv
  <2>7. \A j \in {job', executor'.job, control'.put} : True(j, completeOnce')
    BY <2>1, <2>3, <2>4 DEF RangeInv
  <2> QED
    BY <2>1, <2>5, <2>6, <2>7 DEF RangeInv, CancelledRests
<1>7. CASE NotReserved
  <2>1. executor.at = "budget" /\ UNCHANGED <<job, saved, control, completeOnce>>
        /\ executor' \in {Resting, At(executor, "unavailable")}
    BY <1>7 DEF NotReserved, At
  <2>2. Holds(At(executor, "unavailable"), "unavailable", executor.job)
    BY <1>1, AtForm DEF Ats
  <2> QED
    BY <1>2, <1>3, <2>1, <2>2, ExecutorKeeps DEF Holds
<1>8. CASE Reread
  <2>1. executor.at = "reread" /\ UNCHANGED <<job, saved, control, completeOnce>>
        /\ executor' = AtBefore(executor, "announce", job)
    BY <1>8 DEF Reread, AtBefore
  <2>2. Holds(executor', "announce", executor.job)
    BY <1>1, <2>1, AtBeforeForm DEF Ats
  <2> QED
    BY <1>2, <2>1, <2>2, ExecutorKeeps DEF Holds
<1>9. CASE Announce
  <2>1. /\ executor.at = "announce" /\ UNCHANGED <<saved, control, completeOnce>>
        /\ ~Terminal(executor.job)
    BY <1>2, <1>9 DEF Announce
  <2>2. CASE Guarded /\ MayReplace(executor.before, executor.job)
    <3>1. job' = executor.job /\ executor' = AtMonth(executor, "query")
      BY <1>9, <2>2 DEF Announce, AtMonth
    <3>2. Holds(executor', "query", executor.job)
      BY <1>1, <3>1, AtMonthForm DEF Ats
    <3>3. job'.state # "cancelled"
      BY <2>1, <3>1 DEF Terminal
    <3> QED
      BY <1>1, <2>1, <3>1, <3>2, <3>3, WriteKeeps DEF Holds
  <2>3. CASE ~(Guarded /\ MayReplace(executor.before, executor.job))
    <3>1. executor' = Resting /\ job' = job
      BY <1>9, <2>3 DEF Announce, Leaves
    <3> QED
      BY <1>3, <2>1, <3>1, ExecutorKeeps
  <2> QED
    BY <2>2, <2>3
<1>10. CASE Answered
  <2>1. executor.at = "query" /\ UNCHANGED <<job, saved, control, completeOnce>>
        /\ executor' \in {AtJob(executor, "look", job), At(executor, "settle")}
    BY <1>10 DEF Answered, At, AtJob
  <2>2. /\ Holds(AtJob(executor, "look", job), "look", job)
        /\ Holds(At(executor, "settle"), "settle", executor.job)
    BY <1>1, AtForm, AtJobForm DEF Ats
  <2> QED
    BY <1>2, <2>1, <2>2, ExecutorKeeps DEF Holds
<1>11. CASE Wait
  <2>1. executor.at \in {"later", "unavailable"} /\ UNCHANGED <<saved, control, completeOnce>>
        /\ executor' = Resting /\ ~Terminal(executor.job)
    BY <1>2, <1>11 DEF Wait, Leaves
  <2>2. job' = job \/ job' \in {Waiting(executor.job, TRUE), Waiting(executor.job, FALSE)}
    <3>1. (executor.at = "later") \in BOOLEAN
      OBVIOUS
    <3> QED
      BY <1>11 DEF Wait
  <2>3. CASE job' = job
    BY <1>3, <2>1, <2>3, ExecutorKeeps
  <2>4. ASSUME NEW later \in BOOLEAN, job' = Waiting(executor.job, later)
        PROVE  RangeInv' /\ CancelledRests
    <3>1. SameCursor(executor.job, job') /\ job'.state = "waiting"
      BY <1>1, <2>4, RangeForm
    <3>2. job' \in RangeJobs /\ True(job', completeOnce)
      BY <1>1, <2>1, <3>1, TrueOfSame DEF SameCursor
    <3> QED
      BY <1>3, <2>1, <3>1, <3>2, WriteKeeps
  <2> QED
    BY <2>2, <2>3, <2>4
<1>12. ASSUME NEW later \in BOOLEAN, QueryFails(later)
       PROVE  RangeInv' /\ CancelledRests
  <2>1. executor.at = "query" /\ UNCHANGED <<job, saved, control, completeOnce>>
        /\ (executor' = Resting \/ \E a \in {"later", "unavailable"} : executor' = At(executor, a))
    BY <1>12 DEF QueryFails, At
  <2>2. \A a \in {"later", "unavailable"} : Holds(At(executor, a), a, executor.job)
    BY <1>1, AtForm DEF Ats
  <2> QED
    BY <1>2, <1>3, <2>1, <2>2, ExecutorKeeps DEF Holds
<1> QED
  BY <1>4, <1>5, <1>6, <1>7, <1>8, <1>9, <1>10, <1>11, <1>12 DEF SyncSteps

\* The rest of the job's system.
LEMMA RangeStepKeeps ==
    ASSUME SyncJobsAssumption, RangeInv, SyncNext PROVE RangeInv' /\ CancelledRests
<1>1. /\ job \in RangeJobs /\ executor \in Executors /\ control \in Controls
      /\ True(job, completeOnce) /\ True(control.put, completeOnce)
      /\ control.put \in RangeJobs /\ control.expected \in RangeJobs
  BY DEF RangeInv, RangeTypes, Controls
<1>2. /\ executor.at # "rest" => control.at = "rest" /\ job.state # "cancelled"
      /\ control.at = "cancel" => ~Terminal(control.expected)
      /\ control.at = "start" => control.put.id = control.expected.id + 1
  BY DEF RangeInv, ActorsInv
<1>3. Resting \in Executors /\ Resting.at = "rest" /\ Resting.job = NoJob
  BY RestingForm DEF Holds
<1>4. NoControl \in Controls /\ NoControl.at = "rest" /\ True(NoControl.put, completeOnce)
  BY NoJobIs, NoJobIsTrue DEF NoControl, Controls
<1>5. ASSUME NEW lo \in SyncMonths, NEW hi \in SyncMonths, StartRead(lo, hi)
      PROVE  RangeInv' /\ CancelledRests
  <2> DEFINE new == Started(job.id + 1, lo, hi)
  <2>1. /\ executor.at = "rest" /\ lo <= hi
        /\ control' = [at |-> "start", expected |-> job, put |-> new]
        /\ UNCHANGED <<job, saved, executor, completeOnce>>
    BY <1>5 DEF StartRead, Locked, Started
  <2>2. lo \in Nat \ {0} /\ hi \in Nat \ {0} /\ job.id + 1 \in Nat
    <3>1. job.id \in Nat
      BY <1>1 DEF RangeJobs
    <3> QED
      BY <3>1, MonthsAreNumbers
  <2>3. /\ new \in RangeJobs /\ new.id = job.id + 1 /\ new.lo = lo /\ new.hi = hi
        /\ new.next = hi /\ new.state = "ready"
    BY SMTT(30), <2>2, StartedForm DEF IsStarted
  <2> HIDE DEF new
  <2>4. True(new, completeOnce)
    <3>1. hi \in lo..hi /\ hi # 0
      BY <2>1, <2>2
    <3>2. Placed(new)
      BY <2>3, <3>1 DEF Placed, Terminal
    <3>3. Covered(new, completeOnce)
      BY <2>2, <2>3 DEF Covered
    <3> QED
      BY <3>2, <3>3 DEF True
  <2>5. /\ control' \in Controls /\ control'.at = "start" /\ control'.put = new
        /\ control'.expected = job
    BY <1>1, <2>1, <2>3 DEF Controls
  <2>6. RangeTypes' /\ ActorsInv'
    BY <2>1, <2>3, <2>5 DEF RangeInv, RangeTypes, ActorsInv
  <2> QED
    BY <2>1, <2>4, <2>5, <2>6 DEF RangeInv, CancelledRests
<1>6. CASE CancelBegin
  <2> DEFINE c == Cancelled(job)
  <2>1. /\ ~Terminal(job) /\ executor' = Resting
        /\ control' = [at |-> "cancel", expected |-> job, put |-> c]
        /\ UNCHANGED <<job, saved, completeOnce>>
    BY <1>6 DEF CancelBegin, Cancelled
  <2>2. SameCursor(job, c) /\ c.state = "cancelled"
    BY <1>1, RangeForm
  <2> HIDE DEF c
  <2>3. c \in RangeJobs /\ True(c, completeOnce)
    BY <1>1, <2>1, <2>2, TrueOfSame DEF SameCursor
  <2>4. /\ control' \in Controls /\ control'.at = "cancel" /\ control'.put = c
        /\ control'.expected = job
    BY <1>1, <2>1, <2>3 DEF Controls
  <2>5. job' = job /\ CancelledRests
    BY <2>1 DEF CancelledRests
  <2> QED
    BY <1>1, <2>1, <2>3, <2>4, <2>5, ControlKeeps
<1>7. CASE ControlWrite
  <2>1. /\ control.at # "rest" /\ control' = NoControl
        /\ UNCHANGED <<saved, executor, completeOnce>>
        /\ job' = IF MayReplace(control.expected, control.put) THEN control.put ELSE job
    BY <1>7 DEF ControlWrite
  <2>2. job' \in RangeJobs /\ True(job', completeOnce)
    BY <1>1, <2>1
  <2>3. CancelledRests
    <3> SUFFICES ASSUME job.state = "cancelled", MayReplace(control.expected, control.put)
                 PROVE  control.put.id # job.id
      BY <2>1 DEF CancelledRests
    <3>1. job = control.expected /\ Terminal(control.expected)
      BY DEF MayReplace, Terminal
    <3>2. control.at = "start"
      BY <1>1, <1>2, <2>1, <3>1 DEF Controls
    <3>3. control.put.id = job.id + 1 /\ job.id \in Nat
      BY <1>1, <1>2, <3>1, <3>2 DEF RangeJobs
    <3> QED
      BY <3>3
  <2>4. executor.at = "rest"
    BY <1>2, <2>1
  <2>5. RangeTypes' /\ ActorsInv'
    BY <1>4, <2>1, <2>2, <2>4 DEF RangeInv, RangeTypes, ActorsInv
  <2> QED
    BY <1>4, <2>1, <2>2, <2>3, <2>5 DEF RangeInv
<1>8. ASSUME NEW worker \in BOOLEAN, Advance(worker)
      PROVE  RangeInv' /\ CancelledRests
  <2>1. /\ executor' = Looking(job, worker) /\ ~Terminal(job) /\ control.at = "rest"
        /\ UNCHANGED <<job, saved, control, completeOnce>>
    BY <1>8 DEF Advance, Locked, Looking
  <2>2. Holds(executor', "look", job)
    BY <1>1, <2>1, LookingForm
  <2>3. job.state # "cancelled"
    BY <2>1 DEF Terminal
  <2> QED
    BY <2>1, <2>2, <2>3, ExecutorKeeps DEF Holds
<1>9. CASE SyncSteps
  BY <1>9, LoopKeeps
<1>10. ASSUME NEW m \in SyncMonths, NEW list \in Coverage, Record(m, list)
       PROVE  RangeInv' /\ CancelledRests
  <2> DEFINE done == completeOnce \union (IF list = "complete" THEN {m} ELSE {})
  <2>1. /\ saved' = [saved EXCEPT ![m] = list] /\ completeOnce' = done
        /\ UNCHANGED <<executor, control>>
        /\ job' = IF job.state = "querying" /\ job.next = m THEN Advanced(job, TRUE, list) ELSE job
    BY <1>10 DEF Record
  <2>2. completeOnce \subseteq done /\ (list = "complete" => m \in done)
    OBVIOUS
  <2> HIDE DEF done
  <2>3. saved' \in [SyncMonths -> Coverage \union {"none"}]
        /\ \A n \in SyncMonths : saved'[n] = "complete" => n \in done
    BY <2>1, <2>2 DEF RangeInv, RangeTypes
  <2>4. True(job, done) /\ True(executor.job, done) /\ True(control.put, done)
    BY <2>2, TrueOfMore DEF RangeInv
  <2>5. /\ job' \in RangeJobs /\ True(job', done)
        /\ job' # job => job'.state \in {"ready", "complete"} /\ job.state = "querying"
    <3>1. CASE job.state = "querying" /\ job.next = m
      <4>1. ~Terminal(job) /\ TRUE \in BOOLEAN
        BY <3>1 DEF Terminal
      <4>2. job' = Advanced(job, TRUE, list) /\ (list = "complete" => job.next \in done)
        BY <2>1, <2>2, <3>1
      <4> QED
        BY <1>1, <2>4, <3>1, <4>1, <4>2, TrueOfAdvanced
    <3>2. CASE ~(job.state = "querying" /\ job.next = m)
      BY <1>1, <2>1, <2>4, <3>2
    <3> QED
      BY <3>1, <3>2
  <2>6. RangeTypes'
    BY <2>1, <2>3, <2>5 DEF RangeInv, RangeTypes
  <2>7. ActorsInv'
    BY <2>1, <2>5 DEF RangeInv, ActorsInv
  <2>8. CancelledRests
    BY <2>5 DEF CancelledRests
  <2> QED
    BY <2>1, <2>3, <2>4, <2>5, <2>6, <2>7, <2>8 DEF RangeInv
<1>11. CASE Elapse
  BY <1>11 DEF Elapse, RangeInv, RangeTypes, ActorsInv, CancelledRests
<1>12. CASE Disowned
  <2>1. executor' = Unowned(executor) /\ executor.at # "rest"
        /\ UNCHANGED <<job, saved, control, completeOnce>>
    BY <1>12 DEF Disowned, Unowned
  <2>2. Holds(executor', executor.at, executor.job)
    BY <1>1, <2>1, UnownedForm
  <2>3. executor.at \notin {"rest", "look"} => ~Terminal(executor.job)
    BY DEF RangeInv, ActorsInv
  <2> QED
    BY <1>2, <2>1, <2>2, <2>3, ExecutorKeeps DEF Holds
<1>13. CASE Crash
  <2>1. executor' = Resting /\ control' = NoControl /\ UNCHANGED <<job, saved, completeOnce>>
    BY <1>13 DEF Crash
  <2>2. job' = job /\ CancelledRests
    BY <2>1 DEF CancelledRests
  <2> QED
    BY <1>1, <1>4, <2>1, <2>2, ControlKeeps
<1> QED
  BY <1>5, <1>6, <1>7, <1>8, <1>9, <1>10, <1>11, <1>12, <1>13 DEF SyncNext

-----------------------------------------------------------------------------
(***************************************************************************)
(* The repairs of single months.                                           *)
(***************************************************************************)
TaskStates == {"none", "pending", "querying", "waiting", "complete", "cancelled", "failed"}
Tasks == [state : TaskStates, source : {"manual", "recent"}, rev : Nat, attempts : Nat,
          created : Nat, due : BOOLEAN, recently : BOOLEAN, reason : BOOLEAN]
Repairs == [at : {"rest", "claimed", "query", "settle", "fail"}, month : Nat, expected : Tasks,
            owns : BOOLEAN]

\* Whoever is at work knows a task that is being queried.
TaskInv ==
    /\ task \in [RepairMonths -> Tasks] /\ retained \in [RepairMonths -> {"none", "stale", "fresh"}]
    /\ repair \in Repairs /\ cancelling \subseteq RepairMonths /\ schedules \in Nat
    /\ repair.at # "rest" => repair.month \in RepairMonths /\ repair.expected.state = "querying"
    /\ CompleteIsRetained

\* What OnlyItsAttemptEndsIt says of a step.
AttemptsEnd ==
    \A m \in RepairMonths :
          /\ Active(m) => task'[m].state # "none"
          /\ task[m].state # "querying" => task'[m].state \in {task[m].state, "none", "pending",
                                                              "querying", "cancelled"}
          /\ task[m].state = "cancelled" => task'[m].state \in {"cancelled", "none", "pending"}

\* A schedule replaces tasks that are not active.
Kept(t) ==
    /\ t \in [RepairMonths -> Tasks]
    /\ \A m \in RepairMonths :
          t[m] = task[m] \/ (~Active(m) /\ t[m].state \in {"none", "pending"})

Step(t, m, ms, source) == IF m \in ms THEN Scheduled(t, m, source) ELSE t
IsTables(f, k, ms, source) ==
    f = [m \in 0..k |-> IF m = 0 THEN task
                        ELSE IF m \in ms THEN Scheduled(f[m - 1], m, source) ELSE f[m - 1]]

LEMMA NoTaskIs == NoTask \in Tasks /\ NoTask.state = "none"
BY DEF NoTask, Tasks, TaskStates

LEMMA RepairMonthsAreNumbers ==
    ASSUME MonthTasksAssumption
    PROVE  /\ Cardinality(RepairMonths) \in Nat
           /\ RepairMonths = 1..Cardinality(RepairMonths) /\ RepairMonths \subseteq Nat
<1> DEFINE n == Cardinality(RepairMonths)
<1>1. n \in Nat /\ RepairMonths = 1..n
  BY FS_CardinalityType DEF MonthTasksAssumption
<1> HIDE DEF n
<1>2. RepairMonths \subseteq Nat
  BY <1>1
<1> QED
  BY <1>1, <1>2 DEF n

\* The tables of a schedule exist.
LEMMA TablesExist ==
    ASSUME NEW ms, NEW source, NEW n \in Nat PROVE \E f : IsTables(f, n, ms, source)
<1> DEFINE bad == {k \in Nat : ~\E f : IsTables(f, k, ms, source)}
<1>1. SUFFICES ASSUME bad # {} PROVE FALSE
  OBVIOUS
<1>2. PICK k \in bad : \A j \in bad : k <= j
  BY <1>1, Least
<1>3. CASE k = 0
  <2>1. IsTables([m \in 0..0 |-> task], 0, ms, source)
    BY DEF IsTables
  <2> QED
    BY <1>3, <2>1
<1>4. CASE k # 0
  <2>1. k - 1 \in Nat /\ k - 1 \notin bad
    BY <1>2, <1>4
  <2>2. PICK f : IsTables(f, k - 1, ms, source)
    BY <2>1
  <2> DEFINE g == [m \in 0..k |-> IF m = k THEN Step(f[k - 1], k, ms, source) ELSE f[m]]
             G(h, m) == IF m = 0 THEN task
                        ELSE IF m \in ms THEN Scheduled(h[m - 1], m, source) ELSE h[m - 1]
  <2>3. \A m \in 0..k : g[m] = IF m = k THEN Step(f[k - 1], k, ms, source) ELSE f[m]
    OBVIOUS
  <2>4. \A m \in 0..(k - 1) : f[m] = G(f, m)
    BY <2>2 DEF IsTables
  <2> HIDE DEF g
  <2>5. ASSUME NEW m \in 0..k PROVE g[m] = G(g, m)
    <3>1. CASE m = 0
      <4>1. 0 \in 0..(k - 1) /\ f[0] = task
        BY <1>4, <2>1, <2>4
      <4> QED
        BY <1>4, <2>3, <3>1, <4>1
    <3>2. CASE m # 0
      <4>1. m - 1 \in 0..(k - 1) /\ m - 1 \in 0..k /\ m - 1 # k
        BY <3>2
      <4>2. g[m - 1] = f[m - 1]
        BY <2>3, <4>1
      <4>3. CASE m = k
        BY <2>3, <3>2, <4>2, <4>3 DEF Step
      <4>4. CASE m # k
        <5>1. m \in 0..(k - 1)
          BY <4>4
        <5>2. g[m] = f[m] /\ f[m] = G(f, m)
          BY <2>3, <2>4, <4>4, <5>1
        <5> QED
          BY <3>2, <4>2, <5>2
      <4> QED
        BY <4>3, <4>4
    <3> QED
      BY <3>1, <3>2
  <2>6. g = [m \in 0..k |-> g[m]]
    BY DEF g
  <2>7. g = [m \in 0..k |-> G(g, m)]
    BY <2>5, <2>6
  <2>8. IsTables(g, k, ms, source)
    BY <2>7 DEF IsTables
  <2> QED
    BY <2>8
<1> QED
  BY <1>3, <1>4

LEMMA TablesAre ==
    ASSUME NEW ms, NEW source, MonthTasksAssumption
    PROVE  IsTables(Tables(ms, source), Cardinality(RepairMonths), ms, source)
<1>1. \E f : IsTables(f, Cardinality(RepairMonths), ms, source)
  BY TablesExist, RepairMonthsAreNumbers
<1> QED
  BY <1>1 DEF Tables, IsTables

\* What is scheduled, claimed, cancelled, due and ended.
Fresh(old, source) ==
    [NoTask EXCEPT !.state = "pending", !.source = source, !.due = TRUE,
                   !.rev = old.rev + 1, !.created = schedules + 1]
Is(t, state) == t \in Tasks /\ t.state = state

LEMMA FreshForm ==
    ASSUME NEW old \in Tasks, NEW source \in {"manual", "recent"}, schedules \in Nat
    PROVE  Is(Fresh(old, source), "pending")
<1>1. ASSUME NEW state \in TaskStates, NEW due \in BOOLEAN, NEW n \in Nat, NEW c \in Nat,
             NEW t, t = [NoTask EXCEPT !.state = state, !.source = source, !.due = due, !.rev = n,
                                       !.created = c]
      PROVE  Is(t, state)
  BY <1>1, NoTaskIs DEF Tasks, Is
<1>2. old.rev + 1 \in Nat /\ schedules + 1 \in Nat /\ "pending" \in TaskStates
  BY DEF Tasks, TaskStates
<1> DEFINE t == Fresh(old, source)
<1>3. t = [NoTask EXCEPT !.state = "pending", !.source = source, !.due = TRUE, !.rev = old.rev + 1,
                         !.created = schedules + 1]
  BY DEF Fresh
<1> HIDE DEF t
<1>4. Is(t, "pending")
  BY <1>1, <1>2, <1>3
<1> QED
  BY <1>4 DEF t

LEMMA EvictableIs ==
    ASSUME MonthTasksAssumption, NEW t, Kept(t), Evictable(t) # {}
    PROVE  /\ Min(Evictable(t)) \in RepairMonths
           /\ t[Min(Evictable(t))].state \notin ActiveStates \union {"none"}
<1>1. Evictable(t) \subseteq RepairMonths
  BY DEF Evictable, Kept
<1>2. Evictable(t) \in SUBSET Nat
  BY <1>1, RepairMonthsAreNumbers
<1>3. Min(Evictable(t)) \in Evictable(t)
  BY <1>2, MinIsLeast
<1>4. \A e \in Evictable(t) : t[e].state \notin ActiveStates \union {"none"}
  BY DEF Evictable
<1> QED
  BY <1>1, <1>3, <1>4

\* One month of a schedule.
LEMMA ScheduledKeeps ==
    ASSUME MonthTasksAssumption, TaskInv, NEW t, Kept(t) \/ t = Refused,
           NEW m \in RepairMonths, NEW source \in {"manual", "recent"}
    PROVE  Kept(Scheduled(t, m, source)) \/ Scheduled(t, m, source) = Refused
<1> DEFINE new == Fresh(t[m], source)
           s == Scheduled(t, m, source)
<1>1. \/ s = t \/ s = Refused
      \/ /\ ~LeftAlone(t[m], source) /\ t # Refused
         /\ \/ s = [t EXCEPT ![m] = new]
            \/ /\ Evictable(t) # {}
               /\ s = [t EXCEPT ![m] = new, ![Min(Evictable(t))] = NoTask]
  BY DEF Scheduled, Fresh
<1> SUFFICES ASSUME ~LeftAlone(t[m], source), t # Refused PROVE Kept(s) \/ s = Refused
  BY <1>1
<1>2. Kept(t) /\ t \in [RepairMonths -> Tasks] /\ t[m] \in Tasks
  BY DEF Kept
<1>3. Is(new, "pending")
  BY <1>2, FreshForm DEF TaskInv
<1>4. ~Active(m)
  BY <1>2 DEF LeftAlone, Kept, Active
<1> HIDE DEF new, s
<1>5. CASE s = [t EXCEPT ![m] = new]
  <2>1. s \in [RepairMonths -> Tasks] /\ s[m] = new
        /\ \A o \in RepairMonths \ {m} : s[o] = t[o]
    BY <1>2, <1>3, <1>5 DEF Is
  <2> QED
    BY <1>2, <1>3, <1>4, <2>1 DEF Kept, Is
<1>6. CASE Evictable(t) # {} /\ s = [t EXCEPT ![m] = new, ![Min(Evictable(t))] = NoTask]
  <2> DEFINE e == Min(Evictable(t))
  <2>1. e \in RepairMonths /\ t[e].state \notin ActiveStates \union {"none"}
    BY <1>2, <1>6, EvictableIs
  <2>2. s = [t EXCEPT ![m] = new, ![e] = NoTask]
    BY <1>6
  <2> HIDE DEF e
  <2>3. /\ s \in [RepairMonths -> Tasks] /\ s[m] \in {new, NoTask} /\ s[e] = NoTask
        /\ \A o \in RepairMonths \ {m, e} : s[o] = t[o]
    BY <1>2, <1>3, <2>1, <2>2, NoTaskIs DEF Is
  <2>4. ~Active(e)
    BY <1>2, <2>1 DEF Kept, Active
  <2>5. s[m].state \in {"none", "pending"} /\ s[e].state = "none"
    BY <1>3, <2>3, NoTaskIs DEF Is
  <2> QED
    BY <1>2, <1>4, <2>3, <2>4, <2>5 DEF Kept
<1> QED
  BY <1>1, <1>2, <1>5, <1>6

LEMMA TaskIsKept == ASSUME TaskInv PROVE Kept(task)
<1>1. task \in [RepairMonths -> Tasks]
  BY DEF TaskInv
<1> QED
  BY <1>1 DEF Kept

\* The whole selection.
LEMMA TablesKeep ==
    ASSUME MonthTasksAssumption, TaskInv, NEW ms \in SUBSET RepairMonths,
           NEW source \in {"manual", "recent"}
    PROVE  LET f == Tables(ms, source)
               n == Cardinality(RepairMonths)
           IN  Kept(f[n]) \/ f[n] = Refused
<1> DEFINE f == Tables(ms, source)
           n == Cardinality(RepairMonths)
           bad == {k \in 0..n : ~(Kept(f[k]) \/ f[k] = Refused)}
<1>1. n \in Nat /\ RepairMonths = 1..n
  BY RepairMonthsAreNumbers
<1>2. \A k \in 0..n : f[k] = IF k = 0 THEN task ELSE Step(f[k - 1], k, ms, source)
  <2>1. IsTables(f, n, ms, source)
    BY TablesAre
  <2> HIDE DEF f, n
  <2> QED
    BY <2>1 DEF IsTables, Step
<1> HIDE DEF f, n
<1>3. Kept(task)
  BY TaskIsKept
<1>4. bad = {}
  <2>1. SUFFICES ASSUME bad # {} PROVE FALSE
    OBVIOUS
  <2>2. bad \in SUBSET Nat
    BY <1>1
  <2>3. PICK k \in bad : \A j \in bad : k <= j
    BY <2>1, <2>2, Least
  <2>4. k # 0
    BY <1>2, <1>3, <2>3
  <2>5. k \in RepairMonths /\ k - 1 \in 0..n /\ k - 1 \notin bad
    BY <1>1, <2>3, <2>4
  <2>6. Kept(f[k - 1]) \/ f[k - 1] = Refused
    BY <2>5
  <2>7. f[k] = Step(f[k - 1], k, ms, source)
    BY <1>2, <2>3, <2>4
  <2>8. Kept(f[k]) \/ f[k] = Refused
    BY <2>5, <2>6, <2>7, ScheduledKeeps DEF Step
  <2> QED
    BY <2>3, <2>8
<1>5. n \in 0..n
  BY <1>1
<1> QED
  BY <1>4, <1>5 DEF f, n

\* A table that keeps what is active keeps the invariant.
LEMMA KeptIs ==
    ASSUME TaskInv, Kept(task'), UNCHANGED <<retained, repair, cancelling>>, schedules' \in Nat
    PROVE  TaskInv' /\ AttemptsEnd
<1>1. /\ task' \in [RepairMonths -> Tasks]
      /\ \A m \in RepairMonths :
            task'[m] = task[m] \/ (~Active(m) /\ task'[m].state \in {"none", "pending"})
  BY DEF Kept
<1>2. CompleteIsRetained'
  BY <1>1 DEF TaskInv, CompleteIsRetained
<1>3. AttemptsEnd
  BY <1>1 DEF AttemptsEnd, Active, ActiveStates
<1> QED
  BY <1>1, <1>2, <1>3 DEF TaskInv

\* One task changes.
OneTask(m, t) == task' = [task EXCEPT ![m] = t]

LEMMA OneTaskIs ==
    ASSUME TaskInv, NEW m \in RepairMonths, NEW t \in Tasks, OneTask(m, t),
           retained' \in [RepairMonths -> {"none", "stale", "fresh"}],
           \A o \in RepairMonths \ {m} : retained'[o] = retained[o],
           t.state = "complete" => retained'[m] = "fresh",
           repair' \in Repairs,
           repair'.at # "rest" => repair'.month \in RepairMonths /\ repair'.expected.state = "querying",
           Active(m) => t.state # "none",
           task[m].state # "querying" =>
               t.state \in {task[m].state, "none", "pending", "querying", "cancelled"},
           task[m].state = "cancelled" => t.state = "cancelled",
           UNCHANGED <<cancelling, schedules>>
    PROVE  TaskInv' /\ AttemptsEnd
<1>1. /\ task' \in [RepairMonths -> Tasks] /\ task'[m] = t
      /\ \A o \in RepairMonths \ {m} : task'[o] = task[o]
  BY DEF TaskInv, OneTask
<1>2. CompleteIsRetained'
  BY <1>1 DEF TaskInv, CompleteIsRetained
<1>3. AttemptsEnd
  BY <1>1 DEF AttemptsEnd, Active, ActiveStates
<1> QED
  BY <1>1, <1>2, <1>3 DEF TaskInv

\* No task changes.
LEMMA NoTaskChanges ==
    ASSUME TaskInv, task' = task,
           retained' \in [RepairMonths -> {"none", "stale", "fresh"}],
           \A o \in RepairMonths : retained'[o] = retained[o] \/ retained'[o] = "fresh",
           repair' \in Repairs,
           repair'.at # "rest" => repair'.month \in RepairMonths /\ repair'.expected.state = "querying",
           cancelling' \subseteq RepairMonths, schedules' = schedules
    PROVE  TaskInv' /\ AttemptsEnd
<1>1. CompleteIsRetained'
  BY DEF TaskInv, CompleteIsRetained
<1>2. AttemptsEnd
  BY DEF AttemptsEnd, Active, ActiveStates
<1> QED
  BY <1>1, <1>2 DEF TaskInv

CancelledTask(t) == [t EXCEPT !.state = "cancelled", !.rev = @ + 1, !.reason = FALSE]
EndedTask(t, over, success) ==
    [t EXCEPT !.rev = @ + 1, !.state = over, !.recently = success, !.reason = ~success]
DueTask(t) == [t EXCEPT !.due = TRUE]
AgedTask(t) == [t EXCEPT !.recently = FALSE]

LEMMA TaskForms ==
    ASSUME NEW t \in Tasks
    PROVE  /\ Is(ClaimedTask(t), "querying") /\ Is(CancelledTask(t), "cancelled")
           /\ Is(DueTask(t), t.state) /\ Is(AgedTask(t), t.state)
           /\ \A over \in TaskStates, success \in BOOLEAN : Is(EndedTask(t, over, success), over)
<1>1. ASSUME NEW state \in TaskStates, NEW due \in BOOLEAN, NEW n \in Nat, NEW a \in Nat,
             NEW recently \in BOOLEAN, NEW reason \in BOOLEAN,
             NEW k, \/ k = [t EXCEPT !.state = state, !.rev = n, !.due = due, !.attempts = a,
                                     !.reason = reason]
                    \/ k = [t EXCEPT !.state = state, !.rev = n, !.reason = reason]
                    \/ k = [t EXCEPT !.rev = n, !.state = state, !.recently = recently,
                                     !.reason = reason]
      PROVE  Is(k, state)
  BY ZenonT(60), <1>1 DEF Tasks, Is
<1>2. /\ t.rev + 1 \in Nat /\ t.attempts + 1 \in Nat
      /\ "querying" \in TaskStates /\ "cancelled" \in TaskStates
  BY DEF Tasks, TaskStates
<1>3. ClaimedTask(t) = [t EXCEPT !.state = "querying", !.rev = t.rev + 1, !.due = FALSE,
                                 !.attempts = t.attempts + 1, !.reason = FALSE]
  BY DEF ClaimedTask
<1>4. CancelledTask(t) = [t EXCEPT !.state = "cancelled", !.rev = t.rev + 1, !.reason = FALSE]
  BY DEF CancelledTask
<1>5. \A over \in TaskStates, success \in BOOLEAN :
         EndedTask(t, over, success) =
             [t EXCEPT !.rev = t.rev + 1, !.state = over, !.recently = success,
                       !.reason = ~success]
  BY DEF EndedTask
<1>6. Is(ClaimedTask(t), "querying")
  BY <1>1, <1>2, <1>3
<1>7. Is(CancelledTask(t), "cancelled")
  BY <1>1, <1>2, <1>4
<1>8. ASSUME NEW over \in TaskStates, NEW success \in BOOLEAN
      PROVE  Is(EndedTask(t, over, success), over)
  <2> DEFINE k == EndedTask(t, over, success)
             reason == ~success
  <2>1. k = [t EXCEPT !.rev = t.rev + 1, !.state = over, !.recently = success, !.reason = reason]
    BY <1>5
  <2>2. reason \in BOOLEAN
    OBVIOUS
  <2> HIDE DEF k, reason
  <2>3. Is(k, over)
    BY <1>1, <1>2, <2>1, <2>2
  <2> QED
    BY <2>3 DEF k
<1>9. Is(DueTask(t), t.state) /\ Is(AgedTask(t), t.state)
  BY DEF Is, DueTask, AgedTask, Tasks
<1> QED
  BY <1>6, <1>7, <1>8, <1>9

\* What a step does to the executor's locals.
Works(r, at) == r \in Repairs /\ r.at = at
SameClaim(r, k) == k.month = r.month /\ k.expected = r.expected
ClaimOf(m, t) == [NoRepair EXCEPT !.at = "claimed", !.month = m, !.expected = t]
NowAt(r, at) == [r EXCEPT !.at = at]
NotOwner(r) == [r EXCEPT !.owns = FALSE]
Expects(r, t) == [r EXCEPT !.expected = t]
RepairAts == {"rest", "claimed", "query", "settle", "fail"}

LEMMA NoRepairIs == Works(NoRepair, "rest")
BY NoTaskIs DEF NoRepair, Repairs, Works

LEMMA ClaimForm ==
    \A m \in Nat, t \in Tasks :
        LET k == ClaimOf(m, t) IN Works(k, "claimed") /\ k.month = m /\ k.expected = t
BY NoRepairIs DEF Repairs, Works, ClaimOf

LEMMA NowAtForm ==
    \A r \in Repairs, at \in RepairAts : Works(NowAt(r, at), at) /\ SameClaim(r, NowAt(r, at))
BY DEF Repairs, RepairAts, Works, NowAt, SameClaim

LEMMA NotOwnerForm ==
    \A r \in Repairs : Works(NotOwner(r), r.at) /\ SameClaim(r, NotOwner(r))
BY DEF Repairs, Works, NotOwner, SameClaim

LEMMA ExpectsForm ==
    \A r \in Repairs, t \in Tasks :
        Works(Expects(r, t), r.at) /\ Expects(r, t).month = r.month /\ Expects(r, t).expected = t
BY DEF Repairs, Works, Expects

\* The executor goes on with its claim, and the months get newer.
LEMMA WorkGoesOn ==
    ASSUME TaskInv, task' = task,
           retained' \in [RepairMonths -> {"none", "stale", "fresh"}],
           \A o \in RepairMonths : retained'[o] = retained[o] \/ retained'[o] = "fresh",
           repair' \in Repairs,
           repair'.at = "rest" \/ (repair.at # "rest" /\ SameClaim(repair, repair')),
           cancelling' \subseteq RepairMonths, schedules' = schedules
    PROVE  TaskInv' /\ AttemptsEnd
<1>1. repair'.at # "rest" => repair'.month \in RepairMonths /\ repair'.expected.state = "querying"
  BY DEF TaskInv, SameClaim
<1> QED
  BY <1>1, NoTaskChanges

LEMMA RepairStepKeeps ==
    ASSUME MonthTasksAssumption, TaskInv, RepairNext PROVE TaskInv' /\ AttemptsEnd
<1>1. /\ task \in [RepairMonths -> Tasks] /\ retained \in [RepairMonths -> {"none", "stale", "fresh"}]
      /\ repair \in Repairs /\ cancelling \subseteq RepairMonths /\ schedules \in Nat
      /\ \A m \in RepairMonths : task[m] \in Tasks
  BY DEF TaskInv
<1>2. repair.at # "rest" => repair.month \in RepairMonths /\ repair.expected.state = "querying"
  BY DEF TaskInv
<1>3. \A o \in RepairMonths : retained[o] = retained[o] \/ retained[o] = "fresh"
  OBVIOUS
<1>4. NoRepair \in Repairs /\ NoRepair.at = "rest"
  BY NoRepairIs DEF Works
<1>5. ASSUME NEW ms \in SUBSET RepairMonths, NEW source \in {"manual", "recent"},
             Schedule(ms, source)
      PROVE  TaskInv' /\ AttemptsEnd
  <2>1. /\ task' = Tables(ms, source)[Cardinality(RepairMonths)] /\ task' # Refused
        /\ schedules' = schedules + 1 /\ UNCHANGED <<retained, repair, cancelling>>
    BY <1>5 DEF Schedule
  <2>2. Kept(task')
    BY <2>1, TablesKeep
  <2>3. schedules' \in Nat
    BY <1>1, <2>1
  <2> QED
    BY <2>1, <2>2, <2>3, KeptIs
<1>6. ASSUME NEW ms \in SUBSET RepairMonths, CancelRepair(ms)
      PROVE  TaskInv' /\ AttemptsEnd
  <2>1. /\ task' = task /\ retained' = retained /\ cancelling' = ms /\ schedules' = schedules
        /\ repair' \in {NoRepair, repair}
    BY <1>6 DEF CancelRepair
  <2> QED
    BY <1>1, <1>2, <1>4, <2>1, NoTaskChanges
<1>7. CASE CancelMonths
  <2>1. /\ task' = [m \in RepairMonths |-> IF m \in cancelling /\ Active(m)
                                            THEN CancelledTask(task[m]) ELSE task[m]]
        /\ cancelling' = {} /\ UNCHANGED <<retained, repair, schedules>>
    BY <1>7 DEF CancelMonths, CancelledTask
  <2>2. \A m \in RepairMonths : Is(CancelledTask(task[m]), "cancelled")
    BY <1>1, TaskForms
  <2>3. \A m \in RepairMonths :
           task'[m] = task[m] \/ (Active(m) /\ task'[m] = CancelledTask(task[m]))
    BY <2>1
  <2>4. task' \in [RepairMonths -> Tasks]
    <3>1. \A m \in RepairMonths : (IF m \in cancelling /\ Active(m)
                                   THEN CancelledTask(task[m]) ELSE task[m]) \in Tasks
      BY <1>1, <2>2 DEF Is
    <3> QED
      BY <2>1, <3>1
  <2>5. \A m \in RepairMonths : task'[m] = task[m] \/ (Active(m) /\ task'[m].state = "cancelled")
    BY <2>2, <2>3 DEF Is
  <2>6. CompleteIsRetained'
    BY <2>1, <2>5 DEF TaskInv, CompleteIsRetained
  <2>7. AttemptsEnd
    BY <2>5 DEF AttemptsEnd, Active, ActiveStates
  <2> QED
    BY <2>1, <2>4, <2>6, <2>7 DEF TaskInv
<1>8. CASE ClaimMonth
  <2>1. PICK m \in RepairMonths :
           /\ Claimable(m) /\ OneTask(m, ClaimedTask(task[m]))
           /\ retained' = [retained EXCEPT ![m] = IF @ = "none" THEN @ ELSE "stale"]
           /\ repair' = ClaimOf(m, task'[m])
    BY <1>8 DEF ClaimMonth, OneTask, ClaimOf
  <2> DEFINE t == ClaimedTask(task[m])
  <2>2. Is(t, "querying")
    BY <1>1, TaskForms
  <2> HIDE DEF t
  <2>3. OneTask(m, t) /\ t \in Tasks /\ t.state = "querying"
    BY <2>1, <2>2 DEF Is, t
  <2>4. task'[m] = t
    BY <1>1, <2>3 DEF OneTask
  <2>5. repair' \in Repairs /\ repair'.month = m /\ repair'.expected = t
    BY <2>1, <2>3, <2>4, RepairMonthsAreNumbers, ClaimForm DEF Works
  <2>6. /\ retained' \in [RepairMonths -> {"none", "stale", "fresh"}]
        /\ \A o \in RepairMonths \ {m} : retained'[o] = retained[o]
    BY <1>1, <2>1
  <2>7. task[m].state # "cancelled" /\ UNCHANGED <<cancelling, schedules>>
    BY <1>8, <2>1 DEF ClaimMonth, Claimable, Active, ActiveStates
  <2> QED
    BY <2>3, <2>5, <2>6, <2>7, OneTaskIs
<1>9. CASE ClaimReturns
  <2>1. /\ task' = task /\ retained' = retained /\ cancelling' = cancelling
        /\ schedules' = schedules /\ repair.at # "rest" /\ repair' = NowAt(repair, "query")
    BY <1>9 DEF ClaimReturns, NowAt
  <2>2. repair' \in Repairs /\ SameClaim(repair, repair')
    BY <1>1, <2>1, NowAtForm DEF RepairAts, Works
  <2> QED
    BY <1>1, <2>1, <2>2, WorkGoesOn
<1>10. ASSUME NEW kept \in BOOLEAN, MonthAnswered(kept)
       PROVE  TaskInv' /\ AttemptsEnd
  <2>1. /\ task' = task /\ cancelling' = cancelling
        /\ schedules' = schedules /\ repair.at # "rest" /\ repair' = NowAt(repair, "settle")
        /\ retained' \in {[retained EXCEPT ![repair.month] = "fresh"], retained}
    BY <1>10 DEF MonthAnswered, NowAt
  <2>2. repair' \in Repairs /\ SameClaim(repair, repair')
    BY <1>1, <2>1, NowAtForm DEF RepairAts, Works
  <2>3. /\ retained' \in [RepairMonths -> {"none", "stale", "fresh"}]
        /\ \A o \in RepairMonths : retained'[o] = retained[o] \/ retained'[o] = "fresh"
    BY <1>1, <2>1
  <2> QED
    BY <1>1, <2>1, <2>2, <2>3, WorkGoesOn
<1>11. CASE MonthFails
  <2>1. /\ task' = task /\ retained' = retained /\ cancelling' = cancelling
        /\ schedules' = schedules /\ repair.at # "rest" /\ repair' = NowAt(repair, "fail")
    BY <1>11 DEF MonthFails, NowAt
  <2>2. repair' \in Repairs /\ SameClaim(repair, repair')
    BY <1>1, <2>1, NowAtForm DEF RepairAts, Works
  <2> QED
    BY <1>1, <2>1, <2>2, WorkGoesOn
<1>12. CASE Settle
  <2> DEFINE m == repair.month
             success == repair.at = "settle" /\ IsRetained
             over == IF success THEN "complete"
                     ELSE IF repair.expected.attempts >= MaxAttempts THEN "failed" ELSE "waiting"
             t == EndedTask(repair.expected, over, success)
  <2>1. /\ repair.at # "rest" /\ repair' = NoRepair
        /\ UNCHANGED <<retained, cancelling, schedules>>
        /\ task' = IF repair.owns /\ StillClaimed THEN [task EXCEPT ![m] = t] ELSE task
    BY <1>12 DEF Settle, EndedTask
  <2>2. /\ success \in BOOLEAN /\ over \in {"complete", "failed", "waiting"}
        /\ over = "complete" => retained[m] = "fresh"
    BY DEF IsRetained
  <2> HIDE DEF success, over
  <2>3. CASE repair.owns /\ StillClaimed
    <3>1. /\ m \in RepairMonths /\ repair.expected \in Tasks /\ over \in TaskStates
          /\ task[m].state = "querying"
      BY <1>1, <1>2, <2>1, <2>2, <2>3 DEF StillClaimed, Repairs, TaskStates
    <3>2. Is(t, over)
      BY <2>2, <3>1, TaskForms
    <3>3. OneTask(m, t)
      BY <2>1, <2>3 DEF OneTask
    <3> HIDE DEF t
    <3>4. t \in Tasks /\ t.state = over
      BY <3>2 DEF Is
    <3>5. /\ retained' \in [RepairMonths -> {"none", "stale", "fresh"}]
          /\ \A o \in RepairMonths \ {m} : retained'[o] = retained[o]
          /\ t.state = "complete" => retained'[m] = "fresh"
      BY <1>1, <2>1, <2>2, <3>4
    <3>6. repair' \in Repairs /\ repair'.at = "rest"
      BY <1>4, <2>1
    <3> QED
      BY <2>1, <2>2, <3>1, <3>3, <3>4, <3>5, <3>6, OneTaskIs
  <2>4. CASE ~(repair.owns /\ StillClaimed)
    <3>1. task' = task
      BY <2>1, <2>4
    <3> QED
      BY <1>1, <1>4, <2>1, <3>1, NoTaskChanges
  <2> QED
    BY <2>3, <2>4
<1>13. ASSUME NEW m \in RepairMonths, BecomesDue(m)
       PROVE  TaskInv' /\ AttemptsEnd
  <2> DEFINE t == DueTask(task[m])
  <2>1. /\ Active(m) /\ OneTask(m, t) /\ UNCHANGED <<retained, cancelling, schedules>>
        /\ repair' = IF repair.expected = task[m] THEN Expects(repair, task'[m]) ELSE repair
    BY <1>13 DEF BecomesDue, DueTask, OneTask, Expects
  <2>2. Is(t, task[m].state)
    BY <1>1, TaskForms
  <2> HIDE DEF t
  <2>3. t \in Tasks /\ t.state = task[m].state
    BY <2>2 DEF Is
  <2>4. task'[m] = t
    BY <1>1, <2>1 DEF OneTask
  <2>5. /\ repair' \in Repairs
        /\ repair'.at # "rest" => repair'.month \in RepairMonths /\ repair'.expected.state = "querying"
    <3>1. CASE repair.expected = task[m]
      <4>1. repair' = Expects(repair, t)
        BY <2>1, <2>4, <3>1
      <4>2. /\ repair' \in Repairs /\ repair'.at = repair.at /\ repair'.month = repair.month
            /\ repair'.expected = t
        BY <1>1, <2>3, <4>1, ExpectsForm DEF Works
      <4> QED
        BY <1>2, <2>3, <3>1, <4>2
    <3>2. CASE repair.expected # task[m]
      BY <1>1, <1>2, <2>1, <3>2
    <3> QED
      BY <3>1, <3>2
  <2>6. /\ task[m].state \notin {"none", "complete", "cancelled"}
        /\ retained' = retained
    BY <2>1 DEF Active, ActiveStates
  <2> QED
    BY <1>1, <2>1, <2>3, <2>5, <2>6, OneTaskIs
<1>14. ASSUME NEW m \in RepairMonths, DayPasses(m)
       PROVE  TaskInv' /\ AttemptsEnd
  <2> DEFINE t == AgedTask(task[m])
  <2>1. OneTask(m, t) /\ UNCHANGED <<retained, repair, cancelling, schedules>>
    BY <1>14 DEF DayPasses, AgedTask, OneTask
  <2>2. Is(t, task[m].state)
    BY <1>1, TaskForms
  <2> HIDE DEF t
  <2>3. t \in Tasks /\ t.state = task[m].state
    BY <2>2 DEF Is
  <2>4. t.state = "complete" => retained'[m] = "fresh"
    BY <2>1, <2>3 DEF TaskInv, CompleteIsRetained
  <2>5. Active(m) => t.state # "none"
    BY <2>3 DEF Active, ActiveStates
  <2> QED
    BY <1>1, <1>2, <2>1, <2>3, <2>4, <2>5, OneTaskIs
<1>15. ASSUME NEW m \in RepairMonths, MonthPolled(m)
       PROVE  TaskInv' /\ AttemptsEnd
  <2>1. /\ retained' = [retained EXCEPT ![m] = "fresh"]
        /\ UNCHANGED <<task, repair, cancelling, schedules>>
    BY <1>15 DEF MonthPolled
  <2>2. /\ retained' \in [RepairMonths -> {"none", "stale", "fresh"}]
        /\ \A o \in RepairMonths : retained'[o] = retained[o] \/ retained'[o] = "fresh"
    BY <1>1, <2>1
  <2> QED
    BY <1>1, <1>2, <2>1, <2>2, NoTaskChanges
<1>16. CASE RepairDisowned
  <2>1. /\ task' = task /\ retained' = retained /\ cancelling' = cancelling
        /\ schedules' = schedules /\ repair.at # "rest" /\ repair' = NotOwner(repair)
    BY <1>16 DEF RepairDisowned, NotOwner
  <2>2. repair' \in Repairs /\ SameClaim(repair, repair')
    BY <1>1, <2>1, NotOwnerForm DEF Works
  <2> QED
    BY <1>1, <2>1, <2>2, WorkGoesOn
<1>17. CASE RepairStops
  <2>1. /\ task' = task /\ retained' = retained /\ cancelling' = {} /\ schedules' = schedules
        /\ repair' = NoRepair
    BY <1>17 DEF RepairStops
  <2> QED
    BY <1>1, <1>4, <2>1, NoTaskChanges
<1> QED
  BY <1>5, <1>6, <1>7, <1>8, <1>9, <1>10, <1>11, <1>12, <1>13, <1>14, <1>15, <1>16, <1>17
     DEF RepairNext, RepairSteps

-----------------------------------------------------------------------------
(***************************************************************************)
(* The reconstruction.                                                     *)
(***************************************************************************)
Healths == {"absent", "sound", "drift", "broken", "lost"}
RebuildStates == {"none", "pending_backup", "running", "paused", "blocked_recovery", "complete",
                  "with_gaps", "cancelled"}
Rebuilds == [state : RebuildStates, id : Nat, upper : Nat, total : Nat, after : Nat, checked : Nat,
             repaired : Nat, partly : Nat, blocked : Nat, corrupt : Nat, changed : BOOLEAN,
             hash : BOOLEAN, searching : BOOLEAN, pendingRepaired : BOOLEAN]

\* While nobody else has changed the archive, what is behind the cursor of a job without blocked
\* rides is sound.
BehindIsSound ==
    ~moved /\ ~rebuild.changed /\ rebuild.blocked = 0 =>
        \A r \in Present : r <= rebuild.after => r \in examined /\ health[r] = "sound"

\* A complete job has no blocked ride and its cursor is behind its last ride.
CompleteIsBehind ==
    rebuild.state = "complete" /\ ~moved =>
        /\ ~rebuild.changed /\ rebuild.blocked = 0
        /\ \A r \in Present : r <= rebuild.upper => r <= rebuild.after

RebuildInv ==
    /\ health \in [Saved -> Healths] /\ rebuild \in Rebuilds /\ moved \in BOOLEAN
    /\ touched => rebuild.hash
    /\ captured
    /\ BehindIsSound /\ CompleteIsBehind

LEMMA SavedAreNumbers == ASSUME ReconstructionAssumption
                         PROVE  Saved \subseteq Nat \ {0} /\ Cardinality(Saved) \in Nat
                                /\ Saved = 1..Cardinality(Saved)
<1> DEFINE n == Cardinality(Saved)
<1>1. n \in Nat /\ Saved = 1..n
  BY FS_CardinalityType DEF ReconstructionAssumption
<1> HIDE DEF n
<1>2. Saved \subseteq Nat \ {0}
  BY <1>1
<1> QED
  BY <1>1, <1>2 DEF n

\* The last ride is a number.
LEMMA MaxIsNumber ==
    ASSUME ReconstructionAssumption, NEW T \in SUBSET Saved, T # {} PROVE Max(T) \in Nat
<1> DEFINE n == Cardinality(Saved)
           U == {k \in Nat : n - k \in T}
<1>1. n \in Nat /\ Saved = 1..n
  BY SavedAreNumbers
<1> HIDE DEF n
<1>2. \A x \in T : x \in Nat /\ n - x \in Nat /\ n - (n - x) = x
  BY <1>1
<1>3. U # {} /\ U \in SUBSET Nat
  BY <1>2
<1>4. PICK k \in U : \A j \in U : k <= j
  BY <1>3, Least
<1>5. n - k \in T /\ \A y \in T : n - k >= y
  <2>1. n - k \in T /\ k \in Nat
    BY <1>4
  <2>2. ASSUME NEW y \in T PROVE n - k >= y
    <3>1. n - y \in U
      BY <1>2
    <3>2. k <= n - y
      BY <1>4, <3>1
    <3> QED
      BY <1>1, <1>2, <2>1, <3>2
  <2> QED
    BY <2>1, <2>2
<1>6. \E x \in T : \A y \in T : x >= y
  BY <1>5
<1>7. Max(T) \in T
  BY <1>6 DEF Max
<1> QED
  BY <1>2, <1>7

\* One ride is accounted for.
IsAccounted(k, j, r, verdict) ==
    /\ k \in Rebuilds /\ k.state = j.state /\ k.upper = j.upper /\ k.changed = j.changed
    /\ k.hash = j.hash
    /\ verdict = "searching" => k.after = j.after /\ k.blocked = j.blocked
    /\ verdict # "searching" =>
          k.after = r /\ (k.blocked = 0 => j.blocked = 0 /\ verdict \in {"healthy", "repairable"})

LEMMA AccountedForm ==
    ASSUME NEW j \in Rebuilds, NEW r \in Nat, NEW verdict
    PROVE  IsAccounted(Accounted(j, r, verdict), j, r, verdict)
<1> DEFINE changedIt == verdict = "repairable" \/ j.pendingRepaired
           good == verdict \in {"healthy", "repairable"}
           a == j.checked + 1
           b == j.repaired + (IF changedIt /\ good THEN 1 ELSE 0)
           c == j.partly + (IF changedIt /\ ~good THEN 1 ELSE 0)
           d == j.blocked + (IF good THEN 0 ELSE 1)
           e == j.corrupt + (IF verdict = "corrupt" THEN 1 ELSE 0)
           k == Accounted(j, r, verdict)
<1>1. /\ j.checked \in Nat /\ j.repaired \in Nat /\ j.partly \in Nat /\ j.blocked \in Nat
      /\ j.corrupt \in Nat
  BY DEF Rebuilds
<1>2. a \in Nat /\ b \in Nat /\ c \in Nat /\ d \in Nat /\ e \in Nat /\ changedIt \in BOOLEAN
  BY <1>1 DEF Rebuilds
<1>3. d = 0 => j.blocked = 0 /\ good
  BY <1>1
<1>4. CASE verdict = "searching"
  <2>1. k = [j EXCEPT !.searching = TRUE, !.pendingRepaired = changedIt]
    BY <1>4 DEF Accounted
  <2> HIDE DEF changedIt, k
  <2>2. IsAccounted(k, j, r, verdict)
    BY <1>2, <1>4, <2>1 DEF Rebuilds, IsAccounted
  <2> QED
    BY <2>2 DEF k
<1>5. CASE verdict # "searching"
  <2>1. k = [j EXCEPT !.after = r, !.checked = a, !.searching = FALSE, !.pendingRepaired = FALSE,
                      !.repaired = b, !.partly = c, !.blocked = d, !.corrupt = e]
    BY <1>5 DEF Accounted
  <2> HIDE DEF changedIt, good, a, b, c, d, e, k
  <2>2. /\ k \in Rebuilds /\ k.state = j.state /\ k.upper = j.upper /\ k.changed = j.changed
        /\ k.hash = j.hash /\ k.after = r /\ k.blocked = d
    BY <1>2, <2>1 DEF Rebuilds
  <2>3. IsAccounted(k, j, r, verdict)
    BY <1>3, <1>5, <2>2 DEF IsAccounted, good
  <2> QED
    BY <2>3 DEF k
<1> QED
  BY <1>4, <1>5

\* The job of a step, and its other changes.
Running(j, isMoved) == [j EXCEPT !.state = "running", !.hash = TRUE, !.changed = @ \/ isMoved]
InState(j, state) == [j EXCEPT !.state = state]
Evidence(k, j) == k.after = j.after /\ k.blocked = j.blocked /\ k.upper = j.upper

LEMMA InStateForm ==
    \A j \in Rebuilds, state \in RebuildStates :
        LET k == InState(j, state)
        IN  /\ k \in Rebuilds /\ k.state = state /\ Evidence(k, j) /\ k.changed = j.changed
            /\ k.hash = j.hash
BY DEF InState, Rebuilds, Evidence

IsRunning(k, j, isMoved) ==
    /\ k \in Rebuilds /\ k.state = "running" /\ Evidence(k, j)
    /\ k.hash = TRUE /\ k.changed = (j.changed \/ isMoved)
LEMMA RunningForm ==
    ASSUME NEW j \in Rebuilds, NEW isMoved \in BOOLEAN
    PROVE  IsRunning(Running(j, isMoved), j, isMoved)
<1> DEFINE k == Running(j, isMoved)
           state == "running"
           hash == TRUE
           changed == j.changed \/ isMoved
<1>1. /\ changed \in BOOLEAN /\ hash \in BOOLEAN /\ state \in RebuildStates
      /\ k = [j EXCEPT !.state = state, !.hash = hash, !.changed = changed]
  BY DEF Rebuilds, RebuildStates, Running
<1> HIDE DEF k, state, hash, changed
<1>2. /\ k \in Rebuilds /\ k.state = state /\ Evidence(k, j) /\ k.hash = hash
      /\ k.changed = changed
  BY <1>1 DEF Rebuilds, Evidence
<1> QED
  BY <1>2 DEF IsRunning, k, state, hash, changed

\* What a step finds.
LEMMA VerdictIs ==
    ASSUME NEW r \in Saved, health \in [Saved -> Healths], health[r] # "absent",
           Verdict(r) = "healthy"
    PROVE  health[r] = "sound"
BY DEF Verdict, Healths

\* The job changes and neither the archive nor what was examined does.
LEMMA OnlyTheJobChanges ==
    ASSUME RebuildInv, rebuild' \in Rebuilds, moved' = moved, Evidence(rebuild', rebuild),
           rebuild'.changed = rebuild.changed, rebuild'.hash = rebuild.hash,
           rebuild'.state = "complete" => rebuild.state = "complete",
           UNCHANGED <<health, examined, touched>>, captured'
    PROVE  RebuildInv'
<1>1. BehindIsSound'
  BY DEF RebuildInv, BehindIsSound, Evidence, Present
<1>2. CompleteIsBehind'
  BY DEF RebuildInv, CompleteIsBehind, Evidence, Present
<1> QED
  BY <1>1, <1>2 DEF RebuildInv

\* The transaction of a step.
LEMMA CommitKeeps ==
    ASSUME ReconstructionAssumption, RebuildInv, NEW owner \in BOOLEAN, CommitStep(owner)
    PROVE  RebuildInv'
<1> DEFINE todo == {r \in Present : rebuild.after < r /\ r <= rebuild.upper}
           j == Running(rebuild, moved)
<1>1. /\ health \in [Saved -> Healths] /\ rebuild \in Rebuilds /\ moved \in BOOLEAN /\ captured
      /\ rebuild.after \in Nat /\ rebuild.upper \in Nat /\ rebuild.blocked \in Nat
  BY DEF RebuildInv, Rebuilds
<1>2. /\ j \in Rebuilds /\ j.state = "running" /\ Evidence(j, rebuild) /\ j.hash = TRUE
      /\ j.changed = (rebuild.changed \/ moved)
  <2>1. IsRunning(j, rebuild, moved)
    BY <1>1, RunningForm
  <2> HIDE DEF j
  <2> QED
    BY <2>1 DEF IsRunning
<1>3. moved' = FALSE /\ captured' = captured
  BY DEF CommitStep
<1>4. CASE todo = {}
  <2> DEFINE state == IF j.blocked > 0 \/ j.changed THEN "with_gaps" ELSE "complete"
  <2>1. rebuild' = InState(j, state) /\ UNCHANGED <<health, examined, touched>>
    BY <1>4 DEF CommitStep, Running, InState
  <2>2. state \in RebuildStates /\ (state = "complete" => ~(j.blocked > 0) /\ ~j.changed)
    BY DEF RebuildStates
  <2> HIDE DEF state, j
  <2>3. /\ rebuild' \in Rebuilds /\ rebuild'.state = state /\ Evidence(rebuild', rebuild)
        /\ rebuild'.changed = (rebuild.changed \/ moved) /\ rebuild'.hash
    BY <1>2, <2>1, <2>2, InStateForm DEF Evidence
  <2>4. \A r \in Present : r <= rebuild.upper => r <= rebuild.after
    BY <1>1, <1>4, SavedAreNumbers DEF Present
  <2>5. BehindIsSound'
    BY <1>1, <1>3, <2>1, <2>3 DEF RebuildInv, BehindIsSound, Evidence, Present
  <2>6. state = "complete" => rebuild.blocked = 0 /\ ~rebuild.changed /\ ~moved
    BY SMTT(30), <1>1, <1>2, <2>2 DEF Evidence, Rebuilds
  <2>7. CompleteIsBehind'
    BY <1>1, <2>1, <2>3, <2>4, <2>6 DEF CompleteIsBehind, Evidence, Present
  <2> QED
    BY <1>1, <1>3, <2>1, <2>3, <2>5, <2>7 DEF RebuildInv
<1>5. CASE todo # {}
  <2> DEFINE r == Min(todo)
             verdict == Verdict(r)
  <2>1. /\ rebuild' = Accounted(j, r, verdict)
        /\ health' = [health EXCEPT ![r] = IF verdict = "repairable" THEN "sound" ELSE @]
        /\ examined' = IF verdict = "searching" THEN examined ELSE examined \union {r}
    BY <1>5 DEF CommitStep, Running
  <2>2. r \in todo /\ \A s \in todo : r <= s
    <3>1. todo \in SUBSET Nat
      BY SavedAreNumbers DEF Present
    <3> HIDE DEF todo
    <3> QED
      BY <1>5, <3>1, MinIsLeast
  <2> HIDE DEF r
  <2>3. /\ r \in Saved /\ r \in Nat /\ health[r] # "absent" /\ rebuild.after < r
        /\ r <= rebuild.upper
        /\ \A s \in Present : rebuild.after < s /\ s <= rebuild.upper => r <= s
    BY <2>2, SavedAreNumbers DEF Present
  <2> HIDE DEF verdict, j, todo
  <2>4. IsAccounted(rebuild', j, r, verdict)
    BY <1>2, <2>1, <2>3, AccountedForm
  <2>5. verdict = "healthy" => health[r] = "sound"
    BY <1>1, <2>3, VerdictIs DEF verdict
  <2>6. /\ health' \in [Saved -> Healths]
        /\ health'[r] = IF verdict = "repairable" THEN "sound" ELSE health[r]
        /\ \A s \in Saved \ {r} : health'[s] = health[s]
    BY <1>1, <2>1, <2>3 DEF Healths
  <2>7. \A s \in Saved : health'[s] = "absent" <=> health[s] = "absent"
    BY <2>3, <2>6
  <2>8. /\ rebuild' \in Rebuilds /\ rebuild'.state = "running" /\ rebuild'.hash
        /\ rebuild'.changed = (rebuild.changed \/ moved)
    BY <1>2, <2>4 DEF IsAccounted
  <2>9. BehindIsSound'
    <3> SUFFICES ASSUME ~rebuild'.changed, rebuild'.blocked = 0,
                        NEW s \in Saved, health'[s] # "absent", s <= rebuild'.after
                 PROVE  s \in examined' /\ health'[s] = "sound"
      BY DEF BehindIsSound, Present
    <3>1. ~rebuild.changed /\ ~moved /\ s \in Nat /\ health[s] # "absent"
      BY <2>7, <2>8, SavedAreNumbers
    <3>2. CASE verdict = "searching"
      <4>1. rebuild.blocked = 0 /\ s <= rebuild.after
        BY <1>2, <2>4, <3>2 DEF IsAccounted, Evidence
      <4>2. s \in examined /\ health[s] = "sound"
        BY <3>1, <4>1 DEF RebuildInv, BehindIsSound, Present
      <4>3. s # r
        BY <1>1, <2>3, <4>1
      <4> QED
        BY <2>1, <2>6, <3>2, <4>2, <4>3
    <3>3. CASE verdict # "searching"
      <4>1. rebuild.blocked = 0 /\ s <= r /\ verdict \in {"healthy", "repairable"}
        BY <1>2, <2>4, <3>3 DEF IsAccounted, Evidence
      <4>2. CASE s = r
        BY <2>1, <2>3, <2>5, <2>6, <3>3, <4>1, <4>2
      <4>3. CASE s # r
        <5>1. s <= rebuild.after
          BY <1>1, <2>3, <3>1, <4>1, <4>3 DEF Present
        <5>2. s \in examined /\ health[s] = "sound"
          BY <3>1, <4>1, <5>1 DEF RebuildInv, BehindIsSound, Present
        <5> QED
          BY <2>1, <2>6, <4>3, <5>2
      <4> QED
        BY <4>2, <4>3
    <3> QED
      BY <3>2, <3>3
  <2>10. CompleteIsBehind'
    BY <2>8 DEF CompleteIsBehind
  <2> QED
    BY <1>1, <1>3, <2>6, <2>8, <2>9, <2>10 DEF RebuildInv
<1> QED
  BY <1>4, <1>5

\* Every step.
LEMMA RebuildStepKeeps ==
    ASSUME ReconstructionAssumption, RebuildInv, RebuildNext PROVE RebuildInv'
<1>1. health \in [Saved -> Healths] /\ rebuild \in Rebuilds /\ moved \in BOOLEAN /\ captured
  BY DEF RebuildInv
<1>2. \A k \in Rebuilds : Evidence(k, k)
  BY DEF Evidence
<1>3. CASE StartRebuild
  <2> DEFINE upper == IF Present = {} THEN 0 ELSE Max(Present)
             state == IF Present = {} THEN "complete" ELSE "pending_backup"
  <2>1. /\ rebuild' = [NoRebuild EXCEPT !.id = rebuild.id + 1, !.total = Cardinality(Present),
                                        !.upper = upper, !.state = state]
        /\ moved' = FALSE /\ touched' = FALSE /\ captured' = TRUE /\ health' = health
    BY <1>3 DEF StartRebuild
  <2>2. upper \in Nat /\ Cardinality(Present) \in Nat /\ rebuild.id + 1 \in Nat
    <3>1. Present \in SUBSET Saved /\ IsFiniteSet(Present)
      BY FS_Subset DEF Present, ReconstructionAssumption
    <3>2. Cardinality(Present) \in Nat
      BY <3>1, FS_CardinalityType
    <3>3. upper \in Nat
      BY <3>1, MaxIsNumber
    <3>4. rebuild.id \in Nat
      BY <1>1 DEF Rebuilds
    <3> QED
      BY <3>2, <3>3, <3>4
  <2>3. state \in RebuildStates /\ (state = "complete" => Present = {})
    BY DEF RebuildStates
  <2> HIDE DEF upper, state
  <2>4. /\ rebuild' \in Rebuilds /\ rebuild'.after = 0 /\ rebuild'.blocked = 0
        /\ rebuild'.state = state
        /\ ~rebuild'.changed
    <3> DEFINE total == Cardinality(Present)
               id == rebuild.id + 1
    <3> HIDE DEF total, id
    <3>1. ASSUME NEW k, k = [NoRebuild EXCEPT !.id = id, !.total = total, !.upper = upper,
                                              !.state = state]
          PROVE  /\ k \in Rebuilds /\ k.after = 0 /\ k.blocked = 0 /\ k.state = state
                 /\ ~k.changed
      <4>1. NoRebuild \in Rebuilds /\ NoRebuild.after = 0 /\ NoRebuild.blocked = 0
            /\ NoRebuild.changed = FALSE
        BY DEF NoRebuild, Rebuilds, RebuildStates
      <4>2. id \in Nat /\ total \in Nat
        BY <2>2 DEF id, total
      <4> QED
        BY <2>2, <2>3, <3>1, <4>1, <4>2 DEF Rebuilds
    <3>2. rebuild' = [NoRebuild EXCEPT !.id = id, !.total = total, !.upper = upper,
                                       !.state = state]
      BY <2>1 DEF id, total
    <3> QED
      BY <3>1, <3>2
  <2>5. BehindIsSound'
    <3>1. \A s \in Saved : ~(s <= 0)
      BY SavedAreNumbers
    <3> QED
      BY <2>4, <3>1 DEF BehindIsSound, Present
  <2>6. CompleteIsBehind'
    BY <2>1, <2>3, <2>4 DEF CompleteIsBehind, Present
  <2> QED
    BY <1>1, <2>1, <2>4, <2>5, <2>6 DEF RebuildInv
<1>4. ASSUME NEW s \in {"paused", "cancelled"}, PauseOrCancel(s)
      PROVE  RebuildInv'
  <2>1. rebuild' = InState(rebuild, s) /\ UNCHANGED <<health, moved, examined, touched, captured>>
    BY <1>4 DEF PauseOrCancel, InState
  <2>2. s \in RebuildStates /\ s # "complete"
    BY DEF RebuildStates
  <2> QED
    BY <1>1, <2>1, <2>2, InStateForm, OnlyTheJobChanges
<1>5. ASSUME NEW owner \in BOOLEAN, PublishPoint(owner)
      PROVE  RebuildInv'
  <2>1. /\ captured' = ~touched /\ ~rebuild.hash
        /\ UNCHANGED <<health, moved, examined, touched, rebuild>>
    BY <1>5 DEF PublishPoint, MayPublish
  <2>2. ~touched
    BY <2>1 DEF RebuildInv
  <2>3. captured'
    BY <2>1, <2>2
  <2> QED
    BY <1>1, <1>2, <2>1, <2>3, OnlyTheJobChanges
<1>6. ASSUME NEW owner \in BOOLEAN, PointFails(owner)
      PROVE  RebuildInv'
  <2>1. /\ rebuild' = InState(rebuild, "blocked_recovery")
        /\ UNCHANGED <<health, moved, examined, touched, captured>>
    BY <1>6 DEF PointFails, InState
  <2>2. "blocked_recovery" \in RebuildStates
    BY DEF RebuildStates
  <2> QED
    BY <1>1, <2>1, <2>2, InStateForm, OnlyTheJobChanges
<1>7. ASSUME NEW owner \in BOOLEAN, CommitStep(owner)
      PROVE  RebuildInv'
  BY <1>7, CommitKeeps
<1>8. CASE StepLost
  <2>1. UNCHANGED <<health, moved, examined, touched, captured, rebuild>>
    BY <1>8 DEF StepLost
  <2> QED
    BY <1>1, <1>2, <2>1, OnlyTheJobChanges
<1>9. ASSUME NEW r \in Saved, NEW h \in {"drift", "lost"}, OutsideChange(r, h)
      PROVE  RebuildInv'
  <2>1. /\ health' = [health EXCEPT ![r] = h] /\ moved' = TRUE
        /\ UNCHANGED <<examined, touched, captured, rebuild>>
    BY <1>9 DEF OutsideChange
  <2>2. health' \in [Saved -> Healths]
    BY <1>1, <2>1 DEF Healths
  <2>3. BehindIsSound' /\ CompleteIsBehind'
    BY <2>1 DEF BehindIsSound, CompleteIsBehind
  <2> QED
    BY <1>1, <2>1, <2>2, <2>3 DEF RebuildInv
<1>10. ASSUME NEW how \in {"none", "bad"}, PointDamaged(how)
       PROVE  RebuildInv'
  <2>1. UNCHANGED <<health, moved, examined, touched, captured, rebuild>>
    BY <1>10 DEF PointDamaged
  <2> QED
    BY <1>1, <1>2, <2>1, OnlyTheJobChanges
<1> QED
  BY <1>3, <1>4, <1>5, <1>6, <1>7, <1>8, <1>9, <1>10 DEF RebuildNext

-----------------------------------------------------------------------------
(***************************************************************************)
(* The three jobs of an archive.                                           *)
(***************************************************************************)
JobsAssumptions == SyncJobsAssumption /\ MonthTasksAssumption /\ ReconstructionAssumption
IInv == RangeInv /\ TaskInv /\ RebuildInv

LEMMA InitJobs == JobsAssumptions /\ Init => IInv
<1> SUFFICES ASSUME JobsAssumptions, Init PROVE IInv
  OBVIOUS
<1>1. RangeInv
  <2>1. /\ job = NoJob /\ saved = [m \in SyncMonths |-> "none"] /\ executor = Resting
        /\ control = NoControl /\ completeOnce = {}
    BY DEF Init, SyncInit
  <2>2. RangeTypes
    BY <2>1, NoJobIs, RestingForm DEF RangeTypes, Controls, NoControl, Holds
  <2>3. \A j \in {job, executor.job, control.put} : True(j, completeOnce)
    BY <2>1, NoJobIsTrue, RestingForm DEF NoControl, Holds
  <2>4. ActorsInv
    BY <2>1, RestingForm DEF ActorsInv, NoControl, Holds
  <2> QED
    BY <2>1, <2>2, <2>3, <2>4 DEF RangeInv
<1>2. TaskInv
  <2>1. /\ task = [m \in RepairMonths |-> NoTask] /\ retained = [m \in RepairMonths |-> "none"]
        /\ repair = NoRepair /\ cancelling = {} /\ schedules = 0
    BY DEF Init, RepairInit
  <2>2. CompleteIsRetained
    BY <2>1, NoTaskIs DEF CompleteIsRetained
  <2> QED
    BY <2>1, <2>2, NoTaskIs, NoRepairIs DEF TaskInv, Works
<1>3. RebuildInv
  <2>1. /\ health \in [Saved -> {"absent", "drift", "broken"}] /\ rebuild = NoRebuild
        /\ moved = FALSE /\ touched = FALSE /\ captured = TRUE
    BY DEF Init, RebuildInit
  <2>2. /\ NoRebuild \in Rebuilds /\ NoRebuild.after = 0 /\ NoRebuild.state = "none"
    BY DEF NoRebuild, Rebuilds, RebuildStates
  <2>3. \A s \in Saved : ~(s <= 0)
    BY SavedAreNumbers DEF JobsAssumptions
  <2>4. health \in [Saved -> Healths]
    BY <2>1 DEF Healths
  <2>5. BehindIsSound /\ CompleteIsBehind
    BY <2>1, <2>2, <2>3 DEF BehindIsSound, CompleteIsBehind, Present
  <2> QED
    BY <2>1, <2>2, <2>4, <2>5 DEF RebuildInv
<1> QED
  BY <1>1, <1>2, <1>3 DEF IInv

\* What rests stays as it is.
LEMMA RestingParts ==
    /\ RangeInv /\ UNCHANGED syncVars => RangeInv' /\ CancelledRests
    /\ TaskInv /\ UNCHANGED taskVars => TaskInv'
    /\ RebuildInv /\ UNCHANGED rebuildVars => RebuildInv'
<1>1. RangeInv /\ UNCHANGED syncVars => RangeInv' /\ CancelledRests
  BY DEF RangeInv, RangeTypes, ActorsInv, CancelledRests, syncVars
<1>2. TaskInv /\ UNCHANGED taskVars => TaskInv'
  BY DEF TaskInv, CompleteIsRetained, taskVars
<1>3. RebuildInv /\ UNCHANGED rebuildVars => RebuildInv'
  BY DEF RebuildInv, BehindIsSound, CompleteIsBehind, Present, rebuildVars
<1> QED
  BY <1>1, <1>2, <1>3

LEMMA JobsStep ==
    ASSUME JobsAssumptions, IInv, [Next]_vars
    PROVE  IInv' /\ CancelledRests /\ (AttemptsEnd \/ UNCHANGED taskVars)
<1>0. /\ SyncJobsAssumption /\ MonthTasksAssumption /\ ReconstructionAssumption
      /\ RangeInv /\ TaskInv /\ RebuildInv
  BY DEF JobsAssumptions, IInv
<1>1. CASE SyncNext /\ UNCHANGED <<mover, taskVars, rebuildVars>>
  BY <1>0, <1>1, RangeStepKeeps, RestingParts DEF IInv
<1>2. CASE RepairNext /\ UNCHANGED <<mover, syncVars, rebuildVars>>
  BY <1>0, <1>2, RepairStepKeeps, RestingParts DEF IInv
<1>3. CASE RebuildNext /\ UNCHANGED <<mover, syncVars, taskVars>>
  BY <1>0, <1>3, RebuildStepKeeps, RestingParts DEF IInv
<1>4. CASE UNCHANGED vars
  <2>1. UNCHANGED <<syncVars, taskVars, rebuildVars>>
    BY <1>4 DEF vars
  <2> QED
    BY <1>0, <2>1, RestingParts DEF IInv
<1> QED
  BY <1>1, <1>2, <1>3, <1>4 DEF Next, Moves

\* What a job reports as complete is true.
LEMMA CompleteFollows == JobsAssumptions /\ IInv => CompleteIsTrue
<1> SUFFICES ASSUME JobsAssumptions, IInv PROVE CompleteIsTrue
  OBVIOUS
<1>1. AllCompleteIsTrue
  <2> SUFFICES ASSUME job.state = "complete", job.incomplete = {}, job.unknown = {},
                      NEW m \in job.lo..job.hi
               PROVE  m \in completeOnce
    BY DEF AllCompleteIsTrue
  <2>1. job \in RangeJobs /\ True(job, completeOnce)
    BY DEF IInv, RangeInv, RangeTypes
  <2>2. job.next = 0 /\ job.lo \in SyncMonths
    BY <2>1 DEF True, Placed
  <2>3. job.lo \in Nat \ {0} /\ job.hi \in Nat
    BY <2>1, <2>2, MonthsAreNumbers DEF JobsAssumptions, RangeJobs
  <2>4. m > job.next
    BY <2>2, <2>3
  <2> QED
    BY <2>1, <2>4 DEF True, Covered
<1>2. CompleteIsRetained
  BY DEF IInv, TaskInv
<1>3. CompleteIsClean
  <2> SUFFICES ASSUME rebuild.state = "complete", NEW r \in Present, r <= rebuild.upper, ~moved
               PROVE  r \in examined /\ health[r] = "sound"
    BY DEF CompleteIsClean
  <2>1. ~rebuild.changed /\ rebuild.blocked = 0 /\ r <= rebuild.after
    BY DEF IInv, RebuildInv, CompleteIsBehind
  <2> QED
    BY <2>1 DEF IInv, RebuildInv, BehindIsSound
<1> QED
  BY <1>1, <1>2, <1>3 DEF CompleteIsTrue

\* The invariant holds.
LEMMA JobsInvariant == Spec => []IInv
<1>0. JobsAssumptions
  BY SyncJobsAssumption, MonthTasksAssumption, ReconstructionAssumption DEF JobsAssumptions
<1>1. Init => IInv
  BY <1>0, InitJobs
<1>2. IInv /\ [Next]_vars => IInv'
  BY <1>0, JobsStep
<1> QED
  BY <1>1, <1>2, PTL DEF Spec

\* Whatever a durable job reports as complete was retained: the months of a range were once
\* recorded with a complete list (ride_archive.py: record_rides, async_skip_sync_month), the
\* answer of a repaired month is in the archive (month_tasks.py: finish), and a reconstruction
\* that nobody disturbed left every ride of its scope sound (reconstruction.py: step).
THEOREM CompletionsAreTrue == Spec => []CompleteIsTrue
<1>0. JobsAssumptions
  BY SyncJobsAssumption, MonthTasksAssumption, ReconstructionAssumption DEF JobsAssumptions
<1>1. IInv => CompleteIsTrue
  BY <1>0, CompleteFollows
<1> QED
  BY <1>1, JobsInvariant, PTL

\* A reconstruction changes the archive only after its recovery point was published and its
\* checksum recorded (ride_archive.py: _reconstruction_backup, local_reconstruction_step).
THEOREM RecoveryPrecedesRepairs == Spec => []PointPrecedesRepairs
<1>1. IInv => PointPrecedesRepairs
  BY DEF IInv, RebuildInv, PointPrecedesRepairs
<1> QED
  BY <1>1, JobsInvariant, PTL

\* A cancelled range stays cancelled until another is started, and a month's task is ended by
\* its own attempt or by a cancellation, whatever is scheduled, answered late or repeated
\* (history_sync.py: _advance, async_cancel; month_tasks.py: claim, finish, schedule).
THEOREM EndsStay == Spec => EndsAreFinal
<1>0. JobsAssumptions
  BY SyncJobsAssumption, MonthTasksAssumption, ReconstructionAssumption DEF JobsAssumptions
<1>1. /\ IInv /\ [Next]_vars => [job.state = "cancelled" => job' = job \/ job'.id # job.id]_syncVars
      /\ IInv /\ [Next]_vars => [\A m \in RepairMonths :
          /\ Active(m) => task'[m].state # "none"
          /\ task[m].state # "querying" => task'[m].state \in {task[m].state, "none", "pending",
                                                              "querying", "cancelled"}
          /\ task[m].state = "cancelled" => task'[m].state \in {"cancelled", "none", "pending"}
        ]_taskVars
  BY <1>0, JobsStep DEF CancelledRests, AttemptsEnd
<1> QED
  BY <1>1, JobsInvariant, PTL DEF Spec, EndsAreFinal, CancelledStays, OnlyItsAttemptEndsIt
=============================================================================
