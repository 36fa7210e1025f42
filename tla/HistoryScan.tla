---------------------------- MODULE HistoryScan ----------------------------
(***************************************************************************)
(* The discovery of one vehicle's ride history: the baseline plan that     *)
(* walks the months from the newest to the oldest, the single-month runs   *)
(* beside it, the page evidence both leave, and the recovery of the months *)
(* the baseline could not verify (history_plan.py, history_store.py,       *)
(* incremental_runs.py, gap_recovery.py, history_reuse.py, the history     *)
(* transactions of ride_archive.py and their callers bootstrap.py,         *)
(* incremental_sync.py and sync_actions.py).                               *)
(*                                                                         *)
(* Each action that changes a durable variable is one transaction of the   *)
(* archive, which runs alone; what a worker (the timer's tick, a service   *)
(* call) does between two of its transactions is not protected.  A crash   *)
(* is therefore the loss of the workers alone.  Time is left out: a lease  *)
(* or a retry date is a step that may be taken at any later moment.        *)
(***************************************************************************)
EXTENDS Integers, FiniteSets

CONSTANTS
    Newest,      \* the baseline covers the months 1 .. Newest
    Recent,      \* the months the automatic reconciliation looks at
    Settled,     \* the months before the previous one, which may be reused
    Runs,        \* the identities of the single-month runs
    Workers,     \* the tick and the service calls
    Base,        \* the identity of the baseline
    None,
    Rides,       \* identities of rides; a larger number is a newer ride
    Capacity,    \* bound: the rides a month ever has
    MaxPages,    \* pages of a month (MAX_PAGES)
    MaxActive,   \* active months (12 in schedule)
    MaxEvents    \* bound: changes of the cloud's lists, lost workers, failed or
                 \* malformed answers, pauses and explicit requests of a month

ASSUME ScanAssumption ==
    /\ Newest \in Nat \ {0} /\ MaxPages \in Nat \ {0} /\ MaxActive \in Nat \ {0}
    /\ MaxEvents \in Nat
    /\ Recent \subseteq 1..Newest /\ Settled \subseteq (1..Newest) \ Recent
    /\ Base \notin Runs /\ None \notin Runs \cup Workers \cup {Base}
    /\ Rides = 1..Cardinality(Rides) /\ IsFiniteSet(Rides) /\ IsFiniteSet(Runs)
    /\ Capacity \in [1..Newest -> 0..Cardinality(Rides)]

VARIABLES
    plan,      \* HistoryPlan of the baseline and of each run; holder is the
               \* worker whose copy is the current revision
    evidence,  \* history_pages, history_ids and history_months of a plan's month
    active,    \* history_run_active: the run a month points to
    link,      \* history_gap: the run that is to resolve a month's gap
    reused,    \* history_reuse: the run a month of the baseline was taken from
    token,     \* history_run_signature: what a run was scheduled for
    seen,      \* history_incremental_seen: the last list accounted for
    local,     \* the archive's own copy of a month
    paused,    \* "saved" in the archive, and then known to the workers ("yes")
    worker,    \* what each worker is doing
    cloud,     \* the rides the cloud lists
    born,      \* the newest ride it ever had in a month
    events     \* how many of the bounded steps were taken

durable == <<plan, evidence, active, link, reused, token, seen, local>>
outside == <<cloud, born>>
vars == <<plan, evidence, active, link, reused, token, seen, local, paused, worker, cloud,
          born, events>>

Months == 1..Newest
Plans == Runs \cup {Base}
Discovering == {"discover", "querying", "waiting"}
Discovered == {"preserve", "finished"}
TERMINAL == {"finished", "reconciled"}
States == {"absent"} \cup Discovering \cup Discovered \cup TERMINAL

\* A month's list as the signature sees it, and as the archive keeps it.
Lists == [list : SUBSET Rides, total : {-1} \cup (0..Cardinality(Rides))]
Replies == [kind : {"good", "missing", "schema"}, ids : SUBSET Rides,
            total : {-1} \cup (0..Cardinality(Rides)), listed : SUBSET Rides]

\* HistoryPlan.create
Created(first, last) ==
    [state |-> "discover", first |-> first, last |-> last, next |-> last, page |-> 1,
     holder |-> None]
NoPlan == [state |-> "absent", first |-> 0, last |-> 0, next |-> 0, page |-> 1, holder |-> None]
\* kept: the rides that were in the cloud's list from the first page on.
\* later: the verified list was received after the baseline's failed one.
NoEvidence == [pages |-> 0, ids |-> {}, total |-> 0, verified |-> "open", kept |-> {},
               later |-> FALSE]
NoMonth == [ids |-> {}, list |-> {}, total |-> -1, by |-> None]
Idle == [step |-> "idle"]

\* The archive of an account whose vehicle was just seeded (async_seed).
Init ==
    /\ plan = [p \in Plans |-> IF p = Base THEN Created(1, Newest) ELSE NoPlan]
    /\ evidence = [p \in Plans |-> [m \in Months |-> NoEvidence]]
    /\ active = [m \in Months |-> None] /\ link = [m \in Months |-> None]
    /\ reused = [m \in Months |-> None]
    /\ token = [r \in Runs |-> None] /\ seen = [m \in Months |-> None]
    /\ local = [m \in Months |-> NoMonth]
    /\ paused = "no"
    /\ worker = [w \in Workers |-> Idle]
    /\ born \in [Months -> {0} \cup Rides] /\ \A m \in Months : born[m] <= Capacity[m]
    /\ cloud = [m \in Months |-> 1..born[m]]
    /\ events = 0

Event == events < MaxEvents /\ events' = events + 1

\* The guard of every transaction reads the workers' flag; only the seeding of
\* gaps, reuse and accept also read the archive's, which is set before.
Unguarded == paused # "yes"
Unpaused == paused = "no"

-----------------------------------------------------------------------------
(* Runs: schedule, active, the gap's links.                                 *)

Gap(m) == evidence[Base][m].verified = "no"
Complete(r) == plan[r].state \in Discovered
GapMonths(r) == {m \in Months : evidence[r][m].verified = "no"}
Unfinished(r) == r # None /\ plan[r].state \notin TERMINAL

\* completed(): the run's whole chain of pages was verified, and received
\* after the list of the baseline that failed.
Resolves(r, m) ==
    r # None /\ Complete(r) /\ evidence[r][m].verified = "yes" /\ evidence[r][m].later
Unresolved(m) == Gap(m) /\ ~Resolves(link[m], m)

\* The run that schedule() returns for month m: the active one when it can
\* still do the work, otherwise a fresh one if there is room.
JoinsUnlessRetry(m, retry) == Unfinished(active[m]) /\ ~retry
Joins(m, retry) ==
    /\ Unfinished(active[m])
    /\ ~(retry /\ Complete(active[m]) /\ GapMonths(active[m]) # {})
Room(m) == Cardinality({n \in Months \ {m} : Unfinished(active[n])}) < MaxActive
Schedules(m, retry, r) ==
    IF Joins(m, retry) THEN r = active[m]
    ELSE r \in Runs /\ plan[r].state = "absent" /\ Room(m)
\* Its writes; a run that is joined is left as it is.
Scheduled(m, r) ==
    /\ plan' = IF plan[r].state = "absent" THEN [plan EXCEPT ![r] = Created(m, m)] ELSE plan
    /\ active' = [active EXCEPT ![m] = r]

\* `synchronize` with months or force: async_schedule_history_run.
ForceMonth(m, r) ==
    /\ Unguarded /\ Event
    /\ Schedules(m, FALSE, r) /\ Scheduled(m, r)
    /\ UNCHANGED <<evidence, link, reused, token, seen, local, paused, worker, outside>>

\* seed(): register a gap for (another) enumeration by a run of its month.
MayRetry(m) ==
    \/ link[m] = None
    \/ link[m] # None /\ Complete(link[m]) /\ GapMonths(link[m]) # {}
SeedGap(m, r) ==
    /\ Unpaused /\ Unresolved(m) /\ MayRetry(m)
    /\ IF Resolves(active[m], m) THEN r = active[m] ELSE Schedules(m, TRUE, r)
    /\ IF Resolves(active[m], m) THEN UNCHANGED <<plan, active>> ELSE Scheduled(m, r)
    /\ link' = [link EXCEPT ![m] = r]
    /\ UNCHANGED <<evidence, reused, token, seen, local, paused, worker, outside, events>>

-----------------------------------------------------------------------------
(* Pages: claim, call, accept or wait.                                      *)

\* async_claim_history_page.  A lease that another worker still uses lapses
\* only when its call takes longer than the lease (a fault).
Claim(w, p) ==
    LET at == plan[p] IN
    /\ Unguarded /\ worker[w] = Idle
    /\ at.state \in Discovering
    /\ p \in Runs => active[at.first] = p
    /\ IF \E v \in Workers : worker[v].step \in {"calling", "answered"} /\ worker[v].plan = p
       THEN Event ELSE UNCHANGED events
    /\ plan' = [plan EXCEPT ![p].state = "querying", ![p].holder = w]
    /\ worker' = [worker EXCEPT ![w] = [step |-> "calling", plan |-> p, month |-> at.next,
                                        page |-> at.page]]
    /\ UNCHANGED <<evidence, active, link, reused, token, seen, local, paused, outside>>

\* The cloud lists the newest rides first, one to a page.
Page(m, k) == {r \in cloud[m] : Cardinality({s \in cloud[m] : s >= r}) = k}
Reply(w, kind) ==
    LET m == worker[w].month k == worker[w].page IN
    [kind |-> kind,
     ids |-> IF kind = "schema" THEN {} ELSE Page(m, k),
     total |-> IF kind = "missing" THEN -1 ELSE Cardinality(cloud[m]),
     listed |-> IF k = 1 THEN cloud[m] ELSE {}]
Answered(w, kind) ==
    /\ worker[w].step = "calling"
    /\ worker' = [worker EXCEPT ![w] = [step |-> "answered", plan |-> @.plan, month |-> @.month,
                                        page |-> @.page, reply |-> Reply(w, kind)]]
Respond(w) == Answered(w, "good") /\ UNCHANGED <<durable, paused, outside, events>>
Malformed(w) ==
    /\ \E kind \in {"missing", "schema"} : Answered(w, kind)
    /\ Event /\ UNCHANGED <<durable, paused, outside>>

\* accept_page's verdict on reply r to page k after the evidence e.
ContradictsItself(e, r) ==
    r.kind # "good" \/ (r.ids # {} /\ r.ids \subseteq e.ids)
        \/ Cardinality(e.ids \cup r.ids) > r.total
Contradicts(e, r) ==
    \/ r.kind # "good"
    \/ e.pages > 0 /\ e.total # r.total
    \/ r.ids # {} /\ r.ids \subseteq e.ids
    \/ Cardinality(e.ids \cup r.ids) > r.total
Verifies(e, r) == ~Contradicts(e, r) /\ Cardinality(e.ids \cup r.ids) = r.total
EndsUnlimited(e, r, k) == Contradicts(e, r) \/ Verifies(e, r) \/ r.ids = {}
Ends(e, r, k) == Contradicts(e, r) \/ Verifies(e, r) \/ r.ids = {} \/ k = MaxPages

\* The worker's copy is the current revision (put_root, accept_page).
AnyCopy(w) == plan[worker[w].plan].state = "querying"
Current(w) == plan[worker[w].plan].holder = w /\ plan[worker[w].plan].state = "querying"
AdmittedPaused(w) == Unguarded /\ Current(w)
Admitted(w) == Unpaused /\ Current(w)

\* page_committed
AdvancedKeepingPage(p, m, k, ends) ==
    [plan EXCEPT ![p].state = IF ~ends \/ m # plan[p].first THEN "discover" ELSE "preserve",
                 ![p].next = IF ~ends THEN m ELSE IF m = plan[p].first THEN 0 ELSE m - 1,
                 ![p].page = IF ends THEN k ELSE k + 1, ![p].holder = None]
Advanced(p, m, k, ends) ==
    IF ~ends
    THEN [plan EXCEPT ![p].state = "discover", ![p].page = k + 1, ![p].holder = None]
    ELSE [plan EXCEPT ![p].state = IF m = plan[p].first THEN "preserve" ELSE "discover",
                      ![p].next = IF m = plan[p].first THEN 0 ELSE m - 1,
                      ![p].page = 1, ![p].holder = None]

\* The page's evidence and verdict (the rest of accept_page).
Judged(p, m, k, r, verified, ends) ==
    LET e == evidence[p][m] IN
    [evidence EXCEPT ![p][m] =
        [pages |-> k, ids |-> e.ids \cup r.ids, total |-> r.total,
         verified |-> IF verified THEN "yes" ELSE IF ends THEN "no" ELSE "open",
         kept |-> IF k = 1 THEN r.listed \cap cloud[m] ELSE e.kept,
         later |-> p # Base /\ verified /\ Gap(m)]]
\* _record_month
Recorded(m, r, by) ==
    [local EXCEPT ![m] = [ids |-> @.ids \cup r.ids, list |-> r.ids, total |-> r.total, by |-> by]]
\* link_completed
LinkCompleted(p, m, verified) ==
    IF p # Base /\ verified /\ Gap(m) THEN [link EXCEPT ![m] = p] ELSE link

\* async_accept_history_page: the page, the checkpoint, the archive's month
\* and the link of a gap the page resolves, or none of them.
Accept(w) ==
    LET p == worker[w].plan  m == worker[w].month  k == worker[w].page
        r == worker[w].reply e == evidence[p][m]
        verified == Verifies(e, r)
        ends == Ends(e, r, k)
    IN
    /\ worker[w].step = "answered" /\ Admitted(w)
    /\ plan' = Advanced(p, m, k, ends)
    /\ evidence' = Judged(p, m, k, r, verified, ends)
    /\ local' = IF r.kind = "schema" THEN local ELSE Recorded(m, r, p)
    /\ link' = LinkCompleted(p, m, verified)
    /\ worker' = [worker EXCEPT ![w] = Idle]
    /\ UNCHANGED <<active, reused, token, seen, paused, outside, events>>

\* A page that comes too late changes nothing: HistoryConflict, or the guard.
Refused(w) ==
    /\ worker[w].step = "answered" /\ ~(Unguarded /\ Current(w))
    /\ worker' = [worker EXCEPT ![w] = Idle]
    /\ UNCHANGED <<durable, paused, outside, events>>

\* async_wait_history_page after a failed call or a failed transaction, also
\* one that met the pause; a stale copy or a paused worker does not write.
Wait(w) ==
    /\ worker[w].step \in {"calling", "answered"} /\ Event
    /\ plan' = IF Unguarded /\ Current(w)
               THEN [plan EXCEPT ![worker[w].plan].state = "waiting",
                                 ![worker[w].plan].holder = None]
               ELSE plan
    /\ worker' = [worker EXCEPT ![w] = Idle]
    /\ UNCHANGED <<evidence, active, link, reused, token, seen, local, paused, outside>>

\* A restart, a cancelled call or a guard that no longer holds.
Vanish(w) ==
    /\ worker[w] # Idle /\ Event
    /\ worker' = [worker EXCEPT ![w] = Idle]
    /\ UNCHANGED <<durable, paused, outside>>

\* reuse(): the baseline takes a settled month from the run that verified it.
Reusable(m) ==
    LET r == active[m] IN
    /\ m \in Settled /\ plan[Base].state = "discover" /\ plan[Base].next = m
    /\ plan[Base].page = 1 /\ r # None /\ Complete(r)
    /\ evidence[r][m].verified = "yes" /\ local[m].by = r
Reuse(m) ==
    /\ Unpaused /\ Reusable(m)
    /\ evidence' = [evidence EXCEPT ![Base][m] = evidence[active[m]][m]]
    /\ plan' = Advanced(Base, m, 1, TRUE)
    /\ reused' = [reused EXCEPT ![m] = active[m]]
    /\ UNCHANGED <<active, link, token, seen, local, paused, worker, outside, events>>

\* async_finish_history_baseline, once the details of the plan's rides are
\* saved (preservation.py, outside this module).
Finish(p) ==
    /\ Unguarded /\ plan[p].state = "preserve"
    /\ p \in Runs => active[plan[p].first] = p
    /\ plan' = [plan EXCEPT ![p].state = "finished"]
    /\ UNCHANGED <<evidence, active, link, reused, token, seen, local, paused, worker, outside, events>>

-----------------------------------------------------------------------------
(* Reconciliation of the recent months: a look, then a transaction.         *)

Signature(m) == [list |-> local[m].list, total |-> local[m].total]
\* ArchiveStatisticsView: all rides the month reports are in the archive.
Covered(m) ==
    /\ local[m].total >= 0
    /\ local[m].total \in {Cardinality(local[m].list), Cardinality(local[m].ids)}

\* async_seed of the incremental scheduling looks at a month the baseline
\* does not have ahead and that has no open gap.
WantedWithGaps(m) == m \in Recent /\ m > plan[Base].next
Wanted(m) == m \in Recent /\ m > plan[Base].next /\ ~Unresolved(m)
View(w, m) ==
    /\ Unguarded /\ worker[w] = Idle /\ Wanted(m)
    /\ worker' = [worker EXCEPT ![w] = [step |-> "viewed", month |-> m, sig |-> Signature(m),
                                        covered |-> Covered(m)]]
    /\ UNCHANGED <<durable, paused, outside, events>>

\* async_reconcile_history_month of what was seen.
Reconciled(w) ==
    LET m == worker[w].month  r == active[m] IN
    /\ worker[w].step = "viewed" /\ worker[w].covered /\ Unguarded
    /\ plan' = IF r # None /\ plan[r].state \in {"discover", "waiting"} /\ plan[r].page = 1
               THEN [plan EXCEPT ![r].state = "reconciled", ![r].holder = None] ELSE plan
    /\ seen' = [seen EXCEPT ![m] = worker[w].sig]
    /\ worker' = [worker EXCEPT ![w] = Idle]
    /\ UNCHANGED <<evidence, active, link, reused, token, local, paused, outside, events>>
\* The list counts as seen only if the run was scheduled for this very list.
Marked(m, held, sig) == IF held = sig THEN [seen EXCEPT ![m] = sig] ELSE seen
Reconcile(w, r) ==
    LET m == worker[w].month  sig == worker[w].sig
        held == IF token[r] = None THEN sig ELSE token[r]
    IN
    /\ worker[w].step = "viewed" /\ ~worker[w].covered /\ Unguarded
    /\ seen[m] # sig /\ Schedules(m, FALSE, r) /\ Scheduled(m, r)
    /\ token' = [token EXCEPT ![r] = held]
    /\ seen' = Marked(m, held, sig)
    /\ worker' = [worker EXCEPT ![w] = Idle]
    /\ UNCHANGED <<evidence, link, reused, local, paused, outside, events>>
\* Nothing new was seen, there is no room, or the guard does not hold.
ReconcileSkips(w) ==
    /\ worker[w].step = "viewed"
    /\ \/ ~Unguarded
       \/ /\ ~worker[w].covered
          /\ \/ seen[worker[w].month] = worker[w].sig
             \/ ~\E r \in Runs : Schedules(worker[w].month, FALSE, r)
    /\ worker' = [worker EXCEPT ![w] = Idle]
    /\ UNCHANGED <<durable, paused, outside, events>>

-----------------------------------------------------------------------------
(* Surroundings.                                                            *)

\* async_pause: the archive's flag, then that of the workers' guards.
Pause ==
    /\ Unpaused /\ Event /\ paused' = "saved"
    /\ UNCHANGED <<durable, worker, outside>>
PauseSeen == paused = "saved" /\ paused' = "yes" /\ UNCHANGED <<durable, worker, outside, events>>
Resume == ~Unpaused /\ paused' = "no" /\ UNCHANGED <<durable, worker, outside, events>>

\* The regular read of the current month records its first page.
Observe(m) ==
    /\ m \in Recent
    /\ local' = Recorded(m, [ids |-> Page(m, 1), total |-> Cardinality(cloud[m])], None)
    /\ UNCHANGED <<plan, evidence, active, link, reused, token, seen, paused, worker, outside, events>>

\* The vehicle is used, and its owner deletes rides.
RideAdded(m) ==
    /\ Event
    /\ born[m] < Capacity[m]
    /\ born' = [born EXCEPT ![m] = @ + 1]
    /\ cloud' = [cloud EXCEPT ![m] = @ \cup {born[m] + 1}]
    /\ UNCHANGED <<durable, paused, worker>>
RideDeleted(m, r) ==
    /\ Event
    /\ r \in cloud[m] /\ cloud' = [cloud EXCEPT ![m] = @ \ {r}]
    /\ evidence' = [p \in Plans |-> [evidence[p] EXCEPT ![m].kept =
           IF evidence[p][m].verified = "open" THEN @ \ {r} ELSE @]]
    /\ UNCHANGED <<plan, active, link, reused, token, seen, local, paused, worker, born>>

Next ==
    \/ \E m \in Months, r \in Runs : ForceMonth(m, r) \/ SeedGap(m, r)
    \/ \E w \in Workers, p \in Plans : Claim(w, p)
    \/ \E w \in Workers : \/ Respond(w) \/ Malformed(w) \/ Accept(w) \/ Refused(w) \/ Wait(w)
                          \/ Vanish(w) \/ Reconciled(w) \/ ReconcileSkips(w)
    \/ \E w \in Workers, r \in Runs : Reconcile(w, r)
    \/ \E w \in Workers, m \in Months : View(w, m)
    \/ \E m \in Months : Reuse(m) \/ Observe(m) \/ RideAdded(m)
    \/ \E m \in Months, r \in Rides : RideDeleted(m, r)
    \/ \E p \in Plans : Finish(p)
    \/ Pause \/ PauseSeen \/ Resume

Spec == Init /\ [][Next]_vars

-----------------------------------------------------------------------------
(* Properties.                                                              *)

TypeOK ==
    /\ plan \in [Plans -> [state : States, first : 0..Newest, last : 0..Newest,
                           next : 0..Newest, page : 1..MaxPages, holder : Workers \cup {None}]]
    /\ evidence \in [Plans -> [Months ->
           [pages : 0..MaxPages, ids : SUBSET Rides, total : {-1} \cup (0..Cardinality(Rides)),
            verified : {"open", "yes", "no"}, kept : SUBSET Rides, later : BOOLEAN]]]
    /\ active \in [Months -> Runs \cup {None}] /\ link \in [Months -> Runs \cup {None}]
    /\ reused \in [Months -> Runs \cup {None}]
    /\ token \in [Runs -> Lists \cup {None}] /\ seen \in [Months -> Lists \cup {None}]
    /\ local \in [Months -> [ids : SUBSET Rides, list : SUBSET Rides,
                             total : {-1} \cup (0..Cardinality(Rides)),
                             by : Plans \cup {None}]]
    /\ paused \in {"no", "saved", "yes"} /\ cloud \in [Months -> SUBSET Rides]
    /\ \A w \in Workers : worker[w].step \in {"idle", "viewed", "calling", "answered"}

\* Whatever was interrupted, the archive opens again: the checkpoints, pages,
\* identities, pointers, links and reused months agree as history_store.check,
\* restored, gap_recovery.validate and history_reuse.check demand; an archive
\* that fails one of them is refused as a whole.
CheckpointAgrees(p) ==
    LET at == plan[p] IN
    /\ {m \in Months : evidence[p][m].verified # "open"} =
           {m \in Months : at.first <= m /\ m <= at.last /\ m > at.next}
    /\ at.next # 0 => evidence[p][at.next].pages = at.page - 1
    /\ at.next = 0 => at.page = 1
    /\ at.state \in {"discover", "querying"} => at.next # 0
    /\ at.state \in Discovered => at.next = 0
    /\ p = Base => at.state # "reconciled"
ArchiveOpens ==
    /\ \A p \in Plans : plan[p].state # "absent" => CheckpointAgrees(p)
    /\ \A p \in Plans, m \in Months :
           evidence[p][m].verified = "yes" => evidence[p][m].total = Cardinality(evidence[p][m].ids)
    /\ \A m \in Months :
           /\ active[m] # None => plan[active[m]].first = m
           /\ link[m] # None => Gap(m) /\ plan[link[m]].first = m
           /\ reused[m] # None =>
                  /\ Complete(reused[m]) /\ evidence[reused[m]][m].verified = "yes"
                  /\ evidence[reused[m]][m] = evidence[Base][m]

\* A month that counts as verified misses no ride that the cloud listed from
\* the first page of its enumeration to the last, though rides are added and
\* deleted between the pages and pages of two workers alternate.
VerifiedMissesNothing ==
    \A p \in Plans, m \in Months :
        evidence[p][m].verified = "yes" => evidence[p][m].kept \subseteq evidence[p][m].ids

\* A run whose discovery is not over is the one its month points to: nothing
\* else would ever claim it again.
NoRunIsLost ==
    \A r \in Runs : plan[r].state \in Discovering => active[plan[r].first] = r

\* The run a gap waits for is never closed by the reconciliation of the local
\* list, which cannot replace the enumeration (incremental_sync.async_seed).
GapIsNotReconciled ==
    \A m \in Months : Unresolved(m) /\ link[m] # None => plan[link[m]].state # "reconciled"

\* A month that was judged keeps its verdict and its pages, whatever answers
\* to older claims still arrive and however often it is enumerated again
\* ("keeping original evidence intact", gap_recovery.py).
VerdictsAreFinal ==
    [][\A p \in Plans, m \in Months :
           evidence[p][m].verified # "open" => evidence'[p][m] = evidence[p][m]]_evidence

\* From the moment the owner's pause is saved, no answer that is still under
\* way becomes evidence, resolves a gap or is reused; and once the workers know
\* of it, no checkpoint moves and no run is scheduled or closed.
PauseFreezesCheckpoints ==
    [][/\ paused # "no" /\ paused' # "no" =>
              /\ <<link, reused>>' = <<link, reused>>
              /\ \A p \in Plans, m \in Months : evidence'[p][m].pages = evidence[p][m].pages
       /\ paused = "yes" /\ paused' = "yes" => <<plan, active>>' = <<plan, active>>]_vars

\* "Automatically re-enumerate unverified baseline months" (CHANGELOG.md:193):
\* a gap that is not resolved can be enumerated again, now or when the run it
\* waits for has failed.
GapsStayRetriable ==
    \A m \in Months : Unresolved(m) => MayRetry(m) \/ plan[link[m]].state \in Discovering

\* A run that is still needed is neither replaced nor closed.
RunsAreKept == NoRunIsLost /\ GapIsNotReconciled

\* Checkpoints change by the answer they asked for, while the owner wants it, and once.
CheckpointsStand == VerdictsAreFinal /\ PauseFreezesCheckpoints
=============================================================================
