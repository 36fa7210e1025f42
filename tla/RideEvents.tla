----------------------------- MODULE RideEvents -----------------------------
(***************************************************************************)
(* Completion events of the rides of one vehicle.                          *)
(*                                                                         *)
(* The coordinator polls the ride list of the current month; every poll    *)
(* replaces the snapshot and feeds RideLifecycle, which calls a ride       *)
(* stable after two unchanged samples over a quiet window.  The event      *)
(* pipeline compares each snapshot's stable rides with a cursor, writes    *)
(* the new cursor to disk, reads the file back, and only then emits the    *)
(* events.  Polls, subscriptions, the pipeline's task, a close and a crash *)
(* of Home Assistant interleave.                                           *)
(*                                                                         *)
(* A ride ends at a fixed time; of a ride's other metrics only their change is *)
(* kept.  The cursors of other vehicles in the same file are left out: the pipeline's *)
(* lock serialises them.                                                   *)
(***************************************************************************)
EXTENDS Integers, FiniteSets, FiniteSetsExt

CONSTANTS
    Rides,          \* rides of the vehicle
    End(_),         \* when a ride ends
    Quiet,          \* QUIET_WINDOW
    LateWindow,     \* LATE_WINDOW
    RebaselineGap,  \* REBASELINE_GAP
    SeenLimit,      \* SEEN_LIMIT
    MaxTime,        \* bound on the clock
    MaxSteps        \* bound on how often the clock is set back

ASSUME RideEventsAssumption ==
    /\ IsFiniteSet(Rides)
    /\ {Quiet, LateWindow, RebaselineGap, MaxTime, MaxSteps} \subseteq Nat
    /\ \A r \in Rides : End(r) \in Nat \ {0}
    /\ SeenLimit \in Nat \ {0}

VARIABLES
    now,         \* dt_util.utcnow()
    setBack,     \* how often the clock was set back
    cloud,       \* the vehicle's rides that the cloud lists
    snapshot,    \* coordinator.data[sn]: received, rides, complete, valid
    lifecycle,   \* RideLifecycle._observations
    cursor,      \* RideEventPipeline._cursors[sn]
    disk,        \* the cursor in the file ninebot.<entry>.rides_v1
    loaded,      \* _loaded
    healthy,     \* _healthy
    closed,      \* _closed
    callback,    \* sn \in _callbacks
    listening,   \* _unsub is not None
    processed,   \* _processed[sn]
    work,        \* the coroutine that holds or awaits the pipeline's lock
    completed    \* number of completion events of each ride (observed)

vars == <<now, setBack, cloud, snapshot, lifecycle, cursor, disk, loaded, healthy, closed,
          callback, listening, processed, work, completed>>
environment == <<now, setBack, cloud>>
pipeline == <<cursor, disk, loaded, healthy, closed, callback, listening, processed, work>>

Never == -1
Times == 0..MaxTime
NoSnapshot == [received |-> Never, rides |-> {}, complete |-> FALSE, valid |-> FALSE]
Unseen == [current |-> FALSE, changed |-> Never, received |-> Never, samples |-> 0]

\* RideCursor(): nothing known, the next processed snapshot is a baseline.
NoCursor == [base |-> Never, at |-> Never, high |-> Never, floor |-> Never, seen |-> {}]

Idle == [at |-> "idle", by |-> "task"]
Scheduled == [at |-> "scheduled", by |-> "task"]
Saving(at, by, cur, found, received) ==
    [at |-> at, by |-> by, cursor |-> cur, found |-> found, received |-> received]

----------------------------------------------------------------------------
\* The cursor (ride_events.py) and the samples (ride_lifecycle.py).

\* Rides of the list with a valid end report at time t (completed_report).
Reported(rides, t) == {r \in rides : End(r) <= t}

Latest(rides) == Max({Never} \union {End(r) : r \in rides})

\* _retain: the SeenLimit latest ends above the floor; the floor moves past what is evicted.
Retain(c, rides) ==
    LET above == {r \in rides : End(r) > c.floor}
        surplus == Max({0, Cardinality(above) - SeenLimit})
        evicted == CHOOSE s \in kSubset(surplus, above) :
                     \A r \in s, q \in above \ s : End(r) <= End(q)
        floor == Max({c.floor, Latest(evicted)})
    IN [c EXCEPT !.floor = floor, !.seen = {r \in above : End(r) > floor}]

NeedsBaseline(c, t) == c.base = Never \/ t < c.at \/ t - c.at > RebaselineGap

\* discover_rides, baseline branch; an empty valid list awaits one, unless the month is
\* verified to be empty (_process_locked).
Baseline(valid, empty, t) ==
    LET fresh == [NoCursor EXCEPT !.base = t, !.at = t, !.high = Latest(valid)]
    IN IF valid # {} \/ empty THEN Retain(fresh, valid) ELSE NoCursor

\* discover_rides: the cursor after the observation and the rides newly completed.
Discover(c, valid, t) ==
    LET updated == Retain([c EXCEPT !.at = t, !.high = Max({@, Latest(valid)})],
                          c.seen \union valid)
    IN [cursor |-> updated,
        found |-> {r \in valid \ c.seen : /\ End(r) > c.base
                                          /\ End(r) >= t - LateWindow
                                          /\ End(r) > c.floor
                                          /\ r \in updated.seen}]

\* RideObservation.stable: the sample the list shows is the last of two or more and settled.
Stable(obs) == obs.samples = 2 /\ obs.received - obs.changed >= Quiet /\ obs.current

\* RideLifecycle.observe of a list received at t in which the rides of "changed" are corrected.
Observed(obs, rides, changed, t) ==
    [r \in Rides |->
        LET known == obs[r].samples > 0
            same == obs[r].current /\ r \notin changed
        IN CASE r \notin rides -> obs[r]
             [] r \in rides /\ End(r) > t -> Unseen
             [] r \in Reported(rides, t) /\ known /\ t = obs[r].received -> IF same THEN obs[r] ELSE Unseen
             [] r \in Reported(rides, t) /\ known /\ t < obs[r].received -> [obs[r] EXCEPT !.current = same]
             [] r \in Reported(rides, t) /\ known /\ t > obs[r].received /\ same ->
                    [obs[r] EXCEPT !.received = t, !.samples = 2]
             [] OTHER -> [current |-> TRUE, changed |-> t, received |-> t, samples |-> 1]]

----------------------------------------------------------------------------
Init ==
    /\ now = 0 /\ setBack = 0
    /\ cloud = {}
    /\ snapshot = NoSnapshot /\ lifecycle = [r \in Rides |-> Unseen]
    /\ cursor = NoCursor /\ disk = NoCursor
    /\ loaded = FALSE /\ healthy = TRUE /\ closed = FALSE /\ callback = FALSE /\ listening = FALSE
    /\ processed = Never /\ work = Idle
    /\ completed = [r \in Rides |-> 0]

Available == healthy /\ ~closed

\* _schedule, run by every coordinator update the pipeline listens to.
Notify ==
    work' = IF listening /\ Available /\ callback /\ work = Idle THEN Scheduled ELSE work

\* The guards of _process_locked that need no time.
Readable(baseline) ==
    /\ Available /\ callback /\ snapshot.valid
    /\ baseline \/ processed # snapshot.received

\* What _process_locked saves for the current snapshot.
Result(baseline) ==
    LET valid == Reported(snapshot.rides, now)
        stable == {r \in valid : Stable(lifecycle[r])}
        used == IF baseline THEN valid ELSE stable
        empty == snapshot.complete /\ snapshot.rides = {}
    IN IF baseline \/ NeedsBaseline(cursor, now)
       THEN [cursor |-> Baseline(used, empty, now), found |-> {}]
       ELSE Discover(cursor, stable, now)

----------------------------------------------------------------------------
\* The environment: time, the cloud and the polls.

Tick == now < MaxTime /\ now' = now + 1 /\ UNCHANGED <<setBack, cloud, snapshot,
                                                       lifecycle, pipeline, completed>>

\* The host's clock is corrected backwards.
SetBack ==
    /\ setBack < MaxSteps /\ now > 0
    /\ now' = now - 1 /\ setBack' = setBack + 1
    /\ UNCHANGED <<cloud, snapshot, lifecycle, pipeline, completed>>

\* The cloud lists a ride that has ended, early or late and in any order.
Upload(r) ==
    /\ r \notin cloud /\ End(r) <= now
    /\ cloud' = cloud \union {r}
    /\ UNCHANGED <<now, setBack, snapshot, lifecycle, pipeline, completed>>

\* A travel read is committed: a new snapshot and a new sample of each ride.  An empty list
\* is verified to be complete, or not; the cloud corrected a metric of some rides, not their
\* ends, since the last poll.
Poll(complete, corrected) ==
    /\ snapshot.received # now
    /\ complete \/ cloud = {}
    /\ corrected \subseteq cloud
    /\ snapshot' = [received |-> now, rides |-> cloud, complete |-> complete, valid |-> TRUE]
    /\ lifecycle' = Observed(lifecycle, cloud, corrected, now)
    /\ Notify
    /\ UNCHANGED <<now, setBack, cloud, cursor, disk, loaded, healthy, closed, callback,
                   listening, processed, completed>>

\* A travel read fails, or the snapshot outlives its validity: nothing reads its rides then.
Lapse ==
    /\ snapshot.valid
    /\ snapshot' = [NoSnapshot EXCEPT !.received = snapshot.received]
    /\ Notify
    /\ UNCHANGED <<environment, lifecycle, cursor, disk, loaded, healthy, closed, callback,
                   listening, processed, completed>>

----------------------------------------------------------------------------
\* The pipeline.

\* async_subscribe up to its first save, or to its end when there is nothing to save.
\* The file is read once per pipeline; an unreadable file suspends the events.
Subscribe(readable) ==
    /\ ~callback /\ ~closed /\ work = Idle
    /\ readable \/ ~loaded
    /\ loaded' = TRUE /\ callback' = TRUE
    /\ cursor' = IF loaded THEN cursor ELSE IF readable THEN disk ELSE NoCursor
    /\ healthy' = (healthy /\ readable)
    /\ LET res == Result(TRUE)
       IN IF healthy' /\ snapshot.valid
          THEN /\ work' = Saving("write", "subscribe", res.cursor, res.found, snapshot.received)
               /\ UNCHANGED listening
          ELSE /\ listening' = TRUE
               /\ work' = IF healthy' THEN Scheduled ELSE Idle
    /\ UNCHANGED <<environment, snapshot, lifecycle, disk, closed, processed, completed>>

\* The task takes the lock and looks at the newest snapshot.
Begin ==
    /\ work = Scheduled
    /\ LET res == Result(FALSE)
       IN work' = IF Readable(FALSE)
                  THEN Saving("write", "task", res.cursor, res.found, snapshot.received)
                  ELSE Idle
    /\ UNCHANGED <<environment, snapshot, lifecycle, cursor, disk, loaded, healthy, closed,
                   callback, listening, processed, completed>>

\* Store.async_save: the file is replaced, or, as Store only logs the error, it is not.
Write(lands) ==
    /\ work.at = "write"
    /\ work' = [work EXCEPT !.at = "read"]
    /\ disk' = IF lands THEN work.cursor ELSE disk
    /\ UNCHANGED <<environment, snapshot, lifecycle, cursor, loaded, healthy, closed, callback,
                   listening, processed, completed>>

\* The coroutine ends: a subscription then listens and schedules, a task is over.
Ended(by, ok) ==
    /\ listening' = (listening \/ (by = "subscribe" /\ callback))
    /\ work' = IF by = "subscribe" /\ callback /\ ok /\ ~closed THEN Scheduled ELSE Idle

\* Mutant: Finishing after the save although a newer snapshot is there.
AgainNever(received) == FALSE

\* Whether the task processes once more: a newer snapshot arrived during the save.
Again(received) == snapshot.received # received /\ callback /\ Available

\* Whether events may go out after the save; the profile's freshness is the environment's.
MayEmit(profile) == Available /\ callback /\ snapshot.valid /\ profile

\* Mutant: the cursor in memory keeps its old value.
AcknowledgeForgetting(profile) ==
    /\ work.at = "read" /\ disk = work.cursor
    /\ cursor' = cursor /\ processed' = work.received
    /\ completed' = [r \in Rides |-> IF MayEmit(profile) /\ r \in work.found
                                     THEN completed[r] + 1 ELSE completed[r]]
    /\ IF work.by = "task" /\ Again(work.received)
       THEN work' = Scheduled /\ UNCHANGED listening
       ELSE Ended(work.by, healthy)
    /\ UNCHANGED <<environment, snapshot, lifecycle, disk, loaded, healthy, closed, callback>>

\* read_cursor_file returns what was saved: cursor, then events, in one step.
Acknowledge(profile) ==
    /\ work.at = "read" /\ disk = work.cursor
    /\ cursor' = work.cursor /\ processed' = work.received
    /\ completed' = [r \in Rides |-> IF MayEmit(profile) /\ r \in work.found
                                     THEN completed[r] + 1 ELSE completed[r]]
    /\ IF work.by = "task" /\ Again(work.received)
       THEN work' = Scheduled /\ UNCHANGED listening
       ELSE Ended(work.by, healthy)
    /\ UNCHANGED <<environment, snapshot, lifecycle, disk, loaded, healthy, closed,
                   callback>>

\* The file cannot be read, or does not hold what was saved: _storage_problem.
Distrust ==
    /\ work.at = "read"
    /\ healthy' = FALSE
    /\ Ended(work.by, FALSE)
    /\ UNCHANGED <<environment, snapshot, lifecycle, cursor, disk, loaded, closed, callback,
                   processed, completed>>

\* The entity is removed; its task is cancelled, a write under way still lands or not.
Unsubscribe ==
    /\ callback /\ listening /\ work.by = "task"
    /\ callback' = FALSE /\ listening' = FALSE /\ processed' = Never /\ work' = Idle
    /\ disk' \in {disk} \union (IF work.at = "write" THEN {work.cursor} ELSE {})
    /\ UNCHANGED <<environment, snapshot, lifecycle, cursor, loaded, healthy, closed, completed>>

\* async_close cancels the tasks; a subscription in its save goes on.
Close ==
    /\ ~closed
    /\ closed' = TRUE /\ callback' = FALSE /\ listening' = FALSE
    /\ IF work.by = "task"
       THEN /\ work' = Idle
            /\ disk' \in {disk} \union (IF work.at = "write" THEN {work.cursor} ELSE {})
       ELSE UNCHANGED <<work, disk>>
    /\ UNCHANGED <<environment, snapshot, lifecycle, cursor, loaded, healthy, processed, completed>>

\* The entry is set up again after a close, or Home Assistant was killed: only the file stays.
Restart ==
    /\ snapshot' = NoSnapshot /\ lifecycle' = [r \in Rides |-> Unseen]
    /\ cursor' = NoCursor /\ loaded' = FALSE /\ healthy' = TRUE /\ closed' = FALSE
    /\ callback' = FALSE /\ listening' = FALSE /\ processed' = Never /\ work' = Idle
    /\ UNCHANGED <<environment, disk, completed>>

Next ==
    \/ Tick \/ SetBack
    \/ \E r \in Rides : Upload(r)
    \/ \E b \in BOOLEAN, rs \in SUBSET Rides : Poll(b, rs)
    \/ \E b \in BOOLEAN : Subscribe(b) \/ Write(b) \/ Acknowledge(b)
    \/ Lapse \/ Begin \/ Distrust \/ Unsubscribe \/ Close \/ Restart

Spec == Init /\ [][Next]_vars

----------------------------------------------------------------------------
\* Properties.

Cursors == [base : Times \union {Never}, at : Times \union {Never}, high : Times \union {Never},
            floor : Times \union {Never}, seen : SUBSET Rides]

\* Types of the state; a cursor in use is one RideCursor.restore accepts: no later than its
\* observation, with a high-water mark at or above its floor and no more entries than allowed.
TypeOK ==
    /\ now \in Times /\ setBack \in 0..MaxSteps
    /\ cloud \subseteq Rides
    /\ {loaded, healthy, closed, callback, listening} \subseteq BOOLEAN
    /\ work.at \in {"idle", "scheduled", "write", "read"}
    /\ \A c \in {cursor, disk} :
         /\ c \in Cursors
         /\ c.base <= c.at /\ c.high <= c.at /\ c.floor <= c.high
         /\ \A r \in c.seen : End(r) <= c.high
         /\ Cardinality(c.seen) <= SeenLimit

\* The code behaviour: docs/history.md, "IDs are durably deduplicated": whatever crashes,
\* failed saves, evictions and re-subscriptions happen, a ride completes at most once, and
\* once more only for each time the clock was set back.
CompletedOncePerClock == \A r \in Rides : completed[r] <= 1 + setBack

\* What a cursor knows of a ride: it is listed, below the floor, or before the baseline; a
\* cursor without a baseline takes one before it reports anything.
Remembers(c, r) ==
    \/ c.base = Never
    \/ End(r) <= c.base \/ End(r) <= c.floor
    \/ r \in c.seen

\* An announced ride is known to the file, and to the cursor a save would extend: the event
\* goes out only after the read-back, so that a crash right after it cannot repeat it.
AnnouncedIsOnFile ==
    setBack = 0 => \A r \in Rides : completed[r] > 0 =>
        Remembers(disk, r) /\ Remembers(cursor, r)

\* No snapshot is overlooked: when no task runs, the subscribed pipeline has processed the
\* current valid snapshot, however polls and saves interleaved.
NewestIsProcessed ==
    work = Idle /\ listening /\ Available /\ snapshot.valid => processed = snapshot.received

\* async_subscribe: "every subscription rebaselines" (docs/history.md: "startup/re-enable sets
\* a baseline and does not replay historical rides"): the first snapshot that a subscription
\* processes becomes its baseline, so that no ride that ended before it is announced.
EverySubscriptionRebaselines ==
    [][callback /\ processed = Never /\ processed' # Never => cursor'.base = cursor'.at]_vars

\* Events go out once and after they are on file.
EventsAreOnce == CompletedOncePerClock /\ AnnouncedIsOnFile
=============================================================================
