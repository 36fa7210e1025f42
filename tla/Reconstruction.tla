--------------------------- MODULE Reconstruction ---------------------------
(***************************************************************************)
(* The durable job that rebuilds a vehicle's derived rides from the        *)
(* originals in the archive, without the cloud.                            *)
(*                                                                         *)
(* The job captures the rides with details, takes one private recovery     *)
(* point, a copy of the archive, and then evaluates one ride per step: a   *)
(* ride whose index has drifted from its original is repaired, and for an  *)
(* original that is corrupt the recovery copies beside the archive are     *)
(* searched for the same bytes, a few names per step.  A step commits the  *)
(* ride and the checkpoint together; only the publication of the recovery  *)
(* point is outside of the transaction.                                    *)
(***************************************************************************)
EXTENDS Integers, FiniteSets, FiniteSetsExt

CONSTANTS
    Saved,        \* rides with details that can be in the archive, 1..n in the order of their ids
    Copies,       \* managed recovery copies beside the archive, 1..n in the order of their names
    Batch,        \* MAX_COPIES, the copies examined per step
    MaxRebuilds,  \* bound on the jobs started
    MaxMishaps    \* bound on damage, outside changes, lost owners and crashes

ASSUME ReconstructionAssumption ==
    /\ Saved = 1..Cardinality(Saved) /\ Copies = 1..Cardinality(Copies)
    /\ IsFiniteSet(Saved) /\ IsFiniteSet(Copies)
    /\ Batch \in Nat \ {0} /\ {MaxRebuilds, MaxMishaps} \subseteq Nat

VARIABLES
    health,    \* "absent", "sound", "drift", "broken" (its original is corrupt), "lost" (and
               \* no copy can help) of each ride
    holders,   \* the copies that hold a ride's original
    rebuild,   \* local_reconstruction: the job of the vehicle
    moved,     \* the archive's revision or inventory moved since the job's last fences
    search,    \* payload_search: cursor of each ride's search
    point,     \* the recovery point of the job: "none", "good" or "bad"
    publishing,\* the step has published its recovery point and not committed yet
    mishaps,
    examined,  \* rides the job has evaluated (observed)
    touched,   \* the job has changed the archive (observed)
    captured   \* the point was published before the job changed anything (observed)

rebuildVars == <<health, holders, rebuild, moved, search, point, publishing, mishaps,
                 examined, touched, captured>>

NoRebuild == [state |-> "none", id |-> 0, upper |-> 0, total |-> 0, after |-> 0, checked |-> 0,
              repaired |-> 0, partly |-> 0, blocked |-> 0, corrupt |-> 0, changed |-> FALSE,
              hash |-> FALSE, searching |-> FALSE, pendingRepaired |-> FALSE]
NoSearch == [id |-> 0, after |-> 0, finished |-> FALSE]
Over == rebuild.state \in {"none", "cancelled", "complete", "with_gaps"}
Present == {r \in Saved : health[r] # "absent"}
Mishap == mishaps < MaxMishaps /\ mishaps' = mishaps + 1

RebuildInit ==
    /\ health \in [Saved -> {"absent", "drift", "broken"}]
    /\ holders \in [Saved -> {{}} \union {{c} : c \in Copies}]
    /\ rebuild = NoRebuild /\ moved = FALSE /\ search = [r \in Saved |-> NoSearch]
    /\ point = "none" /\ publishing = FALSE /\ mishaps = 0
    /\ examined = {} /\ touched = FALSE /\ captured = TRUE

----------------------------------------------------------------------------
\* The owner's operations; each is one call of the archive's actor.

\* start(): a live job, also a paused one, is joined.
StartRebuild ==
    /\ ~publishing /\ Over /\ rebuild.id < MaxRebuilds
    /\ rebuild' = [NoRebuild EXCEPT !.id = rebuild.id + 1, !.total = Cardinality(Present),
                                    !.upper = IF Present = {} THEN 0 ELSE Max(Present),
                                    !.state = IF Present = {} THEN "complete" ELSE "pending_backup"]
    /\ moved' = FALSE /\ point' = "none" /\ examined' = {} /\ touched' = FALSE /\ captured' = TRUE
    /\ UNCHANGED <<health, holders, search, publishing, mishaps>>

PauseOrCancel(state) ==
    /\ ~publishing /\ ~Over
    /\ rebuild' = [rebuild EXCEPT !.state = state]
    /\ UNCHANGED <<health, holders, moved, search, point, publishing, mishaps, examined, touched,
                   captured>>

----------------------------------------------------------------------------
\* A step, for the worker's tick ("step") or for the owner ("continue").

\* Mutant: a recovery point that disappeared is taken again.
MayPublishAgain == point = "none"

\* _reconstruction_backup: the point is taken only while its checksum is not recorded.
MayPublish == point = "none" /\ ~rebuild.hash

\* A paused or blocked job moves for the owner only.
MayStep(owner) ==
    /\ ~publishing /\ ~Over
    /\ rebuild.state \in {"paused", "blocked_recovery"} => owner

\* The copy of the archive is published; its checksum is recorded in the transaction that follows.
PublishPoint(owner) ==
    /\ MayStep(owner) /\ MayPublish
    /\ point' = "good" /\ captured' = ~touched /\ publishing' = TRUE
    /\ UNCHANGED <<health, holders, rebuild, moved, search, mishaps, examined, touched>>

\* The point is missing, was exchanged, or is not of this job.
PointFails(owner) ==
    /\ MayStep(owner) /\ ~MayPublish /\ point # "good"
    /\ rebuild' = [rebuild EXCEPT !.state = "blocked_recovery"]
    /\ UNCHANGED <<health, holders, moved, search, point, publishing, mishaps, examined, touched,
                   captured>>

\* The names a search has left, of those captured when the job first came to the ride.
Cursor(r) == IF search[r].id = rebuild.id THEN search[r] ELSE [NoSearch EXCEPT !.id = rebuild.id]
Left(r) == {c \in Copies : c > Cursor(r).after}
Page(r) == {c \in Left(r) : Cardinality({d \in Left(r) : d < c}) < Batch}

\* restore(): the copies of the page, up to the first that holds the original.
Found(r) == ~Cursor(r).finished /\ Page(r) \intersect holders[r] # {}

\* Mutant: the search starts again at every step.
SearchedForgotten(r) == [Cursor(r) EXCEPT !.finished = Found(r) \/ Left(r) = Page(r)]

Searched(r) ==
    IF Cursor(r).finished THEN Cursor(r)
    ELSE IF Found(r) THEN [Cursor(r) EXCEPT !.after = Min(Page(r) \intersect holders[r]),
                                            !.finished = TRUE]
    ELSE [Cursor(r) EXCEPT !.after = IF Page(r) = {} THEN @ ELSE Max(Page(r)),
                           !.finished = Page(r) = Left(r)]

\* What evaluate() finds and does.
Verdict(r) ==
    IF health[r] = "broken" /\ Found(r) THEN "repairable"
    ELSE IF health[r] = "broken" THEN IF Searched(r).finished THEN "corrupt" ELSE "searching"
    ELSE IF health[r] = "lost" THEN "unverifiable"
    ELSE IF health[r] = "drift" THEN "repairable" ELSE "healthy"

\* step() with a ride: a search that goes on keeps the cursor.
Accounted(job, r, verdict) ==
    LET changedIt == verdict = "repairable" \/ job.pendingRepaired
        good == verdict \in {"healthy", "repairable"}
    IN IF verdict = "searching" THEN [job EXCEPT !.searching = TRUE, !.pendingRepaired = changedIt]
       ELSE [job EXCEPT !.after = r, !.checked = @ + 1, !.searching = FALSE,
                        !.pendingRepaired = FALSE,
                        !.repaired = @ + (IF changedIt /\ good THEN 1 ELSE 0),
                        !.partly = @ + (IF changedIt /\ ~good THEN 1 ELSE 0),
                        !.blocked = @ + (IF good THEN 0 ELSE 1),
                        !.corrupt = @ + (IF verdict = "corrupt" THEN 1 ELSE 0)]

\* The transaction: state and checksum, the next ride, fences and checkpoint.
CommitStep(owner) ==
    /\ publishing \/ (MayStep(owner) /\ ~MayPublish /\ point = "good")
    /\ LET todo == {r \in Present : rebuild.after < r /\ r <= rebuild.upper}
           job == [rebuild EXCEPT !.state = "running", !.hash = TRUE, !.changed = @ \/ moved]
       IN IF todo = {}
          THEN /\ rebuild' = [job EXCEPT !.state = IF job.blocked > 0 \/ job.changed
                                                   THEN "with_gaps" ELSE "complete"]
               /\ UNCHANGED <<health, search, examined, touched>>
          ELSE LET r == Min(todo)
                   verdict == Verdict(r)
               IN /\ rebuild' = Accounted(job, r, verdict)
                  /\ health' = [health EXCEPT ![r] = IF verdict = "repairable" THEN "sound" ELSE @]
                  /\ search' = [search EXCEPT ![r] = IF health[r] = "broken" THEN Searched(r) ELSE @]
                  /\ examined' = IF verdict = "searching" THEN examined ELSE examined \union {r}
                  /\ touched' = (touched \/ verdict = "repairable")
    /\ moved' = FALSE /\ publishing' = FALSE
    /\ UNCHANGED <<holders, point, mishaps, captured>>

\* The owner of the vehicle changed between the copy and the transaction, or the program stops:
\* the point stays, with a checksum that is not recorded.
StepLost ==
    /\ publishing /\ Mishap /\ publishing' = FALSE
    /\ UNCHANGED <<health, holders, rebuild, moved, search, point, examined, touched, captured>>

----------------------------------------------------------------------------
\* The rest of the system, between two calls of the actor.

\* A poll or a transfer changes or adds a ride.
OutsideChange(r, h) ==
    /\ ~publishing /\ h # health[r] /\ Mishap
    /\ health' = [health EXCEPT ![r] = h] /\ moved' = TRUE
    /\ UNCHANGED <<holders, rebuild, search, point, publishing, examined, touched, captured>>

\* A file beside the archive is deleted or exchanged.
PointDamaged(how) ==
    /\ point # how /\ point # "none" /\ ~publishing /\ Mishap
    /\ point' = how
    /\ UNCHANGED <<health, holders, rebuild, moved, search, publishing, examined, touched, captured>>

RebuildNext ==
    \/ StartRebuild \/ (\E s \in {"paused", "cancelled"} : PauseOrCancel(s))
    \/ (\E owner \in BOOLEAN : PublishPoint(owner) \/ PointFails(owner) \/ CommitStep(owner))
    \/ StepLost
    \/ \E r \in Saved, h \in {"drift", "lost"} : OutsideChange(r, h)
    \/ \E how \in {"none", "bad"} : PointDamaged(how)

RebuildSteps == PublishPoint(FALSE) \/ PointFails(FALSE) \/ CommitStep(FALSE)

----------------------------------------------------------------------------
\* Properties.

\* Types and the checks of restored(), which close the archive at the next start.
RebuildTypeOK ==
    /\ rebuild.repaired + rebuild.blocked <= rebuild.checked
    /\ rebuild.corrupt <= rebuild.blocked /\ rebuild.partly <= rebuild.blocked
    /\ ~rebuild.changed => rebuild.checked <= rebuild.total
    /\ rebuild.pendingRepaired => rebuild.searching
    /\ rebuild.after <= rebuild.upper
    /\ rebuild.state = "running" => rebuild.hash
    /\ mishaps \in 0..MaxMishaps /\ point \in {"none", "good", "bad"}

\* Nothing is repaired without a way back: whatever crashes, disappears or is continued, the
\* job's recovery point was published before the job changed the archive.
PointPrecedesRepairs == touched => rebuild.hash /\ captured

\* A job that reports "complete" evaluated every ride of its scope, repaired or sound, and
\* nobody else changed the archive meanwhile.
CompleteIsClean ==
    rebuild.state = "complete" =>
        \A r \in Present : r <= rebuild.upper /\ ~moved => r \in examined /\ health[r] = "sound"
=============================================================================
