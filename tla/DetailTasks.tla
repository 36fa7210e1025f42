---------------------------- MODULE DetailTasks ----------------------------
(***************************************************************************)
(* How the details of a vehicle's rides are preserved.                     *)
(*                                                                         *)
(* Every ride has a checkpoint: the summary it was made for, the attempts  *)
(* and successful observations, and when it is due again.  The worker's    *)
(* tick claims the first due ride in one transaction (and brings the       *)
(* checkpoints it passes up to date), queries the detail, stores it and    *)
(* finishes the claim in another transaction.  A ride of the last day is   *)
(* asked for again until two observations agree, which a marker with the   *)
(* last content tells.  Meanwhile polls change the summaries and other     *)
(* readers store details.                                                  *)
(*                                                                         *)
(* A summary is its fingerprint, 0 standing for one without a detail       *)
(* identity; a detail is the hash of its content.  Times are reduced to    *)
(* whether a ride is recent and whether a checkpoint is due.               *)
(***************************************************************************)
EXTENDS Integers, FiniteSets, Sequences

CONSTANTS
    Rides,            \* the rides of the vehicle, in the order of the claim's query
    Hashes,           \* contents of a detail
    MaxDisturbances   \* bound on changes of summaries and details by others, failed queries,
                      \* refused writes and crashes

ASSUME DetailTasksAssumption ==
    /\ Rides = 1..Cardinality(Rides) /\ IsFiniteSet(Rides)
    /\ Hashes \subseteq Nat \ {0} /\ MaxDisturbances \in Nat

VARIABLES
    ride,         \* [fp, changed, recent] of each ride: its summary, whether its revision is
                  \* newer than its checkpoint's, and whether it ended within the last day
    detail,       \* details.latest_hash of each ride, 0 when there is none
    marker,       \* preservation_detail: the content last observed, 0 for "none", -1 if absent
    checkpoint,   \* preservation: of each ride, or NoCheckpoint
    fetch,        \* the claimed task of the tick, and what it knows
    seen,         \* contents that the worker or a claim observed last, for the same summary
    disturbances

detailVars == <<ride, detail, marker, checkpoint, fetch, seen, disturbances>>

NoCheckpoint == [fp |-> -1, attempts |-> 0, obs |-> 0, due |-> TRUE, final |-> FALSE]
NoFetch == [at |-> "rest", ride |-> 0, fp |-> 0, attempts |-> 0, again |-> FALSE]
\* A ride that is not asked for again: next_attempt at the end of time.
Final(c) == [c EXCEPT !.due = FALSE, !.final = TRUE]

Disturbance == disturbances < MaxDisturbances /\ disturbances' = disturbances + 1

DetailInit ==
    /\ ride = [r \in Rides |-> [fp |-> 1, changed |-> FALSE, recent |-> TRUE]]
    /\ detail = [r \in Rides |-> 0] /\ marker = [r \in Rides |-> -1]
    /\ checkpoint = [r \in Rides |-> NoCheckpoint] /\ fetch = NoFetch
    /\ seen = [r \in Rides |-> <<>>] /\ disturbances = 0

----------------------------------------------------------------------------
\* The claim.

\* The rows its query selects.
Selected(r) ==
    \/ checkpoint[r] = NoCheckpoint \/ ride[r].changed \/ checkpoint[r].due
    \/ marker[r] = -1 /\ ride[r].recent

\* A detail that is in the archive counts as an observation, when there is no checkpoint yet or
\* one for this summary that observed no content.
Persisted(r) ==
    /\ detail[r] # 0
    /\ \/ checkpoint[r] = NoCheckpoint
       \/ marker[r] = -1 /\ checkpoint[r].fp = ride[r].fp

\* The checkpoint belongs to the summary as it is now.
KeptCheckpoint(r) == checkpoint[r] # NoCheckpoint /\ checkpoint[r].fp = ride[r].fp

\* The checkpoint that the claim finds or makes for a selected row.
Renewed(r) ==
    LET base == IF KeptCheckpoint(r) THEN checkpoint[r] ELSE [NoCheckpoint EXCEPT !.fp = ride[r].fp]
    IN IF ride[r].fp = 0 THEN Final([NoCheckpoint EXCEPT !.fp = 0, !.obs = 2])
       ELSE IF ~Persisted(r) THEN base
       ELSE IF ride[r].recent THEN [base EXCEPT !.obs = 1, !.due = FALSE]
       ELSE Final([base EXCEPT !.obs = 2])

\* The marker after the row was looked at.
Noted(r) ==
    IF ride[r].fp = 0 THEN 0
    ELSE IF Persisted(r) THEN detail[r] ELSE IF marker[r] = -1 THEN 0 ELSE marker[r]

Claimed(c) == [c EXCEPT !.attempts = @ + 1, !.due = FALSE]

\* _preservation_claim: the rows before the first due one are brought up to date, that one is
\* claimed; without a due one nothing is claimed.
ClaimDetail ==
    /\ fetch.at = "rest" /\ \E r \in Rides : Selected(r)
    /\ LET due == {r \in Rides : Selected(r) /\ Renewed(r).due}
           first == IF due = {} THEN Cardinality(Rides) + 1
                    ELSE CHOOSE r \in due : \A o \in due : r <= o
           rows == {r \in Rides : Selected(r) /\ r <= first}
       IN /\ checkpoint' = [r \in Rides |->
                IF r \notin rows THEN checkpoint[r]
                ELSE IF r = first THEN Claimed(Renewed(r)) ELSE Renewed(r)]
          /\ marker' = [r \in Rides |-> IF r \in rows THEN Noted(r) ELSE marker[r]]
          /\ ride' = [r \in Rides |-> IF r \in rows THEN [ride[r] EXCEPT !.changed = FALSE]
                                      ELSE ride[r]]
          /\ seen' = [r \in Rides |->
                IF r \notin rows \/ (KeptCheckpoint(r) /\ ~Persisted(r)) THEN seen[r]
                ELSE IF Persisted(r) THEN <<detail[r]>> ELSE <<>>]
          /\ fetch' = IF due = {} THEN NoFetch
                      ELSE [NoFetch EXCEPT !.at = "query", !.ride = first, !.fp = ride[first].fp,
                                           !.attempts = checkpoint'[first].attempts]
    /\ UNCHANGED <<detail, disturbances>>

----------------------------------------------------------------------------
\* The query and the end of the claim.

\* The answer, from the cloud or from a response in memory, is stored unless writes are paused;
\* again tells whether the ride will be revisited.
StoreDetail(h, simple, kept) ==
    /\ fetch.at = "query" /\ (~kept => Disturbance) /\ (kept => UNCHANGED disturbances)
    /\ detail' = IF kept THEN [detail EXCEPT ![fetch.ride] = h] ELSE detail
    /\ fetch' = [fetch EXCEPT !.at = IF kept THEN "done" ELSE "failed",
                              !.again = ride[fetch.ride].recent /\ ~simple]
    /\ UNCHANGED <<ride, marker, checkpoint, seen>>

\* The query fails.
DetailFails ==
    /\ fetch.at = "query" /\ Disturbance
    /\ fetch' = [fetch EXCEPT !.at = "failed"]
    /\ UNCHANGED <<ride, detail, marker, checkpoint, seen>>

\* Mutant: two downloads count as two equal observations.
UnchangedAlways(r) == TRUE

\* The same summary and the same content as the last observation.
Unchanged(r) == ride[r].fp = fetch.fp /\ detail[r] = marker[r]

\* _preservation_finish after a success.
FinishDetail ==
    /\ fetch.at = "done"
    /\ LET r == fetch.ride
           obs == IF Unchanged(r) THEN (IF checkpoint[r].obs = 2 THEN 2 ELSE checkpoint[r].obs + 1)
                                  ELSE 1
           new == [checkpoint[r] EXCEPT !.fp = ride[r].fp, !.obs = obs, !.attempts = 0]
       IN IF checkpoint[r].fp = fetch.fp /\ checkpoint[r].attempts = fetch.attempts
          THEN /\ checkpoint' = [checkpoint EXCEPT ![r] =
                                    IF fetch.again /\ obs < 2 THEN new ELSE Final(new)]
               /\ marker' = [marker EXCEPT ![r] = detail[r]]
               /\ ride' = [ride EXCEPT ![r].changed = FALSE]
               /\ seen' = [seen EXCEPT ![r] =
                              IF ride[r].fp = fetch.fp /\ @ # <<>>
                              THEN <<@[Len(@)], detail[r]>> ELSE <<detail[r]>>]
          ELSE UNCHANGED <<checkpoint, marker, ride, seen>>
    /\ fetch' = NoFetch
    /\ UNCHANGED <<detail, disturbances>>

\* _preservation_finish after a failure: the reason and a delay.
FailDetail ==
    /\ fetch.at = "failed" /\ fetch' = NoFetch
    /\ ride' = [ride EXCEPT ![fetch.ride].changed = FALSE]
    /\ UNCHANGED <<detail, marker, checkpoint, seen, disturbances>>

----------------------------------------------------------------------------
\* The rest of the system.

\* next_attempt of a checkpoint passes.
DetailDue(r) ==
    /\ checkpoint[r] # NoCheckpoint /\ ~checkpoint[r].final /\ ~checkpoint[r].due
    /\ fetch.ride # r
    /\ checkpoint' = [checkpoint EXCEPT ![r].due = TRUE]
    /\ UNCHANGED <<ride, detail, marker, fetch, seen, disturbances>>

\* The ride ended more than a day ago.
Matures(r) ==
    /\ ride[r].recent /\ ride' = [ride EXCEPT ![r].recent = FALSE]
    /\ UNCHANGED <<detail, marker, checkpoint, fetch, seen, disturbances>>

\* A recorded list changes the summary of the ride, and with it its revision.
SummaryChanges(r, fp) ==
    /\ fp # ride[r].fp /\ Disturbance
    /\ ride' = [ride EXCEPT ![r].fp = fp, ![r].changed = TRUE]
    /\ UNCHANGED <<detail, marker, checkpoint, fetch, seen>>

\* A view or an action stores a detail it asked for.
OtherStores(r, h) ==
    /\ ride[r].fp # 0 /\ detail[r] # h /\ Disturbance
    /\ detail' = [detail EXCEPT ![r] = h]
    /\ UNCHANGED <<ride, marker, checkpoint, fetch, seen>>

\* The worker is stopped or killed: the claim is due again when its lease passes.
FetchStops ==
    /\ fetch.at # "rest" /\ Disturbance /\ fetch' = NoFetch
    /\ UNCHANGED <<ride, detail, marker, checkpoint, seen>>

FetchSteps ==
    \/ \E h \in Hashes, simple, kept \in BOOLEAN : StoreDetail(h, simple, kept)
    \/ DetailFails \/ FinishDetail \/ FailDetail

DetailNext ==
    \/ ClaimDetail \/ FetchSteps \/ FetchStops
    \/ \E r \in Rides : \/ DetailDue(r) \/ Matures(r)
                        \/ \E fp \in 0..2 : SummaryChanges(r, fp)
                        \/ \E h \in Hashes : OtherStores(r, h)

DetailSafe == DetailInit /\ [][DetailNext]_detailVars

----------------------------------------------------------------------------
\* Properties.

\* Types, with the checks of task_state.
DetailTypeOK ==
    /\ \A r \in Rides : /\ ride[r].fp \in 0..2 /\ detail[r] \in Hashes \union {0}
                        /\ marker[r] \in Hashes \union {0, -1}
                        /\ checkpoint[r].obs \in 0..2 /\ checkpoint[r].attempts \in Nat
                        /\ checkpoint[r].final => ~checkpoint[r].due
    /\ fetch.ride \in Rides \union {0} /\ disturbances \in 0..MaxDisturbances

\* A checkpoint claims an observation only of a detail that the archive holds: a refused write,
\* a crash after the claim, or a summary that had no detail before never makes one.
ObservedIsKept ==
    \A r \in Rides : checkpoint[r].obs >= 1 /\ checkpoint[r].fp # 0 => detail[r] # 0

\* While a ride is recent, two observations are two equal ones of the same summary, whoever
\* else changed the summary or the detail in between.
TwoObservationsAgree ==
    \A r \in Rides :
        checkpoint[r].obs = 2 /\ ride[r].recent /\ checkpoint[r].fp # 0 =>
            Len(seen[r]) = 2 /\ seen[r][1] = seen[r][2]

\* What a checkpoint says of its ride is so.
DetailsAreTrue == ObservedIsKept /\ TwoObservationsAgree
=============================================================================
