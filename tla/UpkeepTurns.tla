---------------------------- MODULE UpkeepTurns ----------------------------
(***************************************************************************)
(* Whose turn it is: how the preservation worker divides the hourly budget *)
(* of an account.                                                          *)
(*                                                                         *)
(* A tick serves at most one request.  The details of rides and the months *)
(* take turns; the months rotate between three families, the baseline, the *)
(* incremental runs and the explicit work, which in turn alternates sparse *)
(* repairs and the range job; and within each of the two sides the         *)
(* vehicles rotate.  All of it is durable, in meta.  A request reserves    *)
(* the budget before it is sent; the owner's actions and the daily list    *)
(* reserve it too.                                                         *)
(*                                                                         *)
(* What the work consists of is in HistoryScan, SyncJobs, MonthTasks and   *)
(* DetailTasks; here it is only pending or not, per vehicle.               *)
(***************************************************************************)
EXTENDS Integers, FiniteSets, SequencesExt

CONSTANTS Fleet,  \* the vehicles, 1..n in the order of their serial numbers
          Works,         \* the work that can come up: pairs of a kind and a vehicle
          MaxWait,       \* the counters of sides and vehicles stop here
          MaxFamilyWait  \* the counters of families stop here; 0 observes nothing

ASSUME UpkeepTurnsAssumption ==
    /\ Fleet = 1..Cardinality(Fleet) /\ IsFiniteSet(Fleet) /\ Fleet # {}
    /\ {MaxWait, MaxFamilyWait} \subseteq Nat

VARIABLES
    side,        \* preservation_turn
    family,      \* history_family_turn
    monthKind,   \* preservation_month_kind
    cursor,      \* preservation_detail_cursor and preservation_month_cursor; 0 when absent
    spent,       \* preservation_budget is in the future
    halted,      \* vehicles with history_paused
    waiting,     \* the vehicles with due work of each kind
    reusable,    \* vehicles whose next month of the baseline the archive can supply itself
    sideWaits,   \* requests of the other side the worker served while a side had due work (observed)
    carWaits,    \* requests of other vehicles' details while a vehicle had one due (observed)
    familyWaits  \* requests of the other families while a family had due work (observed)

turnVars == <<side, family, monthKind, cursor, spent, halted, waiting, reusable,
              sideWaits, carWaits, familyWaits>>

Kinds == {"detail", "baseline", "incremental", "sparse", "range"}
FamilyKinds == <<{"baseline"}, {"incremental"}, {"sparse", "range"}>>
MonthKinds == Kinds \ {"detail"}
Capped(n, bound) == IF n < bound THEN n + 1 ELSE n

Due(kind) == waiting[kind] \ halted

TurnsInit ==
    /\ side = "detail" /\ family = 0 /\ monthKind = "sparse"
    /\ cursor = [s \in {"detail", "month"} |-> 0]
    /\ spent = FALSE /\ halted = {} /\ reusable = {}
    /\ waiting = [kind \in Kinds |-> {}]
    /\ sideWaits = [s \in {"detail", "month"} |-> 0]
    /\ carWaits = [v \in Fleet |-> 0]
    /\ familyWaits = [f \in 1..3 |-> 0]

----------------------------------------------------------------------------
\* Mutant: the vehicle that was served comes first again.
PlaceFrom0(s, v) == IF v >= cursor[s] THEN v ELSE v + Cardinality(Fleet)

\* async_preservation_order: the vehicles after the one that was served last come first.
PlaceFrom(s, v) == IF v > cursor[s] THEN v ELSE v + Cardinality(Fleet)
FirstOf(s, vs) == CHOOSE v \in vs : \A o \in vs : PlaceFrom(s, v) <= PlaceFrom(s, o)

TurnAfter(kind) == side' = IF kind = "detail" THEN "month" ELSE "detail"

\* _reserve_background: one transaction, with the claim it belongs to.
Reserved(kind, v) ==
    /\ ~spent /\ spent' = TRUE
    /\ TurnAfter(kind)
    /\ cursor' = [cursor EXCEPT ![IF kind = "detail" THEN "detail" ELSE "month"] = v]
    /\ monthKind' = IF kind = "detail" THEN monthKind
                    ELSE IF kind = "sparse" THEN "range" ELSE "sparse"

\* What the counters observe when the worker serves v.
Observed(kind, v) ==
    LET mine == IF kind = "detail" THEN "detail" ELSE "month"
        mineOf(s) == IF s = "detail" THEN {"detail"} ELSE MonthKinds
    IN /\ sideWaits' = [s \in {"detail", "month"} |->
              IF s = mine \/ \A k \in mineOf(s) : Due(k) = {} THEN 0 ELSE Capped(sideWaits[s], MaxWait)]
       /\ carWaits' = [o \in Fleet |->
              IF o = v \/ o \notin Due("detail") THEN 0
              ELSE IF kind = "detail" THEN Capped(carWaits[o], MaxWait) ELSE carWaits[o]]
       /\ familyWaits' = [f \in 1..3 |->
              IF kind \in FamilyKinds[f] \/ \A k \in FamilyKinds[f] : Due(k) = {} THEN 0
              ELSE IF kind = "detail" THEN familyWaits[f] ELSE Capped(familyWaits[f], MaxFamilyWait)]

\* The request is sent and its work is done, or stays for another time.
Serve(kind, v) ==
    /\ Reserved(kind, v) /\ Observed(kind, v)
    /\ \E rest \in SUBSET {v} :
          waiting' = [waiting EXCEPT ![kind] = (@ \ {v}) \union rest]
    /\ UNCHANGED halted

----------------------------------------------------------------------------
\* One tick of the worker.

\* The family at an offset from the turn, 1..3.
FamilyAt(offset) == ((family + offset) % 3) + 1

\* The turn after family f was served.
FamilyAfter(f) == f % 3

\* What a kind can do now: without budget, only the baseline's months that are reused and the
\* range job, which skips what the archive has; its step counts as done even if nothing was.
Able(kind) ==
    IF kind = "range" THEN Due(kind)
    ELSE IF kind = "baseline" THEN {v \in Due(kind) : v \in reusable \/ ~spent}
    ELSE IF spent THEN {} ELSE Due(kind)

\* A step without a request.
LocalStep(kind, v) ==
    /\ waiting' \in {waiting, [waiting EXCEPT ![kind] = @ \ {v}]}
    /\ UNCHANGED <<side, monthKind, cursor, spent, halted, sideWaits, carWaits, familyWaits>>

\* bootstrap.async_step, for the baseline and for the incremental runs, async_step of the repairs
\* and _resume_range.
StepOf(kind) ==
    LET v == FirstOf("month", Able(kind))
    IN \/ kind = "baseline" /\ v \in reusable /\ LocalStep(kind, v) /\ reusable' = reusable \ {v}
       \/ kind = "range" /\ LocalStep(kind, v) /\ UNCHANGED reusable
       \/ ~(kind = "baseline" /\ v \in reusable) /\ Serve(kind, v) /\ UNCHANGED reusable

\* _legacy_month_step: sparse repairs and the range job take turns.
Explicit ==
    IF Able("sparse") # {} /\ (monthKind = "sparse" \/ Able("range") = {}) THEN "sparse" ELSE "range"

\* Whether a family's step would return True.
HasStep(f) == \E kind \in FamilyKinds[f] : Able(kind) # {}

\* _resume_months: the first family, from its turn on, that has a step to do.
MonthSide ==
    \E offset \in 0..2 :
        LET f == FamilyAt(offset)
        IN /\ HasStep(f) /\ \A o \in 0..(offset - 1) : ~HasStep(FamilyAt(o))
           /\ family' = FamilyAfter(f)
           /\ StepOf(IF f = 1 THEN "baseline" ELSE IF f = 2 THEN "incremental" ELSE Explicit)

MonthSideIdle == \A f \in 1..3 : ~HasStep(f)

\* The claims of details, the vehicles in order.
DetailSide ==
    /\ ~spent /\ Due("detail") # {}
    /\ Serve("detail", FirstOf("detail", Due("detail")))
    /\ UNCHANGED <<family, reusable>>

DetailSideIdle == spent \/ Due("detail") = {}

\* Mutant: when the months have the turn, only they are looked at.
TickOneSided ==
    \/ side = "month" /\ MonthSide
    \/ side # "month" /\ DetailSide
    \/ side # "month" /\ DetailSideIdle /\ MonthSide

\* _step: the months first when it is their turn; then the details; then the months.
UpkeepTick ==
    \/ side = "month" /\ MonthSide
    \/ (side # "month" \/ MonthSideIdle) /\ DetailSide
    \/ side # "month" /\ DetailSideIdle /\ MonthSide

----------------------------------------------------------------------------
\* The rest of the system.

\* An action of the owner or the daily list reserves a month's request (async_background_budget).
OthersReserve(v) ==
    /\ v \notin halted /\ Reserved("month", v)
    /\ sideWaits' = [sideWaits EXCEPT !["month"] = 0]
    /\ UNCHANGED <<family, halted, waiting, reusable, carWaits, familyWaits>>

\* The interval of the budget passes.
IntervalPasses ==
    /\ spent /\ spent' = FALSE
    /\ UNCHANGED <<side, family, monthKind, cursor, halted, waiting, reusable,
                   sideWaits, carWaits, familyWaits>>

\* Work comes up or becomes due; there is one range job.
WorkComesUp(kind, v) ==
    /\ <<kind, v>> \in Works /\ v \notin waiting[kind] /\ (kind = "range" => waiting[kind] = {})
    /\ waiting' = [waiting EXCEPT ![kind] = @ \union {v}]
    /\ reusable' \in {reusable, IF kind = "baseline" THEN reusable \union {v} ELSE reusable}
    /\ UNCHANGED <<side, family, monthKind, cursor, spent, halted,
                   sideWaits, carWaits, familyWaits>>

\* async_pause: a paused vehicle waits for nothing.
PauseHistory(v) ==
    /\ halted' = IF v \in halted THEN halted \ {v} ELSE halted \union {v}
    /\ carWaits' = [carWaits EXCEPT ![v] = 0]
    /\ sideWaits' = [s \in {"detail", "month"} |-> 0]
    /\ familyWaits' = [f \in 1..3 |-> 0]
    /\ UNCHANGED <<side, family, monthKind, cursor, spent, waiting, reusable>>

TurnsNext ==
    \/ UpkeepTick \/ IntervalPasses
    \/ \E v \in Fleet : \/ OthersReserve(v) \/ PauseHistory(v)
                        \/ \E kind \in Kinds : WorkComesUp(kind, v)

TurnsSafe == TurnsInit /\ [][TurnsNext]_turnVars

----------------------------------------------------------------------------
\* Properties.

TurnsTypeOK ==
    /\ side \in {"detail", "month"} /\ family \in 0..2 /\ monthKind \in {"sparse", "range"}
    /\ cursor \in [{"detail", "month"} -> Fleet \union {0}]
    /\ spent \in BOOLEAN /\ halted \subseteq Fleet
    /\ waiting \in [Kinds -> SUBSET Fleet] /\ Cardinality(waiting["range"]) <= 1
    /\ reusable \subseteq Fleet

\* Neither side is passed over twice while it has due work, and no vehicle's details wait for
\* more than one request of every other vehicle, whatever other callers take of the budget.
SidesAndVehiclesRotate ==
    /\ \A s \in {"detail", "month"} : sideWaits[s] <= 1
    /\ \A v \in Fleet : carWaits[v] <= Cardinality(Fleet) - 1

\* With budget left and due work anywhere, a tick serves somebody.
NoTickIsWasted ==
    ~spent /\ (\E kind \in Kinds : Due(kind) # {}) => ENABLED UpkeepTick

\* What the rotation of the families is for (test_month_family_rotation_gives_each_pending_
\* family_a_turn): a family with due work gets the next but two request at the latest.
EachFamilyGetsATurn == \A f \in 1..3 : familyWaits[f] <= 2
=============================================================================
