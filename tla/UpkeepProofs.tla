---------------------------- MODULE UpkeepProofs ----------------------------
(***************************************************************************)
(* The preservation worker, for every fleet, list of rides and content of  *)
(* their details.                                                          *)
(*   Its turns are fair: no side is passed over twice while it has due     *)
(* work, and no vehicle's details wait for more than one request of every  *)
(* other vehicle.                                                          *)
(*   Its checkpoints are true: what counts as observed is in the archive,  *)
(* and a recent ride is final only when two observations agreed.           *)
(* The status reads of the coordinator, for every set of their readers: no *)
(* caller is served a request of before its command, and no read runs that *)
(* nobody waits for.                                                       *)
(***************************************************************************)
EXTENDS UpkeepTurns, DetailTasks, SharedReads, FiniteSetTheorems, WellFoundedInduction, TLAPS

N == Cardinality(Fleet)
Sides == {"detail", "month"}

\* How many vehicles have their turn before v, v included.
Distance(v) == PlaceFrom("detail", v) - cursor["detail"]

TurnTypes ==
    /\ side \in Sides /\ family \in 0..2 /\ monthKind \in {"sparse", "range"}
    /\ cursor \in [Sides -> 0..N]
    /\ spent \in BOOLEAN
    /\ halted \subseteq Fleet /\ reusable \subseteq Fleet
    /\ waiting \in [Kinds -> SUBSET Fleet]

\* A side that was passed over has the turn.
SideInv ==
    /\ sideWaits \in [Sides -> 0..1]
    /\ \A s \in Sides : sideWaits[s] = 1 => side = s

\* A vehicle that was passed over w times has moved up w places.
CarInv ==
    /\ carWaits \in [Fleet -> Nat]
    /\ \A v \in Fleet : carWaits[v] + Distance(v) <= N

TurnsInv == TurnTypes /\ SideInv /\ CarInv

\* A set of natural numbers has a least element.
LEMMA Least ==
    ASSUME NEW T \in SUBSET Nat, T # {}
    PROVE  \E x \in T : \A y \in T : x <= y
<1>1. PICK x \in T : \A y \in T : ~(<<y, x>> \in OpToRel(<, Nat))
  BY NatLessThanWellFounded, WFMin, Zenon
<1>2. \A y \in T : ~(y < x)
  BY <1>1 DEF OpToRel
<1> QED
  BY <1>2

\* The number of vehicles.
LEMMA FleetSize == ASSUME UpkeepTurnsAssumption PROVE N \in Nat /\ Fleet = 1..N
BY FS_CardinalityType DEF UpkeepTurnsAssumption, N

\* The places of the vehicles in the order from a cursor are different.
LEMMA Places ==
    ASSUME UpkeepTurnsAssumption, TurnTypes, NEW s \in Sides
    PROVE  /\ \A v \in Fleet : PlaceFrom(s, v) \in Nat /\ PlaceFrom(s, v) - cursor[s] \in 1..N
           /\ \A v, o \in Fleet : PlaceFrom(s, v) = PlaceFrom(s, o) => v = o
<1>1. cursor[s] \in 0..N
  BY DEF TurnTypes
<1> QED
  BY SMTT(30), <1>1, FleetSize DEF PlaceFrom, N

\* async_preservation_order puts one vehicle before all others.
LEMMA FirstExists ==
    ASSUME UpkeepTurnsAssumption, TurnTypes, NEW s \in Sides, NEW vs \in SUBSET Fleet, vs # {}
    PROVE  /\ FirstOf(s, vs) \in vs
           /\ \A o \in vs : PlaceFrom(s, FirstOf(s, vs)) <= PlaceFrom(s, o)
<1> DEFINE T == {PlaceFrom(s, v) : v \in vs}
<1>1. T \in SUBSET Nat /\ T # {}
  BY Places
<1>2. PICK x \in T : \A y \in T : x <= y
  <2> HIDE DEF T
  <2> QED
    BY <1>1, Least
<1>3. PICK v \in vs : x = PlaceFrom(s, v)
  BY <1>2
<1>4. \A o \in vs : PlaceFrom(s, v) <= PlaceFrom(s, o)
  BY <1>2, <1>3
<1>5. \E w \in vs : \A o \in vs : PlaceFrom(s, w) <= PlaceFrom(s, o)
  BY <1>4
<1> QED
  BY <1>5 DEF FirstOf

\* What can be done is due.
LEMMA AbleIsDue ==
    ASSUME TurnTypes, NEW kind \in Kinds
    PROVE  /\ Able(kind) \subseteq Due(kind) /\ Due(kind) \subseteq waiting[kind]
           /\ Due(kind) \subseteq Fleet
           /\ ~spent => Due(kind) \subseteq Able(kind)
BY DEF Able, Due, TurnTypes

\* A step of the months does some work of a month, for the vehicle whose turn it is.
LEMMA MonthStep ==
    ASSUME TurnTypes, MonthSide
    PROVE  \E kind \in MonthKinds : Able(kind) # {} /\ StepOf(kind) /\ family' \in 0..2
<1>1. PICK offset \in 0..2 :
        /\ HasStep(FamilyAt(offset))
        /\ family' = FamilyAfter(FamilyAt(offset))
        /\ StepOf(IF FamilyAt(offset) = 1 THEN "baseline"
                  ELSE IF FamilyAt(offset) = 2 THEN "incremental" ELSE Explicit)
  BY DEF MonthSide
<1> DEFINE f == FamilyAt(offset)
<1>2. f \in 1..3
  BY DEF FamilyAt, TurnTypes
<1>3. family' \in 0..2
  BY <1>1, <1>2 DEF FamilyAfter
<1>4. FamilyKinds[1] = {"baseline"} /\ FamilyKinds[2] = {"incremental"} /\ FamilyKinds[3] = {"sparse", "range"}
  BY DEF FamilyKinds
<1>5. {"baseline", "incremental", "sparse", "range"} \subseteq MonthKinds
  BY DEF MonthKinds, Kinds
<1>6. CASE f = 1
  BY <1>1, <1>3, <1>4, <1>5, <1>6 DEF HasStep
<1>7. CASE f = 2
  BY <1>1, <1>3, <1>4, <1>5, <1>7 DEF HasStep
<1>8. CASE f = 3
  <2>1. Explicit \in {"sparse", "range"} /\ StepOf(Explicit)
    BY <1>1, <1>8 DEF Explicit
  <2>2. Able(Explicit) # {}
    <3>1. Able("sparse") # {} \/ Able("range") # {}
      BY <1>1, <1>4, <1>8 DEF HasStep
    <3> QED
      BY <3>1 DEF Explicit
  <2> QED
    BY <1>3, <1>5, <2>1, <2>2
<1> QED
  BY <1>2, <1>6, <1>7, <1>8

-----------------------------------------------------------------------------
\* A request is sent for due work of the side that has the turn, unless the
\* other one has none; details are sent for the first vehicle.
Warranted(kind, v) ==
    /\ kind \in Kinds /\ v \in Due(kind)
    /\ kind = "detail" => v = FirstOf("detail", Due("detail"))
    /\ kind = "detail" /\ (\E k \in MonthKinds : Due(k) # {}) => side = "detail"
    /\ kind # "detail" /\ Due("detail") # {} => side = "month"

\* A warranted request keeps the invariant (_reserve_background).
LEMMA ServeKeeps ==
    ASSUME UpkeepTurnsAssumption, TurnsInv, NEW kind, NEW v, Warranted(kind, v), Serve(kind, v),
           family' \in 0..2, reusable' \subseteq Fleet
    PROVE  TurnsInv'
<1>1. /\ kind \in Kinds /\ v \in Fleet /\ v \in Due(kind) /\ Due(kind) \subseteq Fleet
      /\ TurnTypes /\ N \in Nat /\ Fleet = 1..N
  BY FleetSize, AbleIsDue DEF Warranted, TurnsInv
<1>2. TurnTypes'
  <2>1. side' \in Sides /\ monthKind' \in {"sparse", "range"} /\ spent' \in BOOLEAN
    BY <1>1 DEF Serve, Reserved, TurnAfter, Sides, TurnTypes
  <2>2. cursor' \in [Sides -> 0..N]
    BY <1>1 DEF Serve, Reserved, Sides, TurnTypes
  <2>3. waiting' \in [Kinds -> SUBSET Fleet]
    BY ZenonT(60), <1>1 DEF Serve, TurnTypes
  <2> QED
    BY <1>1, <2>1, <2>2, <2>3 DEF Serve, TurnTypes, N
<1>3. SideInv'
  <2>1. side' = IF kind = "detail" THEN "month" ELSE "detail"
    BY DEF Serve, Reserved, TurnAfter
  <2>2. /\ DOMAIN sideWaits' = Sides
        /\ sideWaits' \in [Sides -> {sideWaits'[s] : s \in Sides}]
    BY DEF Serve, Observed, Sides
  <2>3. ASSUME kind = "detail"
        PROVE  sideWaits'["detail"] = 0 /\ sideWaits'["month"] \in 0..1
    <3>1. sideWaits'["detail"] = 0
      BY <2>3 DEF Serve, Observed
    <3>2. CASE \A k \in MonthKinds : Due(k) = {}
      BY <2>3, <3>1, <3>2 DEF Serve, Observed
    <3>3. CASE \E k \in MonthKinds : Due(k) # {}
      <4>1. sideWaits["month"] = 0
        BY <2>3, <3>3 DEF Warranted, TurnsInv, SideInv, Sides
      <4>2. sideWaits'["month"] \in {0, Capped(sideWaits["month"], MaxWait)}
        BY <2>3 DEF Serve, Observed
      <4> QED
        BY <3>1, <4>1, <4>2 DEF Capped
    <3> QED
      BY <3>2, <3>3
  <2>4. ASSUME kind # "detail"
        PROVE  sideWaits'["month"] = 0 /\ sideWaits'["detail"] \in 0..1
    <3>1. sideWaits'["month"] = 0
      BY <2>4 DEF Serve, Observed
    <3>2. CASE Due("detail") = {}
      BY <2>4, <3>1, <3>2 DEF Serve, Observed
    <3>3. CASE Due("detail") # {}
      <4>1. sideWaits["detail"] = 0
        BY <2>4, <3>3 DEF Warranted, TurnsInv, SideInv, Sides
      <4>2. sideWaits'["detail"] \in {0, Capped(sideWaits["detail"], MaxWait)}
        BY <2>4 DEF Serve, Observed
      <4> QED
        BY <3>1, <4>1, <4>2 DEF Capped
    <3> QED
      BY <3>2, <3>3
  <2>5. \A s \in Sides : sideWaits'[s] \in 0..1 /\ (sideWaits'[s] = 1 => side' = s)
    BY <2>1, <2>3, <2>4 DEF Sides
  <2> QED
    BY <2>2, <2>5 DEF SideInv
<1>4. CarInv'
  <2>1. carWaits' \in [Fleet -> {carWaits'[o] : o \in Fleet}] /\ DOMAIN carWaits' = Fleet
    BY DEF Serve, Observed
  <2>2. \A o \in Fleet : Distance(o) \in 1..N /\ Distance(o)' \in 1..N
    <3>1. "detail" \in Sides
      BY DEF Sides
    <3>2. \A o \in Fleet : PlaceFrom("detail", o) - cursor["detail"] \in 1..N
      BY <1>1, <3>1, Places
    <3>3. cursor'["detail"] \in 0..N
      BY <1>2, <3>1 DEF TurnTypes, N
    <3>4. \A o \in Fleet : (PlaceFrom("detail", o) - cursor["detail"])' \in 1..N
      BY <1>1, <3>3 DEF PlaceFrom, N
    <3> QED
      BY <3>2, <3>4 DEF Distance
  <2>3. ASSUME NEW o \in Fleet PROVE carWaits'[o] \in Nat /\ carWaits'[o] + Distance(o)' <= N
    <3>1. CASE o = v \/ o \notin Due("detail")
      <4>1. carWaits'[o] = 0
        BY <3>1 DEF Serve, Observed
      <4> QED
        BY <1>1, <2>2, <4>1
    <3>2. CASE o # v /\ o \in Due("detail") /\ kind # "detail"
      <4>1. carWaits'[o] = carWaits[o]
        BY <3>2 DEF Serve, Observed
      <4>2. cursor'["detail"] = cursor["detail"]
        BY <1>1, <3>2 DEF Serve, Reserved, TurnTypes, Sides
      <4>3. Distance(o)' = Distance(o)
        BY <4>2 DEF Distance, PlaceFrom
      <4> QED
        BY <4>1, <4>3 DEF TurnsInv, CarInv
    <3>3. CASE o # v /\ o \in Due("detail") /\ kind = "detail"
      <4>1. carWaits'[o] = Capped(carWaits[o], MaxWait)
        BY <3>3 DEF Serve, Observed
      <4>2. cursor'["detail"] = v
        BY <1>1, <3>3 DEF Serve, Reserved, TurnTypes, Sides
      <4>3. PlaceFrom("detail", v) < PlaceFrom("detail", o)
        <5>1. v = FirstOf("detail", Due("detail")) /\ Due("detail") \in SUBSET Fleet /\ Due("detail") # {}
          BY <1>1, <3>3 DEF Warranted
        <5>2. "detail" \in Sides
          BY DEF Sides
        <5>3. PlaceFrom("detail", v) <= PlaceFrom("detail", o)
          BY <1>1, <3>3, <5>1, <5>2, FirstExists
        <5> QED
          BY <1>1, <3>3, <5>2, <5>3, Places
      <4>4. cursor["detail"] \in 0..N
        BY <1>1 DEF TurnTypes, Sides
      <4>5. Distance(o)' < Distance(o)
        BY <1>1, <4>2, <4>3, <4>4 DEF Distance, PlaceFrom, N
      <4>6. carWaits[o] \in Nat /\ carWaits[o] + Distance(o) <= N
        BY DEF TurnsInv, CarInv
      <4>7. carWaits'[o] \in Nat /\ carWaits'[o] <= carWaits[o] + 1
        BY <4>1, <4>6 DEF Capped
      <4>8. Distance(o) \in 1..N /\ Distance(o)' \in 1..N
        BY <2>2
      <4> QED
        BY SMTT(30), <1>1, <4>5, <4>6, <4>7, <4>8
    <3> QED
      BY <3>1, <3>2, <3>3
  <2> QED
    BY <2>1, <2>3 DEF CarInv, N
<1> QED
  BY <1>2, <1>3, <1>4 DEF TurnsInv

\* A step without a request keeps it.
LEMMA LocalKeeps ==
    ASSUME TurnsInv, NEW kind \in Kinds, NEW v, LocalStep(kind, v),
           family' \in 0..2, reusable' \subseteq Fleet
    PROVE  TurnsInv'
<1>1. TurnTypes'
  <2>1. waiting' \in [Kinds -> SUBSET Fleet]
    BY DEF LocalStep, TurnsInv, TurnTypes
  <2> QED
    BY <2>1 DEF LocalStep, TurnsInv, TurnTypes, N
<1>2. SideInv' /\ CarInv'
  BY DEF LocalStep, TurnsInv, SideInv, CarInv, Distance, PlaceFrom, N
<1> QED
  BY <1>1, <1>2 DEF TurnsInv

\* The months have the turn, or the details are not due (_resume_months).
LEMMA MonthSideKeeps ==
    ASSUME UpkeepTurnsAssumption, TurnsInv, MonthSide, side = "month" \/ DetailSideIdle
    PROVE  TurnsInv'
<1>1. PICK kind \in MonthKinds : Able(kind) # {} /\ StepOf(kind) /\ family' \in 0..2
  BY MonthStep DEF TurnsInv
<1> DEFINE v == FirstOf("month", Able(kind))
<1>2. kind \in Kinds /\ kind # "detail"
  BY DEF MonthKinds
<1>3. v \in Able(kind)
  BY <1>1, <1>2, AbleIsDue, FirstExists DEF TurnsInv, Sides
<1>4. v \in Due(kind) /\ reusable \subseteq Fleet
  BY <1>2, <1>3, AbleIsDue DEF TurnsInv, TurnTypes
<1>5. reusable' \subseteq Fleet /\ (LocalStep(kind, v) \/ Serve(kind, v))
  BY <1>1, <1>4 DEF StepOf
<1>6. CASE LocalStep(kind, v)
  BY <1>1, <1>2, <1>5, <1>6, LocalKeeps
<1>7. CASE Serve(kind, v)
  <2>1. ~spent
    BY <1>7 DEF Serve, Reserved
  <2>2. Warranted(kind, v)
    BY <1>2, <1>4, <2>1 DEF Warranted, DetailSideIdle
  <2> QED
    BY <1>1, <1>5, <1>7, <2>2, ServeKeeps
<1> QED
  BY <1>5, <1>6, <1>7

\* The details have the turn, or the months have nothing to do.
LEMMA DetailSideKeeps ==
    ASSUME UpkeepTurnsAssumption, TurnsInv, DetailSide, side # "month" \/ MonthSideIdle
    PROVE  TurnsInv'
<1> DEFINE v == FirstOf("detail", Due("detail"))
<1>1. /\ ~spent /\ Due("detail") # {} /\ Serve("detail", v)
      /\ family' \in 0..2 /\ reusable' \subseteq Fleet
  BY DEF DetailSide, TurnsInv, TurnTypes
<1>2. "detail" \in Kinds /\ "detail" \in Sides
  BY DEF Kinds, Sides
<1>3. v \in Due("detail")
  BY <1>1, <1>2, AbleIsDue, FirstExists DEF TurnsInv
<1>4. ASSUME MonthSideIdle, NEW k \in MonthKinds PROVE Due(k) = {}
  <2>1. FamilyKinds[1] = {"baseline"} /\ FamilyKinds[2] = {"incremental"} /\ FamilyKinds[3] = {"sparse", "range"}
    BY DEF FamilyKinds
  <2>2. \E f \in 1..3 : k \in FamilyKinds[f]
    BY <2>1 DEF MonthKinds, Kinds
  <2>3. Able(k) = {}
    BY <1>4, <2>2 DEF MonthSideIdle, HasStep
  <2>4. k \in Kinds
    BY DEF MonthKinds
  <2> QED
    BY <1>1, <2>3, <2>4, AbleIsDue DEF TurnsInv
<1>5. Warranted("detail", v)
  BY <1>2, <1>3, <1>4 DEF Warranted, TurnsInv, TurnTypes, Sides
<1> QED
  BY <1>1, <1>5, ServeKeeps

\* A request of the owner's actions or of the daily list keeps it.
LEMMA OthersKeep ==
    ASSUME UpkeepTurnsAssumption, TurnsInv, NEW v \in Fleet, OthersReserve(v)
    PROVE  TurnsInv'
<1>1. N \in Nat /\ Fleet = 1..N /\ "detail" \in Sides
  BY FleetSize DEF Sides
<1>2. TurnTypes'
  BY <1>1 DEF OthersReserve, Reserved, TurnAfter, TurnsInv, TurnTypes, Sides, N
<1>3. SideInv'
  BY DEF OthersReserve, Reserved, TurnAfter, TurnsInv, TurnTypes, SideInv, Sides
<1>4. cursor'["detail"] = cursor["detail"] /\ carWaits' = carWaits
  BY DEF OthersReserve, Reserved, TurnsInv, TurnTypes, Sides
<1>5. CarInv'
  BY <1>4 DEF TurnsInv, CarInv, Distance, PlaceFrom, N
<1> QED
  BY <1>2, <1>3, <1>5 DEF TurnsInv

\* A pause or its end keeps it.
LEMMA PauseKeeps ==
    ASSUME UpkeepTurnsAssumption, TurnsInv, NEW v \in Fleet, PauseHistory(v)
    PROVE  TurnsInv'
<1>1. TurnTypes'
  BY DEF PauseHistory, TurnsInv, TurnTypes, N
<1>2. SideInv'
  BY DEF PauseHistory, SideInv, Sides
<1>3. \A o \in Fleet : Distance(o) \in 1..N
  BY Places DEF TurnsInv, Distance, Sides
<1>4. \A o \in Fleet : Distance(o)' = Distance(o)
  BY DEF PauseHistory, Distance, PlaceFrom
<1>5. carWaits' \in [Fleet -> Nat] /\ \A o \in Fleet : carWaits'[o] <= carWaits[o]
  BY DEF PauseHistory, TurnsInv, CarInv
<1>6. ASSUME NEW o \in Fleet PROVE carWaits'[o] + Distance(o)' <= N
  <2>1. /\ carWaits[o] \in Nat /\ carWaits'[o] \in Nat /\ carWaits'[o] <= carWaits[o]
        /\ carWaits[o] + Distance(o) <= N
    BY <1>5 DEF TurnsInv, CarInv
  <2>2. N \in Nat /\ Distance(o) \in Int /\ Distance(o)' = Distance(o)
    BY <1>3, <1>4, FleetSize
  <2> QED
    BY <2>1, <2>2
<1>7. CarInv'
  BY <1>5, <1>6 DEF CarInv, N
<1> QED
  BY <1>1, <1>2, <1>7 DEF TurnsInv

\* Work that comes up keeps it, and so does the clock.
LEMMA OtherStepsKeep ==
    ASSUME TurnsInv,
           IntervalPasses \/ (\E v \in Fleet : \E kind \in Kinds : WorkComesUp(kind, v)) \/ UNCHANGED turnVars
    PROVE  TurnsInv'
<1>1. /\ UNCHANGED <<side, family, monthKind, cursor, halted, sideWaits, carWaits>>
      /\ spent' \in BOOLEAN /\ reusable' \subseteq Fleet /\ waiting' \in [Kinds -> SUBSET Fleet]
  BY DEF IntervalPasses, WorkComesUp, turnVars, TurnsInv, TurnTypes
<1>2. TurnTypes'
  BY <1>1 DEF TurnsInv, TurnTypes, N
<1>3. SideInv' /\ CarInv'
  BY <1>1 DEF TurnsInv, SideInv, CarInv, Distance, PlaceFrom, N
<1> QED
  BY <1>2, <1>3 DEF TurnsInv

\* At first nothing waits.
LEMMA TurnsInvInit == ASSUME UpkeepTurnsAssumption, TurnsInit PROVE TurnsInv
<1>1. N \in Nat /\ Fleet = 1..N
  BY FleetSize
<1>2. TurnTypes
  <2>1. cursor \in [Sides -> 0..N]
    BY <1>1 DEF TurnsInit, Sides
  <2>2. waiting \in [Kinds -> SUBSET Fleet]
    BY DEF TurnsInit
  <2>3. /\ side = "detail" /\ family = 0 /\ monthKind = "sparse"
        /\ halted = {} /\ reusable = {}
    BY DEF TurnsInit
  <2>4. spent \in BOOLEAN
    BY DEF TurnsInit
  <2> QED
    BY <2>1, <2>2, <2>3, <2>4 DEF TurnTypes, Sides
<1>3. SideInv
  BY DEF TurnsInit, SideInv, Sides
<1>4. CarInv
  BY <1>1, <1>2, Places DEF TurnsInit, CarInv, Distance, Sides
<1> QED
  BY <1>2, <1>3, <1>4 DEF TurnsInv

\* TurnsInv holds at every state.
LEMMA TurnsInvAlways == TurnsSafe => []TurnsInv
<1>1. TurnsInit => TurnsInv
  BY TurnsInvInit, UpkeepTurnsAssumption
<1>2. TurnsInv /\ [TurnsNext]_turnVars => TurnsInv'
  <2> SUFFICES ASSUME TurnsInv, [TurnsNext]_turnVars PROVE TurnsInv'
    OBVIOUS
  <2>1. CASE UpkeepTick
    BY <2>1, MonthSideKeeps, DetailSideKeeps, UpkeepTurnsAssumption DEF UpkeepTick
  <2>2. CASE \E v \in Fleet : OthersReserve(v)
    BY <2>2, OthersKeep, UpkeepTurnsAssumption
  <2>3. CASE \E v \in Fleet : PauseHistory(v)
    BY <2>3, PauseKeeps, UpkeepTurnsAssumption
  <2> QED
    BY <2>1, <2>2, <2>3, OtherStepsKeep DEF TurnsNext
<1> QED
  BY <1>1, <1>2, PTL DEF TurnsSafe

\* One durable turn serves the worker, the owner's actions and the daily list,
\* and still passes over no side twice and no vehicle's details more often than
\* there are other vehicles (_reserve_background, async_preservation_order).
THEOREM TurnsAreFair == TurnsSafe => []SidesAndVehiclesRotate
<1>1. ASSUME TurnsInv PROVE SidesAndVehiclesRotate
  <2>1. \A s \in {"detail", "month"} : sideWaits[s] <= 1
    BY <1>1 DEF TurnsInv, SideInv, Sides
  <2>2. \A v \in Fleet : carWaits[v] <= N - 1
    <3>1. \A v \in Fleet : Distance(v) \in 1..N
      BY <1>1, Places, UpkeepTurnsAssumption DEF TurnsInv, Distance, Sides
    <3> QED
      BY <1>1, <3>1, FleetSize, UpkeepTurnsAssumption DEF TurnsInv, CarInv
  <2> QED
    BY <2>1, <2>2 DEF SidesAndVehiclesRotate, N
<1> QED
  BY <1>1, TurnsInvAlways, PTL

\* What the details store keeps of a ride, and what the worker holds while it asks.
Checkpoints == [fp : -1..2, attempts : Nat, obs : 0..2, due : BOOLEAN, final : BOOLEAN]
Fetches == [at : {"rest", "query", "done", "failed"}, ride : Rides \union {0}, fp : 0..2,
            attempts : Nat, again : BOOLEAN]

\* The types of the details' state.
DetailTypes ==
    /\ ride \in [Rides -> [fp : 0..2, changed : BOOLEAN, recent : BOOLEAN]]
    /\ detail \in [Rides -> Hashes \union {0}]
    /\ marker \in [Rides -> Hashes \union {0, -1}]
    /\ checkpoint \in [Rides -> Checkpoints]
    /\ seen \in [Rides -> Seq(Hashes)]
    /\ fetch \in Fetches
    /\ disturbances \in 0..MaxDisturbances

\* The worker asks for a ride that is in the list, and is done when the archive has it.
FetchInv ==
    /\ fetch.at # "rest" => fetch.ride \in Rides /\ fetch.fp # 0
    /\ fetch.at = "done" => detail[fetch.ride] # 0

\* The marker is the content that was observed last, which is in the archive.
LastIsKept(r) ==
    checkpoint[r].obs >= 1 /\ checkpoint[r].fp # 0 =>
        detail[r] # 0 /\ seen[r] # <<>> /\ seen[r][Len(seen[r])] = marker[r]

\* A recent ride is observed twice when two observations in a row had the same content.
Agreed(r) ==
    checkpoint[r].obs = 2 /\ ride[r].recent /\ checkpoint[r].fp # 0 =>
        Len(seen[r]) = 2 /\ seen[r][1] = seen[r][2]

DetailInv == DetailTypes /\ FetchInv /\ \A r \in Rides : LastIsKept(r) /\ Agreed(r)

\* The rides are numbers, and so are the contents: none of them is 0.
LEMMA RidesAreNumbers ==
    ASSUME DetailTasksAssumption
    PROVE  /\ Cardinality(Rides) \in Nat /\ Rides = 1..Cardinality(Rides)
           /\ Rides \subseteq Nat \ {0} /\ Hashes \subseteq Nat \ {0} /\ MaxDisturbances \in Nat
BY FS_CardinalityType DEF DetailTasksAssumption

\* The empty store.
LEMMA DetailStart == DetailTasksAssumption /\ DetailInit => DetailInv
<1> SUFFICES ASSUME DetailTasksAssumption, DetailInit PROVE DetailInv
  OBVIOUS
<1>1. MaxDisturbances \in Nat
  BY RidesAreNumbers
<1>2. DetailTypes
  BY <1>1 DEF DetailInit, DetailTypes, Checkpoints, Fetches, NoCheckpoint, NoFetch
<1>3. FetchInv
  BY DEF DetailInit, FetchInv, NoFetch
<1>4. \A r \in Rides : LastIsKept(r) /\ Agreed(r)
  BY DEF DetailInit, LastIsKept, Agreed, NoCheckpoint
<1> QED
  BY <1>2, <1>3, <1>4 DEF DetailInv

\* The ways in which the code changes a checkpoint.
LEMMA CheckpointsForm ==
    ASSUME NEW c \in Checkpoints
    PROVE  /\ Claimed(c) \in Checkpoints /\ Claimed(c).fp = c.fp /\ Claimed(c).obs = c.obs
           /\ \A o \in 0..2 :
                 /\ Final([c EXCEPT !.obs = o]) \in Checkpoints
                 /\ Final([c EXCEPT !.obs = o]).fp = c.fp /\ Final([c EXCEPT !.obs = o]).obs = o
                 /\ [c EXCEPT !.obs = o, !.due = FALSE] \in Checkpoints
                 /\ [c EXCEPT !.obs = o, !.due = FALSE].fp = c.fp
                 /\ [c EXCEPT !.obs = o, !.due = FALSE].obs = o
           /\ Final(c) \in Checkpoints /\ Final(c).fp = c.fp /\ Final(c).obs = c.obs
           /\ \A b \in BOOLEAN : /\ [c EXCEPT !.due = b] \in Checkpoints
                                 /\ [c EXCEPT !.due = b].fp = c.fp /\ [c EXCEPT !.due = b].obs = c.obs
<1>1. \A n \in Nat : [c EXCEPT !.attempts = n, !.due = FALSE] \in Checkpoints
  BY DEF Checkpoints
<1>2. c.attempts + 1 \in Nat
  BY DEF Checkpoints
<1>3. Claimed(c) \in Checkpoints
  <2>1. [c EXCEPT !.attempts = c.attempts + 1, !.due = FALSE] \in Checkpoints
    BY <1>1, <1>2
  <2> QED
    BY <2>1 DEF Claimed
<1>4. Claimed(c).fp = c.fp /\ Claimed(c).obs = c.obs
  BY DEF Checkpoints, Claimed
<1>5. \A o \in 0..2 : [c EXCEPT !.obs = o] \in Checkpoints /\ [c EXCEPT !.obs = o, !.due = FALSE] \in Checkpoints
  BY DEF Checkpoints
<1>6. \A d \in Checkpoints : Final(d) \in Checkpoints
  BY DEF Checkpoints, Final
<1>7. \A o \in 0..2 : /\ Final([c EXCEPT !.obs = o]).fp = c.fp /\ Final([c EXCEPT !.obs = o]).obs = o
                      /\ [c EXCEPT !.obs = o, !.due = FALSE].fp = c.fp
                      /\ [c EXCEPT !.obs = o, !.due = FALSE].obs = o
  BY DEF Checkpoints, Final
<1>8. Final(c).fp = c.fp /\ Final(c).obs = c.obs
  BY DEF Checkpoints, Final
<1>9. \A b \in BOOLEAN : [c EXCEPT !.due = b] \in Checkpoints
  BY DEF Checkpoints
<1>10. \A b \in BOOLEAN : [c EXCEPT !.due = b].fp = c.fp /\ [c EXCEPT !.due = b].obs = c.obs
  BY DEF Checkpoints
<1> QED
  BY <1>3, <1>4, <1>5, <1>6, <1>7, <1>8, <1>9, <1>10

\* The ways in which the worker's claim changes.
LEMMA FetchForm ==
    /\ NoFetch \in Fetches
    /\ \A r \in Rides, fp \in 0..2, n \in Nat :
          [NoFetch EXCEPT !.at = "query", !.ride = r, !.fp = fp, !.attempts = n] \in Fetches
    /\ \A f \in Fetches :
          /\ \A b \in BOOLEAN, at \in {"done", "failed"} : [f EXCEPT !.at = at, !.again = b] \in Fetches
          /\ [f EXCEPT !.at = "failed"] \in Fetches
<1>1. NoFetch \in Fetches
  BY DEF NoFetch, Fetches
<1>2. \A r \in Rides, fp \in 0..2, n \in Nat :
         [NoFetch EXCEPT !.at = "query", !.ride = r, !.fp = fp, !.attempts = n] \in Fetches
  BY DEF NoFetch, Fetches
<1>3. \A f \in Fetches, b \in BOOLEAN, at \in {"done", "failed"} :
         [f EXCEPT !.at = at, !.again = b] \in Fetches
  BY DEF Fetches
<1>4. \A f \in Fetches : [f EXCEPT !.at = "failed"] \in Fetches
  BY DEF Fetches
<1> QED
  BY <1>1, <1>2, <1>3, <1>4

\* A persisted detail is the first observation of a recent ride, and both of an older one.
LEMMA Observations ==
    ASSUME NEW c \in Checkpoints
    PROVE  [c EXCEPT !.obs = 1, !.due = FALSE] \in Checkpoints /\ Final([c EXCEPT !.obs = 2]) \in Checkpoints
<1>1. [c EXCEPT !.obs = 2] \in Checkpoints
  BY DEF Checkpoints
<1>2. Final([c EXCEPT !.obs = 2]) \in Checkpoints
  BY <1>1, CheckpointsForm
<1>3. \A o \in 0..2 : [c EXCEPT !.obs = o, !.due = FALSE] \in Checkpoints
  BY DEF Checkpoints
<1>4. [c EXCEPT !.obs = 1, !.due = FALSE] \in Checkpoints
  BY <1>3
<1> QED
  BY <1>2, <1>4

\* What the claim makes of a checkpoint.
LEMMA RenewedIs ==
    ASSUME DetailTasksAssumption, DetailInv, NEW r \in Rides
    PROVE  /\ Renewed(r) \in Checkpoints /\ Claimed(Renewed(r)) \in Checkpoints
           /\ Claimed(Renewed(r)).fp = Renewed(r).fp /\ Claimed(Renewed(r)).obs = Renewed(r).obs
           /\ Renewed(r).fp = ride[r].fp
           /\ ride[r].fp = 0 => ~Renewed(r).due
           /\ ride[r].fp # 0 /\ Persisted(r) =>
                 Renewed(r).obs \in 1..2 /\ (ride[r].recent => Renewed(r).obs = 1)
           /\ ride[r].fp # 0 /\ ~Persisted(r) =>
                 IF KeptCheckpoint(r) THEN Renewed(r) = checkpoint[r] ELSE Renewed(r).obs = 0
<1>1. ride[r] \in [fp : 0..2, changed : BOOLEAN, recent : BOOLEAN] /\ checkpoint[r] \in Checkpoints
  BY DEF DetailInv, DetailTypes
<1> DEFINE base == IF KeptCheckpoint(r) THEN checkpoint[r] ELSE [NoCheckpoint EXCEPT !.fp = ride[r].fp]
<1>2. base \in Checkpoints /\ base.fp = ride[r].fp
  <2>1. CASE KeptCheckpoint(r)
    BY <1>1, <2>1 DEF KeptCheckpoint
  <2>2. CASE ~KeptCheckpoint(r)
    <3>1. base = [fp |-> ride[r].fp, attempts |-> 0, obs |-> 0, due |-> TRUE, final |-> FALSE]
      BY <2>2 DEF NoCheckpoint
    <3>2. ride[r].fp \in -1..2
      BY <1>1
    <3> HIDE DEF base
    <3> QED
      BY <3>1, <3>2 DEF Checkpoints
  <2> QED
    BY <2>1, <2>2
<1>3. ~KeptCheckpoint(r) => base.obs = 0
  BY DEF NoCheckpoint
<1>4. KeptCheckpoint(r) => base = checkpoint[r]
  OBVIOUS
<1> HIDE DEF base
<1>5. \A c \in Checkpoints : Claimed(c) \in Checkpoints /\ Claimed(c).fp = c.fp /\ Claimed(c).obs = c.obs
  BY CheckpointsForm
<1>7. CASE ride[r].fp = 0
  <2>1. Renewed(r) = Final([NoCheckpoint EXCEPT !.fp = 0, !.obs = 2])
    BY <1>7 DEF Renewed
  <2>2. Renewed(r) = [fp |-> 0, attempts |-> 0, obs |-> 2, due |-> FALSE, final |-> TRUE]
    BY <2>1 DEF Final, NoCheckpoint
  <2>3. Renewed(r) \in Checkpoints /\ Renewed(r).fp = 0 /\ ~Renewed(r).due
    BY <2>2 DEF Checkpoints
  <2> QED
    BY <2>3, <1>5, <1>7
<1>8. CASE ride[r].fp # 0 /\ ~Persisted(r)
  <2>1. Renewed(r) = base
    BY <1>8 DEF Renewed, base
  <2> QED
    BY <2>1, <1>2, <1>3, <1>4, <1>5, <1>8
<1>9. CASE ride[r].fp # 0 /\ Persisted(r)
  <2>1. Renewed(r) = IF ride[r].recent THEN [base EXCEPT !.obs = 1, !.due = FALSE]
                     ELSE Final([base EXCEPT !.obs = 2])
    BY <1>9 DEF Renewed, base
  <2>2. CASE ride[r].recent
    <3>1. Renewed(r) = [base EXCEPT !.obs = 1, !.due = FALSE]
      BY <2>1, <2>2
    <3>2. [base EXCEPT !.obs = 1, !.due = FALSE] \in Checkpoints
      BY <1>2, Observations
    <3>3. [base EXCEPT !.obs = 1, !.due = FALSE].fp = base.fp /\ [base EXCEPT !.obs = 1, !.due = FALSE].obs = 1
      BY <1>2 DEF Checkpoints
    <3>4. Renewed(r) \in Checkpoints /\ Renewed(r).fp = ride[r].fp /\ Renewed(r).obs = 1
      BY <3>1, <3>2, <3>3, <1>2
    <3> QED
      BY <3>4, <1>5, <1>9, <2>2
  <2>3. CASE ~ride[r].recent
    <3>1. Renewed(r) = Final([base EXCEPT !.obs = 2])
      BY <2>1, <2>3
    <3>2. Final([base EXCEPT !.obs = 2]) \in Checkpoints
      BY <1>2, Observations
    <3>3. Final([base EXCEPT !.obs = 2]).fp = base.fp /\ Final([base EXCEPT !.obs = 2]).obs = 2
      BY <1>2 DEF Checkpoints, Final
    <3>4. Renewed(r) \in Checkpoints /\ Renewed(r).fp = ride[r].fp /\ Renewed(r).obs = 2
      BY <3>1, <3>2, <3>3, <1>2
    <3> QED
      BY <3>4, <1>5, <1>9, <2>3
  <2> QED
    BY <2>2, <2>3
<1> QED
  BY <1>7, <1>8, <1>9

\* What the claim leaves of a ride: it passes the ride over, or brings it up to date.
PassedOver(r) ==
    /\ checkpoint'[r] = checkpoint[r] /\ marker'[r] = marker[r] /\ ride'[r] = ride[r]
    /\ seen'[r] = seen[r]
BroughtUp(r) ==
    /\ checkpoint'[r] \in {Renewed(r), Claimed(Renewed(r))}
    /\ marker'[r] = Noted(r) /\ ride'[r] = [ride[r] EXCEPT !.changed = FALSE]
    /\ seen'[r] = IF KeptCheckpoint(r) /\ ~Persisted(r) THEN seen[r]
                  ELSE IF Persisted(r) THEN <<detail[r]>> ELSE <<>>

\* async_claim_detail goes through the rides up to the one it claims.
LEMMA ClaimDoes ==
    ASSUME DetailTasksAssumption, DetailInv, ClaimDetail
    PROVE  /\ \A r \in Rides : PassedOver(r) \/ BroughtUp(r)
           /\ checkpoint' = [r \in Rides |-> checkpoint'[r]]
           /\ marker' = [r \in Rides |-> marker'[r]] /\ ride' = [r \in Rides |-> ride'[r]]
           /\ seen' = [r \in Rides |-> seen'[r]]
           /\ \/ fetch' = NoFetch
              \/ \E r \in Rides : /\ ride[r].fp # 0 /\ checkpoint'[r].attempts \in Nat
                                  /\ fetch' = [NoFetch EXCEPT !.at = "query", !.ride = r, !.fp = ride[r].fp,
                                                    !.attempts = checkpoint'[r].attempts]
           /\ UNCHANGED <<detail, disturbances>>
<1> DEFINE due == {r \in Rides : Selected(r) /\ Renewed(r).due}
           first == IF due = {} THEN Cardinality(Rides) + 1
                    ELSE CHOOSE r \in due : \A o \in due : r <= o
           rows == {r \in Rides : Selected(r) /\ r <= first}
<1>1. /\ checkpoint' = [r \in Rides |->
                IF r \notin rows THEN checkpoint[r]
                ELSE IF r = first THEN Claimed(Renewed(r)) ELSE Renewed(r)]
      /\ marker' = [r \in Rides |-> IF r \in rows THEN Noted(r) ELSE marker[r]]
      /\ ride' = [r \in Rides |-> IF r \in rows THEN [ride[r] EXCEPT !.changed = FALSE]
                                      ELSE ride[r]]
      /\ seen' = [r \in Rides |->
                IF r \notin rows \/ (KeptCheckpoint(r) /\ ~Persisted(r)) THEN seen[r]
                ELSE IF Persisted(r) THEN <<detail[r]>> ELSE <<>>]
      /\ fetch' = IF due = {} THEN NoFetch
                      ELSE [NoFetch EXCEPT !.at = "query", !.ride = first, !.fp = ride[first].fp,
                                           !.attempts = checkpoint'[first].attempts]
      /\ UNCHANGED <<detail, disturbances>>
  BY DEF ClaimDetail
<1>2. due # {} => first \in due
  <2> SUFFICES ASSUME due # {} PROVE first \in due
    OBVIOUS
  <2>1. due \in SUBSET Nat
    BY RidesAreNumbers
  <2>2. \E x \in due : \A y \in due : x <= y
    <3> HIDE DEF due
    <3> QED
      BY <2>1, Least
  <2>3. first = CHOOSE r \in due : \A o \in due : r <= o
    OBVIOUS
  <2> HIDE DEF due, first
  <2> QED
    BY <2>2, <2>3
<1> HIDE DEF first, rows
<1>3. \A r \in Rides : PassedOver(r) \/ BroughtUp(r)
  <2> TAKE r \in Rides
  <2>1. CASE r \notin rows
    BY <1>1, <2>1 DEF PassedOver
  <2>2. CASE r \in rows
    <3>1. checkpoint'[r] \in {Renewed(r), Claimed(Renewed(r))}
      BY <1>1, <2>2, Zenon
    <3>2. marker'[r] = Noted(r)
      BY <1>1, <2>2, Zenon
    <3>3. ride'[r] = [ride[r] EXCEPT !.changed = FALSE]
      BY <1>1, <2>2
    <3>4. seen'[r] = IF KeptCheckpoint(r) /\ ~Persisted(r) THEN seen[r]
                  ELSE IF Persisted(r) THEN <<detail[r]>> ELSE <<>>
      BY <1>1, <2>2
    <3> QED
      BY <3>1, <3>2, <3>3, <3>4 DEF BroughtUp
  <2> QED
    BY <2>1, <2>2
<1>4. /\ checkpoint' = [r \in Rides |-> checkpoint'[r]]
      /\ marker' = [r \in Rides |-> marker'[r]] /\ ride' = [r \in Rides |-> ride'[r]]
      /\ seen' = [r \in Rides |-> seen'[r]]
  <2>1. checkpoint' = [r \in Rides |-> checkpoint'[r]]
    BY <1>1, Zenon
  <2>2. marker' = [r \in Rides |-> marker'[r]]
    BY <1>1, Zenon
  <2>3. ride' = [r \in Rides |-> ride'[r]]
    BY <1>1, Zenon
  <2>4. seen' = [r \in Rides |-> seen'[r]]
    BY <1>1, Zenon
  <2> QED
    BY <2>1, <2>2, <2>3, <2>4
<1>5. \/ fetch' = NoFetch
      \/ \E r \in Rides : /\ ride[r].fp # 0 /\ checkpoint'[r].attempts \in Nat
                          /\ fetch' = [NoFetch EXCEPT !.at = "query", !.ride = r, !.fp = ride[r].fp,
                                                    !.attempts = checkpoint'[r].attempts]
  <2>1. CASE due = {}
    BY <1>1, <2>1
  <2>2. CASE due # {}
    <3>1. first \in Rides /\ Renewed(first).due
      BY <1>2, <2>2
    <3>2. ride[first].fp # 0
      BY <3>1, RenewedIs
    <3>3. checkpoint'[first] \in Checkpoints
      <4>1. checkpoint[first] \in Checkpoints
        BY <3>1 DEF DetailInv, DetailTypes
      <4> QED
        BY <1>3, <3>1, <4>1, RenewedIs DEF PassedOver, BroughtUp
    <3>4. checkpoint'[first].attempts \in Nat
      BY <3>3 DEF Checkpoints
    <3>5. fetch' = [NoFetch EXCEPT !.at = "query", !.ride = first, !.fp = ride[first].fp,
                                                    !.attempts = checkpoint'[first].attempts]
      BY <1>1, <2>2
    <3> QED
      BY <3>1, <3>2, <3>4, <3>5
  <2> QED
    BY <2>1, <2>2
<1> QED
  BY <1>1, <1>3, <1>4, <1>5

\* A checkpoint that is begun, kept or claimed says no more than what was observed.
LEMMA ClaimKeeps ==
    ASSUME DetailTasksAssumption, DetailInv, ClaimDetail
    PROVE  DetailInv'
<1>0. /\ \A r \in Rides : PassedOver(r) \/ BroughtUp(r)
      /\ checkpoint' = [r \in Rides |-> checkpoint'[r]]
      /\ marker' = [r \in Rides |-> marker'[r]] /\ ride' = [r \in Rides |-> ride'[r]]
      /\ seen' = [r \in Rides |-> seen'[r]] /\ UNCHANGED <<detail, disturbances>>
  BY ClaimDoes
<1>1. \A r \in Rides :
         /\ checkpoint[r] \in Checkpoints /\ ride[r] \in [fp : 0..2, changed : BOOLEAN, recent : BOOLEAN]
         /\ marker[r] \in Hashes \union {0, -1} /\ detail[r] \in Hashes \union {0} /\ seen[r] \in Seq(Hashes)
  BY DEF DetailInv, DetailTypes
<1>2. \A r \in Rides :
         /\ checkpoint'[r] \in Checkpoints
         /\ ride'[r] \in [fp : 0..2, changed : BOOLEAN, recent : BOOLEAN]
         /\ ride'[r].fp = ride[r].fp /\ ride'[r].recent = ride[r].recent
         /\ marker'[r] \in Hashes \union {0, -1} /\ seen'[r] \in Seq(Hashes)
  <2> TAKE r \in Rides
  <2>1. CASE PassedOver(r)
    BY <1>1, <2>1 DEF PassedOver
  <2>2. CASE BroughtUp(r)
    <3>1. checkpoint'[r] \in Checkpoints
      BY <2>2, RenewedIs, Zenon DEF BroughtUp
    <3>2. ride'[r] \in [fp : 0..2, changed : BOOLEAN, recent : BOOLEAN]
      BY <2>2, <1>1 DEF BroughtUp
    <3>3. ride'[r].fp = ride[r].fp /\ ride'[r].recent = ride[r].recent
      BY <2>2, <1>1 DEF BroughtUp
    <3>4. marker'[r] \in Hashes \union {0, -1}
      BY <2>2, <1>1 DEF BroughtUp, Noted
    <3>5. seen'[r] \in Seq(Hashes)
      <4>1. CASE Persisted(r)
        <5>1. detail[r] \in Hashes
          BY <4>1, <1>1 DEF Persisted
        <5> QED
          BY <4>1, <5>1, <2>2 DEF BroughtUp
      <4>2. CASE ~Persisted(r)
        BY <4>2, <1>1, <2>2 DEF BroughtUp
      <4> QED
        BY <4>1, <4>2
    <3> QED
      BY <3>1, <3>2, <3>3, <3>4, <3>5
  <2> QED
    BY <2>1, <2>2, <1>0
<1>3. DetailTypes'
  <2>1. fetch' \in Fetches
    <3>1. CASE fetch' = NoFetch
      BY <3>1, FetchForm
    <3>2. ASSUME NEW r \in Rides, checkpoint'[r].attempts \in Nat,
                 fetch' = [NoFetch EXCEPT !.at = "query", !.ride = r, !.fp = ride[r].fp,
                                          !.attempts = checkpoint'[r].attempts]
          PROVE  fetch' \in Fetches
      <4>1. ride[r].fp \in 0..2
        BY <1>1
      <4> QED
        BY <3>2, <4>1, FetchForm
    <3> QED
      BY <3>1, <3>2, ClaimDoes
  <2>2. /\ ride' \in [Rides -> [fp : 0..2, changed : BOOLEAN, recent : BOOLEAN]]
        /\ marker' \in [Rides -> Hashes \union {0, -1}]
        /\ checkpoint' \in [Rides -> Checkpoints]
        /\ seen' \in [Rides -> Seq(Hashes)]
    BY <1>0, <1>2
  <2> QED
    BY <2>1, <2>2, <1>0 DEF DetailInv, DetailTypes
<1>4. FetchInv'
  <2>1. CASE fetch' = NoFetch
    BY <2>1 DEF FetchInv, NoFetch
  <2>2. CASE \E r \in Rides : /\ ride[r].fp # 0
                              /\ fetch' = [NoFetch EXCEPT !.at = "query", !.ride = r, !.fp = ride[r].fp,
                                                    !.attempts = checkpoint'[r].attempts]
    BY <2>2 DEF FetchInv, NoFetch
  <2> QED
    BY <2>1, <2>2, ClaimDoes
<1>5. \A r \in Rides : LastIsKept(r)' /\ Agreed(r)'
  <2> SUFFICES ASSUME NEW r \in Rides PROVE LastIsKept(r)' /\ Agreed(r)'
    OBVIOUS
  <2>1. LastIsKept(r) /\ Agreed(r) /\ detail' = detail
    BY <1>0 DEF DetailInv
  <2>2. CASE PassedOver(r)
    BY <2>1, <2>2 DEF PassedOver, LastIsKept, Agreed
  <2>3. CASE BroughtUp(r)
    <3>1. /\ checkpoint'[r].fp = ride[r].fp /\ checkpoint'[r].obs = Renewed(r).obs
      BY <2>3, RenewedIs DEF BroughtUp
    <3>2. CASE ride[r].fp = 0
      BY <3>1, <3>2 DEF LastIsKept, Agreed
    <3>3. CASE ride[r].fp # 0 /\ Persisted(r)
      <4>1. seen'[r] = <<detail[r]>> /\ marker'[r] = detail[r] /\ detail[r] # 0
        <5>1. seen'[r] = <<detail[r]>>
          BY <2>3, <3>3 DEF BroughtUp
        <5>2. marker'[r] = detail[r]
          BY <2>3, <3>3 DEF BroughtUp, Noted
        <5> QED
          BY <5>1, <5>2, <3>3 DEF Persisted
      <4>2. ride[r].recent => checkpoint'[r].obs = 1
        BY <3>1, <3>3, RenewedIs
      <4> QED
        BY <4>1, <4>2, <1>2, <2>1 DEF LastIsKept, Agreed
    <3>4. CASE ride[r].fp # 0 /\ ~Persisted(r) /\ ~KeptCheckpoint(r)
      <4>1. checkpoint'[r].obs = 0
        BY <3>1, <3>4, RenewedIs
      <4> QED
        BY <4>1 DEF LastIsKept, Agreed
    <3>5. CASE ride[r].fp # 0 /\ ~Persisted(r) /\ KeptCheckpoint(r)
      <4>1. checkpoint'[r].obs = checkpoint[r].obs /\ checkpoint[r].fp # 0
        BY <3>1, <3>5, RenewedIs DEF KeptCheckpoint
      <4>2. seen'[r] = seen[r]
        BY <2>3, <3>5 DEF BroughtUp
      <4>3. checkpoint[r].obs >= 1 => marker'[r] = marker[r]
        BY <2>1, <2>3, <3>5, <4>1 DEF BroughtUp, Noted, Persisted, KeptCheckpoint, LastIsKept
      <4> QED
        <5>1. LastIsKept(r)'
          BY <4>1, <4>2, <4>3, <2>1 DEF LastIsKept
        <5>2. Agreed(r)'
          <6>1. ride'[r].recent = ride[r].recent
            BY <1>2
          <6> QED
            BY <4>1, <4>2, <6>1, <2>1, Zenon DEF Agreed
        <5> QED
          BY <5>1, <5>2
    <3> QED
      BY <3>2, <3>3, <3>4, <3>5
  <2> QED
    BY <2>2, <2>3, <1>0
<1> QED
  BY <1>3, <1>4, <1>5 DEF DetailInv

\* An observation counts as the second one when its content is the marker.
LEMMA FinishKeeps ==
    ASSUME DetailTasksAssumption, DetailInv, FinishDetail
    PROVE  DetailInv'
<1> DEFINE r == fetch.ride
           obs == IF Unchanged(r) THEN (IF checkpoint[r].obs = 2 THEN 2 ELSE checkpoint[r].obs + 1)
                                  ELSE 1
           new == [checkpoint[r] EXCEPT !.fp = ride[r].fp, !.obs = obs, !.attempts = 0]
<1>1. fetch.at = "done" /\ fetch' = NoFetch /\ UNCHANGED <<detail, disturbances>>
  BY DEF FinishDetail
<1>2. /\ r \in Rides /\ fetch.fp # 0 /\ detail[r] # 0
      /\ checkpoint[r] \in Checkpoints /\ ride[r] \in [fp : 0..2, changed : BOOLEAN, recent : BOOLEAN]
      /\ marker[r] \in Hashes \union {0, -1} /\ detail[r] \in Hashes /\ seen[r] \in Seq(Hashes)
      /\ LastIsKept(r) /\ Agreed(r)
  BY <1>1 DEF DetailInv, DetailTypes, FetchInv
<1>3. CASE checkpoint[r].fp = fetch.fp /\ checkpoint[r].attempts = fetch.attempts
  <2> DEFINE seen1 == IF ride[r].fp = fetch.fp /\ seen[r] # <<>>
                      THEN <<seen[r][Len(seen[r])], detail[r]>> ELSE <<detail[r]>>
             checkpoint1 == IF fetch.again /\ obs < 2 THEN new ELSE Final(new)
  <2>1. /\ checkpoint' = [checkpoint EXCEPT ![r] = checkpoint1]
        /\ marker' = [marker EXCEPT ![r] = detail[r]]
        /\ ride' = [ride EXCEPT ![r].changed = FALSE]
        /\ seen' = [seen EXCEPT ![r] = seen1]
    BY <1>3 DEF FinishDetail
  <2>2. obs \in 0..2 /\ obs >= 1
    BY <1>2 DEF Checkpoints
  <2>3. obs = 2 => Unchanged(r) /\ checkpoint[r].obs >= 1
    BY <1>2 DEF Checkpoints
  <2> HIDE DEF obs
  <2>4. new \in Checkpoints
    <3>1. ride[r].fp \in -1..2 /\ 0 \in Nat
      BY <1>2
    <3> HIDE DEF r
    <3> QED
      BY <1>2, <2>2, <3>1 DEF Checkpoints
  <2>5. new.obs = obs
    BY <1>2 DEF Checkpoints
  <2> HIDE DEF new
  <2>6. checkpoint1 \in Checkpoints /\ checkpoint1.obs = obs
    BY <2>4, <2>5, CheckpointsForm
  <2> HIDE DEF checkpoint1
  <2>7. /\ seen1 \in Seq(Hashes) /\ seen1 # <<>> /\ seen1[Len(seen1)] = detail[r]
    BY <1>2
  <2>8. obs = 2 => Len(seen1) = 2 /\ seen1[1] = seen1[2]
    BY <1>2, <1>3, <2>3 DEF Unchanged, LastIsKept
  <2> HIDE DEF seen1, r
  <2>9. DetailTypes'
    <3>1. [ride[r] EXCEPT !.changed = FALSE] \in [fp : 0..2, changed : BOOLEAN, recent : BOOLEAN]
      BY <1>2
    <3>2. ride' \in [Rides -> [fp : 0..2, changed : BOOLEAN, recent : BOOLEAN]]
      <4>1. ride' = [ride EXCEPT ![r] = [ride[r] EXCEPT !.changed = FALSE]]
        BY <2>1
      <4> QED
        BY <4>1, <3>1, <1>2 DEF DetailInv, DetailTypes
    <3>3. checkpoint' \in [Rides -> Checkpoints]
      BY <2>1, <2>6, <1>2 DEF DetailInv, DetailTypes
    <3>4. marker' \in [Rides -> Hashes \union {0, -1}] /\ seen' \in [Rides -> Seq(Hashes)]
      BY <2>1, <2>7, <1>2 DEF DetailInv, DetailTypes
    <3>5. NoFetch \in Fetches
      BY FetchForm
    <3> QED
      BY <1>1, <3>2, <3>3, <3>4, <3>5 DEF DetailInv, DetailTypes
  <2>10. FetchInv'
    BY <1>1 DEF FetchInv, NoFetch
  <2>11. \A o \in Rides : LastIsKept(o)' /\ Agreed(o)'
    <3> SUFFICES ASSUME NEW o \in Rides PROVE LastIsKept(o)' /\ Agreed(o)'
      OBVIOUS
    <3>1. CASE o # r
      <4>1. checkpoint'[o] = checkpoint[o] /\ marker'[o] = marker[o] /\ ride'[o] = ride[o] /\ seen'[o] = seen[o]
        BY <2>1, <3>1 DEF DetailInv, DetailTypes
      <4> QED
        BY <4>1, <1>1 DEF DetailInv, LastIsKept, Agreed
    <3>2. CASE o = r
      <4>1. checkpoint'[r] = checkpoint1 /\ marker'[r] = detail[r] /\ seen'[r] = seen1
        BY <2>1, <1>2 DEF DetailInv, DetailTypes
      <4> QED
        BY <4>1, <3>2, <1>1, <1>2, <2>6, <2>7, <2>8 DEF LastIsKept, Agreed
    <3> QED
      BY <3>1, <3>2
  <2> QED
    BY <2>9, <2>10, <2>11 DEF DetailInv
<1>4. CASE ~(checkpoint[r].fp = fetch.fp /\ checkpoint[r].attempts = fetch.attempts)
  <2>1. UNCHANGED <<checkpoint, marker, ride, seen>>
    BY <1>4 DEF FinishDetail
  <2>2. DetailTypes'
    BY <1>1, <2>1, FetchForm DEF DetailInv, DetailTypes
  <2>3. FetchInv'
    BY <1>1 DEF FetchInv, NoFetch
  <2> QED
    BY <1>1, <2>1, <2>2, <2>3 DEF DetailInv, LastIsKept, Agreed
<1> QED
  BY <1>3, <1>4

\* A step that leaves the checkpoints, the markers and the observations alone.
LEMMA ObservationsKept ==
    ASSUME DetailTasksAssumption, DetailInv, UNCHANGED <<marker, checkpoint, seen>>,
           ride' \in [Rides -> [fp : 0..2, changed : BOOLEAN, recent : BOOLEAN]],
           \A r \in Rides : ride'[r].recent => ride[r].recent,
           detail' \in [Rides -> Hashes \union {0}],
           \A r \in Rides : detail[r] # 0 => detail'[r] # 0,
           disturbances' \in 0..MaxDisturbances,
           fetch' \in Fetches,
           fetch' = NoFetch \/ (fetch'.ride = fetch.ride /\ fetch'.fp = fetch.fp /\ fetch.at # "rest")
               \/ fetch' = fetch,
           fetch'.at = "done" => fetch' = fetch \/ detail'[fetch.ride] # 0
    PROVE  DetailInv'
<1>1. DetailTypes'
  BY DEF DetailInv, DetailTypes
<1>2. FetchInv'
  BY DEF DetailInv, FetchInv, NoFetch
<1>3. \A r \in Rides : LastIsKept(r)' /\ Agreed(r)'
  BY DEF DetailInv, LastIsKept, Agreed
<1> QED
  BY <1>1, <1>2, <1>3 DEF DetailInv

\* Every step keeps the invariant.
LEMMA DetailStep ==
    ASSUME DetailTasksAssumption, DetailInv, DetailNext
    PROVE  DetailInv'
<1>1. MaxDisturbances \in Nat /\ Hashes \subseteq Nat \ {0}
  BY RidesAreNumbers
<1>2. Disturbance => disturbances' \in 0..MaxDisturbances
  BY <1>1 DEF Disturbance, DetailInv, DetailTypes
<1>3. /\ disturbances \in 0..MaxDisturbances /\ fetch \in Fetches
      /\ detail \in [Rides -> Hashes \union {0}]
      /\ ride \in [Rides -> [fp : 0..2, changed : BOOLEAN, recent : BOOLEAN]]
      /\ fetch.at # "rest" => fetch.ride \in Rides
  BY DEF DetailInv, DetailTypes, FetchInv
<1>4. CASE ClaimDetail
  BY <1>4, ClaimKeeps
<1>5. ASSUME NEW h \in Hashes, NEW simple \in BOOLEAN, NEW kept \in BOOLEAN, StoreDetail(h, simple, kept)
      PROVE  DetailInv'
  <2>1. fetch.at = "query" /\ UNCHANGED <<ride, marker, checkpoint, seen>>
    BY <1>5 DEF StoreDetail
  <2>2. fetch.ride \in Rides
    BY <1>3, <2>1
  <2>3. detail' = IF kept THEN [detail EXCEPT ![fetch.ride] = h] ELSE detail
    BY <1>5 DEF StoreDetail
  <2>4. /\ detail' \in [Rides -> Hashes \union {0}]
        /\ \A r \in Rides : detail[r] # 0 => detail'[r] # 0
        /\ kept => detail'[fetch.ride] # 0
    BY <1>1, <1>3, <2>2, <2>3
  <2>5. disturbances' \in 0..MaxDisturbances
    BY <1>2, <1>3, <1>5 DEF StoreDetail
  <2> DEFINE at == IF kept THEN "done" ELSE "failed"
             again == ride[fetch.ride].recent /\ ~simple
  <2>6. at \in {"done", "failed"} /\ again \in BOOLEAN /\ (at = "done" => kept)
    BY <1>5
  <2>7. fetch' = [fetch EXCEPT !.at = at, !.again = again]
    BY <1>5 DEF StoreDetail
  <2> HIDE DEF at, again
  <2>8. fetch' \in Fetches
    BY <1>3, <2>6, <2>7, FetchForm
  <2>9. fetch'.ride = fetch.ride /\ fetch'.fp = fetch.fp /\ fetch'.at = at
    BY <1>3, <2>7 DEF Fetches
  <2> QED
    BY <1>3, <2>1, <2>4, <2>5, <2>6, <2>8, <2>9, ObservationsKept
<1>6. CASE DetailFails
  <2>1. /\ fetch.at = "query" /\ UNCHANGED <<ride, detail, marker, checkpoint, seen>>
        /\ fetch' = [fetch EXCEPT !.at = "failed"]
        /\ disturbances' \in 0..MaxDisturbances
    BY <1>2, <1>6 DEF DetailFails
  <2>2. fetch' \in Fetches
    BY <1>3, <2>1, FetchForm
  <2>3. fetch'.ride = fetch.ride /\ fetch'.fp = fetch.fp /\ fetch'.at = "failed"
    BY <1>3, <2>1 DEF Fetches
  <2> QED
    BY <1>3, <2>1, <2>2, <2>3, ObservationsKept
<1>7. CASE FinishDetail
  BY <1>7, FinishKeeps
<1>8. CASE FailDetail
  <2>1. /\ fetch.at = "failed" /\ fetch' = NoFetch
        /\ ride' = [ride EXCEPT ![fetch.ride].changed = FALSE]
        /\ UNCHANGED <<detail, marker, checkpoint, seen, disturbances>>
    BY <1>8 DEF FailDetail
  <2>2. fetch' \in Fetches /\ fetch'.at # "done"
    BY <2>1, FetchForm DEF NoFetch
  <2>3. /\ ride' \in [Rides -> [fp : 0..2, changed : BOOLEAN, recent : BOOLEAN]]
        /\ \A r \in Rides : ride'[r].recent => ride[r].recent
    BY ZenonT(60), <1>3, <2>1
  <2> QED
    BY <1>3, <2>1, <2>2, <2>3, ObservationsKept
<1>9. ASSUME NEW r \in Rides, DetailDue(r) PROVE DetailInv'
  <2>1. /\ checkpoint' = [checkpoint EXCEPT ![r].due = TRUE]
        /\ UNCHANGED <<ride, detail, marker, fetch, seen, disturbances>>
    BY <1>9 DEF DetailDue
  <2>2. checkpoint[r] \in Checkpoints
    BY DEF DetailInv, DetailTypes
  <2>3. /\ [checkpoint[r] EXCEPT !.due = TRUE] \in Checkpoints
        /\ [checkpoint[r] EXCEPT !.due = TRUE].fp = checkpoint[r].fp
        /\ [checkpoint[r] EXCEPT !.due = TRUE].obs = checkpoint[r].obs
    BY <2>2, CheckpointsForm
  <2>4. checkpoint' = [checkpoint EXCEPT ![r] = [checkpoint[r] EXCEPT !.due = TRUE]]
    BY <2>1
  <2>5. /\ checkpoint' \in [Rides -> Checkpoints]
        /\ \A o \in Rides : checkpoint'[o].fp = checkpoint[o].fp /\ checkpoint'[o].obs = checkpoint[o].obs
    BY <2>3, <2>4 DEF DetailInv, DetailTypes
  <2>6. DetailTypes'
    BY <2>1, <2>5 DEF DetailInv, DetailTypes
  <2>7. FetchInv'
    BY <2>1 DEF DetailInv, FetchInv
  <2>8. \A o \in Rides : LastIsKept(o)' /\ Agreed(o)'
    BY <2>1, <2>5 DEF DetailInv, LastIsKept, Agreed
  <2> QED
    BY <2>6, <2>7, <2>8 DEF DetailInv
<1>10. ASSUME NEW r \in Rides, Matures(r) PROVE DetailInv'
  <2>1. /\ ride' = [ride EXCEPT ![r].recent = FALSE]
        /\ UNCHANGED <<detail, marker, checkpoint, fetch, seen, disturbances>>
    BY <1>10 DEF Matures
  <2>2. /\ ride' \in [Rides -> [fp : 0..2, changed : BOOLEAN, recent : BOOLEAN]]
        /\ \A o \in Rides : ride'[o].recent => ride[o].recent
    BY <1>3, <2>1
  <2> QED
    BY <1>3, <2>1, <2>2, ObservationsKept
<1>11. ASSUME NEW r \in Rides, NEW fp \in 0..2, SummaryChanges(r, fp) PROVE DetailInv'
  <2>1. /\ ride' = [ride EXCEPT ![r].fp = fp, ![r].changed = TRUE]
        /\ UNCHANGED <<detail, marker, checkpoint, fetch, seen>>
        /\ disturbances' \in 0..MaxDisturbances
    BY <1>2, <1>11 DEF SummaryChanges
  <2>2. /\ ride' \in [Rides -> [fp : 0..2, changed : BOOLEAN, recent : BOOLEAN]]
        /\ \A o \in Rides : ride'[o].recent => ride[o].recent
    <3> DEFINE now == [ride[r] EXCEPT !.fp = fp, !.changed = TRUE]
    <3>1. ride' = [ride EXCEPT ![r] = now]
      BY <2>1
    <3>2. ride[r] \in [fp : 0..2, changed : BOOLEAN, recent : BOOLEAN]
      BY <1>3
    <3>3. now \in [fp : 0..2, changed : BOOLEAN, recent : BOOLEAN]
      BY <3>2
    <3>4. now.recent = ride[r].recent
      BY <3>2
    <3> HIDE DEF now
    <3> QED
      BY <1>3, <3>1, <3>3, <3>4
  <2> QED
    BY <1>3, <2>1, <2>2, ObservationsKept
<1>12. ASSUME NEW r \in Rides, NEW h \in Hashes, OtherStores(r, h) PROVE DetailInv'
  <2>1. /\ detail' = [detail EXCEPT ![r] = h]
        /\ UNCHANGED <<ride, marker, checkpoint, fetch, seen>>
        /\ disturbances' \in 0..MaxDisturbances
    BY <1>2, <1>12 DEF OtherStores
  <2>2. /\ detail' \in [Rides -> Hashes \union {0}]
        /\ \A o \in Rides : detail[o] # 0 => detail'[o] # 0
    BY <1>1, <1>3, <2>1
  <2> QED
    BY <1>3, <2>1, <2>2, ObservationsKept
<1>13. CASE FetchStops
  <2>1. /\ fetch' = NoFetch /\ disturbances' \in 0..MaxDisturbances
        /\ UNCHANGED <<ride, detail, marker, checkpoint, seen>>
    BY <1>2, <1>13 DEF FetchStops
  <2>2. fetch' \in Fetches /\ fetch'.at # "done"
    BY <2>1, FetchForm DEF NoFetch
  <2> QED
    BY <1>3, <2>1, <2>2, ObservationsKept
<1> QED
  BY <1>4, <1>5, <1>6, <1>7, <1>8, <1>9, <1>10, <1>11, <1>12, <1>13 DEF DetailNext, FetchSteps

\* The inductive invariant of the details.
LEMMA DetailsAlways == DetailSafe => []DetailInv
<1>1. DetailInit => DetailInv
  BY DetailStart, DetailTasksAssumption
<1>2. DetailInv /\ [DetailNext]_detailVars => DetailInv'
  <2>1. CASE DetailInv /\ DetailNext
    BY <2>1, DetailStep, DetailTasksAssumption
  <2>2. CASE DetailInv /\ UNCHANGED detailVars
    BY <2>2 DEF detailVars, DetailInv, DetailTypes, FetchInv, LastIsKept, Agreed
  <2> QED
    BY <2>1, <2>2
<1> QED
  BY <1>1, <1>2, PTL DEF DetailSafe

\* Whatever the cloud answers, the list changes or the files lose: what a
\* checkpoint counts as observed is in the archive, and two observations of a
\* recent ride had the same content (async_claim_detail, async_finish_detail).
THEOREM DetailsPreserved == DetailSafe => []DetailsAreTrue
<1>1. DetailInv => DetailsAreTrue
  BY DEF DetailInv, DetailsAreTrue, ObservedIsKept, TwoObservationsAgree, LastIsKept, Agreed
<1> QED
  BY <1>1, DetailsAlways, PTL

-----------------------------------------------------------------------------
\* Shared reads.

\* A generation is left for everybody who will be told of a lost authentication.
RoomInv ==
    /\ Room(0)
    /\ \A p \in Polls : poll[p].auth => poll[p].on = None

\* Barriers only rise: a read is of its refresh's barrier or a later one, a refresh of its callers'.
GroupBars ==
    \A k \in Keys : /\ group[k].at # "none" => k.bar <= barrier
                    /\ group[k].sent # None => group[k].sent >= k.bar
RefreshBar(r) ==
    /\ refresh[r].at # "none" => r.bar <= barrier
    /\ refresh[r].on # None => refresh[r].on.bar >= r.bar
    /\ refresh[r].sent # None => refresh[r].sent >= r.bar
CallBars ==
    \A c \in Callers : call[c].at = "waits" => call[c].key # None /\ call[c].since = call[c].key.bar
BarrierInv == GroupBars /\ (\A r \in Keys : RefreshBar(r)) /\ CallBars

\* A read that runs has a reader.
ReadInv ==
    \A k \in Keys : group[k].at # "ended" /\ (group[k].at \in {"new", "wire"} => Readers(k) # {})

SharedInv == ReadsTypeOK /\ RoomInv /\ BarrierInv /\ NoPreCommandReuse /\ ReadInv

CallRecords ==
    [at : {"idle", "waits", "told"}, key : Keys \cup {None}, since : 0..MaxBarrier,
     ret : {"none", "yes", "no", "cancelled"}, sent : Sends]
PollRecords == [on : Keys \cup {None}, auth : BOOLEAN]
RefreshRecords ==
    [at : {"none", "new", "waits", "resumes", "cancelled", "reaps"},
     on : Keys \cup {None}, auth : BOOLEAN, sent : Sends]
GroupRecords == [at : {"none", "new", "wire", "cancelled", "ended"}, force : BOOLEAN, sent : Sends]

LEMMA SharedRecords ==
    /\ NoCall \in CallRecords /\ NoPoll \in PollRecords /\ NoRefresh \in RefreshRecords
    /\ NoGroup \in GroupRecords
BY SharedAssumption DEF NoCall, NoPoll, NoRefresh, NoGroup, CallRecords, PollRecords, RefreshRecords,
   GroupRecords, Sends

LEMMA SharedTypes ==
    ASSUME ReadsTypeOK
    PROVE  /\ call \in [Callers -> CallRecords] /\ poll \in [Polls -> PollRecords]
           /\ refresh \in [Keys -> RefreshRecords] /\ group \in [Keys -> GroupRecords]
           /\ barrier \in 0..MaxBarrier /\ generation \in 0..MaxGeneration
           /\ authenticated \in BOOLEAN /\ stopping \in BOOLEAN
           /\ Key \in Keys /\ Key.bar = barrier /\ Key.gen = generation
BY DEF ReadsTypeOK, CallRecords, PollRecords, RefreshRecords, GroupRecords, Keys, Key

\* What the actions do, field by field.
LEMMA CallDoes ==
    ASSUME ReadsTypeOK, NEW c \in Callers, Call(c)
    PROVE  /\ UNCHANGED <<poll, group, barrier, account>>
           /\ call' \in [Callers -> CallRecords] /\ refresh' \in [Keys -> RefreshRecords]
           /\ \A d \in Callers \ {c} : call'[d] = call[d]
           /\ call'[c].at = "waits" /\ call'[c].key = Key /\ call'[c].since = barrier
           /\ call'[c].ret = call[c].ret /\ call'[c].sent = call[c].sent
           /\ \A r \in Keys \ {Key} : refresh'[r] = refresh[r]
           /\ refresh'[Key].on = refresh[Key].on /\ refresh'[Key].sent = refresh[Key].sent
           /\ refresh'[Key].auth = refresh[Key].auth
           /\ \/ refresh'[Key].at = refresh[Key].at
              \/ refresh[Key].at = "none" /\ refresh'[Key].at = "new"
<1> USE SharedTypes
<1>1. call' = [call EXCEPT ![c].at = "waits", ![c].key = Key, ![c].since = barrier]
      /\ UNCHANGED <<poll, group, barrier, account>>
  BY DEF Call
<1>2. /\ call' \in [Callers -> CallRecords] /\ \A d \in Callers \ {c} : call'[d] = call[d]
      /\ call'[c].at = "waits" /\ call'[c].key = Key /\ call'[c].since = barrier
      /\ call'[c].ret = call[c].ret /\ call'[c].sent = call[c].sent
  <2> DEFINE x == [call[c] EXCEPT !.at = "waits", !.key = Key, !.since = barrier]
  <2>1. /\ x \in CallRecords /\ x.at = "waits" /\ x.key = Key /\ x.since = barrier
        /\ x.ret = call[c].ret /\ x.sent = call[c].sent
    <3>1. call[c] \in CallRecords /\ Key \in Keys /\ barrier \in 0..MaxBarrier
      OBVIOUS
    <3> QED
      BY ONLY <3>1 DEF CallRecords
  <2>2. call' = [call EXCEPT ![c] = x]
    BY <1>1
  <2> HIDE DEF x
  <2> QED
    BY <2>1, <2>2
<1>3. CASE refresh' = refresh
  BY <1>1, <1>2, <1>3
<1>4. CASE refresh[Key].at = "none" /\ refresh' = [refresh EXCEPT ![Key].at = "new"]
  BY <1>1, <1>2, <1>4 DEF RefreshRecords
<1> QED
  BY <1>3, <1>4 DEF Call

LEMMA LeavesDoes ==
    ASSUME ReadsTypeOK, NEW c \in Callers, CallerLeaves(c)
    PROVE  /\ UNCHANGED <<poll, group, barrier, account>>
           /\ call' \in [Callers -> CallRecords] /\ refresh' \in [Keys -> RefreshRecords]
           /\ \A d \in Callers \ {c} : call'[d] = call[d]
           /\ call'[c].at = "told" /\ call'[c].ret = "none"
           /\ \A r \in Keys : /\ refresh'[r].on = refresh[r].on /\ refresh'[r].sent = refresh[r].sent
                              /\ refresh'[r].auth = refresh[r].auth
                              /\ refresh'[r].at \in {refresh[r].at, Stopped(refresh[r].at)}
<1> USE SharedTypes
<1>1. /\ call' = [call EXCEPT ![c] = [NoCall EXCEPT !.at = "told"]]
      /\ UNCHANGED <<poll, group, barrier, account>>
  BY DEF CallerLeaves
<1>2. [NoCall EXCEPT !.at = "told"] \in CallRecords /\ [NoCall EXCEPT !.at = "told"].at = "told"
      /\ [NoCall EXCEPT !.at = "told"].ret = "none"
  BY SharedRecords DEF CallRecords, NoCall
<1>3. /\ call' \in [Callers -> CallRecords] /\ \A d \in Callers \ {c} : call'[d] = call[d]
      /\ call'[c].at = "told" /\ call'[c].ret = "none"
  BY <1>1, <1>2
<1>4. CASE refresh' = refresh
  BY <1>1, <1>3, <1>4
<1>5. ASSUME NEW q, refresh' = [refresh EXCEPT ![q].at = Stopped(@)]
      PROVE  /\ refresh' \in [Keys -> RefreshRecords]
             /\ \A r \in Keys : /\ refresh'[r].on = refresh[r].on /\ refresh'[r].sent = refresh[r].sent
                                /\ refresh'[r].auth = refresh[r].auth
                                /\ refresh'[r].at \in {refresh[r].at, Stopped(refresh[r].at)}
  <2>1. ASSUME NEW r \in Keys
        PROVE  /\ refresh'[r] \in RefreshRecords
               /\ refresh'[r].on = refresh[r].on /\ refresh'[r].sent = refresh[r].sent
               /\ refresh'[r].auth = refresh[r].auth
               /\ refresh'[r].at \in {refresh[r].at, Stopped(refresh[r].at)}
    <3>1. refresh[r] \in RefreshRecords
      OBVIOUS
    <3>2. CASE r # q
      BY <1>5, <3>1, <3>2
    <3>3. CASE r = q
      <4>1. refresh'[r] = [refresh[r] EXCEPT !.at = Stopped(@)]
        BY <1>5, <3>3
      <4>2. Stopped(refresh[r].at) \in {"none", "new", "waits", "resumes", "cancelled", "reaps"}
        BY <3>1 DEF Stopped, RefreshRecords
      <4> QED
        BY <3>1, <4>1, <4>2 DEF RefreshRecords
    <3> QED
      BY <3>2, <3>3
  <2>2. refresh' = [r \in Keys |-> refresh'[r]]
    BY <1>5
  <2> QED
    BY <2>1, <2>2
<1> QED
  BY <1>1, <1>3, <1>4, <1>5 DEF CallerLeaves

LEMMA StartsDoes ==
    ASSUME ReadsTypeOK, NEW r \in Keys, RefreshStarts(r)
    PROVE  /\ UNCHANGED <<call, poll, barrier, account>> /\ refresh[r].at = "new"
           /\ refresh' \in [Keys -> RefreshRecords]
           /\ \A q \in Keys \ {r} : refresh'[q] = refresh[q]
           /\ refresh'[r].at = "waits" /\ refresh'[r].on = Key /\ refresh'[r].sent = refresh[r].sent
           /\ refresh'[r].auth = refresh[r].auth
           /\ group' = Joined(Key, TRUE)
BY SharedTypes DEF RefreshStarts, RefreshRecords

LEMMA JoinedDoes ==
    ASSUME ReadsTypeOK, NEW force \in BOOLEAN, group' = Joined(Key, force)
    PROVE  /\ group' \in [Keys -> GroupRecords]
           /\ \A k \in Keys \ {Key} : group'[k] = group[k]
           /\ group'[Key].at # "none" /\ (group'[Key].at = "ended" => group[Key].at = "ended")
           /\ group'[Key].sent # None => group'[Key].sent = group[Key].sent
<1>1. CASE group' = group /\ group[Key].at # "none"
  BY <1>1, SharedTypes
<1>2. CASE group' = [group EXCEPT ![Key] = [NoGroup EXCEPT !.at = "new", !.force = force]]
  <2>1. [NoGroup EXCEPT !.at = "new", !.force = force] \in GroupRecords
        /\ [NoGroup EXCEPT !.at = "new", !.force = force].at = "new"
        /\ [NoGroup EXCEPT !.at = "new", !.force = force].sent = None
    BY SharedRecords DEF GroupRecords, NoGroup
  <2> QED
    BY <1>2, <2>1, SharedTypes
<1> QED
  BY <1>1, <1>2 DEF Joined

LEMMA LeftDoes ==
    ASSUME ReadsTypeOK, NEW k \in Keys, NEW reader, group' = LeftBy(reader, k)
    PROVE  /\ group' \in [Keys -> GroupRecords]
           /\ \A i \in Keys \ {k} : group'[i] = group[i]
           /\ group'[k].sent = group[k].sent /\ group'[k].force = group[k].force
           /\ \/ group'[k].at = group[k].at /\ (Readers(k) \ {reader} # {} \/ group[k].at = "none")
              \/ group'[k].at = "cancelled" /\ group[k].at # "none"
<1>1. CASE group' = group /\ (Readers(k) \ {reader} # {} \/ group[k].at = "none")
  BY <1>1, SharedTypes
<1>2. CASE group' = [group EXCEPT ![k].at = "cancelled"] /\ group[k].at # "none"
  BY <1>2, SharedTypes DEF GroupRecords
<1> QED
  BY <1>1, <1>2 DEF LeftBy, Abandoned

LEMMA ToldDoes ==
    ASSUME ReadsTypeOK, NEW r \in Keys, NEW ret \in {"yes", "no", "cancelled"}, Told(r, ret)
    PROVE  /\ call' \in [Callers -> CallRecords]
           /\ \A c \in Callers \ Waiters(r) : call'[c] = call[c]
           /\ \A c \in Waiters(r) :
                /\ call'[c].at = "told" /\ call'[c].ret = ret
                /\ ret = "yes" => call'[c].sent = refresh[r].sent /\ call'[c].since = call[c].since
<1>1. ASSUME NEW c \in Waiters(r), ret = "yes"
      PROVE  /\ call'[c] \in CallRecords /\ call'[c].at = "told" /\ call'[c].ret = ret
             /\ call'[c].sent = refresh[r].sent /\ call'[c].since = call[c].since
  <2>1. c \in Callers /\ call'[c] = [call[c] EXCEPT !.at = "told", !.key = None, !.ret = ret,
                                        !.sent = refresh[r].sent]
    BY <1>1 DEF Told, Waiters
  <2>2. call[c] \in CallRecords /\ refresh[r].sent \in Sends
    BY <2>1, SharedTypes DEF RefreshRecords
  <2> QED
    BY <1>1, <2>1, <2>2 DEF CallRecords
<1>2. ASSUME NEW c \in Waiters(r), ret # "yes"
      PROVE  call'[c] \in CallRecords /\ call'[c].at = "told" /\ call'[c].ret = ret
  <2>1. c \in Callers /\ call'[c] = [NoCall EXCEPT !.at = "told", !.ret = ret]
    BY <1>2 DEF Told, Waiters
  <2> QED
    BY <2>1, SharedRecords DEF CallRecords, NoCall
<1>3. \A c \in Callers \ Waiters(r) : call'[c] = call[c] /\ call'[c] \in CallRecords
  BY SharedTypes DEF Told
<1>4. call' = [c \in Callers |-> call'[c]]
  BY DEF Told
<1>5. \A c \in Callers : call'[c] \in CallRecords
  BY <1>1, <1>2, <1>3
<1> QED
  BY <1>1, <1>2, <1>3, <1>4, <1>5

LEMMA EndsDoes ==
    ASSUME ReadsTypeOK, NEW k \in Keys, NEW sent \in Sends, NEW auth \in BOOLEAN, Ends(k, sent, auth)
    PROVE  /\ group' \in [Keys -> GroupRecords] /\ poll' \in [Polls -> PollRecords]
           /\ refresh' \in [Keys -> RefreshRecords]
           /\ group'[k].at = "none" /\ group'[k].sent = None
           /\ \A i \in Keys \ {k} : group'[i] = group[i]
           /\ \A p \in Polls : \/ poll[p].on # k /\ poll'[p] = poll[p]
                               \/ poll[p].on = k /\ poll'[p].on = None /\ poll'[p].auth = auth
           /\ \A r \in Keys :
                \/ /\ refresh[r].at = "waits" /\ refresh[r].on = k /\ refresh'[r].at = "resumes"
                   /\ refresh'[r].on = None /\ refresh'[r].auth = auth /\ refresh'[r].sent = sent
                \/ /\ refresh[r].at = "cancelled" /\ refresh[r].on = k /\ refresh'[r].at = "cancelled"
                   /\ refresh'[r].on = None /\ refresh'[r].auth = refresh[r].auth
                   /\ refresh'[r].sent = refresh[r].sent
                \/ (refresh[r].on # k \/ refresh[r].at \notin {"waits", "cancelled"}) /\ refresh'[r] = refresh[r]
<1> USE SharedTypes
<1>1. group' = [group EXCEPT ![k] = NoGroup]
  BY DEF Ends, Removed
<1>2. NoGroup.at = "none" /\ NoGroup.sent = None
  BY DEF NoGroup
<1>3. \A p \in Polls : /\ poll'[p] \in PollRecords
                      /\ \/ poll[p].on # k /\ poll'[p] = poll[p]
                         \/ poll[p].on = k /\ poll'[p].on = None /\ poll'[p].auth = auth
  BY DEF Ends, NoPoll, PollRecords
<1>4. ASSUME NEW r \in Keys
      PROVE  /\ refresh'[r] \in RefreshRecords
             /\ \/ /\ refresh[r].at = "waits" /\ refresh[r].on = k /\ refresh'[r].at = "resumes"
                   /\ refresh'[r].on = None /\ refresh'[r].auth = auth /\ refresh'[r].sent = sent
                \/ /\ refresh[r].at = "cancelled" /\ refresh[r].on = k /\ refresh'[r].at = "cancelled"
                   /\ refresh'[r].on = None /\ refresh'[r].auth = refresh[r].auth
                   /\ refresh'[r].sent = refresh[r].sent
                \/ (refresh[r].on # k \/ refresh[r].at \notin {"waits", "cancelled"}) /\ refresh'[r] = refresh[r]
  <2>1. refresh[r] \in RefreshRecords /\ k # None
    BY NoneAssumption
  <2>2. CASE refresh[r].at = "waits" /\ refresh[r].on = k
    <3>1. refresh'[r] = [refresh[r] EXCEPT !.at = "resumes", !.on = None, !.auth = auth, !.sent = sent]
      BY <2>2 DEF Ends
    <3> QED
      BY <2>1, <2>2, <3>1 DEF RefreshRecords
  <2>3. CASE refresh[r].at = "cancelled" /\ refresh[r].on = k
    <3>1. refresh'[r] = [refresh[r] EXCEPT !.on = None]
      BY <2>1, <2>3 DEF Ends, Waits
    <3> QED
      BY <2>1, <2>3, <3>1 DEF RefreshRecords
  <2>4. CASE refresh[r].on # k \/ refresh[r].at \notin {"waits", "cancelled"}
    BY <2>1, <2>4 DEF Ends, Waits
  <2> QED
    BY <2>2, <2>3, <2>4
<1>5. /\ poll' = [p \in Polls |-> poll'[p]] /\ refresh' = [r \in Keys |-> refresh'[r]]
  BY DEF Ends
<1> QED
  BY <1>1, <1>2, <1>3, <1>4, <1>5, SharedRecords

LEMMA GoneDoes ==
    ASSUME ReadsTypeOK, NEW k \in Keys, GroupGone(k)
    PROVE  /\ UNCHANGED <<call, barrier, account>>
           /\ group' \in [Keys -> GroupRecords] /\ poll' \in [Polls -> PollRecords]
           /\ refresh' \in [Keys -> RefreshRecords]
           /\ group'[k].at = "none" /\ group'[k].sent = None
           /\ \A i \in Keys \ {k} : group'[i] = group[i]
           /\ \A p \in Polls : \/ poll[p].on # k /\ poll'[p] = poll[p]
                               \/ poll[p].on = k /\ poll'[p].on = None /\ ~poll'[p].auth
           /\ \A r \in Keys :
                \/ /\ refresh[r].at # "none" /\ refresh[r].on = k /\ refresh'[r].at = "cancelled"
                   /\ refresh'[r].on = None /\ refresh'[r].auth = refresh[r].auth
                   /\ refresh'[r].sent = refresh[r].sent
                \/ /\ refresh'[r] = refresh[r]
                   /\ refresh[r].on # k \/ refresh[r].at \notin {"waits", "cancelled"}
<1> USE SharedTypes
<1>1. group' = [group EXCEPT ![k] = NoGroup] /\ UNCHANGED <<call, barrier, account>>
  BY DEF GroupGone, Removed
<1>2. NoGroup.at = "none" /\ NoGroup.sent = None
  BY DEF NoGroup
<1>3. \A p \in Polls : /\ poll'[p] \in PollRecords
                      /\ \/ poll[p].on # k /\ poll'[p] = poll[p]
                         \/ poll[p].on = k /\ poll'[p].on = None /\ ~poll'[p].auth
  BY DEF GroupGone, NoPoll, PollRecords
<1>4. ASSUME NEW r \in Keys
      PROVE  /\ refresh'[r] \in RefreshRecords
             /\ \/ /\ refresh[r].at # "none" /\ refresh[r].on = k /\ refresh'[r].at = "cancelled"
                   /\ refresh'[r].on = None /\ refresh'[r].auth = refresh[r].auth
                   /\ refresh'[r].sent = refresh[r].sent
                \/ /\ refresh'[r] = refresh[r]
                   /\ refresh[r].on # k \/ refresh[r].at \notin {"waits", "cancelled"}
  <2>1. refresh[r] \in RefreshRecords
    OBVIOUS
  <2>2. CASE refresh[r].on = k /\ refresh[r].at \in {"waits", "cancelled", "reaps"}
    <3>1. refresh'[r] = [refresh[r] EXCEPT !.at = "cancelled", !.on = None]
      BY <2>2 DEF GroupGone
    <3> QED
      BY <2>1, <2>2, <3>1 DEF RefreshRecords
  <2>3. CASE ~(refresh[r].on = k /\ refresh[r].at \in {"waits", "cancelled", "reaps"})
    BY <2>1, <2>3 DEF GroupGone
  <2> QED
    BY <2>2, <2>3
<1>5. /\ poll' = [p \in Polls |-> poll'[p]] /\ refresh' = [r \in Keys |-> refresh'[r]]
  BY DEF GroupGone
<1> QED
  BY <1>1, <1>2, <1>3, <1>4, <1>5, SharedRecords

LEMMA CloseDoes ==
    ASSUME ReadsTypeOK, Close
    PROVE  /\ UNCHANGED <<call, poll, barrier, authenticated>> /\ generation' = generation + 1 /\ Room(1)
           /\ stopping' = TRUE
           /\ group' \in [Keys -> GroupRecords] /\ refresh' \in [Keys -> RefreshRecords]
           /\ \A k \in Keys : group'[k].sent = group[k].sent
                /\ (\/ group[k].at = "none" /\ group'[k].at = "none"
                    \/ group[k].at # "none" /\ group'[k].at = "cancelled")
           /\ \A r \in Keys : /\ refresh'[r].on = refresh[r].on /\ refresh'[r].sent = refresh[r].sent
                              /\ refresh'[r].auth = refresh[r].auth
                              /\ refresh'[r].at = Stopped(refresh[r].at)
<1> USE SharedTypes
<1>1. ASSUME NEW r \in Keys
      PROVE  /\ refresh'[r] \in RefreshRecords
             /\ refresh'[r].on = refresh[r].on /\ refresh'[r].sent = refresh[r].sent
             /\ refresh'[r].auth = refresh[r].auth /\ refresh'[r].at = Stopped(refresh[r].at)
  <2>1. refresh[r] \in RefreshRecords /\ refresh'[r] = [refresh[r] EXCEPT !.at = Stopped(@)]
    BY DEF Close
  <2>2. Stopped(refresh[r].at) \in {"none", "new", "waits", "resumes", "cancelled", "reaps"}
    BY <2>1 DEF Stopped, RefreshRecords
  <2> QED
    BY <2>1, <2>2 DEF RefreshRecords
<1>2. ASSUME NEW k \in Keys
      PROVE  /\ group'[k] \in GroupRecords /\ group'[k].sent = group[k].sent
             /\ \/ group[k].at = "none" /\ group'[k].at = "none"
                \/ group[k].at # "none" /\ group'[k].at = "cancelled"
  <2>1. CASE group[k].at = "none"
    BY <2>1 DEF Close
  <2>2. CASE group[k].at # "none"
    <3>1. group[k] \in GroupRecords /\ group'[k] = [group[k] EXCEPT !.at = "cancelled"]
      BY <2>2 DEF Close
    <3> QED
      BY <2>2, <3>1 DEF GroupRecords
  <2> QED
    BY <2>1, <2>2
<1>3. refresh' = [r \in Keys |-> refresh'[r]] /\ group' = [k \in Keys |-> group'[k]]
  BY DEF Close
<1> QED
  BY <1>1, <1>2, <1>3 DEF Close

\* The types again.
LEMMA TypesAgain ==
    ASSUME call' \in [Callers -> CallRecords], poll' \in [Polls -> PollRecords],
           refresh' \in [Keys -> RefreshRecords], group' \in [Keys -> GroupRecords],
           barrier' \in 0..MaxBarrier, generation' \in 0..MaxGeneration,
           authenticated' \in BOOLEAN, stopping' \in BOOLEAN
    PROVE  ReadsTypeOK'
BY DEF ReadsTypeOK, CallRecords, PollRecords, RefreshRecords, GroupRecords

\* Those who will be told are finitely many; a generation is left for each.
LEMMA KeysAreFinite == IsFiniteSet(Keys)
<1> DEFINE S == (0..MaxGeneration) \X (0..MaxBarrier)
           f == [x \in S |-> [gen |-> x[1], bar |-> x[2]]]
<1>1. IsFiniteSet(S)
  <2>1. 0 \in Int /\ MaxGeneration \in Int /\ MaxBarrier \in Int
    BY SharedAssumption
  <2>2. IsFiniteSet(0..MaxGeneration) /\ IsFiniteSet(0..MaxBarrier)
    BY <2>1, FS_Interval
  <2> QED
    BY <2>2, FS_Product
<1>2. f \in Surjection(S, Keys)
  <2>1. \A k \in Keys : <<k.gen, k.bar>> \in S /\ f[<<k.gen, k.bar>>] = k
    BY DEF Keys
  <2>2. f \in [S -> Keys]
    BY DEF Keys
  <2> QED
    BY <2>1, <2>2 DEF Surjection
<1> QED
  BY <1>1, <1>2, FS_Surjection

LEMMA ToldAreFinite ==
    /\ IsFiniteSet(ToldOfAuth) /\ \A k \in Keys : IsFiniteSet(Readers(k))
<1>1. IsFiniteSet(Keys \cup Polls)
  BY KeysAreFinite, SharedAssumption, FS_Union
<1>2. ToldOfAuth \subseteq Keys \cup Polls /\ \A k \in Keys : Readers(k) \subseteq Keys \cup Polls
  BY DEF ToldOfAuth, Readers
<1> QED
  BY <1>1, <1>2, FS_Subset

LEMMA RoomStays ==
    ASSUME ReadsTypeOK, Room(0), ToldOfAuth' \subseteq ToldOfAuth, generation' = generation
    PROVE  Room(0)'
<1> DEFINE T == ToldOfAuth
           After == ToldOfAuth'
<1>1. IsFiniteSet(T) /\ After \subseteq T
  BY ToldAreFinite
<1> HIDE DEF T, After
<1>2. Cardinality(After) <= Cardinality(T) /\ Cardinality(After) \in Nat /\ Cardinality(T) \in Nat
  BY <1>1, FS_Subset, FS_CardinalityType
<1>3. generation + Cardinality(T) + 0 <= MaxGeneration /\ generation \in Nat /\ MaxGeneration \in Nat
  BY SharedAssumption DEF Room, T, ReadsTypeOK
<1>4. generation' + Cardinality(After) + 0 <= MaxGeneration
  BY <1>2, <1>3
<1> QED
  BY <1>4 DEF Room, After

LEMMA RoomIsUsed ==
    ASSUME ReadsTypeOK, Room(0), NEW x \in ToldOfAuth, ToldOfAuth' \subseteq ToldOfAuth \ {x},
           generation' = generation + 1
    PROVE  Room(0)' /\ generation' \in 0..MaxGeneration
<1> DEFINE T == ToldOfAuth
           After == ToldOfAuth'
<1>1. IsFiniteSet(T) /\ After \subseteq T \ {x} /\ x \in T
  BY ToldAreFinite
<1> HIDE DEF T, After
<1>2. IsFiniteSet(T \ {x}) /\ Cardinality(T \ {x}) = Cardinality(T) - 1
  BY <1>1, FS_RemoveElement
<1>3. Cardinality(After) <= Cardinality(T \ {x}) /\ Cardinality(After) \in Nat /\ Cardinality(T) \in Nat
  BY <1>1, <1>2, FS_Subset, FS_CardinalityType
<1>4. generation + Cardinality(T) + 0 <= MaxGeneration /\ generation \in Nat /\ MaxGeneration \in Nat
  BY SharedAssumption DEF Room, T, ReadsTypeOK
<1>5. generation' + Cardinality(After) + 0 <= MaxGeneration /\ generation' \in 0..MaxGeneration
  BY <1>2, <1>3, <1>4
<1> QED
  BY <1>5 DEF Room, After

LEMMA RoomIsGiven ==
    ASSUME ReadsTypeOK, NEW k \in Keys, Room(Cardinality(Readers(k))),
           ToldOfAuth' \subseteq ToldOfAuth \cup Readers(k), generation' = generation
    PROVE  Room(0)'
<1> DEFINE T == ToldOfAuth
           After == ToldOfAuth'
           R == Readers(k)
<1>1. IsFiniteSet(T) /\ IsFiniteSet(R) /\ After \subseteq T \cup R
  BY ToldAreFinite
<1>0. generation + Cardinality(T) + Cardinality(R) <= MaxGeneration /\ generation \in Nat /\ MaxGeneration \in Nat
  BY SharedAssumption DEF Room, ReadsTypeOK
<1> HIDE DEF T, After, R
<1>2. /\ IsFiniteSet(T \cup R) /\ IsFiniteSet(T \cap R)
      /\ Cardinality(T \cup R) = Cardinality(T) + Cardinality(R) - Cardinality(T \cap R)
  BY <1>1, FS_Union, FS_Subset
<1>3. /\ Cardinality(After) <= Cardinality(T \cup R) /\ Cardinality(After) \in Nat /\ Cardinality(T) \in Nat
      /\ Cardinality(R) \in Nat /\ Cardinality(T \cap R) \in Nat
  BY <1>1, <1>2, FS_Subset, FS_CardinalityType
<1>4. generation' + Cardinality(After) + 0 <= MaxGeneration
  BY <1>0, <1>2, <1>3
<1> QED
  BY <1>4 DEF Room, After

\* What a caller waits for.
LEMMA CallKeeps ==
    ASSUME SharedInv, NEW c \in Callers, Call(c)
    PROVE  SharedInv'
<1>0. ReadsTypeOK /\ RoomInv /\ BarrierInv /\ NoPreCommandReuse /\ ReadInv
  BY DEF SharedInv
<1>1. ReadsTypeOK'
  BY <1>0, CallDoes, SharedTypes, TypesAgain DEF account
<1>2. ToldOfAuth' \subseteq ToldOfAuth
  BY <1>0, CallDoes DEF ToldOfAuth
<1>3. RoomInv'
  BY <1>0, <1>2, CallDoes, RoomStays DEF RoomInv, account
<1>4. BarrierInv'
  <2>1. Key \in Keys /\ Key # None /\ Key.bar = barrier /\ barrier \in Int
    BY <1>0, SharedTypes, SharedAssumption, NoneAssumption
  <2>2. CallBars'
    BY <1>0, <2>1, CallDoes DEF BarrierInv, CallBars
  <2>3. GroupBars'
    BY <1>0, CallDoes DEF BarrierInv, GroupBars
  <2>4. ASSUME NEW r \in Keys PROVE RefreshBar(r)'
    <3>1. CASE r = Key
      BY <1>0, <2>1, <3>1, CallDoes DEF BarrierInv, RefreshBar
    <3>2. CASE r # Key
      BY <1>0, <3>2, CallDoes DEF BarrierInv, RefreshBar
    <3> QED
      BY <3>1, <3>2
  <2> QED
    BY <2>2, <2>3, <2>4 DEF BarrierInv
<1>5. NoPreCommandReuse'
  BY <1>0, CallDoes DEF NoPreCommandReuse
<1>6. ReadInv'
  BY <1>0, CallDoes DEF ReadInv, Readers, Waits
<1> QED
  BY <1>1, <1>3, <1>4, <1>5, <1>6 DEF SharedInv

LEMMA LeavesKeeps ==
    ASSUME SharedInv, NEW c \in Callers, CallerLeaves(c)
    PROVE  SharedInv'
<1>0. ReadsTypeOK /\ RoomInv /\ BarrierInv /\ NoPreCommandReuse /\ ReadInv
  BY DEF SharedInv
<1>1. ReadsTypeOK'
  BY <1>0, LeavesDoes, SharedTypes, TypesAgain DEF account
<1>2. ToldOfAuth' \subseteq ToldOfAuth
  BY <1>0, LeavesDoes DEF ToldOfAuth, Stopped
<1>3. RoomInv'
  BY <1>0, <1>2, LeavesDoes, RoomStays DEF RoomInv, account
<1>4. BarrierInv'
  <2>1. CallBars'
    BY <1>0, LeavesDoes DEF BarrierInv, CallBars
  <2>2. GroupBars'
    BY <1>0, LeavesDoes DEF BarrierInv, GroupBars
  <2>3. ASSUME NEW r \in Keys PROVE RefreshBar(r)'
    BY <1>0, LeavesDoes DEF BarrierInv, RefreshBar, Stopped
  <2> QED
    BY <2>1, <2>2, <2>3 DEF BarrierInv
<1>5. NoPreCommandReuse'
  BY <1>0, LeavesDoes DEF NoPreCommandReuse
<1>6. ReadInv'
  <2>1. \A k \in Keys : Readers(k) \subseteq Readers(k)'
    BY <1>0, LeavesDoes DEF Readers, Waits, Stopped
  <2> QED
    BY <1>0, <2>1, LeavesDoes DEF ReadInv
<1> QED
  BY <1>1, <1>3, <1>4, <1>5, <1>6 DEF SharedInv

LEMMA StartsKeeps ==
    ASSUME SharedInv, NEW r \in Keys, RefreshStarts(r)
    PROVE  SharedInv'
<1>0. ReadsTypeOK /\ RoomInv /\ BarrierInv /\ NoPreCommandReuse /\ ReadInv
  BY DEF SharedInv
<1>1. group' = Joined(Key, TRUE) /\ Key \in Keys /\ Key # None
  BY <1>0, StartsDoes, SharedTypes, NoneAssumption
<1>2. ReadsTypeOK'
  BY <1>0, <1>1, StartsDoes, JoinedDoes, SharedTypes, TypesAgain DEF account
<1>3. ToldOfAuth' \subseteq ToldOfAuth
  BY <1>0, StartsDoes DEF ToldOfAuth
<1>4. RoomInv'
  BY <1>0, <1>3, StartsDoes, RoomStays DEF RoomInv, account
<1>5. BarrierInv'
  <2>1. Key.bar = barrier /\ barrier \in Int
    BY <1>0, SharedTypes, SharedAssumption
  <2>2. GroupBars'
    <3>1. ASSUME NEW k \in Keys
          PROVE  /\ group'[k].at # "none" => k.bar <= barrier
                 /\ group'[k].sent # None => group'[k].sent >= k.bar
      <4>1. CASE k = Key
        <5>1. group'[Key].sent # None => group'[Key].sent = group[Key].sent
          BY <1>0, <1>1, JoinedDoes
        <5>2. group[Key].sent # None => group[Key].sent >= Key.bar
          BY <1>0, <1>1 DEF BarrierInv, GroupBars
        <5> QED
          BY <2>1, <4>1, <5>1, <5>2
      <4>2. CASE k # Key
        BY <1>0, <1>1, <4>2, JoinedDoes DEF BarrierInv, GroupBars
      <4> QED
        BY <4>1, <4>2
    <3> QED
      BY <1>0, <3>1, StartsDoes DEF GroupBars
  <2>3. ASSUME NEW q \in Keys PROVE RefreshBar(q)'
    <3>1. r.bar <= barrier /\ r.bar \in Int
      <4>1. RefreshBar(r) /\ refresh[r].at = "new"
        BY <1>0, StartsDoes DEF BarrierInv
      <4> QED
        BY <4>1, SharedAssumption DEF RefreshBar, Keys
    <3>2. CASE q = r
      BY <1>0, <2>1, <3>1, <3>2, StartsDoes DEF BarrierInv, RefreshBar
    <3>3. CASE q # r
      BY <1>0, <3>3, StartsDoes DEF BarrierInv, RefreshBar
    <3> QED
      BY <3>2, <3>3
  <2>4. CallBars'
    BY <1>0, StartsDoes DEF BarrierInv, CallBars
  <2> QED
    BY <2>2, <2>3, <2>4 DEF BarrierInv
<1>6. NoPreCommandReuse'
  BY <1>0, StartsDoes DEF NoPreCommandReuse
<1>7. ReadInv'
  <2>1. \A k \in Keys : k = Key => r \in Readers(k)'
    BY <1>0, <1>1, StartsDoes DEF Readers, Waits
  <2>2. \A k \in Keys : Readers(k) \subseteq Readers(k)'
    BY <1>0, StartsDoes DEF Readers, Waits
  <2>3. \A k \in Keys : k # Key => group'[k] = group[k]
    BY <1>0, <1>1, JoinedDoes
  <2>4. \A k \in Keys : group'[k].at # "ended"
    BY <1>0, <1>1, <2>3, JoinedDoes DEF ReadInv
  <2>5. ASSUME NEW k \in Keys, group'[k].at \in {"new", "wire"} PROVE Readers(k)' # {}
    <3>1. CASE k = Key
      BY <2>1, <3>1
    <3>2. CASE k # Key
      BY <1>0, <2>2, <2>3, <2>5, <3>2 DEF ReadInv
    <3> QED
      BY <3>1, <3>2
  <2> QED
    BY <2>4, <2>5 DEF ReadInv
<1> QED
  BY <1>2, <1>4, <1>5, <1>6, <1>7 DEF SharedInv

LEMMA EndKeeps ==
    ASSUME SharedInv, NEW k \in Keys, NEW sent \in Sends, NEW auth \in BOOLEAN, Ends(k, sent, auth),
           sent # None => sent >= k.bar, UNCHANGED <<call, barrier, account>>,
           auth => Room(Cardinality(Readers(k)))
    PROVE  SharedInv'
<1>0. ReadsTypeOK /\ RoomInv /\ BarrierInv /\ NoPreCommandReuse /\ ReadInv
  BY DEF SharedInv
<1>1. ReadsTypeOK'
  BY <1>0, EndsDoes, SharedTypes, TypesAgain DEF account
<1>2. RoomInv'
  <2>1. CASE auth
    <3>1. ToldOfAuth' \subseteq ToldOfAuth \cup Readers(k)
      <4>1. \A p \in Polls : poll'[p].auth => p \in ToldOfAuth \cup Readers(k)
        BY <1>0, EndsDoes DEF ToldOfAuth, Readers
      <4>2. \A q \in Keys : refresh'[q].at = "resumes" /\ refresh'[q].auth
                              => q \in ToldOfAuth \cup Readers(k)
        BY <1>0, EndsDoes, NoneAssumption DEF ToldOfAuth, Readers, Waits
      <4> QED
        BY <4>1, <4>2 DEF ToldOfAuth
    <3>2. Room(0)'
      BY <1>0, <2>1, <3>1, RoomIsGiven DEF account
    <3> QED
      BY <1>0, <3>2, EndsDoes DEF RoomInv
  <2>2. CASE ~auth
    <3>1. ToldOfAuth' \subseteq ToldOfAuth
      BY <1>0, <2>2, EndsDoes DEF ToldOfAuth
    <3>2. Room(0)'
      BY <1>0, <3>1, RoomStays DEF RoomInv, account
    <3> QED
      BY <1>0, <2>2, <3>2, EndsDoes DEF RoomInv
  <2> QED
    BY <2>1, <2>2
<1>3. BarrierInv'
  <2>1. GroupBars'
    BY <1>0, EndsDoes DEF BarrierInv, GroupBars
  <2>2. ASSUME NEW r \in Keys PROVE RefreshBar(r)'
    <3>0. RefreshBar(r)
      BY <1>0 DEF BarrierInv
    <3>1. CASE refresh[r].at = "waits" /\ refresh[r].on = k
      <4>1. k.bar >= r.bar /\ k.bar \in Int /\ r.bar \in Int /\ k # None
        BY <3>0, <3>1, NoneAssumption, SharedAssumption DEF RefreshBar, Keys
      <4>2. sent # None => sent \in Int
        BY SharedAssumption DEF Sends
      <4>3. sent # None => sent >= r.bar
        BY <4>1, <4>2
      <4>4. refresh'[r].on = None /\ refresh'[r].sent = sent
        BY <1>0, <3>1, EndsDoes
      <4> QED
        BY <3>0, <3>1, <4>3, <4>4 DEF RefreshBar
    <3>2. CASE refresh'[r].on = None /\ refresh'[r].sent = refresh[r].sent
               /\ refresh[r].at = "cancelled" /\ refresh'[r].at = "cancelled"
      BY <3>0, <3>2 DEF RefreshBar
    <3>3. CASE refresh'[r] = refresh[r]
      BY <3>0, <3>3 DEF RefreshBar
    <3> QED
      BY <1>0, <3>1, <3>2, <3>3, EndsDoes
  <2>3. CallBars'
    BY <1>0 DEF BarrierInv, CallBars
  <2> QED
    BY <2>1, <2>2, <2>3 DEF BarrierInv
<1>4. NoPreCommandReuse'
  BY <1>0 DEF NoPreCommandReuse
<1>5. ReadInv'
  <2>1. \A i \in Keys \ {k} : Readers(i) \subseteq Readers(i)'
    BY <1>0, EndsDoes DEF Readers, Waits
  <2>2. group'[k].at = "none" /\ \A i \in Keys \ {k} : group'[i] = group[i]
    BY <1>0, EndsDoes
  <2> QED
    BY <1>0, <2>1, <2>2 DEF ReadInv
<1> QED
  BY <1>1, <1>2, <1>3, <1>4, <1>5 DEF SharedInv

LEMMA GroupsEndKeeps ==
    ASSUME SharedInv, NEW k \in Keys, GroupSkips(k) \/ Failed(k) \/ Answered(k) \/ AuthFailed(k)
    PROVE  SharedInv'
<1>0. ReadsTypeOK /\ BarrierInv
  BY DEF SharedInv
<1>1. group[k].sent \in Sends /\ None \in Sends /\ (group[k].sent # None => group[k].sent >= k.bar)
  BY <1>0, SharedTypes DEF GroupRecords, Sends, BarrierInv, GroupBars
<1>2. CASE GroupSkips(k)
  BY <1>1, <1>2, EndKeeps DEF GroupSkips
<1>3. CASE Failed(k)
  BY <1>1, <1>3, EndKeeps DEF Failed
<1>4. CASE Answered(k)
  BY <1>1, <1>4, EndKeeps DEF Answered
<1>5. CASE AuthFailed(k)
  BY <1>1, <1>5, EndKeeps DEF AuthFailed
<1> QED
  BY <1>2, <1>3, <1>4, <1>5

LEMMA GoneKeeps ==
    ASSUME SharedInv, NEW k \in Keys, GroupGone(k)
    PROVE  SharedInv'
<1>0. ReadsTypeOK /\ RoomInv /\ BarrierInv /\ NoPreCommandReuse /\ ReadInv
  BY DEF SharedInv
<1>1. ReadsTypeOK'
  BY <1>0, GoneDoes, SharedTypes, TypesAgain DEF account
<1>2. ToldOfAuth' \subseteq ToldOfAuth
  BY <1>0, GoneDoes DEF ToldOfAuth
<1>3. RoomInv'
  BY <1>0, <1>2, GoneDoes, RoomStays DEF RoomInv, account
<1>4. BarrierInv'
  <2>1. GroupBars'
    BY <1>0, GoneDoes DEF BarrierInv, GroupBars
  <2>2. ASSUME NEW r \in Keys PROVE RefreshBar(r)'
    BY <1>0, GoneDoes DEF BarrierInv, RefreshBar
  <2>3. CallBars'
    BY <1>0, GoneDoes DEF BarrierInv, CallBars
  <2> QED
    BY <2>1, <2>2, <2>3 DEF BarrierInv
<1>5. NoPreCommandReuse'
  BY <1>0, GoneDoes DEF NoPreCommandReuse
<1>6. ReadInv'
  <2>1. \A i \in Keys \ {k} : Readers(i) \subseteq Readers(i)'
    BY <1>0, GoneDoes DEF Readers, Waits
  <2>2. group'[k].at = "none" /\ \A i \in Keys \ {k} : group'[i] = group[i]
    BY <1>0, GoneDoes
  <2> QED
    BY <1>0, <2>1, <2>2 DEF ReadInv
<1> QED
  BY <1>1, <1>3, <1>4, <1>5, <1>6 DEF SharedInv

LEMMA CloseKeeps ==
    ASSUME SharedInv, Close
    PROVE  SharedInv'
<1>0. ReadsTypeOK /\ RoomInv /\ BarrierInv /\ NoPreCommandReuse /\ ReadInv
  BY DEF SharedInv
<1>1. ToldOfAuth' \subseteq ToldOfAuth
  BY <1>0, CloseDoes DEF ToldOfAuth, Stopped
<1>2. Room(0)' /\ generation' \in 0..MaxGeneration
  <2> DEFINE T == ToldOfAuth
             After == ToldOfAuth'
  <2>1. IsFiniteSet(T) /\ After \subseteq T
    BY <1>1, ToldAreFinite
  <2>2. generation + Cardinality(T) + 1 <= MaxGeneration /\ generation \in Nat /\ MaxGeneration \in Nat
        /\ generation' = generation + 1
    <3>1. Room(1) /\ generation' = generation + 1
      BY <1>0, CloseDoes
    <3>2. generation \in Nat
      BY <1>0, SharedAssumption, SharedTypes
    <3> QED
      BY <3>1, <3>2, SharedAssumption DEF Room
  <2> HIDE DEF T, After
  <2>3. Cardinality(After) <= Cardinality(T) /\ Cardinality(After) \in Nat /\ Cardinality(T) \in Nat
    BY <2>1, FS_Subset, FS_CardinalityType
  <2>4. generation' + Cardinality(After) + 0 <= MaxGeneration /\ generation' \in 0..MaxGeneration
    BY <2>2, <2>3
  <2> QED
    BY <2>4 DEF Room, After
<1>3. ReadsTypeOK'
  BY <1>0, <1>2, CloseDoes, SharedTypes, TypesAgain
<1>4. RoomInv'
  BY <1>0, <1>2, CloseDoes DEF RoomInv
<1>5. BarrierInv'
  <2>1. GroupBars'
    BY <1>0, CloseDoes DEF BarrierInv, GroupBars
  <2>2. ASSUME NEW r \in Keys PROVE RefreshBar(r)'
    BY <1>0, CloseDoes DEF BarrierInv, RefreshBar, Stopped
  <2>3. CallBars'
    BY <1>0, CloseDoes DEF BarrierInv, CallBars
  <2> QED
    BY <2>1, <2>2, <2>3 DEF BarrierInv
<1>6. NoPreCommandReuse'
  BY <1>0, CloseDoes DEF NoPreCommandReuse
<1>7. ReadInv'
  BY <1>0, CloseDoes DEF ReadInv
<1> QED
  BY <1>3, <1>4, <1>5, <1>6, <1>7 DEF SharedInv

\* Refreshes that end: their callers are told.
LEMMA ToldCalls ==
    ASSUME SharedInv, NEW r \in Keys, NEW ret \in {"yes", "no", "cancelled"}, Told(r, ret), barrier' = barrier
    PROVE  /\ call' \in [Callers -> CallRecords] /\ NoPreCommandReuse' /\ CallBars'
<1>0. ReadsTypeOK /\ NoPreCommandReuse /\ BarrierInv
  BY DEF SharedInv
<1>1. ASSUME NEW c \in Callers, call'[c].at = "told", call'[c].ret = "yes", call'[c].sent # None
      PROVE  call'[c].sent >= call'[c].since
  <2>1. CASE c \in Waiters(r)
    <3>1. call[c].at = "waits" /\ call[c].key = r
      BY <2>1 DEF Waiters
    <3>2. call[c].since = r.bar
      BY <1>0, <3>1 DEF BarrierInv, CallBars
    <3>3. ret = "yes" /\ call'[c].sent = refresh[r].sent /\ call'[c].since = call[c].since
      BY <1>0, <1>1, <2>1, ToldDoes
    <3>4. refresh[r].sent # None => refresh[r].sent >= r.bar
      BY <1>0 DEF BarrierInv, RefreshBar
    <3> QED
      BY <1>1, <3>2, <3>3, <3>4
  <2>2. CASE c \notin Waiters(r)
    BY <1>0, <1>1, <2>2, ToldDoes DEF NoPreCommandReuse
  <2> QED
    BY <2>1, <2>2
<1>2. CallBars'
  BY <1>0, ToldDoes DEF BarrierInv, CallBars
<1>3. call' \in [Callers -> CallRecords]
  BY <1>0, ToldDoes
<1> QED
  BY <1>1, <1>2, <1>3 DEF NoPreCommandReuse

LEMMA RefreshDone ==
    ASSUME SharedInv, NEW r \in Keys, refresh' = [refresh EXCEPT ![r] = NoRefresh],
           refresh[r].at \in {"resumes", "cancelled"}, UNCHANGED <<poll, group, barrier>>,
           refresh[r].at = "cancelled" => refresh[r].on = None \/ Readers(refresh[r].on) # {r}
    PROVE  /\ refresh' \in [Keys -> RefreshRecords] /\ GroupBars' /\ ReadInv'
           /\ \A q \in Keys : RefreshBar(q)'
           /\ ToldOfAuth' \subseteq ToldOfAuth \ {r}
<1>0. ReadsTypeOK /\ BarrierInv /\ ReadInv
  BY DEF SharedInv
<1>1. /\ refresh' \in [Keys -> RefreshRecords] /\ \A q \in Keys \ {r} : refresh'[q] = refresh[q]
      /\ refresh'[r].at = "none" /\ refresh'[r].on = None /\ refresh'[r].sent = None
      /\ refresh'[r].auth = FALSE
  BY <1>0, SharedTypes, SharedRecords DEF NoRefresh
<1>2. GroupBars'
  BY <1>0 DEF BarrierInv, GroupBars
<1>3. \A q \in Keys : RefreshBar(q)'
  BY <1>0, <1>1 DEF BarrierInv, RefreshBar
<1>4. r \notin Polls
  BY NoneAssumption
<1>5. ToldOfAuth' \subseteq ToldOfAuth \ {r}
  BY <1>1, <1>4 DEF ToldOfAuth
<1>6. ASSUME NEW k \in Keys PROVE Readers(k) # {} => Readers(k)' # {}
  <2>1. Readers(k) \ {r} \subseteq Readers(k)'
    BY <1>1 DEF Readers, Waits
  <2>2. r \in Readers(k) => refresh[r].on = k /\ refresh[r].at = "cancelled" /\ refresh[r].on # None
    BY <1>4 DEF Readers, Waits
  <2> QED
    BY <2>1, <2>2
<1>7. ReadInv'
  BY <1>0, <1>6 DEF ReadInv
<1> QED
  BY <1>1, <1>2, <1>3, <1>5, <1>7

LEMMA RefreshEndsKeeps ==
    ASSUME SharedInv, NEW r \in Keys, RefreshEnds(r)
    PROVE  SharedInv'
<1>0. ReadsTypeOK /\ RoomInv /\ BarrierInv
  BY DEF SharedInv
<1>1. /\ refresh' = [refresh EXCEPT ![r] = NoRefresh] /\ refresh[r].at = "resumes"
      /\ UNCHANGED <<poll, group, barrier>>
  BY DEF RefreshEnds
<1>2. /\ refresh' \in [Keys -> RefreshRecords] /\ GroupBars' /\ ReadInv'
      /\ (\A q \in Keys : RefreshBar(q)') /\ ToldOfAuth' \subseteq ToldOfAuth \ {r}
  BY <1>1, RefreshDone
<1>3. PICK ret \in {"yes", "no", "cancelled"} : Told(r, ret)
  BY DEF RefreshEnds
<1>4. call' \in [Callers -> CallRecords] /\ NoPreCommandReuse' /\ CallBars'
  BY <1>1, <1>3, ToldCalls
<1>5. Room(0)' /\ generation' \in 0..MaxGeneration /\ authenticated' \in BOOLEAN /\ stopping' = stopping
  <2>1. CASE refresh[r].auth
    <3>1. r \in ToldOfAuth /\ generation' = generation + 1 /\ authenticated' = FALSE /\ stopping' = stopping
      BY <1>1, <2>1 DEF RefreshEnds, InvalidateAuth, ToldOfAuth
    <3> QED
      BY <1>0, <1>2, <3>1, RoomIsUsed DEF RoomInv
  <2>2. CASE ~refresh[r].auth
    <3>1. generation' = generation /\ authenticated' = authenticated /\ stopping' = stopping
      BY <2>2 DEF RefreshEnds, account
    <3>2. ToldOfAuth' \subseteq ToldOfAuth
      BY <1>2
    <3> QED
      BY <1>0, <3>1, <3>2, RoomStays, SharedTypes DEF RoomInv
  <2> QED
    BY <2>1, <2>2
<1>6. ReadsTypeOK'
  BY <1>0, <1>1, <1>2, <1>4, <1>5, SharedTypes, TypesAgain
<1>7. RoomInv'
  BY <1>0, <1>1, <1>5 DEF RoomInv
<1> QED
  BY <1>2, <1>4, <1>6, <1>7 DEF SharedInv, BarrierInv

LEMMA RefreshGoneKeeps ==
    ASSUME SharedInv, NEW r \in Keys, RefreshGone(r)
    PROVE  SharedInv'
<1>0. ReadsTypeOK /\ RoomInv /\ BarrierInv
  BY DEF SharedInv
<1>1. /\ refresh' = [refresh EXCEPT ![r] = NoRefresh] /\ refresh[r].at = "cancelled"
      /\ UNCHANGED <<poll, group, barrier, generation, authenticated, stopping>> /\ Told(r, "cancelled")
      /\ refresh[r].on = None \/ Readers(refresh[r].on) # {r}
  BY DEF RefreshGone, account
<1>2. /\ refresh' \in [Keys -> RefreshRecords] /\ GroupBars' /\ ReadInv'
      /\ (\A q \in Keys : RefreshBar(q)') /\ ToldOfAuth' \subseteq ToldOfAuth \ {r}
  BY <1>1, RefreshDone
<1>4. call' \in [Callers -> CallRecords] /\ NoPreCommandReuse' /\ CallBars'
  BY <1>1, ToldCalls
<1>5. Room(0)'
  BY <1>0, <1>1, <1>2, RoomStays DEF RoomInv
<1>6. ReadsTypeOK'
  BY <1>0, <1>1, <1>2, <1>4, SharedTypes, TypesAgain
<1>7. RoomInv'
  BY <1>0, <1>1, <1>5 DEF RoomInv
<1> QED
  BY <1>2, <1>4, <1>6, <1>7 DEF SharedInv, BarrierInv

LEMMA ReapsKeeps ==
    ASSUME SharedInv, NEW r \in Keys, RefreshReaps(r)
    PROVE  SharedInv'
<1>0. ReadsTypeOK /\ RoomInv /\ BarrierInv /\ NoPreCommandReuse /\ ReadInv
  BY DEF SharedInv
<1> DEFINE k == refresh[r].on
<1>1. /\ k \in Keys /\ Readers(k) = {r} /\ refresh[r].at = "cancelled"
      /\ refresh' = [refresh EXCEPT ![r].at = "reaps"] /\ group' = LeftBy(r, k)
      /\ UNCHANGED <<call, poll, barrier, generation, authenticated, stopping>>
  BY <1>0, SharedTypes DEF RefreshReaps, RefreshRecords, account
<1> HIDE DEF k
<1>2. /\ refresh' \in [Keys -> RefreshRecords] /\ \A q \in Keys \ {r} : refresh'[q] = refresh[q]
      /\ refresh'[r].at = "reaps" /\ refresh'[r].on = refresh[r].on /\ refresh'[r].sent = refresh[r].sent
      /\ refresh'[r].auth = refresh[r].auth
  BY <1>0, <1>1, SharedTypes DEF RefreshRecords
<1>3. /\ group' \in [Keys -> GroupRecords] /\ (\A i \in Keys \ {k} : group'[i] = group[i])
      /\ group'[k].sent = group[k].sent
      /\ \/ group'[k].at = "none" /\ group[k].at = "none"
         \/ group'[k].at = "cancelled" /\ group[k].at # "none"
  <2>1. Readers(k) \ {r} = {}
    BY <1>1
  <2>2. ReadsTypeOK /\ k \in Keys /\ group' = LeftBy(r, k)
    BY <1>0, <1>1
  <2> QED
    BY <2>1, <2>2, LeftDoes
<1>4. ReadsTypeOK'
  BY <1>0, <1>1, <1>2, <1>3, SharedTypes, TypesAgain
<1>5. RoomInv'
  <2>1. ToldOfAuth' \subseteq ToldOfAuth
    BY <1>1, <1>2 DEF ToldOfAuth
  <2>2. Room(0)'
    BY <1>0, <1>1, <2>1, RoomStays DEF RoomInv
  <2> QED
    BY <1>0, <1>1, <2>2 DEF RoomInv
<1>6. GroupBars'
  BY <1>0, <1>1, <1>3 DEF BarrierInv, GroupBars
<1>7. \A q \in Keys : RefreshBar(q)'
  BY <1>0, <1>1, <1>2 DEF BarrierInv, RefreshBar
<1>8. CallBars' /\ NoPreCommandReuse'
  BY <1>0, <1>1 DEF BarrierInv, CallBars, NoPreCommandReuse
<1>9. ReadInv'
  <2>1. \A i \in Keys \ {k} : Readers(i) \ {r} \subseteq Readers(i)'
    BY <1>1, <1>2 DEF Readers, Waits
  <2>2. \A i \in Keys \ {k} : r \notin Readers(i)
    BY <1>1, NoneAssumption DEF Readers, k
  <2> QED
    BY <1>0, <1>1, <1>3, <2>1, <2>2 DEF ReadInv
<1> QED
  BY <1>4, <1>5, <1>6, <1>7, <1>8, <1>9 DEF SharedInv, BarrierInv

\* The regular polls.
LEMMA PollsKeep ==
    ASSUME SharedInv, NEW p \in Polls, PollJoins(p) \/ PollLeaves(p) \/ PollAuth(p)
    PROVE  SharedInv'
<1>0. ReadsTypeOK /\ RoomInv /\ BarrierInv /\ NoPreCommandReuse /\ ReadInv
  BY DEF SharedInv
<1>1. /\ UNCHANGED <<call, refresh, barrier>> /\ p \notin Keys
      /\ poll[p] \in PollRecords /\ Key \in Keys /\ Key # None /\ Key.bar = barrier /\ barrier \in Int
  <2>1. UNCHANGED <<call, refresh, barrier>>
    BY DEF PollJoins, PollLeaves, PollAuth
  <2>2. p \notin Keys
    BY NoneAssumption
  <2>3. poll \in [Polls -> PollRecords] /\ Key \in Keys /\ Key.bar = barrier /\ barrier \in 0..MaxBarrier
    BY <1>0, SharedTypes
  <2>4. barrier \in Int /\ Key # None
    BY <2>3, NoneAssumption, SharedAssumption
  <2> QED
    BY <2>1, <2>2, <2>3, <2>4
<1>2. CallBars' /\ NoPreCommandReuse' /\ \A q \in Keys : RefreshBar(q)'
  BY <1>0, <1>1 DEF BarrierInv, CallBars, RefreshBar, NoPreCommandReuse
<1>3. CASE PollJoins(p)
  <2>1. /\ poll' \in [Polls -> PollRecords] /\ \A q \in Polls \ {p} : poll'[q] = poll[q]
        /\ poll'[p].on = Key /\ ~poll'[p].auth /\ poll[p].on = None
        /\ group' = Joined(Key, FALSE) /\ UNCHANGED <<generation, authenticated, stopping>>
    <3>1. /\ poll[p] = NoPoll /\ poll' = [poll EXCEPT ![p].on = Key]
          /\ group' = Joined(Key, FALSE) /\ UNCHANGED <<generation, authenticated, stopping>>
      BY <1>3 DEF PollJoins, account
    <3> DEFINE x == [poll[p] EXCEPT !.on = Key]
    <3>2. x \in PollRecords /\ x.on = Key /\ x.auth = poll[p].auth
      BY <1>1 DEF PollRecords
    <3>3. poll' = [poll EXCEPT ![p] = x] /\ poll \in [Polls -> PollRecords]
      BY <1>0, <3>1, SharedTypes
    <3>4. poll[p].on = None /\ poll[p].auth = FALSE
      BY <3>1 DEF NoPoll
    <3> HIDE DEF x
    <3> QED
      BY <3>1, <3>2, <3>3, <3>4
  <2>2. /\ group' \in [Keys -> GroupRecords] /\ (\A k \in Keys \ {Key} : group'[k] = group[k])
        /\ group'[Key].at # "none" /\ (group'[Key].at = "ended" => group[Key].at = "ended")
        /\ group'[Key].sent # None => group'[Key].sent = group[Key].sent
    BY <1>0, <2>1, JoinedDoes
  <2>3. ReadsTypeOK'
    BY <1>0, <1>1, <2>1, <2>2, SharedTypes, TypesAgain
  <2>4. RoomInv'
    <3>1. ToldOfAuth' \subseteq ToldOfAuth
      BY <1>1, <2>1 DEF ToldOfAuth
    <3>2. Room(0)'
      BY <1>0, <2>1, <3>1, RoomStays DEF RoomInv
    <3> QED
      BY <1>0, <2>1, <3>2 DEF RoomInv
  <2>5. GroupBars'
    <3> SUFFICES ASSUME NEW k \in Keys
                 PROVE  /\ group'[k].at # "none" => k.bar <= barrier
                        /\ group'[k].sent # None => group'[k].sent >= k.bar
      BY <1>1 DEF GroupBars
    <3>1. CASE k = Key
      <4>1. group[Key].sent # None => group[Key].sent >= Key.bar
        BY <1>0, <1>1 DEF BarrierInv, GroupBars
      <4> QED
        BY <1>1, <2>2, <3>1, <4>1
    <3>2. CASE k # Key
      BY <1>0, <2>2, <3>2 DEF BarrierInv, GroupBars
    <3> QED
      BY <3>1, <3>2
  <2>6. ReadInv'
    <3>1. \A k \in Keys : k = Key => p \in Readers(k)'
      BY <2>1 DEF Readers
    <3>2. \A k \in Keys : Readers(k) \subseteq Readers(k)'
      BY <1>1, <2>1, NoneAssumption DEF Readers, Waits
    <3>3. \A k \in Keys : k # Key => group'[k] = group[k]
      BY <2>2
    <3>4. \A k \in Keys : group'[k].at # "ended"
      BY <1>0, <1>1, <2>2, <3>3 DEF ReadInv
    <3>5. ASSUME NEW k \in Keys, group'[k].at \in {"new", "wire"} PROVE Readers(k)' # {}
      <4>1. CASE k = Key
        BY <3>1, <4>1
      <4>2. CASE k # Key
        BY <1>0, <3>2, <3>3, <3>5, <4>2 DEF ReadInv
      <4> QED
        BY <4>1, <4>2
    <3> QED
      BY <3>4, <3>5 DEF ReadInv
  <2> QED
    BY <1>2, <2>3, <2>4, <2>5, <2>6 DEF SharedInv, BarrierInv
<1>4. CASE PollLeaves(p)
  <2> DEFINE k == poll[p].on
  <2>1. /\ k \in Keys /\ group' = LeftBy(p, k) /\ UNCHANGED <<generation, authenticated, stopping>>
        /\ poll' = [poll EXCEPT ![p] = NoPoll]
    BY <1>1, <1>4 DEF PollLeaves, PollRecords, account
  <2>2. /\ poll' \in [Polls -> PollRecords] /\ \A q \in Polls \ {p} : poll'[q] = poll[q]
        /\ poll'[p].on = None /\ ~poll'[p].auth
    BY <1>0, <2>1, SharedTypes, SharedRecords DEF NoPoll
  <2>3. \A i \in Keys : Readers(i) \ {p} \subseteq Readers(i)'
    BY <1>1, <2>2 DEF Readers, Waits
  <2>4. \A i \in Keys \ {k} : p \notin Readers(i)
    BY <1>1 DEF Readers
  <2> HIDE DEF k
  <2>5. /\ group' \in [Keys -> GroupRecords] /\ (\A i \in Keys \ {k} : group'[i] = group[i])
        /\ group'[k].sent = group[k].sent
        /\ \/ group'[k].at = group[k].at /\ (Readers(k) \ {p} # {} \/ group[k].at = "none")
           \/ group'[k].at = "cancelled" /\ group[k].at # "none"
    BY <1>0, <2>1, LeftDoes
  <2>6. ReadsTypeOK'
    BY <1>0, <1>1, <2>1, <2>2, <2>5, SharedTypes, TypesAgain
  <2>7. RoomInv'
    <3>1. ToldOfAuth' \subseteq ToldOfAuth
      BY <1>1, <2>2 DEF ToldOfAuth
    <3>2. Room(0)'
      BY <1>0, <2>1, <3>1, RoomStays DEF RoomInv
    <3> QED
      BY <1>0, <2>2, <3>2 DEF RoomInv
  <2>8. GroupBars'
    BY <1>0, <1>1, <2>5 DEF BarrierInv, GroupBars
  <2>9. ReadInv'
    BY <1>0, <2>1, <2>3, <2>4, <2>5 DEF ReadInv
  <2> QED
    BY <1>2, <2>6, <2>7, <2>8, <2>9 DEF SharedInv, BarrierInv
<1>5. CASE PollAuth(p)
  <2>1. /\ poll' = [poll EXCEPT ![p] = NoPoll] /\ poll[p].auth /\ group' = group
        /\ generation' = generation + 1 /\ authenticated' = FALSE /\ stopping' = stopping
    BY <1>5 DEF PollAuth, InvalidateAuth
  <2>2. /\ poll' \in [Polls -> PollRecords] /\ \A q \in Polls \ {p} : poll'[q] = poll[q]
        /\ poll'[p].on = None /\ ~poll'[p].auth /\ poll[p].on = None
    BY <1>0, <2>1, SharedTypes, SharedRecords DEF NoPoll, RoomInv
  <2>3. Room(0)' /\ generation' \in 0..MaxGeneration
    <3>1. p \in ToldOfAuth /\ ToldOfAuth' \subseteq ToldOfAuth \ {p}
      BY <1>1, <2>1, <2>2 DEF ToldOfAuth
    <3> QED
      BY <1>0, <2>1, <3>1, RoomIsUsed DEF RoomInv
  <2>4. ReadsTypeOK'
    BY <1>0, <1>1, <2>1, <2>2, <2>3, SharedTypes, TypesAgain
  <2>5. RoomInv'
    BY <1>0, <2>2, <2>3 DEF RoomInv
  <2>6. GroupBars'
    BY <1>0, <1>1, <2>1 DEF BarrierInv, GroupBars
  <2>7. ReadInv'
    <3>1. \A k \in Keys : Readers(k) \subseteq Readers(k)'
      BY <1>1, <2>1, <2>2, NoneAssumption DEF Readers, Waits
    <3> QED
      BY <1>0, <2>1, <3>1 DEF ReadInv
  <2> QED
    BY <1>2, <2>4, <2>5, <2>6, <2>7 DEF SharedInv, BarrierInv
<1> QED
  BY <1>3, <1>4, <1>5

\* A request is sent, a command raises the barrier, the account is back.
LEMMA RestKeeps ==
    ASSUME SharedInv, (\E k \in Keys : Sent(k)) \/ Fence \/ Reauthenticated \/ UNCHANGED readsVars
    PROVE  SharedInv'
<1>0. ReadsTypeOK /\ RoomInv /\ BarrierInv /\ NoPreCommandReuse /\ ReadInv
  BY DEF SharedInv
<1>1. UNCHANGED <<call, poll, refresh, generation>>
  BY DEF Sent, Fence, Reauthenticated, readsVars, tasks, account
<1>2. RoomInv' /\ NoPreCommandReuse'
  BY <1>0, <1>1 DEF RoomInv, Room, ToldOfAuth, NoPreCommandReuse
<1>3. \A k \in Keys : Readers(k)' = Readers(k)
  BY <1>1 DEF Readers, Waits
<1>4. ASSUME NEW k \in Keys, Sent(k) PROVE SharedInv'
  <2>1. group' = [group EXCEPT ![k].at = "wire", ![k].sent = barrier] /\ group[k].at = "new"
        /\ UNCHANGED <<barrier, authenticated, stopping>>
    BY <1>4 DEF Sent, account
  <2>2. /\ group' \in [Keys -> GroupRecords] /\ \A i \in Keys \ {k} : group'[i] = group[i]
        /\ group'[k].at = "wire" /\ group'[k].sent = barrier
    <3> DEFINE x == [group[k] EXCEPT !.at = "wire", !.sent = barrier]
    <3>1. group[k] \in GroupRecords /\ barrier \in Sends
      BY <1>0, SharedTypes DEF Sends
    <3>2. x \in GroupRecords /\ x.at = "wire" /\ x.sent = barrier
      BY <3>1 DEF GroupRecords
    <3>3. group' = [group EXCEPT ![k] = x]
      BY <2>1
    <3> HIDE DEF x
    <3> QED
      BY <1>0, <3>2, <3>3, SharedTypes
  <2>3. ReadsTypeOK'
    BY <1>0, <1>1, <2>1, <2>2, SharedTypes, TypesAgain
  <2>4. k.bar <= barrier /\ k.bar \in Int /\ barrier \in Int
    BY <1>0, <2>1, SharedAssumption, SharedTypes DEF BarrierInv, GroupBars, Keys
  <2>5. GroupBars'
    BY <1>0, <2>1, <2>2, <2>4 DEF BarrierInv, GroupBars
  <2>6. CallBars' /\ \A q \in Keys : RefreshBar(q)'
    BY <1>0, <1>1, <2>1 DEF BarrierInv, CallBars, RefreshBar
  <2>7. ReadInv'
    BY <1>0, <1>3, <2>1, <2>2 DEF ReadInv
  <2> QED
    BY <1>2, <2>3, <2>5, <2>6, <2>7 DEF SharedInv, BarrierInv
<1>5. CASE Fence
  <2>1. group' = group /\ barrier' = barrier + 1 /\ barrier < MaxBarrier /\ UNCHANGED <<authenticated, stopping>>
    BY <1>5 DEF Fence, tasks, account
  <2>2. barrier' \in 0..MaxBarrier /\ barrier \in Int /\ \A k \in Keys : k.bar \in Int
    BY <1>0, <2>1, SharedAssumption, SharedTypes DEF Keys
  <2>3. ReadsTypeOK'
    BY <1>0, <1>1, <2>1, <2>2, SharedTypes, TypesAgain
  <2>4. BarrierInv'
    BY <1>0, <1>1, <2>1, <2>2 DEF BarrierInv, GroupBars, CallBars, RefreshBar
  <2>5. ReadInv'
    BY <1>0, <1>3, <2>1 DEF ReadInv
  <2> QED
    BY <1>2, <2>3, <2>4, <2>5 DEF SharedInv
<1>6. CASE Reauthenticated \/ UNCHANGED readsVars
  <2>1. /\ UNCHANGED <<group, barrier, stopping>> /\ authenticated' \in BOOLEAN
    BY <1>0, <1>6, SharedTypes DEF Reauthenticated, readsVars, tasks, account
  <2>2. ReadsTypeOK'
    BY <1>0, <1>1, <2>1, SharedTypes, TypesAgain
  <2>3. BarrierInv' /\ ReadInv'
    BY <1>0, <1>1, <1>3, <2>1 DEF BarrierInv, GroupBars, CallBars, RefreshBar, ReadInv
  <2> QED
    BY <1>2, <2>2, <2>3 DEF SharedInv
<1> QED
  BY <1>4, <1>5, <1>6

LEMMA SharedInvariant == ReadsSafe => []SharedInv
<1>1. ReadsInit => SharedInv
  <2> SUFFICES ASSUME ReadsInit PROVE SharedInv
    OBVIOUS
  <2>1. ReadsTypeOK
    <3>1. 0 \in 0..MaxBarrier /\ 0 \in 0..MaxGeneration
      BY SharedAssumption
    <3>2. /\ call \in [Callers -> CallRecords] /\ poll \in [Polls -> PollRecords]
          /\ refresh \in [Keys -> RefreshRecords] /\ group \in [Keys -> GroupRecords]
      BY SharedRecords DEF ReadsInit
    <3>3. /\ barrier \in 0..MaxBarrier /\ generation \in 0..MaxGeneration
          /\ authenticated \in BOOLEAN /\ stopping \in BOOLEAN
      BY <3>1 DEF ReadsInit
    <3> QED
      BY <3>2, <3>3 DEF ReadsTypeOK, CallRecords, PollRecords, RefreshRecords, GroupRecords
  <2>2. RoomInv
    <3>1. ToldOfAuth = {}
      BY DEF ReadsInit, ToldOfAuth, NoRefresh, NoPoll
    <3>2. Cardinality(ToldOfAuth) = 0 /\ generation = 0 /\ MaxGeneration \in Nat
      BY <3>1, FS_EmptySet, SharedAssumption DEF ReadsInit
    <3>3. Room(0)
      BY <3>2 DEF Room
    <3> QED
      BY <3>3 DEF RoomInv, ReadsInit, NoPoll
  <2>3. BarrierInv
    BY DEF ReadsInit, BarrierInv, GroupBars, CallBars, RefreshBar, NoGroup, NoRefresh, NoCall
  <2>4. NoPreCommandReuse /\ ReadInv
    BY DEF ReadsInit, NoPreCommandReuse, ReadInv, NoGroup, NoCall
  <2> QED
    BY <2>1, <2>2, <2>3, <2>4 DEF SharedInv
<1>2. SharedInv /\ [ReadsNext]_readsVars => SharedInv'
  BY CallKeeps, LeavesKeeps, StartsKeeps, RefreshEndsKeeps, ReapsKeeps, RefreshGoneKeeps, PollsKeep,
     GroupsEndKeeps, GoneKeeps, CloseKeeps, RestKeeps DEF ReadsNext, RefreshStep, GroupStep
<1> QED
  BY <1>1, <1>2, PTL DEF ReadsSafe

\* A caller that came after a command never gets the response to a request of before it, through
\* both levels of sharing, and a read that nobody waits for any more has been cancelled (_shared,
\* async_refresh_vehicle), for any number of callers, polls, commands and generations.
THEOREM ReadsServeTheirReaders == ReadsSafe => []ReadsAreShared
<1>1. SharedInv => ReadsAreShared
  <2> SUFFICES ASSUME SharedInv PROVE ReadsAreShared
    OBVIOUS
  <2>1. AbandonedIsReclaimed
    <3>1. \A k \in Keys : group[k] \in GroupRecords
      BY SharedTypes DEF SharedInv
    <3>2. \A k \in Keys : group[k].at \in {"none", "new", "wire", "cancelled", "ended"}
      BY <3>1 DEF GroupRecords
    <3> QED
      BY <3>2 DEF SharedInv, ReadInv, AbandonedIsReclaimed
  <2> QED
    BY <2>1 DEF SharedInv, ReadsAreShared
<1> QED
  BY <1>1, SharedInvariant, PTL
=============================================================================
