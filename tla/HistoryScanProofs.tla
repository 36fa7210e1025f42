------------------------- MODULE HistoryScanProofs -------------------------
(***************************************************************************)
(* The discovery of a ride history, for any number of months, rides, runs  *)
(* and workers: every archive it leaves can be opened again, a verified    *)
(* month misses no ride, runs and gaps find each other, and a verdict      *)
(* stands.                                                                 *)
(*                                                                         *)
(* That the pages of a month miss nothing rests on the order of the cloud: *)
(* a ride that is listed all the time and was not yet seen stays so far    *)
(* behind the pages taken that the count of a complete month leaves no     *)
(* place for it.                                                           *)
(***************************************************************************)
EXTENDS HistoryScan, FiniteSetTheorems, TLAPS

Verdicts == {"open", "yes", "no"}
PlanRecords == [state : States, first : 0..Newest, last : 0..Newest, next : 0..Newest,
                page : Nat \ {0}, holder : Workers \union {None}]
Pieces == [pages : Nat, ids : SUBSET Rides, total : Nat \union {-1}, verified : Verdicts,
           kept : SUBSET Rides, later : BOOLEAN]

\* A reply lists at most one ride to a page.
ReplyTyped(r) ==
    /\ r.ids \in SUBSET Rides /\ r.listed \in SUBSET Rides /\ r.total \in Nat \union {-1}
    /\ Cardinality(r.ids) <= 1
    /\ r.kind = "good" => r.total \in Nat

TaskTyped(w) ==
    /\ worker[w].step \in {"idle", "viewed", "calling", "answered"}
    /\ worker[w].step = "viewed" => worker[w].month \in Months
    /\ worker[w].step \in {"calling", "answered"} =>
          worker[w].plan \in Plans /\ worker[w].month \in Months /\ worker[w].page \in Nat \ {0}
    /\ worker[w].step = "answered" => ReplyTyped(worker[w].reply)

PlansTyped == plan \in [Plans -> PlanRecords]
EvidenceTyped == evidence \in [Plans -> [Months -> Pieces]]
RefsTyped ==
    /\ active \in [Months -> Runs \union {None}] /\ link \in [Months -> Runs \union {None}]
    /\ reused \in [Months -> Runs \union {None}]
WorkersTyped == DOMAIN worker = Workers /\ \A w \in Workers : TaskTyped(w)
\* A new ride is newer than all that were ever listed.
CloudTyped ==
    /\ born \in [Months -> {0} \union Rides] /\ cloud \in [Months -> SUBSET Rides]
    /\ \A m \in Months : born[m] <= Capacity[m] /\ cloud[m] \subseteq 1..born[m]

Judged_(p, m) == evidence[p][m].verified # "open"

\* Where a plan has got to.
PlanInv(p) ==
    LET at == plan[p] IN
    /\ at.state = "absent" =>
          p # Base /\ \A m \in Months : evidence[p][m].pages = 0 /\ evidence[p][m].verified = "open"
    /\ at.state # "absent" =>
          /\ CheckpointAgrees(p)
          /\ at.first \in Months /\ (at.next = 0 \/ (at.first <= at.next /\ at.next <= at.last))
          /\ IF p = Base THEN at.first = 1 /\ at.last = Newest ELSE at.last = at.first
          /\ \A m \in Months : m < at.next => evidence[p][m].pages = 0
          /\ at.state \in Discovering => at.next # 0

\* How many rides of a list are as new as x, and that each of xs is that far behind the first
\* k pages of a month that has "total" rides, whatever was added and deleted since.
Rank(S, x) == Cardinality({s \in S : s >= x})
Behind(S, xs, k, total) == \A x \in xs : Rank(S, x) >= k + 1 + Cardinality(S) - total

EvidenceInv(p, m) ==
    LET e == evidence[p][m] IN
    /\ e.pages = 0 => e.ids = {} /\ e.kept = {} /\ e.verified = "open"
    /\ Cardinality(e.ids) <= e.pages
    /\ e.verified = "yes" => e.total = Cardinality(e.ids) /\ e.kept \subseteq e.ids
    /\ e.verified = "open" =>
          /\ e.kept \subseteq cloud[m]
          /\ e.pages > 0 => e.total \in Nat /\ Behind(cloud[m], e.kept \ e.ids, e.pages, e.total)

\* A worker that holds a plan works on its next page, and what its reply leaves out is behind.
Holds(w) == worker[w].step \in {"calling", "answered"} /\ Current(w)
KeptBy(w) == IF worker[w].page = 1 THEN worker[w].reply.listed \cap cloud[worker[w].month]
             ELSE evidence[worker[w].plan][worker[w].month].kept
AnswerInv(w) ==
    LET r == worker[w].reply  m == worker[w].month  e == evidence[worker[w].plan][m] IN
    r.kind = "good" /\ (e.pages > 0 => e.total = r.total) =>
        Behind(cloud[m], KeptBy(w) \ (e.ids \union r.ids), worker[w].page, r.total)
WorkerInv(w) ==
    /\ worker[w].step = "viewed" => Judged_(Base, worker[w].month) /\ ~Unresolved(worker[w].month)
    /\ Holds(w) => /\ worker[w].month = plan[worker[w].plan].next
                   /\ worker[w].page = plan[worker[w].plan].page
    /\ Holds(w) /\ worker[w].step = "answered" => AnswerInv(w)
    /\ worker[w].step = "answered" => worker[w].reply.listed \subseteq 1..born[worker[w].month]

\* What the months point to.
ActiveInv == \A m \in Months :
    active[m] # None => plan[active[m]].state # "absent" /\ plan[active[m]].first = m
LinkInv == \A m \in Months :
    link[m] # None => Gap(m) /\ plan[link[m]].state # "absent" /\ plan[link[m]].first = m
ReuseInv == \A m \in Months :
    reused[m] # None => /\ Complete(reused[m]) /\ evidence[reused[m]][m].verified = "yes"
                        /\ evidence[reused[m]][m] = evidence[Base][m]
RefInv == ActiveInv /\ LinkInv /\ ReuseInv /\ NoRunIsLost /\ GapIsNotReconciled

ScanTyped == PlansTyped /\ EvidenceTyped /\ RefsTyped /\ WorkersTyped /\ CloudTyped
IInv == /\ ScanTyped /\ (\A p \in Plans : PlanInv(p)) /\ (\A p \in Plans, m \in Months : EvidenceInv(p, m))
        /\ (\A w \in Workers : WorkerInv(w)) /\ RefInv

-----------------------------------------------------------------------------
\* Ranks in a finite list.

LEMMA RankIs ==
    ASSUME NEW S \in SUBSET Nat, IsFiniteSet(S), NEW x \in S
    PROVE  /\ Rank(S, x) \in Nat /\ Cardinality(S) \in Nat
           /\ 1 <= Rank(S, x) /\ Rank(S, x) <= Cardinality(S)
<1> DEFINE T == {s \in S : s >= x}
<1>1. T \in SUBSET S /\ x \in T
  OBVIOUS
<1>2. IsFiniteSet(T) /\ Cardinality(T) <= Cardinality(S)
  BY <1>1, FS_Subset
<1>3. Cardinality(T) \in Nat /\ Cardinality(S) \in Nat
  BY <1>2, FS_CardinalityType
<1>4. Cardinality(T) # 0
  BY <1>1, <1>2, FS_EmptySet
<1> QED
  BY <1>2, <1>3, <1>4 DEF Rank

LEMMA RanksDiffer ==
    ASSUME NEW S \in SUBSET Nat, IsFiniteSet(S), NEW x \in S, NEW y \in S,
           Rank(S, x) = Rank(S, y)
    PROVE  x = y
<1>1. SUFFICES ASSUME NEW a \in S, NEW b \in S, a < b, Rank(S, a) = Rank(S, b)
               PROVE  FALSE
  <2>1. x \in Nat /\ y \in Nat
    OBVIOUS
  <2> QED
    BY <1>1, <2>1
<1> DEFINE A == {s \in S : s >= a}
           B == {s \in S : s >= b}
<1>2. a \in Nat /\ b \in Nat /\ A \in SUBSET S
  OBVIOUS
<1>3. B \in SUBSET A /\ a \in A /\ a \notin B
  <2>1. \A s \in S : s \in Nat /\ (s >= b => s >= a) /\ a >= a /\ ~(a >= b)
    BY <1>1, <1>2
  <2> QED
    BY <2>1
<1>4. IsFiniteSet(A)
  BY <1>2, FS_Subset
<1>5. Cardinality(A) = Cardinality(B)
  BY <1>1 DEF Rank
<1> HIDE DEF A, B
<1> QED
  BY <1>3, <1>4, <1>5, FS_Subset

\* A newer ride moves every ride back by one place.
LEMMA RankGrows ==
    ASSUME NEW S \in SUBSET Nat, IsFiniteSet(S), NEW b \in Nat, \A s \in S : s < b, NEW x \in S
    PROVE  /\ Rank(S \union {b}, x) = Rank(S, x) + 1
           /\ Cardinality(S \union {b}) = Cardinality(S) + 1
<1> DEFINE T == {s \in S : s >= x}
<1>1. b \notin S /\ b \notin T /\ x < b
  OBVIOUS
<1>2. {s \in S \union {b} : s >= x} = T \union {b}
  BY <1>1
<1>3. IsFiniteSet(T)
  BY FS_Subset
<1>4. Cardinality(S \union {b}) = Cardinality(S) + 1
  BY <1>1, FS_AddElement
<1>5. Cardinality(T \union {b}) = Cardinality(T) + 1
  <2> HIDE DEF T
  <2> QED
    BY <1>1, <1>3, FS_AddElement
<1> QED
  BY <1>2, <1>4, <1>5 DEF Rank

\* A ride that goes moves another one forward by one place at most.
LEMMA RankFalls ==
    ASSUME NEW S \in SUBSET Nat, IsFiniteSet(S), NEW d \in S, NEW x \in S \ {d}
    PROVE  /\ Rank(S \ {d}, x) \in Nat /\ Rank(S \ {d}, x) >= Rank(S, x) - 1
           /\ Cardinality(S \ {d}) = Cardinality(S) - 1
<1> DEFINE T == {s \in S : s >= x}
<1>1. {s \in S \ {d} : s >= x} = T \ {d}
  OBVIOUS
<1>2. IsFiniteSet(T)
  BY FS_Subset
<1>3. Cardinality(S \ {d}) = Cardinality(S) - 1 /\ Cardinality(T) \in Nat
  BY <1>2, FS_RemoveElement, FS_CardinalityType
<1>4. IsFiniteSet(T \ {d}) /\ Cardinality(T \ {d}) >= Cardinality(T) - 1
  <2> HIDE DEF T
  <2> QED
    BY <1>2, <1>3, FS_RemoveElement
<1>5. Cardinality(T \ {d}) \in Nat
  BY <1>4, FS_CardinalityType
<1> QED
  BY <1>1, <1>3, <1>4, <1>5 DEF Rank

-----------------------------------------------------------------------------
\* What a step leaves as it is.

LEMMA RidesAre ==
    /\ Rides \in SUBSET Nat /\ IsFiniteSet(Rides) /\ Cardinality(Rides) \in Nat
    /\ \A S \in SUBSET Rides : IsFiniteSet(S) /\ Cardinality(S) \in Nat
<1>1. Rides = 1..Cardinality(Rides) /\ IsFiniteSet(Rides)
  BY ScanAssumption
<1>2. Cardinality(Rides) \in Nat
  BY <1>1, FS_CardinalityType
<1>3. \A S \in SUBSET Rides : IsFiniteSet(S)
  BY <1>1, FS_Subset
<1>4. \A S \in SUBSET Rides : Cardinality(S) \in Nat
  BY <1>3, FS_CardinalityType
<1> QED
  BY <1>1, <1>2, <1>3, <1>4

LEMMA Apart == Base \in Plans /\ Base \notin Runs /\ None \notin Plans /\ Runs \subseteq Plans
               /\ None \notin Workers /\ Newest \in Nat \ {0} /\ Months = 1..Newest
BY ScanAssumption DEF Plans, Months

\* Verdicts stand, and so do plans and the end of their discovery.
Stands ==
    /\ \A p \in Plans, m \in Months : Judged_(p, m) => evidence'[p][m] = evidence[p][m]
    /\ \A p \in Plans : plan[p].state # "absent" =>
          plan'[p].state # "absent" /\ plan'[p].first = plan[p].first
    /\ \A p \in Plans : plan[p].state \in Discovered => plan'[p].state \in Discovered

LEMMA ResolvedStands ==
    ASSUME Stands, NEW r \in Runs \union {None}, NEW m \in Months, Resolves(r, m)
    PROVE  Resolves(r, m)'
<1>1. r \in Plans /\ Judged_(r, m) /\ plan[r].state \in Discovered
  BY Apart DEF Resolves, Complete, Judged_
<1> QED
  BY <1>1 DEF Stands, Resolves, Complete

LEMMA GapStands ==
    ASSUME Stands, NEW m \in Months, Judged_(Base, m)
    PROVE  Judged_(Base, m)' /\ Gap(m)' = Gap(m)
BY Apart DEF Stands, Judged_, Gap

\* A gap's link changes to a run that resolves it, or while nothing does.
LinksMove ==
    \A m \in Months : link'[m] = link[m] \/ Resolves(link[m], m)' \/ Unresolved(m)

\* A month that was accounted for stays so.
LEMMA ViewStands ==
    ASSUME RefsTyped, Stands, LinksMove, NEW m \in Months, Judged_(Base, m), ~Unresolved(m)
    PROVE  Judged_(Base, m)' /\ ~Unresolved(m)'
<1>1. Judged_(Base, m)' /\ Gap(m)' = Gap(m)
  BY GapStands
<1>2. Gap(m) => Resolves(link[m], m)'
  <2> SUFFICES ASSUME Gap(m) PROVE Resolves(link[m], m)'
    OBVIOUS
  <2>1. Resolves(link[m], m) /\ link[m] \in Runs \union {None}
    BY DEF Unresolved, RefsTyped
  <2>2. CASE link'[m] = link[m]
    <3>1. \A x : x = link[m] => x \in Runs \union {None} /\ Resolves(x, m)
      BY <2>1
    <3>2. \A x : x = link[m] => Resolves(x, m)'
      BY <3>1, ResolvedStands
    <3> QED
      BY <2>2, <3>2
  <2> QED
    BY <2>2 DEF LinksMove
<1> QED
  BY <1>1, <1>2 DEF Unresolved

LEMMA RefsStand ==
    ASSUME RefsTyped, RefInv, Stands,
           \A m \in Months : \/ active'[m] = active[m]
                             \/ /\ active'[m] \in Runs /\ plan'[active'[m]].state # "absent"
                                /\ plan'[active'[m]].first = m,
           \A m \in Months : \/ link'[m] = link[m]
                             \/ /\ link'[m] \in Runs /\ plan'[link'[m]].state # "absent"
                                /\ plan'[link'[m]].first = m /\ Gap(m)',
           \A m \in Months : \/ reused'[m] = reused[m]
                             \/ /\ plan'[reused'[m]].state \in Discovered
                                /\ evidence'[reused'[m]][m].verified = "yes"
                                /\ evidence'[reused'[m]][m] = evidence'[Base][m]
    PROVE  ActiveInv' /\ LinkInv' /\ ReuseInv'
<1>1. ActiveInv'
  BY Apart DEF RefInv, ActiveInv, Stands, RefsTyped
<1>2. LinkInv'
  <2> SUFFICES ASSUME NEW m \in Months, link'[m] # None
               PROVE  Gap(m)' /\ plan'[link'[m]].state # "absent" /\ plan'[link'[m]].first = m
    BY DEF LinkInv
  <2>1. CASE link'[m] = link[m]
    <3>1. Gap(m) /\ Judged_(Base, m) /\ link[m] \in Runs
      BY <2>1 DEF RefInv, LinkInv, Gap, Judged_, RefsTyped
    <3> QED
      BY <2>1, <3>1, GapStands, Apart DEF RefInv, LinkInv, Stands
  <2> QED
    BY <2>1
<1>3. ReuseInv'
  <2> SUFFICES ASSUME NEW m \in Months, reused'[m] # None
               PROVE  /\ plan'[reused'[m]].state \in Discovered
                      /\ evidence'[reused'[m]][m].verified = "yes"
                      /\ evidence'[reused'[m]][m] = evidence'[Base][m]
    BY DEF ReuseInv, Complete
  <2>1. CASE reused'[m] = reused[m]
    <3>1. /\ reused[m] \in Runs /\ plan[reused[m]].state \in Discovered
          /\ evidence[reused[m]][m].verified = "yes"
          /\ evidence[reused[m]][m] = evidence[Base][m]
      BY <2>1 DEF RefInv, ReuseInv, Complete, RefsTyped
    <3>2. Judged_(reused[m], m) /\ Judged_(Base, m) /\ reused[m] \in Plans
      BY <3>1, Apart DEF Judged_
    <3> QED
      BY <2>1, <3>1, <3>2, Apart DEF Stands
  <2> QED
    BY <2>1
<1> QED
  BY <1>1, <1>2, <1>3

\* No gap comes to wait for a run that was closed.
LEMMA GapsStand ==
    ASSUME RefsTyped, RefInv, Stands, LinksMove,
           \A m \in Months : link'[m] = link[m] /\ link[m] # None /\ plan'[link[m]].state = "reconciled"
                               => plan[link[m]].state = "reconciled" \/ ~Unresolved(m),
           \A m \in Months : link'[m] # link[m] => plan'[link'[m]].state # "reconciled"
    PROVE  GapIsNotReconciled'
<1> SUFFICES ASSUME NEW m \in Months, Unresolved(m)', link'[m] # None,
                    plan'[link'[m]].state = "reconciled"
             PROVE  FALSE
  BY DEF GapIsNotReconciled
<1>1. link'[m] = link[m] /\ link[m] # None
  OBVIOUS
<1>2. Gap(m) /\ Judged_(Base, m)
  BY <1>1 DEF RefInv, LinkInv, Gap, Judged_
<1>3. Unresolved(m)
  BY <1>1, <1>2, ViewStands
<1> QED
  BY <1>1, <1>3 DEF RefInv, GapIsNotReconciled

\* A plan is where it was.
LEMMA PlanRests ==
    ASSUME PlansTyped, NEW p \in Plans, PlanInv(p), plan[p].state # "absent", plan'[p].state # "absent",
           plan'[p].first = plan[p].first, plan'[p].last = plan[p].last,
           plan'[p].next = plan[p].next, plan'[p].page = plan[p].page,
           plan'[p].state \in Discovering => plan[p].next # 0,
           plan'[p].state \in Discovered => plan[p].next = 0,
           p = Base => plan'[p].state # "reconciled",
           \A m \in Months : /\ evidence'[p][m].verified = evidence[p][m].verified
                             /\ evidence'[p][m].pages = evidence[p][m].pages
    PROVE  PlanInv(p)'
<1>1. {m \in Months : evidence'[p][m].verified # "open"} = {m \in Months : evidence[p][m].verified # "open"}
  OBVIOUS
<1>2. plan[p].next = 0 \/ plan[p].next \in Months
  BY Apart DEF PlanInv, PlansTyped, PlanRecords
<1>3. CheckpointAgrees(p)'
  BY <1>1, <1>2 DEF PlanInv, CheckpointAgrees, Discovering
<1> QED
  BY <1>3 DEF PlanInv

LEMMA PlanSame ==
    ASSUME PlansTyped, NEW p \in Plans, PlanInv(p), plan'[p] = plan[p],
           \A m \in Months : /\ evidence'[p][m].verified = evidence[p][m].verified
                             /\ evidence'[p][m].pages = evidence[p][m].pages
    PROVE  PlanInv(p)'
<1>1. CASE plan[p].state = "absent"
  BY <1>1 DEF PlanInv
<1>2. CASE plan[p].state # "absent"
  <2>1. /\ plan[p].state \in Discovering => plan[p].next # 0
        /\ plan[p].state \in Discovered => plan[p].next = 0
        /\ p = Base => plan[p].state # "reconciled"
    BY <1>2 DEF PlanInv, CheckpointAgrees
  <2> QED
    BY <1>2, <2>1, PlanRests
<1> QED
  BY <1>1, <1>2

\* A worker goes on, and what it holds is as it was.
LEMMA WorkerRests ==
    ASSUME NEW w \in Workers, TaskTyped(w), WorkerInv(w), RefsTyped, Stands, LinksMove, cloud' = cloud, born' = born,
           worker'[w] = worker[w],
           Holds(w)' => /\ Holds(w) /\ plan'[worker[w].plan] = plan[worker[w].plan]
                        /\ evidence'[worker[w].plan] = evidence[worker[w].plan]
    PROVE  WorkerInv(w)'
<1>1. worker'[w].step = "viewed" => (Judged_(Base, worker[w].month) /\ ~Unresolved(worker[w].month))'
  <2>1. \A m \in Months : Judged_(Base, m) /\ ~Unresolved(m) => Judged_(Base, m)' /\ ~Unresolved(m)'
    BY ViewStands
  <2>2. \A m : m = worker[w].month /\ worker[w].step = "viewed" =>
                 Judged_(Base, m)' /\ ~Unresolved(m)'
    BY <2>1 DEF WorkerInv, TaskTyped
  <2> QED
    BY <2>2
<1>2. Holds(w)' /\ worker[w].step = "answered" => AnswerInv(w)'
  BY DEF WorkerInv, AnswerInv, KeptBy
<1> QED
  BY <1>1, <1>2 DEF WorkerInv

LEMMA WorkerIdle ==
    ASSUME NEW w \in Workers, worker'[w] = Idle
    PROVE  WorkerInv(w)' /\ TaskTyped(w)'
BY DEF Idle, WorkerInv, TaskTyped, Holds

LEMMA EvidenceRests ==
    ASSUME NEW p, NEW m, EvidenceInv(p, m), evidence'[p][m] = evidence[p][m], cloud' = cloud
    PROVE  EvidenceInv(p, m)'
BY DEF EvidenceInv

-----------------------------------------------------------------------------
\* Runs that are started: nothing but the new run and what points to it changes.

LEMMA ScheduledDoes ==
    ASSUME PlansTyped, RefsTyped, NEW m \in Months, NEW r \in Runs, Scheduled(m, r)
    PROVE  /\ PlansTyped' /\ active' \in [Months -> Runs \union {None}]
           /\ \A p \in Plans \ {r} : plan'[p] = plan[p]
           /\ plan'[r] = IF plan[r].state = "absent" THEN Created(m, m) ELSE plan[r]
           /\ active'[m] = r /\ \A n \in Months \ {m} : active'[n] = active[n]
<1>1. Created(m, m) \in PlanRecords
  BY Apart DEF Created, PlanRecords, States, Discovering
<1> HIDE DEF Created, PlanRecords
<1>2. r \in Plans
  BY Apart
<1> QED
  BY <1>1, <1>2 DEF PlansTyped, RefsTyped, Scheduled

LEMMA RunStarts ==
    ASSUME IInv, NEW m \in Months, NEW retry \in BOOLEAN, NEW r \in Runs,
           Schedules(m, retry, r), Scheduled(m, r),
           evidence' = evidence, cloud' = cloud, born' = born, reused' = reused,
           \/ link' = link
           \/ link' = [link EXCEPT ![m] = r] /\ Unresolved(m),
           DOMAIN worker' = Workers, \A w \in Workers : worker'[w] = worker[w] \/ worker'[w] = Idle
    PROVE  IInv' /\ Stands
<1> USE DEF ScanTyped
<1>1. /\ PlansTyped' /\ active' \in [Months -> Runs \union {None}]
      /\ \A p \in Plans \ {r} : plan'[p] = plan[p]
      /\ plan'[r] = IF plan[r].state = "absent" THEN Created(m, m) ELSE plan[r]
      /\ active'[m] = r /\ \A n \in Months \ {m} : active'[n] = active[n]
  BY ScheduledDoes DEF IInv
<1>2. r \in Plans /\ r # Base
  BY Apart
<1>3. plan[r].state # "absent" => r = active[m] /\ plan[r].first = m /\ plan[r].state \notin TERMINAL
  BY DEF Schedules, Joins, Unfinished, IInv, RefInv, ActiveInv
<1>4. /\ plan'[r].state # "absent" /\ plan'[r].state # "reconciled" /\ plan'[r].first = m
      /\ plan[r].state = "absent" => plan'[r].state = "discover"
  BY <1>1, <1>3 DEF Created, TERMINAL
<1>5. Stands
  BY <1>1, <1>2, <1>3, <1>4 DEF Stands, Discovered
<1>6. ScanTyped'
  <2>1. RefsTyped'
    BY <1>1 DEF IInv, RefsTyped
  <2>2. WorkersTyped'
    <3>1. \A w \in Workers : TaskTyped(w)'
      BY WorkerIdle DEF IInv, WorkersTyped, TaskTyped
    <3> QED
      BY <3>1 DEF WorkersTyped
  <2> QED
    BY <1>1, <2>1, <2>2 DEF IInv, EvidenceTyped, CloudTyped
<1>7. \A p \in Plans : PlanInv(p)'
  <2> TAKE p \in Plans
  <2>1. PlanInv(p)
    BY DEF IInv
  <2>2. CASE plan'[p] = plan[p]
    BY <2>1, <2>2, PlanSame DEF IInv
  <2>3. CASE p = r /\ plan[r].state = "absent"
    <3>1. \A n \in Months : evidence'[p][n].pages = 0 /\ evidence'[p][n].verified = "open"
      BY <2>1, <2>3 DEF PlanInv
    <3>2. plan'[p] = Created(m, m)
      BY <1>1, <2>3
    <3> QED
      BY <1>2, <2>3, <3>1, <3>2, Apart DEF PlanInv, CheckpointAgrees, Created, Discovering, Discovered
  <2> QED
    BY <1>1, <2>2, <2>3
<1>8. \A p \in Plans, n \in Months : EvidenceInv(p, n)'
  BY EvidenceRests DEF IInv
<1>9. LinksMove
  BY DEF LinksMove, IInv, RefsTyped
<1>10. \A w \in Workers : WorkerInv(w)'
  <2> TAKE w \in Workers
  <2>1. CASE worker'[w] = worker[w]
    <3>1. Holds(w)' => /\ Holds(w) /\ plan'[worker[w].plan] = plan[worker[w].plan]
                       /\ evidence'[worker[w].plan] = evidence[worker[w].plan]
      <4> SUFFICES ASSUME Holds(w)' PROVE Holds(w) /\ plan'[worker[w].plan] = plan[worker[w].plan]
        OBVIOUS
      <4>1. worker[w].step \in {"calling", "answered"} /\ worker[w].plan \in Plans
        BY <2>1 DEF Holds, IInv, WorkersTyped, TaskTyped
      <4>2. plan'[worker[w].plan].state = "querying"
        BY <2>1 DEF Holds, Current
      <4>3. plan'[worker[w].plan] = plan[worker[w].plan]
        BY <1>1, <1>4, <4>1, <4>2
      <4> QED
        BY <2>1, <4>1, <4>3 DEF Holds, Current
    <3> QED
      BY <1>5, <1>9, <2>1, <3>1, WorkerRests DEF IInv, WorkersTyped
  <2> QED
    BY <2>1, WorkerIdle
<1>11. RefInv'
  <2>1. /\ \A n \in Months : \/ active'[n] = active[n]
                             \/ /\ active'[n] \in Runs /\ plan'[active'[n]].state # "absent"
                                /\ plan'[active'[n]].first = n
    BY <1>1, <1>4
  <2>2. \A n \in Months : \/ link'[n] = link[n]
                          \/ link'[n] = r /\ n = m /\ Gap(m)
    BY DEF IInv, RefsTyped, Unresolved
  <2>3. \A n \in Months : \/ link'[n] = link[n]
                          \/ /\ link'[n] \in Runs /\ plan'[link'[n]].state # "absent"
                             /\ plan'[link'[n]].first = n /\ Gap(n)'
    BY <1>4, <2>2 DEF Gap
  <2>4. ActiveInv' /\ LinkInv' /\ ReuseInv'
    BY <1>5, <2>1, <2>3, RefsStand DEF IInv
  <2>5. GapIsNotReconciled'
    <3>1. \A n \in Months : link'[n] = link[n] /\ link[n] # None /\ plan'[link[n]].state = "reconciled"
                               => plan[link[n]].state = "reconciled" \/ ~Unresolved(n)
      BY <1>1, <1>4, Apart DEF IInv, RefsTyped
    <3>2. \A n \in Months : link'[n] # link[n] => plan'[link'[n]].state # "reconciled"
      BY <1>4, <2>2
    <3> QED
      BY <1>5, <1>9, <3>1, <3>2, GapsStand DEF IInv
  <2>6. NoRunIsLost'
    <3> SUFFICES ASSUME NEW q \in Runs, plan'[q].state \in Discovering
                 PROVE  active'[plan'[q].first] = q
      BY DEF NoRunIsLost
    <3>1. CASE q = r
      BY <1>1, <1>4, <3>1
    <3>2. CASE q # r
      <4>1. plan'[q] = plan[q] /\ q \in Plans /\ plan[q].state # "absent"
        BY <1>1, <3>2, Apart DEF Discovering
      <4>2. active[plan[q].first] = q /\ plan[q].first \in Months
        BY <4>1 DEF IInv, RefInv, NoRunIsLost, PlanInv
      <4>3. CASE plan[q].first = m
        <5>1. q = active[m] /\ Unfinished(q) /\ ~Complete(q)
          BY <4>1, <4>2, <4>3, Apart DEF Unfinished, Complete, Discovering, Discovered, TERMINAL
        <5> QED
          BY <3>2, <5>1 DEF Schedules, Joins
      <4> QED
        BY <1>1, <4>1, <4>2, <4>3
    <3> QED
      BY <3>1, <3>2
  <2> QED
    BY <2>4, <2>5, <2>6 DEF RefInv
<1> QED
  BY <1>5, <1>6, <1>7, <1>8, <1>10, <1>11 DEF IInv

-----------------------------------------------------------------------------
\* Steps that leave the evidence and the pointers as they are.

Unpointed == evidence' = evidence /\ cloud' = cloud /\ born' = born
             /\ active' = active /\ link' = link /\ reused' = reused

\* A worker that works on something new.
Employed(w) == TaskTyped(w)' /\ WorkerInv(w)'

LEMMA WorkersOnly ==
    ASSUME IInv, Unpointed, plan' = plan, DOMAIN worker' = Workers,
           \A w \in Workers : worker'[w] = worker[w] \/ worker'[w] = Idle \/ Employed(w)
    PROVE  IInv' /\ Stands
<1> USE DEF Unpointed
<1>1. Stands
  BY DEF Stands
<1>2. LinksMove
  BY DEF LinksMove
<1>3. \A w \in Workers : TaskTyped(w)' /\ WorkerInv(w)'
  <2> TAKE w \in Workers
  <2>1. CASE worker'[w] = worker[w]
    <3>1. Holds(w)' => Holds(w)
      BY <2>1 DEF Holds, Current
    <3>2. TaskTyped(w)'
      BY <2>1 DEF IInv, ScanTyped, WorkersTyped, TaskTyped
    <3> QED
      BY <1>1, <1>2, <2>1, <3>1, <3>2, WorkerRests DEF IInv, ScanTyped, WorkersTyped
  <2> QED
    BY <2>1, WorkerIdle DEF Employed
<1>4. ScanTyped'
  BY <1>3 DEF IInv, ScanTyped, PlansTyped, EvidenceTyped, RefsTyped, WorkersTyped, CloudTyped
<1>5. /\ \A p \in Plans : PlanInv(p)'
      /\ \A p \in Plans, m \in Months : EvidenceInv(p, m)'
  BY PlanSame, EvidenceRests DEF IInv, ScanTyped
<1>6. RefInv'
  BY DEF IInv, RefInv, ActiveInv, LinkInv, ReuseInv, NoRunIsLost, GapIsNotReconciled, Unresolved,
         Gap, Resolves, Complete
<1> QED
  BY <1>1, <1>3, <1>4, <1>5, <1>6 DEF IInv

\* A plan changes its state, and keeps its place.
LEMMA PlanTurns ==
    ASSUME IInv, Unpointed, NEW p \in Plans, plan[p].state # "absent", PlansTyped',
           \A q \in Plans \ {p} : plan'[q] = plan[q], plan'[p].state # "absent",
           plan'[p].first = plan[p].first, plan'[p].last = plan[p].last,
           plan'[p].next = plan[p].next, plan'[p].page = plan[p].page,
           plan'[p].state \in Discovering => plan[p].state \in Discovering,
           plan'[p].state \in Discovered <=> plan[p].state \in Discovered,
           plan'[p].state = "reconciled" =>
               p # Base /\ (plan[p].state = "reconciled" \/ ~Unresolved(plan[p].first)),
           DOMAIN worker' = Workers,
           \A w \in Workers : \/ worker'[w] = worker[w] /\ (Holds(w)' => worker[w].plan # p)
                              \/ worker'[w] = Idle
                              \/ Employed(w)
    PROVE  IInv' /\ Stands
<1> USE DEF Unpointed
<1>1. Stands
  BY DEF Stands
<1>2. LinksMove
  BY DEF LinksMove
<1>3. \A w \in Workers : TaskTyped(w)' /\ WorkerInv(w)'
  <2> TAKE w \in Workers
  <2>1. CASE worker'[w] = worker[w] /\ (Holds(w)' => worker[w].plan # p)
    <3>1. TaskTyped(w)'
      BY <2>1 DEF IInv, ScanTyped, WorkersTyped, TaskTyped
    <3>2. Holds(w)' => worker[w].plan \in Plans \ {p}
      BY <2>1 DEF Holds, IInv, ScanTyped, WorkersTyped, TaskTyped
    <3>3. Holds(w)' => Holds(w) /\ plan'[worker[w].plan] = plan[worker[w].plan]
      BY <2>1, <3>2 DEF Holds, Current
    <3> QED
      BY <1>1, <1>2, <2>1, <3>1, <3>3, WorkerRests DEF IInv, ScanTyped, WorkersTyped
  <2> QED
    BY <2>1, WorkerIdle DEF Employed
<1>4. ScanTyped'
  BY <1>3 DEF IInv, ScanTyped, EvidenceTyped, RefsTyped, WorkersTyped, CloudTyped
<1>5. \A q \in Plans : PlanInv(q)'
  <2> TAKE q \in Plans
  <2>1. CASE q # p
    BY <2>1, PlanSame DEF IInv, ScanTyped
  <2>2. CASE q = p
    <3>1. /\ plan'[p].state \in Discovering => plan[p].next # 0
          /\ plan'[p].state \in Discovered => plan[p].next = 0
      BY DEF IInv, PlanInv, CheckpointAgrees
    <3> QED
      BY <2>2, <3>1, PlanRests DEF IInv, ScanTyped
  <2> QED
    BY <2>1, <2>2
<1>6. \A q \in Plans, m \in Months : EvidenceInv(q, m)'
  BY EvidenceRests DEF IInv
<1>7. RefInv'
  <2>1. ActiveInv' /\ LinkInv' /\ ReuseInv'
    BY <1>1, RefsStand DEF IInv, ScanTyped
  <2>2. GapIsNotReconciled'
    <3>1. \A m \in Months : link'[m] = link[m] /\ link[m] # None /\ plan'[link[m]].state = "reconciled"
                               => plan[link[m]].state = "reconciled" \/ ~Unresolved(m)
      BY Apart DEF IInv, RefInv, LinkInv, ScanTyped, RefsTyped
    <3> QED
      BY <1>1, <1>2, <3>1, GapsStand DEF IInv, ScanTyped
  <2>3. NoRunIsLost'
    BY Apart DEF IInv, RefInv, NoRunIsLost
  <2> QED
    BY <2>1, <2>2, <2>3 DEF RefInv
<1> QED
  BY <1>1, <1>3, <1>4, <1>5, <1>6, <1>7 DEF IInv

\* Of the workers, w becomes idle or takes the task t.
LEMMA WorkerSet ==
    ASSUME WorkersTyped, NEW w \in Workers, NEW t, worker' = [worker EXCEPT ![w] = t]
    PROVE  /\ DOMAIN worker' = Workers /\ worker'[w] = t
           /\ \A v \in Workers \ {w} : worker'[v] = worker[v]
BY DEF WorkersTyped

LEMMA ClaimKeeps ==
    ASSUME IInv, NEW w \in Workers, NEW p \in Plans, Claim(w, p)
    PROVE  IInv' /\ Stands
<1> DEFINE t == [step |-> "calling", plan |-> p, month |-> plan[p].next, page |-> plan[p].page]
<1>1. /\ plan[p].state \in Discovering /\ Unpointed /\ worker' = [worker EXCEPT ![w] = t]
      /\ plan' = [plan EXCEPT ![p].state = "querying", ![p].holder = w]
  BY DEF Claim, Unpointed, outside
<1>2. plan[p] \in PlanRecords /\ plan[p].state # "absent" /\ "querying" \in States
  BY <1>1 DEF IInv, ScanTyped, PlansTyped, Discovering, States
<1>3. /\ PlansTyped' /\ \A q \in Plans \ {p} : plan'[q] = plan[q]
      /\ plan'[p].state = "querying" /\ plan'[p].holder = w
      /\ plan'[p].first = plan[p].first /\ plan'[p].last = plan[p].last
      /\ plan'[p].next = plan[p].next /\ plan'[p].page = plan[p].page
  BY <1>1, <1>2 DEF IInv, ScanTyped, PlansTyped, PlanRecords
<1>4. /\ DOMAIN worker' = Workers /\ worker'[w] = t
      /\ \A v \in Workers \ {w} : worker'[v] = worker[v]
  <2> HIDE DEF t
  <2> QED
    BY <1>1, WorkerSet DEF IInv, ScanTyped
<1>5. Employed(w)
  <2>1. plan[p].next \in Months /\ plan[p].page \in Nat \ {0}
    <3>1. plan[p].next # 0
      BY <1>1, <1>2 DEF IInv, PlanInv
    <3> QED
      BY <1>2, <3>1, Apart DEF PlanRecords
  <2>2. worker'[w].step = "calling" /\ worker'[w].plan = p /\ worker'[w].month = plan[p].next
        /\ worker'[w].page = plan[p].page
    BY <1>4
  <2>3. TaskTyped(w)'
    BY <2>1, <2>2 DEF TaskTyped
  <2>4. WorkerInv(w)'
    BY <1>3, <2>2 DEF WorkerInv
  <2> QED
    BY <2>3, <2>4 DEF Employed
<1>6. \A v \in Workers : \/ worker'[v] = worker[v] /\ (Holds(v)' => worker[v].plan # p)
                         \/ Employed(v)
  BY <1>3, <1>4, <1>5 DEF Holds, Current
<1> HIDE DEF t
<1> QED
  BY <1>1, <1>2, <1>3, <1>4, <1>6, PlanTurns DEF Discovering, Discovered

LEMMA WaitKeeps ==
    ASSUME IInv, NEW w \in Workers, Wait(w)
    PROVE  IInv' /\ Stands
<1> DEFINE p == worker[w].plan
<1>1. /\ worker[w].step \in {"calling", "answered"} /\ p \in Plans /\ Unpointed
      /\ worker' = [worker EXCEPT ![w] = Idle]
      /\ plan' = IF Unguarded /\ Current(w)
                 THEN [plan EXCEPT ![p].state = "waiting", ![p].holder = None] ELSE plan
  BY DEF Wait, Unpointed, outside, IInv, ScanTyped, WorkersTyped, TaskTyped
<1>2. /\ DOMAIN worker' = Workers /\ worker'[w] = Idle
      /\ \A v \in Workers \ {w} : worker'[v] = worker[v]
  BY <1>1, WorkerSet DEF IInv, ScanTyped
<1>3. CASE ~(Unguarded /\ Current(w))
  BY <1>1, <1>2, <1>3, WorkersOnly
<1>4. CASE Unguarded /\ Current(w)
  <2>1. plan[p].state = "querying" /\ plan[p] \in PlanRecords
    BY <1>1, <1>4 DEF Current, IInv, ScanTyped, PlansTyped
  <2>2. "waiting" \in States /\ None \in Workers \union {None}
    BY DEF States, Discovering
  <2>3. /\ PlansTyped' /\ \A q \in Plans \ {p} : plan'[q] = plan[q]
        /\ plan'[p].state = "waiting"
        /\ plan'[p].first = plan[p].first /\ plan'[p].last = plan[p].last
        /\ plan'[p].next = plan[p].next /\ plan'[p].page = plan[p].page
    <3> HIDE DEF p
    <3> QED
      BY <1>1, <1>4, <2>1, <2>2 DEF IInv, ScanTyped, PlansTyped, PlanRecords
  <2>4. \A v \in Workers : \/ worker'[v] = worker[v] /\ (Holds(v)' => worker[v].plan # p)
                           \/ worker'[v] = Idle
    BY <1>2, <2>3 DEF Holds, Current
  <2> HIDE DEF p
  <2> QED
    BY <1>1, <1>2, <2>1, <2>3, <2>4, PlanTurns DEF Discovering, Discovered
<1> QED
  BY <1>3, <1>4

LEMMA FinishKeeps ==
    ASSUME IInv, NEW p \in Plans, Finish(p)
    PROVE  IInv' /\ Stands
<1>1. /\ plan[p].state = "preserve" /\ Unpointed /\ worker' = worker
      /\ plan' = [plan EXCEPT ![p].state = "finished"]
  BY DEF Finish, Unpointed, outside
<1>2. plan[p] \in PlanRecords /\ "finished" \in States
  BY DEF IInv, ScanTyped, PlansTyped, States, Discovered
<1>3. /\ PlansTyped' /\ \A q \in Plans \ {p} : plan'[q] = plan[q]
      /\ plan'[p].state = "finished"
      /\ plan'[p].first = plan[p].first /\ plan'[p].last = plan[p].last
      /\ plan'[p].next = plan[p].next /\ plan'[p].page = plan[p].page
  BY <1>1, <1>2 DEF IInv, ScanTyped, PlansTyped, PlanRecords
<1>4. DOMAIN worker' = Workers
      /\ \A v \in Workers : worker'[v] = worker[v] /\ (Holds(v)' => worker[v].plan # p)
  BY <1>1, <1>3 DEF Holds, Current, IInv, ScanTyped, WorkersTyped
<1> QED
  BY <1>1, <1>3, <1>4, PlanTurns DEF Discovering, Discovered

\* What a worker has looked at is accounted for otherwise than by its run.
LEMMA ReconciledKeeps ==
    ASSUME IInv, NEW w \in Workers, Reconciled(w)
    PROVE  IInv' /\ Stands
<1> DEFINE m == worker[w].month
           p == active[m]
           due == p # None /\ plan[p].state \in {"discover", "waiting"} /\ plan[p].page = 1
<1>1. /\ worker[w].step = "viewed" /\ m \in Months /\ Unpointed
      /\ worker' = [worker EXCEPT ![w] = Idle]
      /\ plan' = IF due THEN [plan EXCEPT ![p].state = "reconciled", ![p].holder = None] ELSE plan
  BY DEF Reconciled, Unpointed, outside, IInv, ScanTyped, WorkersTyped, TaskTyped
<1>2. /\ DOMAIN worker' = Workers /\ worker'[w] = Idle
      /\ \A v \in Workers \ {w} : worker'[v] = worker[v]
  BY <1>1, WorkerSet DEF IInv, ScanTyped
<1>3. CASE ~due
  BY <1>1, <1>2, <1>3, WorkersOnly
<1>4. CASE due
  <2>1. p \in Plans /\ p # Base /\ plan[p].first = m
    <3>1. active[m] # None /\ active[m] \in Runs \union {None} /\ m \in Months
      BY <1>1, <1>4 DEF IInv, ScanTyped, RefsTyped
    <3>2. plan[active[m]].first = m
      BY <3>1 DEF IInv, RefInv, ActiveInv
    <3> QED
      BY <3>1, <3>2, Apart
  <2>2. plan[p].state \in {"discover", "waiting"} /\ plan[p] \in PlanRecords /\ ~Unresolved(m)
    BY <1>1, <1>4, <2>1 DEF IInv, ScanTyped, PlansTyped, WorkerInv
  <2>3. "reconciled" \in States /\ None \in Workers \union {None}
    BY DEF States, TERMINAL
  <2>4. plan' = [plan EXCEPT ![p].state = "reconciled", ![p].holder = None]
    BY <1>1, <1>4
  <2> HIDE DEF p, m
  <2>5. /\ PlansTyped' /\ \A q \in Plans \ {p} : plan'[q] = plan[q]
        /\ plan'[p].state = "reconciled"
        /\ plan'[p].first = plan[p].first /\ plan'[p].last = plan[p].last
        /\ plan'[p].next = plan[p].next /\ plan'[p].page = plan[p].page
    BY <2>1, <2>2, <2>3, <2>4 DEF IInv, ScanTyped, PlansTyped, PlanRecords
  <2>6. \A v \in Workers : \/ worker'[v] = worker[v] /\ (Holds(v)' => worker[v].plan # p)
                           \/ worker'[v] = Idle
    BY <1>2, <2>5 DEF Holds, Current
  <2> QED
    BY <1>1, <1>2, <2>1, <2>2, <2>5, <2>6, PlanTurns DEF Discovering, Discovered
<1> QED
  BY <1>3, <1>4

LEMMA ViewKeeps ==
    ASSUME IInv, NEW w \in Workers, NEW m \in Months, View(w, m)
    PROVE  IInv' /\ Stands
<1> DEFINE t == [step |-> "viewed", month |-> m, sig |-> Signature(m), covered |-> Covered(m)]
<1>1. /\ Wanted(m) /\ Unpointed /\ plan' = plan /\ worker' = [worker EXCEPT ![w] = t]
  BY DEF View, Unpointed, outside, durable
<1>2. /\ DOMAIN worker' = Workers /\ worker'[w] = t
      /\ \A v \in Workers \ {w} : worker'[v] = worker[v]
  <2> HIDE DEF t
  <2> QED
    BY <1>1, WorkerSet DEF IInv, ScanTyped
<1>3. worker'[w].step = "viewed" /\ worker'[w].month = m
  BY <1>2
<1>4. Judged_(Base, m) /\ ~Unresolved(m)
  <2>1. ~Unresolved(m) /\ m > plan[Base].next
    BY <1>1 DEF Wanted
  <2>2. CheckpointAgrees(Base) /\ plan[Base].first = 1 /\ plan[Base].last = Newest
    BY Apart DEF IInv, PlanInv
  <2> QED
    BY <2>1, <2>2, Apart DEF CheckpointAgrees, Judged_
<1>5. (Judged_(Base, m) /\ ~Unresolved(m))'
  BY <1>1, <1>4 DEF Unpointed, Judged_, Unresolved, Gap, Resolves, Complete
<1>6. Employed(w)
  BY <1>3, <1>5 DEF Employed, TaskTyped, WorkerInv, Holds
<1> QED
  BY <1>1, <1>2, <1>6, WorkersOnly

-----------------------------------------------------------------------------
\* Pages.

LEMMA CloudIs ==
    ASSUME CloudTyped, NEW m \in Months
    PROVE  /\ cloud[m] \in SUBSET Nat /\ IsFiniteSet(cloud[m]) /\ Cardinality(cloud[m]) \in Nat
           /\ cloud[m] \in SUBSET Rides /\ cloud[m] \subseteq 1..born[m] /\ born[m] \in Nat
<1>1. cloud[m] \in SUBSET Rides /\ cloud[m] \subseteq 1..born[m] /\ born[m] \in {0} \union Rides
  BY DEF CloudTyped
<1>2. Rides \in SUBSET Nat
  BY RidesAre
<1>3. IsFiniteSet(cloud[m]) /\ Cardinality(cloud[m]) \in Nat
  BY <1>1, RidesAre
<1>4. cloud[m] \in SUBSET Nat
  BY <1>1, <1>2, Zenon
<1>5. {0} \union Rides \subseteq Nat
  BY <1>2
<1>6. born[m] \in Nat
  BY <1>1, <1>5, Zenon
<1> QED
  BY <1>1, <1>3, <1>4, <1>6, Zenon

LEMMA PageIs ==
    ASSUME CloudTyped, NEW m \in Months, NEW k \in Nat
    PROVE  /\ Page(m, k) = {x \in cloud[m] : Rank(cloud[m], x) = k}
           /\ Page(m, k) \in SUBSET Rides /\ Cardinality(Page(m, k)) <= 1
<1>1. Page(m, k) = {x \in cloud[m] : Rank(cloud[m], x) = k}
  BY DEF Page, Rank
<1>2. \A x, y \in Page(m, k) : x = y
  BY <1>1, CloudIs, RanksDiffer
<1>3. Page(m, k) = {} \/ \E x : Page(m, k) = {x}
  BY <1>2
<1>4. Cardinality(Page(m, k)) \in {0, 1}
  BY <1>3, FS_EmptySet, FS_Singleton
<1> QED
  BY <1>1, <1>4, CloudIs

\* Whoever holds a plan works on a month that is not judged, after the pages it took.
LEMMA HeldIs ==
    ASSUME IInv, NEW w \in Workers, Holds(w)
    PROVE  LET p == worker[w].plan  m == worker[w].month  k == worker[w].page IN
           /\ p \in Plans /\ m \in Months /\ k \in Nat \ {0}
           /\ plan[p].state = "querying" /\ plan[p].next = m /\ plan[p].page = k
           /\ evidence[p][m] \in Pieces /\ evidence[p][m].verified = "open"
           /\ evidence[p][m].pages = k - 1
<1> DEFINE p == worker[w].plan
           m == worker[w].month
           k == worker[w].page
<1>1. /\ p \in Plans /\ m \in Months /\ k \in Nat \ {0} /\ plan[p].state = "querying"
      /\ plan[p].next = m /\ plan[p].page = k
  BY DEF Holds, Current, IInv, ScanTyped, WorkersTyped, TaskTyped, WorkerInv
<1>2. CheckpointAgrees(p)
  BY <1>1 DEF IInv, PlanInv
<1>3. evidence[p][m] \in Pieces
  BY <1>1 DEF IInv, ScanTyped, EvidenceTyped
<1>4. evidence[p][m].verified = "open" /\ evidence[p][m].pages = k - 1
  <2> HIDE DEF p, m, k
  <2>1. m # 0 /\ ~(m > m)
    BY <1>1, Apart
  <2> QED
    BY <1>1, <1>2, <2>1 DEF CheckpointAgrees
<1> QED
  BY <1>1, <1>3, <1>4

\* What the cloud leaves out of page k is further back, in the list that it answers from.
LEMMA AnsweredKeeps ==
    ASSUME IInv, NEW w \in Workers, NEW kind \in {"good", "missing", "schema"}, Answered(w, kind),
           Unpointed, plan' = plan
    PROVE  IInv' /\ Stands
<1> DEFINE p == worker[w].plan
           m == worker[w].month
           k == worker[w].page
           e == evidence[p][m]
           S == cloud[m]
           r == Reply(w, kind)
           t == [step |-> "answered", plan |-> p, month |-> m, page |-> k, reply |-> r]
<1>1. /\ p \in Plans /\ m \in Months /\ k \in Nat \ {0} /\ worker[w].step = "calling"
      /\ worker' = [worker EXCEPT ![w] = t]
  BY DEF Answered, IInv, ScanTyped, WorkersTyped, TaskTyped
<1>2. /\ DOMAIN worker' = Workers /\ worker'[w] = t
      /\ \A v \in Workers \ {w} : worker'[v] = worker[v]
  <2> HIDE DEF t
  <2> QED
    BY <1>1, WorkerSet DEF IInv, ScanTyped
<1>3. /\ S \in SUBSET Nat /\ IsFiniteSet(S) /\ Cardinality(S) \in Nat /\ S \in SUBSET Rides
      /\ S \subseteq 1..born[m]
  BY <1>1, CloudIs DEF IInv, ScanTyped
<1>4. /\ Page(m, k) = {x \in S : Rank(S, x) = k}
      /\ Page(m, k) \in SUBSET Rides /\ Cardinality(Page(m, k)) <= 1
  BY <1>1, PageIs DEF IInv, ScanTyped
<1>5. /\ r.kind = kind /\ r.ids = (IF kind = "schema" THEN {} ELSE Page(m, k))
      /\ r.total = (IF kind = "missing" THEN -1 ELSE Cardinality(S))
      /\ r.listed = (IF k = 1 THEN S ELSE {})
  BY DEF Reply
<1> HIDE DEF r
<1>6. ReplyTyped(r) /\ r.listed \subseteq 1..born[m]
  <2>1. Cardinality(r.ids) <= 1
    BY <1>4, <1>5, FS_EmptySet
  <2> QED
    BY <1>3, <1>4, <1>5, <2>1 DEF ReplyTyped
<1>7. /\ worker'[w].step = "answered" /\ worker'[w].plan = p /\ worker'[w].month = m
      /\ worker'[w].page = k /\ worker'[w].reply = r
  BY <1>2
<1>8. TaskTyped(w)'
  BY <1>1, <1>6, <1>7 DEF TaskTyped
<1>9. Holds(w)' => Holds(w)
  BY <1>1, <1>7 DEF Holds, Current
<1>10. ASSUME Holds(w), r.kind = "good", e.pages > 0 => e.total = r.total
       PROVE  Behind(S, (IF k = 1 THEN r.listed \cap S ELSE e.kept) \ (e.ids \union r.ids), k, r.total)
  <2>1. e \in Pieces /\ e.verified = "open" /\ e.pages = k - 1
    BY <1>10, HeldIs
  <2>2. r.ids = {x \in S : Rank(S, x) = k} /\ r.total = Cardinality(S)
    BY <1>4, <1>5, <1>10
  <2>3. \A x \in S : Rank(S, x) \in Nat /\ Rank(S, x) >= 1
    BY <1>3, RankIs
  <2>4. CASE k = 1
    BY <1>1, <1>3, <2>2, <2>3, <2>4 DEF Behind
  <2>5. CASE k # 1
    <3>1. e.pages > 0
      BY <1>1, <2>1, <2>5
    <3>2. EvidenceInv(p, m)
      BY <1>1 DEF IInv
    <3>3. e.kept \subseteq S /\ Behind(S, e.kept \ e.ids, k - 1, Cardinality(S))
      BY <1>10, <2>1, <2>2, <3>1, <3>2 DEF EvidenceInv
    <3> HIDE DEF e, S, k
    <3>4. \A x \in e.kept \ e.ids : Rank(S, x) >= k
      <4> TAKE x \in e.kept \ e.ids
      <4>1. x \in S /\ Rank(S, x) >= (k - 1) + 1 + Cardinality(S) - Cardinality(S)
        BY <3>3 DEF Behind
      <4> QED
        BY <1>1, <1>3, <2>3, <4>1
    <3>5. \A x \in e.kept \ (e.ids \union r.ids) : Rank(S, x) >= k + 1
      <4> TAKE x \in e.kept \ (e.ids \union r.ids)
      <4>1. x \in S /\ Rank(S, x) # k
        BY <2>2, <3>3
      <4> QED
        BY <1>1, <2>3, <3>4, <4>1
    <3> QED
      BY <1>1, <1>3, <2>2, <2>5, <3>5 DEF Behind
  <2> QED
    BY <2>4, <2>5
<1>11. Holds(w) => AnswerInv(w)'
  BY <1>7, <1>10 DEF AnswerInv, KeptBy, Unpointed
<1>12. WorkerInv(w)'
  <2>1. worker'[w].reply.listed \subseteq 1..born'[worker'[w].month]
    BY <1>6, <1>7 DEF Unpointed
  <2>2. Holds(w) => worker[w].month = plan[worker[w].plan].next /\ worker[w].page = plan[worker[w].plan].page
    BY DEF IInv, WorkerInv
  <2> QED
    BY <1>7, <1>9, <1>11, <2>1, <2>2 DEF WorkerInv
<1> QED
  BY <1>2, <1>8, <1>12, WorkersOnly DEF Employed

-----------------------------------------------------------------------------
\* A plan takes a page: its evidence, its place and, if the month ends, its verdict.

LEMMA AdvancedIs ==
    ASSUME PlansTyped, NEW p \in Plans, NEW m \in Months, NEW k \in Nat \ {0}, NEW ends \in BOOLEAN,
           plan[p].next = m, plan' = Advanced(p, m, k, ends)
    PROVE  /\ PlansTyped' /\ \A q \in Plans \ {p} : plan'[q] = plan[q]
           /\ plan'[p].first = plan[p].first /\ plan'[p].last = plan[p].last
           /\ plan'[p].holder = None
           /\ plan'[p].state = IF ends /\ m = plan[p].first THEN "preserve" ELSE "discover"
           /\ plan'[p].next = IF ~ends THEN m ELSE IF m = plan[p].first THEN 0 ELSE m - 1
           /\ plan'[p].page = IF ends THEN 1 ELSE k + 1
<1>1. plan[p] \in PlanRecords /\ plan[p].next \in Months
  BY DEF PlansTyped
<1>2. {"preserve", "discover"} \subseteq States /\ m - 1 \in 0..Newest /\ 0 \in 0..Newest
  BY Apart DEF States, Discovering, Discovered
<1>3. CASE ends
  <2> DEFINE st == IF m = plan[p].first THEN "preserve" ELSE "discover"
             nx == IF m = plan[p].first THEN 0 ELSE m - 1
  <2>1. st \in States /\ nx \in 0..Newest
    BY <1>2
  <2>2. plan' = [plan EXCEPT ![p].state = st, ![p].next = nx, ![p].page = 1, ![p].holder = None]
    BY <1>3 DEF Advanced
  <2> HIDE DEF st, nx
  <2> DEFINE at == [plan[p] EXCEPT !.state = st, !.next = nx, !.page = 1, !.holder = None]
  <2>3. plan' = [plan EXCEPT ![p] = at]
    BY <2>2 DEF PlansTyped
  <2>4. /\ at \in PlanRecords /\ at.first = plan[p].first /\ at.last = plan[p].last
        /\ at.holder = None /\ at.state = st /\ at.next = nx /\ at.page = 1
    <3>1. /\ at.first = plan[p].first /\ at.last = plan[p].last
          /\ at.holder = None /\ at.state = st /\ at.next = nx /\ at.page = 1
      BY <1>1 DEF PlanRecords
    <3>2. at \in PlanRecords
      <4> DEFINE half == [plan[p] EXCEPT !.state = st, !.next = nx]
      <4>1. half \in PlanRecords
        BY <1>1, <2>1 DEF PlanRecords
      <4>2. at = [half EXCEPT !.page = 1, !.holder = None]
        OBVIOUS
      <4> HIDE DEF half, at
      <4>3. 1 \in Nat \ {0} /\ None \in Workers \union {None}
        OBVIOUS
      <4> QED
        BY <4>1, <4>2, <4>3 DEF PlanRecords
    <3> QED
      BY <3>1, <3>2
  <2> HIDE DEF at
  <2>5. plan'[p] = at /\ PlansTyped' /\ \A q \in Plans \ {p} : plan'[q] = plan[q]
    BY <2>3, <2>4 DEF PlansTyped
  <2>6. /\ plan'[p].first = plan[p].first /\ plan'[p].last = plan[p].last
        /\ plan'[p].holder = None /\ plan'[p].state = st /\ plan'[p].next = nx /\ plan'[p].page = 1
    BY <2>4, <2>5
  <2>7. st = (IF m = plan[p].first THEN "preserve" ELSE "discover")
        /\ nx = (IF m = plan[p].first THEN 0 ELSE m - 1)
    BY DEF st, nx
  <2>8. /\ plan'[p].state = IF ends /\ m = plan[p].first THEN "preserve" ELSE "discover"
        /\ plan'[p].next = IF ~ends THEN m ELSE IF m = plan[p].first THEN 0 ELSE m - 1
        /\ plan'[p].page = IF ends THEN 1 ELSE k + 1
    BY <1>3, <2>6, <2>7, Zenon
  <2> QED
    BY <2>5, <2>6, <2>8
<1>4. CASE ~ends
  <2>1. plan' = [plan EXCEPT ![p].state = "discover", ![p].page = k + 1, ![p].holder = None]
    BY <1>4 DEF Advanced
  <2> DEFINE at == [plan[p] EXCEPT !.state = "discover", !.page = k + 1, !.holder = None]
  <2>2. plan' = [plan EXCEPT ![p] = at]
    BY <2>1 DEF PlansTyped
  <2>3. /\ at.first = plan[p].first /\ at.last = plan[p].last /\ at.holder = None
        /\ at.state = "discover" /\ at.next = m /\ at.page = k + 1
    BY <1>1 DEF PlanRecords
  <2>4. at \in PlanRecords
    <3> DEFINE half == [plan[p] EXCEPT !.state = "discover"]
    <3>1. half \in PlanRecords
      BY <1>1, <1>2 DEF PlanRecords
    <3>2. at = [half EXCEPT !.page = k + 1, !.holder = None]
      OBVIOUS
    <3> HIDE DEF half, at
    <3>3. k + 1 \in Nat \ {0} /\ None \in Workers \union {None}
      OBVIOUS
    <3> QED
      BY <3>1, <3>2, <3>3 DEF PlanRecords
  <2> HIDE DEF at
  <2>5. plan'[p] = at /\ PlansTyped' /\ \A q \in Plans \ {p} : plan'[q] = plan[q]
    BY <2>2, <2>4 DEF PlansTyped
  <2>6. /\ plan'[p].state = IF ends /\ m = plan[p].first THEN "preserve" ELSE "discover"
        /\ plan'[p].next = IF ~ends THEN m ELSE IF m = plan[p].first THEN 0 ELSE m - 1
        /\ plan'[p].page = IF ends THEN 1 ELSE k + 1
    BY <1>4, <2>3, <2>5, Zenon
  <2> QED
    BY <2>3, <2>5, <2>6, Zenon
<1> QED
  BY <1>3, <1>4

\* The plan's new piece of evidence for the month it is at.
Adds(p, piece) ==
    /\ plan[p].state \in {"discover", "querying"} /\ piece \in Pieces
    /\ evidence' = [evidence EXCEPT ![p][plan[p].next] = piece]
    /\ plan' = Advanced(p, plan[p].next, plan[p].page, piece.verified # "open")
    /\ piece.verified = "open" => piece.pages = plan[p].page

LEMMA AddsDoes ==
    ASSUME PlansTyped, EvidenceTyped, NEW p \in Plans, PlanInv(p), NEW piece, Adds(p, piece)
    PROVE  LET m == plan[p].next IN
           /\ m \in Months /\ plan[p].page \in Nat \ {0} /\ evidence[p][m].verified = "open"
           /\ plan[p].state # "absent" /\ plan[p].first \in Months /\ plan[p].first <= m
           /\ EvidenceTyped' /\ evidence'[p][m] = piece
           /\ \A q \in Plans, n \in Months : q # p \/ n # m => evidence'[q][n] = evidence[q][n]
           /\ \A q \in Plans \ {p} : evidence'[q] = evidence[q]
<1> DEFINE m == plan[p].next
<1>1. plan[p] \in PlanRecords /\ plan[p].state \in Discovering /\ plan[p].state # "absent"
  BY DEF PlansTyped, Adds, Discovering
<1>2. m # 0 /\ CheckpointAgrees(p) /\ plan[p].first \in Months /\ plan[p].first <= m
  BY <1>1 DEF PlanInv
<1>3. m \in Months /\ plan[p].page \in Nat \ {0}
  BY <1>1, <1>2, Apart DEF PlanRecords
<1>4. evidence[p][m].verified = "open"
  <2>1. ~(m > m)
    BY <1>3, Apart
  <2> HIDE DEF m
  <2> QED
    BY <1>2, <1>3, <2>1 DEF CheckpointAgrees, m
<1>5. piece \in Pieces /\ evidence' = [evidence EXCEPT ![p][m] = piece]
  BY DEF Adds
<1> HIDE DEF m, Pieces
<1>6. /\ EvidenceTyped' /\ evidence'[p][m] = piece
      /\ \A q \in Plans, n \in Months : q # p \/ n # m => evidence'[q][n] = evidence[q][n]
      /\ \A q \in Plans \ {p} : evidence'[q] = evidence[q]
  BY <1>3, <1>5 DEF EvidenceTyped
<1> QED
  BY <1>1, <1>2, <1>3, <1>4, <1>6 DEF m

LEMMA PlanAdvances ==
    ASSUME PlansTyped, EvidenceTyped, NEW p \in Plans, PlanInv(p), NEW piece, Adds(p, piece)
    PROVE  PlanInv(p)'
<1> DEFINE m == plan[p].next
           k == plan[p].page
           ends == piece.verified # "open"
           at == plan'[p]
<1>1. /\ m \in Months /\ k \in Nat \ {0} /\ evidence[p][m].verified = "open"
      /\ plan[p].state # "absent" /\ plan[p].first \in Months /\ plan[p].first <= m
      /\ evidence'[p][m] = piece
      /\ \A n \in Months : n # m => evidence'[p][n] = evidence[p][n]
  BY AddsDoes
<1>2. ends \in BOOLEAN /\ plan' = Advanced(p, m, k, ends) /\ (~ends => piece.pages = k)
  BY DEF Adds
<1>3. /\ PlansTyped' /\ at.first = plan[p].first /\ at.last = plan[p].last
      /\ at.state = IF ends /\ m = plan[p].first THEN "preserve" ELSE "discover"
      /\ at.next = IF ~ends THEN m ELSE IF m = plan[p].first THEN 0 ELSE m - 1
      /\ at.page = IF ends THEN 1 ELSE k + 1
  <2> HIDE DEF m, k, ends
  <2> QED
    BY <1>1, <1>2, AdvancedIs DEF m
<1>4. /\ CheckpointAgrees(p) /\ plan[p].first <= m /\ m <= plan[p].last
      /\ IF p = Base THEN plan[p].first = 1 /\ plan[p].last = Newest ELSE plan[p].last = plan[p].first
      /\ \A n \in Months : n < m => evidence[p][n].pages = 0
  BY <1>1, Apart DEF PlanInv
<1>5. Newest \in Nat /\ Months = 1..Newest /\ plan[p].last \in 0..Newest
  BY Apart DEF PlansTyped, PlanRecords
<1> HIDE DEF m, k, ends, at
<1>6. /\ at.next = 0 \/ (at.next \in Months /\ at.first <= at.next /\ at.next <= at.last)
      /\ at.next <= m /\ (ends => at.next < m)
      /\ \A n \in Months : n > at.next <=> (n > m \/ (ends /\ n >= m) \/ (at.next = 0 /\ n >= 1))
  BY <1>1, <1>3, <1>4, <1>5
<1>7. \A n \in Months : n < at.next => evidence'[p][n].pages = 0
  BY <1>1, <1>4, <1>5, <1>6
<1>8. {n \in Months : evidence'[p][n].verified # "open"}
        = {n \in Months : at.first <= n /\ n <= at.last /\ n > at.next}
  <2>1. \A n \in Months : evidence[p][n].verified # "open" <=>
              plan[p].first <= n /\ n <= plan[p].last /\ n > m
    BY <1>4 DEF CheckpointAgrees, m
  <2>2. \A n \in Months : evidence'[p][n].verified # "open" <=>
              (n = m /\ ends) \/ (n # m /\ evidence[p][n].verified # "open")
    BY <1>1 DEF ends
  <2>3. \A n \in Months : at.first <= n /\ n <= at.last /\ n > at.next <=>
              (n = m /\ ends) \/ (n # m /\ plan[p].first <= n /\ n <= plan[p].last /\ n > m)
    BY <1>1, <1>3, <1>4, <1>5
  <2> QED
    BY <2>1, <2>2, <2>3
<1>9. at.next # 0 => evidence'[p][at.next].pages = at.page - 1
  <2>1. CASE ends
    <3>1. at.next # 0 => evidence'[p][at.next] = evidence[p][at.next] /\ at.next < m /\ at.next \in Months
      BY <1>1, <1>5, <1>6, <2>1
    <3> QED
      BY <1>3, <1>4, <2>1, <3>1
  <2>2. CASE ~ends
    BY <1>1, <1>2, <1>3, <2>2
  <2> QED
    BY <2>1, <2>2
<1>10. CheckpointAgrees(p)'
  <2>1. (at.next = 0 => at.page = 1) /\ (at.state = "discover" => at.next # 0)
        /\ (at.state \in Discovered => at.next = 0)
    BY <1>1, <1>3, <1>5, Apart DEF Discovered
  <2>2. at.state # "reconciled"
    BY <1>3
  <2> QED
    BY <1>3, <1>8, <1>9, <2>1, <2>2 DEF CheckpointAgrees, at
<1>11. at.state \in Discovering => at.next # 0
  BY <1>1, <1>3, <1>5, Apart DEF Discovering
<1>12. at.state # "absent" /\ at.first \in Months
  BY <1>1, <1>3
<1>13. IF p = Base THEN at.first = 1 /\ at.last = Newest ELSE at.last = at.first
  BY <1>3, <1>4
<1>14. at.next = 0 \/ (at.first <= at.next /\ at.next <= at.last)
  BY <1>6
<1> QED
  BY <1>7, <1>10, <1>11, <1>12, <1>13, <1>14 DEF PlanInv, at

-----------------------------------------------------------------------------
\* Such a step keeps the invariant, if the piece is in order; it may resolve the month's gap, or
\* take the month from a run.

LEMMA Advances ==
    ASSUME IInv, NEW p \in Plans, NEW piece, Adds(p, piece),
           \A n \in Months : n = plan[p].next => EvidenceInv(p, n)',
           cloud' = cloud, born' = born, active' = active, RefsTyped',
           \A n \in Months : \/ link'[n] = link[n]
                             \/ /\ n = plan[p].next /\ link'[n] = p /\ p \in Runs
                                /\ piece.verified = "yes" /\ piece.later = TRUE /\ Gap(n),
           \A n \in Months : \/ reused'[n] = reused[n]
                             \/ /\ n = plan[p].next /\ p = Base /\ piece.verified = "yes"
                                /\ reused'[n] \in Runs /\ plan[reused'[n]].state \in Discovered
                                /\ evidence[reused'[n]][n] = piece,
           DOMAIN worker' = Workers, \A w \in Workers : worker'[w] = worker[w] \/ worker'[w] = Idle
    PROVE  IInv' /\ Stands
<1> DEFINE m == plan[p].next
           ends == piece.verified # "open"
<1>1. /\ m \in Months /\ plan[p].page \in Nat \ {0} /\ evidence[p][m].verified = "open"
      /\ plan[p].state # "absent" /\ plan[p].first \in Months /\ plan[p].first <= m
      /\ EvidenceTyped' /\ evidence'[p][m] = piece
      /\ \A q \in Plans, n \in Months : q # p \/ n # m => evidence'[q][n] = evidence[q][n]
      /\ \A q \in Plans \ {p} : evidence'[q] = evidence[q]
  BY AddsDoes DEF IInv, ScanTyped
<1>2. /\ PlansTyped' /\ \A q \in Plans \ {p} : plan'[q] = plan[q]
      /\ plan'[p].first = plan[p].first /\ plan'[p].holder = None
      /\ plan'[p].state = IF ends /\ m = plan[p].first THEN "preserve" ELSE "discover"
  <2>1. ends \in BOOLEAN /\ plan' = Advanced(p, m, plan[p].page, ends)
    BY DEF Adds
  <2> HIDE DEF ends
  <2> QED
    BY <1>1, <2>1, AdvancedIs DEF IInv, ScanTyped
<1>3. plan[p].state \in {"discover", "querying"} /\ plan'[p].state # "absent"
      /\ plan'[p].state # "reconciled"
  BY <1>2 DEF Adds
<1>4. p \in Runs => plan[p].first = m
  <2>1. p \in Runs => plan[p].last = plan[p].first /\ m <= plan[p].last
    BY <1>1, Apart DEF IInv, PlanInv
  <2> QED
    BY <1>1, <2>1, Apart
<1> HIDE DEF m, ends
<1>5. Stands
  <2>1. \A q \in Plans, n \in Months : Judged_(q, n) => evidence'[q][n] = evidence[q][n]
    BY <1>1 DEF Judged_
  <2>2. \A q \in Plans : plan[q].state # "absent" =>
                            plan'[q].state # "absent" /\ plan'[q].first = plan[q].first
    BY <1>2, <1>3
  <2>3. \A q \in Plans : plan[q].state \in Discovered => plan'[q].state \in Discovered
    BY <1>2, <1>3 DEF Discovered
  <2> QED
    BY <2>1, <2>2, <2>3 DEF Stands
<1>6. \A n \in Months : link'[n] = link[n] \/ (n = m /\ link'[n] = p /\ p \in Runs
                                                /\ ends /\ Gap(n) /\ Resolves(link[n], n)')
  <2> SUFFICES ASSUME NEW n \in Months, link'[n] # link[n]
               PROVE  /\ n = m /\ link'[n] = p /\ p \in Runs
                      /\ ends /\ Gap(n) /\ Resolves(link[n], n)'
    OBVIOUS
  <2>1. /\ n = m /\ link'[n] = p /\ p \in Runs /\ Gap(n)
        /\ piece.verified = "yes" /\ piece.later = TRUE
    BY DEF m
  <2>2. ends /\ plan'[p].state \in Discovered
    BY <1>2, <1>4, <2>1 DEF ends, Discovered
  <2>3. Resolves(link[n], n)'
    BY <1>1, <2>1, <2>2, Apart DEF Resolves, Complete
  <2> QED
    BY <2>1, <2>2, <2>3
<1>7. LinksMove
  BY <1>6 DEF LinksMove
<1>8. \A w \in Workers : TaskTyped(w)' /\ WorkerInv(w)'
  <2> TAKE w \in Workers
  <2>1. CASE worker'[w] = worker[w]
    <3>1. TaskTyped(w)'
      BY <2>1 DEF IInv, ScanTyped, WorkersTyped, TaskTyped
    <3>2. Holds(w)' => worker[w].plan \in Plans \ {p}
      BY <1>2, <2>1, Apart DEF Holds, Current, IInv, ScanTyped, WorkersTyped, TaskTyped
    <3>3. Holds(w)' => /\ Holds(w) /\ plan'[worker[w].plan] = plan[worker[w].plan]
                       /\ evidence'[worker[w].plan] = evidence[worker[w].plan]
      BY <1>1, <1>2, <2>1, <3>2 DEF Holds, Current
    <3> QED
      BY <1>5, <1>7, <2>1, <3>1, <3>3, WorkerRests DEF IInv, ScanTyped, WorkersTyped
  <2> QED
    BY <2>1, WorkerIdle
<1>9. ScanTyped'
  BY <1>1, <1>2, <1>8 DEF IInv, ScanTyped, WorkersTyped, CloudTyped
<1>10. \A q \in Plans : PlanInv(q)'
  <2> TAKE q \in Plans
  <2>1. CASE q = p
    BY <2>1, PlanAdvances DEF IInv, ScanTyped
  <2>2. CASE q # p
    BY <1>1, <1>2, <2>2, PlanSame DEF IInv, ScanTyped
  <2> QED
    BY <2>1, <2>2
<1>11. \A q \in Plans, n \in Months : EvidenceInv(q, n)'
  <2> TAKE q \in Plans, n \in Months
  <2>1. CASE q = p /\ n = m
    BY <2>1 DEF m
  <2>2. CASE q # p \/ n # m
    BY <1>1, <2>2, EvidenceRests DEF IInv
  <2> QED
    BY <2>1, <2>2
<1>12. RefInv'
  <2>1. \A n \in Months : \/ link'[n] = link[n]
                          \/ /\ link'[n] \in Runs /\ plan'[link'[n]].state # "absent"
                             /\ plan'[link'[n]].first = n /\ Gap(n)'
    <3> SUFFICES ASSUME NEW n \in Months, link'[n] # link[n]
                 PROVE  /\ link'[n] \in Runs /\ plan'[link'[n]].state # "absent"
                        /\ plan'[link'[n]].first = n /\ Gap(n)'
      OBVIOUS
    <3>1. n = m /\ link'[n] = p /\ p \in Runs /\ Gap(n)
      BY <1>6
    <3>2. Gap(n)'
      BY <3>1, <1>5, GapStands DEF Gap, Judged_
    <3> QED
      BY <1>2, <1>3, <1>4, <3>1, <3>2
  <2>2. \A n \in Months : \/ reused'[n] = reused[n]
                          \/ /\ plan'[reused'[n]].state \in Discovered
                             /\ evidence'[reused'[n]][n].verified = "yes"
                             /\ evidence'[reused'[n]][n] = evidence'[Base][n]
    <3> SUFFICES ASSUME NEW n \in Months, reused'[n] # reused[n]
                 PROVE  /\ plan'[reused'[n]].state \in Discovered
                        /\ evidence'[reused'[n]][n].verified = "yes"
                        /\ evidence'[reused'[n]][n] = evidence'[Base][n]
      OBVIOUS
    <3>1. /\ n = m /\ p = Base /\ piece.verified = "yes" /\ reused'[n] \in Runs
          /\ plan[reused'[n]].state \in Discovered /\ evidence[reused'[n]][n] = piece
      BY DEF m
    <3>2. reused'[n] \in Plans /\ reused'[n] # p
      BY <3>1, Apart
    <3> QED
      BY <1>1, <1>5, <3>1, <3>2 DEF Stands
  <2>3. ActiveInv' /\ LinkInv' /\ ReuseInv'
    BY <1>5, <2>1, <2>2, RefsStand DEF IInv, ScanTyped
  <2>4. GapIsNotReconciled'
    <3>1. \A n \in Months : link'[n] = link[n] /\ link[n] # None /\ plan'[link[n]].state = "reconciled"
                               => plan[link[n]].state = "reconciled" \/ ~Unresolved(n)
      BY <1>2, <1>3, Apart DEF IInv, ScanTyped, RefsTyped
    <3>2. \A n \in Months : link'[n] # link[n] => plan'[link'[n]].state # "reconciled"
      BY <1>3, <1>6
    <3> QED
      BY <1>5, <1>7, <3>1, <3>2, GapsStand DEF IInv, ScanTyped
  <2>5. NoRunIsLost'
    <3> SUFFICES ASSUME NEW q \in Runs, plan'[q].state \in Discovering
                 PROVE  active'[plan'[q].first] = q
      BY DEF NoRunIsLost
    <3>1. plan[q].state \in Discovering /\ plan'[q].first = plan[q].first
      BY <1>2, <1>3, Apart DEF Discovering
    <3> QED
      BY <3>1 DEF IInv, RefInv, NoRunIsLost
  <2> QED
    BY <2>3, <2>4, <2>5 DEF RefInv
<1> QED
  BY <1>5, <1>8, <1>9, <1>10, <1>11, <1>12 DEF IInv

\* The union of what was listed and a page.
LEMMA PagesAdd ==
    ASSUME NEW S \in SUBSET Rides, NEW T \in SUBSET Rides, NEW k \in Nat,
           Cardinality(S) <= k, Cardinality(T) <= 1
    PROVE  S \union T \in SUBSET Rides /\ Cardinality(S \union T) \in Nat
           /\ Cardinality(S \union T) <= k + 1
<1>1. /\ IsFiniteSet(S) /\ Cardinality(S) \in Nat /\ IsFiniteSet(T) /\ Cardinality(T) \in Nat
      /\ S \union T \in SUBSET Rides /\ Cardinality(S \union T) \in Nat
  BY RidesAre
<1>2. CASE Cardinality(T) = 0
  <2>1. T = {}
    BY <1>1, <1>2, FS_EmptySet
  <2>2. S \union T = S
    BY <2>1
  <2>3. Cardinality(S \union T) = Cardinality(S)
    BY <2>2
  <2>4. Cardinality(S) <= k + 1
    BY <1>1
  <2> QED
    BY <1>1, <2>3, <2>4
<1>3. CASE Cardinality(T) = 1
  <2>1. PICK x : T = {x}
    BY <1>1, <1>3, FS_Singleton
  <2>2. Cardinality(S \union {x}) = IF x \in S THEN Cardinality(S) ELSE Cardinality(S) + 1
    BY <1>1, FS_AddElement
  <2>3. Cardinality(S \union T) <= Cardinality(S) + 1
    BY <1>1, <2>1, <2>2
  <2> QED
    BY <1>1, <2>3
<1> QED
  BY <1>1, <1>2, <1>3

\* A page that is accepted: if it verifies the month, none of the rides that were listed all the
\* time is left, because it would be behind more pages than the month has rides.
LEMMA AcceptAdds ==
    ASSUME IInv, NEW w \in Workers, Accept(w), NEW p, NEW m, p = worker[w].plan, m = worker[w].month
    PROVE  IInv' /\ Stands
<1> DEFINE k == worker[w].page
           r == worker[w].reply
           e == evidence[p][m]
           verified == Verifies(e, r)
           ends == Ends(e, r, k)
           ids == e.ids \union r.ids
           kept == IF k = 1 THEN r.listed \cap cloud[m] ELSE e.kept
           piece == [pages |-> k, ids |-> ids, total |-> r.total,
                     verified |-> IF verified THEN "yes" ELSE IF ends THEN "no" ELSE "open",
                     kept |-> kept, later |-> p # Base /\ verified /\ Gap(m)]
<1>1. worker[w].step = "answered" /\ Holds(w)
  BY DEF Accept, Admitted, Holds
<1>2. /\ p \in Plans /\ m \in Months /\ k \in Nat \ {0}
      /\ plan[p].state = "querying" /\ plan[p].next = m /\ plan[p].page = k
      /\ e \in Pieces /\ e.verified = "open" /\ e.pages = k - 1
  BY <1>1, HeldIs
<1>3. /\ plan' = Advanced(p, m, k, ends)
      /\ evidence' = [evidence EXCEPT ![p][m] = piece]
      /\ link' = IF p # Base /\ verified /\ Gap(m) THEN [link EXCEPT ![m] = p] ELSE link
      /\ worker' = [worker EXCEPT ![w] = Idle]
      /\ active' = active /\ reused' = reused /\ cloud' = cloud /\ born' = born
  BY DEF Accept, Judged, LinkCompleted, outside
<1>4. ReplyTyped(r) /\ AnswerInv(w) /\ EvidenceInv(p, m)
  BY <1>1, <1>2 DEF IInv, ScanTyped, WorkersTyped, TaskTyped, WorkerInv
<1>5. cloud[m] \in SUBSET Rides /\ Cardinality(cloud[m]) \in Nat /\ cloud[m] \in SUBSET Nat
      /\ IsFiniteSet(cloud[m])
  BY <1>2, CloudIs DEF IInv, ScanTyped
<1>6. /\ ids \in SUBSET Rides /\ Cardinality(ids) \in Nat /\ Cardinality(ids) <= k
  <2>1. e.ids \in SUBSET Rides /\ r.ids \in SUBSET Rides /\ Cardinality(r.ids) <= 1
        /\ Cardinality(e.ids) <= k - 1 /\ k - 1 \in Nat
    BY <1>2, <1>4 DEF Pieces, ReplyTyped, EvidenceInv
  <2>2. ids \in SUBSET Rides /\ Cardinality(ids) \in Nat /\ Cardinality(ids) <= (k - 1) + 1
    BY <2>1, PagesAdd
  <2>3. (k - 1) + 1 = k
    BY <1>2
  <2> QED
    BY <2>2, <2>3
<1>7. kept \in SUBSET Rides /\ kept \subseteq cloud[m]
  BY <1>2, <1>4, <1>5 DEF EvidenceInv
<1>8. verified => ends
  BY DEF Ends
<1>9. ~Contradicts(e, r) => Behind(cloud[m], kept \ ids, k, r.total) /\ r.total \in Nat
  BY <1>4 DEF Contradicts, AnswerInv, KeptBy, ReplyTyped
<1>10. verified => r.total = Cardinality(ids) /\ kept \subseteq ids
  <2> SUFFICES ASSUME verified PROVE r.total = Cardinality(ids) /\ kept \subseteq ids
    OBVIOUS
  <2>1. r.total = Cardinality(ids) /\ Behind(cloud[m], kept \ ids, k, r.total)
    BY <1>9 DEF Verifies
  <2> HIDE DEF kept, ids, k, r
  <2>2. ASSUME NEW x \in kept \ ids PROVE FALSE
    <3>1. x \in cloud[m] /\ Rank(cloud[m], x) >= k + 1 + Cardinality(cloud[m]) - Cardinality(ids)
      BY <1>7, <2>1, <2>2 DEF Behind
    <3>2. Rank(cloud[m], x) \in Nat /\ Rank(cloud[m], x) <= Cardinality(cloud[m])
      BY <1>5, <3>1, RankIs
    <3> QED
      BY <1>2, <1>5, <1>6, <3>1, <3>2
  <2> QED
    BY <2>1, <2>2
<1>11. /\ piece.pages = k /\ piece.ids = ids /\ piece.total = r.total /\ piece.kept = kept
       /\ piece.verified = (IF verified THEN "yes" ELSE IF ends THEN "no" ELSE "open")
       /\ piece.later = (p # Base /\ verified /\ Gap(m))
  OBVIOUS
<1>12. piece \in Pieces
  <2>1. r.total \in Nat \union {-1} /\ k \in Nat
    BY <1>2, <1>4 DEF ReplyTyped
  <2>2. (IF verified THEN "yes" ELSE IF ends THEN "no" ELSE "open") \in Verdicts
        /\ (p # Base /\ verified /\ Gap(m)) \in BOOLEAN
    BY DEF Verdicts
  <2> HIDE DEF k, r, e, verified, ends, ids, kept
  <2> QED
    BY <1>6, <1>7, <2>1, <2>2 DEF Pieces
<1> HIDE DEF piece
<1>13. piece.verified # "open" <=> ends
  BY <1>8, <1>11
<1>14. Adds(p, piece)
  <2>1. (piece.verified # "open") = ends
    BY <1>13 DEF Ends
  <2> HIDE DEF k, ends
  <2> QED
    BY <1>2, <1>3, <1>11, <1>12, <2>1 DEF Adds
<1>15. \A n \in Months : n = plan[p].next => EvidenceInv(p, n)'
  <2>1. evidence'[p][m] = piece
    BY <1>2, <1>14, AddsDoes DEF IInv, ScanTyped
  <2>2. piece.verified = "open" => ~Contradicts(e, r)
    BY <1>11, <1>13 DEF Ends
  <2>3. piece.verified = "yes" => piece.total = Cardinality(piece.ids) /\ piece.kept \subseteq piece.ids
    BY <1>10, <1>11
  <2>4. piece.verified = "open" => piece.total \in Nat /\ Behind(cloud[m], piece.kept \ piece.ids, piece.pages, piece.total)
    BY <1>9, <1>11, <2>2
  <2>5. piece.pages # 0 /\ Cardinality(piece.ids) <= piece.pages /\ piece.kept \subseteq cloud[m]
    BY <1>2, <1>6, <1>7, <1>11
  <2>6. evidence'[p][m] = piece /\ cloud'[m] = cloud[m]
    BY <1>3, <2>1
  <2> HIDE DEF k, r, e, verified, ends, ids, kept
  <2> QED
    BY <1>2, <2>3, <2>4, <2>5, <2>6 DEF EvidenceInv
<1>16. /\ DOMAIN worker' = Workers
       /\ \A v \in Workers : worker'[v] = worker[v] \/ worker'[v] = Idle
  BY <1>3, WorkerSet DEF IInv, ScanTyped
<1>17. RefsTyped' /\ \A n \in Months :
            \/ link'[n] = link[n]
            \/ /\ n = m /\ link'[n] = p /\ p \in Runs
               /\ piece.verified = "yes" /\ piece.later = TRUE /\ Gap(n)
  <2>1. p # Base => p \in Runs
    BY <1>2 DEF Plans
  <2> HIDE DEF k, r, e, verified, ends, ids, kept
  <2>2. CASE p # Base /\ verified /\ Gap(m)
    <3>1. link' = [link EXCEPT ![m] = p] /\ piece.verified = "yes" /\ piece.later = TRUE
      BY <1>3, <1>11, <2>2, Zenon
    <3> QED
      BY <1>2, <1>3, <2>1, <2>2, <3>1 DEF IInv, ScanTyped, RefsTyped
  <2>3. CASE ~(p # Base /\ verified /\ Gap(m))
    BY <1>3, <2>3 DEF IInv, ScanTyped, RefsTyped
  <2> QED
    BY <2>2, <2>3
<1> HIDE DEF k, r, e, verified, ends, ids, kept
<1>18. \A n \in Months : \/ link'[n] = link[n]
                         \/ /\ n = plan[p].next /\ link'[n] = p /\ p \in Runs
                            /\ piece.verified = "yes" /\ piece.later = TRUE /\ Gap(n)
  BY <1>2, <1>17
<1>19. p \in Plans /\ cloud' = cloud /\ born' = born /\ active' = active
       /\ \A n \in Months : reused'[n] = reused[n]
  BY <1>2, <1>3
<1>20. RefsTyped'
  BY <1>17
<1> QED
  BY <1>14, <1>15, <1>16, <1>18, <1>19, <1>20, Advances

LEMMA AcceptKeeps ==
    ASSUME IInv, NEW w \in Workers, Accept(w)
    PROVE  IInv' /\ Stands
BY AcceptAdds

LEMMA ReuseKeeps ==
    ASSUME IInv, NEW m \in Months, Reuse(m)
    PROVE  IInv' /\ Stands
<1> DEFINE r == active[m]
           piece == evidence[r][m]
<1>1. /\ plan[Base].state = "discover" /\ plan[Base].next = m /\ plan[Base].page = 1
      /\ r \in Runs /\ plan[r].state \in Discovered /\ piece.verified = "yes"
  BY DEF Reuse, Reusable, Complete, IInv, ScanTyped, RefsTyped
<1>2. /\ evidence' = [evidence EXCEPT ![Base][m] = piece] /\ plan' = Advanced(Base, m, 1, TRUE)
      /\ reused' = [reused EXCEPT ![m] = r]
      /\ active' = active /\ link' = link /\ worker' = worker /\ cloud' = cloud /\ born' = born
  BY DEF Reuse, outside
<1>3. r \in Plans /\ Base \in Plans /\ piece \in Pieces
  BY <1>1, Apart DEF IInv, ScanTyped, EvidenceTyped
<1>4. Adds(Base, piece)
  <2>1. (piece.verified # "open") = TRUE
    BY <1>1
  <2> HIDE DEF piece, r
  <2> QED
    BY <1>1, <1>2, <1>3, <2>1 DEF Adds
<1>5. evidence'[Base][m] = piece
  BY <1>1, <1>3, <1>4, AddsDoes DEF IInv, ScanTyped
<1>6. EvidenceInv(Base, m)'
  <2>1. EvidenceInv(r, m)
    BY <1>3 DEF IInv
  <2> QED
    BY <1>1, <1>5, <2>1 DEF EvidenceInv
<1>7. RefsTyped' /\ \A n \in Months :
            \/ reused'[n] = reused[n]
            \/ /\ n = m /\ piece.verified = "yes" /\ reused'[n] \in Runs
               /\ plan[reused'[n]].state \in Discovered /\ evidence[reused'[n]][n] = piece
  BY <1>1, <1>2 DEF IInv, ScanTyped, RefsTyped
<1> HIDE DEF piece, r
<1> QED
  BY <1>1, <1>2, <1>3, <1>4, <1>6, <1>7, Advances DEF IInv, ScanTyped, WorkersTyped

-----------------------------------------------------------------------------
\* Steps of the workers and of the owner that change no checkpoint.
LEMMA WorkersKeep ==
    ASSUME IInv, NEW w \in Workers,
           \/ Respond(w) \/ Malformed(w) \/ Refused(w) \/ Vanish(w) \/ ReconcileSkips(w)
    PROVE  IInv' /\ Stands
<1>1. ASSUME worker' = [worker EXCEPT ![w] = Idle], UNCHANGED durable, UNCHANGED outside
      PROVE  IInv' /\ Stands
  <2>1. /\ DOMAIN worker' = Workers /\ Unpointed /\ plan' = plan
        /\ \A v \in Workers : worker'[v] = worker[v] \/ worker'[v] = Idle
    BY <1>1, WorkerSet DEF IInv, ScanTyped, Unpointed, durable, outside
  <2> QED
    BY <2>1, WorkersOnly
<1>2. CASE Respond(w)
  <2>1. Unpointed /\ plan' = plan /\ Answered(w, "good")
    BY <1>2 DEF Respond, Unpointed, durable, outside
  <2> QED
    BY <2>1, AnsweredKeeps
<1>3. CASE Malformed(w)
  <2>1. PICK kind \in {"missing", "schema"} : Answered(w, kind)
    BY <1>3 DEF Malformed
  <2>2. Unpointed /\ plan' = plan
    BY <1>3 DEF Malformed, Unpointed, durable, outside
  <2> QED
    BY <2>1, <2>2, AnsweredKeeps
<1>4. CASE Refused(w) \/ Vanish(w) \/ ReconcileSkips(w)
  BY <1>1, <1>4 DEF Refused, Vanish, ReconcileSkips
<1> QED
  BY <1>2, <1>3, <1>4

LEMMA OthersKeep ==
    ASSUME IInv, \/ Pause \/ PauseSeen \/ Resume \/ (\E m \in Months : Observe(m))
                 \/ UNCHANGED vars
    PROVE  IInv' /\ Stands
<1>1. Unpointed /\ plan' = plan /\ worker' = worker
  BY DEF Pause, PauseSeen, Resume, Observe, vars, Unpointed, durable, outside
<1>2. DOMAIN worker' = Workers
  BY <1>1 DEF IInv, ScanTyped, WorkersTyped
<1> QED
  BY <1>1, <1>2, WorkersOnly

\* A gap that its active run has resolved already is linked to it.
LEMMA GapIsLinked ==
    ASSUME IInv, NEW m \in Months, Resolves(active[m], m), Unresolved(m),
           link' = [link EXCEPT ![m] = active[m]], plan' = plan, evidence' = evidence,
           active' = active, reused' = reused, worker' = worker, cloud' = cloud, born' = born
    PROVE  IInv' /\ Stands
<1> DEFINE r == active[m]
<1>1. r \in Runs /\ plan[r].state \in Discovered /\ plan[r].first = m /\ Gap(m)
  BY DEF Resolves, Complete, Unresolved, IInv, ScanTyped, RefsTyped, RefInv, ActiveInv
<1>2. Stands
  BY DEF Stands
<1>3. /\ RefsTyped' /\ \A n \in Months : link'[n] = link[n] \/ (n = m /\ link'[n] = r)
  BY <1>1 DEF IInv, ScanTyped, RefsTyped
<1>4. LinksMove
  BY <1>3 DEF LinksMove
<1>5. ScanTyped'
  BY <1>3 DEF IInv, ScanTyped, PlansTyped, EvidenceTyped, WorkersTyped, TaskTyped, CloudTyped
<1>6. /\ \A p \in Plans : PlanInv(p)'
      /\ \A p \in Plans, n \in Months : EvidenceInv(p, n)'
  BY PlanSame, EvidenceRests DEF IInv, ScanTyped
<1>7. \A w \in Workers : WorkerInv(w)'
  <2> TAKE w \in Workers
  <2>1. Holds(w)' => Holds(w)
    BY DEF Holds, Current
  <2> QED
    BY <1>2, <1>4, <2>1, WorkerRests DEF IInv, ScanTyped, WorkersTyped
<1>8. RefInv'
  <2> HIDE DEF r
  <2>1. \A n \in Months : \/ link'[n] = link[n]
                          \/ /\ link'[n] \in Runs /\ plan'[link'[n]].state # "absent"
                             /\ plan'[link'[n]].first = n /\ Gap(n)'
    BY <1>1, <1>3 DEF Gap, Discovered
  <2>2. ActiveInv' /\ LinkInv' /\ ReuseInv'
    BY <1>2, <2>1, RefsStand DEF IInv, ScanTyped
  <2>3. GapIsNotReconciled'
    <3>1. \A n \in Months : link'[n] # link[n] => plan'[link'[n]].state # "reconciled"
      BY <1>1, <1>3 DEF Discovered
    <3> QED
      BY <1>2, <1>4, <3>1, GapsStand DEF IInv, ScanTyped
  <2>4. NoRunIsLost'
    BY DEF NoRunIsLost, IInv, RefInv
  <2> QED
    BY <2>2, <2>3, <2>4 DEF RefInv
<1> QED
  BY <1>2, <1>5, <1>6, <1>7, <1>8 DEF IInv

\* The runs that a month is given.
LEMMA RunsKeep ==
    ASSUME IInv, NEW m \in Months, NEW r \in Runs, ForceMonth(m, r) \/ SeedGap(m, r)
    PROVE  IInv' /\ Stands
<1>1. DOMAIN worker' = Workers /\ worker' = worker /\ evidence' = evidence /\ cloud' = cloud
      /\ born' = born /\ reused' = reused
  BY DEF ForceMonth, SeedGap, outside, IInv, ScanTyped, WorkersTyped
<1>2. CASE ForceMonth(m, r)
  BY <1>1, <1>2, RunStarts DEF ForceMonth
<1>3. CASE SeedGap(m, r) /\ Resolves(active[m], m)
  BY <1>1, <1>3, GapIsLinked DEF SeedGap
<1>4. CASE SeedGap(m, r) /\ ~Resolves(active[m], m)
  BY <1>1, <1>4, RunStarts DEF SeedGap
<1> QED
  BY <1>2, <1>3, <1>4

LEMMA ReconcileKeeps ==
    ASSUME IInv, NEW w \in Workers, NEW r \in Runs, Reconcile(w, r)
    PROVE  IInv' /\ Stands
<1> DEFINE m == worker[w].month
<1>1. /\ m \in Months /\ Schedules(m, FALSE, r) /\ Scheduled(m, r)
      /\ worker' = [worker EXCEPT ![w] = Idle]
      /\ evidence' = evidence /\ cloud' = cloud /\ born' = born /\ reused' = reused /\ link' = link
  BY DEF Reconcile, outside, IInv, ScanTyped, WorkersTyped, TaskTyped
<1>2. /\ DOMAIN worker' = Workers
      /\ \A v \in Workers : worker'[v] = worker[v] \/ worker'[v] = Idle
  BY <1>1, WorkerSet DEF IInv, ScanTyped
<1> HIDE DEF m
<1> QED
  BY <1>1, <1>2, RunStarts

-----------------------------------------------------------------------------
\* The cloud's list changes.

LEMMA BehindGrows ==
    ASSUME NEW S \in SUBSET Nat, IsFiniteSet(S), NEW b \in Nat, \A s \in S : s < b,
           NEW xs \in SUBSET S, NEW k \in Nat, NEW total \in Nat, Behind(S, xs, k, total)
    PROVE  Behind(S \union {b}, xs, k, total)
<1> SUFFICES ASSUME NEW x \in xs
             PROVE  Rank(S \union {b}, x) >= k + 1 + Cardinality(S \union {b}) - total
  BY DEF Behind
<1>1. Rank(S, x) >= k + 1 + Cardinality(S) - total
  BY DEF Behind
<1>2. Rank(S, x) \in Nat /\ Cardinality(S) \in Nat
  BY RankIs
<1>3. /\ Rank(S \union {b}, x) = Rank(S, x) + 1
      /\ Cardinality(S \union {b}) = Cardinality(S) + 1
  BY RankGrows
<1> QED
  BY <1>1, <1>2, <1>3

LEMMA BehindFalls ==
    ASSUME NEW S \in SUBSET Nat, IsFiniteSet(S), NEW d \in S,
           NEW xs \in SUBSET S, NEW k \in Nat, NEW total \in Nat, Behind(S, xs, k, total)
    PROVE  Behind(S \ {d}, xs \ {d}, k, total)
<1> SUFFICES ASSUME NEW x \in xs \ {d}
             PROVE  Rank(S \ {d}, x) >= k + 1 + Cardinality(S \ {d}) - total
  BY DEF Behind
<1>1. Rank(S, x) >= k + 1 + Cardinality(S) - total
  BY DEF Behind
<1>2. Rank(S, x) \in Nat /\ Cardinality(S) \in Nat
  BY RankIs
<1>3. /\ Rank(S \ {d}, x) \in Nat /\ Rank(S \ {d}, x) >= Rank(S, x) - 1
      /\ Cardinality(S \ {d}) = Cardinality(S) - 1
  <2>1. x \in S \ {d}
    OBVIOUS
  <2> QED
    BY <2>1, RankFalls
<1> QED
  BY <1>1, <1>2, <1>3

LEMMA CloudMoves ==
    ASSUME IInv, plan' = plan, worker' = worker, active' = active, link' = link, reused' = reused,
           EvidenceTyped', CloudTyped',
           \A p \in Plans, m \in Months :
               /\ Judged_(p, m) => evidence'[p][m] = evidence[p][m]
               /\ evidence'[p][m].verified = evidence[p][m].verified
               /\ evidence'[p][m].pages = evidence[p][m].pages
               /\ EvidenceInv(p, m)',
           \A m \in Months : born'[m] >= born[m],
           \A w \in Workers : Holds(w) /\ worker[w].step = "answered" => AnswerInv(w)'
    PROVE  IInv' /\ Stands
<1>1. Stands
  BY DEF Stands
<1>2. ScanTyped' /\ RefsTyped'
  BY DEF IInv, ScanTyped, PlansTyped, RefsTyped, WorkersTyped, TaskTyped
<1>3. \A p \in Plans : PlanInv(p)'
  BY PlanSame DEF IInv, ScanTyped
<1>4. LinksMove
  BY DEF LinksMove
<1>5. \A w \in Workers : WorkerInv(w)'
  <2> TAKE w \in Workers
  <2>1. WorkerInv(w) /\ TaskTyped(w)
    BY DEF IInv, ScanTyped, WorkersTyped
  <2>2. worker[w].step = "viewed" => (Judged_(Base, worker[w].month) /\ ~Unresolved(worker[w].month))'
    <3>1. \A m \in Months : Judged_(Base, m) /\ ~Unresolved(m) => Judged_(Base, m)' /\ ~Unresolved(m)'
      BY <1>1, <1>4, ViewStands DEF IInv, ScanTyped
    <3>2. \A m : m = worker[w].month /\ worker[w].step = "viewed" =>
                     Judged_(Base, m)' /\ ~Unresolved(m)'
      BY <2>1, <3>1 DEF WorkerInv, TaskTyped
    <3> QED
      BY <3>2
  <2>3. Holds(w)' => Holds(w)
    BY DEF Holds, Current
  <2>4. worker[w].step = "answered" => worker[w].reply.listed \subseteq 1..born'[worker[w].month]
    <3> SUFFICES ASSUME worker[w].step = "answered"
                 PROVE  worker[w].reply.listed \subseteq 1..born'[worker[w].month]
      OBVIOUS
    <3> DEFINE m == worker[w].month
    <3>1. m \in Months /\ worker[w].reply.listed \subseteq 1..born[m]
      BY <2>1 DEF TaskTyped, WorkerInv
    <3> HIDE DEF m
    <3>2. born[m] \in Nat /\ born'[m] \in Nat
      <4>1. born[m] \in {0} \union Rides /\ born'[m] \in {0} \union Rides
        BY <3>1 DEF IInv, ScanTyped, CloudTyped
      <4>2. {0} \union Rides \subseteq Nat
        BY RidesAre
      <4> QED
        BY <4>1, <4>2, Zenon
    <3>3. 1..born[m] \subseteq 1..born'[m]
      BY <3>1, <3>2
    <3> QED
      BY <3>1, <3>3 DEF m
  <2> QED
    BY <2>1, <2>2, <2>3, <2>4 DEF WorkerInv
<1>6. RefInv'
  <2>1. ActiveInv' /\ LinkInv' /\ ReuseInv'
    BY <1>1, RefsStand DEF IInv, ScanTyped
  <2>2. GapIsNotReconciled'
    BY <1>1, <1>4, GapsStand DEF IInv, ScanTyped
  <2>3. NoRunIsLost'
    BY DEF NoRunIsLost, IInv, RefInv
  <2> QED
    BY <2>1, <2>2, <2>3 DEF RefInv
<1> QED
  BY <1>1, <1>2, <1>3, <1>5, <1>6 DEF IInv

\* What AnswerInv says of is listed, and its reply has a number.
LEMMA KeptIs ==
    ASSUME IInv, NEW w \in Workers, Holds(w), worker[w].step = "answered"
    PROVE  /\ KeptBy(w) \subseteq cloud[worker[w].month] /\ worker[w].page \in Nat
           /\ worker[w].month \in Months /\ worker[w].plan \in Plans
           /\ evidence[worker[w].plan][worker[w].month].verified = "open"
           /\ worker[w].reply.kind = "good" => worker[w].reply.total \in Nat
           /\ worker[w].reply.listed \subseteq 1..born[worker[w].month]
<1> DEFINE p == worker[w].plan
           m == worker[w].month
<1>1. p \in Plans /\ m \in Months /\ worker[w].page \in Nat \ {0}
      /\ evidence[p][m].verified = "open"
  BY HeldIs
<1>2. evidence[p][m].kept \subseteq cloud[m]
  BY <1>1 DEF IInv, EvidenceInv
<1>3. KeptBy(w) \subseteq cloud[m]
  BY <1>2 DEF KeptBy
<1>4. worker[w].reply.kind = "good" => worker[w].reply.total \in Nat
  BY DEF IInv, ScanTyped, WorkersTyped, TaskTyped, ReplyTyped
<1>5. worker[w].reply.listed \subseteq 1..born[m]
  BY DEF IInv, WorkerInv
<1> QED
  BY <1>1, <1>3, <1>4, <1>5

LEMMA AddedKeeps ==
    ASSUME IInv, NEW m \in Months, RideAdded(m)
    PROVE  IInv' /\ Stands
<1> DEFINE S == cloud[m]
           b == born[m] + 1
<1>1. /\ born[m] < Capacity[m] /\ born' = [born EXCEPT ![m] = b]
      /\ cloud' = [cloud EXCEPT ![m] = S \union {b}]
      /\ plan' = plan /\ evidence' = evidence /\ worker' = worker
      /\ active' = active /\ link' = link /\ reused' = reused
  BY DEF RideAdded, durable
<1>2. /\ S \in SUBSET Nat /\ IsFiniteSet(S) /\ S \in SUBSET Rides /\ S \subseteq 1..born[m]
      /\ born[m] \in Nat
  BY CloudIs DEF IInv, ScanTyped
<1>3. b \in Nat /\ b \in Rides /\ b <= Capacity[m] /\ 1..b = 1..born[m] \union {b}
      /\ \A s \in S : s < b
  <2>1. Capacity[m] \in 0..Cardinality(Rides) /\ Rides = 1..Cardinality(Rides)
        /\ Cardinality(Rides) \in Nat
    BY ScanAssumption, RidesAre DEF Months
  <2> HIDE DEF S
  <2> QED
    BY <1>1, <1>2, <2>1
<1> HIDE DEF S, b
<1>4. /\ born'[m] = b /\ cloud'[m] = S \union {b}
      /\ \A n \in Months : n # m => born'[n] = born[n] /\ cloud'[n] = cloud[n]
      /\ CloudTyped'
  <2>1. born \in [Months -> {0} \union Rides] /\ cloud \in [Months -> SUBSET Rides]
    BY DEF IInv, ScanTyped, CloudTyped
  <2>2. /\ born'[m] = b /\ cloud'[m] = S \union {b}
        /\ \A n \in Months : n # m => born'[n] = born[n] /\ cloud'[n] = cloud[n]
        /\ born' \in [Months -> {0} \union Rides] /\ cloud' \in [Months -> SUBSET Rides]
    BY <1>1, <1>2, <1>3, <2>1
  <2>3. \A n \in Months : born'[n] <= Capacity[n] /\ cloud'[n] \subseteq 1..born'[n]
    BY <1>2, <1>3, <2>2 DEF IInv, ScanTyped, CloudTyped
  <2> QED
    BY <2>2, <2>3 DEF CloudTyped
<1>5. ASSUME NEW n \in Months, NEW xs \in SUBSET cloud[n], NEW k \in Nat, NEW total \in Nat,
             Behind(cloud[n], xs, k, total)
      PROVE  Behind(cloud'[n], xs, k, total)
  <2>1. CASE n = m
    BY <1>2, <1>3, <1>4, <1>5, <2>1, BehindGrows DEF S
  <2>2. CASE n # m
    BY <1>4, <1>5, <2>2
  <2> QED
    BY <2>1, <2>2
<1>6. \A p \in Plans, n \in Months : EvidenceInv(p, n)'
  <2> TAKE p \in Plans, n \in Months
  <2> DEFINE e == evidence[p][n]
  <2>1. EvidenceInv(p, n) /\ e \in Pieces /\ cloud[n] \subseteq cloud'[n]
    BY <1>4 DEF IInv, ScanTyped, EvidenceTyped, S
  <2>2. e.verified = "open" /\ e.pages > 0 => Behind(cloud'[n], e.kept \ e.ids, e.pages, e.total)
    <3> SUFFICES ASSUME e.verified = "open", e.pages > 0
                 PROVE  Behind(cloud'[n], e.kept \ e.ids, e.pages, e.total)
      OBVIOUS
    <3>1. /\ e.kept \ e.ids \in SUBSET cloud[n] /\ e.pages \in Nat /\ e.total \in Nat
          /\ Behind(cloud[n], e.kept \ e.ids, e.pages, e.total)
      BY <2>1 DEF EvidenceInv, Pieces
    <3> HIDE DEF e
    <3> QED
      BY <1>5, <3>1
  <2> QED
    BY <1>1, <2>1, <2>2 DEF EvidenceInv
<1>7. \A w \in Workers : Holds(w) /\ worker[w].step = "answered" => AnswerInv(w)'
  <2> SUFFICES ASSUME NEW w \in Workers, Holds(w), worker[w].step = "answered" PROVE AnswerInv(w)'
    OBVIOUS
  <2> DEFINE r == worker[w].reply
             n == worker[w].month
             e == evidence[worker[w].plan][n]
             kept == KeptBy(w)
  <2>1. /\ kept \subseteq cloud[n] /\ worker[w].page \in Nat /\ n \in Months
        /\ r.kind = "good" => r.total \in Nat
        /\ r.listed \subseteq 1..born[n]
    BY KeptIs
  <2>2. r.listed \cap cloud'[n] = r.listed \cap cloud[n]
    <3> HIDE DEF r, n
    <3>1. CASE n = m
      <4>1. b \notin 1..born[m]
        BY <1>2 DEF b
      <4> QED
        BY <1>4, <2>1, <3>1, <4>1 DEF S
    <3> QED
      BY <1>4, <2>1, <3>1
  <2>3. KeptBy(w)' = kept
    BY <1>1, <2>2 DEF KeptBy
  <2>4. AnswerInv(w)
    BY DEF IInv, WorkerInv
  <2>5. ASSUME r.kind = "good", e.pages > 0 => e.total = r.total
        PROVE  Behind(cloud'[n], kept \ (e.ids \union r.ids), worker[w].page, r.total)
    <3>1. Behind(cloud[n], kept \ (e.ids \union r.ids), worker[w].page, r.total)
      BY <2>4, <2>5 DEF AnswerInv
    <3> HIDE DEF kept, r, e, n
    <3>2. kept \ (e.ids \union r.ids) \in SUBSET cloud[n] /\ r.total \in Nat
      BY <2>1, <2>5
    <3> QED
      BY <1>5, <2>1, <3>1, <3>2
  <2>6. \A x : x = kept => (r.kind = "good" /\ (e.pages > 0 => e.total = r.total) =>
                 Behind(cloud'[n], x \ (e.ids \union r.ids), worker[w].page, r.total))
    BY <2>5
  <2> HIDE DEF kept
  <2> QED
    BY <1>1, <2>3, <2>6 DEF AnswerInv
<1>8. /\ EvidenceTyped' /\ \A n \in Months : born'[n] >= born[n]
      /\ \A p \in Plans, n \in Months : /\ Judged_(p, n) => evidence'[p][n] = evidence[p][n]
                                        /\ evidence'[p][n].verified = evidence[p][n].verified
                                        /\ evidence'[p][n].pages = evidence[p][n].pages
  <2>1. \A n \in Months : born[n] \in Nat
    BY CloudIs DEF IInv, ScanTyped
  <2>2. \A n \in Months : born'[n] >= born[n]
    BY <1>2, <1>4, <2>1 DEF b
  <2> QED
    BY <1>1, <2>2 DEF IInv, ScanTyped, EvidenceTyped
<1> QED
  BY <1>1, <1>4, <1>6, <1>7, <1>8, CloudMoves

LEMMA DeletedKeeps ==
    ASSUME IInv, NEW m \in Months, NEW d \in Rides, RideDeleted(m, d)
    PROVE  IInv' /\ Stands
<1> DEFINE S == cloud[m]
           less(p) == IF evidence[p][m].verified = "open" THEN evidence[p][m].kept \ {d}
                      ELSE evidence[p][m].kept
<1>1. /\ d \in S /\ cloud' = [cloud EXCEPT ![m] = S \ {d}] /\ born' = born
      /\ evidence' = [p \in Plans |-> [evidence[p] EXCEPT ![m].kept =
             IF evidence[p][m].verified = "open" THEN @ \ {d} ELSE @]]
      /\ plan' = plan /\ worker' = worker /\ active' = active /\ link' = link /\ reused' = reused
  BY DEF RideDeleted
<1>2. S \in SUBSET Nat /\ IsFiniteSet(S) /\ S \in SUBSET Rides /\ S \subseteq 1..born[m]
  BY CloudIs DEF IInv, ScanTyped
<1>3. /\ cloud'[m] = S \ {d} /\ \A n \in Months : n # m => cloud'[n] = cloud[n]
      /\ CloudTyped'
  <2> HIDE DEF S
  <2>1. cloud \in [Months -> SUBSET Rides]
    BY DEF IInv, ScanTyped, CloudTyped
  <2>2. /\ cloud'[m] = S \ {d} /\ \A n \in Months : n # m => cloud'[n] = cloud[n]
        /\ cloud' \in [Months -> SUBSET Rides]
    BY <1>1, <1>2, <2>1
  <2>3. \A n \in Months : cloud'[n] \subseteq cloud[n]
    BY <2>2 DEF S
  <2> QED
    BY <1>1, <2>2, <2>3 DEF IInv, ScanTyped, CloudTyped
<1>4. \A p \in Plans :
          /\ evidence'[p] = [evidence[p] EXCEPT ![m] = [evidence[p][m] EXCEPT !.kept = less(p)]]
          /\ less(p) \in SUBSET Rides
  <2> TAKE p \in Plans
  <2>1. evidence[p] \in [Months -> Pieces]
    BY DEF IInv, ScanTyped, EvidenceTyped
  <2>2. less(p) \in SUBSET Rides
    BY <2>1 DEF Pieces
  <2> QED
    BY <1>1, <2>1, <2>2
<1> HIDE DEF S, less
<1>5. ASSUME NEW p \in Plans
      PROVE  LET e == evidence[p][m]  f == evidence'[p][m] IN
             /\ \A n \in Months : n # m => evidence'[p][n] = evidence[p][n]
             /\ f \in Pieces /\ evidence'[p] \in [Months -> Pieces]
             /\ f.pages = e.pages /\ f.ids = e.ids /\ f.total = e.total /\ f.verified = e.verified
             /\ f.kept = (IF e.verified = "open" THEN e.kept \ {d} ELSE e.kept)
             /\ e.verified # "open" => f = e
  <2> DEFINE e == evidence[p][m]
             f == [e EXCEPT !.kept = less(p)]
  <2>1. evidence[p] \in [Months -> Pieces] /\ e \in Pieces
    BY DEF IInv, ScanTyped, EvidenceTyped
  <2>2. evidence'[p] = [evidence[p] EXCEPT ![m] = f] /\ less(p) \in SUBSET Rides
    BY <1>4
  <2>3. less(p) = (IF e.verified = "open" THEN e.kept \ {d} ELSE e.kept)
    BY DEF less
  <2>4. /\ f \in Pieces /\ f.pages = e.pages /\ f.ids = e.ids /\ f.total = e.total
        /\ f.verified = e.verified /\ f.later = e.later /\ f.kept = less(p)
    BY <2>1, <2>2 DEF Pieces
  <2>5. e.verified # "open" => f = e
    <3> HIDE DEF e
    <3> QED
      BY <2>1, <2>3 DEF Pieces
  <2> HIDE DEF f
  <2>6. /\ evidence'[p][m] = f /\ evidence'[p] \in [Months -> Pieces]
        /\ \A n \in Months : n # m => evidence'[p][n] = evidence[p][n]
    BY <2>1, <2>2, <2>4
  <2> QED
    BY <2>3, <2>4, <2>5, <2>6
<1>6. EvidenceTyped'
  <2>1. \A p \in Plans : evidence'[p] \in [Months -> Pieces]
    BY <1>5
  <2>2. DOMAIN evidence' = Plans /\ evidence' = [p \in Plans |-> evidence'[p]]
    BY <1>1
  <2> HIDE DEF Pieces
  <2> QED
    BY <2>1, <2>2 DEF EvidenceTyped
<1>7. ASSUME NEW n \in Months, NEW xs \in SUBSET cloud[n], NEW k \in Nat, NEW total \in Nat,
             Behind(cloud[n], xs, k, total)
      PROVE  Behind(cloud'[n], IF n = m THEN xs \ {d} ELSE xs, k, total)
  <2>1. CASE n = m
    BY <1>1, <1>2, <1>3, <1>7, <2>1, BehindFalls DEF S
  <2>2. CASE n # m
    BY <1>3, <1>7, <2>2
  <2> QED
    BY <2>1, <2>2
<1>8. \A p \in Plans, n \in Months : EvidenceInv(p, n)'
  <2> TAKE p \in Plans, n \in Months
  <2>1. CASE n # m
    <3>1. evidence'[p][n] = evidence[p][n] /\ cloud'[n] = cloud[n] /\ EvidenceInv(p, n)
      BY <1>3, <1>5, <2>1 DEF IInv
    <3> QED
      BY <3>1 DEF EvidenceInv
  <2>2. CASE n = m
    <3> DEFINE e == evidence[p][m]
               f == evidence'[p][m]
    <3>1. EvidenceInv(p, m) /\ e \in Pieces
      BY DEF IInv, ScanTyped, EvidenceTyped
    <3>2. /\ f.pages = e.pages /\ f.ids = e.ids /\ f.total = e.total /\ f.verified = e.verified
          /\ f.kept = (IF e.verified = "open" THEN e.kept \ {d} ELSE e.kept)
          /\ e.verified # "open" => f = e
      BY <1>5
    <3> HIDE DEF f
    <3>3. f.verified = "open" => f.kept \subseteq cloud'[m]
      BY <1>3, <3>1, <3>2 DEF EvidenceInv, S
    <3>4. f.verified = "open" /\ f.pages > 0 =>
              f.total \in Nat /\ Behind(cloud'[m], f.kept \ f.ids, f.pages, f.total)
      <4> SUFFICES ASSUME e.verified = "open", e.pages > 0
                   PROVE  e.total \in Nat /\ Behind(cloud'[m], (e.kept \ {d}) \ e.ids, e.pages, e.total)
        BY <3>2
      <4>1. /\ e.kept \ e.ids \in SUBSET cloud[m] /\ e.pages \in Nat /\ e.total \in Nat
            /\ Behind(cloud[m], e.kept \ e.ids, e.pages, e.total)
        BY <3>1 DEF EvidenceInv, Pieces
      <4> HIDE DEF e
      <4>2. Behind(cloud'[m], (e.kept \ e.ids) \ {d}, e.pages, e.total)
        BY <1>7, <4>1
      <4>3. (e.kept \ e.ids) \ {d} = (e.kept \ {d}) \ e.ids
        OBVIOUS
      <4> QED
        BY <4>1, <4>2, <4>3
    <3>5. f.pages = 0 => f.ids = {} /\ f.kept = {} /\ f.verified = "open"
      BY <3>1, <3>2 DEF EvidenceInv
    <3>6. /\ Cardinality(f.ids) <= f.pages
          /\ f.verified = "yes" => f.total = Cardinality(f.ids) /\ f.kept \subseteq f.ids
      BY <3>1, <3>2 DEF EvidenceInv
    <3> QED
      BY <2>2, <3>3, <3>4, <3>5, <3>6 DEF EvidenceInv, f
  <2> QED
    BY <2>1, <2>2
<1>9. \A w \in Workers : Holds(w) /\ worker[w].step = "answered" => AnswerInv(w)'
  <2> SUFFICES ASSUME NEW w \in Workers, Holds(w), worker[w].step = "answered" PROVE AnswerInv(w)'
    OBVIOUS
  <2> DEFINE r == worker[w].reply
             n == worker[w].month
             p == worker[w].plan
             e == evidence[p][n]
             kept == KeptBy(w)
             left == IF n = m THEN kept \ {d} ELSE kept
  <2>1. /\ kept \subseteq cloud[n] /\ worker[w].page \in Nat /\ n \in Months /\ p \in Plans
        /\ e.verified = "open"
        /\ r.kind = "good" => r.total \in Nat
    BY KeptIs
  <2>2. KeptBy(w)' = left
    <3>1. kept = IF worker[w].page = 1 THEN r.listed \cap cloud[n] ELSE e.kept
      BY DEF KeptBy
    <3>2. KeptBy(w)' = IF worker[w].page = 1 THEN r.listed \cap cloud'[n] ELSE evidence'[p][n].kept
      BY <1>1 DEF KeptBy
    <3> HIDE DEF kept, r
    <3>3. evidence'[p][n].kept = IF n = m THEN e.kept \ {d} ELSE e.kept
      BY <1>5, <2>1
    <3> HIDE DEF e, n, p
    <3>4. cloud'[n] = IF n = m THEN cloud[n] \ {d} ELSE cloud[n]
      BY <1>3, <2>1 DEF S
    <3> QED
      BY <3>1, <3>2, <3>3, <3>4
  <2>3. AnswerInv(w)
    BY DEF IInv, WorkerInv
  <2>4. evidence'[p][n].pages = e.pages /\ evidence'[p][n].ids = e.ids /\ evidence'[p][n].total = e.total
    BY <1>5, <2>1
  <2>5. ASSUME r.kind = "good", e.pages > 0 => e.total = r.total
        PROVE  Behind(cloud'[n], left \ (e.ids \union r.ids), worker[w].page, r.total)
    <3> DEFINE xs == kept \ (e.ids \union r.ids)
    <3>1. Behind(cloud[n], xs, worker[w].page, r.total)
      BY <2>3, <2>5 DEF AnswerInv
    <3>2. (IF n = m THEN xs \ {d} ELSE xs) = left \ (e.ids \union r.ids)
      <4> HIDE DEF kept, r, e, n
      <4> QED
        OBVIOUS
    <3>3. xs \in SUBSET cloud[n] /\ r.total \in Nat
      BY <2>1, <2>5
    <3> HIDE DEF xs, left, kept, r, e, n
    <3>4. Behind(cloud'[n], IF n = m THEN xs \ {d} ELSE xs, worker[w].page, r.total)
      BY <1>7, <2>1, <3>1, <3>3
    <3> QED
      BY <3>2, <3>4
  <2> HIDE DEF kept, left
  <2> QED
    BY <1>1, <2>2, <2>4, <2>5 DEF AnswerInv
<1>10. /\ \A n \in Months : born'[n] >= born[n]
       /\ \A p \in Plans, n \in Months : /\ Judged_(p, n) => evidence'[p][n] = evidence[p][n]
                                         /\ evidence'[p][n].verified = evidence[p][n].verified
                                         /\ evidence'[p][n].pages = evidence[p][n].pages
  <2>1. \A n \in Months : born[n] \in Nat
    BY CloudIs DEF IInv, ScanTyped
  <2>2. \A n \in Months : born'[n] >= born[n]
    BY <1>1, <2>1
  <2>3. \A p \in Plans, n \in Months : /\ Judged_(p, n) => evidence'[p][n] = evidence[p][n]
                                       /\ evidence'[p][n].verified = evidence[p][n].verified
                                       /\ evidence'[p][n].pages = evidence[p][n].pages
    BY <1>5 DEF Judged_
  <2> QED
    BY <2>2, <2>3
<1> QED
  BY <1>1, <1>3, <1>6, <1>8, <1>9, <1>10, CloudMoves

-----------------------------------------------------------------------------
\* The invariant.

LEMMA Start == Init => IInv
<1> SUFFICES ASSUME Init PROVE IInv
  OBVIOUS
<1> USE DEF Init
<1>1. /\ plan[Base] = Created(1, Newest) /\ \A p \in Plans : p # Base => plan[p] = NoPlan
      /\ \A p \in Plans, m \in Months : evidence[p][m] = NoEvidence
      /\ \A w \in Workers : worker[w] = Idle
  BY Apart
<1>2. Created(1, Newest) \in PlanRecords /\ NoPlan \in PlanRecords
  BY Apart DEF Created, NoPlan, PlanRecords, States, Discovering
<1>3. NoEvidence \in Pieces
  BY DEF NoEvidence, Pieces, Verdicts
<1>4. PlansTyped /\ EvidenceTyped /\ RefsTyped
  <2> HIDE DEF Created, NoPlan, NoEvidence, PlanRecords, Pieces
  <2> QED
    BY <1>2, <1>3 DEF PlansTyped, EvidenceTyped, RefsTyped
<1>5. WorkersTyped
  BY <1>1 DEF WorkersTyped, TaskTyped, Idle
<1>6. CloudTyped
  <2>1. \A m \in Months : born[m] \in {0} \union Rides /\ cloud[m] = 1..born[m]
    OBVIOUS
  <2>2. \A m \in Months : cloud[m] \in SUBSET Rides
    <3> TAKE m \in Months
    <3>1. Rides = 1..Cardinality(Rides) /\ Cardinality(Rides) \in Nat
      BY ScanAssumption, RidesAre
    <3> QED
      BY <2>1, <3>1
  <2>3. cloud \in [Months -> SUBSET Rides]
    BY <2>2
  <2> QED
    BY <2>1, <2>3 DEF CloudTyped
<1>7. \A p \in Plans : PlanInv(p)
  <2> TAKE p \in Plans
  <2>1. CASE p = Base
    BY <1>1, <2>1, Apart DEF PlanInv, CheckpointAgrees, Created, NoEvidence, Discovering, Discovered
  <2>2. CASE p # Base
    BY <1>1, <2>2 DEF PlanInv, NoPlan, NoEvidence
  <2> QED
    BY <2>1, <2>2
<1>8. \A p \in Plans, m \in Months : EvidenceInv(p, m)
  <2> TAKE p \in Plans, m \in Months
  <2>1. evidence[p][m] = NoEvidence
    BY <1>1
  <2>2. Cardinality({}) = 0 /\ 0 <= 0
    BY FS_EmptySet
  <2>3. /\ evidence[p][m].pages = 0 /\ evidence[p][m].ids = {} /\ evidence[p][m].kept = {}
        /\ evidence[p][m].verified = "open"
    BY <2>1 DEF NoEvidence
  <2> HIDE DEF Init
  <2>4. Cardinality(evidence[p][m].ids) <= evidence[p][m].pages
    BY <2>2, <2>3
  <2>5. ~(evidence[p][m].pages > 0)
    BY <2>3
  <2> QED
    BY <2>3, <2>4, <2>5 DEF EvidenceInv
<1>9. \A w \in Workers : WorkerInv(w)
  BY <1>1 DEF WorkerInv, Idle, Holds
<1>10. RefInv
  <2>1. \A m \in Months : active[m] = None /\ link[m] = None /\ reused[m] = None
    OBVIOUS
  <2>2. \A q \in Runs : plan[q].state \notin Discovering
    BY <1>1, Apart DEF NoPlan, Discovering
  <2> QED
    BY <2>1, <2>2 DEF RefInv, ActiveInv, LinkInv, ReuseInv, NoRunIsLost, GapIsNotReconciled
<1> QED
  BY <1>4, <1>5, <1>6, <1>7, <1>8, <1>9, <1>10 DEF IInv, ScanTyped

LEMMA Step == IInv /\ [Next]_vars => IInv' /\ Stands
<1> SUFFICES ASSUME IInv, [Next]_vars PROVE IInv' /\ Stands
  OBVIOUS
<1>1. ASSUME NEW m \in Months, NEW r \in Runs, ForceMonth(m, r) \/ SeedGap(m, r)
      PROVE  IInv' /\ Stands
  BY <1>1, RunsKeep
<1>2. ASSUME NEW w \in Workers, NEW p \in Plans, Claim(w, p) PROVE IInv' /\ Stands
  BY <1>2, ClaimKeeps
<1>3. ASSUME NEW w \in Workers,
             \/ Respond(w) \/ Malformed(w) \/ Accept(w) \/ Refused(w) \/ Wait(w)
             \/ Vanish(w) \/ Reconciled(w) \/ ReconcileSkips(w)
      PROVE  IInv' /\ Stands
  BY <1>3, WorkersKeep, AcceptKeeps, WaitKeeps, ReconciledKeeps
<1>4. ASSUME NEW w \in Workers, NEW r \in Runs, Reconcile(w, r) PROVE IInv' /\ Stands
  BY <1>4, ReconcileKeeps
<1>5. ASSUME NEW w \in Workers, NEW m \in Months, View(w, m) PROVE IInv' /\ Stands
  BY <1>5, ViewKeeps
<1>6. ASSUME NEW m \in Months, Reuse(m) \/ Observe(m) \/ RideAdded(m) PROVE IInv' /\ Stands
  BY <1>6, ReuseKeeps, AddedKeeps, OthersKeep
<1>7. ASSUME NEW m \in Months, NEW r \in Rides, RideDeleted(m, r) PROVE IInv' /\ Stands
  BY <1>7, DeletedKeeps
<1>8. ASSUME NEW p \in Plans, Finish(p) PROVE IInv' /\ Stands
  BY <1>8, FinishKeeps
<1>9. CASE Pause \/ PauseSeen \/ Resume \/ UNCHANGED vars
  BY <1>9, OthersKeep
<1> QED
  BY <1>1, <1>2, <1>3, <1>4, <1>5, <1>6, <1>7, <1>8, <1>9 DEF Next

LEMMA Holding == Spec => []IInv
<1>1. IInv /\ [Next]_vars => IInv'
  BY Step
<1> QED
  BY Start, <1>1, PTL DEF Spec

\* What the pause holds back, action by action.
LEMMA Freezes ==
    ASSUME IInv, [Next]_vars
    PROVE  /\ paused # "no" /\ paused' # "no" =>
                 /\ <<link, reused>>' = <<link, reused>>
                 /\ \A p \in Plans, m \in Months : evidence'[p][m].pages = evidence[p][m].pages
           /\ paused = "yes" /\ paused' = "yes" => <<plan, active>>' = <<plan, active>>
<1> DEFINE Frozen == /\ paused # "no" => <<link, reused, evidence>>' = <<link, reused, evidence>>
                     /\ paused = "yes" => <<plan, active>>' = <<plan, active>>
<1>1. ASSUME NEW m \in Months, NEW d \in Rides, RideDeleted(m, d)
      PROVE  /\ <<link, reused, plan, active>>' = <<link, reused, plan, active>>
             /\ \A p \in Plans, n \in Months : evidence'[p][n].pages = evidence[p][n].pages
  <2>1. \A p \in Plans : evidence[p] \in [Months -> Pieces]
    BY DEF IInv, ScanTyped, EvidenceTyped
  <2>2. \A p \in Plans, n \in Months : evidence'[p][n].pages = evidence[p][n].pages
    BY <1>1, <2>1 DEF RideDeleted, Pieces
  <2> QED
    BY <1>1, <2>2 DEF RideDeleted
<1>2. ASSUME NEW m \in Months, NEW r \in Runs, ForceMonth(m, r) \/ SeedGap(m, r) PROVE Frozen
  BY <1>2 DEF ForceMonth, SeedGap, Unguarded, Unpaused
<1>3. ASSUME NEW w \in Workers, NEW p \in Plans, Claim(w, p) PROVE Frozen
  BY <1>3 DEF Claim, Unguarded
<1>4. ASSUME NEW w \in Workers,
             \/ Respond(w) \/ Malformed(w) \/ Accept(w) \/ Refused(w) \/ Wait(w)
             \/ Vanish(w) \/ Reconciled(w) \/ ReconcileSkips(w)
      PROVE  Frozen
  BY <1>4 DEF Respond, Malformed, Accept, Admitted, Refused, Wait, Vanish, Reconciled,
              ReconcileSkips, Unguarded, Unpaused, durable
<1>5. ASSUME NEW w \in Workers, NEW r \in Runs, Reconcile(w, r) PROVE Frozen
  BY <1>5 DEF Reconcile, Unguarded
<1>6. ASSUME NEW w \in Workers, NEW m \in Months, View(w, m) PROVE Frozen
  BY <1>6 DEF View, durable
<1>7. ASSUME NEW m \in Months, Reuse(m) \/ Observe(m) \/ RideAdded(m) PROVE Frozen
  BY <1>7 DEF Reuse, Observe, RideAdded, Unpaused, durable
<1>8. ASSUME NEW p \in Plans, Finish(p) PROVE Frozen
  BY <1>8 DEF Finish, Unguarded
<1>9. ASSUME Pause \/ PauseSeen \/ Resume \/ UNCHANGED vars PROVE Frozen
  BY <1>9 DEF Pause, PauseSeen, Resume, vars, durable
<1>10. Frozen \/ \E m \in Months, d \in Rides : RideDeleted(m, d)
  <2> HIDE DEF Frozen
  <2> QED
    BY <1>2, <1>3, <1>4, <1>5, <1>6, <1>7, <1>8, <1>9 DEF Next
<1> QED
  BY <1>1, <1>10

-----------------------------------------------------------------------------
\* The theorems.

\* Whatever was interrupted, the archive of a discovery opens again: checkpoints, pages,
\* verdicts, pointers and reused months agree as history_store.check, restored,
\* gap_recovery.validate and history_reuse.check demand of every archive they read.
THEOREM ArchivesOpen == Spec => []ArchiveOpens
<1>1. IInv => ArchiveOpens
  <2> SUFFICES ASSUME IInv PROVE ArchiveOpens
    OBVIOUS
  <2>1. \A p \in Plans : plan[p].state # "absent" => CheckpointAgrees(p)
    BY DEF IInv, PlanInv
  <2>2. \A p \in Plans, m \in Months :
            evidence[p][m].verified = "yes" => evidence[p][m].total = Cardinality(evidence[p][m].ids)
    BY DEF IInv, EvidenceInv
  <2> QED
    BY <2>1, <2>2 DEF ArchiveOpens, IInv, RefInv, ActiveInv, LinkInv, ReuseInv
<1> QED
  BY <1>1, Holding, PTL

\* A month that a plan counts as verified holds every ride that the cloud listed from the first
\* page of its enumeration to the last (history_plan.accept_page), for every history of rides
\* that are added and deleted between the pages and of workers that take turns on them.
THEOREM NothingIsMissed == Spec => []VerifiedMissesNothing
<1>1. IInv => VerifiedMissesNothing
  BY DEF IInv, EvidenceInv, VerifiedMissesNothing
<1> QED
  BY <1>1, Holding, PTL

\* No run that still discovers is left without the month that leads to it (history_store.active),
\* and none that a gap waits for is closed by the reconciliation (incremental_sync.async_seed).
THEOREM RunsStay == Spec => []RunsAreKept
<1>1. IInv => RunsAreKept
  BY DEF IInv, RefInv, RunsAreKept
<1> QED
  BY <1>1, Holding, PTL

\* A verdict and its pages never change again, whatever late answers and further enumerations
\* follow, and nothing of a discovery moves while the owner's pause is in force.
THEOREM CheckpointsHold == Spec => CheckpointsStand
<1>1. IInv /\ [Next]_vars =>
          [\A p \in Plans, m \in Months :
               evidence[p][m].verified # "open" => evidence'[p][m] = evidence[p][m]]_evidence
  BY Step DEF Stands, Judged_
<1>2. IInv /\ [Next]_vars =>
          [/\ paused # "no" /\ paused' # "no" =>
                  /\ <<link, reused>>' = <<link, reused>>
                  /\ \A p \in Plans, m \in Months : evidence'[p][m].pages = evidence[p][m].pages
           /\ paused = "yes" /\ paused' = "yes" => <<plan, active>>' = <<plan, active>>]_vars
  BY Freezes
<1> QED
  BY <1>1, <1>2, Holding, PTL DEF Spec, CheckpointsStand, VerdictsAreFinal, PauseFreezesCheckpoints

=============================================================================
