--------------------------- MODULE RecordsProofs ---------------------------
(***************************************************************************)
(* What an account's records say is so, for any number of rows, payloads,  *)
(* vehicles, writes, crashes and failures.                                 *)
(*                                                                         *)
(* The journal of the entity IDs is believed because a row's name changes  *)
(* in one place only, after its plan was saved.  The certificates of the   *)
(* check of stored payloads are believed because the counters of the       *)
(* archive tell whether the rows behind a scan's place are still the ones  *)
(* it walked over.                                                         *)
(***************************************************************************)
EXTENDS MCRecords, FiniteSetTheorems, WellFoundedInduction, TLAPS

\* A set of natural numbers has a least element.
LEMMA Least ==
    ASSUME NEW T \in SUBSET Nat, T # {}
    PROVE  \E x \in T : \A y \in T : x <= y
<1>1. PICK x \in T : \A y \in T : ~(<<y, x>> \in OpToRel(<, Nat))
  BY NatLessThanWellFounded, WFMin, Zenon
<1>2. \A y \in T : ~(y < x)
  BY <1>1 DEF OpToRel
<1> QED
  BY <1>2

\* A finite one has a greatest.
LEMMA Greatest ==
    ASSUME NEW T \in SUBSET Nat, IsFiniteSet(T), T # {}
    PROVE  \E x \in T : \A y \in T : y <= x
<1> DEFINE none(S) == \A x \in S : \E y \in S : ~(y <= x)
           bad == {n \in Nat : \E S \in SUBSET Nat :
                      IsFiniteSet(S) /\ S # {} /\ Cardinality(S) = n /\ none(S)}
<1>1. SUFFICES bad = {}
  BY FS_CardinalityType
<1>2. SUFFICES ASSUME bad # {} PROVE FALSE
  OBVIOUS
<1>3. PICK n \in bad : \A m \in bad : n <= m
  BY <1>2, Least
<1>4. PICK S \in SUBSET Nat : IsFiniteSet(S) /\ S # {} /\ Cardinality(S) = n /\ none(S)
  BY <1>3
<1>5. PICK x \in S : TRUE
  BY <1>4
<1> DEFINE R == S \ {x}
<1>6. IsFiniteSet(R) /\ Cardinality(R) = n - 1 /\ n - 1 \in Nat
  <2>1. IsFiniteSet(R) /\ Cardinality(R) = n - 1
    BY <1>4, <1>5, FS_RemoveElement
  <2> QED
    BY <2>1, FS_CardinalityType
<1>7. R # {}
  BY <1>4, <1>5
<1>8. ~none(R)
  BY <1>3, <1>6, <1>7
<1>9. PICK y \in R : \A z \in R : z <= y
  BY <1>8
<1> QED
  BY <1>4, <1>5, <1>9

-----------------------------------------------------------------------------
(***************************************************************************)
(* The entity IDs.                                                         *)
(***************************************************************************)
AllNames == {Original[r] : r \in Rows} \union {Canonical[r] : r \in Rows} \union OwnNames
Entries == [name : AllNames, at : Nat, by : {"core", "us", "owner", "late"}]
PlanStates == {"none", "unchanged", "conflict", "planned", "protected", "renamed"}
PlanReasons == {"none", "canonical", "occupied", "forced", "changed", "recovered", "renamed"}
Plans == [status : PlanStates, reason : PlanReasons, old : AllNames \union {"none"},
          new : AllNames \union {"none"}, before : Nat]
Phases == {"off", "plan", "rename", "lock", "convert", "idle", "failed"} \union DOMAIN AfterSave

LockPlans == [status : {"none", "planned", "converted", "conflict", "removed"}, before : Nat]
LockRecords == [old : Nat, new : BOOLEAN, oldWritten : Nat, newWritten : BOOLEAN,
          plan : LockPlans, journal : LockPlans]

IdTypes ==
    /\ registry \in [Rows -> Entries] /\ written \in [Rows -> Entries]
    /\ plans \in [Rows -> Plans] /\ file \in [Rows -> Plans]
    /\ clock \in Nat /\ pass \in [pc : Phases, about : SUBSET Rows] /\ lock \in LockRecords

\* A row the owner has left alone has the name it came with, or its canonical one.
Ours(r, e) ==
    /\ e.by = "us" => e.name = Canonical[r]
    /\ r \notin touched => e = [name |-> Original[r], at |-> 0, by |-> "core"] \/ e.by = "us"

\* A plan is about the canonical name; a live one was made from the name the row came with.
Meant(r, p) ==
    /\ p.status # "none" => p.new = Canonical[r]
    /\ r \notin touched /\ p.status \in {"planned", "renamed"} =>
          p.old = Original[r] /\ p.before = 0

\* The steps of a pass after its renames.
PastRenames == {"record", "lock", "intendLock", "convert", "recordLock", "idle"}

\* What the journal in memory and its file have announced.
Announced(r) ==
    /\ plans[r].status = "renamed" => file[r].status # "none"
    /\ pass.pc = "rename" /\ plans[r].status = "planned" => file[r].status # "none"
    /\ pass.pc # "off" /\ file[r].status # "none" => plans[r].status # "none"
    /\ registry[r].by = "us" \/ written[r].by = "us" => file[r].status # "none"

Stands(r) ==
    pass.pc \in PastRenames /\ r \notin touched /\ plans[r].status = "renamed"
        => registry[r].name = Canonical[r]

LockStands ==
    pass.pc \in {"recordLock", "idle"} /\ 0 \notin touched /\ lock.plan.status = "converted"
        => lock.new

IdInv ==
    /\ IdTypes
    /\ \A r \in Rows :
          /\ Ours(r, registry[r]) /\ Ours(r, written[r])
          /\ Meant(r, plans[r]) /\ Meant(r, file[r])
          /\ Announced(r) /\ Stands(r)
    /\ LockStands
    /\ stops \in Nat

\* What becomes of a row that is due, whatever names are in use.
LEMMA OutcomeIs ==
    ASSUME IdInv, NEW r \in Rows, Due(r), NEW T
    PROVE  LET p == Outcome(r, T) IN
           /\ p \in Plans /\ p.new = Canonical[r] /\ plans[r].new = Canonical[r]
           /\ p.old = plans[r].old /\ p.before = plans[r].before
           /\ p.status \in {"protected", "conflict", "renamed"}
           /\ p.status = "renamed" => p.reason = "renamed" \/ registry[r].name = Canonical[r]
           /\ p.reason = "renamed" =>
                 /\ p.status = "renamed" /\ registry[r].at = plans[r].before
                 /\ registry[r].name = plans[r].old
<1> DEFINE q == plans[r]
<1>1. q \in Plans /\ q.status \in {"planned", "renamed"}
  BY DEF IdInv, IdTypes, Due, Lost
<1>2. q.new = Canonical[r]
  BY <1>1 DEF IdInv, Meant
<1> DEFINE make(st, re) == [q EXCEPT !.status = st, !.reason = re]
<1>3. ASSUME NEW st \in PlanStates, NEW re \in PlanReasons
      PROVE  /\ make(st, re) \in Plans /\ make(st, re).new = q.new
             /\ make(st, re).old = q.old /\ make(st, re).before = q.before
             /\ make(st, re).status = st /\ make(st, re).reason = re
  BY <1>1 DEF Plans
<1>4. \/ Outcome(r, T) = make("protected", "changed")
      \/ Outcome(r, T) = make("renamed", "recovered") /\ registry[r].name = q.new
      \/ Outcome(r, T) = make("conflict", "occupied")
      \/ Outcome(r, T) = make("renamed", "renamed") /\ Unmoved(r, q) /\ registry[r].name # q.new
  BY DEF Outcome
<1> HIDE DEF make
<1>5. /\ {"protected", "renamed", "conflict"} \subseteq PlanStates
      /\ {"changed", "recovered", "occupied", "renamed"} \subseteq PlanReasons
  BY DEF PlanStates, PlanReasons
<1>6. CASE Outcome(r, T) = make("protected", "changed")
  BY <1>2, <1>3, <1>5, <1>6
<1>7. CASE Outcome(r, T) = make("renamed", "recovered") /\ registry[r].name = q.new
  BY <1>2, <1>3, <1>5, <1>7
<1>8. CASE Outcome(r, T) = make("conflict", "occupied")
  BY <1>2, <1>3, <1>5, <1>8
<1>9. CASE Outcome(r, T) = make("renamed", "renamed") /\ Unmoved(r, q) /\ registry[r].name # q.new
  BY <1>2, <1>3, <1>5, <1>9 DEF Unmoved
<1> QED
  BY <1>4, <1>6, <1>7, <1>8, <1>9

-----------------------------------------------------------------------------
\* The rows one after the other.
IsAfter(f, n) ==
    f = [k \in 0..n |-> IF k = 0 THEN [registry |-> registry, plans |-> plans]
                        ELSE RenamedRow(f[k - 1], k)]

LEMMA AfterExists ==
    ASSUME NEW n \in Nat PROVE \E f : IsAfter(f, n)
<1> DEFINE start == [registry |-> registry, plans |-> plans]
           bad == {k \in Nat : ~\E f : IsAfter(f, k)}
<1>1. SUFFICES ASSUME bad # {} PROVE FALSE
  OBVIOUS
<1>2. PICK k \in bad : \A j \in bad : k <= j
  BY <1>1, Least
<1>3. CASE k = 0
  <2>1. IsAfter([m \in 0..0 |-> start], 0)
    BY DEF IsAfter
  <2> QED
    BY <1>3, <2>1
<1>4. CASE k # 0
  <2>1. k - 1 \in Nat /\ k - 1 \notin bad
    BY <1>2, <1>4
  <2>2. PICK f : IsAfter(f, k - 1)
    BY <2>1
  <2> DEFINE g == [m \in 0..k |-> IF m = k THEN RenamedRow(f[k - 1], k) ELSE f[m]]
             G(h, m) == IF m = 0 THEN start ELSE RenamedRow(h[m - 1], m)
  <2>3. \A m \in 0..k : g[m] = IF m = k THEN RenamedRow(f[k - 1], k) ELSE f[m]
    OBVIOUS
  <2>4. \A m \in 0..(k - 1) : f[m] = G(f, m)
    BY <2>2 DEF IsAfter
  <2> HIDE DEF g, start
  <2>5. ASSUME NEW m \in 0..k PROVE g[m] = G(g, m)
    <3>1. CASE m = 0
      <4>1. 0 \in 0..(k - 1) /\ f[0] = start
        BY <1>4, <2>1, <2>4
      <4> QED
        BY <1>4, <2>3, <3>1, <4>1
    <3>2. CASE m # 0
      <4>1. m - 1 \in 0..(k - 1) /\ m - 1 \in 0..k /\ m - 1 # k
        BY <3>2
      <4>2. g[m - 1] = f[m - 1]
        BY <2>3, <4>1
      <4>3. CASE m = k
        BY <2>3, <3>2, <4>2, <4>3
      <4>4. CASE m # k
        <5>1. m \in 0..(k - 1)
          BY <4>4
        <5>2. g[m] = f[m] /\ f[m] = G(f, m)
          BY <2>3, <2>4, <4>4, <5>1
        <5> QED
          BY <3>2, <4>2, <5>2
      <4> QED
        BY <4>3, <4>4
    <3> QED
      BY <3>1, <3>2
  <2>6. g = [m \in 0..k |-> g[m]]
    BY DEF g
  <2>7. g = [m \in 0..k |-> G(g, m)]
    BY <2>5, <2>6
  <2>8. IsAfter(g, k)
    BY <2>7 DEF IsAfter, start
  <2> QED
    BY <2>8
<1> QED
  BY <1>3, <1>4

LEMMA RowsAreNumbers ==
    ASSUME IdentityAssumption
    PROVE  LastRowOf \in Nat /\ Rows \subseteq 1..LastRowOf
<1>1. /\ Rows \union {0} \in SUBSET Nat /\ Rows \union {0} # {}
      /\ IsFiniteSet(Rows \union {0})
  BY FS_AddElement DEF IdentityAssumption
<1>2. PICK n \in Rows \union {0} : \A m \in Rows \union {0} : m <= n
  BY <1>1, Greatest
<1>3. LastRowOf \in Rows \union {0} /\ \A m \in Rows : m <= LastRowOf
  BY <1>2 DEF LastRowOf
<1> QED
  BY <1>3 DEF IdentityAssumption

LEMMA RenamedIs ==
    ASSUME IdentityAssumption
    PROVE  \E f : IsAfter(f, LastRowOf) /\ Renamed = f[LastRowOf]
<1>1. \E f : IsAfter(f, LastRowOf)
  BY AfterExists, RowsAreNumbers
<1> QED
  BY <1>1 DEF Renamed, IsAfter

\* A row as the renames have left it so far: untouched, or once dealt with.
Same(s, r) == s.registry[r] = registry[r] /\ s.plans[r] = plans[r]
Dealt(s, r) ==
    \E T : LET p == Outcome(r, T) IN
       /\ s.plans[r] = p
       /\ s.registry[r] = IF p.reason # "renamed" THEN registry[r]
                          ELSE [name |-> p.new, at |-> clock + 1, by |-> "us"]

UpTo(s, k) ==
    /\ s.registry \in [Rows -> Entries] /\ s.plans \in [Rows -> Plans]
    /\ \A r \in Rows : IF r <= k /\ Due(r) THEN Dealt(s, r) ELSE Same(s, r)

LEMMA OneRow ==
    ASSUME IdInv, IdentityAssumption, NEW k \in Nat \ {0}, NEW s, UpTo(s, k - 1)
    PROVE  UpTo(RenamedRow(s, k), k)
<1> DEFINE p == Outcome(k, Names(s.registry))
           new == [name |-> p.new, at |-> clock + 1, by |-> "us"]
           t == RenamedRow(s, k)
<1>1. Rows \subseteq Nat
  BY DEF IdentityAssumption
<1>2. CASE k \notin Rows \/ ~Due(k)
  <2>1. t = s
    BY <1>2 DEF RenamedRow
  <2>2. \A r \in Rows : r <= k /\ Due(r) <=> r <= k - 1 /\ Due(r)
    BY <1>1, <1>2
  <2> QED
    BY <2>1, <2>2 DEF UpTo
<1>3. CASE k \in Rows /\ Due(k)
  <2> DEFINE reg == IF p.reason # "renamed" THEN s.registry ELSE [s.registry EXCEPT ![k] = new]
  <2>1. t = [plans |-> [s.plans EXCEPT ![k] = p], registry |-> reg]
    BY <1>3 DEF RenamedRow
  <2>2. p \in Plans /\ p.new = Canonical[k]
    BY <1>3, OutcomeIs
  <2>3. new \in Entries
    <3>1. Canonical[k] \in AllNames
      BY <1>3 DEF AllNames
    <3>2. clock + 1 \in Nat
      BY DEF IdInv, IdTypes
    <3> QED
      BY <2>2, <3>1, <3>2 DEF Entries
  <2> HIDE DEF new, p
  <2>4. t.plans = [s.plans EXCEPT ![k] = p] /\ t.registry = reg
    BY <2>1
  <2>5. t.plans \in [Rows -> Plans] /\ t.registry \in [Rows -> Entries]
    BY <1>3, <2>2, <2>3, <2>4 DEF UpTo
  <2>6. t.plans[k] = p /\ t.registry[k] = IF p.reason # "renamed" THEN registry[k] ELSE new
    <3>1. ~(k <= k - 1)
      OBVIOUS
    <3>2. s.registry[k] = registry[k]
      BY <1>3, <3>1 DEF UpTo, Same
    <3> QED
      BY <1>3, <2>4, <3>2 DEF UpTo
  <2>7. Dealt(t, k)
    BY <2>6 DEF Dealt, p, new
  <2>8. ASSUME NEW r \in Rows, r # k
        PROVE  IF r <= k /\ Due(r) THEN Dealt(t, r) ELSE Same(t, r)
    <3>1. r <= k <=> r <= k - 1
      BY <1>1, <2>8
    <3>2. t.plans[r] = s.plans[r] /\ t.registry[r] = s.registry[r]
      BY <2>4, <2>8 DEF UpTo
    <3> QED
      BY <3>1, <3>2 DEF UpTo, Dealt, Same
  <2> QED
    BY <1>3, <2>5, <2>7, <2>8 DEF UpTo
<1> QED
  BY <1>2, <1>3

LEMMA AllRows ==
    ASSUME IdInv, IdentityAssumption
    PROVE  /\ Renamed.registry \in [Rows -> Entries] /\ Renamed.plans \in [Rows -> Plans]
           /\ \A r \in Rows : IF Due(r) THEN Dealt(Renamed, r) ELSE Same(Renamed, r)
<1> DEFINE n == LastRowOf
<1>1. n \in Nat /\ Rows \subseteq 1..n
  BY RowsAreNumbers
<1>2. PICK f : IsAfter(f, n) /\ Renamed = f[n]
  BY RenamedIs
<1> DEFINE bad == {k \in 0..n : ~UpTo(f[k], k)}
<1> HIDE DEF n
<1>3. bad = {}
  <2>1. SUFFICES ASSUME bad # {} PROVE FALSE
    OBVIOUS
  <2>2. bad \in SUBSET Nat
    BY <1>1
  <2>3. PICK k \in bad : \A j \in bad : k <= j
    BY <2>1, <2>2, Least
  <2>4. CASE k = 0
    <3>1. f[0] = [registry |-> registry, plans |-> plans]
      BY <1>1, <1>2 DEF IsAfter
    <3>2. \A r \in Rows : ~(r <= 0)
      BY <1>1
    <3>3. UpTo(f[0], 0)
      BY <3>1, <3>2 DEF UpTo, Same, IdInv, IdTypes
    <3> QED
      BY <2>3, <2>4, <3>3
  <2>5. CASE k # 0
    <3>1. k \in Nat \ {0} /\ k - 1 \in 0..n /\ k - 1 \notin bad
      BY <1>1, <2>3, <2>5
    <3>2. UpTo(f[k - 1], k - 1) /\ f[k] = RenamedRow(f[k - 1], k)
      BY <1>2, <2>3, <2>5, <3>1 DEF IsAfter
    <3> QED
      BY <2>3, <3>1, <3>2, OneRow
  <2> QED
    BY <2>4, <2>5
<1>4. UpTo(Renamed, n)
  BY <1>1, <1>2, <1>3
<1>5. \A r \in Rows : r <= n
  BY <1>1
<1> QED
  BY <1>4, <1>5 DEF UpTo

-----------------------------------------------------------------------------
\* The lock, whatever else a step does.
LockInv == lock \in LockRecords /\ clock \in Nat /\ LockStands

LEMMA LockRests ==
    ASSUME LockInv, UNCHANGED lock, clock' \in Nat, touched \subseteq touched',
           pass'.pc \in {"recordLock", "idle"} => pass.pc \in {"recordLock", "idle"}
    PROVE  LockInv'
BY DEF LockInv, LockStands

LEMMA LockConverts ==
    ASSUME LockInv, Convert PROVE LockInv'
<1> DEFINE removed == [lock EXCEPT !.plan.status = "removed"]
           converted == [lock EXCEPT !.plan.status = "converted", !.new = TRUE, !.old = 0]
           conflict == [lock EXCEPT !.plan.status = "conflict"]
<1>1. \/ lock' = lock /\ ~Open(lock.plan)
      \/ lock' = removed \/ lock' = converted \/ lock' = conflict
  BY DEF Convert
<1>2. removed \in LockRecords /\ removed.plan.status = "removed"
  BY DEF LockInv, LockRecords, LockPlans
<1>3. converted \in LockRecords /\ converted.new
  BY DEF LockInv, LockRecords, LockPlans
<1>4. conflict \in LockRecords /\ conflict.plan.status = "conflict"
  BY DEF LockInv, LockRecords, LockPlans
<1>5. ~Open(lock.plan) => lock.plan.status # "converted"
  BY DEF Open
<1>6. clock' = clock
  BY DEF Convert
<1> HIDE DEF removed, converted, conflict
<1> QED
  BY <1>1, <1>2, <1>3, <1>4, <1>5, <1>6 DEF LockInv, LockStands

LEMMA LockPlanned ==
    ASSUME LockInv, PlanLock, pass \in [pc : Phases, about : SUBSET Rows]
    PROVE  LockInv'
<1> DEFINE planned == [lock EXCEPT !.plan = [status |-> "planned", before |-> lock.old]]
<1>1. lock' = planned \/ lock' = lock
  BY DEF PlanLock
<1>2. planned \in LockRecords
  BY DEF LockInv, LockRecords, LockPlans
<1>3. pass'.pc \in {"intendLock", "convert"} /\ clock' = clock
  BY DEF PlanLock, To
<1> HIDE DEF planned
<1> QED
  BY <1>1, <1>2, <1>3 DEF LockInv, LockStands

LEMMA LockSaves ==
    ASSUME LockInv, Save, pass \in [pc : Phases, about : SUBSET Rows] PROVE LockInv'
<1> DEFINE kept == [lock EXCEPT !.journal = lock.plan]
<1>1. lock' = kept /\ clock' = clock /\ touched' = touched
  BY DEF Save, Saved
<1>2. kept \in LockRecords /\ kept.plan = lock.plan /\ kept.new = lock.new
  BY DEF LockInv, LockRecords
<1>3. pass'.pc \in {"recordLock", "idle"} => pass.pc = "recordLock"
  BY DEF Save, To, AfterSave
<1> HIDE DEF kept
<1> QED
  BY <1>1, <1>2, <1>3 DEF LockInv, LockStands

LEMMA LockElse ==
    ASSUME LockInv, pass \in [pc : Phases, about : SUBSET Rows],
           SaveFails \/ Setup \/ Persist \/ IdentityCrash
    PROVE  LockInv'
<1>1. CASE SaveFails
  <2>1. lock' = lock \/ lock' = [lock EXCEPT !.plan = NoLockPlan]
    BY <1>1 DEF SaveFails
  <2>2. lock' \in LockRecords
    BY <2>1 DEF LockInv, LockRecords, LockPlans, NoLockPlan
  <2>3. pass'.pc \in {"off", "failed"} /\ clock' = clock
    BY <1>1 DEF SaveFails, To
  <2> QED
    BY <2>2, <2>3 DEF LockInv, LockStands
<1>2. CASE Setup
  <2>1. lock' = [lock EXCEPT !.plan = lock.journal] /\ pass'.pc = "plan" /\ clock' = clock
    BY <1>2 DEF Setup, To
  <2>2. lock' \in LockRecords
    BY <2>1 DEF LockInv, LockRecords
  <2> QED
    BY <2>1, <2>2 DEF LockInv, LockStands
<1>3. CASE Persist
  <2>1. /\ lock' = [lock EXCEPT !.oldWritten = lock.old, !.newWritten = lock.new]
        /\ UNCHANGED <<pass, clock, touched>>
    BY <1>3 DEF Persist
  <2>2. lock' \in LockRecords /\ lock'.plan = lock.plan /\ lock'.new = lock.new
    BY <2>1 DEF LockInv, LockRecords
  <2> QED
    BY <2>1, <2>2 DEF LockInv, LockStands
<1>4. CASE IdentityCrash
  <2>1. /\ lock' = [lock EXCEPT !.old = lock.oldWritten, !.new = lock.newWritten,
                                !.plan = NoLockPlan]
        /\ pass'.pc = "off" /\ clock' = clock
    BY <1>4 DEF IdentityCrash
  <2>2. NoLockPlan \in LockPlans
    BY DEF NoLockPlan, LockPlans
  <2>3. lock' \in LockRecords
    BY <2>1, <2>2 DEF LockInv, LockRecords
  <2> QED
    BY <2>1, <2>3 DEF LockInv, LockStands
<1> QED
  BY <1>1, <1>2, <1>3, <1>4

LEMMA LockIsTouched ==
    ASSUME LockInv, OwnerChangesLock PROVE LockInv'
<1>1. 0 \in touched' /\ clock' \in Nat
  BY DEF OwnerChangesLock, LockInv
<1>2. lock' = [lock EXCEPT !.old = clock + 1] \/ lock' = [lock EXCEPT !.new = FALSE]
  BY DEF OwnerChangesLock
<1>3. lock' \in LockRecords
  <2>1. CASE lock' = [lock EXCEPT !.old = clock + 1]
    BY <2>1 DEF LockInv, LockRecords
  <2>2. CASE lock' = [lock EXCEPT !.new = FALSE]
    BY <2>2 DEF LockInv, LockRecords
  <2> QED
    BY <1>2, <2>1, <2>2
<1> QED
  BY <1>1, <1>3 DEF LockInv, LockStands

-----------------------------------------------------------------------------
\* The rows.
RowInv(r) ==
    /\ Ours(r, registry[r]) /\ Ours(r, written[r])
    /\ Meant(r, plans[r]) /\ Meant(r, file[r])
    /\ Announced(r) /\ Stands(r)
RowTypes ==
    /\ registry \in [Rows -> Entries] /\ written \in [Rows -> Entries]
    /\ plans \in [Rows -> Plans] /\ file \in [Rows -> Plans]
    /\ clock \in Nat /\ pass \in [pc : Phases, about : SUBSET Rows]
RowsInv == RowTypes /\ \A r \in Rows : RowInv(r)

LEMMA IdInvParts ==
    /\ IdInv <=> RowsInv /\ LockInv /\ stops \in Nat
    /\ IdInv' <=> RowsInv' /\ LockInv' /\ stops' \in Nat
BY DEF IdInv, IdTypes, RowsInv, RowTypes, RowInv, LockInv

\* A name the integration gives is given to the row that was planned.
PlannedRowsOnly ==
    \A r \in Rows : registry'[r].by = "us" /\ registry[r].by # "us" => registry[r].at = plans[r].before

LEMMA RowsRest ==
    ASSUME RowsInv, UNCHANGED <<registry, written, plans, file, clock, touched>>,
           pass' \in [pc : Phases, about : SUBSET Rows], pass'.pc # "rename" \/ pass.pc = "rename",
           pass.pc # "off" \/ pass'.pc = "off",
           pass'.pc \in PastRenames => pass.pc \in PastRenames
    PROVE  RowsInv' /\ PlannedRowsOnly
BY DEF RowsInv, RowTypes, RowInv, Ours, Meant, Announced, Stands, PlannedRowsOnly

LEMMA PlansAre ==
    ASSUME RowsInv, IdentityAssumption, NEW r \in Rows, NEW S
    PROVE  PlanOf(r, S) \in Plans /\ Meant(r, PlanOf(r, S)) /\ PlanOf(r, S).status # "none"
           /\ PlanOf(r, S).status # "renamed"
<1> DEFINE p == PlanOf(r, S)
<1>1. registry[r] \in Entries /\ Canonical[r] \in AllNames
  BY DEF RowsInv, RowTypes, AllNames
<1>2. /\ p = [status |-> p.status, reason |-> p.reason, old |-> registry[r].name,
              new |-> Canonical[r], before |-> registry[r].at]
      /\ p.status \in {"unchanged", "conflict", "planned"}
      /\ p.reason \in {"canonical", "occupied", "forced"}
      /\ p.status = "planned" => registry[r].name # Canonical[r]
  BY DEF PlanOf
<1> HIDE DEF p
<1>3. p \in Plans
  <2>1. /\ registry[r].name \in AllNames \union {"none"} /\ registry[r].at \in Nat
        /\ Canonical[r] \in AllNames \union {"none"}
    BY <1>1 DEF Entries
  <2>2. p.status \in PlanStates /\ p.reason \in PlanReasons
    BY <1>2 DEF PlanStates, PlanReasons
  <2> QED
    BY <1>2, <2>1, <2>2 DEF Plans
<1>4. /\ p.new = Canonical[r] /\ p.old = registry[r].name /\ p.before = registry[r].at
  BY <1>2
<1>5. Ours(r, registry[r])
  BY DEF RowsInv, RowInv
<1>6. Meant(r, p)
  BY <1>2, <1>4, <1>5 DEF Meant, Ours
<1> QED
  BY <1>2, <1>3, <1>6 DEF p

LEMMA RowsPlanned ==
    ASSUME RowsInv, IdentityAssumption, Plan PROVE RowsInv' /\ PlannedRowsOnly
<1>1. PICK about \in SUBSET Rows :
        LET S == Planned(about) IN
        /\ plans' = [r \in Rows |-> IF r \in S THEN PlanOf(r, S) ELSE plans[r]]
        /\ pass' = [pc |-> IF S # {} \/ \E r \in Rows : plans[r].status = "planned"
                           THEN "intend" ELSE "rename", about |-> about]
  BY DEF Plan
<1> DEFINE S == Planned(about)
<1>2. UNCHANGED <<registry, written, file, clock, touched>> /\ pass.pc = "plan"
  BY DEF Plan
<1>3. /\ pass'.pc \in {"intend", "rename"} /\ pass'.about = about
      /\ pass' = [pc |-> pass'.pc, about |-> about]
      /\ pass'.pc = "rename" => S = {} /\ \A r \in Rows : plans[r].status # "planned"
  BY <1>1
<1>4. \A r \in Rows : plans'[r] = IF r \in S THEN PlanOf(r, S) ELSE plans[r]
  BY <1>1
<1>5. plans' = [r \in Rows |-> plans'[r]]
  BY <1>1
<1> HIDE DEF S
<1>6. ASSUME NEW r \in Rows PROVE plans'[r] \in Plans /\ RowInv(r)'
  <2>1. CASE r \in S
    <3>1. /\ plans'[r] \in Plans /\ Meant(r, plans'[r]) /\ plans'[r].status # "none"
          /\ plans'[r].status # "renamed"
      BY <1>4, <2>1, PlansAre
    <3>2. pass'.pc # "rename"
      BY <1>3, <2>1
    <3> QED
      BY <1>2, <1>3, <3>1, <3>2 DEF RowsInv, RowInv, Ours, Meant, Announced, Stands, PastRenames
  <2>2. CASE r \notin S
    <3>1. plans'[r] = plans[r] /\ plans[r] \in Plans
      BY <1>4, <2>2 DEF RowsInv, RowTypes
    <3> QED
      BY <1>2, <1>3, <3>1 DEF RowsInv, RowInv, Ours, Meant, Announced, Stands, PastRenames
  <2> QED
    BY <2>1, <2>2
<1>7. RowTypes'
  <2>1. pass' \in [pc : Phases, about : SUBSET Rows]
    BY <1>3 DEF Phases, AfterSave
  <2> QED
    BY <1>2, <1>5, <1>6, <2>1 DEF RowsInv, RowTypes
<1>8. PlannedRowsOnly
  BY <1>2 DEF PlannedRowsOnly
<1> QED
  BY <1>6, <1>7, <1>8 DEF RowsInv

LEMMA RowsRenamed ==
    ASSUME IdInv, IdentityAssumption, Rename PROVE RowsInv' /\ PlannedRowsOnly
<1>1. registry' = Renamed.registry /\ plans' = Renamed.plans
  BY DEF Rename
<1>2. /\ UNCHANGED <<written, file, touched>> /\ clock' \in {clock, clock + 1}
      /\ pass.pc = "rename" /\ pass'.pc \in {"record", "lock"}
      /\ pass' = [pass EXCEPT !.pc = pass'.pc]
  BY DEF Rename, To, IdInv, IdTypes
<1>3. RowsInv
  BY IdInvParts
<1>4. RowTypes'
  <2>1. pass' \in [pc : Phases, about : SUBSET Rows]
    BY <1>2, <1>3 DEF Phases, AfterSave, RowsInv, RowTypes
  <2>2. clock' \in Nat
    BY <1>2, <1>3 DEF RowsInv, RowTypes
  <2> QED
    BY <1>1, <1>2, <1>3, <2>1, <2>2, AllRows DEF RowsInv, RowTypes
<1>5. ASSUME NEW r \in Rows
      PROVE  RowInv(r)' /\ (registry'[r].by = "us" /\ registry[r].by # "us"
                                => registry[r].at = plans[r].before)
  <2>1. /\ Ours(r, registry[r]) /\ Ours(r, written[r]) /\ Meant(r, plans[r])
        /\ Meant(r, file[r]) /\ Announced(r)
    BY <1>3 DEF RowsInv, RowInv
  <2>2. Ours(r, written[r])' /\ Meant(r, file[r])'
    BY <1>2, <2>1 DEF Ours, Meant
  <2>3. CASE ~Due(r)
    <3>1. registry'[r] = registry[r] /\ plans'[r] = plans[r]
      BY <1>1, <2>3, AllRows DEF Same
    <3>2. Ours(r, registry[r])' /\ Meant(r, plans[r])' /\ Announced(r)'
      BY <1>2, <2>1, <3>1 DEF Ours, Meant, Announced
    <3>3. Stands(r)'
      BY <1>2, <2>1, <2>3, <3>1 DEF Stands, Ours, Meant, Due, Lost
    <3> QED
      BY <2>2, <3>1, <3>2, <3>3 DEF RowInv
  <2>4. CASE Due(r)
    <3>1. PICK T : LET p == Outcome(r, T) IN
                   /\ plans'[r] = p
                   /\ registry'[r] = IF p.reason # "renamed" THEN registry[r]
                                     ELSE [name |-> p.new, at |-> clock + 1, by |-> "us"]
      BY <1>1, <2>4, AllRows DEF Dealt
    <3> DEFINE p == Outcome(r, T)
    <3>2. /\ p \in Plans /\ p.new = Canonical[r] /\ plans[r].new = Canonical[r]
          /\ p.old = plans[r].old /\ p.before = plans[r].before
          /\ p.status \in {"protected", "conflict", "renamed"}
          /\ p.status = "renamed" => p.reason = "renamed" \/ registry[r].name = Canonical[r]
          /\ p.reason = "renamed" =>
                /\ p.status = "renamed" /\ registry[r].at = plans[r].before
                /\ registry[r].name = plans[r].old
      BY <2>4, OutcomeIs
    <3>3. file[r].status # "none" /\ plans[r].status \in {"planned", "renamed"}
      BY <1>2, <2>1, <2>4 DEF Announced, Due, Lost
    <3> HIDE DEF p
    <3>4. /\ plans'[r] = p
          /\ p.reason # "renamed" => registry'[r] = registry[r]
          /\ p.reason = "renamed" =>
                registry'[r].name = Canonical[r] /\ registry'[r].by = "us"
      BY <3>1, <3>2 DEF p
    <3>5. Ours(r, registry[r])' /\ Meant(r, plans[r])'
      BY <1>2, <2>1, <3>2, <3>3, <3>4 DEF Ours, Meant
    <3>6. Announced(r)'
      BY <1>2, <2>1, <3>2, <3>3, <3>4 DEF Announced
    <3>7. Stands(r)'
      BY <3>2, <3>4 DEF Stands
    <3> QED
      BY <2>2, <3>2, <3>4, <3>5, <3>6, <3>7 DEF RowInv
  <2> QED
    BY <2>3, <2>4
<1> QED
  BY <1>4, <1>5 DEF RowsInv, PlannedRowsOnly

LEMMA NoPlanIs == NoPlan \in Plans /\ NoPlan.status = "none"
BY DEF NoPlan, Plans, PlanStates, PlanReasons

LEMMA RowsSaved ==
    ASSUME RowsInv, Save PROVE RowsInv' /\ PlannedRowsOnly
<1>1. /\ UNCHANGED <<registry, written, plans, clock, touched>> /\ file' = plans
      /\ pass.pc \in {"intend", "record", "intendLock", "recordLock"}
      /\ pass' = [pass EXCEPT !.pc = AfterSave[pass.pc]]
  BY DEF Save, Saved, To, AfterSave
<1>2. /\ pass' \in [pc : Phases, about : SUBSET Rows] /\ pass'.pc = AfterSave[pass.pc]
      /\ AfterSave[pass.pc] \in {"rename", "lock", "convert", "idle"}
      /\ pass'.pc # "rename" => pass.pc \in PastRenames
  BY <1>1 DEF RowsInv, RowTypes, Phases, AfterSave, PastRenames
<1>3. RowTypes'
  BY <1>1, <1>2 DEF RowsInv, RowTypes
<1>4. ASSUME NEW r \in Rows PROVE RowInv(r)'
  <2>1. RowInv(r)
    BY DEF RowsInv
  <2>2. /\ Ours(r, registry[r])' /\ Ours(r, written[r])' /\ Meant(r, plans[r])'
        /\ Meant(r, file[r])'
    BY <1>1, <2>1 DEF RowInv, Ours, Meant
  <2>3. Announced(r)' /\ Stands(r)'
    BY <1>1, <1>2, <2>1 DEF RowInv, Announced, Stands, PastRenames
  <2> QED
    BY <2>2, <2>3 DEF RowInv
<1> QED
  BY <1>1, <1>3, <1>4 DEF RowsInv, PlannedRowsOnly

LEMMA RowsElse ==
    ASSUME RowsInv, Setup \/ Persist PROVE RowsInv' /\ PlannedRowsOnly
<1>1. CASE Setup
  <2>1. /\ UNCHANGED <<registry, written, file, clock, touched>> /\ plans' = file
        /\ pass' = [pass EXCEPT !.pc = "plan"]
    BY <1>1 DEF Setup, To
  <2>2. pass' \in [pc : Phases, about : SUBSET Rows] /\ pass'.pc = "plan"
    BY <2>1 DEF RowsInv, RowTypes, Phases
  <2>3. ASSUME NEW r \in Rows PROVE RowInv(r)'
    BY <2>1, <2>2 DEF RowsInv, RowInv, Ours, Meant, Announced, Stands, PastRenames
  <2> QED
    BY <2>1, <2>2, <2>3 DEF RowsInv, RowTypes, PlannedRowsOnly
<1>2. CASE Persist
  <2>1. UNCHANGED <<registry, plans, file, pass, clock, touched>> /\ written' = registry
    BY <1>2 DEF Persist
  <2>2. ASSUME NEW r \in Rows PROVE RowInv(r)'
    BY <2>1 DEF RowsInv, RowInv, Ours, Meant, Announced, Stands, PastRenames
  <2> QED
    BY <2>1, <2>2 DEF RowsInv, RowTypes, PlannedRowsOnly
<1> QED
  BY <1>1, <1>2

LEMMA RowsAfterCrash ==
    ASSUME RowsInv, IdentityCrash PROVE RowsInv'
<1>1. /\ UNCHANGED <<written, file, clock, touched>> /\ registry' = written
      /\ plans' = [r \in Rows |-> NoPlan] /\ pass' = [pc |-> "off", about |-> {}]
  BY DEF IdentityCrash
<1>2. pass' \in [pc : Phases, about : SUBSET Rows] /\ pass'.pc = "off"
  BY <1>1 DEF Phases
<1>3. ASSUME NEW r \in Rows PROVE RowInv(r)'
  <2>1. plans'[r].status = "none"
    BY <1>1, NoPlanIs
  <2> QED
    BY <1>1, <1>2, <2>1 DEF RowsInv, RowInv, Ours, Meant, Announced, Stands, PastRenames
<1> QED
  BY <1>1, <1>2, <1>3, NoPlanIs DEF RowsInv, RowTypes

LEMMA RowsTouched ==
    ASSUME RowsInv, NEW q \in Rows, OwnerRenames(q) PROVE RowsInv' /\ PlannedRowsOnly
<1>1. PICK n \in OwnNames \ Names(registry) :
        registry' = [registry EXCEPT ![q] =
            [name |-> n, at |-> clock + 1, by |-> IF file[q] = NoPlan THEN "owner" ELSE "late"]]
  BY DEF OwnerRenames
<1> DEFINE giver == IF file[q] = NoPlan THEN "owner" ELSE "late"
           e == [name |-> n, at |-> clock + 1, by |-> giver]
<1>2. /\ UNCHANGED <<written, plans, file, pass>> /\ touched' = touched \union {q}
      /\ clock' = clock + 1
  BY DEF OwnerRenames
<1>3. e \in Entries /\ e.by # "us"
  <2>1. giver \in {"owner", "late"} /\ n \in AllNames /\ clock + 1 \in Nat
    BY DEF AllNames, RowsInv, RowTypes
  <2> HIDE DEF giver
  <2> QED
    BY <2>1 DEF Entries
<1>4. registry' = [registry EXCEPT ![q] = e]
  BY <1>1
<1> HIDE DEF e, giver
<1>5. RowTypes'
  BY <1>2, <1>3, <1>4 DEF RowsInv, RowTypes
<1>6. ASSUME NEW r \in Rows
      PROVE  RowInv(r)' /\ (registry'[r].by = "us" => registry[r].by = "us")
  <2>1. RowInv(r) /\ registry'[r] = IF r = q THEN e ELSE registry[r]
    BY <1>4 DEF RowsInv, RowTypes
  <2> QED
    BY <1>2, <1>3, <2>1 DEF RowInv, Ours, Meant, Announced, Stands
<1> QED
  BY <1>5, <1>6 DEF RowsInv, PlannedRowsOnly

-----------------------------------------------------------------------------
LEMMA IdentityStarts ==
    ASSUME IdentityAssumption, IdentityInit PROVE IdInv
<1>1. /\ registry = [r \in Rows |-> [name |-> Original[r], at |-> 0, by |-> "core"]]
      /\ written = registry /\ plans = [r \in Rows |-> NoPlan] /\ file = plans
      /\ lock = [old |-> 1, new |-> FALSE, oldWritten |-> 1, newWritten |-> FALSE,
                 plan |-> NoLockPlan, journal |-> NoLockPlan]
      /\ pass = [pc |-> "off", about |-> {}] /\ clock = 1
  BY DEF IdentityInit
<1>2. registry \in [Rows -> Entries]
  BY <1>1 DEF Entries, AllNames
<1>3. plans \in [Rows -> Plans] /\ pass \in [pc : Phases, about : SUBSET Rows]
  BY <1>1, NoPlanIs DEF Phases
<1>4. lock \in LockRecords
  <2>1. NoLockPlan \in LockPlans
    BY DEF NoLockPlan, LockPlans
  <2> QED
    BY <1>1, <2>1 DEF LockRecords
<1>5. ASSUME NEW r \in Rows PROVE RowInv(r)
  <2>1. registry[r] = [name |-> Original[r], at |-> 0, by |-> "core"] /\ plans[r] = NoPlan
    BY <1>1
  <2> QED
    BY <1>1, <2>1, NoPlanIs DEF RowInv, Ours, Meant, Announced, Stands, PastRenames
<1>6. RowsInv /\ LockInv /\ stops \in Nat
  BY <1>1, <1>2, <1>3, <1>4, <1>5 DEF IdentityInit, RowsInv, RowTypes, LockInv, LockStands
<1> QED
  BY <1>6, IdInvParts

LEMMA IdentityStep ==
    ASSUME IdentityAssumption, IdInv, IdentityNext \/ UNCHANGED idVars
    PROVE  IdInv' /\ (stops' = stops => PlannedRowsOnly)
<1> SUFFICES RowsInv' /\ LockInv' /\ (stops' = stops => PlannedRowsOnly)
  <2>1. stops \in Nat /\ (stops' = stops \/ stops' = stops + 1)
    BY DEF IdInv, IdentityNext, PassSteps, Plan, Rename, PlanLock, Convert, Save, SaveFails, Setup,
           Discover, Persist, IdentityCrash, OwnerChangesLock, OwnerRenames, idVars
  <2> QED
    BY <2>1, IdInvParts
<1>1. /\ RowsInv /\ LockInv /\ pass \in [pc : Phases, about : SUBSET Rows] /\ clock \in Nat
      /\ stops \in Nat
  BY IdInvParts DEF RowsInv, RowTypes
<1>2. CASE Plan
  <2>1. RowsInv' /\ PlannedRowsOnly
    BY <1>1, <1>2, RowsPlanned
  <2>2. UNCHANGED <<lock, clock, touched>> /\ pass'.pc \in {"intend", "rename"}
    BY <1>2 DEF Plan
  <2>3. LockInv'
    BY <1>1, <2>2, LockRests
  <2> QED
    BY <2>1, <2>3
<1>3. CASE Rename
  <2>1. RowsInv' /\ PlannedRowsOnly
    BY <1>1, <1>3, RowsRenamed
  <2>2. UNCHANGED <<lock, touched>> /\ clock' \in Nat /\ pass'.pc \in {"record", "lock"}
    BY <1>1, <1>3 DEF Rename, To
  <2>3. LockInv'
    BY <1>1, <2>2, LockRests
  <2> QED
    BY <2>1, <2>3
<1>4. CASE PlanLock
  <2>1. /\ UNCHANGED <<registry, written, plans, file, clock, touched>> /\ pass.pc = "lock"
        /\ pass' = [pass EXCEPT !.pc = pass'.pc] /\ pass'.pc \in {"intendLock", "convert"}
    BY <1>1, <1>4 DEF PlanLock, To
  <2>2. pass' \in [pc : Phases, about : SUBSET Rows]
    BY <1>1, <2>1 DEF Phases, AfterSave
  <2>3. RowsInv' /\ PlannedRowsOnly
    BY <1>1, <2>1, <2>2, RowsRest DEF PastRenames
  <2> QED
    BY <1>1, <1>4, <2>3, LockPlanned
<1>5. CASE Convert
  <2>1. /\ UNCHANGED <<registry, written, plans, file, clock, touched>> /\ pass.pc = "convert"
        /\ pass' = [pass EXCEPT !.pc = pass'.pc] /\ pass'.pc \in {"recordLock", "idle"}
    BY <1>1, <1>5 DEF Convert, To
  <2>2. pass' \in [pc : Phases, about : SUBSET Rows]
    BY <1>1, <2>1 DEF Phases, AfterSave
  <2>3. RowsInv' /\ PlannedRowsOnly
    BY <1>1, <2>1, <2>2, RowsRest DEF PastRenames
  <2> QED
    BY <1>1, <1>5, <2>3, LockConverts
<1>6. CASE Save
  BY <1>1, <1>6, RowsSaved, LockSaves
<1>7. CASE SaveFails
  <2>1. /\ UNCHANGED <<registry, written, plans, file, clock, touched>>
        /\ pass.pc \in DOMAIN AfterSave
        /\ pass' = [pass EXCEPT !.pc = pass'.pc] /\ pass'.pc \in {"off", "failed"}
    BY <1>1, <1>7 DEF SaveFails, To
  <2>2. pass' \in [pc : Phases, about : SUBSET Rows]
    BY <1>1, <2>1 DEF Phases
  <2>3. RowsInv' /\ PlannedRowsOnly
    BY <1>1, <2>1, <2>2, RowsRest DEF PastRenames, AfterSave
  <2> QED
    BY <1>1, <1>7, <2>3, LockElse
<1>8. CASE Setup \/ Persist
  BY <1>1, <1>8, RowsElse, LockElse
<1>9. CASE Discover
  <2>1. /\ UNCHANGED <<registry, written, plans, file, lock, clock, touched>>
        /\ pass.pc # "off" /\ pass' = [pass EXCEPT !.pc = "plan"]
    BY <1>9 DEF Discover, To
  <2>2. pass' \in [pc : Phases, about : SUBSET Rows] /\ pass'.pc = "plan"
    BY <1>1, <2>1 DEF Phases
  <2>3. RowsInv' /\ PlannedRowsOnly
    BY <1>1, <2>1, <2>2, RowsRest DEF PastRenames
  <2>4. LockInv'
    BY <1>1, <2>1, <2>2, LockRests
  <2> QED
    BY <2>3, <2>4
<1>10. CASE IdentityCrash
  <2>1. stops' # stops
    BY <1>1, <1>10 DEF IdentityCrash
  <2> QED
    BY <1>1, <1>10, <2>1, RowsAfterCrash, LockElse
<1>11. CASE OwnerChangesLock
  <2>1. /\ UNCHANGED <<registry, written, plans, file, pass>> /\ clock' = clock + 1
        /\ touched \subseteq touched'
    BY <1>11 DEF OwnerChangesLock
  <2>2. RowsInv' /\ PlannedRowsOnly
    BY <1>1, <2>1 DEF RowsInv, RowTypes, RowInv, Ours, Meant, Announced, Stands, PlannedRowsOnly
  <2> QED
    BY <1>1, <1>11, <2>2, LockIsTouched
<1>12. CASE \E q \in Rows : OwnerRenames(q)
  <2>1. PICK q \in Rows : OwnerRenames(q)
    BY <1>12
  <2>2. UNCHANGED <<lock, pass>> /\ clock' \in Nat /\ touched \subseteq touched'
    BY <1>1, <2>1 DEF OwnerRenames
  <2>3. LockInv'
    BY <1>1, <2>2, LockRests
  <2> QED
    BY <1>1, <2>1, <2>3, RowsTouched
<1>13. CASE UNCHANGED idVars
  <2>1. UNCHANGED <<registry, written, plans, file, lock, pass, clock, touched>>
    BY <1>13 DEF idVars
  <2>2. RowsInv' /\ PlannedRowsOnly
    BY <1>1, <2>1, RowsRest
  <2>3. LockInv'
    BY <1>1, <2>1, LockRests
  <2> QED
    BY <2>2, <2>3
<1> QED
  BY <1>2, <1>3, <1>4, <1>5, <1>6, <1>7, <1>8, <1>9, <1>10, <1>11, <1>12, <1>13
     DEF IdentityNext, PassSteps

LEMMA FileFollows ==
    ASSUME IdInv PROVE FileIsTrue
<1>1. IntentComesFirst
  <2>1. ASSUME NEW reg \in {registry, written}, NEW r \in Rows, reg[r].by = "us"
        PROVE  file[r].new = reg[r].name /\ file[r].status # "none"
    <3>1. Ours(r, reg[r]) /\ Meant(r, file[r]) /\ Announced(r)
      BY DEF IdInv
    <3> QED
      BY <2>1, <3>1 DEF Ours, Meant, Announced
  <2> QED
    BY <2>1 DEF IntentComesFirst
<1>2. DoneIsDone
  <2>1. ASSUME pass.pc = "idle", NEW r \in Rows \ touched, plans[r].status = "renamed"
        PROVE  registry[r].name = plans[r].new
    BY <2>1 DEF IdInv, Stands, Meant, PastRenames
  <2> QED
    BY <2>1 DEF DoneIsDone, IdInv, LockStands
<1> QED
  BY <1>1, <1>2 DEF FileIsTrue

-----------------------------------------------------------------------------
(***************************************************************************)
(* The check of stored payloads.                                           *)
(***************************************************************************)
Scans == [phase : Kinds \union {"none", "complete"}, upper : [Kinds -> Nat], total : Nat,
          cut : Nat \X Nat, after : Nat, checked : Nat, invalid : Nat, changed : BOOLEAN]
LinkSets == [total : Nat, checked : Nat, conflicts : Nat, unclear : Nat, after : Nat,
             cut : Nat \X Nat]
Receipts == {"none", "verified", "invalid"}

\* Rows are numbered, and hold payloads of their kind.
RowsTyped ==
    /\ rows = [k \in Kinds |-> rows[k]]
    /\ \A k \in Kinds :
          /\ \E b \in Nat : DOMAIN rows[k] \subseteq 1..b
          /\ \A n \in DOMAIN rows[k] : rows[k][n] \in Objects /\ Kind[rows[k][n]] = k

FenceTyped ==
    /\ fence \in [revision : Nat, inventory : Nat, of : [Vehicles -> Nat]]
    /\ receipt \in [Objects -> Receipts]
    /\ marker \in [Vehicles -> Nat \union {Never}]
    /\ \A v \in Vehicles : marker[v] <= fence.of[v]
    /\ scan \in [Vehicles -> Scans] /\ links \in [Vehicles -> LinkSets]

\* Row n of kind k lies behind a place, and behind the place of the scan s.
BehindPlace(phase, after, k, n) ==
    \/ phase = "complete"
    \/ phase = "page" /\ (k = "detail" \/ n <= after)
    \/ phase = "detail" /\ k = "detail" /\ n <= after
Behind(s, k, n) == BehindPlace(s.phase, s.after, k, n)

\* The counters are those of the capture.
Fresh(s) == ~s.changed /\ s.cut = Cut

\* While they are, the rows behind the place are the ones that were walked over.
Walks(v, s, l) ==
    /\ \A k \in Kinds : s.upper[k] = Top(RowsOf(v, k))
    /\ s.total > 0 => \E k \in Kinds : RowsOf(v, k) # {}
    /\ \A k \in Kinds : \A n \in RowsOf(v, k) :
          Behind(s, k, n) =>
             /\ receipt[rows[k][n]] # "none"
             /\ s.invalid = 0 => receipt[rows[k][n]] = "verified"
             /\ k = "page" /\ l.conflicts = 0 /\ l.unclear = 0 => rows[k][n] \notin Conflicting

\* A cut is one of now or of before.
Past(c) == c[1] <= fence.revision /\ c[2] <= fence.inventory

ScanInv(v) ==
    /\ links[v].cut = scan[v].cut /\ Past(scan[v].cut)
    /\ scan[v].phase # "none" /\ Fresh(scan[v]) => Walks(v, scan[v], links[v])

MarkerInv(v) == marker[v] = fence.of[v] => Pending(v) = {}

AuditInv == RowsTyped /\ FenceTyped /\ \A v \in Vehicles : ScanInv(v) /\ MarkerInv(v)

\* The greatest number of a finite set.
LEMMA TopIs ==
    ASSUME NEW S \in SUBSET Nat, IsFiniteSet(S)
    PROVE  Top(S) \in Nat /\ (\A m \in S : m <= Top(S)) /\ (S # {} => Top(S) \in S)
<1>1. CASE S = {}
  BY <1>1 DEF Top
<1>2. CASE S # {}
  <2>1. \E n \in S : \A m \in S : m <= n
    BY <1>2, Greatest
  <2> QED
    BY <1>2, <2>1 DEF Top
<1> QED
  BY <1>1, <1>2

LEMMA RowsAreFinite ==
    ASSUME RowsTyped, NEW k \in Kinds
    PROVE  /\ DOMAIN rows[k] \in SUBSET (Nat \ {0}) /\ IsFiniteSet(DOMAIN rows[k])
           /\ \A v : RowsOf(v, k) \in SUBSET DOMAIN rows[k] /\ IsFiniteSet(RowsOf(v, k))
<1>1. PICK b \in Nat : DOMAIN rows[k] \subseteq 1..b
  BY DEF RowsTyped
<1>2. IsFiniteSet(1..b)
  BY <1>1, FS_Interval
<1>3. DOMAIN rows[k] \in SUBSET (Nat \ {0}) /\ IsFiniteSet(DOMAIN rows[k])
  BY <1>1, <1>2, FS_Subset
<1>4. ASSUME NEW v PROVE RowsOf(v, k) \in SUBSET DOMAIN rows[k] /\ IsFiniteSet(RowsOf(v, k))
  <2>1. RowsOf(v, k) \subseteq DOMAIN rows[k]
    BY DEF RowsOf
  <2> QED
    BY <1>3, <2>1, FS_Subset
<1> QED
  BY <1>3, <1>4

\* The order of a scan has a first and a last row.
Places == Kinds \X Nat

LEMMA PlaceIs ==
    ASSUME NEW x \in Places PROVE x = <<x[1], x[2]>> /\ x[1] \in {"detail", "page"} /\ x[2] \in Nat
BY DEF Places, Kinds

LEMMA PrecedesIs ==
    ASSUME NEW y \in Places, NEW m \in Nat
    PROVE  /\ Precedes(y, <<"page", m>>) <=> y[1] = "detail" \/ y[2] < m
           /\ Precedes(y, <<"detail", m>>) <=> y[1] = "detail" /\ y[2] < m
<1>1. /\ Precedes(y, <<"page", m>>) <=> IF y[1] = "page" THEN y[2] < m ELSE y[1] = "detail"
      /\ Precedes(y, <<"detail", m>>) <=> IF y[1] = "detail" THEN y[2] < m ELSE y[1] = "detail"
  BY DEF Precedes
<1> QED
  BY <1>1, PlaceIs

LEMMA FirstExists ==
    ASSUME NEW S \in SUBSET Places, S # {}
    PROVE  \E x \in S : \A y \in S : ~Precedes(y, x)
<1> DEFINE of(k) == {m \in Nat : <<k, m>> \in S}
<1>1. \A y \in S : y \in Places /\ y[2] \in of(y[1])
  BY PlaceIs
<1>2. CASE of("detail") # {}
  <2>1. PICK m \in of("detail") : \A i \in of("detail") : m <= i
    BY <1>2, Least
  <2>2. ASSUME NEW y \in S PROVE ~Precedes(y, <<"detail", m>>)
    <3>1. y \in Places /\ y[2] \in Nat /\ (y[1] = "detail" => m <= y[2])
      BY <1>1, <2>1, PlaceIs
    <3>2. m \in Nat
      BY <2>1
    <3>3. /\ Precedes(y, <<"page", m>>) <=> y[1] = "detail" \/ y[2] < m
          /\ Precedes(y, <<"detail", m>>) <=> y[1] = "detail" /\ y[2] < m
      BY <3>1, <3>2, PrecedesIs
    <3> QED
      BY <3>1, <3>2, <3>3
  <2> QED
    BY <2>1, <2>2
<1>3. CASE of("detail") = {}
  <2>1. \A y \in S : y[1] = "page"
    BY <1>1, <1>3, PlaceIs
  <2>2. of("page") # {}
    BY <1>1, <2>1
  <2>3. PICK m \in of("page") : \A i \in of("page") : m <= i
    BY <2>2, Least
  <2>4. ASSUME NEW y \in S PROVE ~Precedes(y, <<"page", m>>)
    <3>1. y \in Places /\ y[2] \in Nat /\ y[1] = "page" /\ m <= y[2]
      BY <1>1, <2>1, <2>3
    <3>2. m \in Nat
      BY <2>3
    <3>3. /\ Precedes(y, <<"page", m>>) <=> y[1] = "detail" \/ y[2] < m
          /\ Precedes(y, <<"detail", m>>) <=> y[1] = "detail" /\ y[2] < m
      BY <3>1, <3>2, PrecedesIs
    <3> QED
      BY <3>1, <3>2, <3>3
  <2> QED
    BY <2>3, <2>4
<1> QED
  BY <1>2, <1>3

LEMMA LastIs ==
    ASSUME NEW S \in SUBSET Places, IsFiniteSet(S), S # {}
    PROVE  LastRow(S) \in S /\ \A y \in S : y = LastRow(S) \/ Precedes(y, LastRow(S))
<1> DEFINE of(k) == {m \in Nat : <<k, m>> \in S}
           numbers == {x[2] : x \in S}
<1>1. \A y \in S : y \in Places /\ y[2] \in of(y[1]) /\ y = <<y[1], y[2]>>
  BY PlaceIs
<1>2. ASSUME NEW k PROVE IsFiniteSet(of(k))
  <2>1. IsFiniteSet(numbers)
    <3>1. [x \in S |-> x[2]] \in Surjection(S, numbers)
      BY DEF Surjection
    <3> QED
      BY <3>1, FS_Surjection
  <2>2. of(k) \subseteq numbers
    OBVIOUS
  <2> QED
    BY <2>1, <2>2, FS_Subset
<1>3. SUFFICES \E x \in S : \A y \in S : y = x \/ Precedes(y, x)
  BY DEF LastRow
<1>4. CASE of("page") # {}
  <2>1. PICK m \in of("page") : \A i \in of("page") : i <= m
    BY <1>2, <1>4, Greatest
  <2>2. ASSUME NEW y \in S PROVE y = <<"page", m>> \/ Precedes(y, <<"page", m>>)
    <3>1. /\ y \in Places /\ y[2] \in Nat /\ y = <<y[1], y[2]>> /\ y[1] \in {"detail", "page"}
          /\ y[1] = "page" => y[2] <= m
      BY <1>1, <2>1, PlaceIs
    <3>2. m \in Nat
      BY <2>1
    <3>3. /\ Precedes(y, <<"page", m>>) <=> y[1] = "detail" \/ y[2] < m
          /\ Precedes(y, <<"detail", m>>) <=> y[1] = "detail" /\ y[2] < m
      BY <3>1, <3>2, PrecedesIs
    <3> QED
      BY <3>1, <3>2, <3>3
  <2> QED
    BY <2>1, <2>2
<1>5. CASE of("page") = {}
  <2>1. \A y \in S : y[1] = "detail"
    BY <1>1, <1>5, PlaceIs
  <2>2. of("detail") # {}
    BY <1>1, <2>1
  <2>3. PICK m \in of("detail") : \A i \in of("detail") : i <= m
    BY <1>2, <2>2, Greatest
  <2>4. ASSUME NEW y \in S PROVE y = <<"detail", m>> \/ Precedes(y, <<"detail", m>>)
    <3>1. y \in Places /\ y[2] \in Nat /\ y = <<"detail", y[2]>> /\ y[1] = "detail" /\ y[2] <= m
      BY <1>1, <2>1, <2>3
    <3>2. m \in Nat
      BY <2>3
    <3>3. /\ Precedes(y, <<"page", m>>) <=> y[1] = "detail" \/ y[2] < m
          /\ Precedes(y, <<"detail", m>>) <=> y[1] = "detail" /\ y[2] < m
      BY <3>1, <3>2, PrecedesIs
    <3> QED
      BY <3>1, <3>2, <3>3
  <2> QED
    BY <2>3, <2>4
<1> QED
  BY <1>4, <1>5

\* A batch takes what comes first.
LEMMA FirstRowsAre ==
    ASSUME NEW S \in SUBSET Places, IsFiniteSet(S), NEW n \in Nat \ {0}
    PROVE  /\ FirstRows(S, n) \subseteq S /\ IsFiniteSet(FirstRows(S, n))
           /\ S # {} => FirstRows(S, n) # {}
           /\ \A x \in FirstRows(S, n) : \A y \in S : Precedes(y, x) => y \in FirstRows(S, n)
<1> DEFINE before(x) == {y \in S : Precedes(y, x)}
<1>1. FirstRows(S, n) = {x \in S : Cardinality(before(x)) < n}
  BY DEF FirstRows
<1>2. ASSUME NEW x PROVE IsFiniteSet(before(x)) /\ Cardinality(before(x)) \in Nat
  <2>1. before(x) \subseteq S
    OBVIOUS
  <2> HIDE DEF before
  <2> QED
    BY <2>1, FS_Subset, FS_CardinalityType
<1>3. FirstRows(S, n) \subseteq S /\ IsFiniteSet(FirstRows(S, n))
  BY <1>1, FS_Subset
<1>4. ASSUME S # {} PROVE FirstRows(S, n) # {}
  <2>1. PICK x \in S : \A y \in S : ~Precedes(y, x)
    BY <1>4, FirstExists
  <2>2. before(x) = {}
    BY <2>1
  <2>3. Cardinality(before(x)) = 0
    BY <2>2, FS_EmptySet
  <2> QED
    BY <1>1, <2>1, <2>3
<1>5. ASSUME NEW x \in FirstRows(S, n), NEW y \in S, Precedes(y, x) PROVE y \in FirstRows(S, n)
  <2>1. x \in S /\ Cardinality(before(x)) < n
    BY <1>1, <1>5
  <2>2. before(y) \subseteq before(x)
    <3>1. ASSUME NEW z \in S, Precedes(z, y) PROVE Precedes(z, x)
      BY <1>5, <2>1, <3>1, PlaceIs DEF Precedes
    <3> QED
      BY <3>1
  <2>3. Cardinality(before(y)) <= Cardinality(before(x))
    BY <1>2, <2>2, FS_Subset
  <2>4. Cardinality(before(y)) < n
    BY <1>2, <2>1, <2>3
  <2> QED
    BY <1>1, <2>4
<1> QED
  BY <1>3, <1>4, <1>5

\* What a scan has before it.
LEMMA RemainingIs ==
    ASSUME RowsTyped, NEW v, NEW s \in Scans, s.phase \in Kinds
    PROVE  LET R == Remaining(v, s) IN
           /\ R \in SUBSET Places /\ IsFiniteSet(R)
           /\ \A x \in R : /\ x[2] \in RowsOf(v, x[1]) /\ x[2] <= s.upper[x[1]]
                           /\ s.phase = "page" => x[1] = "page"
           /\ \A k \in Kinds : \A m \in RowsOf(v, k) :
                 m <= s.upper[k] /\ ~Behind(s, k, m) => <<k, m>> \in R
<1> DEFINE R == Remaining(v, s)
           D == DOMAIN rows["detail"] \union DOMAIN rows["page"]
           T == Top(D)
           from(k) == IF s.phase = k THEN s.after ELSE 0
           kinds == CASE s.phase = "detail" -> Kinds [] s.phase = "page" -> {"page"} [] OTHER -> {}
<1>1. T \in Nat /\ \A m \in D : m <= T
  <2>1. D \in SUBSET Nat /\ IsFiniteSet(D)
    BY RowsAreFinite, FS_Union DEF Kinds
  <2> QED
    BY <2>1, TopIs
<1> HIDE DEF T
<1>2. R = {x \in Kinds \X (1..T) : /\ x[1] \in kinds /\ x[2] \in RowsOf(v, x[1])
                                   /\ from(x[1]) < x[2] /\ x[2] <= s.upper[x[1]]}
  BY DEF Remaining, T
<1>3. R \subseteq Kinds \X (1..T)
  BY <1>2
<1>4. IsFiniteSet(R)
  <2>1. IsFiniteSet(Kinds)
    <3>1. IsFiniteSet({} \union {"detail"})
      BY FS_EmptySet, FS_AddElement
    <3>2. IsFiniteSet(({} \union {"detail"}) \union {"page"})
      BY <3>1, FS_AddElement
    <3>3. Kinds = ({} \union {"detail"}) \union {"page"}
      BY DEF Kinds
    <3> QED
      BY <3>2, <3>3
  <2>2. IsFiniteSet(1..T)
    BY <1>1, FS_Interval
  <2>3. IsFiniteSet(Kinds \X (1..T))
    BY <2>1, <2>2, FS_Product
  <2> QED
    BY <1>3, <2>3, FS_Subset
<1>5. R \in SUBSET Places
  BY <1>1, <1>3 DEF Places
<1>6. \A x \in R : /\ x[2] \in RowsOf(v, x[1]) /\ x[2] <= s.upper[x[1]]
                   /\ s.phase = "page" => x[1] = "page"
  BY <1>2
<1>7. ASSUME NEW k \in Kinds, NEW m \in RowsOf(v, k), m <= s.upper[k], ~Behind(s, k, m)
      PROVE  <<k, m>> \in R
  <2>1. m \in DOMAIN rows[k] /\ m \in Nat \ {0}
    BY RowsAreFinite
  <2>2. m \in 1..T
    BY <1>1, <2>1 DEF Kinds
  <2>3. s.after \in Nat
    BY DEF Scans
  <2>4. k \in kinds /\ from(k) < m
    BY <1>7, <2>1, <2>3 DEF Behind, BehindPlace, Kinds
  <2> QED
    BY <1>2, <1>7, <2>2, <2>4
<1> QED
  BY <1>4, <1>5, <1>6, <1>7 DEF R

\* Where a batch leaves the scan.
PlaceAfter(s, todo, taken, limit) ==
    LET last == LastRow(taken) IN
    IF taken = {} \/ (taken = todo /\ Cardinality(taken) < limit) THEN <<"complete", 0>>
    ELSE IF last[2] # s.upper[last[1]] THEN last
    ELSE IF last[1] = "detail" THEN <<"page", 0>> ELSE <<"complete", 0>>

\* A batch of the scan s of v passes over no row it does not take.
LEMMA BatchIs ==
    ASSUME RowsTyped, NEW v, NEW s \in Scans, s.phase \in Kinds, NEW n \in Nat \ {0}, NEW limit
    PROVE  LET todo == Remaining(v, s)
               taken == FirstRows(todo, n)
               place == PlaceAfter(s, todo, taken, limit)
           IN  /\ taken \in SUBSET Places /\ IsFiniteSet(taken)
               /\ place[1] \in Kinds \union {"complete"} /\ place[2] \in Nat
               /\ s.phase = "page" => place[1] # "detail"
               /\ \A x \in taken : x[2] \in RowsOf(v, x[1])
               /\ \A k \in Kinds : \A m \in RowsOf(v, k) :
                     m <= s.upper[k] /\ BehindPlace(place[1], place[2], k, m)
                        => Behind(s, k, m) \/ <<k, m>> \in taken
<1> DEFINE todo == Remaining(v, s)
           taken == FirstRows(todo, n)
           place == PlaceAfter(s, todo, taken, limit)
           last == LastRow(taken)
<1>1. /\ todo \in SUBSET Places /\ IsFiniteSet(todo)
      /\ \A x \in todo : /\ x[2] \in RowsOf(v, x[1]) /\ x[2] <= s.upper[x[1]]
                         /\ s.phase = "page" => x[1] = "page"
      /\ \A k \in Kinds : \A m \in RowsOf(v, k) :
            m <= s.upper[k] /\ ~Behind(s, k, m) => <<k, m>> \in todo
  BY RemainingIs
<1> HIDE DEF todo
<1>2. /\ taken \subseteq todo /\ IsFiniteSet(taken) /\ (todo # {} => taken # {})
      /\ \A x \in taken : \A y \in todo : Precedes(y, x) => y \in taken
  BY <1>1, FirstRowsAre
<1> HIDE DEF taken
<1>3. taken # {} => last \in taken /\ \A y \in taken : y = last \/ Precedes(y, last)
  BY <1>1, <1>2, LastIs
<1>4. \/ place = <<"complete", 0>> /\ (taken = {} \/ taken = todo)
      \/ taken # {} /\ last[2] # s.upper[last[1]] /\ place = last
      \/ taken # {} /\ last[2] = s.upper[last[1]] /\ last[1] = "detail" /\ place = <<"page", 0>>
      \/ taken # {} /\ last[2] = s.upper[last[1]] /\ last[1] # "detail" /\ place = <<"complete", 0>>
  BY DEF PlaceAfter
<1> HIDE DEF place, last
<1>5. /\ place[1] \in Kinds \union {"complete"} /\ place[2] \in Nat
      /\ s.phase = "page" => place[1] # "detail"
  <2>1. taken # {} => /\ last \in Places /\ last[1] \in Kinds /\ last[2] \in Nat
                      /\ s.phase = "page" => last[1] = "page"
    BY <1>1, <1>2, <1>3, PlaceIs DEF Kinds
  <2> QED
    BY <1>4, <2>1 DEF Kinds
<1>6. ASSUME NEW k \in Kinds, NEW m \in RowsOf(v, k), m <= s.upper[k],
             BehindPlace(place[1], place[2], k, m), ~Behind(s, k, m)
      PROVE  <<k, m>> \in taken
  <2> DEFINE x == <<k, m>>
  <2>1. x \in todo /\ x \in Places /\ m \in Nat
    BY <1>1, <1>6, RowsAreFinite
  <2>2. CASE taken = {} \/ taken = todo
    BY <1>2, <2>1, <2>2
  <2>3. CASE taken # {} /\ taken # todo
    <3>1. /\ last \in taken /\ last \in todo /\ last = <<last[1], last[2]>> /\ last[2] \in Nat
          /\ last[1] \in {"detail", "page"} /\ last[2] <= s.upper[last[1]]
      BY <1>1, <1>2, <1>3, <2>3, PlaceIs
    <3>2. SUFFICES x = last \/ Precedes(x, last)
      BY <1>2, <2>1, <3>1
    <3>3. /\ Precedes(x, last) <=> IF k = last[1] THEN m < last[2] ELSE k = "detail"
      BY DEF Precedes
    <3>4. k \in {"detail", "page"}
      BY DEF Kinds
    <3>5. CASE last[2] # s.upper[last[1]] /\ place = last
      <4>1. BehindPlace(last[1], last[2], k, m)
        BY <1>6, <3>5
      <4>2. \/ last[1] = "page" /\ (k = "detail" \/ m <= last[2])
            \/ last[1] = "detail" /\ k = "detail" /\ m <= last[2]
        BY <3>1, <4>1 DEF BehindPlace
      <4> QED
        BY <2>1, <3>1, <3>3, <3>4, <4>2
    <3>6. CASE last[2] = s.upper[last[1]] /\ last[1] = "detail" /\ place = <<"page", 0>>
      <4>1. BehindPlace("page", 0, k, m) /\ m \in Nat \ {0}
        BY <1>6, <3>6, RowsAreFinite
      <4>2. k = "detail" /\ m <= last[2]
        BY <1>6, <3>6, <4>1 DEF BehindPlace
      <4> QED
        BY <2>1, <3>1, <3>3, <3>6, <4>2
    <3>7. CASE last[2] = s.upper[last[1]] /\ last[1] # "detail" /\ place = <<"complete", 0>>
      <4>1. k = "page" => m <= last[2]
        BY <1>6, <3>1, <3>7
      <4> QED
        BY <2>1, <3>1, <3>3, <3>4, <3>7, <4>1
    <3> QED
      BY <1>4, <2>3, <3>5, <3>6, <3>7
  <2> QED
    BY <2>2, <2>3
<1>7. \A x \in taken : x[2] \in RowsOf(v, x[1])
  BY <1>1, <1>2
<1>8. taken \in SUBSET Places
  BY <1>1, <1>2
<1> QED
  BY <1>2, <1>5, <1>6, <1>7, <1>8 DEF todo, taken, place

LEMMA ObjectsAreFinite ==
    ASSUME NEW S, IsFiniteSet(S), NEW T
    PROVE  /\ IsFiniteSet(ObjectsOf(S) \cap T) /\ Cardinality(ObjectsOf(S) \cap T) \in Nat
           /\ Cardinality(ObjectsOf(S) \cap T) = 0 => ObjectsOf(S) \cap T = {}
<1>1. [x \in S |-> rows[x[1]][x[2]]] \in Surjection(S, ObjectsOf(S))
  BY DEF Surjection, ObjectsOf
<1>2. IsFiniteSet(ObjectsOf(S))
  BY <1>1, FS_Surjection
<1>3. IsFiniteSet(ObjectsOf(S) \cap T)
  BY <1>2, FS_Subset
<1> QED
  BY <1>3, FS_CardinalityType, FS_EmptySet

\* The scan after a batch.
LEMMA WalkedIs ==
    ASSUME NEW s \in Scans, NEW todo, NEW taken, IsFiniteSet(taken), NEW limit,
           PlaceAfter(s, todo, taken, limit)[1] \in Kinds \union {"complete"},
           PlaceAfter(s, todo, taken, limit)[2] \in Nat
    PROVE  LET t == Walked(s, todo, taken, limit) IN
           /\ t \in Scans /\ t.upper = s.upper /\ t.total = s.total /\ t.cut = s.cut
           /\ t.phase = PlaceAfter(s, todo, taken, limit)[1]
           /\ t.after = PlaceAfter(s, todo, taken, limit)[2]
           /\ t.checked >= s.checked
           /\ t.invalid = 0 => s.invalid = 0 /\ ObjectsOf(taken) \cap decayed = {}
           /\ ~t.changed => Fresh(s)
<1> DEFINE place == PlaceAfter(s, todo, taken, limit)
           phase == place[1]
           after == place[2]
           checked == s.checked + Cardinality(taken)
           invalid == s.invalid + Cardinality(ObjectsOf(taken) \cap decayed)
           moved == ChangedNow(s)
           h == [s EXCEPT !.phase = phase, !.after = after, !.checked = checked,
                          !.invalid = invalid, !.changed = moved]
           z == moved \/ h.checked > h.total \/ (h.phase = "complete" /\ h.checked # h.total)
           t == Walked(s, todo, taken, limit)
<1>1. t = Settled(h)
  BY DEF Walked, PlaceAfter
<1>2. /\ phase \in Kinds \union {"complete"} /\ after \in Nat /\ checked \in Nat /\ invalid \in Nat
      /\ checked >= s.checked /\ moved \in BOOLEAN
      /\ invalid = 0 => s.invalid = 0 /\ ObjectsOf(taken) \cap decayed = {}
  <2>1. Cardinality(taken) \in Nat
    BY FS_CardinalityType
  <2>2. s.checked \in Nat /\ s.invalid \in Nat
    BY DEF Scans
  <2>3. Cardinality(ObjectsOf(taken) \cap decayed) \in Nat
    BY ObjectsAreFinite
  <2>4. Cardinality(ObjectsOf(taken) \cap decayed) = 0 => ObjectsOf(taken) \cap decayed = {}
    BY ObjectsAreFinite
  <2>5. moved \in BOOLEAN
    BY DEF ChangedNow, Scans
  <2> QED
    BY <2>1, <2>2, <2>3, <2>4, <2>5
<1>3. ~moved => Fresh(s)
  BY DEF ChangedNow, Fresh
<1> HIDE DEF phase, after, checked, invalid, moved, t, place
<1>4. /\ h \in Scans /\ h.upper = s.upper /\ h.total = s.total /\ h.cut = s.cut
      /\ h.phase = phase /\ h.after = after /\ h.checked = checked /\ h.invalid = invalid
      /\ h.changed = moved
  BY <1>2 DEF Scans
<1>5. t = [h EXCEPT !.changed = z] /\ z \in BOOLEAN /\ (~z => ~moved)
  BY <1>1, <1>2, <1>4 DEF Settled
<1> HIDE DEF h, z
<1>6. /\ t \in Scans /\ t.upper = s.upper /\ t.total = s.total /\ t.cut = s.cut
      /\ t.phase = phase /\ t.after = after /\ t.checked = checked /\ t.invalid = invalid
      /\ t.changed = z
  BY <1>4, <1>5 DEF Scans
<1> QED
  BY <1>2, <1>3, <1>5, <1>6 DEF phase, after, t, place

\* What the indexes of its pages say.
LEMMA ObservedIs ==
    ASSUME NEW l \in LinkSets, NEW taken \in SUBSET Places, IsFiniteSet(taken)
    PROVE  LET m == Observed(l, taken) IN
           /\ m \in LinkSets /\ m.cut = l.cut
           /\ m.conflicts = 0 /\ m.unclear = 0 =>
                 /\ l.conflicts = 0 /\ l.unclear = 0
                 /\ \A x \in taken : x[1] = "page" => rows[x[1]][x[2]] \notin Conflicting
<1> DEFINE pages == {x \in taken : x[1] = "page"}
           sound == ObjectsOf(pages) \ decayed
           checked == l.checked + Cardinality(pages)
           conflicts == l.conflicts + Cardinality(sound \cap Conflicting)
           unclear == l.unclear + Cardinality(ObjectsOf(pages) \cap decayed)
           after == IF pages = {} THEN l.after ELSE LastRow(pages)[2]
           m == Observed(l, taken)
<1>1. m = [l EXCEPT !.checked = checked, !.conflicts = conflicts, !.unclear = unclear,
                    !.after = after]
  BY DEF Observed
<1>2. pages \in SUBSET Places /\ IsFiniteSet(pages) /\ Cardinality(pages) \in Nat
  BY FS_Subset, FS_CardinalityType
<1>3. ObjectsOf(pages) \cap (Conflicting \ decayed) = sound \cap Conflicting
  OBVIOUS
<1>4. \A x \in taken : x[1] = "page" => rows[x[1]][x[2]] \in ObjectsOf(pages)
  BY DEF ObjectsOf
<1> HIDE DEF pages
<1>5. /\ Cardinality(sound \cap Conflicting) \in Nat
      /\ Cardinality(sound \cap Conflicting) = 0 => sound \cap Conflicting = {}
  BY <1>2, <1>3, ObjectsAreFinite
<1>6. /\ Cardinality(ObjectsOf(pages) \cap decayed) \in Nat
      /\ Cardinality(ObjectsOf(pages) \cap decayed) = 0 => ObjectsOf(pages) \cap decayed = {}
  BY <1>2, ObjectsAreFinite
<1>7. /\ checked \in Nat /\ conflicts \in Nat /\ unclear \in Nat /\ after \in Nat
      /\ conflicts = 0 => l.conflicts = 0 /\ sound \cap Conflicting = {}
      /\ unclear = 0 => l.unclear = 0 /\ ObjectsOf(pages) \cap decayed = {}
  <2>1. l.checked \in Nat /\ l.conflicts \in Nat /\ l.unclear \in Nat /\ l.after \in Nat
    BY DEF LinkSets
  <2>2. after \in Nat
    BY <1>2, <2>1, LastIs, PlaceIs
  <2> QED
    BY <1>2, <1>5, <1>6, <2>1, <2>2
<1>8. conflicts = 0 /\ unclear = 0 =>
        \A x \in taken : x[1] = "page" => rows[x[1]][x[2]] \notin Conflicting
  BY <1>4, <1>7
<1> HIDE DEF checked, conflicts, unclear, after, m
<1>9. m \in LinkSets /\ m.cut = l.cut /\ m.conflicts = conflicts /\ m.unclear = unclear
  BY <1>1, <1>7 DEF LinkSets
<1> QED
  BY <1>7, <1>8, <1>9 DEF m

\* The payloads of a batch get their receipts.
LEMMA VerifiedIs ==
    ASSUME FenceTyped, NEW S \in SUBSET Objects, Verified(S)
    PROVE  /\ receipt' \in [Objects -> Receipts]
           /\ \A o \in S : receipt'[o] # "none" /\ (o \notin decayed => receipt'[o] = "verified")
           /\ \A o \in Objects \ S : receipt'[o] = receipt[o]
<1>1. receipt' = [o \in Objects |-> IF o \notin S THEN receipt[o]
                                    ELSE IF o \in decayed THEN "invalid" ELSE "verified"]
  BY DEF Verified
<1> QED
  BY <1>1 DEF FenceTyped, Receipts

\* A scan that is under way in the transaction of a batch.
UnderWay(v, s, l) ==
    /\ s \in Scans /\ l \in LinkSets /\ s.phase \in Kinds /\ l.cut = s.cut /\ Past(s.cut)
    /\ Fresh(s) => Walks(v, s, l)

LEMMA StepIs ==
    ASSUME RowsTyped, FenceTyped, NEW v \in Vehicles, NEW s, NEW l, UnderWay(v, s, l),
           NEW limit \in Nat \ {0}, Step(v, s, l, limit), UNCHANGED <<rows, fence>>
    PROVE  \E t \in Scans : \E m \in LinkSets : \E S \in SUBSET Objects :
              /\ scan' = [scan EXCEPT ![v] = t] /\ links' = [links EXCEPT ![v] = m]
              /\ Verified(S) /\ \A o \in S : Vehicle[o] = v
              /\ m.cut = t.cut /\ Past(t.cut)
              /\ Fresh(t) => Walks(v, t, m)'
              /\ t.phase \in Kinds \union {"complete"}
              /\ t.upper = s.upper /\ t.checked >= s.checked
              /\ s.phase = "page" => t.phase # "detail"
<1> DEFINE todo == Remaining(v, s)
<1>1. PICK n \in 1..limit :
        LET taken == FirstRows(todo, n) IN
        /\ scan' = [scan EXCEPT ![v] = Walked(s, todo, taken, IF taken = todo THEN limit ELSE n)]
        /\ links' = [links EXCEPT ![v] = IF l.cut = s.cut THEN Observed(l, taken) ELSE l]
        /\ Verified(ObjectsOf(taken))
  BY DEF Step
<1> DEFINE taken == FirstRows(todo, n)
           lim == IF taken = todo THEN limit ELSE n
           place == PlaceAfter(s, todo, taken, lim)
           S == ObjectsOf(taken)
<1>2. /\ s \in Scans /\ l \in LinkSets /\ s.phase \in Kinds /\ n \in Nat \ {0}
      /\ l.cut = s.cut /\ Past(s.cut)
  BY DEF UnderWay
<1>3. /\ taken \in SUBSET Places /\ IsFiniteSet(taken)
      /\ place[1] \in Kinds \union {"complete"} /\ place[2] \in Nat
      /\ s.phase = "page" => place[1] # "detail"
      /\ \A x \in taken : x[2] \in RowsOf(v, x[1])
      /\ \A k \in Kinds : \A i \in RowsOf(v, k) :
            i <= s.upper[k] /\ BehindPlace(place[1], place[2], k, i)
               => Behind(s, k, i) \/ <<k, i>> \in taken
  BY <1>2, BatchIs
<1>4. PICK t, m : /\ t = Walked(s, todo, taken, lim) /\ m = Observed(l, taken)
                  /\ scan' = [scan EXCEPT ![v] = t] /\ links' = [links EXCEPT ![v] = m]
                  /\ Verified(S)
  BY <1>1, <1>2
<1> HIDE DEF todo, taken, lim
<1>5. /\ t \in Scans /\ t.upper = s.upper /\ t.total = s.total /\ t.cut = s.cut
      /\ t.phase = place[1] /\ t.after = place[2] /\ t.checked >= s.checked
      /\ t.invalid = 0 => s.invalid = 0 /\ S \cap decayed = {}
      /\ ~t.changed => Fresh(s)
  BY <1>2, <1>3, <1>4, WalkedIs
<1>6. /\ m \in LinkSets /\ m.cut = l.cut
      /\ m.conflicts = 0 /\ m.unclear = 0 =>
            /\ l.conflicts = 0 /\ l.unclear = 0
            /\ \A x \in taken : x[1] = "page" => rows[x[1]][x[2]] \notin Conflicting
  BY <1>2, <1>3, <1>4, ObservedIs
<1>7. S \in SUBSET Objects /\ \A o \in S : Vehicle[o] = v
  <2>1. ASSUME NEW x \in taken PROVE rows[x[1]][x[2]] \in Objects /\ Vehicle[rows[x[1]][x[2]]] = v
    <3>1. x[2] \in RowsOf(v, x[1]) /\ x[1] \in Kinds
      BY <1>3, PlaceIs DEF Kinds
    <3>2. x[2] \in DOMAIN rows[x[1]] /\ Vehicle[rows[x[1]][x[2]]] = v
      BY <3>1 DEF RowsOf
    <3> QED
      BY <3>1, <3>2 DEF RowsTyped
  <2> QED
    BY <2>1 DEF ObjectsOf
<1> HIDE DEF S, place
<1>8. /\ receipt' \in [Objects -> Receipts]
      /\ \A o \in S : receipt'[o] # "none" /\ (o \notin decayed => receipt'[o] = "verified")
      /\ \A o \in Objects \ S : receipt'[o] = receipt[o]
  BY <1>4, <1>7, VerifiedIs
<1>9. ASSUME Fresh(t) PROVE Walks(v, t, m)'
  <2>1. Fresh(s) /\ Walks(v, s, l)
    BY <1>5, <1>9 DEF Fresh, UnderWay
  <2>2. \A k : RowsOf(v, k)' = RowsOf(v, k)
    BY DEF RowsOf
  <2>3. ASSUME NEW k \in Kinds, NEW i \in RowsOf(v, k), Behind(t, k, i)
        PROVE  /\ receipt'[rows[k][i]] # "none"
               /\ t.invalid = 0 => receipt'[rows[k][i]] = "verified"
               /\ k = "page" /\ m.conflicts = 0 /\ m.unclear = 0 => rows[k][i] \notin Conflicting
    <3>1. i <= s.upper[k]
      <4>1. s.upper[k] = Top(RowsOf(v, k))
        BY <2>1 DEF Walks
      <4>2. RowsOf(v, k) \in SUBSET Nat /\ IsFiniteSet(RowsOf(v, k))
        BY RowsAreFinite
      <4> QED
        BY <4>1, <4>2, TopIs
    <3>2. BehindPlace(place[1], place[2], k, i)
      BY <1>5, <2>3 DEF Behind
    <3>3. Behind(s, k, i) \/ <<k, i>> \in taken
      BY <1>3, <3>1, <3>2
    <3> DEFINE o == rows[k][i]
    <3>4. o \in Objects
      BY DEF RowsTyped, RowsOf
    <3>5. CASE <<k, i>> \in taken
      <4>1. o \in S
        BY <3>5 DEF S, ObjectsOf
      <4>2. k = "page" /\ m.conflicts = 0 /\ m.unclear = 0 => o \notin Conflicting
        BY <1>6, <3>5
      <4> QED
        BY <1>5, <1>8, <4>1, <4>2
    <3>6. CASE Behind(s, k, i) /\ <<k, i>> \notin taken
      <4>1. /\ receipt[o] # "none" /\ (s.invalid = 0 => receipt[o] = "verified")
            /\ k = "page" /\ l.conflicts = 0 /\ l.unclear = 0 => o \notin Conflicting
        BY <2>1, <3>6 DEF Walks
      <4> QED
        BY <1>5, <1>6, <1>8, <3>4, <4>1
    <3> QED
      BY <3>3, <3>5, <3>6
  <2>4. /\ \A k \in Kinds : t.upper[k] = Top(RowsOf(v, k))
        /\ t.total > 0 => \E k \in Kinds : RowsOf(v, k) # {}
    BY <1>5, <2>1 DEF Walks
  <2> QED
    BY <2>2, <2>3, <2>4 DEF Walks
<1>10. Past(t.cut) /\ m.cut = t.cut
  BY <1>2, <1>5, <1>6
<1> QED
  BY <1>3, <1>4, <1>5, <1>6, <1>7, <1>9, <1>10

\* A scan begins under way.
LEMMA CapturedIs ==
    ASSUME RowsTyped, FenceTyped, NEW v \in Vehicles
    PROVE  UnderWay(v, Captured(v), StartedLinks(v, Captured(v)))
<1> DEFINE upper == [k \in Kinds |-> Top(RowsOf(v, k))]
           total == Cardinality(RowsOf(v, "detail")) + Cardinality(RowsOf(v, "page"))
           pages == Cardinality(RowsOf(v, "page"))
           s == Captured(v)
           l == StartedLinks(v, s)
           cut == s.cut
<1>1. /\ s = [NoScan EXCEPT !.phase = "detail", !.cut = Cut, !.upper = upper, !.total = total]
      /\ l = [NoLinks EXCEPT !.cut = cut, !.total = pages]
  BY DEF Captured, StartedLinks
<1>3. \A k \in Kinds : IsFiniteSet(RowsOf(v, k)) /\ RowsOf(v, k) \in SUBSET (Nat \ {0})
  BY RowsAreFinite
<1>4. /\ upper \in [Kinds -> Nat] /\ total \in Nat /\ pages \in Nat
      /\ total > 0 => \E k \in Kinds : RowsOf(v, k) # {}
  <2>1. "detail" \in Kinds /\ "page" \in Kinds
    BY DEF Kinds
  <2>2. \A k \in Kinds : Top(RowsOf(v, k)) \in Nat
    BY <1>3, TopIs
  <2>3. \A k \in Kinds : /\ Cardinality(RowsOf(v, k)) \in Nat
                         /\ Cardinality(RowsOf(v, k)) = 0 <=> RowsOf(v, k) = {}
    BY <1>3, FS_CardinalityType, FS_EmptySet
  <2> QED
    BY <2>1, <2>2, <2>3
<1>5. Cut \in Nat \X Nat /\ Past(Cut)
  BY DEF Cut, FenceTyped, Past
<1>6. \A k \in Kinds : upper[k] = Top(RowsOf(v, k))
  OBVIOUS
<1> HIDE DEF upper, total, pages, s, l, cut
<1>2. /\ NoScan \in Scans /\ NoScan.after = 0 /\ NoScan.changed = FALSE
      /\ NoLinks \in LinkSets
  BY DEF NoScan, Scans, NoLinks, LinkSets
<1>7. /\ s \in Scans /\ s.phase = "detail" /\ s.cut = Cut /\ s.upper = upper /\ s.total = total
      /\ s.after = 0
  BY <1>1, <1>2, <1>4, <1>5 DEF Scans, Kinds
<1>8. l \in LinkSets /\ l.cut = s.cut /\ s.phase \in Kinds
  <2>1. cut = s.cut /\ cut \in Nat \X Nat
    BY <1>5, <1>7 DEF cut
  <2> QED
    BY <1>1, <1>2, <1>4, <1>7, <2>1 DEF LinkSets, Kinds
<1>9. Walks(v, s, l)
  <2>1. \A k \in Kinds : \A n \in RowsOf(v, k) : ~Behind(s, k, n)
    BY <1>3, <1>7 DEF Behind, BehindPlace
  <2> QED
    BY <1>4, <1>6, <1>7, <2>1 DEF Walks
<1> QED
  BY <1>5, <1>7, <1>8, <1>9 DEF UnderWay, s, l

-----------------------------------------------------------------------------
\* What a write to the archive does to the counters: no scan is of the same cut any more.
LEMMA CountersMove ==
    ASSUME FenceTyped, \A v \in Vehicles : ScanInv(v), NEW i \in Nat, NEW r \in Nat, i + r > 0,
           fence' \in [revision : Nat, inventory : Nat, of : [Vehicles -> Nat]],
           fence'.revision = fence.revision + r, fence'.inventory = fence.inventory + i,
           \A v \in Vehicles : fence.of[v] <= fence'.of[v],
           UNCHANGED <<marker, scan, links>>, receipt' \in [Objects -> Receipts]
    PROVE  FenceTyped' /\ \A v \in Vehicles : ScanInv(v)'
<1>1. /\ fence.revision \in Nat /\ fence.inventory \in Nat
      /\ fence.of \in [Vehicles -> Nat] /\ marker \in [Vehicles -> Nat \union {Never}]
      /\ \A v \in Vehicles : marker[v] <= fence.of[v] /\ scan[v] \in Scans
  BY DEF FenceTyped
<1>3. FenceTyped'
  <2>1. ASSUME NEW v \in Vehicles PROVE marker[v] <= fence'.of[v]
    <3>1. marker[v] \in Int /\ fence.of[v] \in Nat /\ fence'.of[v] \in Nat
      BY <1>1 DEF Never
    <3> QED
      BY <1>1, <3>1
  <2> QED
    BY <2>1 DEF FenceTyped
<1>4. ASSUME NEW v \in Vehicles PROVE ScanInv(v)'
  <2> DEFINE c == scan[v].cut
  <2>1. c[1] \in Nat /\ c[2] \in Nat /\ c[1] <= fence.revision /\ c[2] <= fence.inventory
    BY <1>1 DEF Scans, ScanInv, Past
  <2>2. c[1] <= fence'.revision /\ c[2] <= fence'.inventory
        /\ ~(c[1] = fence'.revision /\ c[2] = fence'.inventory)
    BY <1>1, <2>1
  <2>3. Past(scan[v].cut)' /\ ~Fresh(scan[v])'
    BY <2>2 DEF Past, Fresh, Cut
  <2> QED
    BY <2>3 DEF ScanInv
<1> QED
  BY <1>3, <1>4

LEMMA Advances ==
    ASSUME FenceTyped, \A u \in Vehicles : ScanInv(u), NEW v \in Vehicles, Advance(v),
           UNCHANGED <<marker, scan, links>>, receipt' \in [Objects -> Receipts]
    PROVE  /\ FenceTyped' /\ \A u \in Vehicles : ScanInv(u)'
           /\ marker'[v] # fence'.of[v]
           /\ \A u \in Vehicles \ {v} : fence'.of[u] = fence.of[u]
<1> DEFINE of == [fence.of EXCEPT ![v] = fence.of[v] + 1]
<1>1. /\ fence \in [revision : Nat, inventory : Nat, of : [Vehicles -> Nat]]
      /\ marker[v] \in Int /\ marker[v] <= fence.of[v]
  BY DEF FenceTyped, Never
<1>2. fence' = [fence EXCEPT !.inventory = fence.inventory + 1, !.of = of]
  BY <1>1 DEF Advance
<1>3. of \in [Vehicles -> Nat] /\ of[v] = fence.of[v] + 1 /\ \A u \in Vehicles \ {v} : of[u] = fence.of[u]
  BY <1>1
<1> HIDE DEF of
<1>4. /\ fence'.revision = fence.revision + 0 /\ fence'.inventory = fence.inventory + 1
      /\ fence'.of = of /\ fence' \in [revision : Nat, inventory : Nat, of : [Vehicles -> Nat]]
  <2> DEFINE i == fence.inventory + 1
  <2>1. i \in Nat /\ fence' = [fence EXCEPT !.inventory = i, !.of = of]
    BY <1>1, <1>2
  <2> HIDE DEF i
  <2>2. /\ fence'.revision = fence.revision /\ fence'.inventory = i /\ fence'.of = of
        /\ fence' \in [revision : Nat, inventory : Nat, of : [Vehicles -> Nat]]
    BY <1>1, <1>3, <2>1
  <2>3. fence.revision + 0 = fence.revision
    BY <1>1
  <2> QED
    BY <2>2, <2>3 DEF i
<1>5. \A u \in Vehicles : fence.of[u] <= fence'.of[u]
  BY <1>1, <1>3, <1>4
<1>6. FenceTyped' /\ \A u \in Vehicles : ScanInv(u)'
  BY <1>4, <1>5, CountersMove
<1>7. marker'[v] # fence'.of[v]
  BY <1>1, <1>3, <1>4
<1> QED
  BY <1>3, <1>4, <1>6, <1>7

\* Nothing of the vehicle changes.
LEMMA MarkerRests ==
    ASSUME NEW u \in Vehicles, MarkerInv(u), marker'[u] = marker[u], fence'.of[u] = fence.of[u],
           \A o \in Objects : Vehicle[o] = u /\ receipt'[o] = "none" => receipt[o] = "none",
           Present(u)' \subseteq Present(u)
    PROVE  MarkerInv(u)'
<1>1. Pending(u)' \subseteq Pending(u)
  BY DEF Pending, Present
<1> QED
  BY <1>1 DEF MarkerInv

\* What a scan stands on does not change: nobody takes a receipt away.
LEMMA ScanRests ==
    ASSUME RowsTyped, NEW u \in Vehicles, ScanInv(u), UNCHANGED <<rows, fence>>,
           scan'[u] = scan[u], links'[u] = links[u],
           \A o \in Objects : Vehicle[o] = u /\ receipt[o] # "none" => receipt'[o] = receipt[o]
    PROVE  ScanInv(u)'
<1>1. \A k : RowsOf(u, k)' = RowsOf(u, k)
  BY DEF RowsOf
<1>2. \A k \in Kinds : \A n \in RowsOf(u, k) : rows[k][n] \in Objects /\ Vehicle[rows[k][n]] = u
  BY DEF RowsOf, RowsTyped
<1>3. ASSUME NEW s, NEW l, Walks(u, s, l) PROVE Walks(u, s, l)'
  <2>1. ASSUME NEW k \in Kinds, NEW n \in RowsOf(u, k), Behind(s, k, n)
        PROVE  /\ receipt'[rows[k][n]] # "none"
               /\ s.invalid = 0 => receipt'[rows[k][n]] = "verified"
               /\ k = "page" /\ l.conflicts = 0 /\ l.unclear = 0 => rows[k][n] \notin Conflicting
    BY <1>2, <1>3, <2>1 DEF Walks
  <2> QED
    BY <1>1, <1>3, <2>1 DEF Walks
<1>4. \A c : Past(c)' <=> Past(c)
  BY DEF Past
<1>5. \A s : Fresh(s)' <=> Fresh(s)
  BY DEF Fresh, Cut
<1>6. /\ links[u].cut = scan[u].cut /\ Past(scan[u].cut)
      /\ scan[u].phase # "none" /\ Fresh(scan[u]) => Walks(u, scan[u], links[u])
  BY DEF ScanInv
<1>7. PICK s, l : s = scan[u] /\ l = links[u]
  OBVIOUS
<1>8. /\ l.cut = s.cut /\ Past(s.cut)' /\ (s.phase # "none" /\ Fresh(s)' => Walks(u, s, l)')
  BY <1>3, <1>4, <1>5, <1>6, <1>7
<1>9. s = scan'[u] /\ l = links'[u]
  BY <1>7
<1> QED
  BY <1>8, <1>9 DEF ScanInv, Past, Fresh, Walks, Cut, Behind

\* A scan under way is not begun again, and moves forward.
MovesOn(v) ==
    scan[v].phase \in Kinds =>
       /\ scan'[v].upper = scan[v].upper /\ scan'[v].checked >= scan[v].checked
       /\ scan[v].phase = "page" => scan'[v].phase # "detail"

LEMMA ScansTyped ==
    ASSUME FenceTyped, NEW v \in Vehicles
    PROVE  /\ scan[v] \in Scans /\ links[v] \in LinkSets /\ scan[v].checked \in Nat
           /\ scan[v].phase \in Kinds \union {"none", "complete"}
BY DEF FenceTyped, Scans

LEMMA ScansStay ==
    ASSUME FenceTyped, UNCHANGED scan PROVE \A v \in Vehicles : MovesOn(v)
BY ScansTyped DEF MovesOn

LEMMA BatchKeeps ==
    ASSUME AuditInv, NEW v \in Vehicles, NEW s, NEW l, UnderWay(v, s, l), NEW limit \in Nat \ {0},
           Step(v, s, l, limit), scan[v].phase \in Kinds => s = scan[v],
           UNCHANGED <<rows, fence, marker>>
    PROVE  AuditInv' /\ \A u \in Vehicles : MovesOn(u)
<1>1. /\ RowsTyped /\ FenceTyped /\ \A u \in Vehicles : ScanInv(u) /\ MarkerInv(u)
  BY DEF AuditInv
<1>2. PICK t \in Scans, m \in LinkSets, S \in SUBSET Objects :
         /\ scan' = [scan EXCEPT ![v] = t] /\ links' = [links EXCEPT ![v] = m]
         /\ Verified(S) /\ \A o \in S : Vehicle[o] = v
         /\ m.cut = t.cut /\ Past(t.cut)
         /\ Fresh(t) => Walks(v, t, m)'
         /\ t.phase \in Kinds \union {"complete"}
         /\ t.upper = s.upper /\ t.checked >= s.checked
         /\ s.phase = "page" => t.phase # "detail"
  BY <1>1, StepIs
<1>3. /\ receipt' \in [Objects -> Receipts]
      /\ \A o \in S : receipt'[o] # "none"
      /\ \A o \in Objects \ S : receipt'[o] = receipt[o]
  BY <1>1, <1>2, VerifiedIs
<1>4. /\ scan \in [Vehicles -> Scans] /\ links \in [Vehicles -> LinkSets]
  BY <1>1 DEF FenceTyped
<1>5. RowsTyped' /\ FenceTyped'
  <2>1. scan' \in [Vehicles -> Scans] /\ links' \in [Vehicles -> LinkSets]
    BY <1>2, <1>4
  <2> QED
    BY <1>1, <1>3, <2>1 DEF RowsTyped, FenceTyped
<1>6. ScanInv(v)'
  <2>1. scan'[v] = t /\ links'[v] = m
    BY <1>2, <1>4
  <2>2. Past(t.cut)' /\ (Fresh(t)' => Fresh(t))
    BY <1>2 DEF Past, Fresh, Cut
  <2>3. m.cut = t.cut /\ (Fresh(t) => Walks(v, t, m)')
    BY <1>2
  <2> QED
    BY <2>1, <2>2, <2>3 DEF ScanInv, Past, Fresh, Walks, Cut, Behind
<1>7. ASSUME NEW u \in Vehicles, u # v PROVE ScanInv(u)'
  <2>1. scan'[u] = scan[u] /\ links'[u] = links[u]
    BY <1>2, <1>4, <1>7
  <2>2. \A o \in Objects : Vehicle[o] = u => receipt'[o] = receipt[o]
    BY <1>2, <1>3, <1>7
  <2> QED
    BY <1>1, <2>1, <2>2, ScanRests
<1>8. ASSUME NEW u \in Vehicles PROVE MarkerInv(u)'
  <2>1. Present(u)' \subseteq Present(u)
    BY DEF Present
  <2>2. \A o \in Objects : receipt'[o] = "none" => receipt[o] = "none"
    BY <1>3
  <2> QED
    BY <1>1, <2>1, <2>2, MarkerRests
<1>9. ASSUME NEW u \in Vehicles PROVE MovesOn(u)
  <2>1. CASE u = v
    <3>1. scan'[u] = t
      BY <1>2, <1>4, <2>1
    <3> QED
      BY <1>2, <2>1, <3>1 DEF MovesOn
  <2>2. CASE u # v
    <3>1. scan'[u] = scan[u]
      BY <1>2, <1>4, <2>2
    <3> QED
      BY <1>1, <3>1, ScansTyped DEF MovesOn
  <2> QED
    BY <2>1, <2>2
<1> QED
  BY <1>5, <1>6, <1>7, <1>8, <1>9 DEF AuditInv

LEMMA DeltaKeeps ==
    ASSUME AuditInv, NEW v \in Vehicles, Delta(v), UNCHANGED <<rows, fence>>
    PROVE  AuditInv' /\ \A u \in Vehicles : MovesOn(u)
<1>1. /\ RowsTyped /\ FenceTyped /\ \A u \in Vehicles : ScanInv(u) /\ MarkerInv(u)
  BY DEF AuditInv
<1>2. PICK S \in SUBSET Pending(v) :
         /\ Verified(S)
         /\ marker' = IF NothingPends(v, S) THEN [marker EXCEPT ![v] = fence.of[v]] ELSE marker
         /\ UNCHANGED <<scan, links, due>>
  BY DEF Delta
<1>3. S \in SUBSET Objects /\ \A o \in S : receipt[o] = "none"
  BY DEF Pending, Present
<1>4. /\ receipt' \in [Objects -> Receipts]
      /\ \A o \in S : receipt'[o] # "none"
      /\ \A o \in Objects \ S : receipt'[o] = receipt[o]
  BY <1>1, <1>2, <1>3, VerifiedIs
<1>5. /\ marker \in [Vehicles -> Nat \union {Never}] /\ fence.of \in [Vehicles -> Nat]
      /\ \A u \in Vehicles : marker[u] <= fence.of[u]
  BY <1>1 DEF FenceTyped
<1>6. RowsTyped' /\ FenceTyped'
  <2>1. marker' \in [Vehicles -> Nat \union {Never}]
    BY <1>2, <1>5
  <2>2. \A u \in Vehicles : marker'[u] <= fence.of[u]
    BY <1>2, <1>5
  <2> QED
    BY <1>1, <1>2, <1>4, <2>1, <2>2 DEF RowsTyped, FenceTyped
<1>7. ASSUME NEW u \in Vehicles PROVE ScanInv(u)'
  BY <1>1, <1>2, <1>3, <1>4, ScanRests
<1>8. \A u : Present(u)' = Present(u)
  BY DEF Present
<1>9. ASSUME NEW u \in Vehicles PROVE MarkerInv(u)'
  <2>1. CASE u = v /\ NothingPends(v, S)
    <3>1. \A o \in Present(v) : receipt[o] = "none" => o \in S
      BY <2>1 DEF NothingPends, Pending
    <3>2. \A o \in Present(v) : receipt'[o] # "none"
      BY <1>3, <1>4, <3>1 DEF Present
    <3> QED
      BY <1>8, <2>1, <3>2 DEF MarkerInv, Pending
  <2>2. CASE ~(u = v /\ NothingPends(v, S))
    <3>1. marker'[u] = marker[u]
      BY <1>2, <1>5, <2>2
    <3>2. \A o \in Objects : receipt'[o] = "none" => receipt[o] = "none"
      BY <1>3, <1>4
    <3> QED
      BY <1>1, <1>8, <3>1, <3>2, MarkerRests
  <2> QED
    BY <2>1, <2>2
<1>10. \A u \in Vehicles : MovesOn(u)
  BY <1>1, <1>2, ScansStay
<1> QED
  BY <1>6, <1>7, <1>9, <1>10 DEF AuditInv

\* A write that moves the counters of v alone, and takes receipts of v's payloads only.
LEMMA WriteKeeps ==
    ASSUME AuditInv, NEW v \in Vehicles, Advance(v), RowsTyped',
           UNCHANGED <<scan, links, marker>>, receipt' \in [Objects -> Receipts],
           \A o \in Objects : Vehicle[o] # v => receipt'[o] = receipt[o],
           \A u \in Vehicles \ {v} : Present(u)' \subseteq Present(u)
    PROVE  AuditInv' /\ \A u \in Vehicles : MovesOn(u)
<1>1. /\ FenceTyped /\ \A u \in Vehicles : ScanInv(u) /\ MarkerInv(u)
  BY DEF AuditInv
<1>2. /\ FenceTyped' /\ \A u \in Vehicles : ScanInv(u)'
      /\ marker'[v] # fence'.of[v]
      /\ \A u \in Vehicles \ {v} : fence'.of[u] = fence.of[u]
  BY <1>1, Advances
<1>3. MarkerInv(v)'
  BY <1>2 DEF MarkerInv
<1>4. ASSUME NEW u \in Vehicles, u # v PROVE MarkerInv(u)'
  BY <1>1, <1>2, <1>4, MarkerRests
<1>5. \A u \in Vehicles : MovesOn(u)
  BY <1>1, ScansStay
<1> QED
  BY <1>2, <1>3, <1>4, <1>5 DEF AuditInv

LEMMA StoreKeeps ==
    ASSUME AuditInv, NEW v \in Vehicles, Store(v) PROVE AuditInv' /\ \A u \in Vehicles : MovesOn(u)
<1>1. PICK o \in Objects, dropped \in SUBSET Present(v) :
         /\ Vehicle[o] = v /\ o \notin Present(v)
         /\ LET k == Kind[o]
                left == {n \in DOMAIN rows[k] : rows[k][n] \notin dropped}
                at == Top(DOMAIN rows[k]) + 1
            IN  rows' = [rows EXCEPT ![k] =
                            [n \in left \union {at} |-> IF n = at THEN o ELSE rows[k][n]]]
         /\ receipt' = [x \in Objects |-> IF x \in dropped THEN "none" ELSE receipt[x]]
  BY DEF Store
<1> DEFINE k == Kind[o]
           left == {n \in DOMAIN rows[k] : rows[k][n] \notin dropped}
           at == Top(DOMAIN rows[k]) + 1
           new == [n \in left \union {at} |-> IF n = at THEN o ELSE rows[k][n]]
<1>2. /\ Advance(v) /\ UNCHANGED <<scan, links, marker>>
  BY DEF Store
<1>3. RowsTyped /\ FenceTyped
  BY DEF AuditInv
<1>4. rows' = [rows EXCEPT ![k] = new] /\ rows = [j \in Kinds |-> rows[j]]
  BY <1>1, <1>3 DEF RowsTyped
<1>5. k \in Kinds /\ at \in Nat \ {0} /\ \A n \in DOMAIN rows[k] : n \in Nat /\ n < at
  <2>1. k \in Kinds
    BY HistoryAuditAssumption DEF HistoryAuditAssumption, Kinds
  <2> HIDE DEF k
  <2>2. DOMAIN rows[k] \in SUBSET (Nat \ {0}) /\ IsFiniteSet(DOMAIN rows[k])
    BY <1>3, <2>1, RowsAreFinite
  <2>3. Top(DOMAIN rows[k]) \in Nat /\ \A n \in DOMAIN rows[k] : n <= Top(DOMAIN rows[k])
    BY <2>2, TopIs
  <2> QED
    BY <2>1, <2>2, <2>3
<1>6. /\ DOMAIN new = left \union {at} /\ new[at] = o
      /\ \A n \in left : new[n] = rows[k][n] /\ n # at
  BY <1>5
<1>7. left \subseteq DOMAIN rows[k] /\ \A n \in DOMAIN rows[k] : n \notin left => rows[k][n] \in dropped
  OBVIOUS
<1> HIDE DEF new, left, at
<1>8. rows'[k] = new /\ \A j \in Kinds \ {k} : rows'[j] = rows[j]
  BY <1>4, <1>5
<1>9. RowsTyped'
  <2>1. rows' = [j \in Kinds |-> rows'[j]]
    BY <1>4
  <2>2. \E b \in Nat : DOMAIN new \subseteq 1..b
    <3>1. PICK b \in Nat : DOMAIN rows[k] \subseteq 1..b
      BY <1>3, <1>5 DEF RowsTyped
    <3>2. DOMAIN new \subseteq 1..(b + at) /\ b + at \in Nat
      BY <1>5, <1>6, <1>7, <3>1
    <3> QED
      BY <3>2
  <2>3. \A n \in DOMAIN new : new[n] \in Objects /\ Kind[new[n]] = k
    BY <1>3, <1>5, <1>6, <1>7 DEF RowsTyped
  <2>4. ASSUME NEW j \in Kinds
        PROVE  /\ \E b \in Nat : DOMAIN rows'[j] \subseteq 1..b
               /\ \A n \in DOMAIN rows'[j] : rows'[j][n] \in Objects /\ Kind[rows'[j][n]] = j
    <3>1. CASE j = k
      BY <1>8, <2>2, <2>3, <3>1
    <3>2. CASE j # k
      BY <1>3, <1>8, <3>2 DEF RowsTyped
    <3> QED
      BY <3>1, <3>2
  <2> QED
    BY <2>1, <2>4 DEF RowsTyped
<1>10. /\ receipt' \in [Objects -> Receipts]
       /\ \A x \in Objects : Vehicle[x] # v => receipt'[x] = receipt[x]
  <2>1. \A x \in dropped : Vehicle[x] = v
    BY DEF Present
  <2> QED
    BY <1>1, <1>3, <2>1 DEF FenceTyped, Receipts
<1>11. ASSUME NEW u \in Vehicles \ {v} PROVE Present(u)' \subseteq Present(u)
  <2>1. SUFFICES ASSUME NEW x \in Objects, Vehicle[x] = u, NEW n \in DOMAIN rows'[Kind[x]],
                        rows'[Kind[x]][n] = x
                 PROVE  \E i \in DOMAIN rows[Kind[x]] : rows[Kind[x]][i] = x
    BY DEF Present
  <2>2. Kind[x] \in Kinds
    BY HistoryAuditAssumption DEF HistoryAuditAssumption, Kinds
  <2>3. CASE Kind[x] = k
    <3>1. n \in left \union {at} /\ new[n] = x /\ x # o
      BY <1>1, <1>6, <1>8, <2>1, <2>3
    <3> QED
      BY <1>6, <1>7, <2>3, <3>1
  <2>4. CASE Kind[x] # k
    BY <1>8, <2>1, <2>2, <2>4
  <2> QED
    BY <2>3, <2>4
<1> QED
  BY <1>2, <1>9, <1>10, <1>11, WriteKeeps

LEMMA OtherWritesKeep ==
    ASSUME AuditInv, NEW v \in Vehicles, MergeIn(v) \/ RestoreBytes(v)
    PROVE  AuditInv' /\ \A u \in Vehicles : MovesOn(u)
<1>1. Advance(v) /\ UNCHANGED <<rows, scan, links, marker>>
  BY DEF MergeIn, RestoreBytes
<1>2. RowsTyped' /\ \A u : Present(u)' = Present(u)
  BY <1>1 DEF AuditInv, RowsTyped, Present
<1>3. receipt \in [Objects -> Receipts]
  BY DEF AuditInv, FenceTyped
<1>4. /\ receipt' \in [Objects -> Receipts]
      /\ \A o \in Objects : Vehicle[o] # v => receipt'[o] = receipt[o]
  <2>1. CASE MergeIn(v)
    BY <1>3, <2>1 DEF MergeIn, Receipts
  <2>2. CASE RestoreBytes(v)
    <3>1. PICK o \in Present(v) : receipt' = [receipt EXCEPT ![o] = "verified"]
      BY <2>2 DEF RestoreBytes
    <3>2. o \in Objects /\ Vehicle[o] = v
      BY DEF Present
    <3> QED
      BY <1>3, <3>1, <3>2 DEF Receipts
  <2> QED
    BY <2>1, <2>2
<1> QED
  BY <1>1, <1>2, <1>4, WriteKeeps

LEMMA OtherWriteKeeps ==
    ASSUME AuditInv, OtherWrite PROVE AuditInv' /\ \A u \in Vehicles : MovesOn(u)
<1>1. /\ RowsTyped /\ FenceTyped /\ \A u \in Vehicles : ScanInv(u) /\ MarkerInv(u)
  BY DEF AuditInv
<1>2. UNCHANGED <<rows, receipt, scan, links, marker>>
  BY DEF OtherWrite
<1>3. /\ fence'.revision = fence.revision + 1 /\ fence'.inventory = fence.inventory + 0
      /\ fence'.of = fence.of
      /\ fence' \in [revision : Nat, inventory : Nat, of : [Vehicles -> Nat]]
  <2> DEFINE r == fence.revision + 1
  <2>1. /\ fence \in [revision : Nat, inventory : Nat, of : [Vehicles -> Nat]]
        /\ r \in Nat /\ fence' = [fence EXCEPT !.revision = r]
    BY <1>1 DEF FenceTyped, OtherWrite
  <2> HIDE DEF r
  <2>2. /\ fence'.revision = r /\ fence'.inventory = fence.inventory /\ fence'.of = fence.of
        /\ fence' \in [revision : Nat, inventory : Nat, of : [Vehicles -> Nat]]
    BY <2>1
  <2>3. fence.inventory + 0 = fence.inventory
    BY <2>1
  <2> QED
    BY <2>2, <2>3 DEF r
<1>4. (\A u \in Vehicles : fence.of[u] <= fence'.of[u]) /\ receipt' \in [Objects -> Receipts]
  <2>1. \A u \in Vehicles : fence.of[u] \in Nat
    BY <1>1 DEF FenceTyped
  <2> QED
    BY <1>1, <1>2, <1>3, <2>1 DEF FenceTyped
<1>5. FenceTyped' /\ \A u \in Vehicles : ScanInv(u)'
  BY <1>1, <1>2, <1>3, <1>4, CountersMove
<1>6. ASSUME NEW u \in Vehicles PROVE MarkerInv(u)'
  BY <1>1, <1>2, <1>3 DEF MarkerInv, Pending, Present
<1>7. \A u \in Vehicles : MovesOn(u)
  BY <1>1, <1>2, ScansStay
<1>8. RowsTyped'
  BY <1>1, <1>2 DEF RowsTyped
<1> QED
  BY <1>5, <1>6, <1>7, <1>8 DEF AuditInv

LEMMA NothingKeeps ==
    ASSUME AuditInv, UNCHANGED <<rows, receipt, scan, links, marker, fence>>
    PROVE  AuditInv' /\ \A u \in Vehicles : MovesOn(u)
<1>1. /\ RowsTyped /\ FenceTyped /\ \A u \in Vehicles : ScanInv(u) /\ MarkerInv(u)
  BY DEF AuditInv
<1>2. \A u \in Vehicles : ScanInv(u)'
  BY <1>1, ScanRests
<1>3. \A u \in Vehicles : MarkerInv(u)'
  BY <1>1 DEF MarkerInv, Pending, Present
<1>4. RowsTyped' /\ FenceTyped'
  BY <1>1 DEF RowsTyped, FenceTyped
<1> QED
  BY <1>1, <1>2, <1>3, <1>4, ScansStay DEF AuditInv

\* What was held is numbered in its order.
LEMMA RankedIs ==
    ASSUME NEW S \in SUBSET Nat, IsFiniteSet(S), NEW n \in 1..Cardinality(S)
    PROVE  Ranked(S, n) \in S
<1> DEFINE upTo(x) == {y \in S : y <= x}
           enough == {x \in S : Cardinality(upTo(x)) >= n}
<1>1. \A x : upTo(x) \subseteq S
  OBVIOUS
<1>2. ASSUME NEW x PROVE IsFiniteSet(upTo(x)) /\ Cardinality(upTo(x)) \in Nat
  <2> HIDE DEF upTo
  <2> QED
    BY <1>1, FS_Subset, FS_CardinalityType
<1>3. Cardinality(S) \in Nat /\ n \in Nat \ {0} /\ n <= Cardinality(S)
  BY FS_CardinalityType
<1>4. S # {}
  BY <1>3, FS_EmptySet
<1>5. PICK top \in S : \A y \in S : y <= top
  BY <1>4, Greatest
<1>6. upTo(top) = S
  BY <1>5
<1>7. enough # {}
  BY <1>3, <1>5, <1>6
<1>8. PICK o \in enough : \A x \in enough : o <= x
  BY <1>7, Least
<1>9. o \in S /\ o \in upTo(o) /\ Cardinality(upTo(o)) >= n
  BY <1>8
<1>10. CASE Cardinality(upTo(o)) > n
  <2>1. PICK U \in SUBSET S : /\ U = {y \in S : y <= o} /\ IsFiniteSet(U) /\ o \in U
                              /\ Cardinality(U) \in Nat /\ Cardinality(U) > n
    BY <1>1, <1>2, <1>9, <1>10
  <2> DEFINE below == U \ {o}
  <2>2. IsFiniteSet(below) /\ Cardinality(below) = Cardinality(U) - 1
    BY <2>1, FS_RemoveElement
  <2>3. Cardinality(below) >= n /\ Cardinality(below) # 0
    BY <1>3, <2>1, <2>2
  <2>4. below # {} /\ below \in SUBSET Nat
    BY <2>1, <2>2, <2>3, FS_EmptySet
  <2>5. PICK p \in below : \A y \in below : y <= p
    BY <2>2, <2>4, Greatest
  <2>6. p \in S /\ p < o
    BY <1>9, <2>1, <2>5
  <2>7. upTo(p) = below
    <3>1. ASSUME NEW y \in S PROVE y <= p <=> y \in below
      BY <1>9, <2>1, <2>5, <2>6
    <3> QED
      BY <2>1, <3>1
  <2>8. p \in enough
    BY <2>3, <2>6, <2>7
  <2> QED
    BY <1>8, <1>9, <2>6, <2>8
<1>11. CASE Cardinality(upTo(o)) = n
  BY <1>9, <1>11 DEF Ranked
<1> QED
  BY <1>2, <1>3, <1>9, <1>10, <1>11

LEMMA AuditStarts ==
    ASSUME HistoryAuditAssumption, AuditInit PROVE AuditInv
<1>1. /\ rows = [k \in Kinds |->
                    [n \in 1..Cardinality(HeldOf(k)) |-> Ranked(HeldOf(k), n)]]
      /\ receipt = [o \in Objects |-> "none"]
      /\ scan = [v \in Vehicles |-> NoScan] /\ links = [v \in Vehicles |-> NoLinks]
      /\ marker = [v \in Vehicles |-> Never]
      /\ fence = [revision |-> 0, inventory |-> 0, of |-> [v \in Vehicles |-> 0]]
  BY DEF AuditInit
<1>2. ASSUME NEW k \in Kinds
      PROVE  /\ \E b \in Nat : DOMAIN rows[k] \subseteq 1..b
             /\ \A n \in DOMAIN rows[k] : rows[k][n] \in Objects /\ Kind[rows[k][n]] = k
  <2> DEFINE S == HeldOf(k)
             b == Cardinality(S)
  <2>1. /\ S \in SUBSET Nat /\ IsFiniteSet(S) /\ \A o \in S : o \in Objects /\ Kind[o] = k
    <3>1. HeldOf(k) \subseteq Held
      BY DEF HeldOf
    <3> QED
      BY <3>1, FS_Subset DEF HistoryAuditAssumption, HeldOf
  <2>2. b \in Nat
    BY <2>1, FS_CardinalityType
  <2>3. rows[k] = [n \in 1..b |-> Ranked(S, n)]
    BY <1>1
  <2> HIDE DEF S
  <2>4. \A n \in 1..b : Ranked(S, n) \in S
    BY <2>1, RankedIs
  <2> HIDE DEF b
  <2>5. DOMAIN rows[k] = 1..b
    BY <2>3
  <2>6. \A n \in 1..b : rows[k][n] \in S
    BY <2>3, <2>4
  <2> QED
    BY <2>1, <2>2, <2>5, <2>6
<1>3. RowsTyped
  BY <1>1, <1>2 DEF RowsTyped
<1>4. /\ NoScan \in Scans /\ NoScan.phase = "none" /\ NoScan.cut = <<0, 0>>
      /\ NoLinks \in LinkSets /\ NoLinks.cut = <<0, 0>>
  BY DEF NoScan, Scans, NoLinks, LinkSets
<1>5. FenceTyped
  BY <1>1, <1>4 DEF FenceTyped, Receipts, Never
<1>6. ASSUME NEW v \in Vehicles PROVE ScanInv(v) /\ MarkerInv(v)
  BY <1>1, <1>4 DEF ScanInv, MarkerInv, Past, Never
<1> QED
  BY <1>3, <1>5, <1>6 DEF AuditInv

LEMMA AuditStep ==
    ASSUME HistoryAuditAssumption, AuditInv, AuditNext \/ UNCHANGED auditVars
    PROVE  AuditInv' /\ \A v \in Vehicles : MovesOn(v)
<1>1. /\ RowsTyped /\ FenceTyped /\ \A v \in Vehicles : ScanInv(v)
      /\ BackgroundBatch \in Nat \ {0} /\ OwnerBatch \in Nat \ {0}
  BY DEF AuditInv, HistoryAuditAssumption
<1>2. ASSUME NEW v \in Vehicles, scan[v].phase \in Kinds PROVE UnderWay(v, scan[v], links[v])
  <2>1. ScanInv(v) /\ scan[v] \in Scans /\ links[v] \in LinkSets
    BY <1>1, ScansTyped
  <2>2. scan[v].phase # "none"
    BY <1>2 DEF Kinds
  <2> QED
    BY <1>2, <2>1, <2>2 DEF UnderWay, ScanInv
<1>3. ASSUME NEW v \in Vehicles PROVE UnderWay(v, Captured(v), StartedLinks(v, Captured(v)))
  BY <1>1, CapturedIs
<1>4. ASSUME NEW v \in Vehicles, Restartable(v) PROVE scan[v].phase \notin Kinds
  BY <1>4 DEF Restartable, Kinds
<1>5. ASSUME NEW v \in Vehicles, ~Restartable(v) PROVE scan[v].phase \in Kinds
  BY <1>1, <1>5, ScansTyped DEF Restartable
<1>6. CASE AuditTick
  <2>1. PICK v \in Vehicles : AuditVehicle(v)
    BY <1>6 DEF AuditTick
  <2>2. UNCHANGED <<rows, fence>>
    BY <1>6 DEF AuditTick
  <2>3. CASE Delta(v)
    BY <2>2, <2>3, DeltaKeeps
  <2>4. CASE ~Delta(v)
    <3> DEFINE s == IF Restartable(v) THEN Captured(v) ELSE scan[v]
               l == IF Restartable(v) THEN StartedLinks(v, s) ELSE links[v]
    <3>1. Step(v, s, l, BackgroundBatch) /\ UNCHANGED marker
      BY <2>1, <2>4 DEF AuditVehicle
    <3>2. UnderWay(v, s, l) /\ (scan[v].phase \in Kinds => s = scan[v])
      BY <1>2, <1>3, <1>4, <1>5
    <3> HIDE DEF s, l
    <3> QED
      BY <1>1, <2>2, <3>1, <3>2, BatchKeeps
  <2> QED
    BY <2>3, <2>4
<1>7. CASE \E v \in Vehicles : OwnerVerify(v)
  <2>1. PICK v \in Vehicles : OwnerVerify(v)
    BY <1>7
  <2> DEFINE s == Captured(v)
             l == StartedLinks(v, s)
  <2>2. Restartable(v) /\ Step(v, s, l, OwnerBatch) /\ UNCHANGED <<rows, fence, marker>>
    BY <2>1 DEF OwnerVerify
  <2>3. UnderWay(v, s, l) /\ scan[v].phase \notin Kinds
    BY <1>3, <1>4, <2>2
  <2> HIDE DEF s, l
  <2> QED
    BY <1>1, <2>2, <2>3, BatchKeeps
<1>8. CASE \E v \in Vehicles : OwnerStep(v)
  <2>1. PICK v \in Vehicles : OwnerStep(v)
    BY <1>8
  <2>2. /\ scan[v].phase \in Kinds /\ Step(v, scan[v], links[v], OwnerBatch)
        /\ UNCHANGED <<rows, fence, marker>>
    BY <2>1 DEF OwnerStep
  <2> QED
    BY <1>1, <1>2, <2>2, BatchKeeps
<1>9. CASE \E v \in Vehicles : Store(v)
  BY <1>9, StoreKeeps
<1>10. CASE \E v \in Vehicles : MergeIn(v) \/ RestoreBytes(v)
  BY <1>10, OtherWritesKeep
<1>11. CASE OtherWrite
  BY <1>11, OtherWriteKeeps
<1>12. CASE Decay \/ \E v \in Vehicles : DayPasses(v)
  <2>1. UNCHANGED <<rows, receipt, scan, links, marker, fence>>
    BY <1>12 DEF Decay, DayPasses
  <2> QED
    BY <2>1, NothingKeeps
<1>13. CASE UNCHANGED auditVars
  <2>1. UNCHANGED <<rows, receipt, scan, links, marker, fence>>
    BY <1>13 DEF auditVars
  <2> QED
    BY <2>1, NothingKeeps
<1> QED
  BY <1>6, <1>7, <1>8, <1>9, <1>10, <1>11, <1>12, <1>13 DEF AuditNext

\* What the owner is told follows.
LEMMA CertificatesFollow ==
    ASSUME HistoryAuditAssumption, AuditInv PROVE CertificatesAreTrue
<1>1. ASSUME NEW v \in Vehicles
      PROVE  /\ Certified(v) => Present(v) # {} /\ \A o \in Present(v) : receipt[o] = "verified"
             /\ LinksCertified(v) => \A o \in Present(v) : Kind[o] = "page" => o \notin Conflicting
             /\ marker[v] = fence.of[v] => Pending(v) = {}
  <2>1. RowsTyped /\ ScanInv(v) /\ MarkerInv(v)
    BY DEF AuditInv
  <2>2. ASSUME NEW o \in Present(v)
        PROVE  \E n \in RowsOf(v, Kind[o]) : rows[Kind[o]][n] = o /\ Kind[o] \in Kinds
    BY DEF Present, RowsOf, HistoryAuditAssumption, Kinds
  <2>3. ASSUME Certified(v)
        PROVE  Present(v) # {} /\ \A o \in Present(v) : receipt[o] = "verified"
    <3>1. /\ scan[v].phase = "complete" /\ scan[v].total > 0 /\ scan[v].invalid = 0
          /\ Walks(v, scan[v], links[v])
      BY <2>1, <2>3 DEF Certified, ScanInv, Fresh
    <3>2. \A k \in Kinds : \A n \in RowsOf(v, k) : receipt[rows[k][n]] = "verified"
      BY <3>1 DEF Walks, Behind, BehindPlace
    <3>3. PICK k \in Kinds : RowsOf(v, k) # {}
      BY <3>1 DEF Walks
    <3>4. PICK n \in RowsOf(v, k) : TRUE
      BY <3>3
    <3>5. rows[k][n] \in Present(v)
      BY <2>1, <3>3, <3>4 DEF RowsOf, RowsTyped, Present
    <3> QED
      BY <2>2, <3>2, <3>5
  <2>4. ASSUME LinksCertified(v), NEW o \in Present(v), Kind[o] = "page"
        PROVE  o \notin Conflicting
    <3>1. /\ scan[v].phase = "complete" /\ links[v].conflicts = 0 /\ links[v].unclear = 0
          /\ Walks(v, scan[v], links[v])
      BY <2>1, <2>4 DEF LinksCertified, ScanInv, Fresh
    <3>2. \A n \in RowsOf(v, "page") : rows["page"][n] \notin Conflicting
      BY <3>1 DEF Walks, Behind, BehindPlace, Kinds
    <3> QED
      BY <2>2, <2>4, <3>2
  <2> QED
    BY <2>1, <2>3, <2>4 DEF MarkerInv
<1> QED
  BY <1>1 DEF CertificatesAreTrue

-----------------------------------------------------------------------------
(***************************************************************************)
(* Of the parts of the run one moves; what the others promise, rests.      *)
(***************************************************************************)
IInv == IdInv /\ AuditInv

LEMMA RecordsStart == Init => IInv
BY IdentityAssumption, HistoryAuditAssumption, IdentityStarts, AuditStarts DEF Init, IInv

LEMMA RecordsStep ==
    ASSUME IInv, [Next]_vars
    PROVE  /\ IInv'
           /\ stops' = stops => PlannedRowsOnly
           /\ \A v \in Vehicles : MovesOn(v)
<1>1. IdentityNext \/ UNCHANGED idVars
  BY DEF Next, Moves, vars
<1>2. AuditNext \/ UNCHANGED auditVars
  BY DEF Next, Moves, vars
<1> QED
  BY <1>1, <1>2, IdentityAssumption, HistoryAuditAssumption, IdentityStep, AuditStep DEF IInv

LEMMA RecordsInvariant == Spec => []IInv
<1>1. IInv /\ [Next]_vars => IInv'
  BY RecordsStep
<1> QED
  BY <1>1, RecordsStart, PTL DEF Spec

\* What the journal of the entity IDs announces, and what it calls done, is so of the registry,
\* whichever older registry file a crash brings back and whichever save failed: a name the
\* integration gave was in the journal's file before (identity.py: async_migrate, "journal before
\* touching the registry"), and after a pass a renamed row has its canonical name and a converted
\* lock its new row, unless the owner changed them (async_convert_locks).
THEOREM FileHolds == Spec => []FileIsTrue
<1>1. IInv => FileIsTrue
  BY FileFollows DEF IInv
<1> QED
  BY <1>1, RecordsInvariant, PTL

\* What the owner is told to be verified is: every payload of the vehicle that is in the archive
\* was checked and matched its digest, every page agrees with its index, and the marker of the
\* background turns means that nothing is without a receipt, for any number of payloads, vehicles
\* and writes, and batches of any size (archive_audit.py, page_reference_audit.py,
\* ride_archive.py: history_delta_seen).
THEOREM CertificatesHold == Spec => []CertificatesAreTrue
<1>1. IInv => CertificatesAreTrue
  BY HistoryAuditAssumption, CertificatesFollow DEF IInv
<1> QED
  BY <1>1, RecordsInvariant, PTL

\* A scan under way is neither begun again nor moved back (archive_audit.py: start, "never reset
\* an active scan").
THEOREM ScansMoveOn == Spec => ActiveScanStands
<1>1. IInv /\ [Next]_vars => [\A v \in Vehicles : scan[v].phase \in Kinds =>
          /\ scan'[v].upper = scan[v].upper /\ scan'[v].checked >= scan[v].checked
          /\ scan[v].phase = "page" => scan'[v].phase # "detail"]_auditVars
  BY RecordsStep DEF MovesOn
<1> QED
  BY <1>1, RecordsInvariant, PTL DEF Spec, ActiveScanStands

\* A pass renames only rows that still are what they were when it planned them: the name an owner
\* gave meanwhile stands (identity.py: async_migrate, "inspect the current registry again").
THEOREM RenamesStand == Spec => ConcurrentRenameStands
<1>1. IInv /\ [Next]_vars => [stops' = stops =>
          \A r \in Rows : registry'[r].by = "us" /\ registry[r].by # "us"
                             => registry[r].at = plans[r].before]_idVars
  BY RecordsStep DEF PlannedRowsOnly
<1> QED
  BY <1>1, RecordsInvariant, PTL DEF Spec, ConcurrentRenameStands
=============================================================================
