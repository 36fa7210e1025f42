--------------------------- MODULE EntityIdentity ---------------------------
(***************************************************************************)
(* Canonical entity IDs and the conversion of the locks (identity.py,      *)
(* registry.py: async_migrate_entity_ids).                                 *)
(*                                                                         *)
(* A pass plans the renames of the account's rows, saves the plan, looks   *)
(* at Home Assistant's registry again, renames, and saves the result.  The *)
(* registry is a file of its own, written some time after a change: a      *)
(* crash brings an older registry back beside a newer journal.  The owner  *)
(* renames rows whenever they like.                                        *)
(***************************************************************************)
EXTENDS Naturals, FiniteSets

CONSTANTS Rows,                \* registry rows of the account, numbered
          Original, Canonical, \* of a row: the name it has, and the one of its frozen seed
          OwnNames,            \* names the owner gives
          MaxStops, MaxFailures, MaxTouches   \* bounds of the runs; the owner changes a row once

ASSUME IdentityAssumption ==
    /\ Rows \subseteq Nat \ {0} /\ IsFiniteSet(Rows) /\ {MaxStops, MaxFailures, MaxTouches} \subseteq Nat
    /\ \A r, q \in Rows : Original[r] = Original[q] => r = q

VARIABLES
    registry,    \* of a row: name, modified_at, and who gave the name ("owner" before the row
                 \* was in the journal, "late" after that)
    written,     \* the registry file
    plans,       \* IdentityStore.migrations; NoPlan where there is none
    file,        \* its file
    lock,        \* the old row of a lock ("old": its modified_at, or 0), and the new one, in
                 \* memory and in the registry file; its plan and the one in the journal file
    pass,        \* what the pass does, and the rows of known vehicles it is about
    clock, touched, stops, failures   \* touched: what the owner has changed; 0 is the lock

idVars == <<registry, written, plans, file, lock, pass, clock, touched, stops, failures>>

NoPlan == [status |-> "none", reason |-> "none", old |-> "none", new |-> "none", before |-> 0]
NoLockPlan == [status |-> "none", before |-> 0]

IdentityInit ==
    /\ registry = [r \in Rows |-> [name |-> Original[r], at |-> 0, by |-> "core"]] /\ written = registry
    /\ plans = [r \in Rows |-> NoPlan] /\ file = plans
    /\ lock = [old |-> 1, new |-> FALSE, oldWritten |-> 1, newWritten |-> FALSE,
               plan |-> NoLockPlan, journal |-> NoLockPlan]
    /\ pass = [pc |-> "off", about |-> {}] /\ clock = 1 /\ touched = {} /\ stops = 0 /\ failures = 0

----------------------------------------------------------------------------
\* The plan.

\* Reasons that end the canonical migration of a row.
Final == {"canonical", "renamed", "recovered"}
Names(reg) == {reg[r].name : r \in Rows}

\* A row of a known vehicle is planned again until it has a final reason.
Planned(about) == {r \in about : plans[r].reason \notin Final}

PlanOf(r, S) ==
    LET new == Canonical[r]
        same == registry[r].name = new
        \* two plans for one name, or a name that is taken
        taken == new \in Names(registry) \/ \E q \in S \ {r} : Canonical[q] = new
        status == IF same THEN "unchanged" ELSE IF taken THEN "conflict" ELSE "planned"
    IN  [status |-> status,
         reason |-> IF same THEN "canonical" ELSE IF taken THEN "occupied" ELSE "forced",
         old |-> registry[r].name, new |-> new, before |-> registry[r].at]

To(pc) == pass' = [pass EXCEPT !.pc = pc]

\* async_migrate up to its first save. Nothing is saved when nothing is planned.
Plan ==
    /\ pass.pc = "plan"
    /\ \E about \in SUBSET Rows :
          LET S == Planned(about) IN
          /\ plans' = [r \in Rows |-> IF r \in S THEN PlanOf(r, S) ELSE plans[r]]
          /\ pass' = [pc |-> IF S # {} \/ \E r \in Rows : plans[r].status = "planned"
                             THEN "intend" ELSE "rename", about |-> about]
    /\ UNCHANGED <<registry, written, file, lock, clock, touched, stops, failures>>

----------------------------------------------------------------------------
\* The renames.

\* Mutant: the row may have changed since it was planned.
AnyChange(r, p) == TRUE

\* The row is the one that was planned, or has the planned name already.
Unmoved(r, p) == registry[r].name = p.new \/ (registry[r].at = p.before /\ registry[r].name = p.old)

\* Mutant: a rename once done is not looked at again.
NeverLost(r, p) == FALSE

\* The registry came back without the rename.
Lost(r, p) == p.status = "renamed" /\ registry[r].name = p.old /\ registry[r].at = p.before

Due(r) == plans[r].status = "planned" \/ Lost(r, plans[r])

\* What becomes of a planned row when the names in the set taken are in use.
Outcome(r, taken) ==
    LET p == plans[r] IN
    IF r \notin pass.about \/ ~Unmoved(r, p) THEN [p EXCEPT !.status = "protected", !.reason = "changed"]
    ELSE IF registry[r].name = p.new THEN [p EXCEPT !.status = "renamed", !.reason = "recovered"]
    ELSE IF p.new \in taken THEN [p EXCEPT !.status = "conflict", !.reason = "occupied"]
    ELSE [p EXCEPT !.status = "renamed", !.reason = "renamed"]

\* What is renamed so far, and row n after that: what one row gives up, the next one may take.
RenamedRow(s, n) ==
    LET p == Outcome(n, Names(s.registry)) IN
    IF n \notin Rows \/ ~Due(n) THEN s
    ELSE [plans |-> [s.plans EXCEPT ![n] = p],
          registry |-> IF p.reason # "renamed" THEN s.registry
                       ELSE [s.registry EXCEPT ![n] = [name |-> p.new, at |-> clock + 1, by |-> "us"]]]

\* The rows one after the other.
LastRowOf == CHOOSE n \in Rows \union {0} : \A m \in Rows : m <= n
Renamed ==
    LET after[n \in 0 .. LastRowOf] ==
            IF n = 0 THEN [registry |-> registry, plans |-> plans] ELSE RenamedRow(after[n - 1], n)
    IN  after[LastRowOf]

\* async_migrate after its first save, without an await up to its second one.
Rename ==
    /\ pass.pc = "rename"
    /\ \E s \in {Renamed} : plans' = s.plans /\ registry' = s.registry
    /\ IF \E r \in Rows : Due(r) THEN To("record") ELSE To("lock")
    /\ clock' = (IF registry' # registry THEN clock + 1 ELSE clock)
    /\ UNCHANGED <<written, file, lock, touched, stops, failures>>

----------------------------------------------------------------------------
\* The lock: a row of another domain replaces the old one.

\* async_convert_locks up to its first save.
PlanLock ==
    /\ pass.pc = "lock"
    /\ IF lock.plan.status = "none" /\ lock.old # 0
       THEN /\ lock' = [lock EXCEPT !.plan = [status |-> "planned", before |-> lock.old]]
            /\ To("intendLock")
       ELSE To("convert") /\ UNCHANGED lock
    /\ UNCHANGED <<registry, written, plans, file, clock, touched, stops, failures>>

\* Plans that are carried out, or carried out again.
Open(p) == p.status \in {"planned", "converted", "conflict"}

\* The old row is gone, or is the one that was planned; there is something to convert.
Convertible == (lock.old # 0 \/ lock.new) /\ (lock.old # 0 => lock.old = lock.plan.before)

\* The new row is made and the old one removed without an await.
Convert ==
    /\ pass.pc = "convert"
    /\ lock' = IF lock.plan.status = "conflict" /\ lock.old = 0 THEN [lock EXCEPT !.plan.status = "removed"]
               ELSE IF ~Open(lock.plan) THEN lock
               ELSE IF Convertible THEN [lock EXCEPT !.plan.status = "converted", !.new = TRUE, !.old = 0]
               ELSE [lock EXCEPT !.plan.status = "conflict"]
    /\ IF lock'.plan # lock.plan \/ lock.journal = NoLockPlan THEN To("recordLock") ELSE To("idle")
    /\ UNCHANGED <<registry, written, plans, file, clock, touched, stops, failures>>

----------------------------------------------------------------------------
\* The journal file.

AfterSave == [intend |-> "rename", record |-> "lock", intendLock |-> "convert", recordLock |-> "idle"]

\* _save: the whole journal.
Saved == file' = plans /\ lock' = [lock EXCEPT !.journal = lock.plan]

Save ==
    /\ pass.pc \in DOMAIN AfterSave /\ Saved /\ To(AfterSave[pass.pc])
    /\ UNCHANGED <<registry, written, plans, clock, touched, stops, failures>>

\* The save fails: the new plan of a lock is dropped, plans of names stay. The setup ends with the
\* error, or the runtime goes on and a later discovery of a vehicle tries again.
SaveFails ==
    /\ pass.pc \in DOMAIN AfterSave /\ failures < MaxFailures /\ failures' = failures + 1
    /\ lock' = (IF pass.pc = "intendLock" THEN [lock EXCEPT !.plan = NoLockPlan] ELSE lock)
    /\ (To("off") \/ To("failed"))
    /\ UNCHANGED <<registry, written, plans, file, clock, touched, stops>>

----------------------------------------------------------------------------
\* Around a pass.

\* Setup loads the journal; discovering a vehicle uses the one in memory.
Setup ==
    /\ pass.pc \in {"off", "idle", "failed"} /\ To("plan")
    /\ plans' = file /\ lock' = [lock EXCEPT !.plan = lock.journal]
    /\ UNCHANGED <<registry, written, file, clock, touched, stops, failures>>
Discover == pass.pc \in {"idle", "failed"} /\ To("plan")
            /\ UNCHANGED <<registry, written, plans, file, lock, clock, touched, stops, failures>>

Persist ==
    /\ written' = registry /\ lock' = [lock EXCEPT !.oldWritten = lock.old, !.newWritten = lock.new]
    /\ UNCHANGED <<registry, plans, file, pass, clock, touched, stops, failures>>

IdentityCrash ==
    /\ stops < MaxStops /\ stops' = stops + 1
    /\ registry' = written /\ plans' = [r \in Rows |-> NoPlan]
    /\ lock' = [lock EXCEPT !.old = lock.oldWritten, !.new = lock.newWritten, !.plan = NoLockPlan]
    /\ pass' = [pc |-> "off", about |-> {}]
    /\ UNCHANGED <<written, file, clock, touched, failures>>

Touches(r) == r \notin touched /\ Cardinality(touched) < MaxTouches

OwnerRenames(r) ==
    /\ Touches(r) /\ touched' = touched \union {r} /\ clock' = clock + 1
    /\ \E n \in OwnNames \ Names(registry) :
          registry' = [registry EXCEPT ![r] =
              [name |-> n, at |-> clock + 1, by |-> IF file[r] = NoPlan THEN "owner" ELSE "late"]]
    /\ UNCHANGED <<written, plans, file, lock, pass, stops, failures>>

\* The owner changes the old row of the lock, or removes the new one.
OwnerChangesLock ==
    /\ Touches(0) /\ touched' = touched \union {0} /\ clock' = clock + 1
    /\ \/ lock.old # 0 /\ lock' = [lock EXCEPT !.old = clock + 1]
       \/ lock.new /\ lock' = [lock EXCEPT !.new = FALSE]
    /\ UNCHANGED <<registry, written, plans, file, pass, stops, failures>>

PassSteps == Plan \/ Rename \/ PlanLock \/ Convert \/ Save
IdentityNext ==
    \/ PassSteps \/ SaveFails \/ Setup \/ Discover \/ Persist \/ IdentityCrash \/ OwnerChangesLock
    \/ \E r \in Rows : OwnerRenames(r)

----------------------------------------------------------------------------
IdentityTypeOK ==
    /\ pass.pc \in {"off", "plan", "rename", "lock", "convert", "idle", "failed"} \union DOMAIN AfterSave
    /\ \A r, q \in Rows : registry[r].name = registry[q].name => r = q
    /\ ~(lock.old # 0 /\ lock.new)

\* A name the integration gave is one the journal file announces, in memory and in any registry file
\* a crash may bring back ("journal before touching the registry").
IntentComesFirst ==
    \A reg \in {registry, written} : \A r \in Rows :
        reg[r].by = "us" => file[r].new = reg[r].name /\ file[r].status # "none"

\* What the journal calls done is done: after a pass, whatever crash brought an older registry back,
\* a row that counts as renamed has its canonical name unless the owner changed it, and a lock that
\* counts as converted has its new row.
DoneIsDone ==
    pass.pc = "idle" =>
        /\ \A r \in Rows \ touched : plans[r].status = "renamed" => registry[r].name = plans[r].new
        /\ 0 \notin touched /\ lock.plan.status = "converted" => lock.new

\* A name the owner gives while the plan of the row is being saved is not overwritten by that pass
\* (async_migrate, "inspect the current registry again").
ConcurrentRenameStands ==
    [][stops' = stops =>
          \A r \in Rows : registry'[r].by = "us" /\ registry[r].by # "us" => registry[r].at = plans[r].before]_idVars

\* A name the owner gives after the row was planned is never overwritten ("later user renames are not
\* overwritten on every reload", docs/migration.md).
OwnersNameStands ==
    [][stops' = stops => \A r \in Rows : registry[r].by = "late" => registry'[r].by # "us"]_idVars

\* The identity file announces what the registry will have, and what it calls done stands.
FileIsTrue == IntentComesFirst /\ DoneIsDone
=============================================================================
