--------------------------- MODULE ArchiveActors ---------------------------
(***************************************************************************)
(* Who may touch the files of the archives: the actors (RideArchive), the  *)
(* setup and removal of the entries that own them, and the hooks of a      *)
(* Home Assistant backup, which copies the files as they lie on the disk.  *)
(*                                                                         *)
(* An actor is one thread that works off a queue.  An entry that is set up *)
(* first adopts what older versions left behind, with an actor of its own, *)
(* under the lock of the account; then the coordinator makes the actor of  *)
(* the entry.  The backup's first hook fences every actor, one after the   *)
(* other; its last hook thaws them and runs the deletions it put off.      *)
(* An entry can be removed and the account added again as another entry.   *)
(***************************************************************************)
EXTENDS Integers, FiniteSets, SequencesExt

CONSTANTS Entries,     \* configuration entries
          Account,     \* the account of each entry
          MaxPending,  \* admission bound of an actor's queue
          MaxLives,    \* bound on the actors an entry makes
          MaxBackups   \* bound on the backups

ASSUME ArchiveActorsAssumption ==
    /\ Entries \subseteq Nat \ {0} /\ IsFiniteSet(Entries)
    /\ {MaxPending, MaxLives, MaxBackups} \subseteq Nat

VARIABLES
    stage,     \* what becomes of an entry
    actor,     \* the last actor of the entry
    lives,     \* how many it has made, the identity of the last
    holder,    \* account_lock: the entry in it, or 0
    backup,    \* BackupState under BACKUP_KEY
    backups    \* backups so far

actorVars == <<stage, actor, lives, holder, backup, backups>>

NoActor == [on |-> FALSE, tried |-> FALSE, opened |-> FALSE, closing |-> FALSE, conn |-> FALSE,
            paused |-> FALSE, running |-> FALSE, ops |-> <<>>]
NoBackup == [phase |-> "none", archives |-> <<>>, next |-> 1, removals |-> {}]
Stages == {"absent", "ready", "starting", "looking", "adopting", "loading", "loaded", "closing",
           "dropping", "deferred", "locking", "erasing", "gone"}
Configured(e) == stage[e] \in {"ready", "starting", "looking", "adopting", "loading", "loaded", "closing"}
Siblings(e) == {o \in Entries \ {e} : Account[o] = Account[e]}
To(e, s) == stage' = [stage EXCEPT ![e] = s]

\* backup_active
BackupActive == backup.phase # "none"

ActorsInit ==
    /\ stage = [e \in Entries |-> "absent"] /\ actor = [e \in Entries |-> NoActor]
    /\ lives = [e \in Entries |-> 0] /\ holder = [a \in {Account[e] : e \in Entries} |-> 0]
    /\ backup = NoBackup /\ backups = 0

----------------------------------------------------------------------------
\* The actor.

\* _run puts an operation at the end of the thread's queue.
Submit(e, op) == actor' = [actor EXCEPT ![e].ops = Append(@, op)]

\* _run: what it refuses.
Admits(a) == a.opened /\ ~a.closing /\ Len(a.ops) < MaxPending

\* Any of the archive's write methods; adopting, the merge of a source and its removal.
Write(e) ==
    /\ stage[e] \in {"adopting", "loaded", "dropping"} /\ Admits(actor[e])
    /\ Submit(e, "write")
    /\ UNCHANGED <<stage, lives, holder, backup, backups>>

\* Mutant: only the callers look whether a backup fences the archive.
AlwaysAllowed(a) == a.conn

\* _db(write=True), in the thread.
WriteAllowed(a) == a.conn /\ ~a.paused

\* The thread takes the next operation; it ends at once where the archive refuses it.
StartOp(e) ==
    LET a == actor[e] IN
    /\ a.ops # <<>> /\ ~a.running
    /\ actor' = [actor EXCEPT ![e] =
          IF Head(a.ops) = "write" /\ ~WriteAllowed(a) THEN [a EXCEPT !.ops = Tail(@)]
          ELSE [a EXCEPT !.running = TRUE]]
    /\ UNCHANGED <<stage, lives, holder, backup, backups>>

\* Its end, with or without success; nobody's cancellation ends it earlier.
EndOp(e) ==
    LET a == actor[e]
        rest == [a EXCEPT !.running = FALSE, !.ops = Tail(@)]
    IN /\ a.running
       /\ \/ Head(a.ops) = "open" /\ actor' = [actor EXCEPT ![e] = [rest EXCEPT !.conn = TRUE, !.opened = TRUE]]
          \/ Head(a.ops) = "finish" /\ actor' = [actor EXCEPT ![e] = [rest EXCEPT !.conn = FALSE]]
          \/ Head(a.ops) # "finish" /\ actor' = [actor EXCEPT ![e] = rest]
       /\ UNCHANGED <<stage, lives, holder, backup, backups>>

\* async_close: no more operations, and the connection closes behind those that wait.
Closing(a) == IF a.closing THEN a ELSE [a EXCEPT !.closing = TRUE, !.ops = Append(@, "finish")]
Reaped(a) == a.closing /\ a.ops = <<>> /\ ~a.running

----------------------------------------------------------------------------
\* Setup and unload.

\* The account is added: a login takes the owner longer than the closing of an entry that was
\* removed takes the coordinator.
Configure(e) ==
    /\ stage[e] = "absent" /\ \A o \in Siblings(e) : ~Configured(o) /\ stage[o] # "dropping"
    /\ To(e, "ready") /\ UNCHANGED <<actor, lives, holder, backup, backups>>

SetupBegins(e) ==
    /\ stage[e] = "ready" /\ lives[e] < MaxLives /\ ~BackupActive
    /\ To(e, "starting") /\ UNCHANGED <<actor, lives, holder, backup, backups>>

\* account_lock is taken.
Holds(e) == holder' = [holder EXCEPT ![Account[e]] = e]

\* async_prepare_account takes the lock, and looks for sources outside the loop.
PrepareAccount(e) ==
    /\ stage[e] = "starting" /\ holder[Account[e]] = 0
    /\ IF BackupActive \/ \E o \in Siblings(e) : actor[o].on
       THEN To(e, "ready") /\ UNCHANGED holder
       ELSE To(e, "looking") /\ Holds(e)
    /\ UNCHANGED <<actor, lives, backup, backups>>

\* register_archive: an actor made during a backup is fenced, and thawed with the others.
NewActor == [NoActor EXCEPT !.on = TRUE, !.paused = BackupActive]
Listed(e) == IF BackupActive THEN [backup EXCEPT !.archives = Append(@, <<e, lives[e] + 1>>)] ELSE backup

Register(e) ==
    /\ actor' = [actor EXCEPT ![e] = NewActor]
    /\ lives' = [lives EXCEPT ![e] = @ + 1] /\ backup' = Listed(e)

\* There is nothing to adopt, or there is.
Looked(e) ==
    /\ stage[e] = "looking" /\ Register(e)
    /\ \/ To(e, "loading") /\ holder' = [holder EXCEPT ![Account[e]] = 0]
       \/ To(e, "adopting") /\ UNCHANGED holder
    /\ UNCHANGED backups

\* async_open; without it the setup is not ready, and the adoption has nothing to do.
OpenActor(e) ==
    LET a == actor[e] IN
    /\ stage[e] \in {"adopting", "loading"} /\ ~a.tried /\ ~a.closing
    /\ actor' = [actor EXCEPT ![e] = IF a.paused THEN [Closing(a) EXCEPT !.tried = TRUE]
                                     ELSE [a EXCEPT !.tried = TRUE, !.ops = Append(@, "open")]]
    /\ IF a.paused /\ stage[e] = "loading" THEN To(e, "closing") ELSE UNCHANGED stage
    /\ UNCHANGED <<lives, holder, backup, backups>>

\* The entry is loaded, with or without its archive, unless a backup fences it.
Loaded(e) ==
    LET a == actor[e] IN
    /\ stage[e] = "loading" /\ a.tried /\ a.ops = <<>> /\ ~a.running
    /\ IF a.paused THEN To(e, "closing") /\ actor' = [actor EXCEPT ![e] = Closing(a)]
       ELSE To(e, "loaded") /\ UNCHANGED actor
    /\ UNCHANGED <<lives, holder, backup, backups>>

\* The adoption ends, the entry is unloaded, or its setup fails or is cancelled.
Close(e) ==
    /\ stage[e] \in {"adopting", "loaded", "loading"} /\ ~actor[e].closing
    /\ actor[e].tried /\ (stage[e] \in {"adopting", "loading"} => actor[e].ops = <<>>)
    /\ actor' = [actor EXCEPT ![e] = Closing(@)]
    /\ IF stage[e] = "adopting" THEN UNCHANGED stage ELSE To(e, "closing")
    /\ UNCHANGED <<lives, holder, backup, backups>>

\* cleanup: defer_removal, or the deletion at once.
CleansUp(e) ==
    IF BackupActive THEN To(e, "deferred") /\ backup' = [backup EXCEPT !.removals = @ \union {e}]
    ELSE To(e, "locking") /\ UNCHANGED backup

\* The actor is reaped and unregistered.  After an adoption the entry's own actor follows, unless
\* it could not be opened.
Closed(e) ==
    /\ actor[e].on /\ Reaped(actor[e])
    /\ \/ /\ stage[e] = "adopting" /\ holder' = [holder EXCEPT ![Account[e]] = 0]
          /\ IF actor[e].opened THEN To(e, "loading") /\ Register(e)
             ELSE To(e, "ready") /\ actor' = [actor EXCEPT ![e] = NoActor] /\ UNCHANGED <<lives, backup>>
       \/ /\ stage[e] \in {"closing", "dropping"}
          /\ actor' = [actor EXCEPT ![e] = NoActor]
          /\ IF stage[e] = "closing" THEN To(e, "ready") /\ UNCHANGED backup ELSE CleansUp(e)
          /\ UNCHANGED <<lives, holder>>
    /\ UNCHANGED backups

----------------------------------------------------------------------------
\* Removal of an entry that does not keep its archive.

\* The entry leaves the registry.  Where the platforms could not be unloaded, it leaves with its
\* actor, which async_remove_entry closes first.
RemoveEntry(e) ==
    /\ \/ stage[e] = "ready" /\ CleansUp(e) /\ UNCHANGED actor
       \/ /\ stage[e] = "loaded" /\ To(e, "dropping")
          /\ actor' = [actor EXCEPT ![e] = Closing(@)] /\ UNCHANGED backup
    /\ UNCHANGED <<lives, holder, backups>>

\* async_remove_account: no other entry has the account now.
Unclaimed(e) == \A o \in Siblings(e) : ~Configured(o)

\* async_remove_account: the lock, then the sources, then the files.
RemovalLocks(e) ==
    /\ stage[e] = "locking" /\ holder[Account[e]] = 0
    /\ IF Unclaimed(e) THEN To(e, "erasing") /\ Holds(e)
       ELSE To(e, "gone") /\ UNCHANGED holder
    /\ UNCHANGED <<actor, lives, backup, backups>>

\* The files are gone, or a repair says they are not.
Erased(e) ==
    /\ stage[e] = "erasing" /\ To(e, "gone")
    /\ holder' = [holder EXCEPT ![Account[e]] = 0]
    /\ UNCHANGED <<actor, lives, backup, backups>>

----------------------------------------------------------------------------
\* The hooks of a backup.

\* async_pre_backup, with the actors there are.
PreBackup ==
    /\ ~BackupActive /\ backups < MaxBackups
    /\ LET made == {e \in Entries : actor[e].on} IN
       \E order \in Bijection(1..Cardinality(made), made) :
          backup' = [phase |-> "preparing", next |-> 1, removals |-> {},
                     archives |-> [i \in 1..Cardinality(made) |-> <<order[i], lives[order[i]]>>]]
    /\ backups' = backups + 1
    /\ UNCHANGED <<stage, actor, lives, holder>>

\* The actor the hook is at, unless it is one that was closed since.
Hooked == backup.archives[backup.next]
Current(x) == lives[x[1]] = x[2] /\ actor[x[1]].on

\* async_prepare_backup: the fence, and a barrier behind the operations of before.
Fenced(a) ==
    IF a.closing THEN [a EXCEPT !.paused = TRUE]
    ELSE [a EXCEPT !.paused = TRUE, !.ops = Append(@, "barrier")]
Fence ==
    /\ backup.phase = "preparing" /\ backup.next <= Len(backup.archives)
    /\ actor' = IF Current(Hooked) THEN [actor EXCEPT ![Hooked[1]] = Fenced(@)] ELSE actor
    /\ backup' = [backup EXCEPT !.phase = "waiting"]
    /\ UNCHANGED <<stage, lives, holder, backups>>

\* The barrier was reached, or the actor was closed.
BarrierPassed ==
    \/ ~Current(Hooked)
    \/ /\ "barrier" \notin ToSet(actor[Hooked[1]].ops)
       /\ actor[Hooked[1]].closing => Reaped(actor[Hooked[1]])

NextArchive ==
    /\ backup.phase = "waiting" /\ BarrierPassed
    /\ backup' = [backup EXCEPT !.phase = "preparing", !.next = @ + 1]
    /\ UNCHANGED <<stage, actor, lives, holder, backups>>

\* The copying starts.
Prepared ==
    /\ backup.phase = "preparing" /\ backup.next > Len(backup.archives)
    /\ backup' = [backup EXCEPT !.phase = "copying"]
    /\ UNCHANGED <<stage, actor, lives, holder, backups>>

\* _finish_backup: every actor is thawed, then the deletions that were put off run.
Thaw ==
    /\ actor' = [e \in Entries |-> IF \E x \in ToSet(backup.archives) : x[1] = e /\ Current(x)
                                   THEN [actor[e] EXCEPT !.paused = FALSE] ELSE actor[e]]
    /\ stage' = [e \in Entries |-> IF e \in backup.removals THEN "locking" ELSE stage[e]]
    /\ backup' = NoBackup

\* async_post_backup, or a failure of the first hook, which waits for the operation it is at.
FinishBackup ==
    /\ \/ backup.phase \in {"preparing", "copying"}
       \/ backup.phase = "waiting" /\ BarrierPassed
    /\ Thaw /\ UNCHANGED <<lives, holder, backups>>

----------------------------------------------------------------------------
ThreadSteps(e) == StartOp(e) \/ EndOp(e)
EntrySteps(e) ==
    \/ PrepareAccount(e) \/ Looked(e) \/ OpenActor(e) \/ Loaded(e) \/ Closed(e)
    \/ RemovalLocks(e) \/ Erased(e)
    \/ stage[e] = "adopting" /\ Close(e)
\* A deletion that has the lock looks at the entries before anything else of the owner's happens:
\* what releases the lock wakes it.
Pressing == \E e \in Entries : stage[e] = "locking" /\ holder[Account[e]] = 0
OwnerSteps(e) ==
    /\ ~Pressing
    /\ \/ Write(e) \/ Configure(e) \/ SetupBegins(e) \/ RemoveEntry(e)
       \/ stage[e] # "adopting" /\ Close(e)
BackupSteps == Fence \/ NextArchive \/ Prepared
ActorsNext ==
    \/ \E e \in Entries : ThreadSteps(e) \/ EntrySteps(e) \/ OwnerSteps(e)
    \/ PreBackup \/ BackupSteps \/ FinishBackup

ActorsSafe == ActorsInit /\ [][ActorsNext]_actorVars

----------------------------------------------------------------------------
ActorsTypeOK ==
    /\ stage \in [Entries -> Stages] /\ lives \in [Entries -> 0..MaxLives + 1]
    /\ \A e \in Entries :
          /\ DOMAIN actor[e] = DOMAIN NoActor
          /\ ToSet(actor[e].ops) \subseteq {"open", "write", "barrier", "finish"}
    /\ backup.phase \in {"none", "preparing", "waiting", "copying"}
    /\ backup.removals \subseteq Entries

\* While a backup copies the files, no actor changes one: nothing that was accepted before is
\* still running, and what is accepted meanwhile ends without a write (backup.py,
\* RideArchive._db, async_open).
FilesStandStill ==
    backup.phase = "copying" =>
        \A e \in Entries : actor[e].running => Head(actor[e].ops) \notin {"open", "write"}

\* Nothing stays fenced when there is no backup, whenever its actor was made.
PauseEnds == ~BackupActive => \A e \in Entries : actor[e].on => ~actor[e].paused

\* Files are deleted under nobody's hands: the account has no actor then, of whatever entry
\* (async_remove_account, account_lock, async_remove_entry).
ErasedIsClosed ==
    \A e \in Entries : stage[e] = "erasing" =>
        \A o \in Siblings(e) \union {e} : ~actor[o].on

\* Whoever needs the files to stand still, a backup or a deletion, has them to itself, and no longer
\* than it takes.
ActorsAreFenced == FilesStandStill /\ PauseEnds /\ ErasedIsClosed
=============================================================================
