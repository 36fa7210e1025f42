---------------------------- MODULE ArchiveProofs ----------------------------
(***************************************************************************)
(* The fences of the archives hold for any number of entries, accounts and *)
(* waiting operations: a backup copies files that nobody changes, nothing  *)
(* stays fenced after it, and files are deleted only where the account has *)
(* no actor.                                                               *)
(*                                                                         *)
(* The invariant has two halves.  The fence follows the actors: while a    *)
(* backup is on, an actor is quiet, or the hook has not passed its place   *)
(* in the list.  The stages follow the entries: one of them has the        *)
(* account, one has its lock, and a deletion that waits has no actor of    *)
(* another entry ahead of it.  The actions touch the two halves apart,     *)
(* which the lemmas follow.                                                *)
(*                                                                         *)
(* Then the directories of exports and imports, which have an owner at     *)
(* every step, and the files of an account, of which no start and no crash *)
(* within one costs an original.  Last the tables of the archives: in      *)
(* whatever order receipts, repairs and merges come, the marks of a month  *)
(* are its newest list, nothing better is overwritten, and the pages of a  *)
(* reader are one selection.                                               *)
(***************************************************************************)
EXTENDS ArchiveActors, ArchiveExchange, ArchiveFiles, RideStore, FiniteSetTheorems, SequenceTheorems,
    WellFoundedInduction, TLAPS

Ops == {"open", "write", "barrier", "finish"}
Actors == [on : BOOLEAN, tried : BOOLEAN, opened : BOOLEAN, closing : BOOLEAN, conn : BOOLEAN,
           paused : BOOLEAN, running : BOOLEAN, ops : Seq(Ops)]
Backups == [phase : {"none", "preparing", "waiting", "copying"}, archives : Seq(Entries \X Nat),
            next : Nat \ {0}, removals : SUBSET Entries]
USE DEF Backups
Accounts == {Account[e] : e \in Entries}
\* Stages of an entry that has an actor, and of one that can be given one.
Acting == {"adopting", "loading", "loaded", "closing", "dropping"}
Starting == {"starting", "looking"}

ActorTypes ==
    /\ stage \in [Entries -> Stages] /\ actor \in [Entries -> Actors]
    /\ lives \in [Entries -> Nat] /\ holder \in [Accounts -> Entries \union {0}]
    /\ backup \in Backups

LivesInv ==
    \A e \in Entries :
        /\ lives[e] <= MaxLives + 1
        /\ stage[e] \in Starting => lives[e] < MaxLives
        /\ stage[e] = "adopting" => lives[e] <= MaxLives

QueueInv ==
    \A e \in Entries :
        /\ actor[e].on <=> stage[e] \in Acting
        /\ actor[e].running => actor[e].ops # <<>>
        /\ ~actor[e].on => actor[e].ops = <<>>

\* A fenced actor: nothing that writes is running, or will.
Quiet(a) ==
    /\ a.paused /\ \A j \in 1..Len(a.ops) : a.ops[j] # "open"
    /\ a.running => a.ops[1] \notin {"open", "write"}

\* An actor at whose barrier the hook waits: what writes is before the barrier.
Draining(a) ==
    /\ a.paused
    /\ \/ a.closing
       \/ /\ \A j \in 1..Len(a.ops) : a.ops[j] = "open" =>
                \E k \in 1..Len(a.ops) : k > j /\ a.ops[k] = "barrier"
          /\ a.running /\ a.ops[1] \in {"open", "write"} =>
                \E k \in 1..Len(a.ops) : k > 1 /\ a.ops[k] = "barrier"

\* During a backup an actor is fenced, or the hook is not past it.
FenceInv ==
    BackupActive => \A e \in Entries : actor[e].on =>
        \/ Quiet(actor[e])
        \/ backup.phase # "copying" /\ \E i \in 1..Len(backup.archives) :
              /\ i >= backup.next /\ backup.archives[i] = <<e, lives[e]>>
              /\ i = backup.next /\ backup.phase = "waiting" => Draining(actor[e])

HookInv == backup.phase = "waiting" => backup.next <= Len(backup.archives)

\* What is fenced will be thawed.
ThawInv ==
    \A e \in Entries : actor[e].on /\ actor[e].paused =>
        BackupActive /\ \E i \in 1..Len(backup.archives) : backup.archives[i] = <<e, lives[e]>>

Claims(e) == Configured(e) \/ stage[e] = "dropping"

\* One entry of an account at a time.
SoleInv == \A e \in Entries : \A o \in Siblings(e) : ~(Claims(e) /\ Claims(o))

\* Who has the lock of the account.
LockInv ==
    \A e \in Entries :
        /\ stage[e] \in {"looking", "adopting", "erasing"} <=> holder[Account[e]] = e
        /\ holder[Account[e]] # 0 => Account[holder[Account[e]]] = Account[e]

\* While a deletion is put off, no entry of the account is set up or has an actor.
DeferInv ==
    \A e \in Entries :
        /\ e \in backup.removals <=> stage[e] = "deferred"
        /\ stage[e] = "deferred" =>
              BackupActive /\ \A o \in Siblings(e) : stage[o] \notin Starting \union Acting

\* An actor of another entry than the one that is configured is closed before a deletion waits
\* for the lock.
WaitInv == \A e \in Entries : stage[e] = "locking" => \A o \in Siblings(e) : stage[o] # "dropping"

\* Nobody has an actor where files are deleted.
EraseInv ==
    \A e \in Entries : stage[e] = "erasing" => \A o \in Siblings(e) : stage[o] \notin Acting

ActorsInv ==
    /\ ActorTypes /\ LivesInv /\ QueueInv /\ FenceInv /\ HookInv /\ ThawInv
    /\ SoleInv /\ LockInv /\ DeferInv /\ WaitInv /\ EraseInv

\* 0 stands for nobody.
LEMMA EntriesAreNumbers == ASSUME ArchiveActorsAssumption PROVE 0 \notin Entries /\ IsFiniteSet(Entries)
BY DEF ArchiveActorsAssumption

\* The invariant holds at the start.
LEMMA ActorsStart == ASSUME ArchiveActorsAssumption PROVE ActorsInit => ActorsInv
<1> SUFFICES ASSUME ActorsInit PROVE ActorsInv
  OBVIOUS
<1>1. NoActor \in Actors
  BY DEF NoActor, Actors
<1>2. ActorTypes
  <2>1. backup \in Backups
    BY DEF ActorsInit, NoBackup
  <2> QED
    BY <1>1, <2>1 DEF ActorsInit, ActorTypes, Stages, Accounts
<1>3. LivesInv
  BY DEF ActorsInit, LivesInv, Starting, ArchiveActorsAssumption
<1>4. QueueInv
  BY DEF ActorsInit, QueueInv, Acting, NoActor
<1>5. FenceInv /\ HookInv /\ ThawInv
  BY DEF ActorsInit, FenceInv, HookInv, ThawInv, NoBackup, NoActor, BackupActive
<1>6. SoleInv
  BY DEF ActorsInit, SoleInv, Claims, Configured
<1>7. LockInv
  BY EntriesAreNumbers DEF ActorsInit, LockInv
<1>8. DeferInv /\ WaitInv /\ EraseInv
  BY DEF ActorsInit, DeferInv, WaitInv, EraseInv, NoBackup
<1> QED
  BY <1>2, <1>3, <1>4, <1>5, <1>6, <1>7, <1>8 DEF ActorsInv

\* b is what a step of its own thread or entry makes of actor a.
Keeps(a, b) ==
    /\ b \in Actors /\ b.on = a.on /\ b.paused = a.paused
    /\ b.running => b.ops # <<>>
    /\ Quiet(a) => Quiet(b)
    /\ Draining(a) => Draining(b)

\* An operation is put at the end of the queue.
LEMMA AppendKeeps ==
    ASSUME NEW a \in Actors, a.running => a.ops # <<>>, NEW b \in Actors, NEW op \in Ops,
           b.on = a.on, b.paused = a.paused, b.running = a.running, a.closing => b.closing,
           b.ops = Append(a.ops, op), op = "open" => ~a.paused
    PROVE  Keeps(a, b)
<1>1. a.ops \in Seq(Ops) /\ b.ops \in Seq(Ops)
  BY DEF Actors
<1>2. /\ Len(a.ops) \in Nat /\ Len(b.ops) = Len(a.ops) + 1 /\ b.ops # <<>>
      /\ \A i \in 1..Len(a.ops) : b.ops[i] = a.ops[i]
      /\ b.ops[Len(a.ops) + 1] = op
  BY <1>1, AppendProperties
<1>3. a.running => Len(a.ops) >= 1
  BY <1>1, <1>2
<1>4. Quiet(a) => Quiet(b)
  <2> SUFFICES ASSUME Quiet(a) PROVE Quiet(b)
    OBVIOUS
  <2>1. b.paused /\ op # "open"
    BY DEF Quiet
  <2>2. \A j \in 1..Len(b.ops) : b.ops[j] # "open"
    BY <1>2, <2>1 DEF Quiet
  <2>3. b.running => b.ops[1] \notin {"open", "write"}
    BY <1>2, <1>3 DEF Quiet
  <2> QED
    BY <2>1, <2>2, <2>3 DEF Quiet
<1>5. Draining(a) => Draining(b)
  <2> SUFFICES ASSUME Draining(a) PROVE Draining(b)
    OBVIOUS
  <2>1. b.paused /\ op # "open"
    BY DEF Draining
  <2>2. CASE a.closing
    BY <2>1, <2>2 DEF Draining
  <2>3. CASE ~a.closing
    <3>1. \A j \in 1..Len(b.ops) : b.ops[j] = "open" =>
                \E k \in 1..Len(b.ops) : k > j /\ b.ops[k] = "barrier"
      BY <1>2, <2>1, <2>3 DEF Draining
    <3>2. b.running /\ b.ops[1] \in {"open", "write"} =>
                \E k \in 1..Len(b.ops) : k > 1 /\ b.ops[k] = "barrier"
      BY <1>2, <1>3, <2>3 DEF Draining
    <3> QED
      BY <2>1, <3>1, <3>2 DEF Draining
  <2> QED
    BY <2>2, <2>3
<1> QED
  BY <1>2, <1>4, <1>5 DEF Keeps

\* The first operation leaves the queue.
LEMMA TailKeeps ==
    ASSUME NEW a \in Actors, a.ops # <<>>, NEW b \in Actors,
           b.on = a.on, b.paused = a.paused, ~b.running, a.closing => b.closing, b.ops = Tail(a.ops)
    PROVE  Keeps(a, b)
<1>1. a.ops \in Seq(Ops) /\ b.ops \in Seq(Ops)
  BY DEF Actors
<1>2. /\ Len(a.ops) \in Nat /\ Len(b.ops) = Len(a.ops) - 1
      /\ \A i \in 1..Len(b.ops) : b.ops[i] = a.ops[i + 1]
  BY <1>1, HeadTailProperties
<1>3. Quiet(a) => Quiet(b)
  BY <1>2 DEF Quiet
<1>4. Draining(a) => Draining(b)
  <2> SUFFICES ASSUME Draining(a), ~a.closing PROVE Draining(b)
    BY DEF Draining
  <2>1. ASSUME NEW j \in 1..Len(b.ops), b.ops[j] = "open"
        PROVE  \E k \in 1..Len(b.ops) : k > j /\ b.ops[k] = "barrier"
    <3>1. j + 1 \in 1..Len(a.ops) /\ a.ops[j + 1] = "open"
      BY <1>2, <2>1
    <3>2. PICK k \in 1..Len(a.ops) : k > j + 1 /\ a.ops[k] = "barrier"
      BY <3>1 DEF Draining
    <3>3. k - 1 \in 1..Len(b.ops) /\ k - 1 > j /\ b.ops[k - 1] = "barrier"
      BY <1>2, <3>2
    <3> QED
      BY <3>3
  <2>2. b.paused
    BY DEF Draining
  <2> QED
    BY <2>1, <2>2 DEF Draining
<1> QED
  BY <1>3, <1>4 DEF Keeps

\* The first operation begins; one that writes does not where the archive is fenced.
LEMMA RunKeeps ==
    ASSUME NEW a \in Actors, a.ops # <<>>, NEW b \in Actors, ~a.running,
           b.on = a.on, b.paused = a.paused, a.closing => b.closing, b.ops = a.ops,
           a.ops[1] = "write" => ~a.paused
    PROVE  Keeps(a, b)
<1>1. a.ops \in Seq(Ops) /\ Len(a.ops) \in Nat /\ Len(a.ops) >= 1
  BY DEF Actors
<1>2. Quiet(a) => Quiet(b)
  BY <1>1 DEF Quiet
<1>3. Draining(a) => Draining(b)
  BY <1>1 DEF Draining
<1> QED
  BY <1>2, <1>3 DEF Keeps

\* Nothing happens to an actor.
LEMMA SameKeeps == ASSUME NEW a \in Actors, a.running => a.ops # <<>> PROVE Keeps(a, a)
BY DEF Keeps

\* Who is quiet at the end of a hook.
LEMMA BarrierQuiets ==
    ASSUME NEW a \in Actors, Draining(a), "barrier" \notin ToSet(a.ops),
           a.closing => a.ops = <<>> /\ ~a.running
    PROVE  Quiet(a)
<1>1. a.ops \in Seq(Ops) /\ Len(a.ops) \in Nat /\ DOMAIN a.ops = 1..Len(a.ops)
  BY DEF Actors
<1>2. \A k \in 1..Len(a.ops) : a.ops[k] # "barrier"
  BY <1>1 DEF ToSet
<1>3. CASE a.closing
  BY <1>3 DEF Quiet, Draining
<1>4. CASE ~a.closing
  BY <1>2, <1>4 DEF Quiet, Draining
<1> QED
  BY <1>3, <1>4

\* The flags of an actor.
LEMMA ActorForm ==
    ASSUME NEW a \in Actors, NEW ops \in Seq(Ops)
    PROVE  /\ [a EXCEPT !.ops = ops] \in Actors
           /\ [a EXCEPT !.running = TRUE] \in Actors
           /\ [a EXCEPT !.running = FALSE, !.ops = ops] \in Actors
           /\ [a EXCEPT !.closing = TRUE, !.ops = ops] \in Actors
           /\ [a EXCEPT !.tried = TRUE, !.ops = ops] \in Actors
           /\ [a EXCEPT !.tried = TRUE] \in Actors
           /\ [a EXCEPT !.paused = TRUE] \in Actors /\ [a EXCEPT !.paused = FALSE] \in Actors
           /\ [a EXCEPT !.paused = TRUE, !.ops = ops] \in Actors
           /\ [a EXCEPT !.conn = FALSE] \in Actors
           /\ [a EXCEPT !.conn = TRUE, !.opened = TRUE] \in Actors
<1>1. [a EXCEPT !.ops = ops] \in Actors
  BY DEF Actors
<1>2. [a EXCEPT !.running = TRUE] \in Actors
  BY DEF Actors
<1>3. [a EXCEPT !.running = FALSE, !.ops = ops] \in Actors
  BY DEF Actors
<1>4. [a EXCEPT !.closing = TRUE, !.ops = ops] \in Actors
  BY DEF Actors
<1>5. [a EXCEPT !.tried = TRUE, !.ops = ops] \in Actors
  BY DEF Actors
<1>6. [a EXCEPT !.tried = TRUE] \in Actors
  BY DEF Actors
<1>7. [a EXCEPT !.paused = TRUE] \in Actors /\ [a EXCEPT !.paused = FALSE] \in Actors
  BY DEF Actors
<1>8. [a EXCEPT !.paused = TRUE, !.ops = ops] \in Actors
  BY DEF Actors
<1>9. [a EXCEPT !.conn = FALSE] \in Actors
  BY DEF Actors
<1>10. [a EXCEPT !.conn = TRUE, !.opened = TRUE] \in Actors
  BY DEF Actors
<1> QED
  BY <1>1, <1>2, <1>3, <1>4, <1>5, <1>6, <1>7, <1>8, <1>9, <1>10

\* async_close.
LEMMA ClosingKeeps ==
    ASSUME NEW a \in Actors, a.running => a.ops # <<>>
    PROVE  Keeps(a, Closing(a))
<1>1. CASE a.closing
  BY <1>1, SameKeeps DEF Closing
<1>2. CASE ~a.closing
  <2> DEFINE ops == Append(a.ops, "finish")
             b == [a EXCEPT !.closing = TRUE, !.ops = ops]
  <2>1. Closing(a) = b
    BY <1>2 DEF Closing
  <2>2. ops \in Seq(Ops)
    BY DEF Actors, Ops
  <2>3. b \in Actors
    BY <2>2, ActorForm
  <2>4. /\ b.on = a.on /\ b.paused = a.paused /\ b.running = a.running /\ b.closing
        /\ b.ops = ops
    BY DEF Actors
  <2>5. "finish" \in Ops /\ "finish" # "open"
    BY DEF Ops
  <2> HIDE DEF b
  <2> QED
    BY <2>1, <2>3, <2>4, <2>5, AppendKeeps
<1> QED
  BY <1>1, <1>2

\* What a step of the threads and the entries leaves of the actors, apart from new ones.
Gentle ==
    /\ actor' \in [Entries -> Actors] /\ lives' = lives
    /\ backup' \in Backups
    /\ backup'.phase = backup.phase /\ backup'.archives = backup.archives /\ backup'.next = backup.next
    /\ \A e \in Entries :
          /\ actor'[e].running => actor'[e].ops # <<>>
          /\ ~actor'[e].on => actor'[e].ops = <<>>
          /\ actor'[e].on => Keeps(actor[e], actor'[e])

\* Nobody's actor is made or reaped.
SameOn == \A o \in Entries : actor'[o].on <=> actor[o].on

\* Such a step leaves the fence as it is.
LEMMA GentleKeeps ==
    ASSUME ActorsInv, Gentle
    PROVE  FenceInv' /\ HookInv' /\ ThawInv'
<1>1. FenceInv /\ HookInv /\ ThawInv /\ (BackupActive' <=> BackupActive)
  BY DEF ActorsInv, Gentle, BackupActive
<1>2. FenceInv'
  <2> SUFFICES ASSUME BackupActive, NEW e \in Entries, actor'[e].on
               PROVE  \/ Quiet(actor'[e])
                      \/ /\ backup.phase # "copying"
                         /\ \E i \in 1..Len(backup.archives) :
                               /\ i >= backup.next /\ backup.archives[i] = <<e, lives[e]>>
                               /\ i = backup.next /\ backup.phase = "waiting" => Draining(actor'[e])
    BY <1>1 DEF FenceInv, Gentle
  <2>1. actor[e].on /\ (Quiet(actor[e]) => Quiet(actor'[e])) /\ (Draining(actor[e]) => Draining(actor'[e]))
    BY DEF Gentle, Keeps
  <2>2. \/ Quiet(actor[e])
        \/ /\ backup.phase # "copying"
           /\ \E i \in 1..Len(backup.archives) :
                 /\ i >= backup.next /\ backup.archives[i] = <<e, lives[e]>>
                 /\ i = backup.next /\ backup.phase = "waiting" => Draining(actor[e])
    BY <1>1, <2>1 DEF FenceInv
  <2> QED
    BY <2>1, <2>2
<1>3. HookInv' /\ ThawInv'
  BY <1>1 DEF HookInv, ThawInv, Gentle, Keeps
<1> QED
  BY <1>2, <1>3

\* A step of one actor.
LEMMA OneGentle ==
    ASSUME ActorsInv, NEW e \in Entries, NEW b, Keeps(actor[e], b), actor[e].on,
           actor' = [actor EXCEPT ![e] = b], UNCHANGED <<lives, backup>>
    PROVE  Gentle /\ SameOn
<1>1. b \in Actors /\ b.on /\ (b.running => b.ops # <<>>)
  BY DEF Keeps
<1>2. actor \in [Entries -> Actors] /\ QueueInv /\ ActorTypes
  BY DEF ActorsInv, ActorTypes
<1>3. actor' \in [Entries -> Actors] /\ actor'[e] = b /\ \A o \in Entries \ {e} : actor'[o] = actor[o]
  BY <1>1, <1>2
<1>4. \A o \in Entries : actor[o] \in Actors /\ (actor[o].running => actor[o].ops # <<>>)
  BY <1>2 DEF QueueInv
<1>5. ASSUME NEW o \in Entries
      PROVE  /\ actor'[o].running => actor'[o].ops # <<>>
             /\ ~actor'[o].on => actor'[o].ops = <<>>
             /\ actor'[o].on => Keeps(actor[o], actor'[o])
  <2>1. CASE o = e
    BY <1>1, <1>3, <2>1
  <2>2. CASE o # e
    BY <1>2, <1>3, <1>4, <2>2, SameKeeps DEF QueueInv
  <2> QED
    BY <2>1, <2>2
<1> QED
  BY <1>1, <1>2, <1>3, <1>5 DEF Gentle, SameOn, ActorTypes

\* A step that leaves the actors alone.
LEMMA NoneGentle ==
    ASSUME ActorsInv, UNCHANGED <<actor, lives>>,
           backup' = backup \/ \E e \in Entries : backup' = [backup EXCEPT !.removals = @ \union {e}]
    PROVE  Gentle /\ SameOn
<1>1. actor \in [Entries -> Actors] /\ QueueInv /\ ActorTypes
  BY DEF ActorsInv, ActorTypes
<1>2. \A o \in Entries : Keeps(actor[o], actor[o])
  BY <1>1, SameKeeps DEF QueueInv
<1>3. /\ backup' \in Backups
      /\ backup'.phase = backup.phase /\ backup'.archives = backup.archives /\ backup'.next = backup.next
  <2>1. CASE backup' = backup
    BY <1>1, <2>1 DEF ActorTypes
  <2>2. ASSUME NEW e \in Entries, backup' = [backup EXCEPT !.removals = @ \union {e}]
        PROVE  <1>3
    BY <1>1, <2>2 DEF ActorTypes
  <2> QED
    BY <2>1, <2>2
<1> QED
  BY <1>1, <1>2, <1>3 DEF Gentle, SameOn, QueueInv

\* The actor of an entry is reaped.
LEMMA ReapedGentle ==
    ASSUME ActorsInv, NEW e \in Entries, actor' = [actor EXCEPT ![e] = NoActor], lives' = lives,
           backup' = backup \/ backup' = [backup EXCEPT !.removals = @ \union {e}]
    PROVE  Gentle /\ ~actor'[e].on /\ \A o \in Entries \ {e} : actor'[o] = actor[o]
<1>1. actor \in [Entries -> Actors] /\ QueueInv /\ ActorTypes
  BY DEF ActorsInv, ActorTypes
<1>2. \A o \in Entries : Keeps(actor[o], actor[o])
  BY <1>1, SameKeeps DEF QueueInv
<1>3. /\ backup' \in Backups
      /\ backup'.phase = backup.phase /\ backup'.archives = backup.archives /\ backup'.next = backup.next
  <2>1. CASE backup' = backup
    BY <1>1, <2>1 DEF ActorTypes
  <2>2. CASE backup' = [backup EXCEPT !.removals = @ \union {e}]
    BY <1>1, <2>2 DEF ActorTypes
  <2> QED
    BY <2>1, <2>2
<1>4. NoActor \in Actors /\ ~NoActor.on /\ NoActor.ops = <<>> /\ ~NoActor.running
  BY DEF NoActor, Actors
<1>5. actor' \in [Entries -> Actors] /\ actor'[e] = NoActor /\ \A o \in Entries \ {e} : actor'[o] = actor[o]
  BY <1>1, <1>4
<1> QED
  BY <1>1, <1>2, <1>3, <1>4, <1>5 DEF Gentle, QueueInv

----------------------------------------------------------------------------
\* The steps of the threads and the entries.

\* A write is accepted.
LEMMA WriteGentle ==
    ASSUME ActorsInv, NEW e \in Entries, Write(e)
    PROVE  Gentle /\ SameOn /\ UNCHANGED <<stage, holder, backup>>
<1> DEFINE a == actor[e]
           ops == Append(a.ops, "write")
           b == [a EXCEPT !.ops = ops]
<1>1. a \in Actors /\ a.on /\ (a.running => a.ops # <<>>)
  BY DEF ActorsInv, ActorTypes, QueueInv, Write, Acting
<1>2. actor' = [actor EXCEPT ![e] = b] /\ UNCHANGED <<stage, lives, holder, backup>>
  BY DEF Write, Submit
<1>3. "write" \in Ops /\ ops \in Seq(Ops)
  BY <1>1 DEF Actors, Ops
<1>4. b \in Actors
  BY <1>1, <1>3, ActorForm
<1>5. /\ b.on = a.on /\ b.paused = a.paused /\ b.running = a.running /\ b.closing = a.closing
      /\ b.ops = Append(a.ops, "write")
  BY <1>1 DEF Actors
<1> HIDE DEF a, b
<1>6. Keeps(a, b)
  BY <1>1, <1>3, <1>4, <1>5, AppendKeeps
<1> QED
  BY <1>1, <1>2, <1>6, OneGentle DEF a

\* The thread takes an operation.
LEMMA StartGentle ==
    ASSUME ActorsInv, NEW e \in Entries, StartOp(e)
    PROVE  Gentle /\ SameOn /\ UNCHANGED <<stage, holder, backup>>
<1> DEFINE a == actor[e]
           refused == Head(a.ops) = "write" /\ ~WriteAllowed(a)
           ops == Tail(a.ops)
           b == IF refused THEN [a EXCEPT !.ops = ops] ELSE [a EXCEPT !.running = TRUE]
<1>1. a \in Actors /\ a.on /\ a.ops # <<>> /\ ~a.running
  BY DEF ActorsInv, ActorTypes, QueueInv, StartOp
<1>2. actor' = [actor EXCEPT ![e] = b] /\ UNCHANGED <<stage, lives, holder, backup>>
  BY DEF StartOp
<1>3. a.ops \in Seq(Ops) /\ ops \in Seq(Ops) /\ Head(a.ops) = a.ops[1]
  BY <1>1 DEF Actors
<1>4. CASE refused
  <2>1. b = [a EXCEPT !.ops = ops]
    BY <1>4
  <2>2. b \in Actors
    <3> HIDE DEF a, b, ops
    <3> QED
      BY <1>1, <1>3, <2>1, ActorForm
  <2>3. b.on = a.on /\ b.paused = a.paused /\ b.running = a.running /\ b.closing = a.closing /\ b.ops = Tail(a.ops)
    BY <1>1, <2>1 DEF Actors
  <2> HIDE DEF a, b
  <2>4. Keeps(a, b)
    BY <1>1, <2>2, <2>3, TailKeeps
  <2> QED
    BY <1>1, <1>2, <2>4, OneGentle DEF a
<1>5. CASE ~refused
  <2>1. b = [a EXCEPT !.running = TRUE]
    BY <1>5
  <2>2. b \in Actors
    <3> HIDE DEF a, b, ops
    <3> QED
      BY <1>1, <1>3, <2>1, ActorForm
  <2>3. b.on = a.on /\ b.paused = a.paused /\ b.closing = a.closing /\ b.ops = a.ops
    BY <1>1, <2>1 DEF Actors
  <2>4. a.ops[1] = "write" => ~a.paused
    BY <1>3, <1>5 DEF WriteAllowed
  <2> HIDE DEF a, b
  <2>5. Keeps(a, b)
    BY <1>1, <2>2, <2>3, <2>4, RunKeeps
  <2> QED
    BY <1>1, <1>2, <2>5, OneGentle DEF a
<1> QED
  BY <1>4, <1>5

\* An operation ends.
LEMMA EndGentle ==
    ASSUME ActorsInv, NEW e \in Entries, EndOp(e)
    PROVE  Gentle /\ SameOn /\ UNCHANGED <<stage, holder, backup>>
<1> DEFINE a == actor[e]
           rest == [a EXCEPT !.running = FALSE, !.ops = Tail(a.ops)]
<1>1. a \in Actors /\ a.running /\ a.ops # <<>>
  BY DEF ActorsInv, ActorTypes, QueueInv, EndOp
<1>2. a.on
  BY <1>1 DEF ActorsInv, QueueInv
<1>3. Tail(a.ops) \in Seq(Ops)
  BY <1>1 DEF Actors
<1>4. rest \in Actors
  BY <1>1, <1>3, ActorForm
<1>5. rest.on = a.on /\ rest.paused = a.paused /\ ~rest.running /\ rest.closing = a.closing /\ rest.ops = Tail(a.ops)
  BY <1>1 DEF Actors
<1>6. PICK b \in {[rest EXCEPT !.conn = TRUE, !.opened = TRUE], [rest EXCEPT !.conn = FALSE], rest} :
         actor' = [actor EXCEPT ![e] = b] /\ UNCHANGED <<stage, lives, holder, backup>>
  BY DEF EndOp
<1> HIDE DEF rest, a
<1>7. b \in Actors
  BY <1>4, <1>6, ActorForm, EmptySeq
<1>8. b.on = a.on /\ b.paused = a.paused /\ ~b.running /\ b.closing = a.closing /\ b.ops = Tail(a.ops)
  BY <1>4, <1>5, <1>6 DEF Actors
<1>9. Keeps(a, b)
  BY <1>1, <1>7, <1>8, TailKeeps
<1> QED
  BY <1>2, <1>6, <1>9, OneGentle DEF a

\* async_open.
LEMMA OpenGentle ==
    ASSUME ActorsInv, NEW e \in Entries, OpenActor(e)
    PROVE  /\ Gentle /\ SameOn /\ UNCHANGED <<holder, backup>>
           /\ UNCHANGED stage \/ (stage[e] = "loading" /\ To(e, "closing"))
<1> DEFINE a == actor[e]
<1>1. a \in Actors /\ a.on /\ (a.running => a.ops # <<>>)
  BY DEF ActorsInv, ActorTypes, QueueInv, OpenActor, Acting
<1>2. /\ UNCHANGED <<lives, holder, backup>>
      /\ UNCHANGED stage \/ (stage[e] = "loading" /\ To(e, "closing"))
  BY DEF OpenActor
<1>3. CASE a.paused
  <2> DEFINE c == Closing(a)
             b == [c EXCEPT !.tried = TRUE]
  <2>1. actor' = [actor EXCEPT ![e] = b]
    BY <1>3 DEF OpenActor
  <2>2. Keeps(a, c)
    BY <1>1, ClosingKeeps
  <2>3. c \in Actors
    BY <2>2 DEF Keeps
  <2> HIDE DEF c, a
  <2>4. b \in Actors
    BY <2>3, ActorForm, EmptySeq
  <2>5. b.on = c.on /\ b.paused = c.paused /\ b.running = c.running /\ b.closing = c.closing /\ b.ops = c.ops
    BY <2>3 DEF Actors
  <2> HIDE DEF b
  <2>6. Keeps(a, b)
    <3>1. Quiet(c) => Quiet(b)
      BY <2>5 DEF Quiet
    <3>2. Draining(c) => Draining(b)
      BY <2>5 DEF Draining
    <3> QED
      BY <2>2, <2>4, <2>5, <3>1, <3>2 DEF Keeps
  <2> QED
    BY <1>1, <1>2, <2>1, <2>6, OneGentle DEF a
<1>4. CASE ~a.paused
  <2> DEFINE ops == Append(a.ops, "open")
             b == [a EXCEPT !.tried = TRUE, !.ops = ops]
  <2>1. actor' = [actor EXCEPT ![e] = b]
    BY <1>4 DEF OpenActor
  <2>2. "open" \in Ops /\ ops \in Seq(Ops)
    BY <1>1 DEF Actors, Ops
  <2>3. b \in Actors
    BY <1>1, <2>2, ActorForm
  <2>4. b.on = a.on /\ b.paused = a.paused /\ b.running = a.running /\ b.closing = a.closing
        /\ b.ops = Append(a.ops, "open")
    BY <1>1 DEF Actors
  <2> HIDE DEF a, b
  <2>5. Keeps(a, b)
    BY <1>1, <1>4, <2>2, <2>3, <2>4, AppendKeeps
  <2> QED
    BY <1>1, <1>2, <2>1, <2>5, OneGentle DEF a
<1> QED
  BY <1>3, <1>4

\* The end of the setup.
LEMMA LoadedGentle ==
    ASSUME ActorsInv, NEW e \in Entries, Loaded(e)
    PROVE  /\ Gentle /\ SameOn /\ UNCHANGED <<holder, backup>> /\ stage[e] = "loading"
           /\ \E s \in {"closing", "loaded"} : To(e, s)
<1> DEFINE a == actor[e]
<1>1. a \in Actors /\ a.on /\ (a.running => a.ops # <<>>) /\ stage[e] = "loading"
  BY DEF ActorsInv, ActorTypes, QueueInv, Loaded, Acting
<1>2. UNCHANGED <<lives, holder, backup>>
  BY DEF Loaded
<1>3. CASE a.paused
  <2>1. actor' = [actor EXCEPT ![e] = Closing(a)] /\ To(e, "closing")
    BY <1>3 DEF Loaded
  <2> QED
    BY <1>1, <1>2, <2>1, ClosingKeeps, OneGentle
<1>4. CASE ~a.paused
  <2>1. UNCHANGED actor /\ To(e, "loaded")
    BY <1>4 DEF Loaded
  <2> QED
    BY <1>1, <1>2, <2>1, NoneGentle
<1> QED
  BY <1>3, <1>4

\* async_close of an entry or an adoption.
LEMMA CloseGentle ==
    ASSUME ActorsInv, NEW e \in Entries, Close(e)
    PROVE  /\ Gentle /\ SameOn /\ UNCHANGED <<holder, backup>>
           /\ \/ UNCHANGED stage
              \/ stage[e] \in {"loaded", "loading"} /\ To(e, "closing")
<1>1. actor[e] \in Actors /\ actor[e].on /\ (actor[e].running => actor[e].ops # <<>>)
  BY DEF ActorsInv, ActorTypes, QueueInv, Close, Acting
<1>2. actor' = [actor EXCEPT ![e] = Closing(actor[e])] /\ UNCHANGED <<lives, holder, backup>>
  BY DEF Close
<1>3. \/ UNCHANGED stage
      \/ stage[e] \in {"loaded", "loading"} /\ To(e, "closing")
  BY DEF Close
<1> QED
  BY <1>1, <1>2, <1>3, ClosingKeeps, OneGentle

----------------------------------------------------------------------------
\* The stages of the entries.

StageInv == LivesInv /\ SoleInv /\ LockInv /\ DeferInv /\ WaitInv /\ EraseInv
Holding == {"looking", "adopting", "erasing"}
Claiming == {"ready", "starting", "looking", "adopting", "loading", "loaded", "closing", "dropping"}

\* One entry moves.
LEMMA StageForm ==
    ASSUME ActorTypes, NEW e \in Entries, NEW s \in Stages, To(e, s)
    PROVE  /\ stage' \in [Entries -> Stages] /\ stage'[e] = s
           /\ \A o \in Entries \ {e} : stage'[o] = stage[o]
BY DEF ActorTypes, To

\* Entries of the same account.
LEMMA SiblingsForm ==
    \A e, o \in Entries : o \in Siblings(e) <=> (o # e /\ Account[o] = Account[e])
BY DEF Siblings

\* The stages in which an entry has the account.
LEMMA ClaimsForm == \A e \in Entries : Claims(e) <=> stage[e] \in Claiming
BY DEF Claims, Configured, Claiming

\* An entry takes the account only when nobody else has it.
LEMMA SoleKeeps ==
    ASSUME ActorsInv, NEW e \in Entries, NEW s \in Stages, To(e, s),
           s \in Claiming => stage[e] \in Claiming \/ \A o \in Siblings(e) : stage[o] \notin Claiming
    PROVE  SoleInv'
<1>1. ActorTypes /\ SoleInv
  BY DEF ActorsInv
<1>2. stage'[e] = s /\ \A o \in Entries \ {e} : stage'[o] = stage[o]
  BY <1>1, StageForm
<1>3. \A o \in Entries : Siblings(o) \subseteq Entries \ {o}
  BY DEF Siblings
<1>4. \A o \in Entries : Claims(o)' <=> stage'[o] \in Claiming
  BY DEF Claims, Configured, Claiming
<1>5. \A o \in Entries : Siblings(o)' = Siblings(o)
  BY DEF Siblings
<1> QED
  BY <1>1, <1>2, <1>3, <1>4, <1>5, ClaimsForm, SiblingsForm DEF SoleInv

\* A step that neither takes nor gives the lock of the account, and neither defers a deletion nor
\* starts one that was deferred.
LEMMA MoveKeeps ==
    ASSUME ActorsInv, NEW e \in Entries, NEW s \in Stages, To(e, s), UNCHANGED <<holder, lives>>,
           backup'.phase = backup.phase, backup'.removals = backup.removals,
           stage[e] \notin Holding \union {"deferred"}, s \notin Holding \union {"deferred", "locking"},
           s \in Claiming => stage[e] \in Claiming \/ \A o \in Siblings(e) : stage[o] \notin Claiming,
           s \in Starting => ~BackupActive /\ lives[e] < MaxLives,
           s \in Acting => stage[e] \in Acting,
           s = "dropping" => \A o \in Siblings(e) : stage[o] # "locking"
    PROVE  StageInv'
<1>1. ActorTypes /\ LivesInv /\ SoleInv /\ LockInv /\ DeferInv /\ WaitInv /\ EraseInv
  BY DEF ActorsInv
<1>2. stage'[e] = s /\ \A o \in Entries \ {e} : stage'[o] = stage[o]
  BY <1>1, StageForm
<1>3. \A o \in Entries : Siblings(o) \subseteq Entries \ {o}
  BY DEF Siblings
<1>4. BackupActive' <=> BackupActive
  BY DEF BackupActive
<1>5. LivesInv'
  BY <1>1, <1>2 DEF LivesInv, Starting, Holding
<1>6. SoleInv'
  BY SoleKeeps
<1>7. LockInv'
  BY <1>1, <1>2 DEF LockInv, Holding
<1>8. DeferInv'
  BY <1>1, <1>2, <1>3, <1>4, SiblingsForm DEF DeferInv, Starting, Acting
<1>9. WaitInv'
  BY <1>1, <1>2, <1>3, SiblingsForm DEF WaitInv
<1>10. EraseInv'
  BY <1>1, <1>2, <1>3, SiblingsForm DEF EraseInv, Holding
<1> QED
  BY <1>5, <1>6, <1>7, <1>8, <1>9, <1>10 DEF StageInv

\* The lock of the account is taken, for a setup or for a deletion.
LEMMA HoldKeeps ==
    ASSUME ArchiveActorsAssumption, ActorsInv, NEW e \in Entries, NEW s \in Stages, To(e, s),
           UNCHANGED <<lives, backup>>,
           holder[Account[e]] = 0, Holds(e),
           \/ stage[e] = "starting" /\ s = "looking" /\ ~BackupActive
           \/ stage[e] = "locking" /\ s = "erasing" /\ Unclaimed(e)
    PROVE  StageInv'
<1>1. ActorTypes /\ LivesInv /\ SoleInv /\ LockInv /\ DeferInv /\ WaitInv /\ EraseInv
  BY DEF ActorsInv
<1>2. stage'[e] = s /\ \A o \in Entries \ {e} : stage'[o] = stage[o]
  BY <1>1, StageForm
<1>3. \A o \in Entries : Siblings(o) \subseteq Entries \ {o}
  BY DEF Siblings
<1>4. BackupActive' <=> BackupActive
  BY DEF BackupActive
<1>5. LivesInv'
  BY <1>1, <1>2 DEF LivesInv, Starting
<1>6. SoleInv'
  <2>1. s \in Claiming => stage[e] \in Claiming
    BY DEF Claiming
  <2> QED
    BY <2>1, SoleKeeps
<1>7. LockInv'
  <2>1. holder'[Account[e]] = e /\ \A a \in Accounts \ {Account[e]} : holder'[a] = holder[a]
    BY <1>1 DEF ActorTypes, Holds, Accounts
  <2>2. \A o \in Entries : Account[o] \in Accounts
    BY DEF Accounts
  <2>3. ASSUME NEW o \in Entries \ {e}
        PROVE  /\ stage'[o] \in {"looking", "adopting", "erasing"} <=> holder'[Account[o]] = o
               /\ holder'[Account[o]] # 0 => Account[holder'[Account[o]]] = Account[o]
    <3>1. /\ stage[o] \in {"looking", "adopting", "erasing"} <=> holder[Account[o]] = o
          /\ holder[Account[o]] # 0 => Account[holder[Account[o]]] = Account[o]
      BY <1>1 DEF LockInv
    <3>2. stage'[o] = stage[o]
      BY <1>2
    <3>3. CASE Account[o] = Account[e]
      <4>1. holder[Account[o]] # o /\ holder'[Account[o]] # o
        BY <1>1, <2>1, <3>3, EntriesAreNumbers DEF LockInv
      <4>2. holder'[Account[o]] \in {0, e}
        BY <2>1, <3>3
      <4> QED
        BY <3>1, <3>2, <3>3, <4>1, <4>2
    <3>4. CASE Account[o] # Account[e]
      BY <2>1, <2>2, <3>1, <3>2, <3>4
    <3> QED
      BY <3>3, <3>4
  <2>4. /\ stage'[e] \in {"looking", "adopting", "erasing"} <=> holder'[Account[e]] = e
        /\ holder'[Account[e]] # 0 => Account[holder'[Account[e]]] = Account[e]
    BY <1>2, <2>1, EntriesAreNumbers
  <2>5. \A o \in Entries :
          /\ stage'[o] \in {"looking", "adopting", "erasing"} <=> holder'[Account[o]] = o
          /\ holder'[Account[o]] # 0 => Account[holder'[Account[o]]] = Account[o]
    <3> SUFFICES ASSUME NEW o \in Entries
                 PROVE  /\ stage'[o] \in {"looking", "adopting", "erasing"}
                             <=> holder'[Account[o]] = o
                        /\ holder'[Account[o]] # 0 => Account[holder'[Account[o]]] = Account[o]
      OBVIOUS
    <3>1. CASE o = e
      BY <2>4, <3>1, Zenon
    <3>2. CASE o # e
      <4>1. o \in Entries \ {e}
        BY <3>2
      <4> QED
        BY <2>3, <4>1
    <3> QED
      BY <3>1, <3>2
  <2> QED
    BY <2>5, Zenon DEF LockInv
<1>8. DeferInv'
  BY <1>1, <1>2, <1>3, <1>4, SiblingsForm DEF DeferInv, Starting, Acting
<1>9. WaitInv'
  <2>1. s \notin {"dropping", "locking"}
    OBVIOUS
  <2>2. ASSUME NEW d \in Entries, stage'[d] = "locking", NEW o \in Siblings(d)
        PROVE  stage'[o] # "dropping"
    <3>1. d # e /\ stage[d] = "locking" /\ o \in Entries
      BY <1>2, <1>3, <2>1, <2>2
    <3>2. CASE o = e
      BY <1>2, <2>1, <3>2
    <3>3. CASE o # e
      BY <1>1, <1>2, <2>2, <3>1, <3>3 DEF WaitInv
    <3> QED
      BY <3>2, <3>3
  <2> QED
    BY <2>2 DEF WaitInv
<1>10. EraseInv'
  <2>1. s \notin Acting
    BY DEF Acting
  <2>2. s = "erasing" => \A o \in Siblings(e) : stage[o] \notin Acting
    BY <1>1, <1>3 DEF WaitInv, Unclaimed, Configured, Acting
  <2> QED
    BY <1>1, <1>2, <1>3, <2>1, <2>2, SiblingsForm DEF EraseInv
<1> QED
  BY <1>5, <1>6, <1>7, <1>8, <1>9, <1>10 DEF StageInv

\* The lock is given back, at the end of a setup or of a deletion.
LEMMA ReleaseKeeps ==
    ASSUME ArchiveActorsAssumption, ActorsInv, NEW e \in Entries, NEW s \in Stages, To(e, s),
           backup'.phase = backup.phase, backup'.removals = backup.removals,
           holder' = [holder EXCEPT ![Account[e]] = 0],
           \/ stage[e] \in {"looking", "adopting"} /\ s \in {"loading", "ready"}
           \/ stage[e] = "erasing" /\ s = "gone",
           lives' = lives \/ (stage[e] # "erasing" /\ lives' = [lives EXCEPT ![e] = @ + 1])
    PROVE  StageInv'
<1>1. ActorTypes /\ LivesInv /\ SoleInv /\ LockInv /\ DeferInv /\ WaitInv /\ EraseInv
  BY DEF ActorsInv
<1>2. stage'[e] = s /\ \A o \in Entries \ {e} : stage'[o] = stage[o]
  BY <1>1, StageForm
<1>3. \A o \in Entries : Siblings(o) \subseteq Entries \ {o}
  BY DEF Siblings
<1>4. BackupActive' <=> BackupActive
  BY DEF BackupActive
<1>5. LivesInv'
  <2>1. MaxLives \in Nat /\ lives \in [Entries -> Nat]
    BY <1>1 DEF ActorTypes, ArchiveActorsAssumption
  <2> QED
    BY <1>1, <1>2, <2>1 DEF LivesInv, Starting
<1>6. SoleInv'
  <2>1. s \in Claiming => stage[e] \in Claiming
    BY DEF Claiming
  <2> QED
    BY <2>1, SoleKeeps
<1>7. LockInv'
  <2>1. holder'[Account[e]] = 0 /\ \A a \in Accounts \ {Account[e]} : holder'[a] = holder[a]
    BY <1>1 DEF ActorTypes, Accounts
  <2>2. \A o \in Entries : Account[o] \in Accounts
    BY DEF Accounts
  <2>3. ASSUME NEW o \in Entries \ {e}
        PROVE  /\ stage'[o] \in {"looking", "adopting", "erasing"} <=> holder'[Account[o]] = o
               /\ holder'[Account[o]] # 0 => Account[holder'[Account[o]]] = Account[o]
    <3>1. /\ stage[o] \in {"looking", "adopting", "erasing"} <=> holder[Account[o]] = o
          /\ holder[Account[o]] # 0 => Account[holder[Account[o]]] = Account[o]
      BY <1>1 DEF LockInv
    <3>2. stage'[o] = stage[o]
      BY <1>2
    <3>3. CASE Account[o] = Account[e]
      <4>1. holder[Account[o]] # o /\ holder'[Account[o]] # o
        BY <1>1, <2>1, <3>3, EntriesAreNumbers DEF LockInv
      <4>2. holder'[Account[o]] \in {0, e}
        BY <2>1, <3>3
      <4> QED
        BY <3>1, <3>2, <3>3, <4>1, <4>2
    <3>4. CASE Account[o] # Account[e]
      BY <2>1, <2>2, <3>1, <3>2, <3>4
    <3> QED
      BY <3>3, <3>4
  <2>4. /\ stage'[e] \in {"looking", "adopting", "erasing"} <=> holder'[Account[e]] = e
        /\ holder'[Account[e]] # 0 => Account[holder'[Account[e]]] = Account[e]
    BY <1>2, <2>1, EntriesAreNumbers
  <2>5. \A o \in Entries :
          /\ stage'[o] \in {"looking", "adopting", "erasing"} <=> holder'[Account[o]] = o
          /\ holder'[Account[o]] # 0 => Account[holder'[Account[o]]] = Account[o]
    <3> SUFFICES ASSUME NEW o \in Entries
                 PROVE  /\ stage'[o] \in {"looking", "adopting", "erasing"}
                             <=> holder'[Account[o]] = o
                        /\ holder'[Account[o]] # 0 => Account[holder'[Account[o]]] = Account[o]
      OBVIOUS
    <3>1. CASE o = e
      BY <2>4, <3>1, Zenon
    <3>2. CASE o # e
      <4>1. o \in Entries \ {e}
        BY <3>2
      <4> QED
        BY <2>3, <4>1
    <3> QED
      BY <3>1, <3>2
  <2> QED
    BY <2>5, Zenon DEF LockInv
<1>8. DeferInv'
  BY ZenonT(60), <1>1, <1>2, <1>3, <1>4, SiblingsForm DEF DeferInv, Starting, Acting
<1>9. WaitInv'
  BY ZenonT(60), <1>1, <1>2, <1>3, SiblingsForm DEF WaitInv
<1>10. EraseInv'
  <2>1. stage[e] # "erasing" => \A o \in Siblings(e) : stage[o] # "erasing"
    <3> SUFFICES ASSUME stage[e] # "erasing", NEW o \in Siblings(e), stage[o] = "erasing" PROVE FALSE
      OBVIOUS
    <3>1. o \in Entries /\ o # e /\ Account[o] = Account[e]
      BY DEF Siblings
    <3>2. holder[Account[e]] = e /\ holder[Account[o]] = o
      BY <1>1, <3>1 DEF LockInv
    <3> QED
      BY <3>1, <3>2
  <2>2. s # "erasing" /\ (stage[e] = "erasing" => s \notin Acting)
    BY DEF Acting
  <2> QED
    BY <1>1, <1>2, <1>3, <2>1, <2>2, SiblingsForm DEF EraseInv
<1> QED
  BY <1>5, <1>6, <1>7, <1>8, <1>9, <1>10 DEF StageInv

\* There is something to adopt.
LEMMA AdoptKeeps ==
    ASSUME ArchiveActorsAssumption, ActorsInv, NEW e \in Entries, NEW s \in Stages, To(e, s),
           stage[e] = "looking", s = "adopting",
           backup'.phase = backup.phase, backup'.removals = backup.removals,
           UNCHANGED holder, lives' = [lives EXCEPT ![e] = @ + 1]
    PROVE  StageInv'
<1>1. ActorTypes /\ LivesInv /\ SoleInv /\ LockInv /\ DeferInv /\ WaitInv /\ EraseInv
  BY DEF ActorsInv
<1>2. stage'[e] = s /\ \A o \in Entries \ {e} : stage'[o] = stage[o]
  BY <1>1, StageForm
<1>3. \A o \in Entries : Siblings(o) \subseteq Entries \ {o}
  BY DEF Siblings
<1>4. BackupActive' <=> BackupActive
  BY DEF BackupActive
<1>5. LivesInv'
  <2>1. MaxLives \in Nat /\ lives \in [Entries -> Nat]
    BY <1>1 DEF ActorTypes, ArchiveActorsAssumption
  <2> QED
    BY <1>1, <1>2, <2>1 DEF LivesInv, Starting
<1>6. SoleInv'
  <2>1. s \in Claiming => stage[e] \in Claiming
    BY DEF Claiming
  <2> QED
    BY <2>1, SoleKeeps
<1>7. LockInv'
  BY <1>1, <1>2 DEF LockInv
<1>8. DeferInv'
  BY <1>1, <1>2, <1>3, <1>4, SiblingsForm DEF DeferInv, Starting, Acting
<1>9. WaitInv'
  BY ZenonT(60), <1>1, <1>2, <1>3, SiblingsForm DEF WaitInv
<1>10. EraseInv'
  <2>1. stage[e] # "erasing" => \A o \in Siblings(e) : stage[o] # "erasing"
    <3> SUFFICES ASSUME stage[e] # "erasing", NEW o \in Siblings(e), stage[o] = "erasing" PROVE FALSE
      OBVIOUS
    <3>1. o \in Entries /\ o # e /\ Account[o] = Account[e]
      BY DEF Siblings
    <3>2. holder[Account[e]] = e /\ holder[Account[o]] = o
      BY <1>1, <3>1 DEF LockInv
    <3> QED
      BY <3>1, <3>2
  <2>2. s # "erasing" /\ (stage[e] = "erasing" => s \notin Acting)
    BY DEF Acting
  <2> QED
    BY ZenonT(60), <1>1, <1>2, <1>3, <2>1, <2>2, SiblingsForm DEF EraseInv
<1> QED
  BY <1>5, <1>6, <1>7, <1>8, <1>9, <1>10 DEF StageInv

\* What async_remove_entry does when the actor is closed: the deletion waits for the lock, or for
\* the end of the backup.
LEMMA CleanKeeps ==
    ASSUME ArchiveActorsAssumption, ActorsInv, NEW e \in Entries, CleansUp(e),
           stage[e] \in {"ready", "dropping"}, UNCHANGED <<holder, lives>>
    PROVE  StageInv' /\ stage'[e] \notin Acting /\ \A o \in Entries \ {e} : stage'[o] = stage[o]
<1> DEFINE s == IF BackupActive THEN "deferred" ELSE "locking"
<1>s. (s = "deferred" /\ BackupActive) \/ (s = "locking" /\ ~BackupActive)
  BY DEF BackupActive
<1>0. /\ To(e, s) /\ s \in Stages /\ backup'.phase = backup.phase
      /\ backup'.removals = IF BackupActive THEN backup.removals \union {e} ELSE backup.removals
  <2>1. CASE BackupActive
    <3>1. To(e, "deferred") /\ backup' = [backup EXCEPT !.removals = @ \union {e}]
      BY <2>1 DEF CleansUp
    <3> QED
      BY <2>1, <3>1 DEF Stages, ActorsInv, ActorTypes
  <2>2. CASE ~BackupActive
    <3>1. To(e, "locking") /\ UNCHANGED backup
      BY <2>2 DEF CleansUp
    <3> QED
      BY <2>2, <3>1 DEF Stages
  <2> QED
    BY <2>1, <2>2
<1> HIDE DEF s
<1>1. ActorTypes /\ LivesInv /\ SoleInv /\ LockInv /\ DeferInv /\ WaitInv /\ EraseInv
  BY DEF ActorsInv
<1>2. stage'[e] = s /\ \A o \in Entries \ {e} : stage'[o] = stage[o]
  BY <1>0, <1>1, StageForm
<1>3. \A o \in Entries : Siblings(o) \subseteq Entries \ {o}
  BY DEF Siblings
<1>4. BackupActive' <=> BackupActive
  BY <1>0 DEF BackupActive
<1>5. LivesInv'
  BY <1>1, <1>2, <1>s DEF LivesInv, Starting
<1>6. SoleInv'
  <2>1. s \in Claiming => stage[e] \in Claiming
    BY <1>s DEF Claiming
  <2> QED
    BY <1>0, <2>1, SoleKeeps
<1>7. LockInv'
  BY <1>1, <1>2, <1>s DEF LockInv
<1>8. DeferInv'
  <2>1. \A o \in Siblings(e) : stage[o] \notin Claiming
    BY <1>1, <1>3, ClaimsForm DEF SoleInv, Claiming
  <2>2. Starting \union Acting \subseteq Claiming
    BY DEF Starting, Acting, Claiming
  <2> SUFFICES ASSUME NEW o \in Entries
               PROVE  /\ o \in backup'.removals <=> stage'[o] = "deferred"
                      /\ stage'[o] = "deferred" =>
                            BackupActive /\ \A x \in Siblings(o) : stage'[x] \notin Starting \union Acting
    BY <1>4 DEF DeferInv, Siblings
  <2>3. s \notin Starting \union Acting
    BY <1>s DEF Starting, Acting
  <2>4. CASE o = e
    BY <1>0, <1>1, <1>2, <1>3, <1>s, <2>1, <2>2, <2>4 DEF DeferInv
  <2>5. CASE o # e
    <3>1. o \in backup'.removals <=> stage'[o] = "deferred"
      BY <1>0, <1>1, <1>2, <2>5 DEF DeferInv
    <3>2. ASSUME stage'[o] = "deferred", NEW x \in Siblings(o)
          PROVE  BackupActive /\ stage'[x] \notin Starting \union Acting
      <4>1. BackupActive /\ stage[x] \notin Starting \union Acting
        BY <1>1, <1>2, <2>5, <3>2 DEF DeferInv
      <4> QED
        BY <1>2, <1>3, <2>3, <3>2, <4>1
    <3>3. stage'[o] = "deferred" => BackupActive
      BY <1>1, <1>2, <2>5 DEF DeferInv
    <3> QED
      BY <3>1, <3>2, <3>3
  <2> QED
    BY <2>4, <2>5
<1>9. WaitInv'
  <2>1. \A o \in Siblings(e) : stage[o] # "dropping"
    BY <1>1, <1>3, ClaimsForm DEF SoleInv, Claiming
  <2> QED
    BY <1>1, <1>2, <1>3, <1>s, <2>1, SiblingsForm DEF WaitInv
<1>10. EraseInv'
  BY <1>1, <1>2, <1>3, <1>s, SiblingsForm DEF EraseInv, Acting
<1>11. stage'[e] \notin Acting
  BY <1>2, <1>s DEF Acting
<1> QED
  BY <1>2, <1>5, <1>6, <1>7, <1>8, <1>9, <1>10, <1>11 DEF StageInv

----------------------------------------------------------------------------
\* The fence.

\* register_archive.
LEMMA RegisterKeeps ==
    ASSUME ArchiveActorsAssumption, ActorsInv, NEW e \in Entries, Register(e)
    PROVE  /\ FenceInv' /\ HookInv' /\ ThawInv'
           /\ actor' \in [Entries -> Actors] /\ lives' = [lives EXCEPT ![e] = @ + 1]
           /\ lives' \in [Entries -> Nat]
           /\ backup' \in Backups
           /\ backup'.phase = backup.phase /\ backup'.removals = backup.removals
           /\ actor'[e].on /\ ~actor'[e].running
           /\ \A o \in Entries \ {e} : actor'[o] = actor[o]
<1>1. ActorTypes /\ FenceInv /\ HookInv /\ ThawInv
  BY DEF ActorsInv
<1>2. /\ actor' = [actor EXCEPT ![e] = NewActor] /\ lives' = [lives EXCEPT ![e] = @ + 1]
      /\ backup' = Listed(e)
  BY DEF Register
<1>3. NewActor \in Actors /\ NewActor.on /\ ~NewActor.running /\ NewActor.ops = <<>>
  <2>1. \A p \in BOOLEAN : [NoActor EXCEPT !.on = TRUE, !.paused = p] \in Actors
    <3>1. NoActor \in Actors
      BY DEF NoActor, Actors
    <3>2. \A a \in Actors, p \in BOOLEAN : [a EXCEPT !.on = TRUE, !.paused = p] \in Actors
      BY DEF Actors
    <3> QED
      BY <3>1, <3>2
  <2>2. \A p \in BOOLEAN : LET a == [NoActor EXCEPT !.on = TRUE, !.paused = p]
                            IN  a.on /\ ~a.running /\ a.ops = <<>>
    BY DEF NoActor
  <2>3. BackupActive \in BOOLEAN
    BY DEF BackupActive
  <2> QED
    BY <2>1, <2>2, <2>3 DEF NewActor
<1>4. NewActor.paused <=> BackupActive
  BY DEF NewActor, NoActor, BackupActive
<1>5. BackupActive => Quiet(NewActor)
  BY <1>3, <1>4 DEF Quiet
<1> DEFINE x == <<e, lives[e] + 1>>
           log == backup.archives
<1>6. log \in Seq(Entries \X Nat) /\ Len(log) \in Nat /\ x \in Entries \X Nat
  BY <1>1 DEF ActorTypes
<1>7. /\ backup'.phase = backup.phase /\ backup'.next = backup.next /\ backup'.removals = backup.removals
      /\ backup'.archives = IF BackupActive THEN Append(log, x) ELSE log
  <2>1. CASE BackupActive
    <3>1. backup' = [backup EXCEPT !.archives = Append(@, x)]
      BY <1>2, <2>1 DEF Listed
    <3> QED
      BY <1>1, <2>1, <3>1 DEF ActorTypes
  <2>2. CASE ~BackupActive
    BY <1>2, <2>2 DEF Listed
  <2> QED
    BY <2>1, <2>2
<1>8. backup' \in Backups
  <2>1. CASE BackupActive
    <3> DEFINE log1 == Append(log, x)
    <3>1. backup' = [backup EXCEPT !.archives = log1]
      BY <1>2, <2>1 DEF Listed
    <3>2. log1 \in Seq(Entries \X Nat)
      BY <1>6, AppendProperties
    <3> HIDE DEF log1
    <3> QED
      BY <1>1, <3>1, <3>2 DEF ActorTypes
  <2>2. CASE ~BackupActive
    BY <1>1, <1>2, <2>2 DEF Listed, ActorTypes
  <2> QED
    BY <2>1, <2>2
<1>9. BackupActive =>
         /\ Len(backup'.archives) = Len(log) + 1 /\ backup'.archives[Len(log) + 1] = x
         /\ \A i \in 1..Len(log) : backup'.archives[i] = log[i]
  <2> HIDE DEF log, x
  <2> QED
    BY <1>6, <1>7, AppendProperties
<1>10. BackupActive' <=> BackupActive
  BY <1>7 DEF BackupActive
<1>11. /\ actor'[e] = NewActor /\ lives'[e] = lives[e] + 1 /\ actor' \in [Entries -> Actors]
       /\ \A o \in Entries \ {e} : actor'[o] = actor[o] /\ lives'[o] = lives[o]
  BY <1>1, <1>2, <1>3 DEF ActorTypes
<1>12. lives' \in [Entries -> Nat]
  BY <1>1, <1>2 DEF ActorTypes
<1> HIDE DEF x, log
<1>13. FenceInv'
  <2> SUFFICES ASSUME BackupActive, NEW o \in Entries, actor'[o].on
               PROVE  \/ Quiet(actor'[o])
                      \/ /\ backup'.phase # "copying"
                         /\ \E i \in 1..Len(backup'.archives) :
                               /\ i >= backup'.next /\ backup'.archives[i] = <<o, lives'[o]>>
                               /\ i = backup'.next /\ backup'.phase = "waiting" => Draining(actor'[o])
    BY <1>10 DEF FenceInv
  <2>1. CASE o = e
    BY <1>5, <1>11, <2>1
  <2>2. CASE o # e
    <3>1. actor'[o] = actor[o] /\ lives'[o] = lives[o]
      BY <1>11, <2>2
    <3>2. \/ Quiet(actor[o])
          \/ /\ backup.phase # "copying"
             /\ \E i \in 1..Len(log) :
                   /\ i >= backup.next /\ log[i] = <<o, lives[o]>>
                   /\ i = backup.next /\ backup.phase = "waiting" => Draining(actor[o])
      BY <1>1, <3>1 DEF FenceInv, log
    <3>3. CASE Quiet(actor[o])
      BY <3>1, <3>3
    <3>4. ASSUME backup.phase # "copying", NEW i \in 1..Len(log),
                 i >= backup.next /\ log[i] = <<o, lives[o]>>,
                 i = backup.next /\ backup.phase = "waiting" => Draining(actor[o])
          PROVE  \E j \in 1..Len(backup'.archives) :
                               /\ j >= backup'.next /\ backup'.archives[j] = <<o, lives'[o]>>
                               /\ j = backup'.next /\ backup'.phase = "waiting" => Draining(actor'[o])
      <4>1. i \in 1..Len(backup'.archives) /\ backup'.archives[i] = log[i]
        BY SMTT(30), <1>6, <1>9
      <4> QED
        BY <1>7, <3>1, <3>4, <4>1
    <3> QED
      BY <1>7, <3>2, <3>3, <3>4
  <2> QED
    BY <2>1, <2>2
<1>14. HookInv'
  BY <1>1, <1>6, <1>7, <1>9 DEF HookInv, ActorTypes, log, BackupActive
<1>15. ThawInv'
  <2> SUFFICES ASSUME NEW o \in Entries, actor'[o].on, actor'[o].paused
               PROVE  BackupActive /\ \E i \in 1..Len(backup'.archives) :
                                          backup'.archives[i] = <<o, lives'[o]>>
    BY <1>10 DEF ThawInv
  <2>1. CASE o = e
    <3>1. BackupActive
      BY <1>4, <1>11, <2>1
    <3>2. Len(log) + 1 \in 1..Len(backup'.archives)
      BY <1>6, <1>9, <3>1
    <3>3. backup'.archives[Len(log) + 1] = <<o, lives'[o]>>
      BY <1>9, <1>11, <2>1, <3>1 DEF x
    <3> QED
      BY <3>1, <3>2, <3>3
  <2>2. CASE o # e
    <3>1. actor'[o] = actor[o] /\ lives'[o] = lives[o]
      BY <1>11, <2>2
    <3>2. BackupActive /\ \E i \in 1..Len(log) : log[i] = <<o, lives[o]>>
      BY <1>1, <3>1 DEF ThawInv, log
    <3>3. PICK i \in 1..Len(log) : log[i] = <<o, lives[o]>>
      BY <3>2
    <3>4. i \in 1..Len(backup'.archives) /\ backup'.archives[i] = log[i]
      BY SMTT(30), <1>6, <1>9, <3>2
    <3> QED
      BY <3>1, <3>2, <3>3, <3>4
  <2> QED
    BY <2>1, <2>2
<1> QED
  BY <1>2, <1>3, <1>7, <1>8, <1>11, <1>12, <1>13, <1>14, <1>15

\* A hook starts with all the actors there are.
LEMMA PreBackupKeeps ==
    ASSUME ArchiveActorsAssumption, ActorsInv, PreBackup
    PROVE  ActorsInv'
<1> DEFINE made == {e \in Entries : actor[e].on}
           n == Cardinality(made)
<1>1. ActorTypes /\ QueueInv /\ ThawInv /\ DeferInv /\ ~BackupActive
  BY DEF ActorsInv, PreBackup
<1>2. n \in Nat
  BY EntriesAreNumbers, FS_Subset, FS_CardinalityType
<1>3. PICK order \in Bijection(1..n, made) :
         backup' = [phase |-> "preparing", next |-> 1, removals |-> {},
                    archives |-> [i \in 1..n |-> <<order[i], lives[order[i]]>>]]
  BY DEF PreBackup
<1>4. order \in [1..n -> made] /\ \A e \in made : \E i \in 1..n : order[i] = e
  BY <1>3 DEF Bijection, Surjection, Injection
<1> HIDE DEF n
<1> DEFINE log == [i \in 1..n |-> <<order[i], lives[order[i]]>>]
<1>5. log \in Seq(Entries \X Nat) /\ Len(log) = n
  <2>1. \A i \in 1..n : <<order[i], lives[order[i]]>> \in Entries \X Nat
    BY <1>1, <1>4 DEF ActorTypes
  <2>2. log \in [1..n -> Entries \X Nat]
    BY <2>1
  <2> HIDE DEF log
  <2> QED
    BY <1>2, <2>2
<1>6. \A e \in Entries : actor[e].on => \E i \in 1..n : log[i] = <<e, lives[e]>>
  BY <1>4
<1>7. backup' = [phase |-> "preparing", next |-> 1, removals |-> {}, archives |-> log]
      /\ UNCHANGED <<stage, actor, lives, holder>>
  BY <1>3 DEF PreBackup
<1> HIDE DEF log, made
<1>8. ActorTypes'
  BY <1>1, <1>5, <1>7 DEF ActorTypes
<1>9. FenceInv'
  <2>1. /\ backup'.phase = "preparing" /\ backup'.next = 1 /\ backup'.archives = log
        /\ actor' = actor /\ lives' = lives
    BY <1>7
  <2> SUFFICES ASSUME NEW e \in Entries, actor[e].on
               PROVE  \E i \in 1..Len(log) : i >= 1 /\ log[i] = <<e, lives[e]>>
    BY <2>1 DEF FenceInv
  <2>2. PICK i \in 1..n : log[i] = <<e, lives[e]>>
    BY <1>6
  <2>3. i \in 1..Len(log) /\ i >= 1
    BY <1>2, <1>5, <2>2
  <2> QED
    BY <2>2, <2>3
<1>10. HookInv'
  BY <1>7 DEF HookInv
<1>11. ThawInv'
  BY <1>1, <1>7 DEF ThawInv
<1>12. \A e \in Entries : stage[e] # "deferred"
  BY <1>1 DEF DeferInv
<1>13. DeferInv'
  BY <1>7, <1>12 DEF DeferInv
<1>14. LivesInv' /\ SoleInv' /\ LockInv' /\ WaitInv' /\ EraseInv' /\ QueueInv'
  BY <1>7 DEF ActorsInv, LivesInv, SoleInv, Claims, Configured, LockInv, WaitInv, EraseInv,
     QueueInv
<1> QED
  BY <1>8, <1>9, <1>10, <1>11, <1>13, <1>14 DEF ActorsInv

\* What the stages do not see of a hook.
LEMMA HookStages ==
    ASSUME ActorsInv, UNCHANGED <<stage, lives, holder>>, backup'.removals = backup.removals,
           BackupActive, BackupActive'
    PROVE  StageInv'
<1>1. LivesInv' /\ SoleInv' /\ LockInv' /\ WaitInv' /\ EraseInv'
  BY DEF ActorsInv, LivesInv, SoleInv, Claims, Configured, LockInv, WaitInv, EraseInv
<1>2. DeferInv'
  BY DEF ActorsInv, DeferInv
<1> QED
  BY <1>1, <1>2 DEF StageInv

\* The hook fences the actor it is at, unless that was closed since.
LEMMA FenceKeeps ==
    ASSUME ArchiveActorsAssumption, ActorsInv, Fence
    PROVE  ActorsInv'
<1> DEFINE e == Hooked[1]
           a == actor[e]
           b == IF Current(Hooked) THEN Fenced(a) ELSE a
<1>1. ActorTypes /\ QueueInv /\ FenceInv /\ ThawInv
  BY DEF ActorsInv
<1>2. /\ backup.phase = "preparing" /\ backup.next <= Len(backup.archives)
      /\ actor' = [actor EXCEPT ![e] = b]
      /\ backup' = [backup EXCEPT !.phase = "waiting"] /\ UNCHANGED <<stage, lives, holder>>
  <2>1. actor \in [Entries -> Actors]
    BY <1>1 DEF ActorTypes
  <2>2. actor' = [actor EXCEPT ![e] = b]
    BY <2>1 DEF Fence
  <2>3. /\ backup.phase = "preparing" /\ backup.next <= Len(backup.archives)
        /\ backup' = [backup EXCEPT !.phase = "waiting"] /\ UNCHANGED <<stage, lives, holder>>
    BY DEF Fence
  <2> QED
    BY <2>2, <2>3
<1>3. backup.next \in 1..Len(backup.archives) /\ Hooked \in Entries \X Nat
  BY <1>1, <1>2 DEF ActorTypes, Hooked
<1>4. e \in Entries /\ a \in Actors /\ Hooked = <<e, Hooked[2]>> /\ (a.running => a.ops # <<>>)
  <2>1. e \in Entries /\ Hooked = <<e, Hooked[2]>>
    BY <1>3
  <2>2. a \in Actors /\ (a.running => a.ops # <<>>)
    BY <1>1, <2>1 DEF ActorTypes, QueueInv
  <2> QED
    BY <2>1, <2>2
<1>5. Current(Hooked) <=> lives[e] = Hooked[2] /\ a.on
  BY DEF Current
<1>6. /\ backup'.phase = "waiting" /\ backup'.archives = backup.archives
      /\ backup'.next = backup.next /\ backup'.removals = backup.removals
      /\ backup' \in Backups
  BY <1>1, <1>2 DEF ActorTypes
<1>7. /\ b \in Actors /\ b.on = a.on /\ b.running = a.running /\ (b.ops = <<>> => a.ops = <<>>)
      /\ ~Current(Hooked) => b = a
      /\ Current(Hooked) => b.paused /\ Draining(b)
      /\ ~a.on => b = a
  <2>1. CASE ~Current(Hooked)
    <3>1. b = a
      BY <2>1
    <3> QED
      BY <2>1, <3>1, <1>4
  <2>2. CASE Current(Hooked) /\ a.closing
    <3>1. b = [a EXCEPT !.paused = TRUE]
      BY <2>2 DEF Fenced
    <3> HIDE DEF b, a
    <3>2. b \in Actors
      BY <1>4, <3>1, ActorForm, EmptySeq
    <3>3. b.on = a.on /\ b.running = a.running /\ b.ops = a.ops /\ b.closing /\ b.paused
      BY <1>4, <2>2, <3>1 DEF Actors
    <3>4. Draining(b)
      BY <3>3 DEF Draining
    <3> QED
      BY <1>5, <2>2, <3>2, <3>3, <3>4
  <2>3. CASE Current(Hooked) /\ ~a.closing
    <3> DEFINE ops == Append(a.ops, "barrier")
    <3>1. b = [a EXCEPT !.paused = TRUE, !.ops = ops]
      BY <2>3 DEF Fenced
    <3> HIDE DEF b, a
    <3>2. a.ops \in Seq(Ops) /\ "barrier" \in Ops
      BY <1>4 DEF Actors, Ops
    <3>3. /\ ops \in Seq(Ops) /\ Len(a.ops) \in Nat /\ Len(ops) = Len(a.ops) + 1 /\ ops # <<>>
          /\ ops[Len(a.ops) + 1] = "barrier" /\ \A i \in 1..Len(a.ops) : ops[i] = a.ops[i]
      BY <3>2, AppendProperties
    <3> HIDE DEF ops
    <3>4. b \in Actors
      BY <1>4, <3>1, <3>3, ActorForm
    <3>5. b.on = a.on /\ b.running = a.running /\ b.ops = ops /\ b.paused
      BY <1>4, <3>1 DEF Actors
    <3>6. a.running => Len(a.ops) >= 1
      BY <1>4, <3>2
    <3>7. Draining(b)
      <4>1. \A j \in 1..Len(ops) : ops[j] = "open" =>
               \E k \in 1..Len(ops) : k > j /\ ops[k] = "barrier"
        <5> TAKE j \in 1..Len(ops)
        <5>1. ops[j] = "open" => j # Len(a.ops) + 1
          BY <3>3
        <5> QED
          BY <3>3, <5>1
      <4>2. b.running => \E k \in 1..Len(ops) : k > 1 /\ ops[k] = "barrier"
        BY <3>3, <3>5, <3>6
      <4> QED
        BY <3>5, <4>1, <4>2 DEF Draining
    <3> QED
      BY <1>5, <2>3, <3>3, <3>4, <3>5, <3>7
  <2> QED
    BY <2>1, <2>2, <2>3
<1> HIDE DEF e, a, b
<1>8. /\ actor' \in [Entries -> Actors] /\ actor'[e] = b
      /\ \A o \in Entries \ {e} : actor'[o] = actor[o]
  BY <1>1, <1>2, <1>4, <1>7 DEF ActorTypes
<1>9. a = actor[e]
  BY DEF a
<1>10. ActorTypes'
  BY <1>1, <1>2, <1>6, <1>8 DEF ActorTypes
<1>11. QueueInv'
  <2> SUFFICES ASSUME NEW o \in Entries
               PROVE  /\ actor'[o].on <=> stage[o] \in Acting
                      /\ actor'[o].running => actor'[o].ops # <<>>
                      /\ ~actor'[o].on => actor'[o].ops = <<>>
    BY <1>2 DEF QueueInv
  <2>1. CASE o = e
    BY <1>1, <1>4, <1>7, <1>8, <1>9, <2>1 DEF QueueInv
  <2>2. CASE o # e
    BY <1>1, <1>8, <2>2 DEF QueueInv
  <2> QED
    BY <2>1, <2>2
<1>12. FenceInv'
  <2> SUFFICES ASSUME NEW o \in Entries, actor'[o].on
               PROVE  \/ Quiet(actor'[o])
                      \/ \E i \in 1..Len(backup.archives) :
                            /\ i >= backup.next /\ backup.archives[i] = <<o, lives[o]>>
                            /\ i = backup.next => Draining(actor'[o])
    BY <1>2, <1>6 DEF FenceInv
  <2>1. CASE o = e /\ Current(Hooked)
    <3>1. backup.archives[backup.next] = <<o, lives[o]>>
      BY <1>4, <1>5, <2>1 DEF Hooked
    <3>2. backup.next >= backup.next
      BY <1>3
    <3> QED
      BY <1>3, <1>7, <1>8, <2>1, <3>1, <3>2
  <2>2. CASE ~(o = e /\ Current(Hooked))
    <3>1. actor'[o] = actor[o]
      BY <1>7, <1>8, <1>9, <2>2
    <3>2. \/ Quiet(actor[o])
          \/ \E i \in 1..Len(backup.archives) :
                /\ i >= backup.next /\ backup.archives[i] = <<o, lives[o]>>
      BY <1>1, <1>2, <3>1 DEF FenceInv, BackupActive
    <3>3. backup.archives[backup.next] # <<o, lives[o]>>
      BY <1>4, <1>5, <1>9, <2>2, <3>1 DEF Hooked
    <3> QED
      BY <3>1, <3>2, <3>3
  <2> QED
    BY <2>1, <2>2
<1>13. HookInv'
  BY <1>2, <1>6 DEF HookInv
<1>14. BackupActive /\ BackupActive'
  BY <1>2, <1>6 DEF BackupActive
<1>15. ThawInv'
  <2> SUFFICES ASSUME NEW o \in Entries, actor'[o].on, actor'[o].paused
               PROVE  \E i \in 1..Len(backup.archives) : backup.archives[i] = <<o, lives[o]>>
    BY <1>2, <1>6, <1>14 DEF ThawInv
  <2>1. CASE o = e /\ Current(Hooked)
    BY <1>3, <1>4, <1>5, <2>1 DEF Hooked
  <2>2. CASE ~(o = e /\ Current(Hooked))
    BY <1>1, <1>7, <1>8, <1>9, <2>2 DEF ThawInv
  <2> QED
    BY <2>1, <2>2
<1> QED
  BY <1>2, <1>6, <1>10, <1>11, <1>12, <1>13, <1>14, <1>15, HookStages DEF ActorsInv, StageInv

\* The hook is past an actor when its barrier is, or the actor itself.
LEMMA NextArchiveKeeps ==
    ASSUME ArchiveActorsAssumption, ActorsInv, NextArchive
    PROVE  ActorsInv'
<1>1. ActorTypes /\ QueueInv /\ FenceInv /\ ThawInv /\ HookInv
  BY DEF ActorsInv
<1>2. /\ backup.phase = "waiting" /\ BarrierPassed /\ UNCHANGED <<stage, actor, lives, holder>>
      /\ backup' = [backup EXCEPT !.phase = "preparing", !.next = backup.next + 1]
  BY DEF NextArchive
<1>3. /\ backup'.phase = "preparing" /\ backup'.archives = backup.archives
      /\ backup'.next = backup.next + 1 /\ backup'.removals = backup.removals
      /\ backup.next \in 1..Len(backup.archives) /\ backup.next + 1 \in Nat \ {0}
  BY SMTT(30), <1>1, <1>2 DEF ActorTypes, HookInv
<1>4. ActorTypes'
  BY <1>1, <1>2, <1>3 DEF ActorTypes
<1>5. BackupActive /\ BackupActive'
  BY <1>2, <1>3 DEF BackupActive
<1>6. FenceInv'
  <2> SUFFICES ASSUME NEW o \in Entries, actor[o].on
               PROVE  \/ Quiet(actor[o])
                      \/ \E i \in 1..Len(backup.archives) :
                            i >= backup.next + 1 /\ backup.archives[i] = <<o, lives[o]>>
    BY <1>2, <1>3 DEF FenceInv
  <2>1. CASE Quiet(actor[o])
    BY <2>1
  <2>2. CASE ~Quiet(actor[o])
    <3>1. PICK i \in 1..Len(backup.archives) :
             /\ i >= backup.next /\ backup.archives[i] = <<o, lives[o]>>
             /\ i = backup.next => Draining(actor[o])
      BY <1>1, <1>2, <1>5, <2>2 DEF FenceInv
    <3>2. i # backup.next
      <4> SUFFICES ASSUME i = backup.next PROVE FALSE
        OBVIOUS
      <4>1. Hooked = <<o, lives[o]>> /\ Draining(actor[o])
        BY <3>1 DEF Hooked
      <4>2. Hooked[1] = o /\ Current(Hooked)
        BY <4>1 DEF Current
      <4>3. /\ "barrier" \notin ToSet(actor[o].ops)
            /\ actor[o].closing => actor[o].ops = <<>> /\ ~actor[o].running
        BY <1>2, <4>2 DEF BarrierPassed, Reaped
      <4>4. actor[o] \in Actors
        BY <1>1 DEF ActorTypes
      <4> QED
        BY <2>2, <4>1, <4>3, <4>4, BarrierQuiets
    <3> QED
      BY SMTT(30), <1>3, <3>1, <3>2
  <2> QED
    BY <2>1, <2>2
<1>7. HookInv' /\ ThawInv' /\ QueueInv'
  BY <1>1, <1>2, <1>3, <1>5 DEF HookInv, ThawInv, QueueInv
<1> QED
  BY <1>2, <1>3, <1>4, <1>5, <1>6, <1>7, HookStages DEF ActorsInv, StageInv

\* The hook is past all actors, so all are quiet.
LEMMA PreparedKeeps ==
    ASSUME ArchiveActorsAssumption, ActorsInv, Prepared
    PROVE  ActorsInv'
<1>1. ActorTypes /\ QueueInv /\ FenceInv /\ ThawInv /\ HookInv
  BY DEF ActorsInv
<1>2. /\ backup.phase = "preparing" /\ backup.next > Len(backup.archives)
      /\ UNCHANGED <<stage, actor, lives, holder>> /\ backup' = [backup EXCEPT !.phase = "copying"]
  BY DEF Prepared
<1>3. /\ backup'.phase = "copying" /\ backup'.archives = backup.archives
      /\ backup'.next = backup.next /\ backup'.removals = backup.removals
      /\ backup.next \in Nat /\ Len(backup.archives) \in Nat
  BY <1>1, <1>2 DEF ActorTypes
<1>4. ActorTypes'
  BY <1>1, <1>2, <1>3 DEF ActorTypes
<1>5. BackupActive /\ BackupActive'
  BY <1>2, <1>3 DEF BackupActive
<1>6. \A o \in Entries : actor[o].on => Quiet(actor[o])
  BY <1>1, <1>2, <1>3, <1>5 DEF FenceInv
<1>7. FenceInv' /\ HookInv' /\ ThawInv' /\ QueueInv'
  BY <1>1, <1>2, <1>3, <1>5, <1>6 DEF FenceInv, HookInv, ThawInv, QueueInv
<1> QED
  BY <1>2, <1>3, <1>4, <1>5, <1>7, HookStages DEF ActorsInv, StageInv

\* The thaw reaches every actor that is fenced, and the deletions wait for the lock.
LEMMA FinishKeeps ==
    ASSUME ArchiveActorsAssumption, ActorsInv, FinishBackup
    PROVE  ActorsInv'
<1>1. /\ ActorTypes /\ QueueInv /\ FenceInv /\ ThawInv /\ HookInv /\ LivesInv /\ SoleInv /\ LockInv
      /\ DeferInv /\ WaitInv /\ EraseInv
  BY DEF ActorsInv
<1> DEFINE listed(e) == \E x \in ToSet(backup.archives) : x[1] = e /\ Current(x)
<1>2. /\ actor' = [e \in Entries |-> IF listed(e) THEN [actor[e] EXCEPT !.paused = FALSE] ELSE actor[e]]
      /\ stage' = [e \in Entries |-> IF e \in backup.removals THEN "locking" ELSE stage[e]]
      /\ backup' = NoBackup /\ UNCHANGED <<lives, holder>>
  BY DEF FinishBackup, Thaw
<1>3. \A e \in Entries : actor[e].on /\ actor[e].paused => listed(e)
  <2> SUFFICES ASSUME NEW e \in Entries, actor[e].on, actor[e].paused PROVE listed(e)
    OBVIOUS
  <2>1. PICK i \in 1..Len(backup.archives) : backup.archives[i] = <<e, lives[e]>>
    BY <1>1 DEF ThawInv
  <2>2. backup.archives[i] \in ToSet(backup.archives)
    BY <1>1 DEF ToSet, ActorTypes
  <2> QED
    BY <2>1, <2>2 DEF Current
<1> HIDE DEF listed
<1>4. \A e \in Entries :
         /\ actor'[e] \in Actors /\ actor'[e].on = actor[e].on /\ actor'[e].running = actor[e].running
         /\ actor'[e].ops = actor[e].ops
         /\ actor[e].on => ~actor'[e].paused
  <2> TAKE e \in Entries
  <2>1. actor[e] \in Actors
    BY <1>1 DEF ActorTypes
  <2>2. CASE listed(e)
    <3>1. actor'[e] = [actor[e] EXCEPT !.paused = FALSE]
      BY <1>2, <2>2
    <3>2. actor'[e] \in Actors
      BY <2>1, <3>1, ActorForm, EmptySeq
    <3> QED
      BY <2>1, <3>1, <3>2 DEF Actors
  <2>3. CASE ~listed(e)
    <3>1. actor'[e] = actor[e]
      BY <1>2, <2>3
    <3> QED
      BY <1>3, <2>1, <2>3, <3>1
  <2> QED
    BY <2>2, <2>3
<1>5. \A e \in Entries : stage'[e] = IF stage[e] = "deferred" THEN "locking" ELSE stage[e]
  BY <1>1, <1>2 DEF DeferInv
<1>6. backup'.phase = "none" /\ backup'.removals = {} /\ ~BackupActive'
  BY <1>2 DEF NoBackup, BackupActive
<1>7. ActorTypes'
  <2>1. actor' \in [Entries -> Actors]
    BY <1>2, <1>4
  <2>2. stage' \in [Entries -> Stages]
    BY <1>1, <1>2 DEF ActorTypes, Stages
  <2>3. backup' \in Backups
    BY <1>2 DEF NoBackup
  <2> QED
    BY <1>1, <1>2, <2>1, <2>2, <2>3 DEF ActorTypes
<1>8. QueueInv'
  BY <1>1, <1>4, <1>5 DEF QueueInv, Acting
<1>9. FenceInv' /\ HookInv'
  BY <1>6 DEF FenceInv, HookInv
<1>10. ThawInv'
  BY <1>4 DEF ThawInv
<1>11. LivesInv'
  BY <1>1, <1>2, <1>5 DEF LivesInv, Starting
<1>12. SoleInv'
  <2>1. \A o \in Entries : Claims(o)' => Claims(o)
    BY <1>5 DEF Claims, Configured
  <2>2. \A o \in Entries : Siblings(o)' = Siblings(o) /\ Siblings(o) \subseteq Entries
    BY DEF Siblings
  <2> QED
    BY <1>1, <2>1, <2>2 DEF SoleInv
<1>13. LockInv'
  BY <1>1, <1>2, <1>5 DEF LockInv
<1>14. \A o \in Entries : Siblings(o) \subseteq Entries
  BY DEF Siblings
<1>15. DeferInv'
  BY <1>5, <1>6 DEF DeferInv
<1>16. WaitInv'
  BY <1>1, <1>5, <1>14 DEF WaitInv, DeferInv, Acting
<1>17. EraseInv'
  BY <1>1, <1>5, <1>14 DEF EraseInv, Acting
<1> QED
  BY <1>7, <1>8, <1>9, <1>10, <1>11, <1>12, <1>13, <1>15, <1>16, <1>17 DEF ActorsInv

----------------------------------------------------------------------------
\* Every step keeps the invariant.

\* A step that makes no actor keeps the invariant when it keeps the stages.
LEMMA StagesMeetActors ==
    ASSUME ActorsInv, Gentle, StageInv', stage' \in [Entries -> Stages],
           holder' \in [Accounts -> Entries \union {0}],
           \A o \in Entries : actor'[o].on <=> stage'[o] \in Acting
    PROVE  ActorsInv'
<1>1. FenceInv' /\ HookInv' /\ ThawInv'
  BY GentleKeeps
<1>2. ActorTypes'
  BY DEF Gentle, ActorTypes, ActorsInv
<1>3. QueueInv'
  BY DEF Gentle, QueueInv
<1> QED
  BY <1>1, <1>2, <1>3 DEF ActorsInv, StageInv

\* The stages of a step that leaves the stages alone, or moves one entry.
LEMMA StandKeeps ==
    ASSUME ActorsInv, Gentle, SameOn, UNCHANGED <<stage, holder>>, backup' = backup
    PROVE  ActorsInv'
<1>1. lives' = lives
  BY DEF Gentle
<1>2. LivesInv' /\ SoleInv' /\ LockInv' /\ WaitInv' /\ EraseInv' /\ DeferInv'
  BY <1>1 DEF ActorsInv, LivesInv, SoleInv, Claims, Configured, LockInv, WaitInv, EraseInv,
     DeferInv,
              BackupActive
<1>3. \A o \in Entries : actor'[o].on <=> stage'[o] \in Acting
  BY DEF SameOn, ActorsInv, QueueInv
<1>4. stage' \in [Entries -> Stages] /\ holder' \in [Accounts -> Entries \union {0}]
  BY DEF ActorsInv, ActorTypes
<1> QED
  BY <1>2, <1>3, <1>4, StagesMeetActors DEF StageInv

\* One entry moves, and nobody gets or loses an actor.
LEMMA GoKeeps ==
    ASSUME ActorsInv, Gentle, SameOn, NEW e \in Entries, NEW s \in Stages, To(e, s), UNCHANGED holder,
           backup' = backup,
           stage[e] \notin Holding \union {"deferred"}, s \notin Holding \union {"deferred", "locking"},
           s \in Claiming => stage[e] \in Claiming \/ \A o \in Siblings(e) : stage[o] \notin Claiming,
           s \in Starting => ~BackupActive /\ lives[e] < MaxLives,
           s \in Acting <=> stage[e] \in Acting,
           s = "dropping" => \A o \in Siblings(e) : stage[o] # "locking"
    PROVE  ActorsInv'
<1>1. lives' = lives
  BY DEF Gentle
<1>2. StageInv'
  BY <1>1, MoveKeeps
<1>3. /\ stage' \in [Entries -> Stages] /\ stage'[e] = s
      /\ \A o \in Entries \ {e} : stage'[o] = stage[o]
  BY StageForm DEF ActorsInv
<1>4. \A o \in Entries : actor'[o].on <=> stage'[o] \in Acting
  BY <1>3 DEF SameOn, ActorsInv, QueueInv
<1>5. holder' \in [Accounts -> Entries \union {0}]
  BY DEF ActorsInv, ActorTypes
<1> QED
  BY <1>2, <1>3, <1>4, <1>5, StagesMeetActors

\* The steps of the thread.
LEMMA ThreadsKeep ==
    ASSUME ArchiveActorsAssumption, ActorsInv, NEW e \in Entries, ThreadSteps(e) \/ Write(e)
    PROVE  ActorsInv'
BY WriteGentle, StartGentle, EndGentle, StandKeeps DEF ThreadSteps

\* The account is added.
LEMMA ConfigureKeeps ==
    ASSUME ArchiveActorsAssumption, ActorsInv, NEW e \in Entries, Configure(e)
    PROVE  ActorsInv'
<1>1. /\ stage[e] = "absent" /\ To(e, "ready") /\ UNCHANGED <<actor, lives, holder, backup>>
      /\ \A o \in Siblings(e) : stage[o] \notin Claiming
  BY DEF Configure, Configured, Claiming
<1>2. Gentle /\ SameOn
  BY <1>1, NoneGentle
<1>3. "ready" \in Stages
  BY DEF Stages
<1> QED
  BY <1>1, <1>2, <1>3, GoKeeps DEF Holding, Starting, Acting

\* A setup begins.
LEMMA SetupBeginsKeeps ==
    ASSUME ArchiveActorsAssumption, ActorsInv, NEW e \in Entries, SetupBegins(e)
    PROVE  ActorsInv'
<1>1. /\ stage[e] = "ready" /\ lives[e] < MaxLives /\ ~BackupActive
      /\ To(e, "starting") /\ UNCHANGED <<actor, lives, holder, backup>>
  BY DEF SetupBegins
<1>2. Gentle /\ SameOn
  BY <1>1, NoneGentle
<1>3. "starting" \in Stages
  BY DEF Stages
<1> QED
  BY <1>1, <1>2, <1>3, GoKeeps DEF Holding, Starting, Acting, Claiming

\* async_prepare_account takes the lock.
LEMMA PrepareAccountKeeps ==
    ASSUME ArchiveActorsAssumption, ActorsInv, NEW e \in Entries, PrepareAccount(e)
    PROVE  ActorsInv'
<1>1. stage[e] = "starting" /\ holder[Account[e]] = 0 /\ UNCHANGED <<actor, lives, backup>>
  BY DEF PrepareAccount
<1>2. Gentle /\ SameOn
  BY <1>1, NoneGentle
<1>3. CASE To(e, "ready") /\ UNCHANGED holder
  <2>1. "ready" \in Stages
    BY DEF Stages
  <2> QED
    BY <1>1, <1>2, <1>3, <2>1, GoKeeps DEF Holding, Starting, Acting, Claiming
<1>4. CASE ~BackupActive /\ To(e, "looking") /\ Holds(e)
  <2>1. "looking" \in Stages
    BY DEF Stages
  <2>2. StageInv'
    BY <1>1, <1>4, <2>1, HoldKeeps
  <2>3. /\ stage' \in [Entries -> Stages] /\ stage'[e] = "looking"
        /\ \A o \in Entries \ {e} : stage'[o] = stage[o]
    BY <1>4, <2>1, StageForm DEF ActorsInv
  <2>4. \A o \in Entries : actor'[o].on <=> stage'[o] \in Acting
    BY <1>1, <2>3 DEF ActorsInv, QueueInv, Acting
  <2>5. holder' \in [Accounts -> Entries \union {0}]
    BY <1>4 DEF ActorsInv, ActorTypes, Holds
  <2> QED
    BY <1>2, <2>2, <2>3, <2>4, <2>5, StagesMeetActors
<1> QED
  BY <1>3, <1>4 DEF PrepareAccount

\* An entry that makes an actor.
LEMMA MakesKeep ==
    ASSUME ArchiveActorsAssumption, ActorsInv, NEW e \in Entries, Register(e),
           NEW s \in {"loading", "adopting"}, To(e, s), StageInv',
           holder' \in [Accounts -> Entries \union {0}]
    PROVE  ActorsInv'
<1>1. s \in Stages /\ s \in Acting
  BY DEF Stages, Acting
<1>2. /\ stage' \in [Entries -> Stages] /\ stage'[e] = s
      /\ \A o \in Entries \ {e} : stage'[o] = stage[o]
  BY <1>1, StageForm DEF ActorsInv
<1>3. /\ FenceInv' /\ HookInv' /\ ThawInv'
      /\ actor' \in [Entries -> Actors] /\ lives' \in [Entries -> Nat]
      /\ backup' \in Backups
      /\ actor'[e].on /\ ~actor'[e].running /\ \A o \in Entries \ {e} : actor'[o] = actor[o]
  BY RegisterKeeps
<1>4. ActorTypes'
  BY <1>2, <1>3 DEF ActorTypes
<1>5. QueueInv'
  BY <1>1, <1>2, <1>3 DEF QueueInv, ActorsInv
<1> QED
  BY <1>3, <1>4, <1>5 DEF ActorsInv, StageInv

\* The sources were looked for.
LEMMA LookedKeeps ==
    ASSUME ArchiveActorsAssumption, ActorsInv, NEW e \in Entries, Looked(e)
    PROVE  ActorsInv'
<1>1. stage[e] = "looking" /\ Register(e)
  BY DEF Looked
<1>2. /\ lives' = [lives EXCEPT ![e] = @ + 1]
      /\ backup'.phase = backup.phase /\ backup'.removals = backup.removals
  BY <1>1, RegisterKeeps
<1>3. CASE To(e, "loading") /\ holder' = [holder EXCEPT ![Account[e]] = 0]
  <2>1. "loading" \in Stages
    BY DEF Stages
  <2>2. StageInv'
    BY <1>1, <1>2, <1>3, <2>1, ReleaseKeeps
  <2>3. holder' \in [Accounts -> Entries \union {0}]
    BY <1>3 DEF ActorsInv, ActorTypes
  <2> QED
    BY <1>1, <1>3, <2>2, <2>3, MakesKeep
<1>4. CASE To(e, "adopting") /\ UNCHANGED holder
  <2>1. "adopting" \in Stages
    BY DEF Stages
  <2>2. StageInv'
    BY <1>1, <1>2, <1>4, <2>1, AdoptKeeps
  <2>3. holder' \in [Accounts -> Entries \union {0}]
    BY <1>4 DEF ActorsInv, ActorTypes
  <2> QED
    BY <1>1, <1>4, <2>2, <2>3, MakesKeep
<1> QED
  BY <1>3, <1>4 DEF Looked

\* The actor is opened, the entry is loaded, or closed.
LEMMA OpeningKeeps ==
    ASSUME ArchiveActorsAssumption, ActorsInv, NEW e \in Entries,
           OpenActor(e) \/ Loaded(e) \/ Close(e)
    PROVE  ActorsInv'
<1>1. /\ Gentle /\ SameOn /\ UNCHANGED <<holder, backup>>
      /\ \/ UNCHANGED stage
         \/ stage[e] \in {"loading", "loaded"} /\ \E s \in {"closing", "loaded"} : To(e, s)
  BY OpenGentle, LoadedGentle, CloseGentle
<1>2. CASE UNCHANGED stage
  BY <1>1, <1>2, StandKeeps
<1>3. ASSUME stage[e] \in {"loading", "loaded"}, NEW s \in {"closing", "loaded"}, To(e, s)
      PROVE  ActorsInv'
  <2>1. s \in Stages
    BY DEF Stages
  <2> QED
    BY <1>1, <1>3, <2>1, GoKeeps DEF Holding, Starting, Acting, Claiming
<1> QED
  BY <1>1, <1>2, <1>3

\* An entry whose actor is gone.
LEMMA ReapedKeeps ==
    ASSUME ArchiveActorsAssumption, ActorsInv, NEW e \in Entries, Gentle, ~actor'[e].on,
           \A o \in Entries \ {e} : actor'[o] = actor[o],
           StageInv', stage' \in [Entries -> Stages], stage'[e] \notin Acting,
           \A o \in Entries \ {e} : stage'[o] = stage[o],
           holder' \in [Accounts -> Entries \union {0}]
    PROVE  ActorsInv'
<1>1. \A o \in Entries : actor'[o].on <=> stage'[o] \in Acting
  BY DEF ActorsInv, QueueInv
<1> QED
  BY <1>1, StagesMeetActors

\* The two forms of a cleanup.
LEMMA CleansUpForm ==
    ASSUME ActorsInv, NEW e \in Entries, CleansUp(e)
    PROVE  /\ backup' = backup \/ backup' = [backup EXCEPT !.removals = @ \union {e}]
           /\ stage' \in [Entries -> Stages]
<1>1. CASE BackupActive
  BY <1>1 DEF CleansUp, To, ActorsInv, ActorTypes, Stages
<1>2. CASE ~BackupActive
  BY <1>2 DEF CleansUp, To, ActorsInv, ActorTypes, Stages
<1> QED
  BY <1>1, <1>2

\* The actor is reaped.
LEMMA ClosedKeeps ==
    ASSUME ArchiveActorsAssumption, ActorsInv, NEW e \in Entries, Closed(e)
    PROVE  ActorsInv'
<1>1. ActorTypes
  BY DEF ActorsInv
<1>2. CASE stage[e] = "adopting"
  <2>1. holder' = [holder EXCEPT ![Account[e]] = 0]
    BY <1>2 DEF Closed
  <2>2. holder' \in [Accounts -> Entries \union {0}]
    BY <1>1, <2>1 DEF ActorTypes
  <2>3. "loading" \in Stages /\ "ready" \in Stages /\ "ready" \notin Acting
    BY DEF Stages, Acting
  <2>4. CASE To(e, "loading") /\ Register(e)
    <3>1. /\ lives' = [lives EXCEPT ![e] = @ + 1]
          /\ backup'.phase = backup.phase /\ backup'.removals = backup.removals
      BY <2>4, RegisterKeeps
    <3>2. StageInv'
      BY <1>2, <2>1, <2>3, <2>4, <3>1, ReleaseKeeps
    <3> QED
      BY <2>2, <2>4, <3>2, MakesKeep
  <2>5. CASE To(e, "ready") /\ actor' = [actor EXCEPT ![e] = NoActor] /\ UNCHANGED <<lives, backup>>
    <3>1. StageInv'
      BY <1>2, <2>1, <2>3, <2>5, ReleaseKeeps
    <3>2. /\ stage' \in [Entries -> Stages] /\ stage'[e] = "ready"
          /\ \A o \in Entries \ {e} : stage'[o] = stage[o]
      BY <1>1, <2>3, <2>5, StageForm
    <3>3. Gentle /\ ~actor'[e].on /\ \A o \in Entries \ {e} : actor'[o] = actor[o]
      BY <2>5, ReapedGentle
    <3> QED
      BY <2>2, <2>3, <3>1, <3>2, <3>3, ReapedKeeps
  <2> QED
    BY <1>2, <2>4, <2>5 DEF Closed
<1>3. CASE stage[e] = "closing"
  <2>1. /\ actor' = [actor EXCEPT ![e] = NoActor] /\ To(e, "ready")
        /\ UNCHANGED <<lives, holder, backup>>
    BY <1>3 DEF Closed
  <2>2. Gentle /\ ~actor'[e].on /\ \A o \in Entries \ {e} : actor'[o] = actor[o]
    BY <2>1, ReapedGentle
  <2>3. "ready" \in Stages /\ "ready" \notin Acting
    BY DEF Stages, Acting
  <2>4. /\ stage' \in [Entries -> Stages] /\ stage'[e] = "ready"
        /\ \A o \in Entries \ {e} : stage'[o] = stage[o]
    BY <1>1, <2>1, <2>3, StageForm
  <2>5. StageInv'
    BY <1>3, <2>1, <2>3, MoveKeeps DEF Holding, Starting, Claiming
  <2>6. holder' \in [Accounts -> Entries \union {0}]
    BY <1>1, <2>1 DEF ActorTypes
  <2> QED
    BY <2>2, <2>3, <2>4, <2>5, <2>6, ReapedKeeps
<1>4. CASE stage[e] = "dropping"
  <2>1. actor' = [actor EXCEPT ![e] = NoActor] /\ CleansUp(e) /\ UNCHANGED <<lives, holder>>
    BY <1>4 DEF Closed
  <2>2. Gentle /\ ~actor'[e].on /\ \A o \in Entries \ {e} : actor'[o] = actor[o]
    BY <2>1, CleansUpForm, ReapedGentle
  <2>3. StageInv' /\ stage'[e] \notin Acting /\ \A o \in Entries \ {e} : stage'[o] = stage[o]
    BY <1>4, <2>1, CleanKeeps
  <2>4. holder' \in [Accounts -> Entries \union {0}]
    BY <1>1, <2>1 DEF ActorTypes
  <2> QED
    BY <2>1, <2>2, <2>3, <2>4, CleansUpForm, ReapedKeeps
<1> QED
  BY <1>2, <1>3, <1>4 DEF Closed

\* An entry is removed: no deletion of its account waits for a lock that is free, and nobody
\* else of its account holds it.
LEMMA RemoveEntryKeeps ==
    ASSUME ArchiveActorsAssumption, ActorsInv, NEW e \in Entries, ~Pressing, RemoveEntry(e)
    PROVE  ActorsInv'
<1>1. ActorTypes /\ QueueInv /\ SoleInv /\ LockInv /\ EraseInv /\ UNCHANGED <<lives, holder>>
  BY DEF ActorsInv, RemoveEntry
<1>2. CASE stage[e] = "ready"
  <2>1. CleansUp(e) /\ UNCHANGED actor
    BY <1>2 DEF RemoveEntry
  <2>2. Gentle
    BY <1>1, <2>1, CleansUpForm, NoneGentle
  <2>3. StageInv' /\ stage'[e] \notin Acting /\ \A o \in Entries \ {e} : stage'[o] = stage[o]
    BY <1>1, <1>2, <2>1, CleanKeeps
  <2>4. holder' \in [Accounts -> Entries \union {0}]
    BY <1>1 DEF ActorTypes
  <2>5. ~actor'[e].on /\ \A o \in Entries \ {e} : actor'[o] = actor[o]
    BY <1>1, <1>2, <2>1 DEF QueueInv, Acting
  <2> QED
    BY <2>1, <2>2, <2>3, <2>4, <2>5, CleansUpForm, ReapedKeeps
<1>3. CASE stage[e] = "loaded"
  <2>1. /\ To(e, "dropping") /\ actor' = [actor EXCEPT ![e] = Closing(actor[e])]
        /\ UNCHANGED backup
    BY <1>3 DEF RemoveEntry
  <2>2. actor[e] \in Actors /\ actor[e].on /\ (actor[e].running => actor[e].ops # <<>>)
    BY <1>1, <1>3 DEF ActorTypes, QueueInv, Acting
  <2>3. Gentle /\ SameOn
    BY <1>1, <2>1, <2>2, ClosingKeeps, OneGentle
  <2>4. \A o \in Siblings(e) : stage[o] # "locking"
    <3> SUFFICES ASSUME NEW o \in Siblings(e), stage[o] = "locking" PROVE FALSE
      OBVIOUS
    <3>1. o \in Entries /\ o # e /\ Account[o] = Account[e]
      BY DEF Siblings
    <3>2. Account[o] \in Accounts
      BY <3>1 DEF Accounts
    <3>3. PICK h \in Entries : holder[Account[o]] = h
      BY <1>1, <3>1, <3>2 DEF Pressing, ActorTypes
    <3>4. Account[h] = Account[o] /\ stage[h] \in {"looking", "adopting", "erasing"}
      BY <1>1, <3>1, <3>3, EntriesAreNumbers DEF LockInv
    <3>5. h # e /\ e \in Siblings(h)
      BY <1>3, <3>1, <3>4 DEF Siblings
    <3>6. stage[h] # "erasing"
      BY <1>1, <1>3, <3>5 DEF EraseInv, Acting
    <3> QED
      BY <1>1, <1>3, <3>4, <3>5, <3>6, ClaimsForm DEF SoleInv, Claiming
  <2>5. "dropping" \in Stages
    BY DEF Stages
  <2> QED
    BY <1>1, <1>3, <2>1, <2>3, <2>4, <2>5, GoKeeps DEF Holding, Starting, Acting, Claiming
<1> QED
  BY <1>2, <1>3 DEF RemoveEntry

\* A deletion has the lock.
LEMMA RemovalLocksKeeps ==
    ASSUME ArchiveActorsAssumption, ActorsInv, NEW e \in Entries, RemovalLocks(e)
    PROVE  ActorsInv'
<1>1. stage[e] = "locking" /\ holder[Account[e]] = 0 /\ UNCHANGED <<actor, lives, backup>>
  BY DEF RemovalLocks
<1>2. Gentle /\ SameOn
  BY <1>1, NoneGentle
<1>3. CASE To(e, "gone") /\ UNCHANGED holder
  <2>1. "gone" \in Stages
    BY DEF Stages
  <2> QED
    BY <1>1, <1>2, <1>3, <2>1, GoKeeps DEF Holding, Starting, Acting, Claiming
<1>4. CASE Unclaimed(e) /\ To(e, "erasing") /\ Holds(e)
  <2>1. "erasing" \in Stages
    BY DEF Stages
  <2>2. StageInv'
    BY <1>1, <1>4, <2>1, HoldKeeps
  <2>3. /\ stage' \in [Entries -> Stages] /\ stage'[e] = "erasing"
        /\ \A o \in Entries \ {e} : stage'[o] = stage[o]
    BY <1>4, <2>1, StageForm DEF ActorsInv
  <2>4. \A o \in Entries : actor'[o].on <=> stage'[o] \in Acting
    BY <1>1, <2>3 DEF ActorsInv, QueueInv, Acting
  <2>5. holder' \in [Accounts -> Entries \union {0}]
    BY <1>4 DEF ActorsInv, ActorTypes, Holds
  <2> QED
    BY <1>2, <2>2, <2>3, <2>4, <2>5, StagesMeetActors
<1> QED
  BY <1>3, <1>4 DEF RemovalLocks

\* A deletion ends.
LEMMA ErasedKeeps ==
    ASSUME ArchiveActorsAssumption, ActorsInv, NEW e \in Entries, Erased(e)
    PROVE  ActorsInv'
<1>1. /\ stage[e] = "erasing" /\ To(e, "gone") /\ holder' = [holder EXCEPT ![Account[e]] = 0]
      /\ UNCHANGED <<actor, lives, backup>>
  BY DEF Erased
<1>2. Gentle /\ SameOn
  BY <1>1, NoneGentle
<1>3. "gone" \in Stages
  BY DEF Stages
<1>4. StageInv'
  BY <1>1, <1>3, ReleaseKeeps
<1>5. /\ stage' \in [Entries -> Stages] /\ stage'[e] = "gone"
      /\ \A o \in Entries \ {e} : stage'[o] = stage[o]
  BY <1>1, <1>3, StageForm DEF ActorsInv
<1>6. \A o \in Entries : actor'[o].on <=> stage'[o] \in Acting
  BY <1>1, <1>5 DEF ActorsInv, QueueInv, Acting
<1>7. holder' \in [Accounts -> Entries \union {0}]
  BY <1>1 DEF ActorsInv, ActorTypes
<1> QED
  BY <1>2, <1>4, <1>5, <1>6, <1>7, StagesMeetActors

\* Every step keeps the invariant.
LEMMA ActorsStep ==
    ASSUME ArchiveActorsAssumption, ActorsInv, ActorsNext
    PROVE  ActorsInv'
<1>1. ASSUME NEW e \in Entries, ThreadSteps(e)
      PROVE  ActorsInv'
  BY <1>1, ThreadsKeep
<1>2. ASSUME NEW e \in Entries, EntrySteps(e)
      PROVE  ActorsInv'
  BY <1>2, PrepareAccountKeeps, LookedKeeps, OpeningKeeps, ClosedKeeps, RemovalLocksKeeps,
     ErasedKeeps DEF EntrySteps
<1>3. ASSUME NEW e \in Entries, OwnerSteps(e)
      PROVE  ActorsInv'
  BY <1>3, ThreadsKeep, ConfigureKeeps, SetupBeginsKeeps, RemoveEntryKeeps, OpeningKeeps
     DEF OwnerSteps
<1>4. ASSUME PreBackup \/ BackupSteps \/ FinishBackup
      PROVE  ActorsInv'
  BY <1>4, PreBackupKeeps, FenceKeeps, NextArchiveKeeps, PreparedKeeps, FinishKeeps
     DEF BackupSteps
<1> QED
  BY <1>1, <1>2, <1>3, <1>4 DEF ActorsNext

\* The fence and the stages hold all the time.
LEMMA ActorsInvariant == ActorsSafe => []ActorsInv
<1>1. ActorsInit => ActorsInv
  BY ActorsStart, ArchiveActorsAssumption
<1>2. ActorsInv /\ [ActorsNext]_actorVars => ActorsInv'
  <2>1. CASE ActorsInv /\ ActorsNext
    BY <2>1, ActorsStep, ArchiveActorsAssumption
  <2>2. CASE ActorsInv /\ UNCHANGED actorVars
    <3>1. Gentle /\ SameOn
      BY <2>2, NoneGentle DEF actorVars
    <3> QED
      BY <2>2, <3>1, StandKeeps DEF actorVars
  <2> QED
    BY <2>1, <2>2
<1> QED
  BY <1>1, <1>2, PTL DEF ActorsSafe

\* While a backup copies the files no actor changes one, nothing stays fenced after it, and files
\* are deleted only where the account has no actor (backup.py, RideArchive._db,
\* async_remove_account), for any number of entries, accounts and waiting operations.
THEOREM BackupsAndDeletionsAreAlone == ActorsSafe => []ActorsAreFenced
<1>1. ActorsInv => FilesStandStill
  <2> SUFFICES ASSUME ActorsInv, backup.phase = "copying", NEW e \in Entries, actor[e].running
               PROVE  Head(actor[e].ops) \notin {"open", "write"}
    BY DEF FilesStandStill
  <2>1. actor[e] \in Actors /\ actor[e].ops # <<>> /\ actor[e].on
    BY DEF ActorsInv, ActorTypes, QueueInv
  <2>2. Quiet(actor[e])
    BY <2>1 DEF ActorsInv, FenceInv, BackupActive
  <2>3. Head(actor[e].ops) = actor[e].ops[1]
    BY <2>1 DEF Actors
  <2> QED
    BY <2>2, <2>3 DEF Quiet
<1>2. ActorsInv => PauseEnds
  BY DEF ActorsInv, ThawInv, PauseEnds
<1>3. ActorsInv => ErasedIsClosed
  <2> SUFFICES ASSUME ActorsInv, NEW e \in Entries, stage[e] = "erasing",
                      NEW o \in Siblings(e) \union {e}
               PROVE  ~actor[o].on
    BY DEF ErasedIsClosed
  <2>1. o \in Entries /\ stage[o] \notin Acting
    BY DEF Siblings, ActorsInv, EraseInv, Acting
  <2> QED
    BY <2>1 DEF ActorsInv, QueueInv
<1> QED
  BY <1>1, <1>2, <1>3, ActorsInvariant, PTL DEF ActorsAreFenced

\* The actors and the state of a backup have their types.
THEOREM ActorsAreTyped == ActorsSafe => []ActorsTypeOK
<1>1. ActorsInv => ActorsTypeOK
  <2> SUFFICES ASSUME ActorsInv PROVE ActorsTypeOK
    OBVIOUS
  <2>1. ActorTypes /\ LivesInv
    BY DEF ActorsInv
  <2>2. MaxLives \in Nat
    BY ArchiveActorsAssumption DEF ArchiveActorsAssumption
  <2>3. lives \in [Entries -> 0..MaxLives + 1]
    BY <2>1, <2>2 DEF ActorTypes, LivesInv
  <2>4. \A e \in Entries :
          /\ DOMAIN actor[e] = DOMAIN NoActor
          /\ ToSet(actor[e].ops) \subseteq {"open", "write", "barrier", "finish"}
    <3> TAKE e \in Entries
    <3>1. actor[e] \in Actors
      BY <2>1 DEF ActorTypes
    <3>2. DOMAIN actor[e] = DOMAIN NoActor
      BY <3>1 DEF Actors, NoActor
    <3>3. actor[e].ops \in Seq(Ops)
      BY <3>1 DEF Actors
    <3>4. ToSet(actor[e].ops) \subseteq Ops
      BY <3>3 DEF ToSet
    <3> QED
      BY <3>2, <3>4 DEF Ops
  <2> QED
    BY <2>1, <2>3, <2>4 DEF ActorsTypeOK, ActorTypes
<1> QED
  BY <1>1, ActorsInvariant, PTL

-----------------------------------------------------------------------------
\* Exports and imports.

InTheMaking == {"making", "copying", "packing", "clearing"}
ExportRecords ==
    [pc : InTheMaking \union {"idle", "published", "expiring", "over"}, dir : BOOLEAN,
     jobs : SUBSET {"making", "copying", "packing", "clearing", "expiring"}, cancelled : BOOLEAN]

\* What a step of an export has of its directory, a thread and a slot.
ExportInv(f) ==
    LET x == export[f] IN
    /\ x \in ExportRecords
    /\ x.jobs \subseteq {x.pc} /\ (x.pc \in {"idle", "published", "over"} => x.jobs = {})
    /\ x.dir <=> \/ x.pc \in {"copying", "packing", "published"}
                 \/ x.pc = "making" /\ x.jobs = {}
                 \/ x.pc \in {"clearing", "expiring"} /\ x.jobs # {}
    /\ f \in pending <=> x.pc \in InTheMaking
    /\ f \in downloads <=> x.pc = "published"

SlotsInv ==
    /\ pending \subseteq Exports /\ downloads \subseteq Exports
    /\ IsFiniteSet(pending) /\ IsFiniteSet(downloads)
    /\ Cardinality(pending) + Cardinality(downloads) <= MaxExports

ExportsInv ==
    /\ export = [f \in Exports |-> export[f]] /\ (\A f \in Exports : ExportInv(f)) /\ SlotsInv

ImportRecords ==
    [pc : Forms \union {"making", "unpacking", "inspecting", "merging", "cleaning"}, dir : BOOLEAN,
     jobs : SUBSET {"making", "unpacking", "inspecting", "merging", "cleaning"},
     cancelled : BOOLEAN, owned : BOOLEAN, next : {"form", "making", "result"}, staged : BOOLEAN,
     todo : SUBSET Packed, removed : BOOLEAN, closing : BOOLEAN]

\* What a step of the import has of its directory and a thread, who will take the directory
\* away, and what was merged.
ImportInv ==
    LET x == import IN
    /\ x \in ImportRecords /\ merged \subseteq Packed
    /\ x.jobs \subseteq {x.pc} /\ (x.pc \in Forms => x.jobs = {})
    /\ x.owned <=> \/ x.pc \in Forms /\ x.dir
                   \/ x.pc \notin Forms
    /\ x.dir <=> \/ x.pc \in Forms /\ x.owned
                 \/ x.pc \in {"unpacking", "inspecting", "merging"}
                 \/ x.pc = "making" /\ x.jobs = {}
                 \/ x.pc = "cleaning" /\ x.jobs # {}
    /\ x.pc = "confirm" /\ x.staged => x.owned
    /\ x.removed /\ x.owned => x.closing \/ (x.pc = "cleaning" /\ x.next # "making")
    /\ x.pc = "merging" => merged \union x.todo = Packed
    /\ x.pc = "cleaning" /\ x.next = "result" => merged = Packed
    /\ x.pc = "result" => merged = Packed

ExchangeInv == ExportsInv /\ ImportInv

\* The export of one flow moves, and the slots with it.
LEMMA ExportMoves ==
    ASSUME ExportsInv, NEW f \in Exports, NEW x, export' = [export EXCEPT ![f] = x],
           ExportInv(f)', SlotsInv', pending' \ {f} = pending \ {f}, downloads' \ {f} = downloads \ {f}
    PROVE  ExportsInv'
<1>1. /\ export'[f] = x /\ \A g \in Exports : g # f => export'[g] = export[g]
      /\ export' = [g \in Exports |-> export'[g]]
  BY DEF ExportsInv
<1>2. \A g \in Exports : g # f => (g \in pending' <=> g \in pending) /\ (g \in downloads' <=> g \in downloads)
  OBVIOUS
<1>3. \A g \in Exports : ExportInv(g)'
  <2> TAKE g \in Exports
  <2>1. CASE g # f
    <3>1. ExportInv(g)
      BY DEF ExportsInv
    <3> QED
      BY <1>1, <1>2, <2>1, <3>1 DEF ExportInv
  <2> QED
    BY <2>1
<1> QED
  BY <1>1, <1>3 DEF ExportsInv

\* A slot is given back.
LEMMA SlotsShrink ==
    ASSUME SlotsInv, pending' \in SUBSET pending, downloads' \in SUBSET downloads
    PROVE  SlotsInv'
<1>1. /\ IsFiniteSet(pending') /\ Cardinality(pending') <= Cardinality(pending)
      /\ IsFiniteSet(downloads') /\ Cardinality(downloads') <= Cardinality(downloads)
  BY FS_Subset DEF SlotsInv
<1>2. /\ Cardinality(pending') \in Nat /\ Cardinality(pending) \in Nat
      /\ Cardinality(downloads') \in Nat /\ Cardinality(downloads) \in Nat /\ MaxExports \in Nat
  BY <1>1, FS_CardinalityType, ArchiveExchangeAssumption DEF SlotsInv
<1> QED
  BY <1>1, <1>2 DEF SlotsInv

LEMMA BeginExportKeeps ==
    ASSUME ExportsInv, NEW f \in Exports, BeginExport(f)
    PROVE  ExportsInv'
<1>1. ExportInv(f) /\ SlotsInv /\ export[f].pc = "idle" /\ downloads' = downloads
  BY DEF ExportsInv, BeginExport
<1>2. CASE ~Free
  BY <1>2 DEF BeginExport, ExportsInv, ExportInv, SlotsInv
<1>3. CASE Free
  <2> DEFINE x == [export[f] EXCEPT !.pc = "making", !.jobs = @ \union {"making"}]
  <2>1. export' = [export EXCEPT ![f] = x] /\ pending' = pending \union {f}
    BY <1>3 DEF BeginExport, Works, Ticket
  <2>2. /\ x.pc = "making" /\ x.jobs = {"making"} /\ x.dir = FALSE /\ x \in ExportRecords
    BY <1>1 DEF ExportInv, ExportRecords, InTheMaking
  <2> HIDE DEF x
  <2>3. export'[f] = x
    BY <2>1 DEF ExportsInv
  <2>4. ExportInv(f)'
    BY <1>1, <2>1, <2>2, <2>3 DEF ExportInv, InTheMaking
  <2>5. SlotsInv'
    <3>1. f \notin pending
      BY <1>1 DEF ExportInv, InTheMaking
    <3>2. IsFiniteSet(pending') /\ Cardinality(pending') = Cardinality(pending) + 1
      BY <1>1, <2>1, <3>1, FS_AddElement DEF SlotsInv
    <3>3. Cardinality(pending) \in Nat /\ Cardinality(downloads) \in Nat /\ MaxExports \in Nat
      BY <1>1, FS_CardinalityType, ArchiveExchangeAssumption DEF SlotsInv
    <3> QED
      BY <1>1, <1>3, <2>1, <3>2, <3>3 DEF SlotsInv, Free
  <2> QED
    BY <1>1, <2>1, <2>4, <2>5, ExportMoves
<1> QED
  BY <1>2, <1>3

LEMMA WorkerEndsKeeps ==
    ASSUME ExportsInv, NEW f \in Exports, WorkerEnds(f)
    PROVE  ExportsInv'
<1>1. ExportInv(f) /\ SlotsInv /\ pending' = pending /\ downloads' = downloads
  BY DEF ExportsInv, WorkerEnds
<1>2. PICK j \in export[f].jobs : export' = [export EXCEPT ![f] = After(export[f], j)]
  BY DEF WorkerEnds
<1> DEFINE x == After(export[f], j)
<1>3. /\ x.pc = export[f].pc /\ x.jobs = export[f].jobs \ {j} /\ x \in ExportRecords
      /\ x.dir = ((export[f].dir \/ j = "making") /\ j \notin {"clearing", "expiring", "cleaning"})
  BY <1>1 DEF ExportInv, ExportRecords, After
<1>4. export' = [export EXCEPT ![f] = x]
  BY <1>2
<1> HIDE DEF x
<1>5. export'[f] = x
  BY <1>4 DEF ExportsInv
<1>6. j = export[f].pc /\ export[f].jobs = {j}
  BY <1>1 DEF ExportInv
<1>7. ExportInv(f)'
  BY <1>1, <1>3, <1>5, <1>6 DEF ExportInv, InTheMaking
<1> QED
  BY <1>1, <1>4, <1>7, ExportMoves DEF SlotsInv

\* A step that goes on, or takes its directory back.
LEMMA ContinueKeeps ==
    ASSUME ExportsInv, NEW f \in Exports, Continue(f)
    PROVE  ExportsInv'
<1>1. ExportInv(f) /\ SlotsInv /\ export[f].pc \in {"making", "copying", "packing"} /\ export[f].jobs = {}
  BY DEF ExportsInv, Continue, Drained
<1>2. ASSUME NEW pc \in {"copying", "packing", "clearing"},
             export' = [export EXCEPT ![f] = Works(export[f], pc)], pending' = pending,
             downloads' = downloads
      PROVE  ExportsInv'
  <2> DEFINE x == Works(export[f], pc)
  <2>1. x.pc = pc /\ x.jobs = {pc} /\ x.dir = export[f].dir /\ x \in ExportRecords
    BY <1>1 DEF Works, ExportInv, ExportRecords, InTheMaking
  <2>2. export' = [export EXCEPT ![f] = x]
    BY <1>2
  <2> HIDE DEF x
  <2>3. export'[f] = x
    BY <2>2 DEF ExportsInv
  <2>4. ExportInv(f)'
    BY <1>1, <1>2, <2>1, <2>3 DEF ExportInv, InTheMaking
  <2> QED
    BY <1>1, <1>2, <2>2, <2>4, ExportMoves DEF SlotsInv
<1>3. ASSUME export[f].pc = "packing", export' = [export EXCEPT ![f].pc = "published"],
             downloads' = downloads \union {f}, pending' = pending \ {f}
      PROVE  ExportsInv'
  <2> DEFINE x == [export[f] EXCEPT !.pc = "published"]
  <2>1. x.pc = "published" /\ x.jobs = {} /\ x.dir = export[f].dir /\ x \in ExportRecords
    BY <1>1 DEF ExportInv, ExportRecords
  <2>2. export' = [export EXCEPT ![f] = x]
    BY <1>3 DEF ExportsInv
  <2> HIDE DEF x
  <2>3. export'[f] = x
    BY <2>2 DEF ExportsInv
  <2>4. ExportInv(f)'
    BY <1>1, <1>3, <2>1, <2>3 DEF ExportInv, InTheMaking
  <2>5. SlotsInv'
    <3>1. f \in pending /\ f \notin downloads
      BY <1>1, <1>3 DEF ExportInv, InTheMaking
    <3>2. IsFiniteSet(pending') /\ Cardinality(pending') = Cardinality(pending) - 1
      BY <1>1, <1>3, <3>1, FS_RemoveElement DEF SlotsInv
    <3>3. IsFiniteSet(downloads') /\ Cardinality(downloads') = Cardinality(downloads) + 1
      BY <1>1, <1>3, <3>1, FS_AddElement DEF SlotsInv
    <3>4. Cardinality(pending) \in Nat /\ Cardinality(downloads) \in Nat /\ MaxExports \in Nat
      BY <1>1, FS_CardinalityType, ArchiveExchangeAssumption DEF SlotsInv
    <3> QED
      BY <1>1, <1>3, <3>2, <3>3, <3>4 DEF SlotsInv
  <2> QED
    BY <1>3, <2>2, <2>4, <2>5, ExportMoves
<1> QED
  BY <1>2, <1>3 DEF Continue, ClearExport

\* The directory is gone: the export is over.
LEMMA OverKeeps ==
    ASSUME ExportsInv, NEW f \in Exports, Cleared(f) \/ Expired(f)
    PROVE  ExportsInv'
<1> DEFINE x == [NoExport EXCEPT !.pc = "over"]
<1>1. /\ ExportInv(f) /\ SlotsInv /\ export' = [export EXCEPT ![f] = x]
      /\ pending' \in SUBSET pending /\ downloads' = downloads /\ pending' \ {f} = pending \ {f}
      /\ export[f].pc # "published"
      /\ f \notin pending'
  BY DEF ExportsInv, Cleared, Expired, ExportInv, InTheMaking
<1>2. x \in ExportRecords /\ x.pc = "over" /\ x.jobs = {} /\ x.dir = FALSE
  BY DEF ExportRecords, NoExport
<1> HIDE DEF x
<1>3. export'[f] = x
  BY <1>1 DEF ExportsInv
<1>4. ExportInv(f)'
  BY <1>1, <1>2, <1>3 DEF ExportInv, InTheMaking
<1> QED
  BY <1>1, <1>4, SlotsShrink, ExportMoves

LEMMA CancelExportKeeps ==
    ASSUME ExportsInv, NEW f \in Exports, CancelExport(f)
    PROVE  ExportsInv'
<1> DEFINE x == [export[f] EXCEPT !.cancelled = TRUE]
<1>1. ExportInv(f) /\ SlotsInv /\ pending' = pending /\ downloads' = downloads
      /\ export' = [export EXCEPT ![f] = x]
  BY DEF ExportsInv, CancelExport
<1>2. x \in ExportRecords /\ x.pc = export[f].pc /\ x.jobs = export[f].jobs /\ x.dir = export[f].dir
  BY <1>1 DEF ExportInv, ExportRecords
<1> HIDE DEF x
<1>3. export'[f] = x
  BY <1>1 DEF ExportsInv
<1>4. ExportInv(f)'
  BY <1>1, <1>2, <1>3 DEF ExportInv
<1> QED
  BY <1>1, <1>4, ExportMoves DEF SlotsInv

LEMMA ExpireKeeps ==
    ASSUME ExportsInv, NEW f \in Exports, Expire(f)
    PROVE  ExportsInv'
<1> DEFINE x == Works(export[f], "expiring")
<1>1. ExportInv(f) /\ SlotsInv /\ pending' = pending /\ downloads' = downloads \ {f}
      /\ export' = [export EXCEPT ![f] = x] /\ export[f].pc = "published"
  BY DEF ExportsInv, Expire, ExportInv
<1>2. x \in ExportRecords /\ x.pc = "expiring" /\ x.jobs = {"expiring"} /\ x.dir = TRUE
  BY <1>1 DEF ExportInv, ExportRecords, Works
<1> HIDE DEF x
<1>3. export'[f] = x
  BY <1>1 DEF ExportsInv
<1>4. ExportInv(f)'
  BY <1>1, <1>2, <1>3 DEF ExportInv, InTheMaking
<1> QED
  BY <1>1, <1>4, SlotsShrink, ExportMoves

LEMMA ExportsKeep ==
    ASSUME ExportsInv, ExportsNext
    PROVE  ExportsInv'
BY BeginExportKeeps, WorkerEndsKeeps, ContinueKeeps, OverKeeps, CancelExportKeeps, ExpireKeeps
   DEF ExportsNext, ExportSteps

\* The import: a file is submitted, or the directory goes.
LEMMA SubmitKeepsImport ==
    ASSUME ImportInv, SubmitFile
    PROVE  ImportInv'
<1> DEFINE x == import
           y == import'
<1>1. x \in ImportRecords /\ x.pc \in {"form", "confirm"} /\ ~x.removed /\ merged' = {} /\ x.jobs = {}
  BY DEF ImportInv, SubmitFile, Forms
<1>2. y = IF x.owned THEN [x EXCEPT !.pc = "cleaning", !.jobs = @ \union {"cleaning"},
                                    !.next = "making", !.staged = FALSE]
          ELSE [x EXCEPT !.pc = "making", !.jobs = @ \union {"making"}, !.owned = TRUE]
  BY <1>1 DEF SubmitFile, Cleanup, Works, ImportRecords
<1> QED
  BY <1>1, <1>2 DEF ImportInv, ImportRecords, Forms

LEMMA CleanupKeeps ==
    ASSUME ImportInv, NEW next \in {"form", "result"}, import.jobs = {}, merged' = merged,
           NEW z, z = Cleanup(import, next),
           \/ import' \in {z, [z EXCEPT !.cancelled = FALSE], [z EXCEPT !.cancelled = FALSE, !.todo = {}]}
           \/ import' = [z EXCEPT !.closing = FALSE] /\ next = "form",
           import.pc # "cleaning", next = "result" => merged = Packed
    PROVE  ImportInv'
<1> DEFINE x == import
           y == import'
<1>1. x \in ImportRecords
  BY DEF ImportInv
<1>2. CASE x.owned
  <2>1. z = [x EXCEPT !.pc = "cleaning", !.jobs = @ \union {"cleaning"}, !.next = next, !.staged = FALSE]
    BY <1>1, <1>2 DEF Cleanup, Works, ImportRecords
  <2>2. /\ z \in ImportRecords /\ z.pc = "cleaning" /\ z.jobs = {"cleaning"} /\ z.next = next
        /\ z.dir = x.dir /\ z.owned = x.owned /\ z.removed = x.removed /\ z.closing = x.closing
        /\ z.staged = FALSE
    <3>1. x.jobs \union {"cleaning"} = {"cleaning"}
      OBVIOUS
    <3>2. z = [x EXCEPT !.pc = "cleaning", !.jobs = {"cleaning"}, !.next = next, !.staged = FALSE]
      BY <2>1, <3>1
    <3>3. x.jobs = {} /\ {"cleaning"} \in SUBSET {"making", "unpacking", "inspecting", "merging", "cleaning"}
      OBVIOUS
    <3> HIDE DEF x
    <3>4. z \in ImportRecords
      BY <1>1, <3>2, <3>3 DEF ImportRecords
    <3>5. z.pc = "cleaning" /\ z.jobs = {"cleaning"} /\ z.next = next /\ z.staged = FALSE
      BY <1>1, <3>2 DEF ImportRecords
    <3>6. z.dir = x.dir /\ z.owned = x.owned /\ z.removed = x.removed /\ z.closing = x.closing
      BY <1>1, <3>2 DEF ImportRecords
    <3> QED
      BY <3>4, <3>5, <3>6
  <2>3. /\ y \in ImportRecords /\ y.pc = "cleaning" /\ y.jobs = {"cleaning"} /\ y.next = next
        /\ y.dir = x.dir /\ y.owned = x.owned /\ y.removed = x.removed
    <3>1. y \in ImportRecords
      <4>1. CASE y = z
        BY <2>2, <4>1
      <4>2. CASE y = [z EXCEPT !.cancelled = FALSE]
        BY <2>2, <4>2 DEF ImportRecords
      <4>3. CASE y = [z EXCEPT !.cancelled = FALSE, !.todo = {}]
        BY <2>2, <4>3 DEF ImportRecords
      <4>4. CASE y = [z EXCEPT !.closing = FALSE]
        BY <2>2, <4>4 DEF ImportRecords
      <4> QED
        BY <4>1, <4>2, <4>3, <4>4
    <3>2. y.pc = "cleaning" /\ y.jobs = {"cleaning"} /\ y.next = next
      BY <2>2 DEF ImportRecords
    <3>3. y.dir = x.dir /\ y.owned = x.owned /\ y.removed = x.removed
      <4> HIDE DEF x
      <4> QED
        BY <2>2 DEF ImportRecords
    <3> QED
      BY <3>1, <3>2, <3>3
  <2>4. x.dir
    BY <1>2 DEF ImportInv, Forms, ImportRecords
  <2> QED
    BY <1>2, <2>3, <2>4 DEF ImportInv, Forms
<1>3. CASE ~x.owned
  <2>1. z = [x EXCEPT !.pc = next, !.staged = FALSE]
    BY <1>3 DEF Cleanup
  <2>2. /\ z \in ImportRecords /\ z.pc = next /\ z.jobs = {} /\ z.staged = FALSE
        /\ z.dir = x.dir /\ z.owned = x.owned
    BY <1>1, <2>1 DEF ImportRecords, Forms
  <2>3. /\ y \in ImportRecords /\ y.pc = next /\ y.jobs = {} /\ y.staged = FALSE
        /\ y.dir = x.dir /\ y.owned = x.owned
    BY <2>2 DEF ImportRecords
  <2>4. ~x.dir
    BY <1>3 DEF ImportInv, Forms
  <2> QED
    BY <1>3, <2>3, <2>4 DEF ImportInv, Forms
<1> QED
  BY <1>2, <1>3

LEMMA CleanedUpKeeps ==
    ASSUME ImportInv, NEW next \in {"form", "result"}, import.jobs = {}, merged' = merged,
           import' = Cleanup(import, next), import.pc # "cleaning",
           next = "result" => merged = Packed
    PROVE  ImportInv'
<1> DEFINE z == Cleanup(import, next)
<1>1. z = Cleanup(import, next) /\ import' = z
  OBVIOUS
<1> HIDE DEF z
<1> QED
  BY <1>1, CleanupKeeps

LEMMA ImportWorkerKeeps ==
    ASSUME ImportInv, ImportWorkerEnds
    PROVE  ImportInv'
<1> DEFINE x == import
           y == import'
<1>1. PICK j \in x.jobs : y = After(x, j) /\ merged' = merged
  BY DEF ImportWorkerEnds, SetImport
<1>2. x \in ImportRecords /\ x.jobs = {j} /\ x.pc = j /\ j \notin Forms
  BY DEF ImportInv
<1>3. y = [x EXCEPT !.jobs = {}, !.dir = (x.dir \/ j = "making") /\ j # "cleaning"]
  BY <1>1, <1>2 DEF After, ImportRecords
<1> QED
  BY <1>1, <1>2, <1>3 DEF ImportInv, ImportRecords, Forms

LEMMA StageKeeps ==
    ASSUME ImportInv, Stage
    PROVE  ImportInv'
<1> DEFINE x == import
           y == import'
<1>1. /\ x \in ImportRecords /\ x.pc \in {"making", "unpacking", "inspecting"} /\ x.jobs = {}
      /\ merged' = merged
  BY DEF ImportInv, Stage, Drained
<1>2. CASE y = Works(x, "unpacking")
  <2>1. y = [x EXCEPT !.pc = "unpacking", !.jobs = {"unpacking"}]
    BY <1>1, <1>2 DEF Works, ImportRecords
  <2> QED
    BY <1>1, <2>1 DEF ImportInv, ImportRecords, Forms
<1>3. CASE y = [Works(x, "inspecting") EXCEPT !.staged = TRUE]
  <2>1. y = [x EXCEPT !.pc = "inspecting", !.jobs = {"inspecting"}, !.staged = TRUE]
    BY <1>1, <1>3 DEF Works, ImportRecords
  <2> QED
    BY <1>1, <2>1 DEF ImportInv, ImportRecords, Forms
<1>4. CASE y = [x EXCEPT !.pc = "confirm"]
  BY <1>1, <1>4 DEF ImportInv, ImportRecords, Forms
<1>5. CASE y = Cleanup(x, "form") \/ y = [Cleanup(x, "form") EXCEPT !.cancelled = FALSE]
  <2> DEFINE z == Cleanup(x, "form")
  <2>1. z = Cleanup(import, "form") /\ import' \in {z, [z EXCEPT !.cancelled = FALSE]}
    BY <1>5
  <2> HIDE DEF z
  <2> QED
    BY <1>1, <2>1, CleanupKeeps
<1> QED
  BY <1>2, <1>3, <1>4, <1>5 DEF Stage, SetImport

LEMMA CleanedKeeps ==
    ASSUME ImportInv, Cleaned
    PROVE  ImportInv'
<1> DEFINE x == import
           y == import'
<1>1. x \in ImportRecords /\ x.pc = "cleaning" /\ x.jobs = {} /\ merged' = merged
  BY DEF ImportInv, Cleaned, Drained
<1>2. CASE x.next = "making"
  <2>1. y = [x EXCEPT !.next = "form", !.pc = "making", !.jobs = {"making"}]
    BY <1>1, <1>2 DEF Cleaned, SetImport, Works, ImportRecords
  <2> QED
    BY <1>1, <1>2, <2>1 DEF ImportInv, ImportRecords, Forms
<1>3. CASE x.next # "making"
  <2>1. y = [x EXCEPT !.pc = x.next, !.owned = FALSE, !.next = "form"]
    BY <1>1, <1>3 DEF Cleaned, SetImport
  <2> QED
    BY <1>1, <1>3, <2>1 DEF ImportInv, ImportRecords, Forms
<1> QED
  BY <1>2, <1>3

LEMMA ConfirmKeeps ==
    ASSUME ImportInv, Confirm
    PROVE  ImportInv'
<1> DEFINE x == import
           y == import'
<1>1. x \in ImportRecords /\ x.pc = "confirm" /\ x.staged /\ x.jobs = {} /\ merged' = merged
      /\ merged \subseteq Packed
  BY DEF ImportInv, Confirm, Forms
<1>2. y = [x EXCEPT !.pc = "merging", !.jobs = {"merging"}, !.todo = Packed]
  BY <1>1 DEF Confirm, Works, ImportRecords
<1> QED
  BY <1>1, <1>2 DEF ImportInv, ImportRecords, Forms

LEMMA MergeAccountKeeps ==
    ASSUME ImportInv, MergeAccount
    PROVE  ImportInv'
<1> DEFINE x == import
           y == import'
<1>1. x \in ImportRecords /\ x.pc = "merging" /\ x.jobs = {} /\ merged \union x.todo = Packed
      /\ x.todo \subseteq Packed
  BY DEF ImportInv, MergeAccount, Drained, ImportRecords
<1>2. ASSUME NEW a \in x.todo, y = Works([x EXCEPT !.todo = @ \ {a}], "merging"),
             merged' = merged \union {a}
      PROVE  ImportInv'
  <2>1. y = [x EXCEPT !.pc = "merging", !.jobs = {"merging"}, !.todo = @ \ {a}]
    BY <1>1, <1>2 DEF Works, ImportRecords
  <2>2. merged' \union (x.todo \ {a}) = Packed /\ merged' \subseteq Packed
    BY <1>1, <1>2
  <2> QED
    BY <1>1, <2>1, <2>2 DEF ImportInv, ImportRecords, Forms
<1>3. CASE y = MergeRefused(x) /\ merged' = merged
  BY <1>1, <1>3 DEF MergeRefused, ImportInv, ImportRecords, Forms
<1>4. CASE x.todo = {} /\ y = Cleanup(x, "result") /\ merged' = merged
  <2>1. merged = Packed /\ "result" \in {"form", "result"} /\ import.jobs = {} /\ import.pc # "cleaning"
        /\ merged' = merged /\ import' = Cleanup(import, "result")
    BY <1>1, <1>4
  <2> QED
    BY <2>1, CleanedUpKeeps
<1>5. CASE y = [Cleanup(x, "form") EXCEPT !.cancelled = FALSE, !.todo = {}] /\ merged' = merged
  <2> DEFINE z == Cleanup(x, "form")
  <2>1. z = Cleanup(import, "form") /\ import' = [z EXCEPT !.cancelled = FALSE, !.todo = {}]
    BY <1>5
  <2> HIDE DEF z
  <2> QED
    BY <1>1, <1>5, <2>1, CleanupKeeps
<1> QED
  BY <1>2, <1>3, <1>4, <1>5 DEF MergeAccount, SetImport

LEMMA OwnerKeepsImport ==
    ASSUME ImportInv, CancelImport \/ RemoveFlow \/ CloseFlow
    PROVE  ImportInv'
<1> DEFINE x == import
           y == import'
<1>1. x \in ImportRecords /\ merged' = merged /\ (x.pc \in Forms => x.jobs = {})
  BY DEF ImportInv, CancelImport, RemoveFlow, CloseFlow
<1>2. CASE y = [x EXCEPT !.cancelled = TRUE]
  BY <1>1, <1>2 DEF ImportInv, ImportRecords, Forms
<1>3. CASE y = [x EXCEPT !.removed = TRUE, !.closing = x.owned]
  BY <1>1, <1>3 DEF ImportInv, ImportRecords, Forms
<1>4. CASE CloseFlow
  <2>1. x.pc # "cleaning" /\ x.jobs = {} /\ y = [Cleanup(x, "form") EXCEPT !.closing = FALSE]
    BY <1>1, <1>4 DEF CloseFlow, Forms, SetImport
  <2> DEFINE z == Cleanup(x, "form")
  <2>2. z = Cleanup(import, "form") /\ import' = [z EXCEPT !.closing = FALSE]
    BY <2>1
  <2> HIDE DEF z
  <2> QED
    BY <1>1, <2>1, <2>2, CleanupKeeps
<1> QED
  BY <1>2, <1>3, <1>4 DEF CancelImport, RemoveFlow, SetImport, Closes

LEMMA ImportKeeps ==
    ASSUME ImportInv, ImportNext
    PROVE  ImportInv'
BY SubmitKeepsImport, ImportWorkerKeeps, StageKeeps, CleanedKeeps, ConfirmKeeps, MergeAccountKeeps,
   OwnerKeepsImport DEF ImportNext, ImportSteps

LEMMA ExchangeInvariant == ExchangeSafe => []ExchangeInv
<1>1. ExchangeInit => ExchangeInv
  <2> SUFFICES ASSUME ExchangeInit PROVE ExchangeInv
    OBVIOUS
  <2>1. \A f \in Exports : export[f] = NoExport
    BY DEF ExchangeInit
  <2>2. pending = {} /\ downloads = {} /\ IsFiniteSet({}) /\ Cardinality({}) = 0
    BY FS_EmptySet DEF ExchangeInit
  <2>3. SlotsInv
    <3>1. 0 + 0 <= MaxExports
      BY ArchiveExchangeAssumption
    <3> QED
      BY <2>2, <3>1 DEF SlotsInv
  <2>4. \A f \in Exports : ExportInv(f)
    <3> TAKE f \in Exports
    <3>1. /\ NoExport \in ExportRecords /\ NoExport.pc = "idle" /\ NoExport.jobs = {}
          /\ NoExport.dir = FALSE
      BY DEF NoExport, ExportRecords
    <3>2. export[f] = NoExport
      BY <2>1
    <3> QED
      BY <2>2, <3>1, <3>2 DEF ExportInv, InTheMaking
  <2>5. export = [f \in Exports |-> export[f]]
    BY DEF ExchangeInit
  <2>6. ImportInv
    BY DEF ExchangeInit, ImportInv, ImportRecords, NoImport, Forms
  <2> QED
    BY <2>3, <2>4, <2>5, <2>6 DEF ExchangeInv, ExportsInv
<1>2. ExchangeInv /\ [ExchangeNext]_<<exportVars, importVars>> => ExchangeInv'
  <2> SUFFICES ASSUME ExchangeInv, [ExchangeNext]_<<exportVars, importVars>> PROVE ExchangeInv'
    OBVIOUS
  <2>1. ExportsInv /\ UNCHANGED exportVars => ExportsInv'
    BY DEF ExportsInv, ExportInv, SlotsInv, exportVars
  <2>2. ImportInv /\ UNCHANGED importVars => ImportInv'
    BY DEF ImportInv, importVars
  <2> QED
    BY <2>1, <2>2, ExportsKeep, ImportKeeps DEF ExchangeInv, ExchangeNext
<1> QED
  BY <1>1, <1>2, PTL DEF ExchangeSafe

\* Packages and directories of an exchange are bounded and owned, whatever awaits, cancellations
\* and removals of the flow come between the admission of an export and the end of its download
\* (export_workspace, finish_job, async_remove), and the flow calls a package imported only
\* when each of its accounts is (_archive_confirm): for any number of flows, slots and accounts.
THEOREM ExchangesAreSound == ExchangeSafe => []ExchangeIsSound
<1>1. ExchangeInv => ExchangeIsSound
  <2> SUFFICES ASSUME ExchangeInv PROVE ExchangeIsSound
    OBVIOUS
  <2>1. \A f \in Exports : ExportInv(f)
    BY DEF ExchangeInv, ExportsInv
  <2>2. SlotsBound
    <3>1. {f \in Exports : f \in downloads \/ export[f].pc \in {"making", "copying", "packing", "clearing"}}
            = pending \union downloads
      BY <2>1 DEF ExchangeInv, ExportsInv, SlotsInv, ExportInv, InTheMaking
    <3>2. Cardinality(pending \union downloads) <= Cardinality(pending) + Cardinality(downloads)
          /\ Cardinality(pending \union downloads) \in Nat
          /\ Cardinality(pending) + Cardinality(downloads) <= MaxExports
      <4>1. SlotsInv
        BY DEF ExchangeInv, ExportsInv
      <4>2. IsFiniteSet(pending \union downloads) /\ IsFiniteSet(pending \cap downloads)
        BY <4>1, FS_Union, FS_Subset DEF SlotsInv
      <4>3. Cardinality(pending \union downloads)
              = Cardinality(pending) + Cardinality(downloads) - Cardinality(pending \cap downloads)
        BY <4>1, FS_Union DEF SlotsInv
      <4>4. /\ Cardinality(pending \union downloads) \in Nat /\ Cardinality(pending) \in Nat
            /\ Cardinality(downloads) \in Nat /\ Cardinality(pending \cap downloads) \in Nat
        BY <4>1, <4>2, FS_CardinalityType DEF SlotsInv
      <4> QED
        BY <4>1, <4>3, <4>4 DEF SlotsInv
    <3>3. MaxExports \in Nat /\ Cardinality(pending) \in Nat /\ Cardinality(downloads) \in Nat
      BY ArchiveExchangeAssumption, FS_CardinalityType DEF ExchangeInv, ExportsInv, SlotsInv
    <3> QED
      BY <3>1, <3>2, <3>3 DEF SlotsBound
  <2>3. HasOwner
    <3>1. \A f \in Exports :
             /\ export[f].dir => export[f].pc # "over" /\ (export[f].pc = "published" <=> f \in downloads)
             /\ f \in downloads => export[f].dir
             /\ export[f].jobs \cap {"copying", "packing"} # {} => export[f].dir
      BY <2>1 DEF ExportInv
    <3>2. /\ import.dir => import.owned /\ (import.pc \in Forms => ~import.removed \/ import.closing)
          /\ import.jobs \cap {"unpacking", "inspecting", "merging"} # {} => import.dir
      BY DEF ExchangeInv, ImportInv, Forms
    <3> QED
      BY <3>1, <3>2 DEF HasOwner
  <2>4. ResultIsTrue
    BY DEF ExchangeInv, ImportInv, ResultIsTrue
  <2> QED
    BY <2>2, <2>3, <2>4 DEF ExchangeIsSound
<1> QED
  BY <1>1, ExchangeInvariant, PTL

-----------------------------------------------------------------------------
\* Files.

Takes == {"adopting", "copying", "imaging", "merging", "merged", "discarding"}
StartStages ==
    Takes \union {"off", "looking", "opening", "creating", "preserving", "publishing", "saving",
                  "converting", "running", "writing", "refused"}

CanonTyped ==
    canon \in [is : {"none", "empty", "db"}, old : BOOLEAN, facts : SUBSET Facts, lost : SUBSET Facts,
               hot : BOOLEAN]
StartTyped ==
    start \in [pc : StartStages, adopt : BOOLEAN, todo : SUBSET ManagedFiles, src : ManagedFiles,
               copy : ManagedFiles, image : ManagedFiles, failed : BOOLEAN]
FilesTyped ==
    CanonTyped /\ StartTyped /\ kept \subseteq ManagedFiles /\ search \in BOOLEAN /\ outside \in Nat

\* What comes before the adoption: damage is from outside; an old archive has been seen, and there
\* is a copy before it is changed.
OpenInv ==
    /\ canon.is = "none" => ~canon.old
    /\ canon.lost # {} => outside > 0
    /\ start.pc \in {"preserving", "publishing"} => outside > 0
    /\ start.pc \in {"opening", "creating", "preserving", "publishing"} /\ ~start.adopt => ~canon.old
    /\ start.pc \in {"saving", "converting"} => start.adopt
    /\ At("converting") => File("schema", canon.facts) \in kept
    /\ At("publishing") => File("recovery", canon.facts \ canon.lost) \in kept

\* The archive is whole while sources are adopted, and has what a stage has taken over.
TakeInv ==
    /\ start.pc \in Takes => canon.lost = {} /\ canon.is = "db" /\ ~canon.old
    /\ start.pc \in Takes /\ search => \A f \in start.todo : f.kind # "recovery"
    /\ start.pc \in Takes \ {"adopting"} /\ search => start.src.kind # "recovery"
    /\ start.pc \in {"imaging", "merging", "merged", "discarding"} => start.src.facts \subseteq start.copy.facts
    /\ start.pc \in {"merging", "merged"} => start.image.facts \subseteq canon.facts
    /\ start.pc \in {"merged", "discarding"} => start.copy.facts \subseteq canon.facts

\* What lies beside the archive, as long as nothing failed: what it has, what is left to take, and
\* the image of a repair.
Beside(f) == f.facts \subseteq canon.facts \/ (f.kind = "recovery" /\ search /\ canon.is # "none")
LeftInv ==
    ~start.failed /\ outside = 0 =>
        /\ start.pc \in {"opening", "creating"} /\ ~start.adopt => \A f \in kept : Beside(f)
        /\ start.pc \in Takes => \A f \in kept :
                Beside(f) \/ f \in start.todo \/ (~At("adopting") /\ f = start.src)

FilesInv == FilesTyped /\ OpenInv /\ TakeInv /\ LeftInv

LEMMA FilesOfTypes ==
    ASSUME NEW x \in SUBSET Facts
    PROVE  /\ File("schema", x) \in ManagedFiles /\ File("recovery", x) \in ManagedFiles
           /\ File("retained", x) \in ManagedFiles /\ NoFile \in ManagedFiles
           /\ [kind |-> "recovery", facts |-> {}, ok |-> FALSE] \in ManagedFiles
BY DEF File, ManagedFiles, NoFile

LEMMA TypesStart == FilesInit => FilesTyped
<1> SUFFICES ASSUME FilesInit PROVE FilesTyped
  OBVIOUS
<1>1. kept \subseteq ManagedFiles
  BY ArchiveFilesAssumption DEF FilesInit
<1>2. start \in [pc : StartStages, adopt : BOOLEAN, todo : SUBSET ManagedFiles, src : ManagedFiles,
               copy : ManagedFiles, image : ManagedFiles, failed : BOOLEAN]
  BY FilesOfTypes DEF FilesInit, Off, StartStages, Takes
<1>3. PICK is \in {"none", "db"}, old \in BOOLEAN, active \in BOOLEAN :
          /\ canon = [NoCanon EXCEPT !.is = is, !.old = old, !.facts = IF is = "db" THEN New ELSE {}]
          /\ search = active /\ (is = "none" => ~old /\ ~active)
  BY DEF FilesInit
<1>4. New \in SUBSET Facts /\ {} \in SUBSET Facts
  BY ArchiveFilesAssumption
<1>5. CanonTyped
  BY <1>3, <1>4 DEF CanonTyped, NoCanon
<1> QED
  BY <1>1, <1>2, <1>3, <1>5 DEF FilesTyped, StartTyped, FilesInit

LEMMA OpenCases ==
    ASSUME Open
    PROVE  /\ At("opening") /\ kept' = kept /\ search' = search /\ outside' = outside
           /\ \/ /\ canon.is = "none" /\ canon' = [canon EXCEPT !.is = "empty"]
                 /\ start' = [start EXCEPT !.pc = "creating"]
              \/ canon' = canon /\ start' = [Off EXCEPT !.pc = "refused"]
              \/ /\ canon.is = "db" /\ ~canon.hot /\ canon' = canon
                 /\ \/ canon.lost # {} /\ start' = [start EXCEPT !.pc = "preserving"]
                    \/ canon.lost = {} /\ canon.old /\ start' = [start EXCEPT !.pc = "saving"]
                    \/ /\ canon.lost = {} /\ ~canon.old /\ start.adopt
                       /\ start' = [start EXCEPT !.pc = "adopting", !.todo = Sources]
                    \/ /\ canon.lost = {} /\ ~canon.old
                       /\ start' = [Off EXCEPT !.pc = "running", !.failed = start.failed]
BY Zenon DEF Open, Refuse, Go

LEMMA StartTypesKeep ==
    ASSUME FilesTyped, FilesNext
    PROVE  StartTyped'
<1>0. StartTyped /\ kept \subseteq ManagedFiles /\ canon.facts \in SUBSET Facts
  BY DEF FilesTyped, CanonTyped
<1>00. Off \in [pc : StartStages, adopt : BOOLEAN, todo : SUBSET ManagedFiles, src : ManagedFiles,
               copy : ManagedFiles, image : ManagedFiles, failed : BOOLEAN]
  BY FilesOfTypes DEF Off, StartStages, Takes
<1> USE DEF StartTyped
<1>1. CASE StartSetup
  BY <1>0, <1>00, <1>1 DEF StartSetup, Go, StartStages, Takes
<1>2. CASE Look
  <2>1. CASE start' = [Off EXCEPT !.pc = "refused"]
    BY <1>00, <2>1 DEF StartStages, Takes
  <2>2. ASSUME NEW b \in BOOLEAN, start' = [start EXCEPT !.pc = "opening", !.adopt = b]
        PROVE  StartTyped'
    BY <1>0, <2>2 DEF StartStages, Takes
  <2> QED
    BY <1>2, <2>1, <2>2 DEF Look, Refuse
<1>3. CASE Open
  <2>1. Sources \in SUBSET ManagedFiles
    BY <1>0 DEF Sources
  <2>2. CASE start' = [start EXCEPT !.pc = "adopting", !.todo = Sources]
    BY <1>0, <2>1, <2>2 DEF StartStages, Takes
  <2>3. CASE start' = [Off EXCEPT !.pc = "refused"]
    BY <1>00, <2>3 DEF StartStages, Takes
  <2>4. CASE start' = [Off EXCEPT !.pc = "running", !.failed = start.failed]
    BY <1>0, <1>00, <2>4 DEF StartStages, Takes
  <2>5. ASSUME NEW p \in {"creating", "preserving", "saving"}, start' = [start EXCEPT !.pc = p]
        PROVE  StartTyped'
    BY <1>0, <2>5 DEF StartStages, Takes
  <2> QED
    BY <1>3, <2>2, <2>3, <2>4, <2>5, OpenCases
<1>4. CASE Create
  BY <1>0, <1>00, <1>4 DEF Create, Go, StartStages, Takes
<1>5. CASE Preserve
  BY <1>0, <1>00, <1>5 DEF Preserve, Go, StartStages, Takes
<1>6. CASE Publish
  BY <1>0, <1>00, <1>6 DEF Publish, Go, StartStages, Takes
<1>7. CASE SaveSchema
  <2>1. CASE start' = [start EXCEPT !.pc = "converting"]
    BY <1>0, <2>1 DEF StartStages, Takes
  <2>2. CASE start' = [Off EXCEPT !.pc = "refused"]
    BY <1>00, <2>2 DEF StartStages, Takes
  <2> QED
    BY <1>7, <2>1, <2>2 DEF SaveSchema, Go, Refuse
<1>8. CASE Convert
  <2>1. CASE start' = [start EXCEPT !.pc = "opening"]
    BY <1>0, <2>1 DEF StartStages, Takes
  <2> QED
    BY <1>0, <1>8, <2>1 DEF Convert, Go
<1>9. CASE NextSource
  <2>1. CASE start' = [Off EXCEPT !.pc = "opening", !.failed = start.failed]
    BY <1>0, <1>00, <2>1 DEF StartStages, Takes
  <2>2. ASSUME NEW f \in start.todo, start' = [start EXCEPT !.pc = "copying", !.src = f, !.todo = @ \ {f}]
        PROVE  StartTyped'
    <3>1. f \in ManagedFiles /\ start.todo \ {f} \in SUBSET ManagedFiles
      BY <1>0
    <3> QED
      BY <1>0, <2>2, <3>1 DEF StartStages, Takes
  <2> QED
    BY <1>9, <2>1, <2>2 DEF NextSource
<1>10. CASE CopySource
  <2>1. CASE Failed
    BY <1>0, <2>1 DEF Failed, StartStages, Takes
  <2>2. ASSUME NEW g \in ManagedFiles, start' = [start EXCEPT !.pc = "imaging", !.copy = g]
        PROVE  StartTyped'
    BY <1>0, <2>2 DEF StartStages, Takes
  <2> QED
    BY <1>0, <1>10, <2>1, <2>2 DEF CopySource, Now
<1>11. CASE Image
  <2>1. PICK f \in ManagedFiles : start' = [start EXCEPT !.pc = "merging", !.image = f]
    BY <1>0, <1>11, FilesOfTypes DEF Image
  <2> QED
    BY <1>0, <2>1 DEF StartStages, Takes
<1>12. CASE Merge
  <2>1. CASE start' = [start EXCEPT !.pc = "merged"]
    BY <1>0, <2>1 DEF StartStages, Takes
  <2> QED
    BY <1>0, <1>12, <2>1 DEF Merge, Go
<1>13. CASE MergeFails
  <2>1. Failed
    BY <1>13 DEF MergeFails
  <2> QED
    BY <1>0, <2>1 DEF Failed, StartStages, Takes
<1>14. CASE EndImage
  BY <1>0, <1>00, <1>14 DEF EndImage, Go, StartStages, Takes
<1>15. CASE Discard
  <2>1. CASE start' = [start EXCEPT !.pc = "adopting"]
    BY <1>0, <2>1 DEF StartStages, Takes
  <2>2. CASE Failed
    BY <1>0, <2>2 DEF Failed, StartStages, Takes
  <2> QED
    BY <1>15, <2>1, <2>2 DEF Discard, Go
<1>16. CASE Record
  BY <1>0, <1>00, <1>16 DEF Record, Go, StartStages, Takes
<1>17. CASE Recorded
  BY <1>0, <1>00, <1>17 DEF Recorded, Go, StartStages, Takes
<1>18. CASE Repair
  BY <1>0, <1>00, <1>18 DEF Repair, StartStages, Takes
<1>19. CASE Stop
  BY <1>0, <1>00, <1>19 DEF Stop, StartStages, Takes
<1>20. CASE Crash
  BY <1>0, <1>00, <1>20 DEF Crash, StartStages, Takes
<1>21. CASE Touch
  BY <1>0, <1>00, <1>21 DEF Touch, StartStages, Takes
<1>22. CASE Damage
  BY <1>0, <1>00, <1>22 DEF Damage, StartStages, Takes
<1>23. CASE RemoveFiles
  BY <1>0, <1>00, <1>23 DEF RemoveFiles, StartStages, Takes
<1> QED
  BY <1>1, <1>2, <1>3, <1>4, <1>5, <1>6, <1>7, <1>8, <1>9, <1>10, <1>11, <1>12, <1>13, <1>14, <1>15, <1>16, <1>17, <1>18, <1>19, <1>20, <1>21, <1>22, <1>23 DEF FilesNext, StartSteps

LEMMA CanonTypesKeep ==
    ASSUME FilesTyped, FilesNext
    PROVE  CanonTyped'
<1>0. CanonTyped /\ start.copy.facts \in SUBSET Facts
  BY DEF FilesTyped, StartTyped, ManagedFiles
<1> USE DEF CanonTyped
<1>1. CASE StartSetup
  BY <1>0, <1>1 DEF StartSetup
<1>2. CASE Look
  BY <1>0, <1>2 DEF Look
<1>3. CASE Open
  BY <1>0, <1>3, OpenCases
<1>4. CASE Create
  BY <1>0, <1>4 DEF Create
<1>5. CASE Preserve
  BY <1>0, <1>5 DEF Preserve
<1>6. CASE Publish
  BY <1>0, <1>6 DEF Publish
<1>7. CASE SaveSchema
  BY <1>0, <1>7 DEF SaveSchema
<1>8. CASE Convert
  <2>1. CASE canon' = [canon EXCEPT !.hot = TRUE]
    BY <1>0, <2>1
  <2>2. CASE canon' = [canon EXCEPT !.hot = FALSE, !.old = FALSE]
    BY <1>0, <2>2
  <2> QED
    BY <1>8, <2>1, <2>2 DEF Convert
<1>9. CASE NextSource
  BY <1>0, <1>9 DEF NextSource
<1>10. CASE CopySource
  BY <1>0, <1>10 DEF CopySource
<1>11. CASE Image
  BY <1>0, <1>11 DEF Image
<1>12. CASE Merge
  <2>1. CASE canon' = [canon EXCEPT !.hot = TRUE]
    BY <1>0, <2>1
  <2>2. CASE canon' = [canon EXCEPT !.hot = FALSE, !.facts = @ \union start.copy.facts]
    <3>1. canon.facts \union start.copy.facts \in SUBSET Facts
      BY <1>0
    <3> QED
      BY <1>0, <2>2, <3>1
  <2> QED
    BY <1>12, <2>1, <2>2 DEF Merge
<1>13. CASE MergeFails
  BY <1>0, <1>13 DEF MergeFails
<1>14. CASE EndImage
  BY <1>0, <1>14 DEF EndImage
<1>15. CASE Discard
  BY <1>0, <1>15 DEF Discard
<1>16. CASE Record
  BY <1>0, <1>16 DEF Record
<1>17. CASE Recorded
  <2>1. PICK f \in New : canon' = [canon EXCEPT !.hot = FALSE, !.facts = @ \union {f}]
    BY <1>17 DEF Recorded
  <2>2. canon.facts \union {f} \in SUBSET Facts
    BY <1>0, ArchiveFilesAssumption
  <2> QED
    BY <1>0, <2>1, <2>2
<1>18. CASE Repair
  BY <1>0, <1>18 DEF Repair
<1>19. CASE Stop
  BY <1>0, <1>19 DEF Stop
<1>20. CASE Crash
  BY <1>0, <1>20 DEF Crash
<1>21. CASE Touch
  BY <1>0, <1>21 DEF Touch
<1>22. CASE Damage
  <2>1. PICK f \in canon.facts : canon' = [canon EXCEPT !.lost = @ \union {f}]
    BY <1>22 DEF Damage
  <2>2. canon.lost \union {f} \in SUBSET Facts
    BY <1>0
  <2> QED
    BY <1>0, <2>1, <2>2
<1>23. CASE RemoveFiles
  BY <1>0, <1>23 DEF RemoveFiles, NoCanon
<1> QED
  BY <1>1, <1>2, <1>3, <1>4, <1>5, <1>6, <1>7, <1>8, <1>9, <1>10, <1>11, <1>12, <1>13, <1>14, <1>15, <1>16, <1>17, <1>18, <1>19, <1>20, <1>21, <1>22, <1>23 DEF FilesNext, StartSteps

LEMMA TypesKeep ==
    ASSUME FilesTyped, FilesNext
    PROVE  FilesTyped'
<1>0. /\ kept \subseteq ManagedFiles /\ search \in BOOLEAN /\ outside \in Nat
      /\ canon.facts \in SUBSET Facts /\ canon.facts \ canon.lost \in SUBSET Facts
      /\ start.image.facts \in SUBSET Facts
  BY DEF FilesTyped, CanonTyped, StartTyped, ManagedFiles
<1> DEFINE Others == kept \subseteq ManagedFiles /\ search \in BOOLEAN /\ outside \in Nat
<1>1. ASSUME StartSetup PROVE Others'
  BY <1>0, <1>1, FilesOfTypes DEF StartSetup
<1>2. ASSUME Look PROVE Others'
  BY <1>0, <1>2, FilesOfTypes DEF Look
<1>3. ASSUME Open PROVE Others'
  BY <1>0, <1>3, OpenCases
<1>4. ASSUME Create PROVE Others'
  BY <1>0, <1>4, FilesOfTypes DEF Create
<1>5. ASSUME Preserve PROVE Others'
  BY <1>0, <1>5, FilesOfTypes DEF Preserve
<1>6. ASSUME Publish PROVE Others'
  BY <1>0, <1>6, FilesOfTypes DEF Publish
<1>7. ASSUME SaveSchema PROVE Others'
  BY <1>0, <1>7, FilesOfTypes DEF SaveSchema, Saved
<1>8. ASSUME Convert PROVE Others'
  BY <1>0, <1>8, FilesOfTypes DEF Convert
<1>9. ASSUME NextSource PROVE Others'
  BY <1>0, <1>9, FilesOfTypes DEF NextSource
<1>10. ASSUME CopySource PROVE Others'
  BY <1>0, <1>10, FilesOfTypes DEF CopySource
<1>11. ASSUME Image PROVE Others'
  BY <1>0, <1>11, FilesOfTypes DEF Image
<1>12. ASSUME Merge PROVE Others'
  BY <1>0, <1>12, FilesOfTypes DEF Merge
<1>13. ASSUME MergeFails PROVE Others'
  BY <1>0, <1>13, FilesOfTypes DEF MergeFails
<1>14. ASSUME EndImage PROVE Others'
  BY <1>0, <1>14, FilesOfTypes DEF EndImage
<1>15. ASSUME Discard PROVE Others'
  BY <1>0, <1>15 DEF Discard
<1>16. ASSUME Record PROVE Others'
  BY <1>0, <1>16, FilesOfTypes DEF Record
<1>17. ASSUME Recorded PROVE Others'
  BY <1>0, <1>17, FilesOfTypes DEF Recorded
<1>18. ASSUME Repair PROVE Others'
  BY <1>0, <1>18, FilesOfTypes DEF Repair
<1>19. ASSUME Stop PROVE Others'
  BY <1>0, <1>19, FilesOfTypes DEF Stop
<1>20. ASSUME Crash PROVE Others'
  BY <1>0, <1>20, FilesOfTypes DEF Crash
<1>21. ASSUME Touch PROVE Others'
  <2>1. PICK f \in kept, x \in Late : kept' = (kept \ {f}) \union {[f EXCEPT !.facts = @ \union {x}]}
    BY <1>21 DEF Touch
  <2>2. f.facts \union {x} \in SUBSET Facts /\ f \in ManagedFiles
    BY <1>0, ArchiveFilesAssumption DEF ManagedFiles
  <2>3. [f EXCEPT !.facts = @ \union {x}] \in ManagedFiles
    BY <2>2 DEF ManagedFiles
  <2>4. kept' \subseteq ManagedFiles
    BY <1>0, <2>1, <2>3
  <2>5. search' = search /\ outside' = outside + 1
    BY <1>21 DEF Touch
  <2> QED
    BY <1>0, <2>4, <2>5
<1>22. ASSUME Damage PROVE Others'
  BY <1>0, <1>22, FilesOfTypes DEF Damage
<1>23. ASSUME RemoveFiles PROVE Others'
  BY <1>0, <1>23, FilesOfTypes DEF RemoveFiles
<1>24. Others'
  BY <1>1, <1>2, <1>3, <1>4, <1>5, <1>6, <1>7, <1>8, <1>9, <1>10, <1>11, <1>12, <1>13, <1>14, <1>15, <1>16, <1>17, <1>18, <1>19, <1>20, <1>21, <1>22, <1>23 DEF FilesNext, StartSteps
<1> QED
  BY <1>24, StartTypesKeep, CanonTypesKeep DEF FilesTyped

\* What the steps with more than one outcome do, field by field.
LEMMA LookFields ==
    ASSUME FilesTyped, Look
    PROVE  /\ At("looking") /\ UNCHANGED <<canon, kept, search, outside>>
           /\ \/ start'.pc = "refused"
              \/ /\ start'.pc = "opening"
                 /\ ~start'.adopt => /\ Sources = {} /\ ~canon.hot
                                     /\ canon.is # "none" => ~canon.old /\ canon.is # "empty"
<1>1. CASE Sources = {} /\ canon.hot
  BY <1>1 DEF Look, Refuse, Off
<1>2. CASE ~(Sources = {} /\ canon.hot)
  <2>1. start' = [start EXCEPT !.pc = "opening",
                     !.adopt = Sources # {} \/ (canon.is # "none" /\ (canon.old \/ canon.is = "empty"))]
    BY <1>2 DEF Look
  <2>2. start'.pc = "opening"
        /\ start'.adopt = (Sources # {} \/ (canon.is # "none" /\ (canon.old \/ canon.is = "empty")))
    BY <2>1 DEF FilesTyped, StartTyped
  <2> QED
    BY <1>2, <2>2 DEF Look
<1> QED
  BY <1>1, <1>2

LEMMA OpenFields ==
    ASSUME FilesTyped, Open
    PROVE  /\ At("opening") /\ UNCHANGED <<kept, search, outside>>
           /\ canon'.facts = canon.facts /\ canon'.lost = canon.lost /\ canon'.old = canon.old
           /\ \/ /\ canon.is = "none" /\ canon'.is = "empty"
                 /\ start'.pc = "creating" /\ start'.adopt = start.adopt /\ start'.failed = start.failed
              \/ canon' = canon /\ start'.pc \in {"refused", "running"}
              \/ /\ canon' = canon /\ canon.lost # {}
                 /\ start'.pc = "preserving" /\ start'.adopt = start.adopt
              \/ canon' = canon /\ canon.old /\ start'.pc = "saving" /\ start'.adopt = start.adopt
              \/ /\ canon' = canon /\ canon.is = "db" /\ ~canon.hot /\ canon.lost = {} /\ ~canon.old
                 /\ start'.pc = "adopting" /\ start'.todo = Sources /\ start'.failed = start.failed
<1> USE DEF FilesTyped, StartTyped
<1>1. CASE canon.is = "none" /\ canon' = [canon EXCEPT !.is = "empty"]
           /\ start' = [start EXCEPT !.pc = "creating"]
  <2>1. canon'.facts = canon.facts /\ canon'.lost = canon.lost /\ canon'.old = canon.old
        /\ canon'.is = "empty"
    BY <1>1 DEF CanonTyped
  <2>2. start'.pc = "creating" /\ start'.adopt = start.adopt /\ start'.failed = start.failed
    BY <1>1
  <2> QED
    BY <1>1, <2>1, <2>2, OpenCases
<1>2. CASE canon' = canon /\ start' = [Off EXCEPT !.pc = "refused"]
  <2>1. start'.pc = "refused"
    BY <1>2 DEF Off
  <2> QED
    BY <1>2, <2>1, OpenCases
<1>3. CASE canon' = canon /\ canon.lost # {} /\ start' = [start EXCEPT !.pc = "preserving"]
  <2>1. start'.pc = "preserving" /\ start'.adopt = start.adopt
    BY <1>3
  <2> QED
    BY <1>3, <2>1, OpenCases
<1>4. CASE canon' = canon /\ canon.old /\ start' = [start EXCEPT !.pc = "saving"]
  <2>1. start'.pc = "saving" /\ start'.adopt = start.adopt
    BY <1>4
  <2> QED
    BY <1>4, <2>1, OpenCases
<1>5. CASE canon' = canon /\ canon.is = "db" /\ ~canon.hot /\ canon.lost = {} /\ ~canon.old
           /\ start' = [start EXCEPT !.pc = "adopting", !.todo = Sources]
  <2>1. start'.pc = "adopting" /\ start'.todo = Sources /\ start'.failed = start.failed
    BY <1>5
  <2> QED
    BY <1>5, <2>1, OpenCases
<1>6. CASE canon' = canon /\ start' = [Off EXCEPT !.pc = "running", !.failed = start.failed]
  <2>1. start'.pc = "running"
    BY <1>6 DEF Off
  <2> QED
    BY <1>6, <2>1, OpenCases
<1> QED
  BY <1>1, <1>2, <1>3, <1>4, <1>5, <1>6, OpenCases

LEMMA ConvertFields ==
    ASSUME FilesTyped, Convert
    PROVE  /\ At("converting") /\ UNCHANGED <<kept, search, outside>>
           /\ canon'.is = canon.is /\ canon'.facts = canon.facts /\ canon'.lost = canon.lost
           /\ canon'.old => canon.old
           /\ start'.pc \in {"converting", "opening"} /\ start'.adopt = start.adopt
<1>1. CASE canon.hot
  BY <1>1 DEF Convert, Go, FilesTyped, CanonTyped, StartTyped
<1>2. CASE ~canon.hot
  BY <1>2 DEF Convert, At, FilesTyped, CanonTyped
<1> QED
  BY <1>1, <1>2

LEMMA NextFields ==
    ASSUME FilesTyped, NextSource
    PROVE  /\ At("adopting") /\ UNCHANGED <<canon, kept, search, outside>>
           /\ start'.failed = start.failed
           /\ \/ start.todo = {} /\ start'.pc = "opening"
              \/ \E f \in start.todo :
                    start'.pc = "copying" /\ start'.src = f /\ start'.todo = start.todo \ {f}
<1>1. CASE start.todo = {}
  BY <1>1 DEF NextSource, Off
<1>2. CASE start.todo # {}
  <2>1. PICK f \in start.todo : start' = [start EXCEPT !.pc = "copying", !.src = f, !.todo = @ \ {f}]
    BY <1>2 DEF NextSource
  <2>2. start'.pc = "copying" /\ start'.src = f /\ start'.todo = start.todo \ {f}
        /\ start'.failed = start.failed
    BY <2>1 DEF FilesTyped, StartTyped
  <2> QED
    BY <2>2 DEF NextSource
<1> QED
  BY <1>1, <1>2

LEMMA CopyFields ==
    ASSUME FilesTyped, CopySource
    PROVE  /\ At("copying") /\ UNCHANGED <<canon, kept, search, outside>> /\ start'.todo = start.todo
           /\ start'.src = start.src
           /\ \/ start'.pc = "adopting" /\ start'.failed
              \/ /\ start'.pc = "imaging" /\ start'.failed = start.failed
                 /\ start.src.facts \subseteq start'.copy.facts
<1>1. CASE Failed
  BY <1>1 DEF CopySource, Failed, FilesTyped, StartTyped
<1>2. ASSUME NEW g \in Now(start.src), start' = [start EXCEPT !.pc = "imaging", !.copy = g]
      PROVE  /\ start'.todo = start.todo /\ start'.src = start.src /\ start'.failed = start.failed
             /\ start'.pc = "imaging" /\ start.src.facts \subseteq start'.copy.facts
  <2>1. start.src.facts \subseteq g.facts
    BY DEF Now
  <2>2. /\ start'.todo = start.todo /\ start'.src = start.src /\ start'.failed = start.failed
        /\ start'.pc = "imaging" /\ start'.copy = g
    BY <1>2 DEF FilesTyped, StartTyped
  <2> QED
    BY <2>1, <2>2
<1> QED
  BY <1>1, <1>2 DEF CopySource

LEMMA MergeFields ==
    ASSUME FilesTyped, Merge
    PROVE  /\ At("merging") /\ UNCHANGED <<kept, search, outside>>
           /\ canon'.is = canon.is /\ canon'.old = canon.old /\ canon'.lost = canon.lost
           /\ canon.facts \subseteq canon'.facts
           /\ start'.todo = start.todo /\ start'.src = start.src /\ start'.copy = start.copy
           /\ start'.image = start.image /\ start'.failed = start.failed
           /\ \/ start'.pc = "merging"
              \/ start'.pc = "merged" /\ start.copy.facts \subseteq canon'.facts
<1>1. CASE canon.hot
  <2>1. /\ canon'.is = canon.is /\ canon'.old = canon.old /\ canon'.lost = canon.lost
        /\ canon'.facts = canon.facts \union start.copy.facts
    BY <1>1 DEF Merge, FilesTyped, CanonTyped
  <2>2. /\ start'.todo = start.todo /\ start'.src = start.src /\ start'.copy = start.copy
        /\ start'.image = start.image /\ start'.failed = start.failed /\ start'.pc = "merged"
    BY <1>1 DEF Merge, Go, FilesTyped, StartTyped
  <2> QED
    BY <2>1, <2>2 DEF Merge
<1>2. CASE ~canon.hot
  <2>1. /\ canon'.is = canon.is /\ canon'.old = canon.old /\ canon'.lost = canon.lost
        /\ canon'.facts = canon.facts
    BY <1>2 DEF Merge, FilesTyped, CanonTyped
  <2> QED
    BY <1>2, <2>1 DEF Merge, At
<1> QED
  BY <1>1, <1>2

LEMMA DiscardFields ==
    ASSUME FilesTyped, Discard
    PROVE  /\ At("discarding") /\ UNCHANGED <<canon, search, outside>> /\ start'.pc = "adopting"
           /\ start'.todo = start.todo /\ kept' \subseteq kept /\ kept \ kept' \subseteq {start.src}
           /\ start'.failed \/ (start'.failed = start.failed /\ start.src \notin kept')
<1>1. CASE Unchanged # {}
  BY <1>1 DEF Discard, Unchanged, Go, FilesTyped, StartTyped
<1>2. CASE Unchanged = {}
  BY <1>2 DEF Discard, Failed, FilesTyped, StartTyped
<1> QED
  BY <1>1, <1>2

LEMMA OpenKeeps ==
    ASSUME FilesInv, FilesNext
    PROVE  OpenInv'
<1>0. FilesTyped /\ OpenInv /\ TakeInv /\ LeftInv
  BY DEF FilesInv
<1>00. CanonTyped /\ StartTyped
  BY DEF FilesInv, FilesTyped
<1>1. CASE StartSetup
  BY <1>0, <1>00, <1>1 DEF StartSetup, OpenInv, At, CanonTyped, StartTyped, Go
<1>2. CASE Look
  BY <1>0, <1>2, LookFields DEF OpenInv, At
<1>3. CASE Open
  BY <1>0, <1>3, OpenFields DEF OpenInv, At
<1>4. CASE Create
  BY <1>0, <1>00, <1>4 DEF Create, OpenInv, At, CanonTyped, StartTyped, Go
<1>5. CASE Preserve
  BY <1>0, <1>00, <1>5 DEF Preserve, OpenInv, At, CanonTyped, StartTyped, Go, File
<1>6. CASE Publish
  BY <1>0, <1>00, <1>6 DEF Publish, OpenInv, At, CanonTyped, StartTyped, Go
<1>7. CASE SaveSchema
  BY <1>0, <1>00, <1>7 DEF SaveSchema, OpenInv, At, CanonTyped, StartTyped, Go, Refuse, Saved, Off, File
<1>8. CASE Convert
  BY <1>0, <1>8, ConvertFields DEF OpenInv, At
<1>9. CASE NextSource
  BY <1>0, <1>9, NextFields DEF OpenInv, TakeInv, Takes, At
<1>10. CASE CopySource
  BY <1>0, <1>10, CopyFields DEF OpenInv, At
<1>11. CASE Image
  BY <1>0, <1>00, <1>11 DEF Image, OpenInv, At, CanonTyped, StartTyped, File
<1>12. CASE Merge
  BY <1>0, <1>12, MergeFields DEF OpenInv, At
<1>13. CASE MergeFails
  BY <1>0, <1>00, <1>13 DEF MergeFails, OpenInv, At, CanonTyped, StartTyped, Failed, File
<1>14. CASE EndImage
  BY <1>0, <1>00, <1>14 DEF EndImage, OpenInv, At, CanonTyped, StartTyped, Go
<1>15. CASE Discard
  BY <1>0, <1>15, DiscardFields DEF OpenInv, At
<1>16. CASE Record
  BY <1>0, <1>00, <1>16 DEF Record, OpenInv, At, CanonTyped, StartTyped, Go
<1>17. CASE Recorded
  BY <1>0, <1>00, <1>17 DEF Recorded, OpenInv, At, CanonTyped, StartTyped, Go
<1>18. CASE Repair
  BY <1>0, <1>00, <1>18 DEF Repair, OpenInv, At, CanonTyped, StartTyped, File
<1>19. CASE Stop
  BY <1>0, <1>00, <1>19 DEF Stop, OpenInv, At, CanonTyped, StartTyped, Off
<1>20. CASE Crash
  BY <1>0, <1>00, <1>20 DEF Crash, OpenInv, At, CanonTyped, StartTyped, Off
<1>21. CASE Touch
  <2>1. /\ File("schema", canon.facts) \in kept => File("schema", canon.facts) \in kept'
        /\ File("recovery", canon.facts \ canon.lost) \in kept
             => File("recovery", canon.facts \ canon.lost) \in kept'
    BY <1>21 DEF Touch, File
  <2>2. canon' = canon /\ start' = start /\ outside' > 0
    BY <1>0, <1>21 DEF Touch, FilesTyped
  <2> QED
    BY <1>0, <2>1, <2>2 DEF OpenInv, At
<1>22. CASE Damage
  BY <1>0, <1>00, <1>22 DEF Damage, FilesTyped, OpenInv, At, CanonTyped, StartTyped
<1>23. CASE RemoveFiles
  BY <1>0, <1>00, <1>23 DEF RemoveFiles, OpenInv, At, CanonTyped, StartTyped, NoCanon
<1> QED
  BY <1>1, <1>2, <1>3, <1>4, <1>5, <1>6, <1>7, <1>8, <1>9, <1>10, <1>11, <1>12, <1>13, <1>14, <1>15, <1>16, <1>17, <1>18, <1>19, <1>20, <1>21, <1>22, <1>23 DEF FilesNext, StartSteps

LEMMA TakeKeeps ==
    ASSUME FilesInv, FilesNext
    PROVE  TakeInv'
<1>0. FilesTyped /\ OpenInv /\ TakeInv /\ LeftInv
  BY DEF FilesInv
<1>00. CanonTyped /\ StartTyped
  BY DEF FilesInv, FilesTyped
<1>1. CASE StartSetup
  BY <1>0, <1>00, <1>1 DEF StartSetup, TakeInv, Takes, At, CanonTyped, StartTyped, Go
<1>2. CASE Look
  BY <1>0, <1>2, LookFields DEF TakeInv, Takes, At
<1>3. CASE Open
  <2>1. search => \A f \in Sources : f.kind # "recovery" \/ canon.is = "none"
    BY DEF Sources, Protected
  <2> QED
    BY <1>0, <1>3, <2>1, OpenFields DEF TakeInv, Takes
<1>4. CASE Create
  BY <1>0, <1>00, <1>4 DEF Create, TakeInv, Takes, At, CanonTyped, StartTyped, Go
<1>5. CASE Preserve
  BY <1>0, <1>00, <1>5 DEF Preserve, TakeInv, Takes, At, CanonTyped, StartTyped, Go, File
<1>6. CASE Publish
  BY <1>0, <1>00, <1>6 DEF Publish, TakeInv, Takes, At, CanonTyped, StartTyped, Go
<1>7. CASE SaveSchema
  BY <1>0, <1>00, <1>7 DEF SaveSchema, TakeInv, Takes, At, CanonTyped, StartTyped, Go, Refuse, Saved, Off, File
<1>8. CASE Convert
  BY <1>0, <1>8, ConvertFields DEF TakeInv, Takes, At
<1>9. CASE NextSource
  BY <1>0, <1>9, NextFields DEF TakeInv, Takes, At
<1>10. CASE CopySource
  BY <1>0, <1>10, CopyFields DEF TakeInv, Takes, At
<1>11. CASE Image
  BY <1>0, <1>00, <1>11 DEF Image, TakeInv, Takes, At, CanonTyped, StartTyped, File
<1>12. CASE Merge
  BY <1>0, <1>12, MergeFields DEF TakeInv, Takes, At
<1>13. CASE MergeFails
  BY <1>0, <1>00, <1>13 DEF MergeFails, TakeInv, Takes, At, CanonTyped, StartTyped, Failed, File
<1>14. CASE EndImage
  BY <1>0, <1>00, <1>14 DEF EndImage, TakeInv, Takes, At, CanonTyped, StartTyped, Go
<1>15. CASE Discard
  BY <1>0, <1>15, DiscardFields DEF TakeInv, Takes, At
<1>16. CASE Record
  BY <1>0, <1>00, <1>16 DEF Record, TakeInv, Takes, At, CanonTyped, StartTyped, Go
<1>17. CASE Recorded
  BY <1>0, <1>00, <1>17 DEF Recorded, TakeInv, Takes, At, CanonTyped, StartTyped, Go
<1>18. CASE Repair
  BY <1>0, <1>00, <1>18 DEF Repair, TakeInv, Takes, At, CanonTyped, StartTyped, File
<1>19. CASE Stop
  BY <1>0, <1>00, <1>19 DEF Stop, TakeInv, Takes, At, CanonTyped, StartTyped, Off
<1>20. CASE Crash
  BY <1>0, <1>00, <1>20 DEF Crash, TakeInv, Takes, At, CanonTyped, StartTyped, Off
<1>21. CASE Touch
  BY <1>0, <1>00, <1>21 DEF Touch, TakeInv, Takes, At, CanonTyped, StartTyped
<1>22. CASE Damage
  BY <1>0, <1>00, <1>22 DEF Damage, TakeInv, Takes, At, CanonTyped, StartTyped
<1>23. CASE RemoveFiles
  BY <1>0, <1>00, <1>23 DEF RemoveFiles, TakeInv, Takes, At, CanonTyped, StartTyped, NoCanon
<1> QED
  BY <1>1, <1>2, <1>3, <1>4, <1>5, <1>6, <1>7, <1>8, <1>9, <1>10, <1>11, <1>12, <1>13, <1>14, <1>15, <1>16, <1>17, <1>18, <1>19, <1>20, <1>21, <1>22, <1>23 DEF FilesNext, StartSteps

LEMMA LeftKeeps ==
    ASSUME FilesInv, FilesNext
    PROVE  LeftInv'
<1>0. FilesTyped /\ OpenInv /\ TakeInv /\ LeftInv
  BY DEF FilesInv
<1>00. CanonTyped /\ StartTyped
  BY DEF FilesInv, FilesTyped
<1>1. CASE StartSetup
  BY <1>0, <1>00, <1>1 DEF StartSetup, LeftInv, Beside, Takes, At, CanonTyped, StartTyped, Go
<1>2. CASE Look
  <2>1. ASSUME start'.pc = "opening", ~start'.adopt, NEW f \in kept PROVE Beside(f)
    <3>1. Sources = {} /\ ~canon.hot /\ ~(canon.is # "none" /\ canon.is = "empty")
      BY <1>0, <1>2, <2>1, LookFields
    <3>2. Protected(f)
      BY <3>1 DEF Sources
    <3> QED
      BY <3>1, <3>2 DEF Protected, Beside
  <2> QED
    BY <1>0, <1>2, <2>1, LookFields DEF LeftInv, Beside, Takes
<1>3. CASE Open
  <2>1. ASSUME canon.is = "db", ~canon.hot, NEW f \in kept, f \notin Sources PROVE Beside(f)
    BY <2>1 DEF Sources, Protected, Beside
  <2> QED
    BY <1>0, <1>3, <2>1, OpenFields DEF LeftInv, Beside, Takes, At
<1>4. CASE Create
  BY <1>0, <1>00, <1>4 DEF Create, LeftInv, Beside, Takes, At, CanonTyped, StartTyped, Go
<1>5. CASE Preserve
  BY <1>0, <1>00, <1>5 DEF Preserve, LeftInv, Beside, Takes, At, CanonTyped, StartTyped, Go, File
<1>6. CASE Publish
  BY <1>0, <1>00, <1>6 DEF OpenInv, Publish, LeftInv, Beside, Takes, At, CanonTyped, StartTyped, Go
<1>7. CASE SaveSchema
  BY <1>0, <1>00, <1>7 DEF SaveSchema, LeftInv, Beside, Takes, At, CanonTyped, StartTyped, Go, Refuse, Saved, Off, File
<1>8. CASE Convert
  BY <1>0, <1>8, ConvertFields DEF OpenInv, LeftInv, Beside, Takes, At
<1>9. CASE NextSource
  BY <1>0, <1>9, NextFields DEF LeftInv, Beside, Takes, At
<1>10. CASE CopySource
  BY <1>0, <1>10, CopyFields DEF LeftInv, Beside, Takes, At
<1>11. CASE Image
  BY <1>0, <1>00, <1>11 DEF Image, LeftInv, Beside, Takes, At, CanonTyped, StartTyped, File
<1>12. CASE Merge
  BY <1>0, <1>12, MergeFields DEF LeftInv, Beside, Takes, At
<1>13. CASE MergeFails
  BY <1>0, <1>00, <1>13 DEF MergeFails, LeftInv, Beside, Takes, At, CanonTyped, StartTyped, Failed, File
<1>14. CASE EndImage
  BY <1>0, <1>00, <1>14 DEF EndImage, LeftInv, Beside, Takes, At, CanonTyped, StartTyped, Go
<1>15. CASE Discard
  BY <1>0, <1>15, DiscardFields DEF LeftInv, Beside, Takes, At
<1>16. CASE Record
  BY <1>0, <1>00, <1>16 DEF Record, LeftInv, Beside, Takes, At, CanonTyped, StartTyped, Go
<1>17. CASE Recorded
  BY <1>0, <1>00, <1>17 DEF Recorded, LeftInv, Beside, Takes, At, CanonTyped, StartTyped, Go
<1>18. CASE Repair
  BY <1>0, <1>00, <1>18 DEF Repair, LeftInv, Beside, Takes, At, CanonTyped, StartTyped, File
<1>19. CASE Stop
  BY <1>0, <1>00, <1>19 DEF Stop, LeftInv, Beside, Takes, At, CanonTyped, StartTyped, Off
<1>20. CASE Crash
  BY <1>0, <1>00, <1>20 DEF Crash, LeftInv, Beside, Takes, At, CanonTyped, StartTyped, Off
<1>21. CASE Touch
  BY <1>0, <1>00, <1>21 DEF Touch, FilesTyped, LeftInv, Beside, Takes, At, CanonTyped, StartTyped
<1>22. CASE Damage
  BY <1>0, <1>00, <1>22 DEF Damage, FilesTyped, LeftInv, Beside, Takes, At, CanonTyped, StartTyped
<1>23. CASE RemoveFiles
  BY <1>0, <1>00, <1>23 DEF RemoveFiles, LeftInv, Beside, Takes, At, CanonTyped, StartTyped, NoCanon
<1> QED
  BY <1>1, <1>2, <1>3, <1>4, <1>5, <1>6, <1>7, <1>8, <1>9, <1>10, <1>11, <1>12, <1>13, <1>14, <1>15, <1>16, <1>17, <1>18, <1>19, <1>20, <1>21, <1>22, <1>23 DEF FilesNext, StartSteps

LEMMA FilesInvariant == FilesSafe => []FilesInv
<1>1. FilesInit => FilesInv
  <2> SUFFICES ASSUME FilesInit PROVE FilesInv
    OBVIOUS
  <2>1. start.pc = "off"
    BY DEF FilesInit, Off
  <2>2. (canon.is = "none" => ~canon.old) /\ canon.lost = {}
    BY DEF FilesInit, NoCanon
  <2> QED
    BY <2>1, <2>2, TypesStart DEF FilesInv, OpenInv, TakeInv, LeftInv, At, Takes
<1>2. FilesInv /\ [FilesNext]_fileVars => FilesInv'
  <2> SUFFICES ASSUME FilesInv, [FilesNext]_fileVars PROVE FilesInv'
    OBVIOUS
  <2>1. CASE FilesNext
    BY <2>1, TypesKeep, OpenKeeps, TakeKeeps, LeftKeeps DEF FilesInv
  <2>2. CASE UNCHANGED fileVars
    BY <2>2 DEF fileVars, FilesInv, FilesTyped, CanonTyped, StartTyped, OpenInv, TakeInv, LeftInv, Beside, At
  <2> QED
    BY <2>1, <2>2
<1> QED
  BY <1>1, <1>2, PTL DEF FilesSafe

\* A start that reports no leftovers has left none, wherever earlier starts were cut off: all that
\* lies beside the archive is in it, or is the image of a repair (async_prepare_account), for any
\* originals and any files older versions left.
THEOREM AdoptionsAreWhole == FilesSafe => []AdoptionIsWhole
<1>1. FilesInv => AdoptionIsWhole
  BY DEF FilesInv, LeftInv, AdoptionIsWhole, Beside, Protected, At
<1> QED
  BY <1>1, FilesInvariant, PTL

\* Nothing that can be read goes.
LEMMA HeldGrows ==
    ASSUME FilesInv, StartSteps \/ Crash
    PROVE  Held \subseteq Held'
<1> USE DEF FilesTyped, CanonTyped, StartTyped
<1>0. FilesTyped /\ OpenInv /\ TakeInv /\ LeftInv
  BY DEF FilesInv
<1>1. ASSUME canon.facts \ canon.lost \subseteq canon'.facts \ canon'.lost,
             \A f \in kept \ kept' : f.ok => f.facts \subseteq canon'.facts \ canon'.lost
      PROVE  Held \subseteq Held'
  BY <1>1 DEF Held
<1>2. CASE kept \subseteq kept' /\ canon'.facts = canon.facts /\ canon'.lost \in {canon.lost, {}}
  BY <1>1, <1>2
<1>3. CASE Look
  BY <1>0, <1>2, <1>3 DEF Look, Saved
<1>4. CASE Open
  BY <1>0, <1>2, <1>4, OpenFields
<1>5. CASE Create
  BY <1>0, <1>2, <1>5 DEF Create, Saved
<1>6. CASE Preserve
  BY <1>0, <1>2, <1>6 DEF Preserve, Saved
<1>7. CASE Publish
  BY <1>0, <1>2, <1>7 DEF Publish, Saved
<1>8. CASE SaveSchema
  BY <1>0, <1>2, <1>8 DEF SaveSchema, Saved
<1>9. CASE Convert
  BY <1>0, <1>2, <1>9, ConvertFields
<1>10. CASE NextSource
  BY <1>0, <1>2, <1>10 DEF NextSource, Saved
<1>11. CASE CopySource
  BY <1>0, <1>2, <1>11 DEF CopySource, Saved
<1>12. CASE Image
  BY <1>0, <1>2, <1>12 DEF Image, Saved
<1>13. CASE Merge
  <2>1. kept' = kept /\ canon.facts \subseteq canon'.facts /\ canon'.lost = canon.lost
    BY <1>0, <1>13, MergeFields
  <2> QED
    BY <1>1, <2>1
<1>14. CASE MergeFails
  <2>1. kept \ kept' \subseteq {start.image} /\ canon'.lost = canon.lost /\ canon'.facts = canon.facts
    BY <1>0, <1>14 DEF MergeFails
  <2>2. canon.lost = {} /\ start.image.facts \subseteq canon.facts
    BY <1>0, <1>14 DEF MergeFails, TakeInv, Takes, At
  <2> QED
    BY <1>1, <2>1, <2>2
<1>15. CASE EndImage
  <2>1. kept \ kept' \subseteq {start.image} /\ canon'.lost = canon.lost /\ canon'.facts = canon.facts
    BY <1>0, <1>15 DEF EndImage
  <2>2. canon.lost = {} /\ start.image.facts \subseteq canon.facts
    BY <1>0, <1>15 DEF EndImage, TakeInv, Takes, At
  <2> QED
    BY <1>1, <2>1, <2>2
<1>16. CASE Discard
  <2>1. kept \ kept' \subseteq {start.src} /\ canon' = canon
    BY <1>0, <1>16, DiscardFields
  <2>2. canon.lost = {} /\ start.src.facts \subseteq canon.facts
    BY <1>0, <1>16, DiscardFields DEF TakeInv, Takes, At
  <2> QED
    BY <1>1, <2>1, <2>2
<1>17. CASE Crash
  BY <1>0, <1>2, <1>17 DEF Crash, Saved
<1> QED
  BY <1>3, <1>4, <1>5, <1>6, <1>7, <1>8, <1>9, <1>10, <1>11, <1>12, <1>13, <1>14, <1>15, <1>16, <1>17 DEF StartSteps

LEMMA CopiesStay ==
    ASSUME FilesInv, [FilesNext]_fileVars
    PROVE  /\ canon.old /\ canon.is = "db" /\ ~canon'.old /\ canon'.is = "db" =>
                 File("schema", canon.facts) \in kept'
           /\ Publish => File("recovery", canon.facts \ canon.lost) \in kept'
           /\ search /\ Discard => {f \in kept : f.kind = "recovery"} \subseteq kept'
<1> USE DEF FilesTyped, CanonTyped, StartTyped
<1>0. FilesTyped /\ OpenInv /\ TakeInv /\ LeftInv
  BY DEF FilesInv
<1>1. Convert => File("schema", canon.facts) \in kept'
  <2>1. Convert => kept' = kept /\ At("converting")
    BY DEF Convert
  <2> QED
    BY <1>0, <2>1 DEF OpenInv
<1>2. Publish => File("recovery", canon.facts \ canon.lost) \in kept'
  BY <1>0 DEF Publish, OpenInv
<1>3. search /\ Discard => {f \in kept : f.kind = "recovery"} \subseteq kept'
  BY <1>0 DEF Discard, Unchanged, TakeInv, Takes, At
<1>4. canon.old /\ canon.is = "db" /\ ~canon'.old /\ canon'.is = "db" => Convert
  <2> SUFFICES ASSUME canon.old, ~canon'.old, canon'.is = "db" PROVE Convert
    OBVIOUS
  <2>1. canon' # canon /\ canon' # NoCanon
    BY DEF NoCanon
  <2>2. ~Open
    BY <1>0, OpenCases
  <2> QED
    BY <1>0, <2>1, <2>2 DEF FilesNext, StartSteps, fileVars, StartSetup, Look, Create, Preserve, Publish,
       SaveSchema, NextSource, CopySource, Image, Merge, MergeFails, EndImage, Discard, Record, Recorded,
       Repair, Stop, Crash, Touch, Damage, RemoveFiles
<1> QED
  BY <1>1, <1>2, <1>3, <1>4

\* No step of a start, and no crash within one, costs an original or the copy that would restore it:
\* what goes is in the archive, an archive is converted or replaced only beside a copy of what it
\* was, and a running repair keeps its rollback point (_discard, merge, _migrate, recover,
\* _sources), for any originals and any files older versions left.
THEOREM OriginalsAreKept == FilesSafe => StartsKeepOriginals
<1>1. FilesInv /\ [FilesNext]_fileVars => [StartSteps \/ Crash => Held \subseteq Held']_fileVars
  BY HeldGrows
<1>2. FilesInv /\ [FilesNext]_fileVars
        => [/\ canon.old /\ canon.is = "db" /\ ~canon'.old /\ canon'.is = "db" =>
                 File("schema", canon.facts) \in kept'
            /\ Publish => File("recovery", canon.facts \ canon.lost) \in kept'
            /\ search /\ Discard => {f \in kept : f.kind = "recovery"} \subseteq kept']_fileVars
  BY CopiesStay
<1>3. FilesSafe => NothingIsLost
  BY <1>1, FilesInvariant, PTL DEF FilesSafe, NothingIsLost
<1>4. FilesSafe => OriginalsSurvive
  BY <1>2, FilesInvariant, PTL DEF FilesSafe, OriginalsSurvive
<1> QED
  BY <1>3, <1>4 DEF StartsKeepOriginals

----------------------------------------------------------------------------
\* Names of observations: 0 for none, 1 for the ledger.
Names == {0, 1} \union UNION {Times[s] : s \in Stores}
MonthRecords == [at : Names, ids : SUBSET Trips, complete : BOOLEAN, src : Names]
TripRecords == [at : Names, value : Names]
DetailRecords == [latest : Names, geometry : Names, at : Names]
Links == Periods \X Trips
Tracks == Trips \X Names
Things == ({"detail"} \X Trips \X Names) \union ({"month"} \X Periods \X Names)
Archives ==
    [months : [Periods -> MonthRecords], rides : [Trips -> TripRecords],
     member : SUBSET Links, latest : SUBSET Links, details : [Trips -> DetailRecords],
     payloads : SUBSET Tracks, evidence : SUBSET Things, imported : BOOLEAN]

Marked(a, m) == {r \in Trips : <<m, r>> \in a.latest}
MarksFit(a) ==
    \A m \in Periods : Marked(a, m) \subseteq a.months[m].ids
                       /\ (a.months[m].complete => Marked(a, m) = a.months[m].ids)

\* Nothing refers to a month or a detail the archive does not have.
Rooted(a) ==
    /\ \A m \in Periods : a.months[m].at = 0 => a.months[m] = NoMonth
    /\ \A x \in a.member : a.months[x[1]].at # 0
    /\ \A r \in Trips : IF a.details[r].latest = 0 THEN a.details[r] = NoDetail
                        ELSE a.rides[r].at # 0 /\ a.details[r].geometry # 0

Sound(a) == a \in Archives /\ MarksFit(a) /\ Rooted(a) /\ Consistent(a)

\* The rides a reader was given are those selected up to the last of them.
UpTo(r, after, order) == IF order = "asc" THEN r <= after ELSE r >= after
WalkInv ==
    /\ walk \in [on : BOOLEAN, order : {"asc", "desc"}, seen : SUBSET Trips, after : Trips \union {0},
                 valid : BOOLEAN, done : BOOLEAN]
    /\ walk.after = 0 => walk.seen = {}
    /\ walk.after # 0 /\ walk.valid =>
          walk.seen = {r \in Selection(store[1]) : UpTo(r, walk.after, walk.order)}

StoreInv ==
    /\ store = [s \in Stores |-> store[s]] /\ \A s \in Stores : Sound(store[s])
    /\ unused \subseteq UNION {Times[s] : s \in Stores}
    /\ WalkInv

\* A later state of an archive has no older receipt, no worse track and no fact less.
Better(a, b) ==
    /\ \A r \in Trips :
          /\ a.rides[r].at <= b.rides[r].at /\ (a.rides[r].value # 0 => b.rides[r].value # 0)
          /\ a.details[r].at <= b.details[r].at
          /\ a.details[r].geometry # 0 => Quality[a.details[r].geometry] <= Quality[b.details[r].geometry]
    /\ \A m \in Periods : a.months[m].at <= b.months[m].at

\* Names are numbers, those of receipts not 0, and each has a track of some quality.
LEMMA NamesAre ==
    /\ 0 \in Names /\ 1 \in Names /\ Names \subseteq Nat
    /\ \A s \in Stores : Times[s] \subseteq Names /\ \A t \in Times[s] : t # 0
    /\ \A t \in Names \ {0} : Quality[t] \in 0..2
BY RideStoreAssumption DEF Names

\* Rows that are not there yet.
LEMMA RowsAre ==
    /\ NoMonth \in MonthRecords /\ NoTrip \in TripRecords /\ NoDetail \in DetailRecords
    /\ NoMonth.at = 0 /\ NoMonth.ids = {} /\ ~NoMonth.complete /\ NoMonth.src = 0
    /\ NoTrip.at = 0 /\ NoDetail.latest = 0 /\ NoDetail.geometry = 0 /\ NoDetail.at = 0
BY NamesAre DEF NoMonth, NoTrip, NoDetail, MonthRecords, TripRecords, DetailRecords

\* The fields of an archive.
LEMMA FieldsAre ==
    ASSUME NEW a \in Archives
    PROVE  /\ a.months \in [Periods -> MonthRecords] /\ a.rides \in [Trips -> TripRecords]
           /\ a.details \in [Trips -> DetailRecords] /\ a.member \subseteq Links
           /\ a.latest \subseteq Links /\ a.payloads \subseteq Tracks
           /\ a.imported \in BOOLEAN /\ a.evidence \subseteq Things
           /\ \A m \in Periods : /\ a.months[m] \in MonthRecords /\ a.months[m].at \in Nat
                                 /\ a.months[m].ids \subseteq Trips
           /\ \A r \in Trips : /\ a.rides[r] \in TripRecords /\ a.rides[r].at \in Nat
                               /\ a.details[r] \in DetailRecords /\ a.details[r].at \in Nat
                               /\ a.details[r].latest \in Names /\ a.details[r].geometry \in Names
<1>1. /\ a.months \in [Periods -> MonthRecords] /\ a.rides \in [Trips -> TripRecords]
      /\ a.details \in [Trips -> DetailRecords] /\ a.member \subseteq Links
      /\ a.latest \subseteq Links /\ a.payloads \subseteq Tracks
      /\ a.imported \in BOOLEAN /\ a.evidence \subseteq Things
  BY DEF Archives
<1>2. \A m \in Periods : a.months[m] \in MonthRecords
  BY <1>1
<1>3. \A r \in Trips : a.rides[r] \in TripRecords /\ a.details[r] \in DetailRecords
  BY <1>1
<1>4. \A m \in Periods : a.months[m].at \in Nat /\ a.months[m].ids \subseteq Trips
  BY <1>2, NamesAre DEF MonthRecords
<1>5. \A r \in Trips : /\ a.rides[r].at \in Nat /\ a.details[r].at \in Nat
                      /\ a.details[r].latest \in Names /\ a.details[r].geometry \in Names
  BY <1>3, NamesAre DEF TripRecords, DetailRecords
<1> QED
  BY <1>1, <1>2, <1>3, <1>4, <1>5

\* A ride's row gets no older and loses no fact (_upsert_ride).
LEMMA UpsertedDoes ==
    ASSUME NEW row \in TripRecords, NEW t \in Names \ {0}, NEW value \in Names
    PROVE  /\ Upserted(row, t, value) \in TripRecords
           /\ Upserted(row, t, value).at >= row.at /\ Upserted(row, t, value).at # 0
           /\ row.value # 0 => Upserted(row, t, value).value # 0
<1>1. /\ row.at \in Nat /\ row.at \in Names /\ row.value \in Names /\ t \in Nat /\ t # 0 /\ t \in Names
  BY NamesAre DEF TripRecords
<1>2. Merged(row.value, value) \in Names /\ (row.value # 0 => Merged(row.value, value) # 0)
  BY <1>1 DEF Merged
<1>3. CASE row.at > t
  <2>1. Upserted(row, t, value) = row
    BY <1>3 DEF Upserted, Outdated
  <2> QED
    BY <1>1, <1>3, <2>1
<1>4. CASE ~(row.at > t)
  <2>1. Upserted(row, t, value) = [at |-> t, value |-> Merged(row.value, value)]
    BY <1>4 DEF Upserted, Outdated
  <2> QED
    BY <1>1, <1>2, <1>4, <2>1 DEF TripRecords
<1> QED
  BY <1>3, <1>4

\* Enough for an archive to be no worse, where no detail changes.
LEMMA BetterIs ==
    ASSUME NEW a \in Archives, NEW b \in Archives,
           \A r \in Trips : a.rides[r].at <= b.rides[r].at /\ (a.rides[r].value # 0 => b.rides[r].value # 0),
           \A m \in Periods : a.months[m].at <= b.months[m].at, a.details = b.details
    PROVE  Better(a, b)
<1>1. ASSUME NEW r \in Trips
      PROVE  /\ a.details[r].at <= b.details[r].at
             /\ a.details[r].geometry # 0 => Quality[a.details[r].geometry] <= Quality[b.details[r].geometry]
  <2>1. a.details[r].at \in Nat /\ a.details[r].geometry \in Names
    BY FieldsAre
  <2> DEFINE g == a.details[r].geometry
  <2>2. a.details[r].at \in Int /\ (g # 0 => Quality[g] \in Int)
    <3>1. g \in Names
      BY <2>1
    <3> HIDE DEF g
    <3>2. g # 0 => Quality[g] \in 0..2
      BY <3>1, NamesAre
    <3> QED
      BY <2>1, <3>2
  <2> QED
    BY <2>2
<1> QED
  BY <1>1 DEF Better

\* An archive after the list of a month was replaced.
MonthOf(a, m, t, ids, value, complete, src) ==
    [a EXCEPT !.months[m] = [at |-> t, ids |-> ids, complete |-> complete, src |-> src],
              !.rides = [r \in Trips |-> IF r \in ids THEN Upserted(a.rides[r], t, value) ELSE a.rides[r]],
              !.member = @ \union ({m} \X ids),
              !.latest = Relisted(a, m, ids)]

\* A list that is not outdated becomes the month's, and its rides are marked (_record_month).
LEMMA MonthIsSound ==
    ASSUME NEW a, Sound(a), NEW m \in Periods, NEW t \in Names \ {0}, NEW ids \in SUBSET Trips,
           NEW value \in Names, NEW complete \in BOOLEAN, NEW src \in Names, ~Outdated(a.months[m].at, t)
    PROVE  LET b == MonthOf(a, m, t, ids, value, complete, src) IN Sound(b) /\ Better(a, b)
<1> DEFINE b == MonthOf(a, m, t, ids, value, complete, src)
           row == [at |-> t, ids |-> ids, complete |-> complete, src |-> src]
           rides == [r \in Trips |-> IF r \in ids THEN Upserted(a.rides[r], t, value) ELSE a.rides[r]]
<1>1. a \in Archives /\ MarksFit(a) /\ Rooted(a) /\ Consistent(a)
  BY DEF Sound
<1>2. row \in MonthRecords /\ row.at = t /\ row.ids = ids
  BY DEF MonthRecords
<1>3. ASSUME NEW r \in Trips
      PROVE  /\ rides[r] \in TripRecords /\ rides[r].at >= a.rides[r].at /\ (r \in ids => rides[r].at # 0)
             /\ a.rides[r].value # 0 => rides[r].value # 0
  <2>1. a.rides[r] \in TripRecords
    BY <1>1, FieldsAre
  <2>2. CASE r \in ids
    BY <2>1, <2>2, UpsertedDoes
  <2>3. CASE r \notin ids
    BY <2>1, <2>3, NamesAre DEF TripRecords
  <2> QED
    BY <2>2, <2>3
<1>4. rides \in [Trips -> TripRecords]
  <2>1. rides = [r \in Trips |-> rides[r]]
    OBVIOUS
  <2> HIDE DEF rides
  <2> QED
    BY <1>3, <2>1
<1>5. b = [a EXCEPT !.months = [a.months EXCEPT ![m] = row], !.rides = rides,
                    !.member = a.member \union ({m} \X ids), !.latest = Relisted(a, m, ids)]
  BY <1>1, FieldsAre DEF Archives, MonthOf
<1> HIDE DEF row, rides, b
<1>6. Relisted(a, m, ids) = {x \in a.latest : x[1] # m} \union ({m} \X ids)
  BY DEF Relisted
<1>7. /\ [a.months EXCEPT ![m] = row] \in [Periods -> MonthRecords]
      /\ a.member \union ({m} \X ids) \subseteq Links
      /\ Relisted(a, m, ids) \subseteq Links
  <2>1. {m} \X ids \subseteq Links
    BY DEF Links
  <2> QED
    BY <1>1, <1>2, <1>6, <2>1, FieldsAre
<1>8. /\ b \in Archives /\ b.months = [a.months EXCEPT ![m] = row] /\ b.rides = rides
      /\ b.member = a.member \union ({m} \X ids) /\ b.latest = Relisted(a, m, ids)
      /\ b.details = a.details /\ b.payloads = a.payloads
  <2> DEFINE months == [a.months EXCEPT ![m] = row]
             member == a.member \union ({m} \X ids)
             latest == Relisted(a, m, ids)
  <2>1. /\ a \in Archives /\ months \in [Periods -> MonthRecords] /\ rides \in [Trips -> TripRecords]
        /\ member \in SUBSET Links /\ latest \in SUBSET Links
        /\ b = [a EXCEPT !.months = months, !.rides = rides, !.member = member, !.latest = latest]
    BY <1>1, <1>4, <1>5, <1>7
  <2> HIDE DEF months, member, latest
  <2>2. /\ b \in Archives /\ b.months = months /\ b.rides = rides /\ b.member = member /\ b.latest = latest
        /\ b.details = a.details /\ b.payloads = a.payloads
    BY <2>1 DEF Archives
  <2> QED
    BY <2>2 DEF months, member, latest
<1>9. b.months[m] = row /\ \A n \in Periods \ {m} : b.months[n] = a.months[n]
  BY <1>1, <1>8, FieldsAre
<1>10. MarksFit(b)
  <2>1. ASSUME NEW n \in Periods \ {m} PROVE Marked(b, n) = Marked(a, n)
    BY <1>6, <1>8 DEF Marked
  <2>2. Marked(b, m) = ids
    BY <1>6, <1>8 DEF Marked
  <2>3. ASSUME NEW n \in Periods
        PROVE  Marked(b, n) \subseteq b.months[n].ids /\ (b.months[n].complete => Marked(b, n) = b.months[n].ids)
    <3>1. CASE n = m
      BY <1>2, <1>9, <2>2, <3>1
    <3>2. CASE n # m
      BY <1>1, <1>9, <2>1, <3>2 DEF MarksFit
    <3> QED
      BY <3>1, <3>2
  <2> QED
    BY <2>3 DEF MarksFit
<1>11. Rooted(b)
  <2>1. \A n \in Periods : b.months[n].at = 0 => b.months[n] = NoMonth
    BY <1>1, <1>2, <1>9 DEF Rooted
  <2>2. ASSUME NEW x \in b.member PROVE b.months[x[1]].at # 0
    <3>1. CASE x[1] = m
      BY <1>2, <1>9, <3>1
    <3>2. CASE x[1] # m
      <4>1. x \in a.member /\ x[1] \in Periods
        BY <1>1, <1>8, <2>2, <3>2, FieldsAre DEF Links
      <4> QED
        BY <1>1, <1>9, <3>2, <4>1 DEF Rooted
    <3> QED
      BY <3>1, <3>2
  <2>3. ASSUME NEW r \in Trips, a.rides[r].at # 0 PROVE b.rides[r].at # 0
    <3>1. a.rides[r].at \in Nat /\ b.rides[r].at \in Nat /\ b.rides[r].at >= a.rides[r].at
      BY <1>1, <1>3, <1>8, FieldsAre
    <3> QED
      BY <2>3, <3>1
  <2>4. \A r \in Trips : IF b.details[r].latest = 0 THEN b.details[r] = NoDetail
                         ELSE b.rides[r].at # 0 /\ b.details[r].geometry # 0
    BY <1>1, <1>8, <2>3 DEF Rooted
  <2> QED
    BY <2>1, <2>2, <2>4 DEF Rooted
<1>12. Consistent(b)
  <2>1. ASSUME NEW x \in b.member PROVE b.rides[x[2]].at # 0
    <3>1. x[2] \in Trips
      BY <1>1, <1>8, <2>1, FieldsAre DEF Links
    <3>2. CASE x \in a.member
      <4>1. a.rides[x[2]].at # 0 /\ a.rides[x[2]].at \in Nat /\ b.rides[x[2]].at \in Nat
            /\ b.rides[x[2]].at >= a.rides[x[2]].at
        BY <1>1, <1>3, <1>8, <3>1, <3>2, FieldsAre DEF Consistent
      <4> QED
        BY <4>1
    <3>3. CASE x \in {m} \X ids
      BY <1>3, <1>8, <3>1, <3>3
    <3> QED
      BY <1>8, <2>1, <3>2, <3>3
  <2>2. b.latest \subseteq b.member
    BY <1>1, <1>6, <1>8 DEF Consistent
  <2> QED
    BY <1>1, <1>8, <2>1, <2>2 DEF Consistent
<1>13. Better(a, b)
  <2>1. \A n \in Periods : a.months[n].at <= b.months[n].at
    <3>1. t \in Nat /\ a.months[m].at <= t
      <4>1. t \in Nat /\ a.months[m].at \in Nat
        BY <1>1, FieldsAre, NamesAre
      <4> QED
        BY <4>1 DEF Outdated
    <3> QED
      BY <1>1, <1>2, <1>9, <3>1, FieldsAre
  <2>2. \A r \in Trips : a.rides[r].at <= b.rides[r].at /\ (a.rides[r].value # 0 => b.rides[r].value # 0)
    <3> TAKE r \in Trips
    <3>1. a.rides[r].at \in Nat /\ b.rides[r].at \in Nat
      BY <1>1, <1>8, FieldsAre
    <3> QED
      BY <1>3, <1>8, <3>1
  <2> QED
    BY <1>1, <1>8, <2>1, <2>2, BetterIs
<1> QED
  BY <1>8, <1>10, <1>11, <1>12, <1>13 DEF Sound, b

\* The selected track is one of the two and no worse than the one there was (select_geometry).
LEMMA TrackDoes ==
    ASSUME NEW old \in Names, NEW new \in Names \ {0}
    PROVE  LET g == IF Adopt(old, new) THEN new ELSE old
           IN  g \in Names \ {0} /\ (old # 0 => Quality[old] <= Quality[g]) /\ g \in {old, new}
<1>1. Quality[new] \in Int /\ (old # 0 => Quality[old] \in Int)
  BY NamesAre
<1> QED
  BY <1>1 DEF Adopt

\* Two writes that make nothing worse make nothing worse together.
LEMMA BetterTwice ==
    ASSUME NEW a \in Archives, NEW b \in Archives, NEW c \in Archives, Better(a, b), Better(b, c),
           \A r \in Trips : a.details[r].geometry # 0 => b.details[r].geometry # 0,
           \A r \in Trips : b.details[r].geometry # 0 => c.details[r].geometry # 0
    PROVE  Better(a, c)
<1>1. ASSUME NEW r \in Trips
      PROVE  /\ a.rides[r].at <= c.rides[r].at /\ (a.rides[r].value # 0 => c.rides[r].value # 0)
             /\ a.details[r].at <= c.details[r].at
  <2>1. /\ a.rides[r].at \in Nat /\ b.rides[r].at \in Nat /\ c.rides[r].at \in Nat
        /\ a.details[r].at \in Nat /\ b.details[r].at \in Nat /\ c.details[r].at \in Nat
    BY FieldsAre
  <2> QED
    BY <2>1 DEF Better
<1>2. ASSUME NEW r \in Trips, a.details[r].geometry # 0
      PROVE  Quality[a.details[r].geometry] <= Quality[c.details[r].geometry]
  <2> DEFINE x == a.details[r].geometry
             y == b.details[r].geometry
             z == c.details[r].geometry
  <2>1. x \in Names \ {0} /\ y \in Names \ {0} /\ z \in Names \ {0}
    BY <1>2, FieldsAre
  <2>2. Quality[x] <= Quality[y] /\ Quality[y] <= Quality[z]
    BY <2>1 DEF Better
  <2> HIDE DEF x, y, z
  <2>3. Quality[x] \in 0..2 /\ Quality[y] \in 0..2 /\ Quality[z] \in 0..2
    BY <2>1, NamesAre
  <2>4. Quality[x] <= Quality[z]
    BY <2>2, <2>3
  <2> QED
    BY <2>4 DEF x, z
<1>3. ASSUME NEW m \in Periods PROVE a.months[m].at <= c.months[m].at
  <2>1. a.months[m].at \in Nat /\ b.months[m].at \in Nat /\ c.months[m].at \in Nat
    BY FieldsAre
  <2> QED
    BY <2>1 DEF Better
<1> QED
  BY <1>1, <1>2, <1>3 DEF Better

\* Rides that only get newer disturb nothing.
LEMMA RidesAreSound ==
    ASSUME NEW a, Sound(a), NEW b \in Archives, b.months = a.months, b.member = a.member, b.latest = a.latest,
           b.details = a.details, b.payloads = a.payloads,
           \A r \in Trips : a.rides[r].at <= b.rides[r].at /\ (a.rides[r].value # 0 => b.rides[r].value # 0)
    PROVE  Sound(b) /\ Better(a, b)
<1>1. a \in Archives /\ MarksFit(a) /\ Rooted(a) /\ Consistent(a)
  BY DEF Sound
<1>2. ASSUME NEW r \in Trips, a.rides[r].at # 0 PROVE b.rides[r].at # 0
  <2>1. a.rides[r].at \in Nat /\ b.rides[r].at \in Nat
    BY <1>1, FieldsAre
  <2> QED
    BY <1>2, <2>1
<1>3. MarksFit(b)
  BY <1>1 DEF MarksFit, Marked
<1>4. Rooted(b)
  BY <1>1, <1>2 DEF Rooted
<1>5. Consistent(b)
  <2>1. \A x \in a.member : x[2] \in Trips
    BY <1>1, FieldsAre DEF Links
  <2> QED
    BY <1>1, <1>2, <2>1 DEF Consistent
<1>6. Better(a, b)
  <2>1. \A m \in Periods : a.months[m].at <= b.months[m].at
    BY <1>1, FieldsAre
  <2> QED
    BY <1>1, <2>1, BetterIs
<1> QED
  BY <1>3, <1>4, <1>5, <1>6 DEF Sound

\* A detail that is not outdated becomes the latest one, and its track is taken if it is no worse.
LEMMA DetailIsSound ==
    ASSUME NEW a, Sound(a), NEW r \in Trips, a.rides[r].at # 0, NEW t \in Names \ {0}
    PROVE  /\ Sound(WithDetail(a, r, t)) /\ Better(a, WithDetail(a, r, t))
           /\ \A q \in Trips : a.details[q].geometry # 0 => WithDetail(a, r, t).details[q].geometry # 0
<1>1. a \in Archives /\ MarksFit(a) /\ Rooted(a) /\ Consistent(a)
  BY DEF Sound
<1> DEFINE old == a.details[r]
           geometry == IF Adopt(old.geometry, t) THEN t ELSE old.geometry
           row == [latest |-> t, geometry |-> geometry, at |-> t]
           details == [a.details EXCEPT ![r] = row]
           payloads == {p \in a.payloads : p[1] # r \/ p[2] = geometry} \union {<<r, t>>}
<1>2. /\ geometry \in Names \ {0} /\ geometry \in {old.geometry, t}
      /\ (old.geometry # 0 => Quality[old.geometry] <= Quality[geometry])
  <2>1. old.geometry \in Names
    BY <1>1, FieldsAre
  <2> QED
    BY <2>1, TrackDoes
<1>3. CASE Outdated(old.at, t)
  <2>1. WithDetail(a, r, t) = a
    BY <1>3 DEF WithDetail
  <2>2. Better(a, a)
    <3>1. /\ \A q \in Trips : a.rides[q].at <= a.rides[q].at
          /\ \A m \in Periods : a.months[m].at <= a.months[m].at
      BY <1>1, FieldsAre
    <3> QED
      BY <1>1, <3>1, BetterIs
  <2> QED
    BY <2>1, <2>2
<1>4. CASE ~Outdated(old.at, t)
  <2> DEFINE b == WithDetail(a, r, t)
  <2>1. b = [a EXCEPT !.details = details, !.payloads = payloads]
    <3>1. b = [a EXCEPT !.details[r] = row, !.payloads = {p \in @ : p[1] # r \/ p[2] = geometry} \union {<<r, t>>}]
      BY <1>4 DEF WithDetail
    <3> HIDE DEF row, geometry, b
    <3> QED
      BY <1>1, <3>1 DEF Archives
  <2>2. row \in DetailRecords /\ row.latest = t /\ row.geometry = geometry /\ row.at = t
    BY <1>2 DEF DetailRecords
  <2> HIDE DEF row
  <2>3. details \in [Trips -> DetailRecords] /\ payloads \in SUBSET Tracks
    BY <1>1, <2>2, FieldsAre DEF Tracks
  <2>4. details[r] = row /\ \A q \in Trips \ {r} : details[q] = a.details[q]
    BY <1>1, FieldsAre
  <2>5. /\ <<r, t>> \in payloads
        /\ old.latest # 0 => <<r, geometry>> \in payloads
        /\ \A p \in a.payloads : p[1] # r => p \in payloads
    <3>1. old.latest # 0 => <<r, old.geometry>> \in a.payloads
      BY <1>1 DEF Consistent
    <3> QED
      BY <1>2, <3>1
  <2>6. old.latest = 0 => geometry = t
    BY <1>1, RowsAre DEF Rooted, Adopt
  <2>7. t \in Nat /\ old.at \in Nat /\ old.at <= t
    BY <1>1, <1>4, FieldsAre, NamesAre DEF Outdated
  <2>8. old.geometry # 0 => Quality[old.geometry] <= Quality[geometry]
    BY <1>2
  <2>9. geometry # 0 /\ t # 0
    BY <1>2
  <2> HIDE DEF details, payloads, b, geometry
  <2>10. /\ b \in Archives /\ b.months = a.months /\ b.rides = a.rides /\ b.member = a.member
         /\ b.latest = a.latest /\ b.details = details /\ b.payloads = payloads
    BY <1>1, <2>1, <2>3 DEF Archives
  <2>11. MarksFit(b)
    BY <1>1, <2>10 DEF MarksFit, Marked
  <2>12. Rooted(b)
    <3>1. \A q \in Trips : IF b.details[q].latest = 0 THEN b.details[q] = NoDetail
                           ELSE b.rides[q].at # 0 /\ b.details[q].geometry # 0
      BY <1>1, <2>2, <2>4, <2>9, <2>10 DEF Rooted
    <3> QED
      BY <1>1, <2>10, <3>1 DEF Rooted
  <2>13. Consistent(b)
    <3>1. ASSUME NEW q \in Trips, b.details[q].latest # 0
          PROVE  <<q, b.details[q].latest>> \in payloads /\ <<q, b.details[q].geometry>> \in payloads
      <4>1. CASE q = r
        BY <2>2, <2>4, <2>5, <2>6, <2>10, <4>1
      <4>2. CASE q # r
        <5>1. <<q, a.details[q].latest>> \in a.payloads /\ <<q, a.details[q].geometry>> \in a.payloads
          BY <1>1, <2>4, <2>10, <3>1, <4>2 DEF Consistent
        <5> QED
          BY <2>4, <2>5, <2>10, <4>2, <5>1
      <4> QED
        BY <4>1, <4>2
    <3> QED
      BY <1>1, <2>10, <3>1 DEF Consistent
  <2>14. Better(a, b)
    <3>1. ASSUME NEW q \in Trips
          PROVE  /\ a.rides[q].at <= b.rides[q].at /\ a.details[q].at <= b.details[q].at
                 /\ a.details[q].geometry # 0 => Quality[a.details[q].geometry] <= Quality[b.details[q].geometry]
      <4>1. a.rides[q].at \in Nat /\ a.details[q].at \in Nat /\ a.details[q].geometry \in Names
        BY <1>1, FieldsAre
      <4>2. CASE q = r
        BY <2>2, <2>4, <2>7, <2>8, <2>10, <4>1, <4>2
      <4>3. CASE q # r
        <5>1. a.details[q].geometry # 0 => Quality[a.details[q].geometry] \in 0..2
          BY <4>1, NamesAre
        <5> QED
          BY <2>4, <2>10, <4>1, <4>3, <5>1
      <4> QED
        BY <4>2, <4>3
    <3>2. \A m \in Periods : a.months[m].at <= b.months[m].at
      BY <1>1, <2>10, FieldsAre
    <3> QED
      BY <2>10, <3>1, <3>2 DEF Better
  <2>15. \A q \in Trips : a.details[q].geometry # 0 => b.details[q].geometry # 0
    BY <2>2, <2>4, <2>9, <2>10
  <2> QED
    BY <2>10, <2>11, <2>12, <2>13, <2>14, <2>15 DEF Sound, b
<1> QED
  BY <1>3, <1>4

\* An archive after a link was restored.
LinkOf(a, m, r) ==
    [a EXCEPT !.member = @ \union {<<m, r>>},
              !.latest = IF r \in a.months[m].ids THEN @ \union {<<m, r>>} ELSE @]

\* A link that is restored is marked where the month's list has the ride (_apply_reconstruction).
LEMMA LinkIsSound ==
    ASSUME NEW a, Sound(a), NEW m \in Periods, NEW r \in Trips, a.months[m].at # 0, a.details[r].latest # 0
    PROVE  Sound(LinkOf(a, m, r)) /\ Better(a, LinkOf(a, m, r))
<1>1. a \in Archives /\ MarksFit(a) /\ Rooted(a) /\ Consistent(a)
  BY DEF Sound
<1> DEFINE b == LinkOf(a, m, r)
           member == a.member \union {<<m, r>>}
           latest == IF r \in a.months[m].ids THEN a.latest \union {<<m, r>>} ELSE a.latest
<1>2. member \in SUBSET Links /\ latest \in SUBSET Links
  <2>1. <<m, r>> \in Links
    BY DEF Links
  <2> QED
    BY <1>1, <2>1, FieldsAre
<1>3. b = [a EXCEPT !.member = member, !.latest = latest]
  BY <1>1 DEF Archives, LinkOf
<1>4. /\ \A x \in member : x \in a.member \/ x = <<m, r>>
      /\ \A x \in latest : x \in a.latest \/ (x = <<m, r>> /\ r \in a.months[m].ids)
      /\ a.latest \subseteq latest /\ latest \subseteq a.latest \union {<<m, r>>}
      /\ a.member \subseteq member /\ <<m, r>> \in member
  OBVIOUS
<1> HIDE DEF member, latest, b
<1>5. /\ b \in Archives /\ b.months = a.months /\ b.rides = a.rides /\ b.details = a.details
      /\ b.payloads = a.payloads /\ b.member = member /\ b.latest = latest
  BY <1>1, <1>2, <1>3 DEF Archives
<1>6. MarksFit(b)
  <2>1. ASSUME NEW n \in Periods PROVE Marked(a, n) \subseteq Marked(b, n) /\ Marked(b, n) \subseteq a.months[n].ids
    <3>1. ASSUME NEW q \in Trips, <<n, q>> \in latest PROVE q \in a.months[n].ids
      <4>1. CASE <<n, q>> \in a.latest
        BY <1>1, <4>1 DEF MarksFit, Marked
      <4>2. CASE <<n, q>> = <<m, r>> /\ r \in a.months[m].ids
        BY <4>2
      <4> QED
        BY <1>4, <3>1, <4>1, <4>2
    <3> QED
      BY <1>4, <1>5, <3>1 DEF Marked
  <2>2. ASSUME NEW n \in Periods
        PROVE  Marked(b, n) \subseteq b.months[n].ids /\ (b.months[n].complete => Marked(b, n) = b.months[n].ids)
    <3>1. /\ Marked(a, n) \subseteq Marked(b, n) /\ Marked(b, n) \subseteq a.months[n].ids
          /\ a.months[n].complete => Marked(a, n) = a.months[n].ids
          /\ b.months[n] = a.months[n]
      BY <1>1, <1>5, <2>1 DEF MarksFit
    <3> QED
      BY <3>1, Zenon
  <2> QED
    BY <2>2 DEF MarksFit
<1>7. Rooted(b)
  BY <1>1, <1>4, <1>5 DEF Rooted
<1>8. Consistent(b)
  <2>1. a.rides[r].at # 0
    BY <1>1 DEF Rooted
  <2>2. \A x \in member : a.rides[x[2]].at # 0
    BY <1>1, <1>4, <2>1 DEF Consistent
  <2>3. latest \subseteq member
    BY <1>1, <1>4 DEF Consistent
  <2> QED
    BY <1>1, <1>5, <2>2, <2>3 DEF Consistent
<1>9. Better(a, b)
  <2>1. /\ \A q \in Trips : a.rides[q].at <= b.rides[q].at /\ (a.rides[q].value # 0 => b.rides[q].value # 0)
        /\ \A n \in Periods : a.months[n].at <= b.months[n].at
    BY <1>1, <1>5, FieldsAre
  <2> QED
    BY <1>1, <1>5, <2>1, BetterIs
<1> QED
  BY <1>5, <1>6, <1>7, <1>8, <1>9 DEF Sound, b

\* Archive b is a with the ledger's list of a month that a did not have.
ListTaken(a, b, m, row, listed, marks) ==
    /\ Sound(a) /\ a.months[m].at = 0 /\ b \in Archives /\ m \in Periods
    /\ row \in MonthRecords /\ row.at # 0 /\ ~row.complete
    /\ listed \subseteq {m} \X row.ids /\ marks \subseteq listed
    /\ \A x \in listed : a.rides[x[2]].at # 0
    /\ \A n \in Periods : b.months[n] = IF n = m THEN row ELSE a.months[n]
    /\ b.rides = a.rides /\ b.details = a.details /\ b.payloads = a.payloads
    /\ b.member = a.member \union listed /\ b.latest = a.latest \union marks

\* The ledger's list may take a month that is not there, for nothing is marked in it.
LEMMA ListIsSound ==
    ASSUME NEW a, NEW b, NEW m, NEW row, NEW listed, NEW marks, ListTaken(a, b, m, row, listed, marks)
    PROVE  Sound(b) /\ Better(a, b)
<1> DEFINE months == b.months
           member == b.member
           latest == b.latest
<1>0. /\ Sound(a) /\ a.months[m].at = 0 /\ b \in Archives /\ m \in Periods
      /\ row \in MonthRecords /\ row.at # 0 /\ ~row.complete
      /\ listed \subseteq {m} \X row.ids /\ marks \subseteq listed
      /\ \A x \in listed : a.rides[x[2]].at # 0
      /\ \A n \in Periods : b.months[n] = IF n = m THEN row ELSE a.months[n]
      /\ b.rides = a.rides /\ b.details = a.details /\ b.payloads = a.payloads
      /\ b.member = a.member \union listed /\ b.latest = a.latest \union marks
  BY DEF ListTaken
<1>1. a \in Archives /\ MarksFit(a) /\ Rooted(a) /\ Consistent(a)
  BY <1>0 DEF Sound
<1>2. row \in MonthRecords /\ row.complete = FALSE
  BY <1>0 DEF MonthRecords
<1>3. row.at \in Nat /\ row.at # 0
  BY <1>0, NamesAre DEF MonthRecords
<1>5. months[m] = row /\ \A n \in Periods \ {m} : months[n] = a.months[n]
  BY <1>0
<1>6. /\ \A x \in member : x \in a.member \/ x \in listed
      /\ \A x \in latest : x \in a.latest \/ x \in marks
  BY <1>0
<1>7. latest \subseteq member
  BY <1>0, <1>1 DEF Consistent
<1>8. /\ b \in Archives /\ b.months = months /\ b.rides = a.rides /\ b.details = a.details
      /\ b.payloads = a.payloads /\ b.member = member /\ b.latest = latest
  BY <1>0
<1> HIDE DEF months, member, latest
<1>9. ASSUME NEW x \in a.member PROVE x[1] # m /\ x[1] \in Periods
  <2>1. x[1] \in Periods /\ a.months[x[1]].at # 0
    BY <1>1, FieldsAre DEF Links, Rooted
  <2> QED
    BY <1>0, <2>1
<1>10. MarksFit(b)
  <2>1. ASSUME NEW n \in Periods
        PROVE  Marked(b, n) \subseteq b.months[n].ids /\ (b.months[n].complete => Marked(b, n) = b.months[n].ids)
    <3>1. CASE n = m
      <4>1. ASSUME NEW r \in Trips, <<m, r>> \in latest PROVE r \in row.ids
        <5>1. <<m, r>> \notin a.latest
          <6>1. <<m, r>> \notin a.member
            BY <1>9
          <6> QED
            BY <1>1, <6>1 DEF Consistent
        <5>2. <<m, r>> \in {m} \X row.ids
          BY <1>0, <1>6, <4>1, <5>1
        <5> QED
          BY <5>2
      <4> QED
        BY <1>2, <1>5, <1>8, <3>1, <4>1 DEF Marked
    <3>2. CASE n # m
      <4>1. ASSUME NEW r \in Trips PROVE <<n, r>> \in latest <=> <<n, r>> \in a.latest
        BY <1>0, <3>2 DEF latest
      <4>2. Marked(b, n) = Marked(a, n)
        BY <1>8, <4>1 DEF Marked
      <4>3. b.months[n] = a.months[n]
        BY <1>5, <1>8, <3>2
      <4> QED
        BY <1>1, <4>2, <4>3, Zenon DEF MarksFit
    <3> QED
      BY <3>1, <3>2
  <2> QED
    BY <2>1 DEF MarksFit
<1>11. Rooted(b)
  <2>1. ASSUME NEW n \in Periods, b.months[n].at = 0 PROVE b.months[n] = NoMonth
    <3>1. n # m
      BY <1>2, <1>3, <1>5, <1>8, <2>1
    <3>2. b.months[n] = a.months[n]
      BY <1>5, <1>8, <3>1
    <3> QED
      BY <1>1, <2>1, <3>2 DEF Rooted
  <2>2. ASSUME NEW x \in b.member PROVE b.months[x[1]].at # 0
    <3>1. CASE x \in a.member
      BY <1>1, <1>5, <1>8, <1>9, <3>1 DEF Rooted
    <3>2. CASE x \in listed
      BY <1>0, <1>2, <1>3, <1>5, <1>8, <3>2
    <3> QED
      BY <1>6, <1>8, <2>2, <3>1, <3>2
  <2>3. \A r \in Trips : IF b.details[r].latest = 0 THEN b.details[r] = NoDetail
                         ELSE b.rides[r].at # 0 /\ b.details[r].geometry # 0
    BY <1>1, <1>8 DEF Rooted
  <2> QED
    BY <2>1, <2>2, <2>3 DEF Rooted
<1>12. Consistent(b)
  <2>1. \A x \in member : a.rides[x[2]].at # 0
    BY <1>0, <1>1, <1>6 DEF Consistent
  <2> QED
    BY <1>1, <1>7, <1>8, <2>1 DEF Consistent
<1>13. Better(a, b)
  <2>1. \A r \in Trips : a.rides[r].at <= b.rides[r].at /\ (a.rides[r].value # 0 => b.rides[r].value # 0)
    BY <1>1, <1>8, FieldsAre
  <2>2. \A n \in Periods : a.months[n].at <= b.months[n].at
    <3> TAKE n \in Periods
    <3>1. a.months[n].at \in Nat
      BY <1>1, FieldsAre
    <3>2. CASE n = m
      BY <1>0, <1>2, <1>3, <1>5, <1>8, <3>2
    <3>3. CASE n # m
      BY <1>5, <1>8, <3>1, <3>3
    <3> QED
      BY <3>2, <3>3
  <2> QED
    BY <1>1, <1>8, <2>1, <2>2, BetterIs
<1> QED
  BY <1>8, <1>10, <1>11, <1>12, <1>13 DEF Sound

\* The ledger's import: what it knows of rides, and its list if the archive has none.
LEMMA LedgerIsSound ==
    ASSUME NEW a, Sound(a)
    PROVE  LET rides == [r \in Trips |-> IF r \in Ledger.known THEN Upserted(a.rides[r], 1, 1) ELSE a.rides[r]]
               listed == {1} \X {r \in Ledger.ids : rides[r].at # 0}
               imported == [a EXCEPT !.imported = TRUE, !.rides = rides]
               after == IF a.months[1].at >= 1 THEN imported
                        ELSE [imported EXCEPT
                           !.months[1] = [at |-> 1, ids |-> Ledger.ids, complete |-> FALSE, src |-> 0],
                           !.member = @ \union listed, !.latest = @ \union (listed \ a.member)]
           IN  Sound(after) /\ Better(a, after)
<1> DEFINE rides == [r \in Trips |-> IF r \in Ledger.known THEN Upserted(a.rides[r], 1, 1) ELSE a.rides[r]]
           listed == {1} \X {r \in Ledger.ids : rides[r].at # 0}
           c == [a EXCEPT !.imported = TRUE, !.rides = rides]
           b == [c EXCEPT !.months[1] = [at |-> 1, ids |-> Ledger.ids, complete |-> FALSE, src |-> 0],
                          !.member = @ \union listed, !.latest = @ \union (listed \ a.member)]
<1>1. a \in Archives /\ MarksFit(a) /\ Rooted(a) /\ Consistent(a)
  BY DEF Sound
<1>2. ASSUME NEW r \in Trips
      PROVE  /\ rides[r] \in TripRecords /\ a.rides[r].at <= rides[r].at
             /\ a.rides[r].value # 0 => rides[r].value # 0
  <2>1. a.rides[r] \in TripRecords /\ a.rides[r].at \in Nat
    BY <1>1, FieldsAre
  <2>2. CASE r \in Ledger.known
    <3>1. rides[r] = Upserted(a.rides[r], 1, 1)
      BY <2>2
    <3>2. 1 \in Names \ {0} /\ 1 \in Names
      BY NamesAre
    <3> DEFINE row == a.rides[r]
    <3> HIDE DEF row
    <3>3. Upserted(row, 1, 1) \in TripRecords /\ Upserted(row, 1, 1).at >= row.at
          /\ (row.value # 0 => Upserted(row, 1, 1).value # 0)
      BY <2>1, <3>2, UpsertedDoes DEF row
    <3>4. Upserted(row, 1, 1).at \in Nat /\ row.at \in Nat
      BY <2>1, <3>3, NamesAre DEF TripRecords, row
    <3> QED
      BY <3>1, <3>3, <3>4 DEF row
  <2>3. CASE r \notin Ledger.known
    BY <2>1, <2>3
  <2> QED
    BY <2>2, <2>3
<1>3. rides \in [Trips -> TripRecords]
  <2>1. rides = [r \in Trips |-> rides[r]]
    OBVIOUS
  <2> HIDE DEF rides
  <2> QED
    BY <1>2, <2>1
<1> HIDE DEF rides
<1>4. /\ c \in Archives /\ c.months = a.months /\ c.rides = rides /\ c.member = a.member /\ c.latest = a.latest
      /\ c.details = a.details /\ c.payloads = a.payloads
  BY <1>1, <1>3 DEF Archives
<1> HIDE DEF c
<1>5. Sound(c) /\ Better(a, c)
  <2>1. \A r \in Trips : a.rides[r].at <= c.rides[r].at /\ (a.rides[r].value # 0 => c.rides[r].value # 0)
    BY <1>2, <1>4
  <2> QED
    BY <1>4, <2>1, RidesAreSound
<1>6. CASE a.months[1].at >= 1
  BY <1>5, <1>6 DEF c, rides
<1>7. CASE ~(a.months[1].at >= 1)
  <2>1. 1 \in Periods /\ Ledger.ids \in SUBSET Trips /\ 1 \in Names \ {0}
    BY RideStoreAssumption, NamesAre
  <2>2. c.months[1].at = 0
    <3>1. a.months[1].at \in Nat
      BY <1>1, <2>1, FieldsAre
    <3> QED
      BY <1>4, <1>7, <3>1
  <2>3. listed \in SUBSET ({1} \X Ledger.ids) /\ \A x \in listed : c.rides[x[2]].at # 0
    BY <1>4
  <2> DEFINE marks == listed \ a.member
             row == [at |-> 1, ids |-> Ledger.ids, complete |-> FALSE, src |-> 0]
             months == [c.months EXCEPT ![1] = row]
             member == c.member \union listed
             latest == c.latest \union marks
  <2>4. marks \in SUBSET listed
    OBVIOUS
  <2>5. b = [c EXCEPT !.months = months, !.member = member, !.latest = latest]
    BY <1>4 DEF Archives
  <2>6. row \in MonthRecords /\ row.at # 0 /\ ~row.complete /\ row.ids = Ledger.ids
    BY <2>1, NamesAre DEF MonthRecords
  <2> HIDE DEF row
  <2>7. listed \subseteq Links
    BY <2>1 DEF Links
  <2>9. /\ months \in [Periods -> MonthRecords] /\ member \in SUBSET Links /\ latest \in SUBSET Links
        /\ \A n \in Periods : months[n] = IF n = 1 THEN row ELSE c.months[n]
    BY <1>4, <2>1, <2>4, <2>6, <2>7, FieldsAre
  <2> HIDE DEF b, listed, months
  <2>10. /\ b \in Archives /\ b.months = months /\ b.rides = c.rides /\ b.details = c.details
         /\ b.payloads = c.payloads /\ b.member = member /\ b.latest = latest
    <3> HIDE DEF member, latest
    <3> QED
      BY <1>4, <2>5, <2>9 DEF Archives
  <2> HIDE DEF marks
  <2>11. Sound(b) /\ Better(c, b)
    <3>1. listed \in SUBSET ({1} \X row.ids) /\ \A x \in listed : c.rides[x[2]].at # 0
      BY <2>3, <2>6
    <3>2. \A n \in Periods : b.months[n] = IF n = 1 THEN row ELSE c.months[n]
      BY <2>9, <2>10
    <3>3. b.member = c.member \union listed /\ b.latest = c.latest \union marks
      BY <2>10
    <3> HIDE DEF member, latest
    <3>4. ListTaken(c, b, 1, row, listed, marks)
      BY <1>5, <2>1, <2>2, <2>4, <2>6, <2>10, <3>1, <3>2, <3>3 DEF ListTaken
    <3> QED
      BY <3>4, ListIsSound
  <2>8. Better(a, b)
    <3>1. b \in Archives
      BY <2>10
    <3> QED
      BY <1>1, <1>4, <1>5, <2>10, <2>11, <3>1, BetterTwice
  <2> QED
    BY <1>7, <2>8, <2>11 DEF b, c, listed, rides
<1> QED
  BY <1>6, <1>7

\* The ride of two archives is no older than either and keeps a fact (_merge_rows).
LEMMA MergedTripDoes ==
    ASSUME NEW old \in TripRecords, NEW new \in TripRecords
    PROVE  /\ MergedTrip(old, new) \in TripRecords
           /\ MergedTrip(old, new).at >= old.at /\ MergedTrip(old, new).at >= new.at
           /\ old.value # 0 => MergedTrip(old, new).value # 0
<1>1. old.at \in Nat /\ new.at \in Nat /\ old.at \in Names /\ new.at \in Names
      /\ old.value \in Names /\ new.value \in Names
  BY NamesAre DEF TripRecords
<1> DEFINE value(x, y) == Merged(x, y)
<1>2. \A x, y \in Names : value(x, y) \in Names /\ (x # 0 \/ y # 0 => value(x, y) # 0)
  BY DEF Merged
<1> HIDE DEF value
<1>3. MergedTrip(old, new) = IF old.at >= new.at THEN [at |-> old.at, value |-> value(new.value, old.value)]
                             ELSE [at |-> new.at, value |-> value(old.value, new.value)]
  BY DEF MergedTrip, value
<1>4. CASE old.at >= new.at
  BY <1>1, <1>2, <1>3, <1>4 DEF TripRecords
<1>5. CASE ~(old.at >= new.at)
  BY <1>1, <1>2, <1>3, <1>5 DEF TripRecords
<1> QED
  BY <1>4, <1>5

\* A detail that is there has a track.
Kept(d) == IF d.latest = 0 THEN d = NoDetail ELSE d.geometry # 0

\* Of two details the later is the latest, and the track is no worse than either's.
LEMMA MergedDetailDoes ==
    ASSUME NEW old \in DetailRecords, NEW new \in DetailRecords, Kept(old), Kept(new)
    PROVE  LET d == MergedDetail(old, new)
           IN  /\ d \in DetailRecords /\ Kept(d) /\ d.at >= old.at
               /\ old.geometry # 0 => Quality[old.geometry] <= Quality[d.geometry]
               /\ d.latest # 0 =>
                     /\ (d.latest = old.latest /\ old.latest # 0) \/ (d.latest = new.latest /\ new.latest # 0)
                     /\ (d.geometry = old.geometry /\ old.latest # 0) \/ (d.geometry = new.geometry /\ new.latest # 0)
<1> DEFINE d == MergedDetail(old, new)
           g == IF Adopt(old.geometry, new.geometry) THEN new.geometry ELSE old.geometry
<1>1. /\ old.latest \in Names /\ old.geometry \in Names /\ old.at \in Names /\ old.at \in Nat
      /\ new.latest \in Names /\ new.geometry \in Names /\ new.at \in Names /\ new.at \in Nat
      /\ NoDetail.latest = 0 /\ NoDetail.geometry = 0 /\ NoDetail.at = 0
  BY NamesAre, RowsAre DEF DetailRecords
<1>2. old.geometry # 0 => Quality[old.geometry] <= Quality[old.geometry]
  <2>1. old.geometry # 0 => Quality[old.geometry] \in 0..2
    BY <1>1, NamesAre
  <2> QED
    BY <2>1
<1>3. CASE new.latest = 0
  <2>1. d = old
    BY <1>3 DEF MergedDetail
  <2> QED
    BY <1>1, <1>2, <1>3, <2>1 DEF Kept
<1>4. CASE new.latest # 0 /\ old.latest = 0
  <2>1. d = new /\ old.geometry = 0 /\ old.at = 0
    BY <1>1, <1>4 DEF MergedDetail, Kept
  <2> QED
    BY <1>1, <1>4, <2>1 DEF Kept
<1>5. CASE new.latest # 0 /\ old.latest # 0
  <2>1. old.geometry # 0 /\ new.geometry # 0
    BY <1>5 DEF Kept
  <2>2. g \in Names \ {0} /\ Quality[old.geometry] <= Quality[g] /\ g \in {old.geometry, new.geometry}
    BY <1>1, <2>1, TrackDoes
  <2> HIDE DEF g
  <2>3. d = [latest |-> IF old.at >= new.at THEN old.latest ELSE new.latest,
             geometry |-> g, at |-> IF old.at >= new.at THEN old.at ELSE new.at]
    BY <1>5 DEF MergedDetail, g
  <2>4. /\ d.latest = IF old.at >= new.at THEN old.latest ELSE new.latest
        /\ d.geometry = g /\ d.at = IF old.at >= new.at THEN old.at ELSE new.at
    BY <2>3
  <2>5. d \in DetailRecords
    BY <1>1, <2>2, <2>3 DEF DetailRecords
  <2> HIDE DEF d
  <2>6. Kept(d) /\ d.at >= old.at
    BY <1>1, <1>5, <2>2, <2>4 DEF Kept
  <2> QED
    BY <1>5, <2>2, <2>4, <2>5, <2>6 DEF d
<1> QED
  BY <1>3, <1>4, <1>5

\* What an archive holds as an original names a ride or a month.
LEMMA OriginalsAreThings ==
    ASSUME NEW a \in Archives
    PROVE  Originals(a) \subseteq Things
<1>1. {<<"detail", p[1], p[2]>> : p \in a.payloads} \subseteq Things
  <2>1. \A p \in a.payloads : p[1] \in Trips /\ p[2] \in Names
    BY FieldsAre DEF Tracks
  <2> QED
    BY <2>1 DEF Things
<1>2. {<<"month", m, a.months[m].src>> : m \in {n \in Periods : a.months[n].src # 0}} \subseteq Things
  <2>1. \A m \in Periods : a.months[m].src \in Names
    BY FieldsAre DEF MonthRecords
  <2> QED
    BY <2>1 DEF Things
<1> QED
  BY <1>1, <1>2, FieldsAre DEF Originals

\* What a merge makes of two archives, field by field.
Newer(a, b, m) == b.months[m].at > a.months[m].at
Unites(a, b, c) ==
    /\ c \in Archives
    /\ \A m \in Periods : c.months[m] = IF Newer(a, b, m) THEN b.months[m] ELSE a.months[m]
    /\ \A r \in Trips : /\ c.details[r] = MergedDetail(a.details[r], b.details[r])
                        /\ c.rides[r] = IF b.rides[r].at = 0 THEN a.rides[r] ELSE MergedTrip(a.rides[r], b.rides[r])
    /\ \A p \in a.payloads \union b.payloads :
          p[2] \in {c.details[p[1]].latest, c.details[p[1]].geometry} => p \in c.payloads
    /\ \A m \in Periods, r \in Trips :
          /\ <<m, r>> \in c.member <=> \/ <<m, r>> \in a.member \union b.member
                                       \/ Newer(a, b, m) /\ r \in b.months[m].ids
          /\ <<m, r>> \in c.latest <=> IF Newer(a, b, m) THEN r \in b.months[m].ids ELSE <<m, r>> \in a.latest
    /\ Absorbed(a, b) \subseteq Originals(c)

\* The merge is what it is said to be, and holds every original of both archives.
LEMMA MergeUnites ==
    ASSUME NEW a, NEW b, Sound(a), Sound(b)
    PROVE  Unites(a, b, MergeInto(a, b))
<1> DEFINE details == [r \in Trips |-> MergedDetail(a.details[r], b.details[r])]
           months == [m \in Periods |-> IF Newer(a, b, m) THEN b.months[m] ELSE a.months[m]]
           payloads == {p \in a.payloads \union b.payloads : p[2] \in {details[p[1]].latest, details[p[1]].geometry}}
           rides == [r \in Trips |-> IF b.rides[r].at = 0 THEN a.rides[r] ELSE MergedTrip(a.rides[r], b.rides[r])]
           member == a.member \union b.member
                     \union UNION {{m} \X months[m].ids : m \in {n \in Periods : Newer(a, b, n)}}
           latest == UNION {MarksOf(a, b, m) : m \in Periods}
           live == [a EXCEPT !.months = months, !.details = details, !.payloads = payloads, !.rides = rides,
                             !.member = member, !.latest = latest]
           bare == [live EXCEPT !.evidence = {}]
           evidence == Absorbed(a, b) \ Originals(bare)
           c == MergeInto(a, b)
<1>1. c = [live EXCEPT !.evidence = evidence]
  BY DEF MergeInto, Newer
<1>2. /\ a \in Archives /\ b \in Archives /\ \A r \in Trips : Kept(a.details[r]) /\ Kept(b.details[r])
  BY DEF Sound, Rooted, Kept
<1>3. months \in [Periods -> MonthRecords]
  BY <1>2, FieldsAre
<1>4. details \in [Trips -> DetailRecords]
  <2>1. ASSUME NEW r \in Trips PROVE MergedDetail(a.details[r], b.details[r]) \in DetailRecords
    BY <1>2, FieldsAre, MergedDetailDoes
  <2> QED
    BY <2>1
<1>5. rides \in [Trips -> TripRecords]
  <2>1. ASSUME NEW r \in Trips PROVE a.rides[r] \in TripRecords /\ MergedTrip(a.rides[r], b.rides[r]) \in TripRecords
    BY <1>2, FieldsAre, MergedTripDoes
  <2> QED
    BY <2>1
<1>6. payloads \in SUBSET Tracks
  BY <1>2, FieldsAre
<1>7. member \in SUBSET Links
  <2>1. ASSUME NEW m \in Periods PROVE {m} \X months[m].ids \subseteq Links
    <3>1. months[m].ids \subseteq Trips
      BY <1>2, FieldsAre
    <3> QED
      BY <3>1 DEF Links
  <2> QED
    BY <1>2, <2>1, FieldsAre
<1>8. ASSUME NEW m \in Periods
      PROVE  /\ MarksOf(a, b, m) \subseteq Links
             /\ \A n \in Periods, r \in Trips : <<n, r>> \in MarksOf(a, b, m) <=>
                   n = m /\ IF Newer(a, b, m) THEN r \in b.months[m].ids ELSE <<m, r>> \in a.latest
  <2>1. b.months[m].ids \subseteq Trips /\ a.latest \subseteq Links
    BY <1>2, FieldsAre
  <2>2. CASE Newer(a, b, m)
    <3>1. MarksOf(a, b, m) = {m} \X b.months[m].ids
      BY <2>2 DEF MarksOf, Newer
    <3> QED
      BY <2>1, <2>2, <3>1 DEF Links
  <2>3. CASE ~Newer(a, b, m)
    <3>1. MarksOf(a, b, m) = {x \in a.latest : x[1] = m}
      BY <2>3 DEF MarksOf, Newer
    <3> QED
      BY <2>1, <2>3, <3>1
  <2> QED
    BY <2>2, <2>3
<1>9. latest \in SUBSET Links
  BY <1>8
<1>10. \A m \in Periods, r \in Trips :
          <<m, r>> \in latest <=> IF Newer(a, b, m) THEN r \in b.months[m].ids ELSE <<m, r>> \in a.latest
  <2> TAKE m \in Periods, r \in Trips
  <2>1. <<m, r>> \in latest <=> \E n \in Periods : <<m, r>> \in MarksOf(a, b, n)
    OBVIOUS
  <2> HIDE DEF latest
  <2>2. (\E n \in Periods : <<m, r>> \in MarksOf(a, b, n)) <=> <<m, r>> \in MarksOf(a, b, m)
    BY <1>8
  <2> QED
    BY <1>8, <2>1, <2>2
<1>11. \A m \in Periods, r \in Trips : <<m, r>> \in member <=>
          \/ <<m, r>> \in a.member \union b.member
          \/ Newer(a, b, m) /\ r \in b.months[m].ids
  <2> TAKE m \in Periods, r \in Trips
  <2>1. \A n \in Periods : Newer(a, b, n) => months[n].ids = b.months[n].ids
    OBVIOUS
  <2>2. <<m, r>> \in UNION {{n} \X months[n].ids : n \in {k \in Periods : Newer(a, b, k)}}
           <=> Newer(a, b, m) /\ r \in months[m].ids
    OBVIOUS
  <2> QED
    BY <2>1, <2>2
<1>12. \A p \in a.payloads \union b.payloads : p[2] \in {details[p[1]].latest, details[p[1]].geometry} => p \in payloads
  OBVIOUS
<1>13. /\ \A m \in Periods : months[m] = IF Newer(a, b, m) THEN b.months[m] ELSE a.months[m]
       /\ \A r \in Trips : /\ details[r] = MergedDetail(a.details[r], b.details[r])
                           /\ rides[r] = IF b.rides[r].at = 0 THEN a.rides[r] ELSE MergedTrip(a.rides[r], b.rides[r])
  OBVIOUS
<1> HIDE DEF details, months, payloads, rides, member, latest
<1>14. /\ live \in Archives /\ bare \in Archives /\ bare.months = live.months /\ bare.payloads = live.payloads
       /\ bare.evidence = {}
       /\ live.months = months /\ live.details = details /\ live.payloads = payloads /\ live.rides = rides
       /\ live.member = member /\ live.latest = latest
  BY <1>2, <1>3, <1>4, <1>5, <1>6, <1>7, <1>9 DEF Archives
<1> HIDE DEF live
<1>15. evidence \in SUBSET Things
  BY <1>2, OriginalsAreThings DEF Absorbed
<1>16. Originals(c) = Originals(bare) \union evidence
  <2> HIDE DEF bare, evidence
  <2>1. c.months = live.months /\ c.payloads = live.payloads /\ c.evidence = evidence
    BY <1>1, <1>14, <1>15 DEF Archives
  <2> HIDE DEF c
  <2> QED
    BY <1>14, <2>1 DEF Originals
<1> HIDE DEF evidence, bare
<1>17. /\ c \in Archives /\ c.months = months /\ c.details = details /\ c.payloads = payloads /\ c.rides = rides
       /\ c.member = member /\ c.latest = latest
  BY <1>1, <1>14, <1>15 DEF Archives
<1>18. Absorbed(a, b) \subseteq Originals(c)
  BY <1>16 DEF evidence
<1> HIDE DEF c
<1>19. Unites(a, b, c)
  BY <1>10, <1>11, <1>12, <1>13, <1>17, <1>18 DEF Unites
<1> QED
  BY <1>19 DEF c

\* A merge of two sound archives is sound, no older than the one it was made in, and drops nothing.
LEMMA UnionIsSound ==
    ASSUME NEW a, NEW b, NEW c, Sound(a), Sound(b), Replayable(a, b), Unites(a, b, c)
    PROVE  Sound(c) /\ Better(a, c)
<1>1. /\ a \in Archives /\ MarksFit(a) /\ Rooted(a) /\ Consistent(a)
      /\ b \in Archives /\ MarksFit(b) /\ Rooted(b) /\ Consistent(b) /\ c \in Archives
  BY DEF Sound, Unites
<1>2. ASSUME NEW m \in Periods
      PROVE  /\ a.months[m].at \in Nat /\ b.months[m].at \in Nat /\ c.months[m].at \in Nat
             /\ c.months[m] = IF Newer(a, b, m) THEN b.months[m] ELSE a.months[m]
             /\ c.months[m].at >= a.months[m].at /\ c.months[m].at >= b.months[m].at
  <2>1. /\ a.months[m].at \in Nat /\ b.months[m].at \in Nat /\ c.months[m].at \in Nat
        /\ c.months[m] = IF Newer(a, b, m) THEN b.months[m] ELSE a.months[m]
    BY <1>1, FieldsAre DEF Unites
  <2> QED
    BY <2>1 DEF Newer
<1>3. ASSUME NEW r \in Trips
      PROVE  /\ a.rides[r].at \in Nat /\ b.rides[r].at \in Nat /\ c.rides[r].at \in Nat
             /\ c.rides[r].at >= a.rides[r].at /\ c.rides[r].at >= b.rides[r].at
             /\ a.rides[r].value # 0 => c.rides[r].value # 0
  <2>1. /\ a.rides[r].at \in Nat /\ b.rides[r].at \in Nat /\ c.rides[r].at \in Nat
        /\ a.rides[r] \in TripRecords /\ b.rides[r] \in TripRecords
        /\ c.rides[r] = IF b.rides[r].at = 0 THEN a.rides[r] ELSE MergedTrip(a.rides[r], b.rides[r])
    BY <1>1, FieldsAre DEF Unites
  <2>2. /\ MergedTrip(a.rides[r], b.rides[r]).at >= a.rides[r].at
        /\ MergedTrip(a.rides[r], b.rides[r]).at >= b.rides[r].at
        /\ a.rides[r].value # 0 => MergedTrip(a.rides[r], b.rides[r]).value # 0
    BY <2>1, MergedTripDoes
  <2> QED
    BY <2>1, <2>2
<1>4. ASSUME NEW r \in Trips
      PROVE  LET old == a.details[r]
                 new == b.details[r]
                 d == c.details[r]
             IN  /\ Kept(d) /\ d.at >= old.at /\ d.at \in Nat /\ old.at \in Nat
                 /\ old.geometry # 0 => Quality[old.geometry] <= Quality[d.geometry]
                 /\ d.latest # 0 =>
                       /\ (d.latest = old.latest /\ old.latest # 0) \/ (d.latest = new.latest /\ new.latest # 0)
                       /\ (d.geometry = old.geometry /\ old.latest # 0) \/ (d.geometry = new.geometry /\ new.latest # 0)
  <2>1. /\ a.details[r] \in DetailRecords /\ b.details[r] \in DetailRecords
        /\ c.details[r].at \in Nat /\ a.details[r].at \in Nat
        /\ c.details[r] = MergedDetail(a.details[r], b.details[r])
    BY <1>1, FieldsAre DEF Unites
  <2>2. Kept(a.details[r]) /\ Kept(b.details[r])
    BY <1>1 DEF Rooted, Kept
  <2> QED
    BY <2>1, <2>2, MergedDetailDoes
<1>5. \A m \in Periods, r \in Trips :
          /\ <<m, r>> \in c.member <=> \/ <<m, r>> \in a.member \union b.member
                                       \/ Newer(a, b, m) /\ r \in b.months[m].ids
          /\ <<m, r>> \in c.latest <=> IF Newer(a, b, m) THEN r \in b.months[m].ids ELSE <<m, r>> \in a.latest
  BY DEF Unites
<1>6. \A x \in Links : \E m \in Periods, r \in Trips : x = <<m, r>>
  BY DEF Links
<1>7. MarksFit(c)
  <2>1. ASSUME NEW m \in Periods
        PROVE  Marked(c, m) \subseteq c.months[m].ids /\ (c.months[m].complete => Marked(c, m) = c.months[m].ids)
    <3>1. CASE Newer(a, b, m)
      <4>1. b.months[m].ids \subseteq Trips
        BY <1>1, FieldsAre
      <4>2. Marked(c, m) = b.months[m].ids
        BY <1>5, <3>1, <4>1 DEF Marked
      <4>3. c.months[m] = b.months[m]
        BY <1>2, <3>1
      <4> QED
        BY <4>2, <4>3
    <3>2. CASE ~Newer(a, b, m)
      <4>1. Marked(c, m) = Marked(a, m)
        BY <1>5, <3>2 DEF Marked
      <4>2. c.months[m] = a.months[m]
        BY <1>2, <3>2
      <4> QED
        BY <1>1, <4>1, <4>2, Zenon DEF MarksFit
    <3> QED
      BY <3>1, <3>2
  <2> QED
    BY <2>1 DEF MarksFit
<1>8. Rooted(c)
  <2>1. ASSUME NEW m \in Periods, c.months[m].at = 0 PROVE c.months[m] = NoMonth
    <3>1. ~Newer(a, b, m) /\ a.months[m].at = 0
      BY <1>2, <2>1 DEF Newer
    <3> QED
      BY <1>1, <1>2, <3>1 DEF Rooted
  <2>2. ASSUME NEW x \in c.member PROVE c.months[x[1]].at # 0
    <3>1. PICK m \in Periods, r \in Trips : x = <<m, r>>
      BY <1>1, <1>6, <2>2, FieldsAre
    <3>2. CASE <<m, r>> \in a.member
      <4>1. a.months[m].at # 0
        BY <1>1, <3>2 DEF Rooted
      <4> QED
        BY <1>2, <3>1, <4>1
    <3>3. CASE <<m, r>> \in b.member
      <4>1. b.months[m].at # 0
        BY <1>1, <3>3 DEF Rooted
      <4> QED
        BY <1>2, <3>1, <4>1
    <3>4. CASE Newer(a, b, m)
      BY <1>2, <3>1, <3>4 DEF Newer
    <3> QED
      BY <1>5, <2>2, <3>1, <3>2, <3>3, <3>4
  <2>3. ASSUME NEW r \in Trips
        PROVE  IF c.details[r].latest = 0 THEN c.details[r] = NoDetail
               ELSE c.rides[r].at # 0 /\ c.details[r].geometry # 0
    <3>1. CASE c.details[r].latest = 0
      BY <1>4, <3>1 DEF Kept
    <3>2. CASE c.details[r].latest # 0
      <4>1. c.details[r].geometry # 0 /\ (a.details[r].latest # 0 \/ b.details[r].latest # 0)
        BY <1>4, <3>2 DEF Kept
      <4>2. a.rides[r].at # 0 \/ b.rides[r].at # 0
        BY <1>1, <4>1 DEF Rooted
      <4> QED
        BY <1>3, <3>2, <4>1, <4>2
    <3> QED
      BY <3>1, <3>2
  <2> QED
    BY <2>1, <2>2, <2>3 DEF Rooted
<1>9. Consistent(c)
  <2>1. ASSUME NEW x \in c.member PROVE c.rides[x[2]].at # 0
    <3>1. PICK m \in Periods, r \in Trips : x = <<m, r>>
      BY <1>1, <1>6, <2>1, FieldsAre
    <3>2. a.rides[r].at # 0 \/ b.rides[r].at # 0
      <4>1. CASE <<m, r>> \in a.member
        BY <1>1, <4>1 DEF Consistent
      <4>2. CASE <<m, r>> \in b.member
        BY <1>1, <4>2 DEF Consistent
      <4>3. CASE Newer(a, b, m) /\ r \in b.months[m].ids
        BY <4>3 DEF Replayable, Newer
      <4> QED
        BY <1>5, <2>1, <3>1, <4>1, <4>2, <4>3
    <3> QED
      BY <1>3, <3>1, <3>2
  <2>2. ASSUME NEW x \in c.latest PROVE x \in c.member
    <3>1. PICK m \in Periods, r \in Trips : x = <<m, r>>
      BY <1>1, <1>6, <2>2, FieldsAre
    <3>2. CASE Newer(a, b, m)
      BY <1>5, <2>2, <3>1, <3>2
    <3>3. CASE ~Newer(a, b, m)
      <4>1. <<m, r>> \in a.member
        BY <1>1, <1>5, <2>2, <3>1, <3>3 DEF Consistent
      <4> QED
        BY <1>5, <3>1, <4>1
    <3> QED
      BY <3>2, <3>3
  <2>3. ASSUME NEW r \in Trips, c.details[r].latest # 0
        PROVE  <<r, c.details[r].latest>> \in c.payloads /\ <<r, c.details[r].geometry>> \in c.payloads
    <3>1. \A p \in a.payloads \union b.payloads :
             p[2] \in {c.details[p[1]].latest, c.details[p[1]].geometry} => p \in c.payloads
      BY DEF Unites
    <3>2. ASSUME NEW g \in {c.details[r].latest, c.details[r].geometry}, <<r, g>> \in a.payloads \union b.payloads
          PROVE  <<r, g>> \in c.payloads
      BY <3>1, <3>2
    <3>3. /\ a.details[r].latest # 0 =>
                <<r, a.details[r].latest>> \in a.payloads /\ <<r, a.details[r].geometry>> \in a.payloads
          /\ b.details[r].latest # 0 =>
                <<r, b.details[r].latest>> \in b.payloads /\ <<r, b.details[r].geometry>> \in b.payloads
      BY <1>1 DEF Consistent
    <3>4. <<r, c.details[r].latest>> \in a.payloads \union b.payloads
      BY <1>4, <2>3, <3>3
    <3>5. <<r, c.details[r].geometry>> \in a.payloads \union b.payloads
      BY <1>4, <2>3, <3>3
    <3> QED
      BY <3>2, <3>4, <3>5
  <2> QED
    BY <2>1, <2>2, <2>3 DEF Consistent
<1>10. Better(a, c)
  BY <1>2, <1>3, <1>4 DEF Better
<1> QED
  BY <1>1, <1>7, <1>8, <1>9, <1>10 DEF Sound

\* A set of natural numbers has a least element.
LEMMA LeastNumber ==
    ASSUME NEW T \in SUBSET Nat, T # {}
    PROVE  \E x \in T : \A y \in T : x <= y
<1>1. PICK x \in T : \A y \in T : ~(<<y, x>> \in OpToRel(<, Nat))
  BY NatLessThanWellFounded, WFMin, Zenon
<1>2. \A y \in T : ~(y < x)
  BY <1>1 DEF OpToRel
<1> QED
  BY <1>2

\* A finite set of numbers has a greatest element.
LEMMA GreatestNumber ==
    ASSUME NEW S \in SUBSET Int, IsFiniteSet(S), S # {}
    PROVE  Max(S) \in S /\ \A y \in S : Max(S) >= y
<1> DEFINE Greatest(X) == \E x \in X : \A y \in X : x >= y
           Sizes == {n \in Nat : \E X \in SUBSET S : IsFiniteSet(X) /\ Cardinality(X) = n /\ X # {} /\ ~Greatest(X)}
<1>1. ASSUME Sizes # {} PROVE FALSE
  <2>1. PICK n \in Sizes : \A m \in Sizes : n <= m
    BY <1>1, LeastNumber
  <2>2. PICK X \in SUBSET S : IsFiniteSet(X) /\ Cardinality(X) = n /\ X # {} /\ ~Greatest(X)
    BY <2>1
  <2>3. PICK x \in X : TRUE
    BY <2>2
  <2>4. IsFiniteSet(X \ {x}) /\ Cardinality(X \ {x}) = n - 1 /\ n - 1 \in Nat
    <3>1. n \in Nat /\ n # 0
      BY <2>1, <2>2, FS_EmptySet
    <3>2. IsFiniteSet(X \ {x}) /\ Cardinality(X \ {x}) = n - 1
      BY <2>2, <2>3, FS_RemoveElement
    <3> QED
      BY <3>1, <3>2
  <2>5. X \ {x} = {} \/ Greatest(X \ {x})
    BY <2>1, <2>4
  <2>6. CASE X \ {x} = {}
    BY <2>2, <2>3, <2>6
  <2>7. CASE Greatest(X \ {x})
    <3>1. PICK m \in X \ {x} : \A y \in X \ {x} : m >= y
      BY <2>7
    <3>2. m \in Int /\ x \in Int /\ X \in SUBSET Int
      BY <2>2, <2>3, <3>1
    <3>3. CASE m >= x
      BY <2>2, <3>1, <3>2, <3>3
    <3>4. CASE x >= m
      BY <2>2, <2>3, <3>1, <3>2, <3>4
    <3> QED
      BY <3>2, <3>3, <3>4
  <2> QED
    BY <2>5, <2>6, <2>7
<1>2. Greatest(S)
  BY <1>1, FS_CardinalityType
<1> QED
  BY <1>2 DEF Max

\* A page takes the first of the rides that are left, in the order of the reader.
LEMMA FirstRowIs ==
    ASSUME NEW rows \in SUBSET Trips, rows # {}, NEW order \in {"asc", "desc"}
    PROVE  LET r == FirstRow(rows, order)
           IN  r \in rows /\ \A q \in rows : IF order = "asc" THEN q >= r ELSE q <= r
<1>1. rows \in SUBSET Int /\ rows \in SUBSET Nat /\ IsFiniteSet(rows)
  <2>1. Trips \subseteq Nat /\ IsFiniteSet(Trips)
    BY RideStoreAssumption
  <2>2. IsFiniteSet(rows)
    BY <2>1, FS_Subset
  <2> QED
    BY <2>1, <2>2
<1>2. CASE order = "asc"
  <2>1. \E x \in rows : \A y \in rows : x <= y
    BY <1>1, LeastNumber
  <2>2. Min(rows) \in rows /\ \A y \in rows : Min(rows) <= y
    BY <2>1, Zenon DEF Min
  <2>3. Min(rows) \in Int
    BY <1>1, <2>2
  <2> QED
    BY <1>1, <1>2, <2>2, <2>3 DEF FirstRow
<1>3. CASE order # "asc"
  <2>1. Max(rows) \in rows /\ \A y \in rows : Max(rows) >= y
    BY <1>1, GreatestNumber
  <2> QED
    BY <1>1, <1>3, <2>1 DEF FirstRow
<1> QED
  BY <1>2, <1>3

\* What the catalog fixes is what is selected: a month in a membership is there.
LEMMA CatalogSelects ==
    ASSUME NEW a, NEW b, Sound(a), Sound(b), Catalog(b) = Catalog(a)
    PROVE  Selection(b) = Selection(a)
<1>1. a \in Archives /\ Rooted(a) /\ b \in Archives /\ Rooted(b)
  BY DEF Sound
<1> DEFINE Bare(x) == [m \in Periods |-> [x.months[m] EXCEPT !.at = 0, !.src = 0]]
<1>2. b.rides = a.rides /\ b.member = a.member /\ b.latest = a.latest /\ Bare(b) = Bare(a)
  BY DEF Catalog
<1>3. ASSUME NEW m \in Periods PROVE b.months[m].complete = a.months[m].complete
  <2>1. ASSUME NEW row \in MonthRecords
        PROVE  [row EXCEPT !.at = 0, !.src = 0].complete = row.complete
    BY DEF MonthRecords
  <2>2. a.months[m] \in MonthRecords /\ b.months[m] \in MonthRecords
    BY <1>1, FieldsAre
  <2>3. [a.months[m] EXCEPT !.at = 0, !.src = 0] = [b.months[m] EXCEPT !.at = 0, !.src = 0]
    <3>1. Bare(a)[m] = Bare(b)[m]
      BY <1>2
    <3> QED
      BY <3>1
  <2> QED
    BY <2>1, <2>2, <2>3
<1> HIDE DEF Bare
<1>4. \A m \in Periods, r \in Trips :
          <<m, r>> \in a.member => a.months[m].at # 0 /\ b.months[m].at # 0
  BY <1>1, <1>2 DEF Rooted
<1> QED
  BY <1>2, <1>3, <1>4 DEF Selection

\* A commit of a sound archive keeps the invariant; a cursor is good only while the selection stays.
LEMMA CommitKeeps ==
    ASSUME StoreInv, NEW s \in Stores, NEW after, Sound(after), NEW bump \in BOOLEAN, Commit(s, after, bump),
           ~bump => Catalog(after) = Catalog(store[s]), unused' \subseteq unused
    PROVE  /\ StoreInv' /\ store'[s] = after /\ \A o \in Stores \ {s} : store'[o] = store[o]
           /\ walk'.done = walk.done
<1>1. /\ store = [o \in Stores |-> store[o]] /\ \A o \in Stores : Sound(store[o])
      /\ unused \subseteq UNION {Times[o] : o \in Stores} /\ WalkInv
  BY DEF StoreInv
<1>2. store' = [store EXCEPT ![s] = after]
  BY DEF Commit
<1>3. store'[s] = after /\ \A o \in Stores \ {s} : store'[o] = store[o]
  BY <1>1, <1>2
<1>4. store' = [o \in Stores |-> store'[o]]
  BY <1>1, <1>2
<1>5. \A o \in Stores : Sound(store'[o])
  BY <1>1, <1>3
<1> DEFINE good == walk.valid /\ (s # 1 \/ StaysGood(walk.order, store[1], after, bump))
<1>6. walk' = [walk EXCEPT !.valid = good]
  BY DEF Commit
<1>7. good \in BOOLEAN /\ (good => walk.valid)
  OBVIOUS
<1>8. ASSUME good PROVE Selection(store'[1]) = Selection(store[1])
  <2>1. CASE s # 1
    BY <1>3, <2>1, RideStoreAssumption
  <2>2. CASE s = 1
    <3>1. Catalog(after) = Catalog(store[1])
      BY <1>8, <2>2 DEF StaysGood
    <3> QED
      BY <1>1, <1>3, <2>2, <3>1, CatalogSelects
  <2> QED
    BY <2>1, <2>2
<1> HIDE DEF good
<1>9. /\ walk' \in [on : BOOLEAN, order : {"asc", "desc"}, seen : SUBSET Trips, after : Trips \union {0},
                    valid : BOOLEAN, done : BOOLEAN]
      /\ walk'.after = walk.after /\ walk'.seen = walk.seen /\ walk'.order = walk.order /\ walk'.valid = good
      /\ walk'.done = walk.done
  BY <1>1, <1>6, <1>7 DEF WalkInv
<1>10. WalkInv'
  <2>1. walk'.after = 0 => walk'.seen = {}
    BY <1>1, <1>9 DEF WalkInv
  <2>2. ASSUME walk'.after # 0, walk'.valid
        PROVE  walk'.seen = {r \in Selection(store'[1]) : UpTo(r, walk'.after, walk'.order)}
    <3>1. good /\ walk.valid
      BY <1>7, <1>9, <2>2, Zenon
    <3>2. walk.seen = {r \in Selection(store[1]) : UpTo(r, walk.after, walk.order)}
      BY <1>1, <1>9, <2>2, <3>1 DEF WalkInv
    <3> QED
      BY <1>8, <1>9, <3>1, <3>2
  <2> QED
    BY <1>9, <2>1, <2>2 DEF WalkInv
<1> QED
  BY <1>1, <1>3, <1>4, <1>5, <1>9, <1>10 DEF StoreInv

\* What a page gives: the selection up to it, and at the last one all of it.
LEMMA PageIs ==
    ASSUME StoreInv, ReadPage
    PROVE  WalkInv' /\ (walk'.done /\ ~walk.done => walk'.seen = Selection(store[1]))
<1> DEFINE rows == Rest(walk.seen, walk.after, walk.order)
           selected == Selection(store[1])
<1>1. /\ walk \in [on : BOOLEAN, order : {"asc", "desc"}, seen : SUBSET Trips, after : Trips \union {0},
                   valid : BOOLEAN, done : BOOLEAN]
      /\ walk.after = 0 => walk.seen = {}
      /\ walk.after # 0 /\ walk.valid => walk.seen = {r \in selected : UpTo(r, walk.after, walk.order)}
  BY DEF StoreInv, WalkInv
<1>2. selected \subseteq Trips /\ Trips \subseteq Nat \ {0}
  BY RideStoreAssumption DEF Selection
<1>3. rows = {r \in selected : walk.after = 0 \/ IF walk.order = "asc" THEN r > walk.after ELSE r < walk.after}
  BY DEF Rest
<1>4. store' = store
  BY DEF ReadPage
<1>5. CASE walk.after # 0 /\ ~walk.valid
  <2>1. walk' = NoWalk
    BY <1>5 DEF ReadPage
  <2>2. NoWalk \in [on : BOOLEAN, order : {"asc", "desc"}, seen : SUBSET Trips, after : Trips \union {0},
                    valid : BOOLEAN, done : BOOLEAN]
        /\ NoWalk.after = 0 /\ NoWalk.seen = {} /\ ~NoWalk.done
    BY DEF NoWalk
  <2> QED
    BY <2>1, <2>2 DEF WalkInv
<1>6. CASE ~(walk.after # 0 /\ ~walk.valid)
  <2>1. \A q \in selected : q \in walk.seen <=> q \notin rows
    <3>1. CASE walk.after = 0
      BY <1>1, <1>3, <3>1
    <3>2. CASE walk.after # 0
      <4>1. walk.seen = {r \in selected : UpTo(r, walk.after, walk.order)}
        BY <1>1, <1>6, <3>2
      <4>2. walk.after \in Nat
        <5>1. walk.after \in Trips \union {0}
          BY <1>1
        <5>2. Trips \subseteq Nat /\ walk.after \in Trips
          BY <1>2, <3>2, <5>1
        <5> QED
          BY <5>2, Zenon
      <4> TAKE q \in selected
      <4>3. q \in rows <=> IF walk.order = "asc" THEN q > walk.after ELSE q < walk.after
        BY <1>3, <3>2
      <4>4. q \in walk.seen <=> UpTo(q, walk.after, walk.order)
        BY <4>1
      <4>5. q \in Nat
        BY <1>2
      <4> HIDE DEF rows, selected
      <4> QED
        BY <4>2, <4>3, <4>4, <4>5 DEF UpTo
    <3> QED
      BY <3>1, <3>2
  <2>2. walk.seen \subseteq selected
    BY <1>1, <1>6
  <2>3. CASE rows = {}
    <3>1. walk' = [walk EXCEPT !.done = TRUE, !.valid = TRUE]
      BY <1>6, <2>3 DEF ReadPage
    <3>2. walk.seen = selected
      BY <2>1, <2>2, <2>3
    <3> HIDE DEF rows, selected
    <3>3. /\ walk' \in [on : BOOLEAN, order : {"asc", "desc"}, seen : SUBSET Trips, after : Trips \union {0},
                        valid : BOOLEAN, done : BOOLEAN]
          /\ walk'.after = walk.after /\ walk'.seen = walk.seen /\ walk'.order = walk.order
      BY <1>1, <3>1
    <3>4. walk.after # 0 => walk.valid
      BY <1>6
    <3>5. walk'.after # 0 /\ walk'.valid =>
             walk'.seen = {r \in Selection(store'[1]) : UpTo(r, walk'.after, walk'.order)}
      BY <1>1, <1>4, <3>3, <3>4 DEF selected
    <3> QED
      BY <1>1, <3>2, <3>3, <3>5 DEF WalkInv, selected
  <2>4. CASE rows # {}
    <3> DEFINE r == FirstRow(rows, walk.order)
               done == rows = {r}
    <3>1. walk' = [walk EXCEPT !.seen = @ \union {r}, !.after = r, !.valid = TRUE, !.done = done]
      BY <1>6, <2>4 DEF ReadPage
    <3>2. r \in rows /\ \A q \in rows : IF walk.order = "asc" THEN q >= r ELSE q <= r
      <4>1. rows \in SUBSET Trips /\ walk.order \in {"asc", "desc"}
        BY <1>1, <1>2, <1>3
      <4> HIDE DEF rows
      <4> QED
        BY <2>4, <4>1, FirstRowIs
    <3>3. r \in selected /\ r \in Trips /\ r \in Nat /\ r # 0
      BY <1>2, <1>3, <3>2
    <3>4. \A q \in selected : q \notin rows => IF walk.order = "asc" THEN q <= r ELSE q >= r
      <4> TAKE q \in selected
      <4> SUFFICES ASSUME q \notin rows PROVE IF walk.order = "asc" THEN q <= r ELSE q >= r
        OBVIOUS
      <4>1. walk.after # 0 /\ walk.after \in Nat /\ q \in Nat
        BY <1>1, <1>2, <1>3
      <4> DEFINE x == walk.after
      <4>2. IF walk.order = "asc" THEN ~(q > x) /\ r > x ELSE ~(q < x) /\ r < x
        BY <1>3, <3>2, <4>1
      <4> HIDE DEF r, rows, x, selected
      <4> QED
        BY <3>3, <4>1, <4>2 DEF x
    <3> HIDE DEF r, rows, selected, done
    <3>5. done \in BOOLEAN
      BY DEF done
    <3>6. /\ walk' \in [on : BOOLEAN, order : {"asc", "desc"}, seen : SUBSET Trips, after : Trips \union {0},
                        valid : BOOLEAN, done : BOOLEAN]
          /\ walk'.after = r /\ walk'.seen = walk.seen \union {r} /\ walk'.order = walk.order
          /\ walk'.done = done
      BY <1>1, <3>1, <3>3, <3>5
    <3>7. \A q \in selected : q \in walk'.seen <=> UpTo(q, r, walk.order)
      <4> TAKE q \in selected
      <4>1. q \in Nat
        BY <1>2
      <4>2. CASE q \in rows
        <5>1. q \notin walk.seen
          BY <2>1, <4>2
        <5>2. UpTo(q, r, walk.order) <=> q = r
          BY <3>2, <3>3, <4>1, <4>2 DEF UpTo
        <5> QED
          BY <3>6, <5>1, <5>2
      <4>3. CASE q \notin rows
        <5>1. q \in walk.seen
          BY <2>1, <4>3
        <5>2. UpTo(q, r, walk.order)
          BY <3>4, <4>3 DEF UpTo
        <5> QED
          BY <3>6, <5>1, <5>2
      <4> QED
        BY <4>2, <4>3
    <3>8. walk'.seen = {q \in Selection(store'[1]) : UpTo(q, walk'.after, walk'.order)}
      BY <1>4, <2>2, <3>3, <3>6, <3>7 DEF selected
    <3>9. ASSUME done PROVE walk'.seen = selected
      <4>1. rows = {r}
        BY <3>9 DEF done
      <4>2. \A q \in selected : q \in walk.seen \/ q = r
        BY <2>1, <4>1
      <4> QED
        BY <2>2, <3>3, <3>6, <4>2
    <3>10. WalkInv'
      BY <3>3, <3>6, <3>8 DEF WalkInv
    <3>11. walk'.done => walk'.seen = selected
      BY <3>6, <3>9, Zenon
    <3> QED
      BY <3>10, <3>11 DEF selected
  <2> QED
    BY <2>3, <2>4
<1> QED
  BY <1>5, <1>6

\* What a step does: the archives stay sound and get no worse, and a last page ends one selection.
StoreStep ==
    /\ StoreInv'
    /\ \A s \in Stores : Better(store[s], store'[s])
    /\ walk'.done /\ ~walk.done => walk'.seen = Selection(store[1])

\* Nothing is better than itself.
LEMMA NoWorse ==
    ASSUME NEW a \in Archives
    PROVE  Better(a, a)
<1>1. /\ \A r \in Trips : a.rides[r].at <= a.rides[r].at /\ (a.rides[r].value # 0 => a.rides[r].value # 0)
      /\ \A m \in Periods : a.months[m].at <= a.months[m].at
  BY FieldsAre
<1> QED
  BY <1>1, BetterIs

\* A transaction that makes a sound archive no worse is a good step.
LEMMA CommitIsGood ==
    ASSUME StoreInv, NEW s \in Stores, NEW after, Sound(after), Better(store[s], after), NEW bump \in BOOLEAN,
           Commit(s, after, bump), ~bump => Catalog(after) = Catalog(store[s]), unused' \subseteq unused
    PROVE  StoreStep
<1>1. /\ StoreInv' /\ store'[s] = after /\ \A o \in Stores \ {s} : store'[o] = store[o]
      /\ walk'.done = walk.done
  BY CommitKeeps
<1>2. ASSUME NEW o \in Stores PROVE Better(store[o], store'[o])
  <2>1. store[o] \in Archives
    BY DEF StoreInv, Sound
  <2> QED
    BY <1>1, <2>1, NoWorse
<1> QED
  BY <1>1, <1>2 DEF StoreStep

\* A step of the reader.
LEMMA StillIsGood ==
    ASSUME StoreInv, store' = store, WalkInv', unused' \subseteq unused,
           walk'.done /\ ~walk.done => walk'.seen = Selection(store[1])
    PROVE  StoreStep
<1>1. StoreInv'
  BY DEF StoreInv
<1>2. \A o \in Stores : Better(store[o], store'[o])
  BY NoWorse DEF StoreInv, Sound
<1> QED
  BY <1>1, <1>2 DEF StoreStep

\* A receipt that was overtaken, or a step of something else.
LEMMA StaysGoodWalk ==
    ASSUME StoreInv, UNCHANGED <<store, walk>>, unused' \subseteq unused
    PROVE  StoreStep
<1>1. WalkInv'
  BY DEF StoreInv, WalkInv
<1> QED
  BY <1>1, StillIsGood

\* The list of a month is recorded.
LEMMA MonthKeeps ==
    ASSUME StoreInv, NEW s \in Stores, NEW t \in Times[s], NEW m \in Periods, NEW ids \in Lists, RecordMonth(s, m, t, ids)
    PROVE  StoreStep
<1> DEFINE a == store[s]
           after == [a EXCEPT
                !.months[m] = [at |-> t, ids |-> ids, complete |-> Quality[t] > 0,
                               src |-> IF Quality[t] > 0 THEN t ELSE @.src],
                !.rides = [r \in Trips |-> IF r \in ids THEN Upserted(a.rides[r], t, Fact(t)) ELSE a.rides[r]],
                !.member = @ \union ({m} \X ids),
                !.latest = Relisted(a, m, ids)]
           src == IF Quality[t] > 0 THEN t ELSE a.months[m].src
           complete == Quality[t] > 0
<1>1. t \in Names \ {0} /\ ids \in SUBSET Trips /\ Sound(a) /\ a \in Archives
  BY RideStoreAssumption, NamesAre DEF StoreInv, Sound
<1>2. complete \in BOOLEAN /\ src \in Names /\ Fact(t) \in Names
  <2>1. a.months[m].src \in Names
    BY <1>1, FieldsAre DEF MonthRecords
  <2> QED
    BY <1>1, <2>1, NamesAre DEF Fact
<1>3. unused' \subseteq unused
  BY DEF RecordMonth
<1>4. CASE Outdated(a.months[m].at, t)
  <2>1. UNCHANGED <<store, walk>>
    BY <1>4 DEF RecordMonth
  <2> QED
    BY <1>3, <2>1, StaysGoodWalk
<1>5. CASE ~Outdated(a.months[m].at, t)
  <2>1. Commit(s, after, MonthChanges(a, after))
    BY <1>5 DEF RecordMonth
  <2>2. after = MonthOf(a, m, t, ids, Fact(t), complete, src)
    BY <1>1 DEF Archives, MonthOf
  <2> HIDE DEF after, a, src, complete
  <2>3. Sound(after) /\ Better(a, after)
    BY <1>1, <1>2, <1>5, <2>2, MonthIsSound
  <2>4. MonthChanges(a, after) \in BOOLEAN /\ (~MonthChanges(a, after) => Catalog(after) = Catalog(a))
    BY DEF MonthChanges
  <2> QED
    BY <1>3, <2>1, <2>3, <2>4, CommitIsGood DEF a
<1> QED
  BY <1>4, <1>5

\* A detail is recorded: first the ride's row, then its original and its track.
LEMMA DetailKeeps ==
    ASSUME StoreInv, NEW s \in Stores, NEW t \in Times[s], NEW r \in Trips, RecordDetail(s, r, t)
    PROVE  StoreStep
<1> DEFINE a == store[s]
           c == [a EXCEPT !.rides[r] = Upserted(@, t, Fact(t))]
           row == Upserted(a.rides[r], t, Fact(t))
           rides == [a.rides EXCEPT ![r] = row]
           after == WithDetail(c, r, t)
           bump == Catalog(a) # Catalog(after) \/ a.details # after.details
<1>1. t \in Names \ {0} /\ Sound(a) /\ a \in Archives /\ Fact(t) \in Names
  BY RideStoreAssumption, NamesAre DEF StoreInv, Sound, Fact
<1>2. unused' \subseteq unused
  BY DEF RecordDetail
<1>3. CASE Outdated(a.rides[r].at, t)
  <2>1. UNCHANGED <<store, walk>>
    BY <1>3 DEF RecordDetail
  <2> QED
    BY <1>2, <2>1, StaysGoodWalk
<1>4. CASE ~Outdated(a.rides[r].at, t)
  <2>1. Commit(s, after, bump)
    BY <1>4 DEF RecordDetail
  <2>2. /\ row \in TripRecords /\ row.at >= a.rides[r].at /\ row.at # 0
        /\ a.rides[r].value # 0 => row.value # 0
    <3>1. a.rides[r] \in TripRecords
      BY <1>1, FieldsAre
    <3> QED
      BY <1>1, <3>1, UpsertedDoes
  <2> HIDE DEF row
  <2>3. c = [a EXCEPT !.rides = rides]
    BY <1>1 DEF Archives, row
  <2>4. /\ rides \in [Trips -> TripRecords] /\ rides[r] = row /\ \A q \in Trips \ {r} : rides[q] = a.rides[q]
    BY <1>1, <2>2, FieldsAre
  <2> HIDE DEF rides, c, a
  <2>5. /\ c \in Archives /\ c.months = a.months /\ c.rides = rides /\ c.member = a.member /\ c.latest = a.latest
        /\ c.details = a.details /\ c.payloads = a.payloads
    BY <1>1, <2>3, <2>4 DEF Archives
  <2>6. ASSUME NEW q \in Trips
        PROVE  a.rides[q].at <= c.rides[q].at /\ (a.rides[q].value # 0 => c.rides[q].value # 0)
    <3>1. a.rides[q].at \in Nat /\ c.rides[q].at \in Nat
      BY <1>1, <2>5, FieldsAre
    <3>2. CASE q = r
      BY <2>2, <2>4, <2>5, <3>1, <3>2
    <3>3. CASE q # r
      BY <2>4, <2>5, <3>1, <3>3
    <3> QED
      BY <3>2, <3>3
  <2>7. Sound(c) /\ Better(a, c)
    BY <1>1, <2>5, <2>6, RidesAreSound
  <2>8. c.rides[r].at # 0
    BY <2>2, <2>4, <2>5
  <2>9. /\ Sound(after) /\ Better(c, after)
        /\ \A q \in Trips : c.details[q].geometry # 0 => after.details[q].geometry # 0
    BY <1>1, <2>7, <2>8, DetailIsSound
  <2> HIDE DEF after
  <2>10. Better(a, after)
    <3>1. after \in Archives
      BY <2>9 DEF Sound
    <3> QED
      BY <1>1, <2>5, <2>7, <2>9, <3>1, BetterTwice
  <2>11. bump \in BOOLEAN /\ (~bump => Catalog(after) = Catalog(a))
    OBVIOUS
  <2> HIDE DEF bump
  <2> QED
    BY <1>2, <2>1, <2>9, <2>10, <2>11, CommitIsGood DEF a
<1> QED
  BY <1>3, <1>4

\* A link is restored, or the ledger is imported.
LEMMA RepairsKeep ==
    ASSUME StoreInv, NEW s \in Stores,
           ImportLegacy(s) \/ \E m \in Periods, r \in Trips : RestoreLink(s, m, r)
    PROVE  StoreStep
<1> DEFINE a == store[s]
<1>1. Sound(a)
  BY DEF StoreInv
<1>2. CASE \E m \in Periods, r \in Trips : RestoreLink(s, m, r)
  <2>1. PICK m \in Periods, r \in Trips : RestoreLink(s, m, r)
    BY <1>2
  <2>2. /\ Commit(s, LinkOf(a, m, r), TRUE) /\ unused' = unused
        /\ a.months[m].at # 0 /\ a.details[r].latest # 0
    BY <2>1 DEF RestoreLink, LinkOf
  <2>3. Sound(LinkOf(a, m, r)) /\ Better(a, LinkOf(a, m, r))
    BY <1>1, <2>2, LinkIsSound
  <2> QED
    BY <2>2, <2>3, CommitIsGood
<1>3. CASE ImportLegacy(s)
  <2> DEFINE rides == [r \in Trips |-> IF r \in Ledger.known THEN Upserted(a.rides[r], 1, 1) ELSE a.rides[r]]
             listed == {1} \X {r \in Ledger.ids : rides[r].at # 0}
             imported == [a EXCEPT !.imported = TRUE, !.rides = rides]
             after == IF a.months[1].at >= 1 THEN imported
                      ELSE [imported EXCEPT
                         !.months[1] = [at |-> 1, ids |-> Ledger.ids, complete |-> FALSE, src |-> 0],
                         !.member = @ \union listed, !.latest = @ \union (listed \ a.member)]
  <2>1. Commit(s, after, TRUE) /\ unused' = unused
    BY <1>3 DEF ImportLegacy
  <2>2. Sound(after) /\ Better(a, after)
    BY <1>1, LedgerIsSound
  <2> HIDE DEF after
  <2> QED
    BY <2>1, <2>2, CommitIsGood
<1> QED
  BY <1>2, <1>3

\* Another archive of the account is merged.
LEMMA MergeIsGood ==
    ASSUME StoreInv, NEW s \in Stores, NEW o \in Stores, MergeArchive(s, o)
    PROVE  StoreStep /\ Originals(store[s]) \union Originals(store[o]) \subseteq Originals(store'[s])
<1> DEFINE after == MergeInto(store[s], store[o])
<1>1. Sound(store[s]) /\ Sound(store[o])
  BY DEF StoreInv
<1>2. /\ s # o /\ Replayable(store[s], store[o]) /\ Commit(s, after, TRUE) /\ unused' = unused
  BY DEF MergeArchive
<1>3. Unites(store[s], store[o], after)
  BY <1>1, MergeUnites
<1> HIDE DEF after
<1>4. Sound(after) /\ Better(store[s], after)
  BY <1>1, <1>2, <1>3, UnionIsSound
<1>5. StoreStep
  BY <1>2, <1>4, CommitIsGood
<1>6. store'[s] = after
  BY <1>2 DEF Commit, StoreInv
<1> QED
  BY <1>3, <1>5, <1>6 DEF Unites, Absorbed

\* A reader starts, or takes a page.
LEMMA ReaderKeeps ==
    ASSUME StoreInv, Reader
    PROVE  StoreStep
<1>1. CASE ReadPage
  <2>1. store' = store /\ unused' \subseteq unused
    BY <1>1 DEF ReadPage
  <2> QED
    BY <1>1, <2>1, PageIs, StillIsGood
<1>2. CASE \E order \in {"asc", "desc"} : StartWalk(order)
  <2>1. PICK order \in {"asc", "desc"} : StartWalk(order)
    BY <1>2
  <2>2. store' = store /\ unused' = unused /\ walk' = [NoWalk EXCEPT !.on = TRUE, !.order = order]
    BY <2>1 DEF StartWalk
  <2>3. /\ walk' \in [on : BOOLEAN, order : {"asc", "desc"}, seen : SUBSET Trips, after : Trips \union {0},
                      valid : BOOLEAN, done : BOOLEAN]
        /\ walk'.after = 0 /\ walk'.seen = {} /\ ~walk'.done
    BY <2>2 DEF NoWalk
  <2>4. WalkInv'
    BY <2>3 DEF WalkInv
  <2> QED
    BY <2>2, <2>3, <2>4, StillIsGood
<1> QED
  BY <1>1, <1>2 DEF Reader

\* Every step is good.
LEMMA StepsAreGood ==
    ASSUME StoreInv, [StoreNext]_storeVars
    PROVE  StoreStep
<1>1. CASE Receipts
  BY <1>1, MonthKeeps, DetailKeeps DEF Receipts
<1>2. CASE Repairs
  BY <1>2, RepairsKeep DEF Repairs
<1>3. CASE Merges
  BY <1>3, MergeIsGood DEF Merges
<1>4. CASE Reader
  BY <1>4, ReaderKeeps
<1>5. CASE UNCHANGED storeVars
  BY <1>5, StaysGoodWalk DEF storeVars
<1> QED
  BY <1>1, <1>2, <1>3, <1>4, <1>5 DEF StoreNext

\* An empty archive is sound.
LEMMA StoreStarts ==
    ASSUME StoreInit
    PROVE  StoreInv
<1>1. /\ [m \in Periods |-> NoMonth] \in [Periods -> MonthRecords]
      /\ [r \in Trips |-> NoTrip] \in [Trips -> TripRecords]
      /\ [r \in Trips |-> NoDetail] \in [Trips -> DetailRecords]
  BY RowsAre
<1> DEFINE months == [m \in Periods |-> NoMonth]
           rides == [r \in Trips |-> NoTrip]
           details == [r \in Trips |-> NoDetail]
<1>2. /\ \A m \in Periods : months[m] = NoMonth
      /\ \A r \in Trips : rides[r] = NoTrip /\ details[r] = NoDetail
  OBVIOUS
<1>3. Empty = [months |-> months, rides |-> rides, member |-> {}, latest |-> {}, details |-> details,
               payloads |-> {}, evidence |-> {}, imported |-> FALSE]
  BY DEF Empty
<1> HIDE DEF months, rides, details
<1>4. /\ Empty \in Archives /\ Empty.months = months /\ Empty.rides = rides /\ Empty.details = details
      /\ Empty.member = {} /\ Empty.latest = {}
  BY <1>1, <1>3 DEF Archives, months, rides, details
<1>5. Sound(Empty)
  <2>1. MarksFit(Empty)
    BY <1>2, <1>4, RowsAre DEF MarksFit, Marked
  <2>2. Rooted(Empty)
    BY <1>2, <1>4, RowsAre DEF Rooted
  <2>3. Consistent(Empty)
    BY <1>2, <1>4, RowsAre DEF Consistent
  <2> QED
    BY <1>4, <2>1, <2>2, <2>3 DEF Sound
<1>6. WalkInv
  <2>1. walk = NoWalk
    BY DEF StoreInit
  <2> QED
    BY <2>1 DEF WalkInv, NoWalk
<1> HIDE DEF Empty
<1> QED
  BY <1>5, <1>6 DEF StoreInit, StoreInv

\* The invariant holds in every state.
LEMMA StoreInvariant == StoreSafe => []StoreInv
<1>1. StoreInit => StoreInv
  BY StoreStarts
<1>2. StoreInv /\ [StoreNext]_storeVars => StoreInv'
  BY StepsAreGood DEF StoreStep
<1> QED
  BY <1>1, <1>2, PTL DEF StoreSafe

\* The marks of a month are its newest list whatever order receipts, imports, repairs and merges came
\* in, and a reader's pages are one selection (run archive).
THEOREM SelectionsAreOne == StoreSafe => SelectionIsOne
<1>1. ASSUME StoreInv, [StoreNext]_storeVars
      PROVE  MarksAreTheList' /\ WalkIsOneSelection
  <2>1. StoreStep
    BY <1>1, StepsAreGood
  <2>2. MarksAreTheList'
    <3>1. \A s \in Stores : MarksFit(store'[s])
      BY <2>1 DEF StoreStep, StoreInv, Sound
    <3> QED
      BY <3>1 DEF MarksAreTheList, MarksFit, Marked
  <2> QED
    BY <2>1, <2>2 DEF StoreStep, WalkIsOneSelection
<1> QED
  BY <1>1, StoreInvariant, PTL DEF StoreSafe, SelectionIsOne

\* An import drops no original of either archive, and no write puts an older receipt, a worse track or
\* no fact in the place of what there was (run archive).
THEOREM WritesKeep == StoreSafe => WritesKeepTheBest
<1>1. ASSUME StoreInv, [StoreNext]_storeVars
      PROVE  \A s, o \in Stores : MergeArchive(s, o) =>
                Originals(store[s]) \union Originals(store[o]) \subseteq Originals(store'[s])
  BY <1>1, MergeIsGood
<1>2. StoreSafe => ImportKeepsOriginals
  BY <1>1, StoreInvariant, PTL DEF StoreSafe, ImportKeepsOriginals
<1>3. ASSUME StoreInv, [StoreNext]_storeVars
      PROVE  \A s \in Stores : Better(store[s], store'[s])
  BY <1>3, StepsAreGood DEF StoreStep
<1>4. StoreSafe => [][\A s \in Stores : Better(store[s], store'[s])]_storeVars
  BY <1>3, StoreInvariant, PTL DEF StoreSafe
<1>5. (\A s \in Stores : Better(store[s], store'[s])) =>
         \A s \in Stores, r \in Trips :
            LET a == store[s] b == store'[s] IN
            /\ a.rides[r].at <= b.rides[r].at /\ (a.rides[r].value # 0 => b.rides[r].value # 0)
            /\ a.details[r].at <= b.details[r].at
            /\ a.details[r].geometry # 0 => Quality[a.details[r].geometry] <= Quality[b.details[r].geometry]
            /\ \A m \in Periods : a.months[m].at <= b.months[m].at
  BY DEF Better
<1>6. StoreSafe => NothingRegresses
  BY <1>4, <1>5, PTL DEF NothingRegresses
<1> QED
  BY <1>2, <1>6 DEF WritesKeepTheBest

\* An archive never refers to a ride or an original it does not have, which is what `validate` asks of
\* one that is to be merged.
THEOREM StoresAreConsistent == StoreSafe => []StoreTypeOK
<1>1. ASSUME StoreInv
      PROVE  StoreTypeOK
  <2>1. ASSUME NEW s \in Stores PROVE DOMAIN store[s] = DOMAIN Empty /\ Consistent(store[s])
    <3>1. store[s] \in Archives /\ Consistent(store[s])
      BY <1>1 DEF StoreInv, Sound
    <3>2. DOMAIN store[s] = {"months", "rides", "member", "latest", "details", "payloads", "evidence", "imported"}
      BY <3>1 DEF Archives
    <3>3. DOMAIN Empty = {"months", "rides", "member", "latest", "details", "payloads", "evidence", "imported"}
      BY DEF Empty
    <3> QED
      BY <3>1, <3>2, <3>3
  <2> QED
    BY <1>1, <2>1 DEF StoreTypeOK, StoreInv
<1> QED
  BY <1>1, StoreInvariant, PTL
=============================================================================
