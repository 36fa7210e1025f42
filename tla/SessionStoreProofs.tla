------------------------- MODULE SessionStoreProofs -------------------------
(***************************************************************************)
(* Whatever system calls fail and whenever the program is killed, the      *)
(* files of a key implement one session that changes in one step, and the  *)
(* flow tells the truth about it, for every set of versions and any number *)
(* of crashes and faults; and no runtime has its files replaced under it.  *)
(***************************************************************************)
EXTENDS SessionStore, SequenceTheorems, TLAPS

LockFlows == {"commit", "undo", "rollback", "finalize", "remove"}

\* Who waits for the lock: the setup that recovers, before the flow.
Queue ==
    IF entry = "recovering"
    THEN IF flow \in LockFlows THEN <<"setup", "flow">> ELSE <<"setup">>
    ELSE IF flow \in LockFlows THEN <<"flow">> ELSE <<>>

Job(ats, thens) == work.at \in ats /\ work.then \in thens
RollbackSteps == {"clear", "restore", "drop", "unlink"}
WipeSteps == {"check", "wipe", "wipe backup", "wipe candidate", "wipe journal"}

\* The job of the holder.
HolderInv ==
    /\ lockq = Queue
    /\ work # Idle =>
         /\ lockq # <<>> /\ ~other
         /\ entry = "recovering" =>
              Job(RollbackSteps \cup {"look", "purge", "untemp", "ended"}, {"end"})
         /\ entry # "recovering" =>
              /\ flow = "commit" =>
                   \/ Job({"look", "purge", "untemp"}, {"commit"})
                   \/ Job(RollbackSteps, {"commit", "raise"})
                   \/ Job({"temp", "journal", "keep", "publish", "ended"}, {"end"})
              /\ flow \in {"undo", "rollback"} => Job(RollbackSteps \cup {"ended"}, {"end"})
              /\ flow = "finalize" => Job({"accept", "sweep", "ended"}, {"end"})
              /\ flow = "remove" => Job(WipeSteps \cup {"ended"}, {"end"})

\* What is on disk at each step of a job.
DiskInv ==
    /\ journal # Nothing /\ backup # Nothing => journal.had
    /\ journal # Nothing => ~temp
    /\ work.at = "clear" /\ work.then # "end" => journal # Nothing
    /\ work.at = "restore" =>
         /\ backup # Nothing
         /\ journal = Nothing => dest = Nothing /\ (work.then = "commit" \/ entry = "recovering")
    /\ work.at \in {"drop", "unlink"} =>
         journal # Nothing /\ backup = Nothing /\ (journal.had \/ dest \in {Nothing, Torn})
    /\ work.at = "purge" => journal = Nothing /\ dest # Nothing /\ backup # Nothing
    /\ work.at \in {"untemp", "temp", "journal"} => journal = Nothing /\ backup = Nothing
    /\ work.at = "temp" => ~temp
    /\ work.at = "keep" => journal # Nothing /\ backup = Nothing /\ (journal.had <=> dest # Nothing)
    /\ work.at = "publish" => journal # Nothing /\ dest = Nothing /\ (journal.had <=> backup # Nothing)
    /\ work.at = "accept" => journal # Nothing
    /\ work.at = "sweep" => journal = Nothing

Outcomes == {"committed", "finished", "pending"}

\* The candidate of the flow, and when it may be in place.
InPlace ==
    \/ flow = "commit" /\ entry # "recovering" /\ work.at = "ended" /\ work.ok
    \/ flow = "undo" /\ work.at = "clear"
    \/ flow \in {"update", "reload", "reloading", "finalize"}
    \/ flow = "cleanup" /\ facts \cap {"committed", "finished"} # {}
    \/ flow = "rollback" /\ (work = Idle \/ work.at = "clear")
    \/ flow \in {"discard", "restart", "restarting", "leave"} /\ facts \cap {"pending", "finished"} # {}

FlowInv ==
    /\ {dest, backup} \subseteq minted \cup {Nothing, Torn}
    /\ trial = Nothing <=> flow \in {"none", "remove"}
    /\ trial # Nothing => trial \in minted /\ trial # backup /\ entry # "removed"
    /\ flow = "remove" => entry = "removed"
    /\ flow \in {"none", "open", "prepared", "commit", "undo", "remove"} => facts \cap Outcomes = {}
    /\ entry = "recovering" =>
         /\ facts \cap Outcomes = {}
         /\ flow \notin {"undo", "update", "reload", "reloading", "finalize", "rollback", "remove"}

OutcomeInv ==
    trial # Nothing =>
      /\ dest = trial => InPlace
      /\ dest = trial /\ journal # Nothing /\ backup = Nothing => ~journal.had
      /\ dest = trial /\ journal = Nothing =>
           \/ "finished" \in facts
           \/ flow = "finalize" /\ (work.at = "sweep" \/ (work.at = "ended" /\ work.ok))
           \/ flow = "cleanup" /\ "committed" \in facts
      /\ flow \in {"update", "reload", "reloading", "finalize"} => dest = trial /\ "committed" \in facts
      /\ flow \in {"update", "reload", "reloading"} => journal # Nothing
      /\ flow = "finalize" /\ (work = Idle \/ (work.at = "ended" /\ ~work.ok)) => journal # Nothing
      /\ flow = "finalize" /\ work.at = "ended" /\ work.ok => journal = Nothing
      /\ flow = "cleanup" /\ "committed" \in facts => dest = trial
      /\ flow = "rollback" /\ (work = Idle \/ work.at = "clear") => journal # Nothing
      /\ flow = "commit" /\ entry # "recovering" /\ work.at = "ended" /\ work.ok =>
           dest = trial /\ journal # Nothing
      /\ "finished" \in facts => dest = trial /\ journal = Nothing

SInv == SessionTypeOK /\ HolderInv /\ DiskInv /\ FlowInv /\ OutcomeInv

\* What a step does to the session and the candidate: a step of AtomicSession, or none.
AbstractStep ==
    \/ Session' = Session /\ trial = Nothing /\ trial' \in Versions
    \/ Session' = trial /\ trial # Nothing /\ trial' = trial
    \/ Session' = Session /\ trial' \in {trial, Nothing}
    \/ Session' = Nothing /\ trial = Nothing /\ trial' = trial /\ entry' = "removed"

\* The queues of the lock, spelled out.
LEMMA QueueFacts ==
    /\ Append(<<>>, "flow") = <<"flow">> /\ Append(<<>>, "setup") = <<"setup">>
    /\ Append(<<"setup">>, "flow") = <<"setup", "flow">>
    /\ Tail(<<"flow">>) = <<>> /\ Tail(<<"setup">>) = <<>>
    /\ Tail(<<"setup", "flow">>) = <<"flow">>
    /\ Head(<<"setup", "flow">>) = "setup" /\ Head(<<"setup">>) = "setup"
    /\ Head(<<"flow">>) = "flow"
    /\ <<>> # <<"flow">> /\ <<>> # <<"setup">> /\ <<>> # <<"setup", "flow">>
    /\ <<"flow">> # <<"setup">> /\ <<"flow">> # <<"setup", "flow">>
    /\ {<<>>, <<"flow">>, <<"setup">>, <<"setup", "flow">>} \subseteq Seq({"flow", "setup"})
<1> DEFINE P == {"flow", "setup"}
<1>1. <<"setup">> \in Seq(P) /\ <<"setup", "flow">> \in Seq(P) /\ <<"flow">> \in Seq(P) /\ <<>> \in Seq(P)
  OBVIOUS
<1>2. Append(<<"setup">>, "flow") = <<"setup", "flow">>
  <2>1. Append(<<"setup">>, "flow") \in Seq(P) /\ Len(Append(<<"setup">>, "flow")) = 2
    BY <1>1
  <2>2. \A i \in 1..2 : Append(<<"setup">>, "flow")[i] = <<"setup", "flow">>[i]
    BY <1>1
  <2>3. Len(<<"setup", "flow">>) = 2
    OBVIOUS
  <2> HIDE DEF P
  <2> QED
    BY <1>1, <2>1, <2>2, <2>3, SeqEqual
<1>3. Append(<<>>, "flow") = <<"flow">> /\ Append(<<>>, "setup") = <<"setup">>
  OBVIOUS
<1>4. Tail(<<"flow">>) = <<>>
  OBVIOUS
<1>5. Tail(<<"setup">>) = <<>>
  OBVIOUS
<1>6. Tail(<<"setup", "flow">>) = <<"flow">>
  OBVIOUS
<1>7. Head(<<"setup", "flow">>) = "setup" /\ Head(<<"setup">>) = "setup" /\ Head(<<"flow">>) = "flow"
  OBVIOUS
<1>8. Len(<<>>) = 0 /\ Len(<<"flow">>) = 1 /\ Len(<<"setup">>) = 1 /\ Len(<<"setup", "flow">>) = 2
  OBVIOUS
<1>9. <<"flow">>[1] # <<"setup">>[1]
  OBVIOUS
<1> QED
  BY <1>1, <1>2, <1>3, <1>4, <1>5, <1>6, <1>7, <1>8, <1>9

\* The states of a thread.
LEMMA JobTypes ==
    /\ \A b \in BOOLEAN : /\ Ended(b) \in FileJobs
                         /\ Ended(b).at = "ended" /\ Ended(b).then = "end" /\ Ended(b).ok = b
    /\ \A a \in FileSteps, t \in {"end", "commit", "raise"} :
          Start(a, t) \in FileJobs /\ Start(a, t).at = a /\ Start(a, t).then = t
    /\ \A w \in FileJobs : w.at \in FileSteps /\ w.then \in {"end", "commit", "raise"} /\ w.ok \in BOOLEAN
    /\ Idle \notin FileJobs /\ Idle.at = "idle" /\ Idle.at \notin FileSteps
<1>1. ASSUME NEW b \in BOOLEAN
      PROVE  Ended(b) \in FileJobs /\ Ended(b).at = "ended" /\ Ended(b).then = "end" /\ Ended(b).ok = b
  BY DEF Ended, FileJobs, FileSteps
<1>2. ASSUME NEW a \in FileSteps, NEW t \in {"end", "commit", "raise"}
      PROVE  Start(a, t) \in FileJobs /\ Start(a, t).at = a /\ Start(a, t).then = t
  BY DEF Start, FileJobs
<1>3. ASSUME NEW w \in FileJobs
      PROVE  w.at \in FileSteps /\ w.then \in {"end", "commit", "raise"} /\ w.ok \in BOOLEAN
  BY DEF FileJobs
<1>4. Idle.at = "idle" /\ Idle.at \notin FileSteps
  BY DEF Idle, FileSteps
<1> QED
  BY <1>1, <1>2, <1>3, <1>4

\* The next step of a job.
LEMMA GotoStep ==
    ASSUME work \in FileJobs, NEW a \in FileSteps, Goto(a)
    PROVE  work' \in FileJobs /\ work'.at = a /\ work'.then = work.then
BY DEF Goto, FileJobs

\* A rollback or a recovery that is complete goes on as its job says.
LEMMA ResolvedStep ==
    ASSUME work \in FileJobs, Resolved
    PROVE  /\ work' \in FileJobs
           /\ work.then = "end" => work'.at = "ended" /\ work'.then = "end" /\ work'.ok
           /\ work.then = "commit" => work'.at = "temp" /\ work'.then = "end"
           /\ work.then = "raise" => work'.at = "ended" /\ work'.then = "end" /\ ~work'.ok
<1>1. {"ended", "temp"} \subseteq FileSteps
  BY DEF FileSteps
<1>2. CASE work.then = "end"
  <2>1. work' = Ended(TRUE)
    BY <1>2 DEF Resolved
  <2> QED
    BY <1>2, <2>1, JobTypes
<1>3. CASE work.then = "commit"
  <2>1. work' = Start("temp", "end")
    BY <1>3 DEF Resolved
  <2> QED
    BY <1>1, <1>3, <2>1, JobTypes
<1>4. CASE work.then = "raise"
  <2>1. work' = Ended(FALSE)
    BY <1>4 DEF Resolved
  <2> QED
    BY <1>4, <2>1, JobTypes
<1> QED
  BY <1>2, <1>3, <1>4, JobTypes

\* A thread changes the files and its own state.
Beside ==
    /\ UNCHANGED <<lockq, other, flow, trial, facts, minted, entry, serving, crashes>>
    /\ faults' \in 0..MaxFaults
    /\ work \in FileJobs
GoesTo(a) == work' \in FileJobs /\ work'.at = a /\ work'.then = work.then
Ends(b)   == work' \in FileJobs /\ work'.at = "ended" /\ work'.then = "end" /\ work'.ok = b
Resolves  ==
    /\ work' \in FileJobs
    /\ work.then = "end" => work'.at = "ended" /\ work'.then = "end" /\ work'.ok
    /\ work.then = "commit" => work'.at = "temp" /\ work'.then = "end"
    /\ work.then = "raise" => work'.at = "ended" /\ work'.then = "end" /\ ~work'.ok

\* How the state of the thread changes.
LEMMA ThreadMoves ==
    ASSUME Beside
    PROVE  /\ \A a \in FileSteps : Goto(a) => GoesTo(a)
           /\ \A b \in BOOLEAN : work' = Ended(b) => Ends(b)
           /\ Resolved => Resolves
BY GotoStep, ResolvedStep, JobTypes DEF Beside, GoesTo, Ends, Resolves

\* The names of the steps.
LEMMA StepNames ==
    /\ RollbackSteps \cup WipeSteps \subseteq FileSteps
    /\ {"look", "purge", "untemp", "temp", "journal", "keep", "publish", "accept", "sweep"} \subseteq FileSteps
BY DEF FileSteps, RollbackSteps, WipeSteps

\* _recover decides what an interrupted transaction needs.
LookEffect ==
    /\ work.at = "look" /\ UNCHANGED <<dest, backup, cands, journal, temp>>
    /\ journal # Nothing => GoesTo("clear")
    /\ journal = Nothing /\ backup # Nothing /\ dest = Nothing => GoesTo("restore")
    /\ journal = Nothing /\ backup # Nothing /\ dest # Nothing => GoesTo("purge")
    /\ journal = Nothing /\ backup = Nothing => GoesTo("untemp")

\* That is what Look does.
LEMMA LookDoes == ASSUME SessionAssumption, SInv, Beside, Look PROVE LookEffect
<1>1. /\ Goto("clear") => GoesTo("clear")
      /\ Goto("restore") => GoesTo("restore")
      /\ Goto("purge") => GoesTo("purge")
      /\ Goto("untemp") => GoesTo("untemp")
  BY ThreadMoves, StepNames DEF RollbackSteps, WipeSteps
<1> QED
  BY <1>1 DEF Look, disk, LookEffect

\* Look keeps the invariant, and the session changes only as AtomicSession allows.
LEMMA LookKeeps ==
    ASSUME SessionAssumption, SInv, Beside, Look
    PROVE  SInv' /\ AbstractStep
<1>1. LookEffect
  BY LookDoes
<1>2. work \in FileJobs /\ work # Idle /\ work' # Idle
  BY <1>1, JobTypes DEF LookEffect, Beside, GoesTo, Ends, Resolves
<1>3. HolderInv'
  BY <1>1, <1>2 DEF LookEffect, Beside, GoesTo, Ends, Resolves, SInv, HolderInv, DiskInv, Job,
     RollbackSteps, WipeSteps, Queue, LockFlows
<1>4. SessionTypeOK'
  BY <1>1, <1>2 DEF LookEffect, Beside, GoesTo, Ends, Resolves, SInv, SessionTypeOK, HolderInv,
     FlowInv, Queue, LockFlows
<1>5. DiskInv'
  BY <1>1, <1>2 DEF LookEffect, Beside, GoesTo, Ends, Resolves, SInv, HolderInv, DiskInv, Job,
     RollbackSteps, WipeSteps, Queue, LockFlows
<1>6. FlowInv'
  BY <1>1, <1>2 DEF LookEffect, Beside, SInv, SessionTypeOK, HolderInv, FlowInv, OutcomeInv,
     InPlace, Job, RollbackSteps, WipeSteps, Queue, LockFlows, SessionAssumption
<1>7. OutcomeInv'
  BY <1>1, <1>2 DEF LookEffect, Beside, GoesTo, Ends, Resolves, SInv, SessionTypeOK, HolderInv,
     DiskInv, FlowInv, OutcomeInv, InPlace, Outcomes, Job, RollbackSteps, WipeSteps, Queue,
     LockFlows, SessionAssumption
<1>8. AbstractStep
  BY <1>1, <1>2 DEF LookEffect, Beside, SInv, SessionTypeOK, HolderInv, DiskInv, FlowInv,
     OutcomeInv, InPlace, Job, RollbackSteps, WipeSteps, Queue, LockFlows, SessionAssumption,
     Recovered, Session, AbstractStep
<1> QED
  BY <1>3, <1>4, <1>5, <1>6, <1>7, <1>8 DEF SInv

\* _recover removes a backup that has a successor.
PurgeEffect ==
    /\ work.at = "purge" /\ UNCHANGED <<dest, cands, journal, temp>>
    /\ backup' = Nothing /\ GoesTo("untemp")

\* That is what Purge does.
LEMMA PurgeDoes == ASSUME SessionAssumption, SInv, Beside, Purge PROVE PurgeEffect
<1>1. /\ Goto("untemp") => GoesTo("untemp")
  BY ThreadMoves, StepNames DEF RollbackSteps, WipeSteps
<1> QED
  BY <1>1 DEF Purge, PurgeEffect

\* Purge keeps the invariant, and the session changes only as AtomicSession allows.
LEMMA PurgeKeeps ==
    ASSUME SessionAssumption, SInv, Beside, Purge
    PROVE  SInv' /\ AbstractStep
<1>1. PurgeEffect
  BY PurgeDoes
<1>2. work \in FileJobs /\ work # Idle /\ work' # Idle
  BY <1>1, JobTypes DEF PurgeEffect, Beside, GoesTo, Ends, Resolves
<1>3. HolderInv'
  BY <1>1, <1>2 DEF PurgeEffect, Beside, GoesTo, Ends, Resolves, SInv, HolderInv, DiskInv, Job,
     RollbackSteps, WipeSteps, Queue, LockFlows
<1>4. SessionTypeOK'
  BY <1>1, <1>2 DEF PurgeEffect, Beside, GoesTo, Ends, Resolves, SInv, SessionTypeOK, HolderInv,
     FlowInv, Queue, LockFlows
<1>5. DiskInv'
  BY <1>1, <1>2 DEF PurgeEffect, Beside, GoesTo, Ends, Resolves, SInv, HolderInv, DiskInv, Job,
     RollbackSteps, WipeSteps, Queue, LockFlows
<1>6. FlowInv'
  BY <1>1, <1>2 DEF PurgeEffect, Beside, SInv, SessionTypeOK, HolderInv, FlowInv, OutcomeInv,
     InPlace, Job, RollbackSteps, WipeSteps, Queue, LockFlows, SessionAssumption
<1>7. OutcomeInv'
  BY <1>1, <1>2 DEF PurgeEffect, Beside, GoesTo, Ends, Resolves, SInv, SessionTypeOK, HolderInv,
     DiskInv, FlowInv, OutcomeInv, InPlace, Outcomes, Job, RollbackSteps, WipeSteps, Queue,
     LockFlows, SessionAssumption
<1>8. AbstractStep
  BY <1>1, <1>2 DEF PurgeEffect, Beside, SInv, SessionTypeOK, HolderInv, DiskInv, FlowInv,
     OutcomeInv, InPlace, Job, RollbackSteps, WipeSteps, Queue, LockFlows, SessionAssumption,
     Recovered, Session, AbstractStep
<1> QED
  BY <1>3, <1>4, <1>5, <1>6, <1>7, <1>8 DEF SInv

\* _recover removes the temporary journal.
UntempEffect ==
    /\ work.at = "untemp" /\ UNCHANGED <<dest, backup, cands, journal>>
    /\ temp' = FALSE /\ Resolves

\* That is what Untemp does.
LEMMA UntempDoes == ASSUME SessionAssumption, SInv, Beside, Untemp PROVE UntempEffect
<1>1. /\ (Resolved => Resolves)
  BY ThreadMoves, StepNames DEF RollbackSteps, WipeSteps
<1> QED
  BY <1>1 DEF Untemp, UntempEffect

\* Untemp keeps the invariant, and the session changes only as AtomicSession allows.
LEMMA UntempKeeps ==
    ASSUME SessionAssumption, SInv, Beside, Untemp
    PROVE  SInv' /\ AbstractStep
<1>1. UntempEffect
  BY UntempDoes
<1>2. work \in FileJobs /\ work # Idle /\ work' # Idle
  BY <1>1, JobTypes DEF UntempEffect, Beside, GoesTo, Ends, Resolves
<1>3. HolderInv'
  BY <1>1, <1>2 DEF UntempEffect, Beside, GoesTo, Ends, Resolves, SInv, HolderInv, DiskInv, Job,
     RollbackSteps, WipeSteps, Queue, LockFlows
<1>4. SessionTypeOK'
  BY <1>1, <1>2 DEF UntempEffect, Beside, GoesTo, Ends, Resolves, SInv, SessionTypeOK,
     HolderInv, FlowInv, Queue, LockFlows
<1>5. DiskInv'
  BY <1>1, <1>2 DEF UntempEffect, Beside, GoesTo, Ends, Resolves, SInv, HolderInv, DiskInv, Job,
     RollbackSteps, WipeSteps, Queue, LockFlows
<1>6. FlowInv'
  BY <1>1, <1>2 DEF UntempEffect, Beside, SInv, SessionTypeOK, HolderInv, FlowInv, OutcomeInv,
     InPlace, Job, RollbackSteps, WipeSteps, Queue, LockFlows, SessionAssumption
<1>7. OutcomeInv'
  BY <1>1, <1>2 DEF UntempEffect, Beside, GoesTo, Ends, Resolves, SInv, SessionTypeOK,
     HolderInv, DiskInv, FlowInv, OutcomeInv, InPlace, Outcomes, Job, RollbackSteps, WipeSteps,
     Queue, LockFlows, SessionAssumption
<1>8. AbstractStep
  BY <1>1, <1>2 DEF UntempEffect, Beside, SInv, SessionTypeOK, HolderInv, DiskInv, FlowInv,
     OutcomeInv, InPlace, Job, RollbackSteps, WipeSteps, Queue, LockFlows, SessionAssumption,
     Recovered, Session, AbstractStep
<1> QED
  BY <1>3, <1>4, <1>5, <1>6, <1>7, <1>8 DEF SInv

\* _rollback removes the new directory, whole or in part.
ClearEffect ==
    /\ work.at = "clear" /\ UNCHANGED <<backup, cands, journal, temp>>
    /\ journal = Nothing => Resolves /\ dest' = dest
    /\ journal # Nothing /\ backup # Nothing => GoesTo("restore")
    /\ journal # Nothing /\ backup = Nothing => GoesTo("drop")
    /\ journal # Nothing /\ (backup # Nothing \/ ~journal.had) => dest' \in {Nothing, Torn}
    /\ journal # Nothing /\ ~(backup # Nothing \/ ~journal.had) => dest' = dest

\* That is what Clear does.
LEMMA ClearDoes == ASSUME SessionAssumption, SInv, Beside, \E rest \in {Nothing, Torn} : Clear(rest) PROVE ClearEffect
<1>1. /\ Goto("restore") => GoesTo("restore")
      /\ Goto("drop") => GoesTo("drop")
      /\ (Resolved => Resolves)
  BY ThreadMoves, StepNames DEF RollbackSteps, WipeSteps
<1> QED
  BY <1>1 DEF Clear, Replaced, ClearEffect

\* Clear keeps the invariant, and the session changes only as AtomicSession allows.
LEMMA ClearKeeps ==
    ASSUME SessionAssumption, SInv, Beside, \E rest \in {Nothing, Torn} : Clear(rest)
    PROVE  SInv' /\ AbstractStep
<1>1. ClearEffect
  BY ClearDoes
<1>2. work \in FileJobs /\ work # Idle /\ work' # Idle
  BY <1>1, JobTypes DEF ClearEffect, Beside, GoesTo, Ends, Resolves
<1>3. HolderInv'
  BY <1>1, <1>2 DEF ClearEffect, Beside, GoesTo, Ends, Resolves, SInv, HolderInv, DiskInv, Job,
     RollbackSteps, WipeSteps, Queue, LockFlows
<1>4. SessionTypeOK'
  BY <1>1, <1>2 DEF ClearEffect, Beside, GoesTo, Ends, Resolves, SInv, SessionTypeOK, HolderInv,
     FlowInv, Queue, LockFlows
<1>5. DiskInv'
  BY <1>1, <1>2 DEF ClearEffect, Beside, GoesTo, Ends, Resolves, SInv, HolderInv, DiskInv, Job,
     RollbackSteps, WipeSteps, Queue, LockFlows
<1>6. FlowInv'
  BY <1>1, <1>2 DEF ClearEffect, Beside, SInv, SessionTypeOK, HolderInv, FlowInv, OutcomeInv,
     InPlace, Job, RollbackSteps, WipeSteps, Queue, LockFlows, SessionAssumption
<1>7. OutcomeInv'
  BY <1>1, <1>2 DEF ClearEffect, Beside, GoesTo, Ends, Resolves, SInv, SessionTypeOK, HolderInv,
     DiskInv, FlowInv, OutcomeInv, InPlace, Outcomes, Job, RollbackSteps, WipeSteps, Queue,
     LockFlows, SessionAssumption
<1>8. AbstractStep
  BY <1>1, <1>2 DEF ClearEffect, Beside, SInv, SessionTypeOK, HolderInv, DiskInv, FlowInv,
     OutcomeInv, InPlace, Job, RollbackSteps, WipeSteps, Queue, LockFlows, SessionAssumption,
     Recovered, Session, AbstractStep
<1> QED
  BY <1>3, <1>4, <1>5, <1>6, <1>7, <1>8 DEF SInv

\* _rollback puts the backup back: no session changes.
RestoreEffect ==
    /\ work.at = "restore" /\ UNCHANGED <<cands, journal, temp>>
    /\ dest # Nothing => Ends(FALSE) /\ UNCHANGED <<dest, backup>>
    /\ dest = Nothing => dest' = backup /\ backup' = Nothing
    /\ dest = Nothing /\ journal = Nothing => GoesTo("untemp")
    /\ dest = Nothing /\ journal # Nothing => GoesTo("drop")

\* That is what Restore does.
LEMMA RestoreDoes == ASSUME SessionAssumption, SInv, Beside, Restore PROVE RestoreEffect
<1>1. /\ Goto("untemp") => GoesTo("untemp")
      /\ Goto("drop") => GoesTo("drop")
      /\ (work' = Ended(FALSE) => Ends(FALSE))
  BY ThreadMoves, StepNames DEF RollbackSteps, WipeSteps
<1> QED
  BY <1>1 DEF Restore, RestoreEffect

\* Restore keeps the invariant, and the session changes only as AtomicSession allows.
LEMMA RestoreKeeps ==
    ASSUME SessionAssumption, SInv, Beside, Restore
    PROVE  SInv' /\ AbstractStep
<1>1. RestoreEffect
  BY RestoreDoes
<1>2. work \in FileJobs /\ work # Idle /\ work' # Idle
  BY <1>1, JobTypes DEF RestoreEffect, Beside, GoesTo, Ends, Resolves
<1>3. HolderInv'
  BY <1>1, <1>2 DEF RestoreEffect, Beside, GoesTo, Ends, Resolves, SInv, HolderInv, DiskInv,
     Job, RollbackSteps, WipeSteps, Queue, LockFlows
<1>4. SessionTypeOK'
  BY <1>1, <1>2 DEF RestoreEffect, Beside, GoesTo, Ends, Resolves, SInv, SessionTypeOK,
     HolderInv, FlowInv, Queue, LockFlows
<1>5. DiskInv'
  BY <1>1, <1>2 DEF RestoreEffect, Beside, GoesTo, Ends, Resolves, SInv, HolderInv, DiskInv,
     Job, RollbackSteps, WipeSteps, Queue, LockFlows
<1>6. FlowInv'
  BY <1>1, <1>2 DEF RestoreEffect, Beside, SInv, SessionTypeOK, HolderInv, FlowInv, OutcomeInv,
     InPlace, Job, RollbackSteps, WipeSteps, Queue, LockFlows, SessionAssumption
<1>7. OutcomeInv'
  BY <1>1, <1>2 DEF RestoreEffect, Beside, GoesTo, Ends, Resolves, SInv, SessionTypeOK,
     HolderInv, DiskInv, FlowInv, OutcomeInv, InPlace, Outcomes, Job, RollbackSteps, WipeSteps,
     Queue, LockFlows, SessionAssumption
<1>8. AbstractStep
  BY <1>1, <1>2 DEF RestoreEffect, Beside, SInv, SessionTypeOK, HolderInv, DiskInv, FlowInv,
     OutcomeInv, InPlace, Job, RollbackSteps, WipeSteps, Queue, LockFlows, SessionAssumption,
     Recovered, Session, AbstractStep
<1> QED
  BY <1>3, <1>4, <1>5, <1>6, <1>7, <1>8 DEF SInv

\* _rollback removes the candidate.
DropEffect ==
    /\ work.at = "drop" /\ UNCHANGED <<dest, backup, journal, temp>>
    /\ cands' \subseteq cands /\ GoesTo("unlink")

\* That is what Drop does.
LEMMA DropDoes == ASSUME SessionAssumption, SInv, Beside, Drop PROVE DropEffect
<1>1. /\ Goto("unlink") => GoesTo("unlink")
  BY ThreadMoves, StepNames DEF RollbackSteps, WipeSteps
<1> QED
  BY <1>1 DEF Drop, DropEffect

\* Drop keeps the invariant, and the session changes only as AtomicSession allows.
LEMMA DropKeeps ==
    ASSUME SessionAssumption, SInv, Beside, Drop
    PROVE  SInv' /\ AbstractStep
<1>1. DropEffect
  BY DropDoes
<1>2. work \in FileJobs /\ work # Idle /\ work' # Idle
  BY <1>1, JobTypes DEF DropEffect, Beside, GoesTo, Ends, Resolves
<1>3. HolderInv'
  BY <1>1, <1>2 DEF DropEffect, Beside, GoesTo, Ends, Resolves, SInv, HolderInv, DiskInv, Job,
     RollbackSteps, WipeSteps, Queue, LockFlows
<1>4. SessionTypeOK'
  BY <1>1, <1>2 DEF DropEffect, Beside, GoesTo, Ends, Resolves, SInv, SessionTypeOK, HolderInv,
     FlowInv, Queue, LockFlows
<1>5. DiskInv'
  BY <1>1, <1>2 DEF DropEffect, Beside, GoesTo, Ends, Resolves, SInv, HolderInv, DiskInv, Job,
     RollbackSteps, WipeSteps, Queue, LockFlows
<1>6. FlowInv'
  BY <1>1, <1>2 DEF DropEffect, Beside, SInv, SessionTypeOK, HolderInv, FlowInv, OutcomeInv,
     InPlace, Job, RollbackSteps, WipeSteps, Queue, LockFlows, SessionAssumption
<1>7. OutcomeInv'
  BY <1>1, <1>2 DEF DropEffect, Beside, GoesTo, Ends, Resolves, SInv, SessionTypeOK, HolderInv,
     DiskInv, FlowInv, OutcomeInv, InPlace, Outcomes, Job, RollbackSteps, WipeSteps, Queue,
     LockFlows, SessionAssumption
<1>8. AbstractStep
  BY <1>1, <1>2 DEF DropEffect, Beside, SInv, SessionTypeOK, HolderInv, DiskInv, FlowInv,
     OutcomeInv, InPlace, Job, RollbackSteps, WipeSteps, Queue, LockFlows, SessionAssumption,
     Recovered, Session, AbstractStep
<1> QED
  BY <1>3, <1>4, <1>5, <1>6, <1>7, <1>8 DEF SInv

\* _rollback removes the journal, at the end.
UnlinkEffect ==
    /\ work.at = "unlink" /\ UNCHANGED <<dest, backup, cands, temp>>
    /\ journal' = Nothing /\ Resolves

\* That is what Unlink does.
LEMMA UnlinkDoes == ASSUME SessionAssumption, SInv, Beside, Unlink PROVE UnlinkEffect
<1>1. /\ (Resolved => Resolves)
  BY ThreadMoves, StepNames DEF RollbackSteps, WipeSteps
<1> QED
  BY <1>1 DEF Unlink, UnlinkEffect

\* Unlink keeps the invariant, and the session changes only as AtomicSession allows.
LEMMA UnlinkKeeps ==
    ASSUME SessionAssumption, SInv, Beside, Unlink
    PROVE  SInv' /\ AbstractStep
<1>1. UnlinkEffect
  BY UnlinkDoes
<1>2. work \in FileJobs /\ work # Idle /\ work' # Idle
  BY <1>1, JobTypes DEF UnlinkEffect, Beside, GoesTo, Ends, Resolves
<1>3. HolderInv'
  BY <1>1, <1>2 DEF UnlinkEffect, Beside, GoesTo, Ends, Resolves, SInv, HolderInv, DiskInv, Job,
     RollbackSteps, WipeSteps, Queue, LockFlows
<1>4. SessionTypeOK'
  BY <1>1, <1>2 DEF UnlinkEffect, Beside, GoesTo, Ends, Resolves, SInv, SessionTypeOK,
     HolderInv, FlowInv, Queue, LockFlows
<1>5. DiskInv'
  BY <1>1, <1>2 DEF UnlinkEffect, Beside, GoesTo, Ends, Resolves, SInv, HolderInv, DiskInv, Job,
     RollbackSteps, WipeSteps, Queue, LockFlows
<1>6. FlowInv'
  BY <1>1, <1>2 DEF UnlinkEffect, Beside, SInv, SessionTypeOK, HolderInv, FlowInv, OutcomeInv,
     InPlace, Job, RollbackSteps, WipeSteps, Queue, LockFlows, SessionAssumption
<1>7. OutcomeInv'
  BY <1>1, <1>2 DEF UnlinkEffect, Beside, GoesTo, Ends, Resolves, SInv, SessionTypeOK,
     HolderInv, DiskInv, FlowInv, OutcomeInv, InPlace, Outcomes, Job, RollbackSteps, WipeSteps,
     Queue, LockFlows, SessionAssumption
<1>8. AbstractStep
  BY <1>1, <1>2 DEF UnlinkEffect, Beside, SInv, SessionTypeOK, HolderInv, DiskInv, FlowInv,
     OutcomeInv, InPlace, Job, RollbackSteps, WipeSteps, Queue, LockFlows, SessionAssumption,
     Recovered, Session, AbstractStep
<1> QED
  BY <1>3, <1>4, <1>5, <1>6, <1>7, <1>8 DEF SInv

\* _commit creates the temporary journal.
WriteTempEffect ==
    /\ work.at = "temp" /\ UNCHANGED <<dest, backup, cands, journal>>
    /\ temp' \in BOOLEAN
    /\ Ends(FALSE) \/ (temp' /\ GoesTo("journal"))
    /\ backup = Nothing /\ ~temp => GoesTo("journal")
    /\ temp' # temp => GoesTo("journal")

\* That is what WriteTemp does.
LEMMA WriteTempDoes == ASSUME SessionAssumption, SInv, Beside, WriteTemp PROVE WriteTempEffect
<1>1. /\ Goto("journal") => GoesTo("journal")
      /\ (work' = Ended(FALSE) => Ends(FALSE))
  BY ThreadMoves, StepNames DEF RollbackSteps, WipeSteps
<1> QED
  BY <1>1 DEF WriteTemp, WriteTempEffect, SInv, SessionTypeOK

\* WriteTemp keeps the invariant, and the session changes only as AtomicSession allows.
LEMMA WriteTempKeeps ==
    ASSUME SessionAssumption, SInv, Beside, WriteTemp
    PROVE  SInv' /\ AbstractStep
<1>1. WriteTempEffect
  BY WriteTempDoes
<1>2. work \in FileJobs /\ work # Idle /\ work' # Idle
  BY <1>1, JobTypes DEF WriteTempEffect, Beside, GoesTo, Ends, Resolves
<1>3. HolderInv'
  BY <1>1, <1>2 DEF WriteTempEffect, Beside, GoesTo, Ends, Resolves, SInv, HolderInv, DiskInv,
     Job, RollbackSteps, WipeSteps, Queue, LockFlows
<1>4. SessionTypeOK'
  BY <1>1, <1>2 DEF WriteTempEffect, Beside, GoesTo, Ends, Resolves, SInv, SessionTypeOK,
     HolderInv, FlowInv, Queue, LockFlows
<1>5. DiskInv'
  BY <1>1, <1>2 DEF WriteTempEffect, Beside, GoesTo, Ends, Resolves, SInv, HolderInv, DiskInv,
     Job, RollbackSteps, WipeSteps, Queue, LockFlows
<1>6. FlowInv'
  BY <1>1, <1>2 DEF WriteTempEffect, Beside, SInv, SessionTypeOK, HolderInv, FlowInv,
     OutcomeInv, InPlace, Job, RollbackSteps, WipeSteps, Queue, LockFlows, SessionAssumption
<1>7. OutcomeInv'
  BY <1>1, <1>2 DEF WriteTempEffect, Beside, GoesTo, Ends, Resolves, SInv, SessionTypeOK,
     HolderInv, DiskInv, FlowInv, OutcomeInv, InPlace, Outcomes, Job, RollbackSteps, WipeSteps,
     Queue, LockFlows, SessionAssumption
<1>8. AbstractStep
  BY <1>1, <1>2 DEF WriteTempEffect, Beside, SInv, SessionTypeOK, HolderInv, DiskInv, FlowInv,
     OutcomeInv, InPlace, Job, RollbackSteps, WipeSteps, Queue, LockFlows, SessionAssumption,
     Recovered, Session, AbstractStep
<1> QED
  BY <1>3, <1>4, <1>5, <1>6, <1>7, <1>8 DEF SInv

\* _commit puts the journal in place.
WriteJournalEffect ==
    /\ work.at = "journal" /\ UNCHANGED <<dest, backup, cands>>
    /\ journal' \in Journals /\ journal' # Nothing /\ (journal'.had <=> dest # Nothing)
    /\ temp' = FALSE /\ GoesTo("keep")

\* That is what WriteJournal does.
LEMMA WriteJournalDoes == ASSUME SessionAssumption, SInv, Beside, WriteJournal PROVE WriteJournalEffect
<1>1. /\ Goto("keep") => GoesTo("keep")
  BY ThreadMoves, StepNames DEF RollbackSteps, WipeSteps
<1>2. trial \in Versions
  BY DEF WriteJournal, SInv, HolderInv, Job, FlowInv, SessionTypeOK, Queue, LockFlows,
     RollbackSteps, WipeSteps, Beside, Idle
<1>3. ASSUME NEW b \in BOOLEAN
      PROVE  [had |-> b, cand |-> trial] \in Journals /\ [had |-> b, cand |-> trial].had = b
  BY <1>2 DEF Journals
<1>4. journal' = [had |-> dest # Nothing, cand |-> trial]
  BY DEF WriteJournal
<1>5. journal' \in Journals /\ (journal'.had <=> dest # Nothing)
  BY <1>3, <1>4
<1>6. Nothing \notin Journals
  BY DEF SessionAssumption, Journals
<1> QED
  BY <1>1, <1>5, <1>6 DEF WriteJournal, WriteJournalEffect

\* WriteJournal keeps the invariant, and the session changes only as AtomicSession allows.
LEMMA WriteJournalKeeps ==
    ASSUME SessionAssumption, SInv, Beside, WriteJournal
    PROVE  SInv' /\ AbstractStep
<1>1. WriteJournalEffect
  BY WriteJournalDoes
<1>2. work \in FileJobs /\ work # Idle /\ work' # Idle
  BY <1>1, JobTypes DEF WriteJournalEffect, Beside, GoesTo, Ends, Resolves
<1>3. HolderInv'
  BY <1>1, <1>2 DEF WriteJournalEffect, Beside, GoesTo, Ends, Resolves, SInv, HolderInv,
     DiskInv, Job, RollbackSteps, WipeSteps, Queue, LockFlows
<1>4. SessionTypeOK'
  BY <1>1, <1>2 DEF WriteJournalEffect, Beside, GoesTo, Ends, Resolves, SInv, SessionTypeOK,
     HolderInv, FlowInv, Queue, LockFlows
<1>5. DiskInv'
  BY <1>1, <1>2 DEF WriteJournalEffect, Beside, GoesTo, Ends, Resolves, SInv, HolderInv,
     DiskInv, Job, RollbackSteps, WipeSteps, Queue, LockFlows
<1>6. FlowInv'
  BY <1>1, <1>2 DEF WriteJournalEffect, Beside, SInv, SessionTypeOK, HolderInv, FlowInv,
     OutcomeInv, InPlace, Job, RollbackSteps, WipeSteps, Queue, LockFlows, SessionAssumption
<1>7. OutcomeInv'
  BY <1>1, <1>2 DEF WriteJournalEffect, Beside, GoesTo, Ends, Resolves, SInv, SessionTypeOK,
     HolderInv, DiskInv, FlowInv, OutcomeInv, InPlace, Outcomes, Job, RollbackSteps, WipeSteps,
     Queue, LockFlows, SessionAssumption
<1>8. AbstractStep
  BY <1>1, <1>2 DEF WriteJournalEffect, Beside, SInv, SessionTypeOK, HolderInv, DiskInv,
     FlowInv, OutcomeInv, InPlace, Job, RollbackSteps, WipeSteps, Queue, LockFlows,
     SessionAssumption, Recovered, Session, AbstractStep
<1> QED
  BY <1>3, <1>4, <1>5, <1>6, <1>7, <1>8 DEF SInv

\* _commit moves the directory in use to the backup.
KeepEffect ==
    /\ work.at = "keep" /\ UNCHANGED <<cands, journal, temp>>
    /\ dest # Nothing => backup' = dest /\ dest' = Nothing
    /\ dest = Nothing => UNCHANGED <<dest, backup>>
    /\ GoesTo("publish")

\* That is what Keep does.
LEMMA KeepDoes == ASSUME SessionAssumption, SInv, Beside, Keep PROVE KeepEffect
<1>1. /\ Goto("publish") => GoesTo("publish")
  BY ThreadMoves, StepNames DEF RollbackSteps, WipeSteps
<1> QED
  BY <1>1 DEF Keep, KeepEffect

\* Keep keeps the invariant, and the session changes only as AtomicSession allows.
LEMMA KeepKeeps ==
    ASSUME SessionAssumption, SInv, Beside, Keep
    PROVE  SInv' /\ AbstractStep
<1>1. KeepEffect
  BY KeepDoes
<1>2. work \in FileJobs /\ work # Idle /\ work' # Idle
  BY <1>1, JobTypes DEF KeepEffect, Beside, GoesTo, Ends, Resolves
<1>3. HolderInv'
  BY <1>1, <1>2 DEF KeepEffect, Beside, GoesTo, Ends, Resolves, SInv, HolderInv, DiskInv, Job,
     RollbackSteps, WipeSteps, Queue, LockFlows
<1>4. SessionTypeOK'
  BY <1>1, <1>2 DEF KeepEffect, Beside, GoesTo, Ends, Resolves, SInv, SessionTypeOK, HolderInv,
     FlowInv, Queue, LockFlows
<1>5. DiskInv'
  BY <1>1, <1>2 DEF KeepEffect, Beside, GoesTo, Ends, Resolves, SInv, HolderInv, DiskInv, Job,
     RollbackSteps, WipeSteps, Queue, LockFlows
<1>6. FlowInv'
  BY <1>1, <1>2 DEF KeepEffect, Beside, SInv, SessionTypeOK, HolderInv, FlowInv, OutcomeInv,
     InPlace, Job, RollbackSteps, WipeSteps, Queue, LockFlows, SessionAssumption
<1>7. OutcomeInv'
  BY <1>1, <1>2 DEF KeepEffect, Beside, GoesTo, Ends, Resolves, SInv, SessionTypeOK, HolderInv,
     DiskInv, FlowInv, OutcomeInv, InPlace, Outcomes, Job, RollbackSteps, WipeSteps, Queue,
     LockFlows, SessionAssumption
<1>8. AbstractStep
  BY <1>1, <1>2 DEF KeepEffect, Beside, SInv, SessionTypeOK, HolderInv, DiskInv, FlowInv,
     OutcomeInv, InPlace, Job, RollbackSteps, WipeSteps, Queue, LockFlows, SessionAssumption,
     Recovered, Session, AbstractStep
<1> QED
  BY <1>3, <1>4, <1>5, <1>6, <1>7, <1>8 DEF SInv

\* _commit moves the candidate in place; the journal still says it can be undone.
PublishEffect ==
    /\ work.at = "publish" /\ UNCHANGED <<backup, journal, temp>>
    /\ dest' = trial /\ cands' \subseteq cands /\ Ends(TRUE)

\* That is what Publish does.
LEMMA PublishDoes == ASSUME SessionAssumption, SInv, Beside, Publish PROVE PublishEffect
<1>1. /\ (work' = Ended(TRUE) => Ends(TRUE))
  BY ThreadMoves, StepNames DEF RollbackSteps, WipeSteps
<1> QED
  BY <1>1 DEF Publish, PublishEffect

\* Publish keeps the invariant, and the session changes only as AtomicSession allows.
LEMMA PublishKeeps ==
    ASSUME SessionAssumption, SInv, Beside, Publish
    PROVE  SInv' /\ AbstractStep
<1>1. PublishEffect
  BY PublishDoes
<1>2. work \in FileJobs /\ work # Idle /\ work' # Idle
  BY <1>1, JobTypes DEF PublishEffect, Beside, GoesTo, Ends, Resolves
<1>3. HolderInv'
  BY <1>1, <1>2 DEF PublishEffect, Beside, GoesTo, Ends, Resolves, SInv, HolderInv, DiskInv,
     Job, RollbackSteps, WipeSteps, Queue, LockFlows
<1>4. SessionTypeOK'
  BY <1>1, <1>2 DEF PublishEffect, Beside, GoesTo, Ends, Resolves, SInv, SessionTypeOK,
     HolderInv, FlowInv, Queue, LockFlows
<1>5. DiskInv'
  BY <1>1, <1>2 DEF PublishEffect, Beside, GoesTo, Ends, Resolves, SInv, HolderInv, DiskInv,
     Job, RollbackSteps, WipeSteps, Queue, LockFlows
<1>6. FlowInv'
  BY <1>1, <1>2 DEF PublishEffect, Beside, SInv, SessionTypeOK, HolderInv, FlowInv, OutcomeInv,
     InPlace, Job, RollbackSteps, WipeSteps, Queue, LockFlows, SessionAssumption
<1>7. OutcomeInv'
  BY <1>1, <1>2 DEF PublishEffect, Beside, GoesTo, Ends, Resolves, SInv, SessionTypeOK,
     HolderInv, DiskInv, FlowInv, OutcomeInv, InPlace, Outcomes, Job, RollbackSteps, WipeSteps,
     Queue, LockFlows, SessionAssumption
<1>8. AbstractStep
  BY <1>1, <1>2 DEF PublishEffect, Beside, SInv, SessionTypeOK, HolderInv, DiskInv, FlowInv,
     OutcomeInv, InPlace, Job, RollbackSteps, WipeSteps, Queue, LockFlows, SessionAssumption,
     Recovered, Session, AbstractStep
<1> QED
  BY <1>3, <1>4, <1>5, <1>6, <1>7, <1>8 DEF SInv

\* async_finalize removes the journal: the one step that changes the session.
AcceptEffect ==
    /\ work.at = "accept" /\ UNCHANGED <<dest, backup, cands, temp>>
    /\ journal' = Nothing /\ GoesTo("sweep")

\* That is what Accept does.
LEMMA AcceptDoes == ASSUME SessionAssumption, SInv, Beside, Accept PROVE AcceptEffect
<1>1. /\ Goto("sweep") => GoesTo("sweep")
  BY ThreadMoves, StepNames DEF RollbackSteps, WipeSteps
<1> QED
  BY <1>1 DEF Accept, AcceptEffect

\* Accept keeps the invariant, and the session changes only as AtomicSession allows.
LEMMA AcceptKeeps ==
    ASSUME SessionAssumption, SInv, Beside, Accept
    PROVE  SInv' /\ AbstractStep
<1>1. AcceptEffect
  BY AcceptDoes
<1>2. work \in FileJobs /\ work # Idle /\ work' # Idle
  BY <1>1, JobTypes DEF AcceptEffect, Beside, GoesTo, Ends, Resolves
<1>3. HolderInv'
  BY <1>1, <1>2 DEF AcceptEffect, Beside, GoesTo, Ends, Resolves, SInv, HolderInv, DiskInv, Job,
     RollbackSteps, WipeSteps, Queue, LockFlows
<1>4. SessionTypeOK'
  BY <1>1, <1>2 DEF AcceptEffect, Beside, GoesTo, Ends, Resolves, SInv, SessionTypeOK,
     HolderInv, FlowInv, Queue, LockFlows
<1>5. DiskInv'
  BY <1>1, <1>2 DEF AcceptEffect, Beside, GoesTo, Ends, Resolves, SInv, HolderInv, DiskInv, Job,
     RollbackSteps, WipeSteps, Queue, LockFlows
<1>6. FlowInv'
  BY <1>1, <1>2 DEF AcceptEffect, Beside, SInv, SessionTypeOK, HolderInv, FlowInv, OutcomeInv,
     InPlace, Job, RollbackSteps, WipeSteps, Queue, LockFlows, SessionAssumption
<1>7. OutcomeInv'
  BY <1>1, <1>2 DEF AcceptEffect, Beside, GoesTo, Ends, Resolves, SInv, SessionTypeOK,
     HolderInv, DiskInv, FlowInv, OutcomeInv, InPlace, Outcomes, Job, RollbackSteps, WipeSteps,
     Queue, LockFlows, SessionAssumption
<1>8. AbstractStep
  BY <1>1, <1>2 DEF AcceptEffect, Beside, SInv, SessionTypeOK, HolderInv, DiskInv, FlowInv,
     OutcomeInv, InPlace, Job, RollbackSteps, WipeSteps, Queue, LockFlows, SessionAssumption,
     Recovered, Session, AbstractStep
<1> QED
  BY <1>3, <1>4, <1>5, <1>6, <1>7, <1>8 DEF SInv

\* async_finalize removes the backup, whole or in part.
SweepEffect ==
    /\ work.at = "sweep" /\ UNCHANGED <<dest, cands, journal, temp>>
    /\ backup' \in {Nothing, Torn} /\ Ends(TRUE)

\* That is what Sweep does.
LEMMA SweepDoes == ASSUME SessionAssumption, SInv, Beside, \E rest \in {Nothing, Torn} : Sweep(rest) PROVE SweepEffect
<1>1. /\ (work' = Ended(TRUE) => Ends(TRUE))
  BY ThreadMoves, StepNames DEF RollbackSteps, WipeSteps
<1> QED
  BY <1>1 DEF Sweep, SweepEffect

\* Sweep keeps the invariant, and the session changes only as AtomicSession allows.
LEMMA SweepKeeps ==
    ASSUME SessionAssumption, SInv, Beside, \E rest \in {Nothing, Torn} : Sweep(rest)
    PROVE  SInv' /\ AbstractStep
<1>1. SweepEffect
  BY SweepDoes
<1>2. work \in FileJobs /\ work # Idle /\ work' # Idle
  BY <1>1, JobTypes DEF SweepEffect, Beside, GoesTo, Ends, Resolves
<1>3. HolderInv'
  BY <1>1, <1>2 DEF SweepEffect, Beside, GoesTo, Ends, Resolves, SInv, HolderInv, DiskInv, Job,
     RollbackSteps, WipeSteps, Queue, LockFlows
<1>4. SessionTypeOK'
  BY <1>1, <1>2 DEF SweepEffect, Beside, GoesTo, Ends, Resolves, SInv, SessionTypeOK, HolderInv,
     FlowInv, Queue, LockFlows
<1>5. DiskInv'
  BY <1>1, <1>2 DEF SweepEffect, Beside, GoesTo, Ends, Resolves, SInv, HolderInv, DiskInv, Job,
     RollbackSteps, WipeSteps, Queue, LockFlows
<1>6. FlowInv'
  BY <1>1, <1>2 DEF SweepEffect, Beside, SInv, SessionTypeOK, HolderInv, FlowInv, OutcomeInv,
     InPlace, Job, RollbackSteps, WipeSteps, Queue, LockFlows, SessionAssumption
<1>7. OutcomeInv'
  BY <1>1, <1>2 DEF SweepEffect, Beside, GoesTo, Ends, Resolves, SInv, SessionTypeOK, HolderInv,
     DiskInv, FlowInv, OutcomeInv, InPlace, Outcomes, Job, RollbackSteps, WipeSteps, Queue,
     LockFlows, SessionAssumption
<1>8. AbstractStep
  BY <1>1, <1>2 DEF SweepEffect, Beside, SInv, SessionTypeOK, HolderInv, DiskInv, FlowInv,
     OutcomeInv, InPlace, Job, RollbackSteps, WipeSteps, Queue, LockFlows, SessionAssumption,
     Recovered, Session, AbstractStep
<1> QED
  BY <1>3, <1>4, <1>5, <1>6, <1>7, <1>8 DEF SInv

\* async_remove checks the directories.
CheckEffect ==
    /\ work.at = "check" /\ UNCHANGED <<dest, backup, cands, journal, temp>>
    /\ Ends(FALSE) \/ GoesTo("wipe")

\* That is what Check does.
LEMMA CheckDoes == ASSUME SessionAssumption, SInv, Beside, Check PROVE CheckEffect
<1>1. /\ Goto("wipe") => GoesTo("wipe")
      /\ (work' = Ended(FALSE) => Ends(FALSE))
  BY ThreadMoves, StepNames DEF RollbackSteps, WipeSteps
<1> QED
  BY <1>1 DEF Check, disk, CheckEffect

\* Check keeps the invariant, and the session changes only as AtomicSession allows.
LEMMA CheckKeeps ==
    ASSUME SessionAssumption, SInv, Beside, Check
    PROVE  SInv' /\ AbstractStep
<1>1. CheckEffect
  BY CheckDoes
<1>2. work \in FileJobs /\ work # Idle /\ work' # Idle
  BY <1>1, JobTypes DEF CheckEffect, Beside, GoesTo, Ends, Resolves
<1>3. HolderInv'
  BY <1>1, <1>2 DEF CheckEffect, Beside, GoesTo, Ends, Resolves, SInv, HolderInv, DiskInv, Job,
     RollbackSteps, WipeSteps, Queue, LockFlows
<1>4. SessionTypeOK'
  BY <1>1, <1>2 DEF CheckEffect, Beside, GoesTo, Ends, Resolves, SInv, SessionTypeOK, HolderInv,
     FlowInv, Queue, LockFlows
<1>5. DiskInv'
  BY <1>1, <1>2 DEF CheckEffect, Beside, GoesTo, Ends, Resolves, SInv, HolderInv, DiskInv, Job,
     RollbackSteps, WipeSteps, Queue, LockFlows
<1>6. FlowInv'
  BY <1>1, <1>2 DEF CheckEffect, Beside, SInv, SessionTypeOK, HolderInv, FlowInv, OutcomeInv,
     InPlace, Job, RollbackSteps, WipeSteps, Queue, LockFlows, SessionAssumption
<1>7. OutcomeInv'
  BY <1>1, <1>2 DEF CheckEffect, Beside, GoesTo, Ends, Resolves, SInv, SessionTypeOK, HolderInv,
     DiskInv, FlowInv, OutcomeInv, InPlace, Outcomes, Job, RollbackSteps, WipeSteps, Queue,
     LockFlows, SessionAssumption
<1>8. AbstractStep
  BY <1>1, <1>2 DEF CheckEffect, Beside, SInv, SessionTypeOK, HolderInv, DiskInv, FlowInv,
     OutcomeInv, InPlace, Job, RollbackSteps, WipeSteps, Queue, LockFlows, SessionAssumption,
     Recovered, Session, AbstractStep
<1> QED
  BY <1>3, <1>4, <1>5, <1>6, <1>7, <1>8 DEF SInv

\* async_remove removes them one by one.
WipeEffect ==
    /\ work.at \in WipeSteps /\ temp' \in BOOLEAN /\ (temp' => temp) /\ cands' \subseteq cands
    /\ dest' \in {dest, Nothing} /\ backup' \in {backup, Nothing} /\ journal' \in {journal, Nothing}
    /\ Ends(TRUE) \/ (\E a \in WipeSteps : GoesTo(a))

\* That is what Wipe does.
LEMMA WipeDoes == ASSUME SessionAssumption, SInv, Beside, Wipe PROVE WipeEffect
<1>1. /\ \A a \in WipeSteps : Goto(a) => GoesTo(a)
      /\ work' = Ended(TRUE) => Ends(TRUE)
  BY ThreadMoves, StepNames
<1>2. {"wipe", "wipe backup", "wipe candidate", "wipe journal"} \subseteq WipeSteps
  BY DEF WipeSteps
<1>3. temp \in BOOLEAN
  BY DEF SInv, SessionTypeOK
<1>4. CASE work.at = "wipe"
  <2>1. Goto("wipe backup") /\ dest' = Nothing /\ UNCHANGED <<backup, cands, journal, temp>>
    BY <1>4 DEF Wipe
  <2>2. GoesTo("wipe backup")
    BY <1>1, <1>2, <2>1
  <2> QED
    BY <1>2, <1>3, <1>4, <2>1, <2>2 DEF WipeEffect
<1>5. CASE work.at = "wipe backup"
  <2>1. Goto("wipe candidate") /\ backup' = Nothing /\ UNCHANGED <<dest, cands, journal, temp>>
    BY <1>5 DEF Wipe
  <2>2. GoesTo("wipe candidate")
    BY <1>1, <1>2, <2>1
  <2> QED
    BY <1>2, <1>3, <1>5, <2>1, <2>2 DEF WipeEffect
<1>6. CASE work.at = "wipe candidate"
  <2>1. Goto("wipe journal") /\ cands' \subseteq cands /\ UNCHANGED <<dest, backup, journal, temp>>
    BY <1>6 DEF Wipe
  <2>2. GoesTo("wipe journal")
    BY <1>1, <1>2, <2>1
  <2> QED
    BY <1>2, <1>3, <1>6, <2>1, <2>2 DEF WipeEffect
<1>7. CASE work.at = "wipe journal"
  BY <1>1, <1>2, <1>3, <1>7 DEF Wipe, WipeEffect
<1> QED
  BY <1>4, <1>5, <1>6, <1>7 DEF Wipe, WipeEffect

\* Wipe keeps the invariant, and the session changes only as AtomicSession allows.
LEMMA WipeKeeps ==
    ASSUME SessionAssumption, SInv, Beside, Wipe
    PROVE  SInv' /\ AbstractStep
<1>1. WipeEffect
  BY WipeDoes
<1>2. work \in FileJobs /\ work # Idle /\ work' # Idle
  BY <1>1, JobTypes DEF WipeEffect, Beside, GoesTo, Ends, Resolves
<1>3. HolderInv'
  BY <1>1, <1>2 DEF WipeEffect, Beside, GoesTo, Ends, Resolves, SInv, HolderInv, DiskInv, Job,
     RollbackSteps, WipeSteps, Queue, LockFlows
<1>4. SessionTypeOK'
  BY <1>1, <1>2 DEF WipeEffect, Beside, GoesTo, Ends, Resolves, SInv, SessionTypeOK, HolderInv,
     FlowInv, Queue, LockFlows
<1>5. DiskInv'
  BY <1>1, <1>2 DEF WipeEffect, Beside, GoesTo, Ends, Resolves, SInv, HolderInv, DiskInv, Job,
     RollbackSteps, WipeSteps, Queue, LockFlows
<1>6. FlowInv'
  BY <1>1, <1>2 DEF WipeEffect, Beside, SInv, SessionTypeOK, HolderInv, FlowInv, OutcomeInv,
     InPlace, Job, RollbackSteps, WipeSteps, Queue, LockFlows, SessionAssumption
<1>7. OutcomeInv'
  BY <1>1, <1>2 DEF WipeEffect, Beside, GoesTo, Ends, Resolves, SInv, SessionTypeOK, HolderInv,
     DiskInv, FlowInv, OutcomeInv, InPlace, Outcomes, Job, RollbackSteps, WipeSteps, Queue,
     LockFlows, SessionAssumption
<1>8. AbstractStep
  BY <1>1, <1>2 DEF WipeEffect, Beside, SInv, SessionTypeOK, HolderInv, DiskInv, FlowInv,
     OutcomeInv, InPlace, Job, RollbackSteps, WipeSteps, Queue, LockFlows, SessionAssumption,
     Recovered, Session, AbstractStep
<1> QED
  BY <1>3, <1>4, <1>5, <1>6, <1>7, <1>8 DEF SInv

\* A system call fails.
RaiseEffect ==
    /\ work.at \notin {"ended", "look", "clear", "drop", "sweep", "check"}
    /\ UNCHANGED <<cands, journal>>
    /\ work.at \in {"keep", "publish"} =>
         work' \in FileJobs /\ work'.at = "clear" /\ work'.then = "raise"
    /\ work.at \notin {"keep", "publish"} => Ends(FALSE)
    /\ backup' = backup \/ (work.at \in {"purge", "wipe backup"} /\ backup # Nothing /\ backup' = Torn)
    /\ dest' = dest \/ (work.at = "wipe" /\ dest' = Torn)
    /\ temp' \in BOOLEAN /\ (temp' => temp \/ work.at = "temp")

\* That is what Raise does.
LEMMA RaiseDoes == ASSUME SessionAssumption, SInv, Beside, Raise PROVE RaiseEffect
<1>0. work' = Ended(FALSE) => Ends(FALSE)
  BY ThreadMoves
<1>1. work' = Start("clear", "raise") => work' \in FileJobs /\ work'.at = "clear" /\ work'.then = "raise"
  <2>1. "clear" \in FileSteps
    BY DEF FileSteps
  <2> QED
    BY <2>1, JobTypes
<1>2. temp \in BOOLEAN
  BY DEF SInv, SessionTypeOK
<1>3. temp' \in BOOLEAN /\ (temp' => temp \/ work.at = "temp")
  BY <1>2 DEF Raise
<1>4. work.at = "purge" => backup # Nothing
  BY DEF SInv, DiskInv
<1>5. work.at \notin {"ended", "look", "clear", "drop", "sweep", "check"}
  BY DEF Raise
<1> QED
  BY <1>0, <1>1, <1>3, <1>4, <1>5 DEF Raise, RaiseEffect

\* Raise keeps the invariant, and the session changes only as AtomicSession allows.
LEMMA RaiseKeeps ==
    ASSUME SessionAssumption, SInv, Beside, Raise
    PROVE  SInv' /\ AbstractStep
<1>1. RaiseEffect
  BY RaiseDoes
<1>2. work \in FileJobs /\ work # Idle /\ work' # Idle
  BY ZenonT(60), <1>1, JobTypes DEF RaiseEffect, Beside, GoesTo, Ends, Resolves
<1>3. HolderInv'
  BY <1>1, <1>2 DEF RaiseEffect, Beside, GoesTo, Ends, Resolves, SInv, HolderInv, DiskInv, Job,
     RollbackSteps, WipeSteps, Queue, LockFlows
<1>4. SessionTypeOK'
  BY <1>1, <1>2 DEF RaiseEffect, Beside, GoesTo, Ends, Resolves, SInv, SessionTypeOK, HolderInv,
     FlowInv, Queue, LockFlows
<1>5. DiskInv'
  BY <1>1, <1>2 DEF RaiseEffect, Beside, GoesTo, Ends, Resolves, SInv, HolderInv, DiskInv, Job,
     RollbackSteps, WipeSteps, Queue, LockFlows
<1>6. FlowInv'
  BY <1>1, <1>2 DEF RaiseEffect, Beside, SInv, SessionTypeOK, HolderInv, FlowInv, OutcomeInv,
     InPlace, Job, RollbackSteps, WipeSteps, Queue, LockFlows, SessionAssumption
<1>7. OutcomeInv'
  BY <1>1, <1>2 DEF RaiseEffect, Beside, GoesTo, Ends, Resolves, SInv, SessionTypeOK, HolderInv,
     DiskInv, FlowInv, OutcomeInv, InPlace, Outcomes, Job, RollbackSteps, WipeSteps, Queue,
     LockFlows, SessionAssumption
<1>8. AbstractStep
  BY <1>1, <1>2 DEF RaiseEffect, Beside, SInv, SessionTypeOK, HolderInv, DiskInv, FlowInv,
     OutcomeInv, InPlace, Job, RollbackSteps, WipeSteps, Queue, LockFlows, SessionAssumption,
     Recovered, Session, AbstractStep
<1> QED
  BY <1>3, <1>4, <1>5, <1>6, <1>7, <1>8 DEF SInv

\* The holder of the lock.
LEMMA Holders ==
    ASSUME SInv
    PROVE  /\ Holds("setup") <=> entry = "recovering" /\ ~other
           /\ Holds("flow") <=> entry # "recovering" /\ flow \in LockFlows /\ ~other
           /\ work # Idle => ~other /\ (entry = "recovering" \/ flow \in LockFlows)
BY QueueFacts DEF Holds, SInv, HolderInv, Queue

LEMMA RecordedJobs ==
    ASSUME SInv
    PROVE  /\ Idle.at \notin FileSteps \cup WipeSteps \cup RollbackSteps /\ Idle.at = "idle"
           /\ work \in FileJobs \cup {Idle}
           /\ work = Idle <=> work.at = "idle"
           /\ \A a \in {"look", "clear", "accept", "check"}, t \in {"end", "commit"} :
                /\ Start(a, t) \in FileJobs /\ Start(a, t) # Idle
                /\ Start(a, t).at = a /\ Start(a, t).then = t
<1>1. work \in FileJobs \cup {Idle}
  BY DEF SInv, SessionTypeOK
<1>2. FileSteps \cup WipeSteps \cup RollbackSteps = FileSteps
  BY StepNames
<1>3. "idle" \notin FileSteps
  BY DEF FileSteps
<1>4. work = Idle <=> work.at = "idle"
  BY <1>1, <1>3, JobTypes
<1>5. {"look", "clear", "accept", "check"} \subseteq FileSteps
  BY StepNames DEF RollbackSteps, WipeSteps
<1>6. ASSUME NEW a \in {"look", "clear", "accept", "check"}, NEW t \in {"end", "commit"}
      PROVE  /\ Start(a, t) \in FileJobs /\ Start(a, t) # Idle
             /\ Start(a, t).at = a /\ Start(a, t).then = t
  BY <1>5, JobTypes
<1> QED
  BY <1>1, <1>2, <1>3, <1>4, <1>6, JobTypes

\* The holder of the lock starts its thread.
LEMMA GrantedKeeps ==
    ASSUME SessionAssumption, SInv, Granted
    PROVE  SInv' /\ AbstractStep
<1>1. lockq' = Queue'
  BY QueueFacts, Holders DEF Granted, disk, flowVars, SInv, HolderInv, Queue, LockFlows,
     SessionTypeOK
<1>2. HolderInv'
  BY ZenonT(60), <1>1, QueueFacts, Holders, RecordedJobs DEF Granted, disk, flowVars, SInv,
     HolderInv, FlowInv, Queue, LockFlows, Job, RollbackSteps, WipeSteps
<1>3. SessionTypeOK'
  BY <1>1, QueueFacts, Holders, RecordedJobs DEF Granted, disk, flowVars, SInv, SessionTypeOK,
     Queue, LockFlows, Flows, Facts
<1>4. DiskInv'
  BY QueueFacts, Holders, RecordedJobs DEF Granted, disk, flowVars, SInv, DiskInv, HolderInv,
     FlowInv, OutcomeInv, LockFlows
<1>5. FlowInv'
  BY QueueFacts, Holders, RecordedJobs DEF Granted, disk, flowVars, SInv, SessionTypeOK,
     FlowInv, OutcomeInv, InPlace, HolderInv, Outcomes, LockFlows, Job, RollbackSteps,
     SessionAssumption
<1>6. OutcomeInv'
  BY QueueFacts, Holders, RecordedJobs DEF Granted, disk, flowVars, SInv, SessionTypeOK,
     FlowInv, OutcomeInv, InPlace, HolderInv, DiskInv, Outcomes, LockFlows, Job, RollbackSteps,
     SessionAssumption
<1>7. AbstractStep
  BY DEF Granted, disk, flowVars, SInv, SessionTypeOK, FlowInv, OutcomeInv, Recovered, Session,
     AbstractStep
<1> QED
  BY <1>2, <1>3, <1>4, <1>5, <1>6, <1>7 DEF SInv

\* An operation on another key takes or releases the lock.
LEMMA OtherKeyKeeps ==
    ASSUME SessionAssumption, SInv, OtherKey
    PROVE  SInv' /\ AbstractStep
<1>1. lockq' = Queue'
  BY QueueFacts, Holders DEF OtherKey, disk, flowVars, SInv, HolderInv, Queue, LockFlows,
     SessionTypeOK
<1>2. HolderInv'
  BY <1>1, QueueFacts, Holders, RecordedJobs DEF OtherKey, disk, flowVars, SInv, HolderInv,
     FlowInv, Queue, LockFlows, Job, RollbackSteps, WipeSteps
<1>3. SessionTypeOK'
  BY <1>1, QueueFacts, Holders, RecordedJobs DEF OtherKey, disk, flowVars, SInv, SessionTypeOK,
     Queue, LockFlows, Flows, Facts
<1>4. DiskInv'
  BY QueueFacts, Holders, RecordedJobs DEF OtherKey, disk, flowVars, SInv, DiskInv, HolderInv,
     FlowInv, OutcomeInv, LockFlows
<1>5. FlowInv'
  BY QueueFacts, Holders, RecordedJobs DEF OtherKey, disk, flowVars, SInv, SessionTypeOK,
     FlowInv, OutcomeInv, InPlace, HolderInv, Outcomes, LockFlows, Job, RollbackSteps,
     SessionAssumption
<1>6. OutcomeInv'
  BY QueueFacts, Holders, RecordedJobs DEF OtherKey, disk, flowVars, SInv, SessionTypeOK,
     FlowInv, OutcomeInv, InPlace, HolderInv, DiskInv, Outcomes, LockFlows, Job, RollbackSteps,
     SessionAssumption
<1>7. AbstractStep
  BY DEF OtherKey, disk, flowVars, SInv, SessionTypeOK, FlowInv, OutcomeInv, Recovered, Session,
     AbstractStep
<1> QED
  BY <1>2, <1>3, <1>4, <1>5, <1>6, <1>7 DEF SInv

\* The flow opens the transaction of the key.
LEMMA BeginKeeps ==
    ASSUME SessionAssumption, SInv, \E v \in Versions : Begin(v)
    PROVE  SInv' /\ AbstractStep
<1>1. lockq' = Queue'
  BY QueueFacts, Holders DEF Begin, files, disk, SInv, HolderInv, Queue, LockFlows, SessionTypeOK
<1>2. HolderInv'
  <2>1. /\ flow = "none" /\ flow' = "open" /\ UNCHANGED <<work, other, entry>>
        /\ entry # "recovering" => work = Idle
    BY Holders DEF Begin, files, LockFlows
  <2> QED
    BY <1>1, <2>1 DEF SInv, HolderInv, Queue, LockFlows, Job
<1>3. SessionTypeOK'
  BY <1>1, QueueFacts, Holders, RecordedJobs DEF Begin, files, disk, SInv, SessionTypeOK, Queue,
     LockFlows, Flows, Facts
<1>4. DiskInv'
  BY QueueFacts, Holders, RecordedJobs DEF Begin, files, disk, SInv, DiskInv, HolderInv,
     FlowInv, OutcomeInv, LockFlows
<1>5. FlowInv'
  BY QueueFacts, Holders, RecordedJobs DEF Begin, files, disk, SInv, SessionTypeOK, FlowInv,
     OutcomeInv, InPlace, HolderInv, Outcomes, LockFlows, Job, RollbackSteps, SessionAssumption
<1>6. OutcomeInv'
  BY QueueFacts, Holders, RecordedJobs DEF Begin, files, disk, SInv, SessionTypeOK, FlowInv,
     OutcomeInv, InPlace, HolderInv, DiskInv, Outcomes, LockFlows, Job, RollbackSteps,
     SessionAssumption
<1>7. AbstractStep
  BY DEF Begin, files, disk, SInv, SessionTypeOK, FlowInv, OutcomeInv, Recovered, Session,
     AbstractStep
<1> QED
  BY <1>2, <1>3, <1>4, <1>5, <1>6, <1>7 DEF SInv

\* The flow writes its candidate.
LEMMA PrepareKeeps ==
    ASSUME SessionAssumption, SInv, Prepare
    PROVE  SInv' /\ AbstractStep
<1>1. lockq' = Queue'
  BY QueueFacts, Holders DEF Prepare, SInv, HolderInv, Queue, LockFlows, SessionTypeOK
<1>2. HolderInv'
  BY <1>1, QueueFacts, Holders, RecordedJobs DEF Prepare, SInv, HolderInv, FlowInv, Queue,
     LockFlows, Job, RollbackSteps, WipeSteps
<1>3. SessionTypeOK'
  BY <1>1, QueueFacts, Holders, RecordedJobs DEF Prepare, SInv, SessionTypeOK, FlowInv, Queue,
     LockFlows, Flows, Facts
<1>4. DiskInv'
  BY QueueFacts, Holders, RecordedJobs DEF Prepare, SInv, DiskInv, HolderInv, FlowInv,
     OutcomeInv, LockFlows
<1>5. FlowInv'
  BY QueueFacts, Holders, RecordedJobs DEF Prepare, SInv, SessionTypeOK, FlowInv, OutcomeInv,
     InPlace, HolderInv, Outcomes, LockFlows, Job, RollbackSteps, SessionAssumption
<1>6. OutcomeInv'
  BY QueueFacts, Holders, RecordedJobs DEF Prepare, SInv, SessionTypeOK, FlowInv, OutcomeInv,
     InPlace, HolderInv, DiskInv, Outcomes, LockFlows, Job, RollbackSteps, SessionAssumption
<1>7. AbstractStep
  BY DEF Prepare, SInv, SessionTypeOK, FlowInv, OutcomeInv, Recovered, Session, AbstractStep
<1> QED
  BY <1>2, <1>3, <1>4, <1>5, <1>6, <1>7 DEF SInv

\* The login fails.
LEMMA RejectKeeps ==
    ASSUME SessionAssumption, SInv, Reject
    PROVE  SInv' /\ AbstractStep
<1>1. lockq' = Queue'
  BY QueueFacts, Holders DEF Reject, files, disk, SInv, HolderInv, Queue, LockFlows, SessionTypeOK
<1>2. HolderInv'
  BY <1>1, QueueFacts, Holders, RecordedJobs DEF Reject, files, disk, SInv, HolderInv, FlowInv,
     Queue, LockFlows, Job, RollbackSteps, WipeSteps
<1>3. SessionTypeOK'
  BY <1>1, QueueFacts, Holders, RecordedJobs DEF Reject, files, disk, SInv, SessionTypeOK,
     Queue, LockFlows, Flows, Facts
<1>4. DiskInv'
  BY QueueFacts, Holders, RecordedJobs DEF Reject, files, disk, SInv, DiskInv, HolderInv,
     FlowInv, OutcomeInv, LockFlows
<1>5. FlowInv'
  BY QueueFacts, Holders, RecordedJobs DEF Reject, files, disk, SInv, SessionTypeOK, FlowInv,
     OutcomeInv, InPlace, HolderInv, Outcomes, LockFlows, Job, RollbackSteps, SessionAssumption
<1>6. OutcomeInv'
  BY QueueFacts, Holders, RecordedJobs DEF Reject, files, disk, SInv, SessionTypeOK, FlowInv,
     OutcomeInv, InPlace, HolderInv, DiskInv, Outcomes, LockFlows, Job, RollbackSteps,
     SessionAssumption
<1>7. AbstractStep
  BY DEF Reject, files, disk, SInv, SessionTypeOK, FlowInv, OutcomeInv, Recovered, Session,
     AbstractStep
<1> QED
  BY <1>2, <1>3, <1>4, <1>5, <1>6, <1>7 DEF SInv

\* The flow unloads the runtime and asks for the lock.
LEMMA UnloadOldKeeps ==
    ASSUME SessionAssumption, SInv, UnloadOld
    PROVE  SInv' /\ AbstractStep
<1>1. lockq' = Queue'
  BY QueueFacts, Holders DEF UnloadOld, Unloads, Wait, files, disk, SInv, HolderInv, Queue,
     LockFlows, SessionTypeOK
<1>2. HolderInv'
  BY <1>1, QueueFacts, Holders, RecordedJobs DEF UnloadOld, Unloads, Wait, files, disk, SInv,
     HolderInv, FlowInv, Queue, LockFlows, Job, RollbackSteps, WipeSteps
<1>3. SessionTypeOK'
  BY ZenonT(60), <1>1, QueueFacts, Holders, RecordedJobs DEF UnloadOld, Unloads, Wait, files,
     disk, SInv, SessionTypeOK, Queue, LockFlows, Flows, Facts
<1>4. DiskInv'
  BY QueueFacts, Holders, RecordedJobs DEF UnloadOld, Unloads, Wait, files, disk, SInv, DiskInv,
     HolderInv, FlowInv, OutcomeInv, LockFlows
<1>5. FlowInv'
  BY QueueFacts, Holders, RecordedJobs DEF UnloadOld, Unloads, Wait, files, disk, SInv,
     SessionTypeOK, FlowInv, OutcomeInv, InPlace, HolderInv, Outcomes, LockFlows, Job,
     RollbackSteps, SessionAssumption
<1>6. OutcomeInv'
  BY QueueFacts, Holders, RecordedJobs DEF UnloadOld, Unloads, Wait, files, disk, SInv,
     SessionTypeOK, FlowInv, OutcomeInv, InPlace, HolderInv, DiskInv, Outcomes, LockFlows, Job,
     RollbackSteps, SessionAssumption
<1>7. AbstractStep
  BY DEF UnloadOld, Unloads, Wait, files, disk, SInv, SessionTypeOK, FlowInv, OutcomeInv,
     Recovered, Session, AbstractStep
<1> QED
  BY <1>2, <1>3, <1>4, <1>5, <1>6, <1>7 DEF SInv

\* The commit is over.
LEMMA CommittedKeeps ==
    ASSUME SessionAssumption, SInv, Committed
    PROVE  SInv' /\ AbstractStep
<1>1. lockq' = Queue'
  BY QueueFacts, Holders DEF Committed, Over, Release, files, disk, SInv, HolderInv, Queue,
     LockFlows, SessionTypeOK
<1>2. HolderInv'
  BY <1>1, QueueFacts, Holders, RecordedJobs DEF Committed, Over, Release, files, disk, SInv,
     HolderInv, FlowInv, Queue, LockFlows, Job, RollbackSteps, WipeSteps
<1>3. SessionTypeOK'
  BY <1>1, QueueFacts, Holders, RecordedJobs DEF Committed, Over, Release, files, disk, SInv,
     SessionTypeOK, Queue, LockFlows, Flows, Facts
<1>4. DiskInv'
  BY QueueFacts, Holders, RecordedJobs DEF Committed, Over, Release, files, disk, SInv, DiskInv,
     HolderInv, FlowInv, OutcomeInv, LockFlows
<1>5. FlowInv'
  BY QueueFacts, Holders, RecordedJobs DEF Committed, Over, Release, files, disk, SInv,
     SessionTypeOK, FlowInv, OutcomeInv, InPlace, HolderInv, Outcomes, LockFlows, Job,
     RollbackSteps, SessionAssumption
<1>6. OutcomeInv'
  BY QueueFacts, Holders, RecordedJobs DEF Committed, Over, Release, files, disk, SInv,
     SessionTypeOK, FlowInv, OutcomeInv, InPlace, HolderInv, DiskInv, Outcomes, LockFlows, Job,
     RollbackSteps, SessionAssumption
<1>7. AbstractStep
  BY DEF Committed, Over, Release, files, disk, SInv, SessionTypeOK, FlowInv, OutcomeInv,
     Recovered, Session, AbstractStep
<1> QED
  BY <1>2, <1>3, <1>4, <1>5, <1>6, <1>7 DEF SInv

\* The commit of a cancelled flow is undone.
LEMMA UndoneKeeps ==
    ASSUME SessionAssumption, SInv, Undone
    PROVE  SInv' /\ AbstractStep
<1>1. lockq' = Queue'
  BY QueueFacts, Holders DEF Undone, Over, Release, files, disk, SInv, HolderInv, Queue,
     LockFlows, SessionTypeOK
<1>2. HolderInv'
  BY <1>1, QueueFacts, Holders, RecordedJobs DEF Undone, Over, Release, files, disk, SInv,
     HolderInv, FlowInv, Queue, LockFlows, Job, RollbackSteps, WipeSteps
<1>3. SessionTypeOK'
  BY <1>1, QueueFacts, Holders, RecordedJobs DEF Undone, Over, Release, files, disk, SInv,
     SessionTypeOK, Queue, LockFlows, Flows, Facts
<1>4. DiskInv'
  BY QueueFacts, Holders, RecordedJobs DEF Undone, Over, Release, files, disk, SInv, DiskInv,
     HolderInv, FlowInv, OutcomeInv, LockFlows
<1>5. FlowInv'
  BY QueueFacts, Holders, RecordedJobs DEF Undone, Over, Release, files, disk, SInv,
     SessionTypeOK, FlowInv, OutcomeInv, InPlace, HolderInv, Outcomes, LockFlows, Job,
     RollbackSteps, SessionAssumption
<1>6. OutcomeInv'
  BY QueueFacts, Holders, RecordedJobs DEF Undone, Over, Release, files, disk, SInv,
     SessionTypeOK, FlowInv, OutcomeInv, InPlace, HolderInv, DiskInv, Outcomes, LockFlows, Job,
     RollbackSteps, SessionAssumption
<1>7. AbstractStep
  BY DEF Undone, Over, Release, files, disk, SInv, SessionTypeOK, FlowInv, OutcomeInv,
     Recovered, Session, AbstractStep
<1> QED
  BY <1>2, <1>3, <1>4, <1>5, <1>6, <1>7 DEF SInv

\* The entry gets the data of the candidate.
LEMMA UpdateKeeps ==
    ASSUME SessionAssumption, SInv, Update
    PROVE  SInv' /\ AbstractStep
<1>1. lockq' = Queue'
  BY QueueFacts, Holders DEF Update, Wait, files, disk, SInv, HolderInv, Queue, LockFlows,
     SessionTypeOK
<1>2. HolderInv'
  BY <1>1, QueueFacts, Holders, RecordedJobs DEF Update, Wait, files, disk, SInv, HolderInv,
     FlowInv, Queue, LockFlows, Job, RollbackSteps, WipeSteps
<1>3. SessionTypeOK'
  BY ZenonT(60), <1>1, QueueFacts, Holders, RecordedJobs DEF Update, Wait, files, disk, SInv,
     SessionTypeOK, Queue, LockFlows, Flows, Facts
<1>4. DiskInv'
  BY QueueFacts, Holders, RecordedJobs DEF Update, Wait, files, disk, SInv, DiskInv, HolderInv,
     FlowInv, OutcomeInv, LockFlows
<1>5. FlowInv'
  BY QueueFacts, Holders, RecordedJobs DEF Update, Wait, files, disk, SInv, SessionTypeOK,
     FlowInv, OutcomeInv, InPlace, HolderInv, Outcomes, LockFlows, Job, RollbackSteps,
     SessionAssumption
<1>6. OutcomeInv'
  BY QueueFacts, Holders, RecordedJobs DEF Update, Wait, files, disk, SInv, SessionTypeOK,
     FlowInv, OutcomeInv, InPlace, HolderInv, DiskInv, Outcomes, LockFlows, Job, RollbackSteps,
     SessionAssumption
<1>7. AbstractStep
  BY DEF Update, Wait, files, disk, SInv, SessionTypeOK, FlowInv, OutcomeInv, Recovered,
     Session, AbstractStep
<1> QED
  BY <1>2, <1>3, <1>4, <1>5, <1>6, <1>7 DEF SInv

\* The flow has the entry reloaded.
LEMMA ReloadKeeps ==
    ASSUME SessionAssumption, SInv, Reload
    PROVE  SInv' /\ AbstractStep
<1>1. lockq' = Queue'
  BY QueueFacts, Holders DEF Reload, Unloads, After, files, disk, SInv, HolderInv, Queue,
     LockFlows, SessionTypeOK
<1>2. HolderInv'
  BY <1>1, QueueFacts, Holders, RecordedJobs DEF Reload, Unloads, After, files, disk, SInv,
     HolderInv, FlowInv, Queue, LockFlows, Job, RollbackSteps, WipeSteps
<1>3. SessionTypeOK'
  BY <1>1, QueueFacts, Holders, RecordedJobs DEF Reload, Unloads, After, files, disk, SInv,
     SessionTypeOK, Queue, LockFlows, Flows, Facts
<1>4. DiskInv'
  BY QueueFacts, Holders, RecordedJobs DEF Reload, Unloads, After, files, disk, SInv, DiskInv,
     HolderInv, FlowInv, OutcomeInv, LockFlows
<1>5. FlowInv'
  BY QueueFacts, Holders, RecordedJobs DEF Reload, Unloads, After, files, disk, SInv,
     SessionTypeOK, FlowInv, OutcomeInv, InPlace, HolderInv, Outcomes, LockFlows, Job,
     RollbackSteps, SessionAssumption
<1>6. OutcomeInv'
  BY QueueFacts, Holders, RecordedJobs DEF Reload, Unloads, After, files, disk, SInv,
     SessionTypeOK, FlowInv, OutcomeInv, InPlace, HolderInv, DiskInv, Outcomes, LockFlows, Job,
     RollbackSteps, SessionAssumption
<1>7. AbstractStep
  BY DEF Reload, Unloads, After, files, disk, SInv, SessionTypeOK, FlowInv, OutcomeInv,
     Recovered, Session, AbstractStep
<1> QED
  BY <1>2, <1>3, <1>4, <1>5, <1>6, <1>7 DEF SInv

\* The reload is over.
LEMMA ReloadedKeeps ==
    ASSUME SessionAssumption, SInv, Reloaded
    PROVE  SInv' /\ AbstractStep
<1>1. lockq' = Queue'
  BY QueueFacts, Holders DEF Reloaded, After, Wait, files, disk, SInv, HolderInv, Queue,
     LockFlows, SessionTypeOK
<1>2. HolderInv'
  BY <1>1, QueueFacts, Holders, RecordedJobs DEF Reloaded, After, Wait, files, disk, SInv,
     HolderInv, FlowInv, Queue, LockFlows, Job, RollbackSteps, WipeSteps
<1>3. SessionTypeOK'
  BY ZenonT(60), <1>1, QueueFacts, Holders, RecordedJobs DEF Reloaded, After, Wait, files, disk,
     SInv, SessionTypeOK, Queue, LockFlows, Flows, Facts
<1>4. DiskInv'
  BY QueueFacts, Holders, RecordedJobs DEF Reloaded, After, Wait, files, disk, SInv, DiskInv,
     HolderInv, FlowInv, OutcomeInv, LockFlows
<1>5. FlowInv'
  BY QueueFacts, Holders, RecordedJobs DEF Reloaded, After, Wait, files, disk, SInv,
     SessionTypeOK, FlowInv, OutcomeInv, InPlace, HolderInv, Outcomes, LockFlows, Job,
     RollbackSteps, SessionAssumption
<1>6. OutcomeInv'
  BY QueueFacts, Holders, RecordedJobs DEF Reloaded, After, Wait, files, disk, SInv,
     SessionTypeOK, FlowInv, OutcomeInv, InPlace, HolderInv, DiskInv, Outcomes, LockFlows, Job,
     RollbackSteps, SessionAssumption
<1>7. AbstractStep
  BY DEF Reloaded, After, Wait, files, disk, SInv, SessionTypeOK, FlowInv, OutcomeInv,
     Recovered, Session, AbstractStep
<1> QED
  BY <1>2, <1>3, <1>4, <1>5, <1>6, <1>7 DEF SInv

\* The finalization is over.
LEMMA FinalizedKeeps ==
    ASSUME SessionAssumption, SInv, Finalized
    PROVE  SInv' /\ AbstractStep
<1>1. lockq' = Queue'
  BY QueueFacts, Holders DEF Finalized, Over, Release, files, disk, SInv, HolderInv, Queue,
     LockFlows, SessionTypeOK
<1>2. HolderInv'
  BY <1>1, QueueFacts, Holders, RecordedJobs DEF Finalized, Over, Release, files, disk, SInv,
     HolderInv, FlowInv, Queue, LockFlows, Job, RollbackSteps, WipeSteps
<1>3. SessionTypeOK'
  BY <1>1, QueueFacts, Holders, RecordedJobs DEF Finalized, Over, Release, files, disk, SInv,
     SessionTypeOK, Queue, LockFlows, Flows, Facts
<1>4. DiskInv'
  BY QueueFacts, Holders, RecordedJobs DEF Finalized, Over, Release, files, disk, SInv, DiskInv,
     HolderInv, FlowInv, OutcomeInv, LockFlows
<1>5. FlowInv'
  BY QueueFacts, Holders, RecordedJobs DEF Finalized, Over, Release, files, disk, SInv,
     SessionTypeOK, FlowInv, OutcomeInv, InPlace, HolderInv, Outcomes, LockFlows, Job,
     RollbackSteps, SessionAssumption
<1>6. OutcomeInv'
  BY QueueFacts, Holders, RecordedJobs DEF Finalized, Over, Release, files, disk, SInv,
     SessionTypeOK, FlowInv, OutcomeInv, InPlace, HolderInv, DiskInv, Outcomes, LockFlows, Job,
     RollbackSteps, SessionAssumption
<1>7. AbstractStep
  BY DEF Finalized, Over, Release, files, disk, SInv, SessionTypeOK, FlowInv, OutcomeInv,
     Recovered, Session, AbstractStep
<1> QED
  BY <1>2, <1>3, <1>4, <1>5, <1>6, <1>7 DEF SInv

\* The finally clause decides whether to roll back.
LEMMA CleanupKeeps ==
    ASSUME SessionAssumption, SInv, Cleanup
    PROVE  SInv' /\ AbstractStep
<1>1. lockq' = Queue'
  BY QueueFacts, Holders DEF Cleanup, MustUndo, Unloads, Wait, files, disk, SInv, HolderInv,
     Queue, LockFlows, SessionTypeOK
<1>2. HolderInv'
  BY <1>1, QueueFacts, Holders, RecordedJobs DEF Cleanup, MustUndo, Unloads, Wait, files, disk,
     SInv, HolderInv, FlowInv, Queue, LockFlows, Job, RollbackSteps, WipeSteps
<1>3. SessionTypeOK'
  BY ZenonT(60), <1>1, QueueFacts, Holders, RecordedJobs DEF Cleanup, MustUndo, Unloads, Wait,
     files, disk, SInv, SessionTypeOK, Queue, LockFlows, Flows, Facts
<1>4. DiskInv'
  BY QueueFacts, Holders, RecordedJobs DEF Cleanup, MustUndo, Unloads, Wait, files, disk, SInv,
     DiskInv, HolderInv, FlowInv, OutcomeInv, LockFlows
<1>5. FlowInv'
  BY QueueFacts, Holders, RecordedJobs DEF Cleanup, MustUndo, Unloads, Wait, files, disk, SInv,
     SessionTypeOK, FlowInv, OutcomeInv, InPlace, HolderInv, Outcomes, LockFlows, Job,
     RollbackSteps, SessionAssumption
<1>6. OutcomeInv'
  BY QueueFacts, Holders, RecordedJobs DEF Cleanup, MustUndo, Unloads, Wait, files, disk, SInv,
     SessionTypeOK, FlowInv, OutcomeInv, InPlace, HolderInv, DiskInv, Outcomes, LockFlows, Job,
     RollbackSteps, SessionAssumption
<1>7. AbstractStep
  BY DEF Cleanup, MustUndo, Unloads, Wait, files, disk, SInv, SessionTypeOK, FlowInv,
     OutcomeInv, Recovered, Session, AbstractStep
<1> QED
  BY <1>2, <1>3, <1>4, <1>5, <1>6, <1>7 DEF SInv

\* The rollback of the finally clause is over.
LEMMA RolledBackKeeps ==
    ASSUME SessionAssumption, SInv, RolledBack
    PROVE  SInv' /\ AbstractStep
<1>1. lockq' = Queue'
  BY QueueFacts, Holders DEF RolledBack, Over, Release, files, disk, SInv, HolderInv, Queue,
     LockFlows, SessionTypeOK
<1>2. HolderInv'
  BY <1>1, QueueFacts, Holders, RecordedJobs DEF RolledBack, Over, Release, files, disk, SInv,
     HolderInv, FlowInv, Queue, LockFlows, Job, RollbackSteps, WipeSteps
<1>3. SessionTypeOK'
  BY <1>1, QueueFacts, Holders, RecordedJobs DEF RolledBack, Over, Release, files, disk, SInv,
     SessionTypeOK, Queue, LockFlows, Flows, Facts
<1>4. DiskInv'
  BY QueueFacts, Holders, RecordedJobs DEF RolledBack, Over, Release, files, disk, SInv,
     DiskInv, HolderInv, FlowInv, OutcomeInv, LockFlows
<1>5. FlowInv'
  BY QueueFacts, Holders, RecordedJobs DEF RolledBack, Over, Release, files, disk, SInv,
     SessionTypeOK, FlowInv, OutcomeInv, InPlace, HolderInv, Outcomes, LockFlows, Job,
     RollbackSteps, SessionAssumption
<1>6. OutcomeInv'
  BY QueueFacts, Holders, RecordedJobs DEF RolledBack, Over, Release, files, disk, SInv,
     SessionTypeOK, FlowInv, OutcomeInv, InPlace, HolderInv, DiskInv, Outcomes, LockFlows, Job,
     RollbackSteps, SessionAssumption
<1>7. AbstractStep
  BY DEF RolledBack, Over, Release, files, disk, SInv, SessionTypeOK, FlowInv, OutcomeInv,
     Recovered, Session, AbstractStep
<1> QED
  BY <1>2, <1>3, <1>4, <1>5, <1>6, <1>7 DEF SInv

\* The candidate is removed.
LEMMA DiscardKeeps ==
    ASSUME SessionAssumption, SInv, Discard
    PROVE  SInv' /\ AbstractStep
<1>1. lockq' = Queue'
  BY QueueFacts, Holders DEF Discard, SInv, HolderInv, Queue, LockFlows, SessionTypeOK
<1>2. HolderInv'
  BY <1>1, QueueFacts, Holders, RecordedJobs DEF Discard, SInv, HolderInv, FlowInv, Queue,
     LockFlows, Job, RollbackSteps, WipeSteps
<1>3. SessionTypeOK'
  BY <1>1, QueueFacts, Holders, RecordedJobs DEF Discard, SInv, SessionTypeOK, Queue, LockFlows,
     Flows, Facts
<1>4. DiskInv'
  BY QueueFacts, Holders, RecordedJobs DEF Discard, SInv, DiskInv, HolderInv, FlowInv,
     OutcomeInv, LockFlows
<1>5. FlowInv'
  BY QueueFacts, Holders, RecordedJobs DEF Discard, SInv, SessionTypeOK, FlowInv, OutcomeInv,
     InPlace, HolderInv, Outcomes, LockFlows, Job, RollbackSteps, SessionAssumption
<1>6. OutcomeInv'
  BY QueueFacts, Holders, RecordedJobs DEF Discard, SInv, SessionTypeOK, FlowInv, OutcomeInv,
     InPlace, HolderInv, DiskInv, Outcomes, LockFlows, Job, RollbackSteps, SessionAssumption
<1>7. AbstractStep
  BY DEF Discard, SInv, SessionTypeOK, FlowInv, OutcomeInv, Recovered, Session, AbstractStep
<1> QED
  BY <1>2, <1>3, <1>4, <1>5, <1>6, <1>7 DEF SInv

\* The transaction ends.
LEMMA FlowLeavesKeeps ==
    ASSUME SessionAssumption, SInv, FlowLeaves
    PROVE  SInv' /\ AbstractStep
<1>1. lockq' = Queue'
  BY QueueFacts, Holders DEF FlowLeaves, files, disk, SInv, HolderInv, Queue, LockFlows,
     SessionTypeOK
<1>2. HolderInv'
  BY <1>1, QueueFacts, Holders, RecordedJobs DEF FlowLeaves, files, disk, SInv, HolderInv,
     FlowInv, Queue, LockFlows, Job, RollbackSteps, WipeSteps
<1>3. SessionTypeOK'
  BY <1>1, QueueFacts, Holders, RecordedJobs DEF FlowLeaves, files, disk, SInv, SessionTypeOK,
     Queue, LockFlows, Flows, Facts
<1>4. DiskInv'
  BY QueueFacts, Holders, RecordedJobs DEF FlowLeaves, files, disk, SInv, DiskInv, HolderInv,
     FlowInv, OutcomeInv, LockFlows
<1>5. FlowInv'
  BY QueueFacts, Holders, RecordedJobs DEF FlowLeaves, files, disk, SInv, SessionTypeOK,
     FlowInv, OutcomeInv, InPlace, HolderInv, Outcomes, LockFlows, Job, RollbackSteps,
     SessionAssumption
<1>6. OutcomeInv'
  BY QueueFacts, Holders, RecordedJobs DEF FlowLeaves, files, disk, SInv, SessionTypeOK,
     FlowInv, OutcomeInv, InPlace, HolderInv, DiskInv, Outcomes, LockFlows, Job, RollbackSteps,
     SessionAssumption
<1>7. AbstractStep
  BY DEF FlowLeaves, files, disk, SInv, SessionTypeOK, FlowInv, OutcomeInv, Recovered, Session,
     AbstractStep
<1> QED
  BY <1>2, <1>3, <1>4, <1>5, <1>6, <1>7 DEF SInv

\* The flow is cancelled.
LEMMA CancelKeeps ==
    ASSUME SessionAssumption, SInv, Cancel
    PROVE  SInv' /\ AbstractStep
<1>1. lockq' = Queue'
  BY QueueFacts, Holders DEF Cancel, Without, files, disk, SInv, HolderInv, Queue, LockFlows,
     SessionTypeOK
<1>2. HolderInv'
  BY ZenonT(60), <1>1, QueueFacts, Holders, RecordedJobs DEF Cancel, Without, files, disk, SInv,
     HolderInv, FlowInv, Queue, LockFlows, Job, RollbackSteps, WipeSteps
<1>3. SessionTypeOK'
  BY ZenonT(60), <1>1, QueueFacts, Holders, RecordedJobs DEF Cancel, Without, files, disk, SInv,
     SessionTypeOK, Queue, LockFlows, Flows, Facts
<1>4. DiskInv'
  BY QueueFacts, Holders, RecordedJobs DEF Cancel, Without, files, disk, SInv, DiskInv,
     HolderInv, FlowInv, OutcomeInv, LockFlows
<1>5. FlowInv'
  BY QueueFacts, Holders, RecordedJobs DEF Cancel, Without, files, disk, SInv, SessionTypeOK,
     FlowInv, OutcomeInv, InPlace, HolderInv, Outcomes, LockFlows, Job, RollbackSteps,
     SessionAssumption
<1>6. OutcomeInv'
  BY QueueFacts, Holders, RecordedJobs DEF Cancel, Without, files, disk, SInv, SessionTypeOK,
     FlowInv, OutcomeInv, InPlace, HolderInv, DiskInv, Outcomes, LockFlows, Job, RollbackSteps,
     SessionAssumption
<1>7. AbstractStep
  BY DEF Cancel, Without, files, disk, SInv, SessionTypeOK, FlowInv, OutcomeInv, Recovered,
     Session, AbstractStep
<1> QED
  BY <1>2, <1>3, <1>4, <1>5, <1>6, <1>7 DEF SInv

\* A setup begins, with a recovery unless a transaction is live.
LEMMA SetupStartKeeps ==
    ASSUME SessionAssumption, SInv, SetupStart
    PROVE  SInv' /\ AbstractStep
<1>1. lockq' = Queue'
  BY QueueFacts, Holders DEF SetupStart, SkipsRecovery, InTransaction, Wait, flowVars, files,
     disk, SInv, HolderInv, Queue, LockFlows, SessionTypeOK
<1>2. HolderInv'
  BY <1>1, QueueFacts, Holders, RecordedJobs DEF SetupStart, SkipsRecovery, InTransaction, Wait,
     flowVars, files, disk, SInv, HolderInv, FlowInv, Queue, LockFlows, Job, RollbackSteps,
     WipeSteps
<1>3. SessionTypeOK'
  BY ZenonT(60), <1>1, QueueFacts, Holders, RecordedJobs DEF SetupStart, SkipsRecovery,
     InTransaction, Wait, flowVars, files, disk, SInv, SessionTypeOK, Queue, LockFlows, Flows,
     Facts
<1>4. DiskInv'
  BY QueueFacts, Holders, RecordedJobs DEF SetupStart, SkipsRecovery, InTransaction, Wait,
     flowVars, files, disk, SInv, DiskInv, HolderInv, FlowInv, OutcomeInv, LockFlows
<1>5. FlowInv'
  BY QueueFacts, Holders, RecordedJobs DEF SetupStart, SkipsRecovery, InTransaction, Wait,
     flowVars, files, disk, SInv, SessionTypeOK, FlowInv, OutcomeInv, InPlace, HolderInv,
     Outcomes, LockFlows, Job, RollbackSteps, SessionAssumption
<1>6. OutcomeInv'
  BY QueueFacts, Holders, RecordedJobs DEF SetupStart, SkipsRecovery, InTransaction, Wait,
     flowVars, files, disk, SInv, SessionTypeOK, FlowInv, OutcomeInv, InPlace, HolderInv,
     DiskInv, Outcomes, LockFlows, Job, RollbackSteps, SessionAssumption
<1>7. AbstractStep
  BY DEF SetupStart, SkipsRecovery, InTransaction, Wait, flowVars, files, disk, SInv,
     SessionTypeOK, FlowInv, OutcomeInv, Recovered, Session, AbstractStep
<1> QED
  BY <1>2, <1>3, <1>4, <1>5, <1>6, <1>7 DEF SInv

\* The recovery of the setup is over.
LEMMA SetupRecoveredKeeps ==
    ASSUME SessionAssumption, SInv, SetupRecovered
    PROVE  SInv' /\ AbstractStep
<1>1. lockq' = Queue'
  BY QueueFacts, Holders DEF SetupRecovered, Over, Release, flowVars, files, disk, SInv,
     HolderInv, Queue, LockFlows, SessionTypeOK
<1>2. HolderInv'
  BY <1>1, QueueFacts, Holders, RecordedJobs DEF SetupRecovered, Over, Release, flowVars, files,
     disk, SInv, HolderInv, FlowInv, Queue, LockFlows, Job, RollbackSteps, WipeSteps
<1>3. SessionTypeOK'
  BY ZenonT(60), <1>1, QueueFacts, Holders, RecordedJobs DEF SetupRecovered, Over, Release,
     flowVars, files, disk, SInv, SessionTypeOK, Queue, LockFlows, Flows, Facts
<1>4. DiskInv'
  BY QueueFacts, Holders, RecordedJobs DEF SetupRecovered, Over, Release, flowVars, files, disk,
     SInv, DiskInv, HolderInv, FlowInv, OutcomeInv, LockFlows
<1>5. FlowInv'
  BY QueueFacts, Holders, RecordedJobs DEF SetupRecovered, Over, Release, flowVars, files, disk,
     SInv, SessionTypeOK, FlowInv, OutcomeInv, InPlace, HolderInv, Outcomes, LockFlows, Job,
     RollbackSteps, SessionAssumption
<1>6. OutcomeInv'
  BY QueueFacts, Holders, RecordedJobs DEF SetupRecovered, Over, Release, flowVars, files, disk,
     SInv, SessionTypeOK, FlowInv, OutcomeInv, InPlace, HolderInv, DiskInv, Outcomes, LockFlows,
     Job, RollbackSteps, SessionAssumption
<1>7. AbstractStep
  BY DEF SetupRecovered, Over, Release, flowVars, files, disk, SInv, SessionTypeOK, FlowInv,
     OutcomeInv, Recovered, Session, AbstractStep
<1> QED
  BY <1>2, <1>3, <1>4, <1>5, <1>6, <1>7 DEF SInv

\* The setup opens the session.
LEMMA SetupOpensKeeps ==
    ASSUME SessionAssumption, SInv, SetupOpens
    PROVE  SInv' /\ AbstractStep
<1>1. lockq' = Queue'
  BY QueueFacts, Holders DEF SetupOpens, flowVars, files, disk, SInv, HolderInv, Queue,
     LockFlows, SessionTypeOK
<1>2. HolderInv'
  BY <1>1, QueueFacts, Holders, RecordedJobs DEF SetupOpens, flowVars, files, disk, SInv,
     HolderInv, FlowInv, Queue, LockFlows, Job, RollbackSteps, WipeSteps
<1>3. SessionTypeOK'
  BY <1>1, QueueFacts, Holders, RecordedJobs DEF SetupOpens, flowVars, files, disk, SInv,
     SessionTypeOK, Queue, LockFlows, Flows, Facts
<1>4. DiskInv'
  BY QueueFacts, Holders, RecordedJobs DEF SetupOpens, flowVars, files, disk, SInv, DiskInv,
     HolderInv, FlowInv, OutcomeInv, LockFlows
<1>5. FlowInv'
  BY QueueFacts, Holders, RecordedJobs DEF SetupOpens, flowVars, files, disk, SInv,
     SessionTypeOK, FlowInv, OutcomeInv, InPlace, HolderInv, Outcomes, LockFlows, Job,
     RollbackSteps, SessionAssumption
<1>6. OutcomeInv'
  BY QueueFacts, Holders, RecordedJobs DEF SetupOpens, flowVars, files, disk, SInv,
     SessionTypeOK, FlowInv, OutcomeInv, InPlace, HolderInv, DiskInv, Outcomes, LockFlows, Job,
     RollbackSteps, SessionAssumption
<1>7. AbstractStep
  BY DEF SetupOpens, flowVars, files, disk, SInv, SessionTypeOK, FlowInv, OutcomeInv, Recovered,
     Session, AbstractStep
<1> QED
  BY <1>2, <1>3, <1>4, <1>5, <1>6, <1>7 DEF SInv

\* Home Assistant unloads the entry.
LEMMA UnloadKeeps ==
    ASSUME SessionAssumption, SInv, Unload
    PROVE  SInv' /\ AbstractStep
<1>1. lockq' = Queue'
  BY QueueFacts, Holders DEF Unload, Unloads, flowVars, files, disk, SInv, HolderInv, Queue,
     LockFlows, SessionTypeOK
<1>2. HolderInv'
  BY <1>1, QueueFacts, Holders, RecordedJobs DEF Unload, Unloads, flowVars, files, disk, SInv,
     HolderInv, FlowInv, Queue, LockFlows, Job, RollbackSteps, WipeSteps
<1>3. SessionTypeOK'
  BY <1>1, QueueFacts, Holders, RecordedJobs DEF Unload, Unloads, flowVars, files, disk, SInv,
     SessionTypeOK, Queue, LockFlows, Flows, Facts
<1>4. DiskInv'
  BY QueueFacts, Holders, RecordedJobs DEF Unload, Unloads, flowVars, files, disk, SInv,
     DiskInv, HolderInv, FlowInv, OutcomeInv, LockFlows
<1>5. FlowInv'
  BY QueueFacts, Holders, RecordedJobs DEF Unload, Unloads, flowVars, files, disk, SInv,
     SessionTypeOK, FlowInv, OutcomeInv, InPlace, HolderInv, Outcomes, LockFlows, Job,
     RollbackSteps, SessionAssumption
<1>6. OutcomeInv'
  BY QueueFacts, Holders, RecordedJobs DEF Unload, Unloads, flowVars, files, disk, SInv,
     SessionTypeOK, FlowInv, OutcomeInv, InPlace, HolderInv, DiskInv, Outcomes, LockFlows, Job,
     RollbackSteps, SessionAssumption
<1>7. AbstractStep
  BY DEF Unload, Unloads, flowVars, files, disk, SInv, SessionTypeOK, FlowInv, OutcomeInv,
     Recovered, Session, AbstractStep
<1> QED
  BY <1>2, <1>3, <1>4, <1>5, <1>6, <1>7 DEF SInv

\* The entry is removed; its session is no session any more.
LEMMA RemoveEntryKeeps ==
    ASSUME SessionAssumption, SInv, RemoveEntry
    PROVE  SInv' /\ AbstractStep
<1>1. lockq' = Queue'
  BY QueueFacts, Holders DEF RemoveEntry, Wait, files, disk, SInv, HolderInv, Queue, LockFlows,
     SessionTypeOK
<1>2. HolderInv'
  BY <1>1, QueueFacts, Holders, RecordedJobs DEF RemoveEntry, Wait, files, disk, SInv,
     HolderInv, FlowInv, Queue, LockFlows, Job, RollbackSteps, WipeSteps
<1>3. SessionTypeOK'
  BY <1>1, QueueFacts, Holders, RecordedJobs DEF RemoveEntry, Wait, files, disk, SInv,
     SessionTypeOK, Queue, LockFlows, Flows, Facts
<1>4. DiskInv'
  BY QueueFacts, Holders, RecordedJobs DEF RemoveEntry, Wait, files, disk, SInv, DiskInv,
     HolderInv, FlowInv, OutcomeInv, LockFlows
<1>5. FlowInv'
  BY QueueFacts, Holders, RecordedJobs DEF RemoveEntry, Wait, files, disk, SInv, SessionTypeOK,
     FlowInv, OutcomeInv, InPlace, HolderInv, Outcomes, LockFlows, Job, RollbackSteps,
     SessionAssumption
<1>6. OutcomeInv'
  BY QueueFacts, Holders, RecordedJobs DEF RemoveEntry, Wait, files, disk, SInv, SessionTypeOK,
     FlowInv, OutcomeInv, InPlace, HolderInv, DiskInv, Outcomes, LockFlows, Job, RollbackSteps,
     SessionAssumption
<1>7. AbstractStep
  BY DEF RemoveEntry, Wait, files, disk, SInv, SessionTypeOK, FlowInv, OutcomeInv, Recovered,
     Session, AbstractStep
<1> QED
  BY <1>2, <1>3, <1>4, <1>5, <1>6, <1>7 DEF SInv

\* async_remove is over.
LEMMA RemovedKeeps ==
    ASSUME SessionAssumption, SInv, Removed
    PROVE  SInv' /\ AbstractStep
<1>1. lockq' = Queue'
  BY QueueFacts, Holders DEF Removed, Over, Release, files, disk, SInv, HolderInv, Queue,
     LockFlows, SessionTypeOK
<1>2. HolderInv'
  BY <1>1, QueueFacts, Holders, RecordedJobs DEF Removed, Over, Release, files, disk, SInv,
     HolderInv, FlowInv, Queue, LockFlows, Job, RollbackSteps, WipeSteps
<1>3. SessionTypeOK'
  BY <1>1, QueueFacts, Holders, RecordedJobs DEF Removed, Over, Release, files, disk, SInv,
     SessionTypeOK, Queue, LockFlows, Flows, Facts
<1>4. DiskInv'
  BY QueueFacts, Holders, RecordedJobs DEF Removed, Over, Release, files, disk, SInv, DiskInv,
     HolderInv, FlowInv, OutcomeInv, LockFlows
<1>5. FlowInv'
  BY QueueFacts, Holders, RecordedJobs DEF Removed, Over, Release, files, disk, SInv,
     SessionTypeOK, FlowInv, OutcomeInv, InPlace, HolderInv, Outcomes, LockFlows, Job,
     RollbackSteps, SessionAssumption
<1>6. OutcomeInv'
  BY QueueFacts, Holders, RecordedJobs DEF Removed, Over, Release, files, disk, SInv,
     SessionTypeOK, FlowInv, OutcomeInv, InPlace, HolderInv, DiskInv, Outcomes, LockFlows, Job,
     RollbackSteps, SessionAssumption
<1>7. AbstractStep
  BY DEF Removed, Over, Release, files, disk, SInv, SessionTypeOK, FlowInv, OutcomeInv,
     Recovered, Session, AbstractStep
<1> QED
  BY <1>2, <1>3, <1>4, <1>5, <1>6, <1>7 DEF SInv

\* The program is killed: the files stay, and mean what they meant.
LEMMA CrashKeeps ==
    ASSUME SessionAssumption, SInv, Crash
    PROVE  SInv' /\ AbstractStep
<1>1. lockq' = Queue'
  BY QueueFacts, Holders DEF Crash, disk, SInv, HolderInv, Queue, LockFlows, SessionTypeOK
<1>2. HolderInv'
  BY <1>1, QueueFacts, Holders, RecordedJobs DEF Crash, disk, SInv, HolderInv, FlowInv, Queue,
     LockFlows, Job, RollbackSteps, WipeSteps
<1>3. SessionTypeOK'
  <2>1. crashes' \in 0..MaxCrashes
    BY DEF Crash, SInv, SessionTypeOK, SessionAssumption
  <2>2. lockq' \in Seq({"flow", "setup"}) /\ work' = Idle
    BY QueueFacts DEF Crash
  <2> QED
    BY <2>1, <2>2 DEF Crash, disk, SInv, SessionTypeOK, Flows
<1>4. DiskInv'
  BY QueueFacts, Holders, RecordedJobs DEF Crash, disk, SInv, DiskInv, HolderInv, FlowInv,
     OutcomeInv, LockFlows
<1>5. FlowInv'
  BY QueueFacts, Holders, RecordedJobs DEF Crash, disk, SInv, SessionTypeOK, FlowInv,
     OutcomeInv, InPlace, HolderInv, Outcomes, LockFlows, Job, RollbackSteps, SessionAssumption
<1>6. OutcomeInv'
  BY QueueFacts, Holders, RecordedJobs DEF Crash, disk, SInv, SessionTypeOK, FlowInv,
     OutcomeInv, InPlace, HolderInv, DiskInv, Outcomes, LockFlows, Job, RollbackSteps,
     SessionAssumption
<1>7. AbstractStep
  BY DEF Crash, disk, SInv, SessionTypeOK, FlowInv, OutcomeInv, Recovered, Session, AbstractStep
<1> QED
  BY <1>2, <1>3, <1>4, <1>5, <1>6, <1>7 DEF SInv

-----------------------------------------------------------------------------
\* A step of the worker thread, whether its system call fails or not.
LEMMA ThreadKeeps ==
    ASSUME SessionAssumption, SInv, Thread
    PROVE  SInv' /\ AbstractStep
<1>1. work \in FileJobs
  BY DEF Thread, SInv, SessionTypeOK
<1>2. faults' \in 0..MaxFaults
  BY DEF Thread, Fault, SInv, SessionTypeOK, SessionAssumption
<1>3. Beside
  BY <1>1, <1>2 DEF Thread, Beside, flowVars
<1>4. CASE SystemCall
  <2>1. Clear(Nothing) => \E rest \in {Nothing, Torn} : Clear(rest)
    OBVIOUS
  <2>2. Sweep(Nothing) => \E rest \in {Nothing, Torn} : Sweep(rest)
    OBVIOUS
  <2> QED
    BY <1>3, <1>4, <2>1, <2>2, LookKeeps, PurgeKeeps, UntempKeeps, ClearKeeps, RestoreKeeps,
       DropKeeps, UnlinkKeeps, WriteTempKeeps,
       WriteJournalKeeps, KeepKeeps, PublishKeeps, AcceptKeeps, SweepKeeps, CheckKeeps,
       WipeKeeps DEF SystemCall
<1>5. CASE Fault
  <2>1. Clear(Torn) => \E rest \in {Nothing, Torn} : Clear(rest)
    OBVIOUS
  <2>2. Sweep(Torn) => \E rest \in {Nothing, Torn} : Sweep(rest)
    OBVIOUS
  <2> QED
    BY <1>3, <1>5, <2>1, <2>2, ClearKeeps, SweepKeeps, RaiseKeeps DEF Fault
<1> QED
  BY <1>4, <1>5 DEF Thread

\* No transaction and no setup is live at first.
LEMMA SInvInit == ASSUME SessionAssumption, SessionInit PROVE SInv
<1>1. work = Idle /\ work.at = "idle" /\ lockq = <<>>
  BY JobTypes DEF SessionInit
<1>2. SessionTypeOK
  <2>1. crashes \in 0..MaxCrashes /\ faults \in 0..MaxFaults
    BY DEF SessionInit, SessionAssumption
  <2>2. lockq \in Seq({"flow", "setup"}) /\ work \in FileJobs \cup {Idle}
    BY <1>1, QueueFacts
  <2> QED
    BY <2>1, <2>2 DEF SessionInit, SessionTypeOK, Flows
<1>3. HolderInv
  BY <1>1 DEF SessionInit, HolderInv, Queue, LockFlows
<1>4. DiskInv
  BY <1>1 DEF SessionInit, DiskInv
<1>5. FlowInv
  BY <1>1 DEF SessionInit, FlowInv
<1>6. OutcomeInv
  BY DEF SessionInit, OutcomeInv
<1> QED
  BY <1>2, <1>3, <1>4, <1>5, <1>6 DEF SInv

\* The invariant is inductive, and every step is one of AtomicSession or stutters.
LEMMA SInvStep ==
    ASSUME SessionAssumption, SInv, [SessionNext]_sessionVars
    PROVE  SInv' /\ AbstractStep
<1>1. CASE UNCHANGED sessionVars
  <2>1. SInv'
    BY <1>1 DEF sessionVars, disk, flowVars, SInv, SessionTypeOK, HolderInv, DiskInv, FlowInv,
       OutcomeInv,
                InPlace, Queue, Job
  <2>2. AbstractStep
    BY <1>1 DEF sessionVars, disk, flowVars, AbstractStep, Session, Recovered
  <2> QED
    BY <2>1, <2>2
<1>2. CASE FlowStep
  BY <1>2, PrepareKeeps, RejectKeeps, UnloadOldKeeps, CommittedKeeps, UndoneKeeps, UpdateKeeps,
     ReloadKeeps,
     ReloadedKeeps, FinalizedKeeps, CleanupKeeps, RolledBackKeeps, DiscardKeeps,
     FlowLeavesKeeps DEF FlowStep
<1> QED
  BY <1>1, <1>2, ThreadKeeps, GrantedKeeps, OtherKeyKeeps, BeginKeeps, CancelKeeps,
     SetupStartKeeps,
     SetupRecoveredKeeps, SetupOpensKeeps, UnloadKeeps, RemoveEntryKeeps, RemovedKeeps,
     CrashKeeps DEF SessionNext

\* SInv holds at every state, whatever the number of crashes and faults.
LEMMA SInvAlways == SessionSafe => []SInv
<1>1. SessionInit => SInv
  BY SInvInit, SessionAssumption
<1>2. SInv /\ [SessionNext]_sessionVars => SInv'
  BY SInvStep, SessionAssumption
<1> QED
  BY <1>1, <1>2, PTL DEF SessionSafe

\* The files, the lock and the flow of session.py and config_flow.py have their types.
THEOREM SessionTypes == SessionSafe => []SessionTypeOK
<1>1. SInv => SessionTypeOK
  BY DEF SInv
<1> QED
  BY <1>1, SInvAlways, PTL

\* The flow of _credentials reports what happened to the session, commit finds
\* neither a backup nor a temporary of an earlier transaction, and a rollback
\* of the finally clause finds its journal.
THEOREM FlowTellsTheTruth == SessionSafe => []TransactionIsSound
<1>1. ASSUME SInv PROVE OutcomeIsTrue
  <2> SUFFICES ASSUME flow \in {"restart", "leave"}
               PROVE  "finished" \in facts <=> Session = trial
    BY DEF OutcomeIsTrue
  <2>1. trial \in Versions /\ trial # Nothing /\ trial # Torn /\ trial # backup /\ entry # "removed"
    <3>1. trial \in Versions \cup {Nothing} /\ (trial # Nothing <=> flow \notin {"none", "remove"})
      BY <1>1 DEF SInv, SessionTypeOK, FlowInv
    <3> QED
      BY <1>1, <3>1, SessionAssumption DEF SInv, FlowInv, SessionAssumption
  <2>2. ASSUME "finished" \in facts PROVE Session = trial
    BY <1>1, <2>1, <2>2 DEF SInv, OutcomeInv, Session, Recovered
  <2>3. ASSUME Session = trial PROVE "finished" \in facts
    <3>1. Recovered = trial
      BY <2>1, <2>3 DEF Session
    <3>2. dest = trial /\ (journal # Nothing => backup = Nothing /\ journal.had)
      BY <2>1, <3>1 DEF Recovered
    <3>3. journal = Nothing
      BY <1>1, <2>1, <3>2 DEF SInv, OutcomeInv
    <3> QED
      BY <1>1, <2>1, <3>2, <3>3 DEF SInv, OutcomeInv
  <2> QED
    BY <2>2, <2>3
<1>2. ASSUME SInv PROVE CommitUnblocked /\ RollbackHasWork
  <2>1. CommitUnblocked
    BY <1>2 DEF SInv, DiskInv, CommitUnblocked
  <2>2. ASSUME flow = "rollback", work.at = "clear" PROVE journal # Nothing
    <3>1. trial # Nothing
      BY <1>2, <2>2 DEF SInv, FlowInv
    <3> QED
      BY <1>2, <2>2, <3>1 DEF SInv, OutcomeInv
  <2> QED
    BY <2>1, <2>2 DEF RollbackHasWork
<1>3. SInv => TransactionIsSound
  BY <1>1, <1>2 DEF TransactionIsSound
<1> QED
  BY <1>3, SInvAlways, PTL

\* The files implement AtomicSession: through every crash, fault and
\* interleaving the session of the key is complete and changes at the commit
\* point of async_finalize only, to the candidate of the live transaction.
THEOREM FilesAreAtomic == SessionSafe => ImplementsAtomic
<1>1. SessionInit => Atomic!Init
  BY SessionAssumption DEF SessionInit, Atomic!Init, Session, Recovered
<1>2. SInv /\ [SessionNext]_sessionVars => [Atomic!Next]_<<Session, trial>>
  <2> SUFFICES ASSUME SInv, [SessionNext]_sessionVars PROVE [Atomic!Next]_<<Session, trial>>
    OBVIOUS
  <2>1. AbstractStep
    BY SInvStep, SessionAssumption
  <2> QED
    BY <2>1 DEF AbstractStep, Atomic!Next, Atomic!Offer, Atomic!Accept, Atomic!Withdraw,
       Atomic!Forget
<1> QED
  BY <1>1, <1>2, SInvAlways, PTL DEF SessionSafe, ImplementsAtomic, Atomic!Spec

-----------------------------------------------------------------------------
\* A runtime and its session files: while Home Assistant sets up the entry only between
\* transactions, no file is replaced under a runtime, and between transactions a runtime uses
\* the session of the key.

\* Which states of the entry a flow meets.
EntryInv ==
    /\ ~OtherSetups
    /\ entry = "recovering" => flow = "none"
    /\ entry = "opening" => flow \in {"none", "reloading", "restarting"}
    /\ flow \in {"open", "prepared"} => entry \in {"loaded", "not_loaded", "none"}
    /\ flow \in {"commit", "undo", "update", "rollback"} => entry \in {"not_loaded", "none"}
    /\ flow = "reload" => entry = "not_loaded"
    /\ flow = "reloading" => entry \in {"opening", "loaded", "not_loaded"}
    /\ flow = "finalize" => entry \in {"loaded", "none"}
    /\ flow = "cleanup" /\ "committed" \in facts => entry \in {"loaded", "not_loaded", "none"}

\* The files of a runtime.
ServingInv ==
    /\ entry \notin {"none", "removed"} => Session # Nothing
    /\ entry = "loaded" => serving = dest /\ dest # Nothing

\* A job that undid a transaction and succeeded.
Recovering == entry = "recovering" \/ flow \in {"undo", "rollback"}
UndoneInv == Recovering /\ work.at = "ended" /\ work.ok => journal = Nothing

\* The journal while no call has failed.
Unfinished == {"unloaded", "updated"} \cap facts # {}
JournalInv ==
    /\ flow \in {"none", "open", "prepared", "remove"} => ~Unfinished
    /\ flow \in {"commit", "undo"} => "updated" \notin facts
    /\ faults = 0 =>
         /\ work.at = "ended" /\ flow # "remove" => work.ok
         /\ work # Idle => work.then # "raise"
         /\ work.at = "restore" => dest = Nothing
         /\ journal # Nothing =>
              /\ entry \in {"loaded", "opening"} =>
                   flow \in {"reloading", "finalize"} \/ (flow = "cleanup" /\ "committed" \in facts)
              /\ flow \notin {"restart", "restarting"}
              /\ flow = "discard" /\ "pending" \notin facts => ~Unfinished
              /\ flow = "cleanup" /\ "committed" \notin facts => ~Unfinished
              /\ flow = "commit" /\ work = Idle => "unloaded" \notin facts

RInv == SInv /\ EntryInv /\ ServingInv /\ UndoneInv /\ JournalInv

\* A runtime keeps its files in a step.
FilesStay == entry \in {"loaded", "failed_unload"} /\ entry' = entry => dest' = dest

\* A job changes the files of no runtime.
LEMMA JobsSpareRuntimes ==
    ASSUME SInv, EntryInv, work \in FileJobs, entry \in {"loaded", "failed_unload"}
    PROVE  flow = "finalize" /\ work.at \in {"accept", "sweep", "ended"}
<1>1. work # Idle
  BY JobTypes
<1>2. flow \in LockFlows
  BY <1>1, Holders
<1>3. flow = "finalize"
  BY <1>2 DEF EntryInv, SInv, FlowInv, LockFlows
<1> QED
  BY <1>1, <1>3 DEF SInv, HolderInv, Job

-----------------------------------------------------------------------------
\* What a step of the thread does besides: the last part is about calls that do not fail.
ThreadPart ==
    /\ UndoneInv'
    /\ FilesStay
    /\ faults = 0 /\ faults' = faults => JournalInv'

\* Look spares the runtime.
LEMMA LookSpares ==
    ASSUME SessionAssumption, RInv, Beside, Look
    PROVE  ThreadPart
<1>1. LookEffect
  BY LookDoes DEF RInv
<1>2. /\ work \in FileJobs /\ work # Idle /\ work' # Idle
      /\ work.then \in {"end", "commit", "raise"}
  BY <1>1, JobTypes DEF LookEffect, Beside, GoesTo, Ends, Resolves
<1>3. UndoneInv'
  BY <1>1, <1>2 DEF RInv, LookEffect, Beside, GoesTo, Ends, Resolves, SInv, HolderInv, DiskInv, EntryInv, UndoneInv, Recovering, Job, RollbackSteps, WipeSteps
<1>4. FilesStay
  BY <1>1, <1>2, JobsSpareRuntimes DEF RInv, LookEffect, Beside, FilesStay, WipeSteps
<1>6. ASSUME faults = 0, faults' = faults PROVE JournalInv'
  <2>1. work' # Idle => work'.then # "raise"
    BY <1>1, <1>2, <1>6 DEF RInv, JournalInv, LookEffect, GoesTo, Ends, Resolves
  <2>2. work'.at = "restore" => dest' = Nothing
    BY <1>1, <1>2, <1>6 DEF RInv, JournalInv, LookEffect, GoesTo, Ends, Resolves, WipeSteps
  <2>3. work'.at = "ended" /\ flow' # "remove" => work'.ok
    BY <1>1, <1>2, <1>6, Holders DEF RInv, EntryInv, JournalInv, SInv, HolderInv, LockFlows, DiskInv, Job, RollbackSteps, WipeSteps, LookEffect, Beside, GoesTo, Ends, Resolves
  <2> QED
    BY <1>1, <1>2, <1>6, <2>1, <2>2, <2>3, Holders DEF RInv, EntryInv, JournalInv, Unfinished, SInv, HolderInv, LockFlows, Job, RollbackSteps, WipeSteps, LookEffect, Beside
<1> QED
  BY <1>3, <1>4, <1>6 DEF ThreadPart

\* Purge spares the runtime.
LEMMA PurgeSpares ==
    ASSUME SessionAssumption, RInv, Beside, Purge
    PROVE  ThreadPart
<1>1. PurgeEffect
  BY PurgeDoes DEF RInv
<1>2. /\ work \in FileJobs /\ work # Idle /\ work' # Idle
      /\ work.then \in {"end", "commit", "raise"}
  BY <1>1, JobTypes DEF PurgeEffect, Beside, GoesTo, Ends, Resolves
<1>3. UndoneInv'
  BY <1>1, <1>2 DEF RInv, PurgeEffect, Beside, GoesTo, Ends, Resolves, SInv, HolderInv, DiskInv, EntryInv, UndoneInv, Recovering, Job, RollbackSteps, WipeSteps
<1>4. FilesStay
  BY <1>1, <1>2, JobsSpareRuntimes DEF RInv, PurgeEffect, Beside, FilesStay, WipeSteps
<1>6. ASSUME faults = 0, faults' = faults PROVE JournalInv'
  <2>1. work' # Idle => work'.then # "raise"
    BY <1>1, <1>2, <1>6 DEF RInv, JournalInv, PurgeEffect, GoesTo, Ends, Resolves
  <2>2. work'.at = "restore" => dest' = Nothing
    BY <1>1, <1>2, <1>6 DEF RInv, JournalInv, PurgeEffect, GoesTo, Ends, Resolves, WipeSteps
  <2>3. work'.at = "ended" /\ flow' # "remove" => work'.ok
    BY <1>1, <1>2, <1>6, Holders DEF RInv, EntryInv, JournalInv, SInv, HolderInv, LockFlows, DiskInv, Job, RollbackSteps, WipeSteps, PurgeEffect, Beside, GoesTo, Ends, Resolves
  <2> QED
    BY <1>1, <1>2, <1>6, <2>1, <2>2, <2>3, Holders DEF RInv, EntryInv, JournalInv, Unfinished, SInv, HolderInv, LockFlows, Job, RollbackSteps, WipeSteps, PurgeEffect, Beside
<1> QED
  BY <1>3, <1>4, <1>6 DEF ThreadPart

\* Untemp spares the runtime.
LEMMA UntempSpares ==
    ASSUME SessionAssumption, RInv, Beside, Untemp
    PROVE  ThreadPart
<1>1. UntempEffect
  BY UntempDoes DEF RInv
<1>2. /\ work \in FileJobs /\ work # Idle /\ work' # Idle
      /\ work.then \in {"end", "commit", "raise"}
  BY <1>1, JobTypes DEF UntempEffect, Beside, GoesTo, Ends, Resolves
<1>3. UndoneInv'
  BY <1>1, <1>2 DEF RInv, UntempEffect, Beside, GoesTo, Ends, Resolves, SInv, HolderInv, DiskInv, EntryInv, UndoneInv, Recovering, Job, RollbackSteps, WipeSteps
<1>4. FilesStay
  BY <1>1, <1>2, JobsSpareRuntimes DEF RInv, UntempEffect, Beside, FilesStay, WipeSteps
<1>6. ASSUME faults = 0, faults' = faults PROVE JournalInv'
  <2>1. work' # Idle => work'.then # "raise"
    BY <1>1, <1>2, <1>6 DEF RInv, JournalInv, UntempEffect, GoesTo, Ends, Resolves
  <2>2. work'.at = "restore" => dest' = Nothing
    BY <1>1, <1>2, <1>6 DEF RInv, JournalInv, UntempEffect, GoesTo, Ends, Resolves, WipeSteps
  <2>3. work'.at = "ended" /\ flow' # "remove" => work'.ok
    BY <1>1, <1>2, <1>6, Holders DEF RInv, EntryInv, JournalInv, SInv, HolderInv, LockFlows, DiskInv, Job, RollbackSteps, WipeSteps, UntempEffect, Beside, GoesTo, Ends, Resolves
  <2> QED
    BY <1>1, <1>2, <1>6, <2>1, <2>2, <2>3, Holders DEF RInv, EntryInv, JournalInv, Unfinished, SInv, HolderInv, LockFlows, Job, RollbackSteps, WipeSteps, UntempEffect, Beside
<1> QED
  BY <1>3, <1>4, <1>6 DEF ThreadPart

\* Clear spares the runtime.
LEMMA ClearSpares ==
    ASSUME SessionAssumption, RInv, Beside, \E rest \in {Nothing, Torn} : Clear(rest), faults' = faults => Clear(Nothing)
    PROVE  ThreadPart
<1>1. ClearEffect
  BY ClearDoes DEF RInv
<1>2. /\ work \in FileJobs /\ work # Idle /\ work' # Idle
      /\ work.then \in {"end", "commit", "raise"}
  BY <1>1, JobTypes DEF ClearEffect, Beside, GoesTo, Ends, Resolves
<1>3. UndoneInv'
  BY <1>1, <1>2 DEF RInv, ClearEffect, Beside, GoesTo, Ends, Resolves, SInv, HolderInv, DiskInv, EntryInv, UndoneInv, Recovering, Job, RollbackSteps, WipeSteps
<1>4. FilesStay
  BY <1>1, <1>2, JobsSpareRuntimes DEF RInv, ClearEffect, Beside, FilesStay, WipeSteps
<1>5. faults' = faults /\ journal # Nothing /\ backup # Nothing => dest' = Nothing
  BY DEF Clear, Replaced
<1>6. ASSUME faults = 0, faults' = faults PROVE JournalInv'
  <2>1. work' # Idle => work'.then # "raise"
    BY <1>1, <1>2, <1>6 DEF RInv, JournalInv, ClearEffect, GoesTo, Ends, Resolves
  <2>2. work'.at = "restore" => dest' = Nothing
    BY <1>1, <1>2, <1>5, <1>6 DEF RInv, JournalInv, ClearEffect, GoesTo, Ends, Resolves, WipeSteps
  <2>3. work'.at = "ended" /\ flow' # "remove" => work'.ok
    BY <1>1, <1>2, <1>6, Holders DEF RInv, EntryInv, JournalInv, SInv, HolderInv, LockFlows, DiskInv, Job, RollbackSteps, WipeSteps, ClearEffect, Beside, GoesTo, Ends, Resolves
  <2> QED
    BY <1>1, <1>2, <1>6, <2>1, <2>2, <2>3, Holders DEF RInv, EntryInv, JournalInv, Unfinished, SInv, HolderInv, LockFlows, Job, RollbackSteps, WipeSteps, ClearEffect, Beside
<1> QED
  BY <1>3, <1>4, <1>6 DEF ThreadPart

\* Restore spares the runtime.
LEMMA RestoreSpares ==
    ASSUME SessionAssumption, RInv, Beside, Restore
    PROVE  ThreadPart
<1>1. RestoreEffect
  BY RestoreDoes DEF RInv
<1>2. /\ work \in FileJobs /\ work # Idle /\ work' # Idle
      /\ work.then \in {"end", "commit", "raise"}
  BY <1>1, JobTypes DEF RestoreEffect, Beside, GoesTo, Ends, Resolves
<1>3. UndoneInv'
  BY <1>1, <1>2 DEF RInv, RestoreEffect, Beside, GoesTo, Ends, Resolves, SInv, HolderInv, DiskInv, EntryInv, UndoneInv, Recovering, Job, RollbackSteps, WipeSteps
<1>4. FilesStay
  BY <1>1, <1>2, JobsSpareRuntimes DEF RInv, RestoreEffect, Beside, FilesStay, WipeSteps
<1>6. ASSUME faults = 0, faults' = faults PROVE JournalInv'
  <2>1. work' # Idle => work'.then # "raise"
    BY <1>1, <1>2, <1>6 DEF RInv, JournalInv, RestoreEffect, GoesTo, Ends, Resolves
  <2>2. work'.at = "restore" => dest' = Nothing
    BY <1>1, <1>2, <1>6 DEF RInv, JournalInv, RestoreEffect, GoesTo, Ends, Resolves, WipeSteps
  <2>3. work'.at = "ended" /\ flow' # "remove" => work'.ok
    BY <1>1, <1>2, <1>6, Holders DEF RInv, EntryInv, JournalInv, SInv, HolderInv, LockFlows, DiskInv, Job, RollbackSteps, WipeSteps, RestoreEffect, Beside, GoesTo, Ends, Resolves
  <2> QED
    BY <1>1, <1>2, <1>6, <2>1, <2>2, <2>3, Holders DEF RInv, EntryInv, JournalInv, Unfinished, SInv, HolderInv, LockFlows, Job, RollbackSteps, WipeSteps, RestoreEffect, Beside
<1> QED
  BY <1>3, <1>4, <1>6 DEF ThreadPart

\* Drop spares the runtime.
LEMMA DropSpares ==
    ASSUME SessionAssumption, RInv, Beside, Drop
    PROVE  ThreadPart
<1>1. DropEffect
  BY DropDoes DEF RInv
<1>2. /\ work \in FileJobs /\ work # Idle /\ work' # Idle
      /\ work.then \in {"end", "commit", "raise"}
  BY <1>1, JobTypes DEF DropEffect, Beside, GoesTo, Ends, Resolves
<1>3. UndoneInv'
  BY <1>1, <1>2 DEF RInv, DropEffect, Beside, GoesTo, Ends, Resolves, SInv, HolderInv, DiskInv, EntryInv, UndoneInv, Recovering, Job, RollbackSteps, WipeSteps
<1>4. FilesStay
  BY <1>1, <1>2, JobsSpareRuntimes DEF RInv, DropEffect, Beside, FilesStay, WipeSteps
<1>6. ASSUME faults = 0, faults' = faults PROVE JournalInv'
  <2>1. work' # Idle => work'.then # "raise"
    BY <1>1, <1>2, <1>6 DEF RInv, JournalInv, DropEffect, GoesTo, Ends, Resolves
  <2>2. work'.at = "restore" => dest' = Nothing
    BY <1>1, <1>2, <1>6 DEF RInv, JournalInv, DropEffect, GoesTo, Ends, Resolves, WipeSteps
  <2>3. work'.at = "ended" /\ flow' # "remove" => work'.ok
    BY <1>1, <1>2, <1>6, Holders DEF RInv, EntryInv, JournalInv, SInv, HolderInv, LockFlows, DiskInv, Job, RollbackSteps, WipeSteps, DropEffect, Beside, GoesTo, Ends, Resolves
  <2> QED
    BY <1>1, <1>2, <1>6, <2>1, <2>2, <2>3, Holders DEF RInv, EntryInv, JournalInv, Unfinished, SInv, HolderInv, LockFlows, Job, RollbackSteps, WipeSteps, DropEffect, Beside
<1> QED
  BY <1>3, <1>4, <1>6 DEF ThreadPart

\* Unlink spares the runtime.
LEMMA UnlinkSpares ==
    ASSUME SessionAssumption, RInv, Beside, Unlink
    PROVE  ThreadPart
<1>1. UnlinkEffect
  BY UnlinkDoes DEF RInv
<1>2. /\ work \in FileJobs /\ work # Idle /\ work' # Idle
      /\ work.then \in {"end", "commit", "raise"}
  BY <1>1, JobTypes DEF UnlinkEffect, Beside, GoesTo, Ends, Resolves
<1>3. UndoneInv'
  BY <1>1, <1>2 DEF RInv, UnlinkEffect, Beside, GoesTo, Ends, Resolves, SInv, HolderInv, DiskInv, EntryInv, UndoneInv, Recovering, Job, RollbackSteps, WipeSteps
<1>4. FilesStay
  BY <1>1, <1>2, JobsSpareRuntimes DEF RInv, UnlinkEffect, Beside, FilesStay, WipeSteps
<1>6. ASSUME faults = 0, faults' = faults PROVE JournalInv'
  <2>1. work' # Idle => work'.then # "raise"
    BY <1>1, <1>2, <1>6 DEF RInv, JournalInv, UnlinkEffect, GoesTo, Ends, Resolves
  <2>2. work'.at = "restore" => dest' = Nothing
    BY <1>1, <1>2, <1>6 DEF RInv, JournalInv, UnlinkEffect, GoesTo, Ends, Resolves, WipeSteps
  <2>3. work'.at = "ended" /\ flow' # "remove" => work'.ok
    BY <1>1, <1>2, <1>6, Holders DEF RInv, EntryInv, JournalInv, SInv, HolderInv, LockFlows, DiskInv, Job, RollbackSteps, WipeSteps, UnlinkEffect, Beside, GoesTo, Ends, Resolves
  <2> QED
    BY <1>1, <1>2, <1>6, <2>1, <2>2, <2>3, Holders DEF RInv, EntryInv, JournalInv, Unfinished, SInv, HolderInv, LockFlows, Job, RollbackSteps, WipeSteps, UnlinkEffect, Beside
<1> QED
  BY <1>3, <1>4, <1>6 DEF ThreadPart

\* WriteTemp spares the runtime.
LEMMA WriteTempSpares ==
    ASSUME SessionAssumption, RInv, Beside, WriteTemp
    PROVE  ThreadPart
<1>1. WriteTempEffect
  BY WriteTempDoes DEF RInv
<1>2. /\ work \in FileJobs /\ work # Idle /\ work' # Idle
      /\ work.then \in {"end", "commit", "raise"}
  BY <1>1, JobTypes DEF WriteTempEffect, Beside, GoesTo, Ends, Resolves
<1>3. UndoneInv'
  BY <1>1, <1>2 DEF RInv, WriteTempEffect, Beside, GoesTo, Ends, Resolves, SInv, HolderInv, DiskInv, EntryInv, UndoneInv, Recovering, Job, RollbackSteps, WipeSteps
<1>4. FilesStay
  BY <1>1, <1>2, JobsSpareRuntimes DEF RInv, WriteTempEffect, Beside, FilesStay, WipeSteps
<1>6. ASSUME faults = 0, faults' = faults PROVE JournalInv'
  <2>1. work' # Idle => work'.then # "raise"
    BY <1>1, <1>2, <1>6 DEF RInv, JournalInv, WriteTempEffect, GoesTo, Ends, Resolves
  <2>2. work'.at = "restore" => dest' = Nothing
    BY <1>1, <1>2, <1>6 DEF RInv, JournalInv, WriteTempEffect, GoesTo, Ends, Resolves, WipeSteps
  <2>3. work'.at = "ended" /\ flow' # "remove" => work'.ok
    BY <1>1, <1>2, <1>6, Holders DEF RInv, EntryInv, JournalInv, SInv, HolderInv, LockFlows, DiskInv, Job, RollbackSteps, WipeSteps, WriteTempEffect, Beside, GoesTo, Ends, Resolves
  <2> QED
    BY <1>1, <1>2, <1>6, <2>1, <2>2, <2>3, Holders DEF RInv, EntryInv, JournalInv, Unfinished, SInv, HolderInv, LockFlows, Job, RollbackSteps, WipeSteps, WriteTempEffect, Beside
<1> QED
  BY <1>3, <1>4, <1>6 DEF ThreadPart

\* WriteJournal spares the runtime.
LEMMA WriteJournalSpares ==
    ASSUME SessionAssumption, RInv, Beside, WriteJournal
    PROVE  ThreadPart
<1>1. WriteJournalEffect
  BY WriteJournalDoes DEF RInv
<1>2. /\ work \in FileJobs /\ work # Idle /\ work' # Idle
      /\ work.then \in {"end", "commit", "raise"}
  BY <1>1, JobTypes DEF WriteJournalEffect, Beside, GoesTo, Ends, Resolves
<1>3. UndoneInv'
  BY <1>1, <1>2 DEF RInv, WriteJournalEffect, Beside, GoesTo, Ends, Resolves, SInv, HolderInv, DiskInv, EntryInv, UndoneInv, Recovering, Job, RollbackSteps, WipeSteps
<1>4. FilesStay
  BY <1>1, <1>2, JobsSpareRuntimes DEF RInv, WriteJournalEffect, Beside, FilesStay, WipeSteps
<1>6. ASSUME faults = 0, faults' = faults PROVE JournalInv'
  <2>1. work' # Idle => work'.then # "raise"
    BY <1>1, <1>2, <1>6 DEF RInv, JournalInv, WriteJournalEffect, GoesTo, Ends, Resolves
  <2>2. work'.at = "restore" => dest' = Nothing
    BY <1>1, <1>2, <1>6 DEF RInv, JournalInv, WriteJournalEffect, GoesTo, Ends, Resolves, WipeSteps
  <2>3. work'.at = "ended" /\ flow' # "remove" => work'.ok
    BY <1>1, <1>2, <1>6, Holders DEF RInv, EntryInv, JournalInv, SInv, HolderInv, LockFlows, DiskInv, Job, RollbackSteps, WipeSteps, WriteJournalEffect, Beside, GoesTo, Ends, Resolves
  <2> QED
    BY <1>1, <1>2, <1>6, <2>1, <2>2, <2>3, Holders DEF RInv, EntryInv, JournalInv, Unfinished, SInv, HolderInv, LockFlows, Job, RollbackSteps, WipeSteps, WriteJournalEffect, Beside
<1> QED
  BY <1>3, <1>4, <1>6 DEF ThreadPart

\* Keep spares the runtime.
LEMMA KeepSpares ==
    ASSUME SessionAssumption, RInv, Beside, Keep
    PROVE  ThreadPart
<1>1. KeepEffect
  BY KeepDoes DEF RInv
<1>2. /\ work \in FileJobs /\ work # Idle /\ work' # Idle
      /\ work.then \in {"end", "commit", "raise"}
  BY <1>1, JobTypes DEF KeepEffect, Beside, GoesTo, Ends, Resolves
<1>3. UndoneInv'
  BY <1>1, <1>2 DEF RInv, KeepEffect, Beside, GoesTo, Ends, Resolves, SInv, HolderInv, DiskInv, EntryInv, UndoneInv, Recovering, Job, RollbackSteps, WipeSteps
<1>4. FilesStay
  BY <1>1, <1>2, JobsSpareRuntimes DEF RInv, KeepEffect, Beside, FilesStay, WipeSteps
<1>6. ASSUME faults = 0, faults' = faults PROVE JournalInv'
  <2>1. work' # Idle => work'.then # "raise"
    BY <1>1, <1>2, <1>6 DEF RInv, JournalInv, KeepEffect, GoesTo, Ends, Resolves
  <2>2. work'.at = "restore" => dest' = Nothing
    BY <1>1, <1>2, <1>6 DEF RInv, JournalInv, KeepEffect, GoesTo, Ends, Resolves, WipeSteps
  <2>3. work'.at = "ended" /\ flow' # "remove" => work'.ok
    BY <1>1, <1>2, <1>6, Holders DEF RInv, EntryInv, JournalInv, SInv, HolderInv, LockFlows, DiskInv, Job, RollbackSteps, WipeSteps, KeepEffect, Beside, GoesTo, Ends, Resolves
  <2> QED
    BY <1>1, <1>2, <1>6, <2>1, <2>2, <2>3, Holders DEF RInv, EntryInv, JournalInv, Unfinished, SInv, HolderInv, LockFlows, Job, RollbackSteps, WipeSteps, KeepEffect, Beside
<1> QED
  BY <1>3, <1>4, <1>6 DEF ThreadPart

\* Publish spares the runtime.
LEMMA PublishSpares ==
    ASSUME SessionAssumption, RInv, Beside, Publish
    PROVE  ThreadPart
<1>1. PublishEffect
  BY PublishDoes DEF RInv
<1>2. /\ work \in FileJobs /\ work # Idle /\ work' # Idle
      /\ work.then \in {"end", "commit", "raise"}
  BY <1>1, JobTypes DEF PublishEffect, Beside, GoesTo, Ends, Resolves
<1>3. UndoneInv'
  BY <1>1, <1>2 DEF RInv, PublishEffect, Beside, GoesTo, Ends, Resolves, SInv, HolderInv, DiskInv, EntryInv, UndoneInv, Recovering, Job, RollbackSteps, WipeSteps
<1>4. FilesStay
  BY <1>1, <1>2, JobsSpareRuntimes DEF RInv, PublishEffect, Beside, FilesStay, WipeSteps
<1>6. ASSUME faults = 0, faults' = faults PROVE JournalInv'
  <2>1. work' # Idle => work'.then # "raise"
    BY <1>1, <1>2, <1>6 DEF RInv, JournalInv, PublishEffect, GoesTo, Ends, Resolves
  <2>2. work'.at = "restore" => dest' = Nothing
    BY <1>1, <1>2, <1>6 DEF RInv, JournalInv, PublishEffect, GoesTo, Ends, Resolves, WipeSteps
  <2>3. work'.at = "ended" /\ flow' # "remove" => work'.ok
    BY <1>1, <1>2, <1>6, Holders DEF RInv, EntryInv, JournalInv, SInv, HolderInv, LockFlows, DiskInv, Job, RollbackSteps, WipeSteps, PublishEffect, Beside, GoesTo, Ends, Resolves
  <2> QED
    BY <1>1, <1>2, <1>6, <2>1, <2>2, <2>3, Holders DEF RInv, EntryInv, JournalInv, Unfinished, SInv, HolderInv, LockFlows, Job, RollbackSteps, WipeSteps, PublishEffect, Beside
<1> QED
  BY <1>3, <1>4, <1>6 DEF ThreadPart

\* Accept spares the runtime.
LEMMA AcceptSpares ==
    ASSUME SessionAssumption, RInv, Beside, Accept
    PROVE  ThreadPart
<1>1. AcceptEffect
  BY AcceptDoes DEF RInv
<1>2. /\ work \in FileJobs /\ work # Idle /\ work' # Idle
      /\ work.then \in {"end", "commit", "raise"}
  BY <1>1, JobTypes DEF AcceptEffect, Beside, GoesTo, Ends, Resolves
<1>3. UndoneInv'
  BY <1>1, <1>2 DEF RInv, AcceptEffect, Beside, GoesTo, Ends, Resolves, SInv, HolderInv, DiskInv, EntryInv, UndoneInv, Recovering, Job, RollbackSteps, WipeSteps
<1>4. FilesStay
  BY <1>1, <1>2, JobsSpareRuntimes DEF RInv, AcceptEffect, Beside, FilesStay, WipeSteps
<1>6. ASSUME faults = 0, faults' = faults PROVE JournalInv'
  <2>1. work' # Idle => work'.then # "raise"
    BY <1>1, <1>2, <1>6 DEF RInv, JournalInv, AcceptEffect, GoesTo, Ends, Resolves
  <2>2. work'.at = "restore" => dest' = Nothing
    BY <1>1, <1>2, <1>6 DEF RInv, JournalInv, AcceptEffect, GoesTo, Ends, Resolves, WipeSteps
  <2>3. work'.at = "ended" /\ flow' # "remove" => work'.ok
    BY <1>1, <1>2, <1>6, Holders DEF RInv, EntryInv, JournalInv, SInv, HolderInv, LockFlows, DiskInv, Job, RollbackSteps, WipeSteps, AcceptEffect, Beside, GoesTo, Ends, Resolves
  <2> QED
    BY <1>1, <1>2, <1>6, <2>1, <2>2, <2>3, Holders DEF RInv, EntryInv, JournalInv, Unfinished, SInv, HolderInv, LockFlows, Job, RollbackSteps, WipeSteps, AcceptEffect, Beside
<1> QED
  BY <1>3, <1>4, <1>6 DEF ThreadPart

\* Sweep spares the runtime.
LEMMA SweepSpares ==
    ASSUME SessionAssumption, RInv, Beside, \E rest \in {Nothing, Torn} : Sweep(rest)
    PROVE  ThreadPart
<1>1. SweepEffect
  BY SweepDoes DEF RInv
<1>2. /\ work \in FileJobs /\ work # Idle /\ work' # Idle
      /\ work.then \in {"end", "commit", "raise"}
  BY <1>1, JobTypes DEF SweepEffect, Beside, GoesTo, Ends, Resolves
<1>3. UndoneInv'
  BY <1>1, <1>2 DEF RInv, SweepEffect, Beside, GoesTo, Ends, Resolves, SInv, HolderInv, DiskInv, EntryInv, UndoneInv, Recovering, Job, RollbackSteps, WipeSteps
<1>4. FilesStay
  BY <1>1, <1>2, JobsSpareRuntimes DEF RInv, SweepEffect, Beside, FilesStay, WipeSteps
<1>6. ASSUME faults = 0, faults' = faults PROVE JournalInv'
  <2>1. work' # Idle => work'.then # "raise"
    BY <1>1, <1>2, <1>6 DEF RInv, JournalInv, SweepEffect, GoesTo, Ends, Resolves
  <2>2. work'.at = "restore" => dest' = Nothing
    BY <1>1, <1>2, <1>6 DEF RInv, JournalInv, SweepEffect, GoesTo, Ends, Resolves, WipeSteps
  <2>3. work'.at = "ended" /\ flow' # "remove" => work'.ok
    BY <1>1, <1>2, <1>6, Holders DEF RInv, EntryInv, JournalInv, SInv, HolderInv, LockFlows, DiskInv, Job, RollbackSteps, WipeSteps, SweepEffect, Beside, GoesTo, Ends, Resolves
  <2> QED
    BY <1>1, <1>2, <1>6, <2>1, <2>2, <2>3, Holders DEF RInv, EntryInv, JournalInv, Unfinished, SInv, HolderInv, LockFlows, Job, RollbackSteps, WipeSteps, SweepEffect, Beside
<1> QED
  BY <1>3, <1>4, <1>6 DEF ThreadPart

\* Check spares the runtime.
LEMMA CheckSpares ==
    ASSUME SessionAssumption, RInv, Beside, Check
    PROVE  ThreadPart
<1>1. CheckEffect
  BY CheckDoes DEF RInv
<1>2. /\ work \in FileJobs /\ work # Idle /\ work' # Idle
      /\ work.then \in {"end", "commit", "raise"}
  BY <1>1, JobTypes DEF CheckEffect, Beside, GoesTo, Ends, Resolves
<1>3. UndoneInv'
  BY <1>1, <1>2 DEF RInv, CheckEffect, Beside, GoesTo, Ends, Resolves, SInv, HolderInv, DiskInv, EntryInv, UndoneInv, Recovering, Job, RollbackSteps, WipeSteps
<1>4. FilesStay
  BY <1>1, <1>2, JobsSpareRuntimes DEF RInv, CheckEffect, Beside, FilesStay, WipeSteps
<1>6. ASSUME faults = 0, faults' = faults PROVE JournalInv'
  <2>1. work' # Idle => work'.then # "raise"
    BY <1>1, <1>2, <1>6 DEF RInv, JournalInv, CheckEffect, GoesTo, Ends, Resolves
  <2>2. work'.at = "restore" => dest' = Nothing
    BY <1>1, <1>2, <1>6 DEF RInv, JournalInv, CheckEffect, GoesTo, Ends, Resolves, WipeSteps
  <2>3. work'.at = "ended" /\ flow' # "remove" => work'.ok
    BY <1>1, <1>2, <1>6, Holders DEF RInv, EntryInv, JournalInv, SInv, HolderInv, LockFlows, DiskInv, Job, RollbackSteps, WipeSteps, CheckEffect, Beside, GoesTo, Ends, Resolves
  <2> QED
    BY <1>1, <1>2, <1>6, <2>1, <2>2, <2>3, Holders DEF RInv, EntryInv, JournalInv, Unfinished, SInv, HolderInv, LockFlows, Job, RollbackSteps, WipeSteps, CheckEffect, Beside
<1> QED
  BY <1>3, <1>4, <1>6 DEF ThreadPart

\* Wipe spares the runtime.
LEMMA WipeSpares ==
    ASSUME SessionAssumption, RInv, Beside, Wipe
    PROVE  ThreadPart
<1>1. WipeEffect
  BY WipeDoes DEF RInv
<1>2. /\ work \in FileJobs /\ work # Idle /\ work' # Idle
      /\ work.then \in {"end", "commit", "raise"}
  BY <1>1, JobTypes DEF WipeEffect, Beside, GoesTo, Ends, Resolves
<1>3. UndoneInv'
  BY <1>1, <1>2 DEF RInv, WipeEffect, Beside, GoesTo, Ends, Resolves, SInv, HolderInv, DiskInv, EntryInv, UndoneInv, Recovering, Job, RollbackSteps, WipeSteps
<1>4. FilesStay
  BY <1>1, <1>2, JobsSpareRuntimes DEF RInv, WipeEffect, Beside, FilesStay, WipeSteps
<1>6. ASSUME faults = 0, faults' = faults PROVE JournalInv'
  <2>1. work' # Idle => work'.then # "raise"
    BY <1>1, <1>2, <1>6 DEF RInv, JournalInv, WipeEffect, GoesTo, Ends, Resolves
  <2>2. work'.at = "restore" => dest' = Nothing
    BY <1>1, <1>2, <1>6 DEF RInv, JournalInv, WipeEffect, GoesTo, Ends, Resolves, WipeSteps
  <2>3. work'.at = "ended" /\ flow' # "remove" => work'.ok
    BY <1>1, <1>2, <1>6, Holders DEF RInv, EntryInv, JournalInv, SInv, HolderInv, LockFlows, DiskInv, Job, RollbackSteps, WipeSteps, WipeEffect, Beside, GoesTo, Ends, Resolves
  <2> QED
    BY <1>1, <1>2, <1>6, <2>1, <2>2, <2>3, Holders DEF RInv, EntryInv, JournalInv, Unfinished, SInv, HolderInv, LockFlows, Job, RollbackSteps, WipeSteps, WipeEffect, Beside
<1> QED
  BY <1>3, <1>4, <1>6 DEF ThreadPart

\* Raise spares the runtime.
LEMMA RaiseSpares ==
    ASSUME SessionAssumption, RInv, Beside, Raise, faults' # faults
    PROVE  ThreadPart
<1>1. RaiseEffect
  BY RaiseDoes DEF RInv
<1>2. /\ work \in FileJobs /\ work # Idle /\ work' # Idle
      /\ work.then \in {"end", "commit", "raise"}
  BY ZenonT(60), <1>1, JobTypes DEF RaiseEffect, Beside, GoesTo, Ends, Resolves
<1>3. UndoneInv'
  BY <1>1, <1>2 DEF RInv, RaiseEffect, Beside, GoesTo, Ends, Resolves, SInv, HolderInv, DiskInv, EntryInv, UndoneInv, Recovering, Job, RollbackSteps, WipeSteps
<1>4. FilesStay
  BY <1>1, <1>2, JobsSpareRuntimes DEF RInv, RaiseEffect, Beside, FilesStay, WipeSteps
<1> QED
  BY <1>3, <1>4 DEF ThreadPart

-----------------------------------------------------------------------------
\* What a step of the flow, of a setup or of Home Assistant does besides.
FlowPart == EntryInv' /\ UndoneInv' /\ JournalInv' /\ UNCHANGED dest

\* Granted spares the runtime.
LEMMA GrantedSpares ==
    ASSUME SessionAssumption, RInv, Granted
    PROVE  FlowPart
<1>1. SInv
  BY DEF RInv
<1>2. EntryInv'
  BY <1>1, Holders, RecordedJobs DEF RInv, SInv, OutcomeInv, FlowInv, EntryInv, Outcomes, LockFlows, Granted, disk, flowVars
<1>3. UndoneInv'
  BY <1>1, Holders, RecordedJobs DEF RInv, SInv, HolderInv, EntryInv, UndoneInv, Recovering, LockFlows, Granted, disk, flowVars
<1>4. JournalInv'
  BY <1>1, Holders, RecordedJobs DEF RInv, SInv, HolderInv, FlowInv, OutcomeInv, EntryInv, UndoneInv, JournalInv, Recovering, Unfinished, LockFlows, Outcomes, Granted, disk, flowVars
<1>5. UNCHANGED dest
  BY DEF Granted, disk, flowVars
<1> QED
  BY <1>2, <1>3, <1>4, <1>5 DEF FlowPart

\* OtherKey spares the runtime.
LEMMA OtherKeySpares ==
    ASSUME SessionAssumption, RInv, OtherKey
    PROVE  FlowPart
<1>1. SInv
  BY DEF RInv
<1>2. EntryInv'
  BY <1>1, Holders, RecordedJobs DEF RInv, SInv, OutcomeInv, FlowInv, EntryInv, Outcomes, LockFlows, OtherKey, disk, flowVars
<1>3. UndoneInv'
  BY <1>1, Holders, RecordedJobs DEF RInv, SInv, HolderInv, EntryInv, UndoneInv, Recovering, LockFlows, OtherKey, disk, flowVars
<1>4. JournalInv'
  BY <1>1, Holders, RecordedJobs DEF RInv, SInv, HolderInv, FlowInv, OutcomeInv, EntryInv, UndoneInv, JournalInv, Recovering, Unfinished, LockFlows, Outcomes, OtherKey, disk, flowVars
<1>5. UNCHANGED dest
  BY DEF OtherKey, disk, flowVars
<1> QED
  BY <1>2, <1>3, <1>4, <1>5 DEF FlowPart

\* Begin spares the runtime.
LEMMA BeginSpares ==
    ASSUME SessionAssumption, RInv, \E v \in Versions : Begin(v)
    PROVE  FlowPart
<1>1. SInv
  BY DEF RInv
<1>2. EntryInv'
  BY <1>1, Holders, RecordedJobs DEF RInv, SInv, OutcomeInv, FlowInv, EntryInv, Outcomes, LockFlows, Begin, files, disk
<1>3. UndoneInv'
  BY <1>1, Holders, RecordedJobs DEF RInv, SInv, HolderInv, EntryInv, UndoneInv, Recovering, LockFlows, Begin, files, disk
<1>4. JournalInv'
  BY <1>1, Holders, RecordedJobs DEF RInv, SInv, HolderInv, FlowInv, OutcomeInv, EntryInv, UndoneInv, JournalInv, Recovering, Unfinished, LockFlows, Outcomes, Begin, files, disk
<1>5. UNCHANGED dest
  BY DEF Begin, files, disk
<1> QED
  BY <1>2, <1>3, <1>4, <1>5 DEF FlowPart

\* Prepare spares the runtime.
LEMMA PrepareSpares ==
    ASSUME SessionAssumption, RInv, Prepare
    PROVE  FlowPart
<1>1. SInv
  BY DEF RInv
<1>2. EntryInv'
  BY <1>1, Holders, RecordedJobs DEF RInv, SInv, OutcomeInv, FlowInv, EntryInv, Outcomes, LockFlows, Prepare
<1>3. UndoneInv'
  BY <1>1, Holders, RecordedJobs DEF RInv, SInv, HolderInv, EntryInv, UndoneInv, Recovering, LockFlows, Prepare
<1>4. JournalInv'
  BY <1>1, Holders, RecordedJobs DEF RInv, SInv, HolderInv, FlowInv, OutcomeInv, EntryInv, UndoneInv, JournalInv, Recovering, Unfinished, LockFlows, Outcomes, Prepare
<1>5. UNCHANGED dest
  BY DEF Prepare
<1> QED
  BY <1>2, <1>3, <1>4, <1>5 DEF FlowPart

\* Reject spares the runtime.
LEMMA RejectSpares ==
    ASSUME SessionAssumption, RInv, Reject
    PROVE  FlowPart
<1>1. SInv
  BY DEF RInv
<1>2. EntryInv'
  BY <1>1, Holders, RecordedJobs DEF RInv, SInv, OutcomeInv, FlowInv, EntryInv, Outcomes, LockFlows, Reject, files, disk
<1>3. UndoneInv'
  BY <1>1, Holders, RecordedJobs DEF RInv, SInv, HolderInv, EntryInv, UndoneInv, Recovering, LockFlows, Reject, files, disk
<1>4. JournalInv'
  BY <1>1, Holders, RecordedJobs DEF RInv, SInv, HolderInv, FlowInv, OutcomeInv, EntryInv, UndoneInv, JournalInv, Recovering, Unfinished, LockFlows, Outcomes, Reject, files, disk
<1>5. UNCHANGED dest
  BY DEF Reject, files, disk
<1> QED
  BY <1>2, <1>3, <1>4, <1>5 DEF FlowPart

\* UnloadOld spares the runtime.
LEMMA UnloadOldSpares ==
    ASSUME SessionAssumption, RInv, UnloadOld
    PROVE  FlowPart
<1>1. SInv
  BY DEF RInv
<1>2. EntryInv'
  BY <1>1, Holders, RecordedJobs DEF RInv, SInv, OutcomeInv, FlowInv, EntryInv, Outcomes, LockFlows, UnloadOld, Unloads, Wait, files, disk
<1>3. UndoneInv'
  BY <1>1, Holders, RecordedJobs DEF RInv, SInv, HolderInv, EntryInv, UndoneInv, Recovering, LockFlows, UnloadOld, Unloads, Wait, files, disk
<1>4. JournalInv'
  BY <1>1, Holders, RecordedJobs DEF RInv, SInv, HolderInv, FlowInv, OutcomeInv, EntryInv, UndoneInv, JournalInv, Recovering, Unfinished, LockFlows, Outcomes, UnloadOld, Unloads, Wait, files, disk
<1>5. UNCHANGED dest
  BY DEF UnloadOld, Unloads, Wait, files, disk
<1> QED
  BY <1>2, <1>3, <1>4, <1>5 DEF FlowPart

\* Committed spares the runtime.
LEMMA CommittedSpares ==
    ASSUME SessionAssumption, RInv, Committed
    PROVE  FlowPart
<1>1. SInv
  BY DEF RInv
<1>2. EntryInv'
  BY <1>1, Holders, RecordedJobs DEF RInv, SInv, OutcomeInv, FlowInv, EntryInv, Outcomes, LockFlows, Committed, Over, Release, files, disk
<1>3. UndoneInv'
  BY <1>1, Holders, RecordedJobs DEF RInv, SInv, HolderInv, EntryInv, UndoneInv, Recovering, LockFlows, Committed, Over, Release, files, disk
<1>4. JournalInv'
  BY <1>1, Holders, RecordedJobs DEF RInv, SInv, HolderInv, FlowInv, OutcomeInv, EntryInv, UndoneInv, JournalInv, Recovering, Unfinished, LockFlows, Outcomes, Committed, Over, Release, files, disk
<1>5. UNCHANGED dest
  BY DEF Committed, Over, Release, files, disk
<1> QED
  BY <1>2, <1>3, <1>4, <1>5 DEF FlowPart

\* Undone spares the runtime.
LEMMA UndoneSpares ==
    ASSUME SessionAssumption, RInv, Undone
    PROVE  FlowPart
<1>1. SInv
  BY DEF RInv
<1>2. EntryInv'
  BY <1>1, Holders, RecordedJobs DEF RInv, SInv, OutcomeInv, FlowInv, EntryInv, Outcomes, LockFlows, Undone, Over, Release, files, disk
<1>3. UndoneInv'
  BY <1>1, Holders, RecordedJobs DEF RInv, SInv, HolderInv, EntryInv, UndoneInv, Recovering, LockFlows, Undone, Over, Release, files, disk
<1>4. JournalInv'
  BY <1>1, Holders, RecordedJobs DEF RInv, SInv, HolderInv, FlowInv, OutcomeInv, EntryInv, UndoneInv, JournalInv, Recovering, Unfinished, LockFlows, Outcomes, Undone, Over, Release, files, disk
<1>5. UNCHANGED dest
  BY DEF Undone, Over, Release, files, disk
<1> QED
  BY <1>2, <1>3, <1>4, <1>5 DEF FlowPart

\* Update spares the runtime.
LEMMA UpdateSpares ==
    ASSUME SessionAssumption, RInv, Update
    PROVE  FlowPart
<1>1. SInv
  BY DEF RInv
<1>2. EntryInv'
  BY <1>1, Holders, RecordedJobs DEF RInv, SInv, OutcomeInv, FlowInv, EntryInv, Outcomes, LockFlows, Update, Wait, files, disk
<1>3. UndoneInv'
  BY <1>1, Holders, RecordedJobs DEF RInv, SInv, HolderInv, EntryInv, UndoneInv, Recovering, LockFlows, Update, Wait, files, disk
<1>4. JournalInv'
  BY <1>1, Holders, RecordedJobs DEF RInv, SInv, HolderInv, FlowInv, OutcomeInv, EntryInv, UndoneInv, JournalInv, Recovering, Unfinished, LockFlows, Outcomes, Update, Wait, files, disk
<1>5. UNCHANGED dest
  BY DEF Update, Wait, files, disk
<1> QED
  BY <1>2, <1>3, <1>4, <1>5 DEF FlowPart

\* Reload spares the runtime.
LEMMA ReloadSpares ==
    ASSUME SessionAssumption, RInv, Reload
    PROVE  FlowPart
<1>1. SInv
  BY DEF RInv
<1>2. EntryInv'
  BY <1>1, Holders, RecordedJobs DEF RInv, SInv, OutcomeInv, FlowInv, EntryInv, Outcomes, LockFlows, Reload, Unloads, After, files, disk
<1>3. UndoneInv'
  BY <1>1, Holders, RecordedJobs DEF RInv, SInv, HolderInv, EntryInv, UndoneInv, Recovering, LockFlows, Reload, Unloads, After, files, disk
<1>4. JournalInv'
  BY <1>1, Holders, RecordedJobs DEF RInv, SInv, HolderInv, FlowInv, OutcomeInv, EntryInv, UndoneInv, JournalInv, Recovering, Unfinished, LockFlows, Outcomes, Reload, Unloads, After, files, disk
<1>5. UNCHANGED dest
  BY DEF Reload, Unloads, After, files, disk
<1> QED
  BY <1>2, <1>3, <1>4, <1>5 DEF FlowPart

\* Reloaded spares the runtime.
LEMMA ReloadedSpares ==
    ASSUME SessionAssumption, RInv, Reloaded
    PROVE  FlowPart
<1>1. SInv
  BY DEF RInv
<1>2. EntryInv'
  BY <1>1, Holders, RecordedJobs DEF RInv, SInv, OutcomeInv, FlowInv, EntryInv, Outcomes, LockFlows, Reloaded, After, Wait, files, disk
<1>3. UndoneInv'
  BY <1>1, Holders, RecordedJobs DEF RInv, SInv, HolderInv, EntryInv, UndoneInv, Recovering, LockFlows, Reloaded, After, Wait, files, disk
<1>4. JournalInv'
  BY <1>1, Holders, RecordedJobs DEF RInv, SInv, HolderInv, FlowInv, OutcomeInv, EntryInv, UndoneInv, JournalInv, Recovering, Unfinished, LockFlows, Outcomes, Reloaded, After, Wait, files, disk
<1>5. UNCHANGED dest
  BY DEF Reloaded, After, Wait, files, disk
<1> QED
  BY <1>2, <1>3, <1>4, <1>5 DEF FlowPart

\* Finalized spares the runtime.
LEMMA FinalizedSpares ==
    ASSUME SessionAssumption, RInv, Finalized
    PROVE  FlowPart
<1>1. SInv
  BY DEF RInv
<1>2. EntryInv'
  BY <1>1, Holders, RecordedJobs DEF RInv, SInv, OutcomeInv, FlowInv, EntryInv, Outcomes, LockFlows, Finalized, Over, Release, files, disk
<1>3. UndoneInv'
  BY <1>1, Holders, RecordedJobs DEF RInv, SInv, HolderInv, EntryInv, UndoneInv, Recovering, LockFlows, Finalized, Over, Release, files, disk
<1>4. JournalInv'
  BY <1>1, Holders, RecordedJobs DEF RInv, SInv, HolderInv, FlowInv, OutcomeInv, EntryInv, UndoneInv, JournalInv, Recovering, Unfinished, LockFlows, Outcomes, Finalized, Over, Release, files, disk
<1>5. UNCHANGED dest
  BY DEF Finalized, Over, Release, files, disk
<1> QED
  BY <1>2, <1>3, <1>4, <1>5 DEF FlowPart

\* Cleanup spares the runtime.
LEMMA CleanupSpares ==
    ASSUME SessionAssumption, RInv, Cleanup
    PROVE  FlowPart
<1>1. SInv
  BY DEF RInv
<1>2. EntryInv'
  BY <1>1, Holders, RecordedJobs DEF RInv, SInv, OutcomeInv, FlowInv, EntryInv, Outcomes, LockFlows, Cleanup, MustUndo, Unloads, Wait, files, disk
<1>3. UndoneInv'
  BY <1>1, Holders, RecordedJobs DEF RInv, SInv, HolderInv, EntryInv, UndoneInv, Recovering, LockFlows, Cleanup, MustUndo, Unloads, Wait, files, disk
<1>4. JournalInv'
  BY <1>1, Holders, RecordedJobs DEF RInv, SInv, HolderInv, FlowInv, OutcomeInv, EntryInv, UndoneInv, JournalInv, Recovering, Unfinished, LockFlows, Outcomes, Cleanup, MustUndo, Unloads, Wait, files, disk
<1>5. UNCHANGED dest
  BY DEF Cleanup, MustUndo, Unloads, Wait, files, disk
<1> QED
  BY <1>2, <1>3, <1>4, <1>5 DEF FlowPart

\* RolledBack spares the runtime.
LEMMA RolledBackSpares ==
    ASSUME SessionAssumption, RInv, RolledBack
    PROVE  FlowPart
<1>1. SInv
  BY DEF RInv
<1>2. EntryInv'
  BY <1>1, Holders, RecordedJobs DEF RInv, SInv, OutcomeInv, FlowInv, EntryInv, Outcomes, LockFlows, RolledBack, Over, Release, files, disk
<1>3. UndoneInv'
  BY <1>1, Holders, RecordedJobs DEF RInv, SInv, HolderInv, EntryInv, UndoneInv, Recovering, LockFlows, RolledBack, Over, Release, files, disk
<1>4. JournalInv'
  BY <1>1, Holders, RecordedJobs DEF RInv, SInv, HolderInv, FlowInv, OutcomeInv, EntryInv, UndoneInv, JournalInv, Recovering, Unfinished, LockFlows, Outcomes, RolledBack, Over, Release, files, disk
<1>5. UNCHANGED dest
  BY DEF RolledBack, Over, Release, files, disk
<1> QED
  BY <1>2, <1>3, <1>4, <1>5 DEF FlowPart

\* Discard spares the runtime.
LEMMA DiscardSpares ==
    ASSUME SessionAssumption, RInv, Discard
    PROVE  FlowPart
<1>1. SInv
  BY DEF RInv
<1>2. EntryInv'
  BY <1>1, Holders, RecordedJobs DEF RInv, SInv, OutcomeInv, FlowInv, EntryInv, Outcomes, LockFlows, Discard
<1>3. UndoneInv'
  BY <1>1, Holders, RecordedJobs DEF RInv, SInv, HolderInv, EntryInv, UndoneInv, Recovering, LockFlows, Discard
<1>4. JournalInv'
  BY <1>1, Holders, RecordedJobs DEF RInv, SInv, HolderInv, FlowInv, OutcomeInv, EntryInv, UndoneInv, JournalInv, Recovering, Unfinished, LockFlows, Outcomes, Discard
<1>5. UNCHANGED dest
  BY DEF Discard
<1> QED
  BY <1>2, <1>3, <1>4, <1>5 DEF FlowPart

\* FlowLeaves spares the runtime.
LEMMA FlowLeavesSpares ==
    ASSUME SessionAssumption, RInv, FlowLeaves
    PROVE  FlowPart
<1>1. SInv
  BY DEF RInv
<1>2. EntryInv'
  BY <1>1, Holders, RecordedJobs DEF RInv, SInv, OutcomeInv, FlowInv, EntryInv, Outcomes, LockFlows, FlowLeaves, files, disk
<1>3. UndoneInv'
  BY <1>1, Holders, RecordedJobs DEF RInv, SInv, HolderInv, EntryInv, UndoneInv, Recovering, LockFlows, FlowLeaves, files, disk
<1>4. JournalInv'
  BY <1>1, Holders, RecordedJobs DEF RInv, SInv, HolderInv, FlowInv, OutcomeInv, EntryInv, UndoneInv, JournalInv, Recovering, Unfinished, LockFlows, Outcomes, FlowLeaves, files, disk
<1>5. UNCHANGED dest
  BY DEF FlowLeaves, files, disk
<1> QED
  BY <1>2, <1>3, <1>4, <1>5 DEF FlowPart

\* Cancel spares the runtime.
LEMMA CancelSpares ==
    ASSUME SessionAssumption, RInv, Cancel
    PROVE  FlowPart
<1>1. SInv
  BY DEF RInv
<1>2. EntryInv'
  BY <1>1, Holders, RecordedJobs DEF RInv, SInv, OutcomeInv, FlowInv, EntryInv, Outcomes, LockFlows, Cancel, Without, files, disk
<1>3. UndoneInv'
  BY <1>1, Holders, RecordedJobs DEF RInv, SInv, HolderInv, EntryInv, UndoneInv, Recovering, LockFlows, Cancel, Without, files, disk
<1>4. JournalInv'
  BY <1>1, Holders, RecordedJobs DEF RInv, SInv, HolderInv, FlowInv, OutcomeInv, EntryInv, UndoneInv, JournalInv, Recovering, Unfinished, LockFlows, Outcomes, Cancel, Without, files, disk
<1>5. UNCHANGED dest
  BY DEF Cancel, Without, files, disk
<1> QED
  BY <1>2, <1>3, <1>4, <1>5 DEF FlowPart

\* SetupStart spares the runtime.
LEMMA SetupStartSpares ==
    ASSUME SessionAssumption, RInv, SetupStart
    PROVE  FlowPart
<1>1. SInv
  BY DEF RInv
<1>2. EntryInv'
  BY <1>1, Holders, RecordedJobs DEF RInv, SInv, OutcomeInv, FlowInv, EntryInv, Outcomes, LockFlows, SetupStart, SkipsRecovery, ByOthers, InTransaction, Wait, flowVars, files, disk
<1>3. UndoneInv'
  BY <1>1, Holders, RecordedJobs DEF RInv, SInv, HolderInv, EntryInv, UndoneInv, Recovering, LockFlows, SetupStart, SkipsRecovery, ByOthers, InTransaction, Wait, flowVars, files, disk
<1>4. JournalInv'
  BY <1>1, Holders, RecordedJobs DEF RInv, SInv, HolderInv, FlowInv, OutcomeInv, EntryInv, UndoneInv, JournalInv, Recovering, Unfinished, LockFlows, Outcomes, SetupStart, SkipsRecovery, ByOthers, InTransaction, Wait, flowVars, files, disk
<1>5. UNCHANGED dest
  BY DEF SetupStart, SkipsRecovery, ByOthers, InTransaction, Wait, flowVars, files, disk
<1> QED
  BY <1>2, <1>3, <1>4, <1>5 DEF FlowPart

\* SetupRecovered spares the runtime.
LEMMA SetupRecoveredSpares ==
    ASSUME SessionAssumption, RInv, SetupRecovered
    PROVE  FlowPart
<1>1. SInv
  BY DEF RInv
<1>2. EntryInv'
  BY <1>1, Holders, RecordedJobs DEF RInv, SInv, OutcomeInv, FlowInv, EntryInv, Outcomes, LockFlows, SetupRecovered, Over, Release, flowVars, files, disk
<1>3. UndoneInv'
  BY <1>1, Holders, RecordedJobs DEF RInv, SInv, HolderInv, EntryInv, UndoneInv, Recovering, LockFlows, SetupRecovered, Over, Release, flowVars, files, disk
<1>4. JournalInv'
  BY <1>1, Holders, RecordedJobs DEF RInv, SInv, HolderInv, FlowInv, OutcomeInv, EntryInv, UndoneInv, JournalInv, Recovering, Unfinished, LockFlows, Outcomes, SetupRecovered, Over, Release, flowVars, files, disk
<1>5. UNCHANGED dest
  BY DEF SetupRecovered, Over, Release, flowVars, files, disk
<1> QED
  BY <1>2, <1>3, <1>4, <1>5 DEF FlowPart

\* SetupOpens spares the runtime.
LEMMA SetupOpensSpares ==
    ASSUME SessionAssumption, RInv, SetupOpens
    PROVE  FlowPart
<1>1. SInv
  BY DEF RInv
<1>2. EntryInv'
  BY <1>1, Holders, RecordedJobs DEF RInv, SInv, OutcomeInv, FlowInv, EntryInv, Outcomes, LockFlows, SetupOpens, flowVars, files, disk
<1>3. UndoneInv'
  BY <1>1, Holders, RecordedJobs DEF RInv, SInv, HolderInv, EntryInv, UndoneInv, Recovering, LockFlows, SetupOpens, flowVars, files, disk
<1>4. JournalInv'
  BY <1>1, Holders, RecordedJobs DEF RInv, SInv, HolderInv, FlowInv, OutcomeInv, EntryInv, UndoneInv, JournalInv, Recovering, Unfinished, LockFlows, Outcomes, SetupOpens, flowVars, files, disk
<1>5. UNCHANGED dest
  BY DEF SetupOpens, flowVars, files, disk
<1> QED
  BY <1>2, <1>3, <1>4, <1>5 DEF FlowPart

\* Unload spares the runtime.
LEMMA UnloadSpares ==
    ASSUME SessionAssumption, RInv, Unload
    PROVE  FlowPart
<1>1. SInv
  BY DEF RInv
<1>2. EntryInv'
  BY <1>1, Holders, RecordedJobs DEF RInv, SInv, OutcomeInv, FlowInv, EntryInv, Outcomes, LockFlows, Unload, ByOthers, InTransaction, Unloads, flowVars, files, disk
<1>3. UndoneInv'
  BY <1>1, Holders, RecordedJobs DEF RInv, SInv, HolderInv, EntryInv, UndoneInv, Recovering, LockFlows, Unload, ByOthers, InTransaction, Unloads, flowVars, files, disk
<1>4. JournalInv'
  BY <1>1, Holders, RecordedJobs DEF RInv, SInv, HolderInv, FlowInv, OutcomeInv, EntryInv, UndoneInv, JournalInv, Recovering, Unfinished, LockFlows, Outcomes, Unload, ByOthers, InTransaction, Unloads, flowVars, files, disk
<1>5. UNCHANGED dest
  BY DEF Unload, ByOthers, InTransaction, Unloads, flowVars, files, disk
<1> QED
  BY <1>2, <1>3, <1>4, <1>5 DEF FlowPart

\* RemoveEntry spares the runtime.
LEMMA RemoveEntrySpares ==
    ASSUME SessionAssumption, RInv, RemoveEntry
    PROVE  FlowPart
<1>1. SInv
  BY DEF RInv
<1>2. EntryInv'
  BY <1>1, Holders, RecordedJobs DEF RInv, SInv, OutcomeInv, FlowInv, EntryInv, Outcomes, LockFlows, RemoveEntry, Wait, files, disk
<1>3. UndoneInv'
  BY <1>1, Holders, RecordedJobs DEF RInv, SInv, HolderInv, EntryInv, UndoneInv, Recovering, LockFlows, RemoveEntry, Wait, files, disk
<1>4. JournalInv'
  BY <1>1, Holders, RecordedJobs DEF RInv, SInv, HolderInv, FlowInv, OutcomeInv, EntryInv, UndoneInv, JournalInv, Recovering, Unfinished, LockFlows, Outcomes, RemoveEntry, Wait, files, disk
<1>5. UNCHANGED dest
  BY DEF RemoveEntry, Wait, files, disk
<1> QED
  BY <1>2, <1>3, <1>4, <1>5 DEF FlowPart

\* Removed spares the runtime.
LEMMA RemovedSpares ==
    ASSUME SessionAssumption, RInv, Removed
    PROVE  FlowPart
<1>1. SInv
  BY DEF RInv
<1>2. EntryInv'
  BY <1>1, Holders, RecordedJobs DEF RInv, SInv, OutcomeInv, FlowInv, EntryInv, Outcomes, LockFlows, Removed, Over, Release, files, disk
<1>3. UndoneInv'
  BY <1>1, Holders, RecordedJobs DEF RInv, SInv, HolderInv, EntryInv, UndoneInv, Recovering, LockFlows, Removed, Over, Release, files, disk
<1>4. JournalInv'
  BY <1>1, Holders, RecordedJobs DEF RInv, SInv, HolderInv, FlowInv, OutcomeInv, EntryInv, UndoneInv, JournalInv, Recovering, Unfinished, LockFlows, Outcomes, Removed, Over, Release, files, disk
<1>5. UNCHANGED dest
  BY DEF Removed, Over, Release, files, disk
<1> QED
  BY <1>2, <1>3, <1>4, <1>5 DEF FlowPart

\* Crash spares the runtime.
LEMMA CrashSpares ==
    ASSUME SessionAssumption, RInv, Crash
    PROVE  FlowPart
<1>1. SInv
  BY DEF RInv
<1>2. EntryInv'
  BY <1>1, Holders, RecordedJobs DEF RInv, SInv, OutcomeInv, FlowInv, EntryInv, Outcomes, LockFlows, Crash, disk
<1>3. UndoneInv'
  BY <1>1, Holders, RecordedJobs DEF RInv, SInv, HolderInv, EntryInv, UndoneInv, Recovering, LockFlows, Crash, disk
<1>4. JournalInv'
  BY <1>1, Holders, RecordedJobs DEF RInv, SInv, HolderInv, FlowInv, OutcomeInv, EntryInv, UndoneInv, JournalInv, Recovering, Unfinished, LockFlows, Outcomes, Crash, disk
<1>5. UNCHANGED dest
  BY DEF Crash, disk
<1> QED
  BY <1>2, <1>3, <1>4, <1>5 DEF FlowPart

-----------------------------------------------------------------------------
\* A step of the worker thread, whether its system call fails or not, spares the runtime.
LEMMA ThreadSpares ==
    ASSUME SessionAssumption, RInv, Thread
    PROVE  EntryInv' /\ UndoneInv' /\ JournalInv' /\ FilesStay
<1>1. work \in FileJobs /\ faults \in Nat
  BY DEF Thread, RInv, SInv, SessionTypeOK, SessionAssumption
<1>2. faults' \in 0..MaxFaults
  BY DEF Thread, Fault, RInv, SInv, SessionTypeOK, SessionAssumption
<1>3. Beside
  BY <1>1, <1>2 DEF Thread, Beside, flowVars
<1>4. ThreadPart
  <2>1. CASE SystemCall /\ UNCHANGED faults
    <3>1. Clear(Nothing) => \E rest \in {Nothing, Torn} : Clear(rest)
      OBVIOUS
    <3>2. Sweep(Nothing) => \E rest \in {Nothing, Torn} : Sweep(rest)
      OBVIOUS
    <3> QED
      BY <1>3, <2>1, <3>1, <3>2, LookSpares, PurgeSpares, UntempSpares, ClearSpares, RestoreSpares, DropSpares,
         UnlinkSpares, WriteTempSpares, WriteJournalSpares, KeepSpares, PublishSpares, AcceptSpares, SweepSpares, CheckSpares, WipeSpares DEF SystemCall
  <2>2. CASE Fault
    <3>1. Clear(Torn) => \E rest \in {Nothing, Torn} : Clear(rest)
      OBVIOUS
    <3>2. Sweep(Torn) => \E rest \in {Nothing, Torn} : Sweep(rest)
      OBVIOUS
    <3>3. faults' # faults
      BY <1>1, <2>2 DEF Fault
    <3> QED
      BY <1>3, <2>2, <3>1, <3>2, <3>3, ClearSpares, SweepSpares, RaiseSpares DEF Fault
  <2> QED
    BY <2>1, <2>2 DEF Thread
<1>5. EntryInv'
  BY <1>3 DEF Beside, RInv, EntryInv
<1>6. JournalInv'
  <2>1. CASE faults = 0 /\ faults' = faults
    BY <1>4, <2>1 DEF ThreadPart
  <2>2. CASE ~(faults = 0 /\ faults' = faults)
    <3>1. faults' # 0
      BY <1>1, <2>2 DEF Thread, Fault
    <3> QED
      BY <1>3, <3>1 DEF Beside, RInv, JournalInv, Unfinished
  <2> QED
    BY <2>1, <2>2
<1> QED
  BY <1>4, <1>5, <1>6 DEF ThreadPart

\* The session of an entry outlives a step, and a runtime keeps using it.
LEMMA ServingStays ==
    ASSUME SessionAssumption, RInv, SInv', AbstractStep, FilesStay, [SessionNext]_sessionVars
    PROVE  ServingInv'
<1>1. /\ trial \in Versions \cup {Nothing}
      /\ entry = "removed" => entry' = "removed"
      /\ entry = "none" /\ entry' \notin {"none", "removed"} => Session' # Nothing
  <2>1. entry' = entry \/ SessionNext
    BY DEF sessionVars
  <2>2. CASE FlowLeaves
    <3>1. /\ flow = "leave" /\ UNCHANGED <<dest, backup, journal>>
          /\ entry' = entry \/ (entry = "none" /\ "finished" \in facts /\ entry' = "not_loaded")
      BY <2>2 DEF FlowLeaves, files, disk
    <3>2. "finished" \in facts => dest \in Versions /\ journal = Nothing
      BY <3>1 DEF RInv, SInv, SessionTypeOK, FlowInv, OutcomeInv
    <3> QED
      BY <3>1, <3>2 DEF RInv, SInv, SessionTypeOK, Session, Recovered, SessionAssumption
  <2>3. CASE SessionNext /\ ~FlowLeaves
    <3>1. entry' = entry \/ (entry \notin {"none", "removed"})
      BY <2>3 DEF SessionNext, FlowStep, Thread, Granted, OtherKey, Begin, Prepare, Reject, UnloadOld, Committed,
         Undone, Update, Reload, Reloaded, Finalized, Cleanup, RolledBack, Discard, Cancel, SetupStart,
         SetupRecovered, SetupOpens, Unload, Unloads, RemoveEntry, Removed, Crash
    <3> QED
      BY <3>1 DEF RInv, SInv, SessionTypeOK
  <2> QED
    BY <2>1, <2>2, <2>3 DEF RInv, SInv, SessionTypeOK
<1>2. entry' \notin {"none", "removed"} => Session' # Nothing
  BY <1>1 DEF AbstractStep, RInv, ServingInv
<1>3. entry' = "loaded" => serving' = dest' /\ dest' # Nothing
  <2>1. entry' = "loaded" => (entry = "loaded" /\ UNCHANGED serving) \/ (dest # Nothing /\ serving' = dest /\ UNCHANGED dest)
    BY DEF sessionVars, disk, files, flowVars, SessionNext, FlowStep, Thread, Granted, OtherKey, Begin, Prepare, Reject,
       UnloadOld, Committed, Undone, Update, Reload, Reloaded, Finalized, Cleanup, RolledBack, Discard,
       FlowLeaves, Cancel, SetupStart, SetupRecovered, SetupOpens, Unload, Unloads, RemoveEntry, Removed, Crash
  <2> QED
    BY <2>1 DEF FilesStay, RInv, ServingInv
<1> QED
  BY <1>2, <1>3 DEF ServingInv

\* At first there is a runtime that uses its session, or no entry.
LEMMA RInvInit == ASSUME SessionAssumption, ~OtherSetups, SessionInit PROVE RInv
<1>1. SInv
  BY SInvInit
<1>2. work = Idle /\ work.at = "idle"
  BY JobTypes DEF SessionInit
<1>3. EntryInv
  BY DEF SessionInit, EntryInv
<1>4. ServingInv
  BY DEF SessionInit, ServingInv, Session, Recovered, SessionAssumption
<1>5. UndoneInv /\ JournalInv
  BY <1>2 DEF SessionInit, UndoneInv, JournalInv, Unfinished
<1> QED
  BY <1>1, <1>3, <1>4, <1>5 DEF RInv

\* The invariant is inductive, and no step replaces a file under a runtime.
LEMMA RInvStep ==
    ASSUME SessionAssumption, RInv, [SessionNext]_sessionVars
    PROVE  RInv' /\ FilesStay
<1>1. SInv' /\ AbstractStep
  BY SInvStep DEF RInv
<1>2. EntryInv' /\ UndoneInv' /\ JournalInv' /\ FilesStay
  <2>1. CASE UNCHANGED sessionVars
    BY <2>1 DEF sessionVars, disk, flowVars, RInv, EntryInv, UndoneInv, Recovering, JournalInv, Unfinished, FilesStay
  <2>2. CASE FlowStep
    <3>1. FlowPart
      BY <2>2, PrepareSpares, RejectSpares, UnloadOldSpares, CommittedSpares, UndoneSpares, UpdateSpares, ReloadSpares,
         ReloadedSpares, FinalizedSpares, CleanupSpares, RolledBackSpares, DiscardSpares, FlowLeavesSpares DEF FlowStep
    <3> QED
      BY <3>1 DEF FlowPart, FilesStay
  <2>3. CASE SessionNext /\ ~FlowStep /\ ~Thread
    <3>1. FlowPart
      BY <2>3, GrantedSpares, OtherKeySpares, BeginSpares, CancelSpares, SetupStartSpares,
         SetupRecoveredSpares, SetupOpensSpares, UnloadSpares, RemoveEntrySpares, RemovedSpares, CrashSpares DEF SessionNext
    <3> QED
      BY <3>1 DEF FlowPart, FilesStay
  <2> QED
    BY <2>1, <2>2, <2>3, ThreadSpares
<1>3. ServingInv'
  BY <1>1, <1>2, ServingStays
<1> QED
  BY <1>1, <1>2, <1>3 DEF RInv

\* RInv holds at every state if the entry is set up only between transactions.
LEMMA RInvAlways == ASSUME ~OtherSetups PROVE SessionSafe => []RInv
<1>1. SessionInit => RInv
  BY RInvInit, SessionAssumption
<1>2. RInv /\ [SessionNext]_sessionVars => RInv'
  BY RInvStep, SessionAssumption
<1> QED
  BY <1>1, <1>2, PTL DEF SessionSafe

\* "Never replace files under a live runtime" (config_flow.py:257): no step of a
\* transaction, a recovery or a removal changes the directory of a runtime that
\* is loaded or could not be unloaded, whatever call fails.
THEOREM RuntimesKeepTheirFiles == ASSUME ~OtherSetups PROVE SessionSafe => RuntimeKeepsItsFiles
<1>1. RInv /\ [SessionNext]_sessionVars =>
        [(entry \in {"loaded", "failed_unload"} /\ entry' = entry) => dest' = dest]_sessionVars
  BY RInvStep, SessionAssumption DEF FilesStay
<1> QED
  BY <1>1, RInvAlways, PTL DEF SessionSafe, RuntimeKeepsItsFiles

\* Between transactions a runtime uses the session of the key: the finally clause
\* of _credentials, the recovery of the setup and the reload leave no other one
\* in place unless a failed rollback left its journal.
THEOREM RuntimesServeTheSession == ASSUME ~OtherSetups PROVE SessionSafe => []ServesTheSession
<1>1. ASSUME RInv PROVE ServesTheSession
  <2> SUFFICES ASSUME entry = "loaded", flow = "none", journal = Nothing \/ faults = 0
               PROVE  serving = Session
    BY DEF ServesTheSession, InTransaction
  <2>1. journal = Nothing
    BY <1>1 DEF RInv, JournalInv
  <2>2. serving = dest /\ dest # Nothing /\ Session # Nothing
    BY <1>1 DEF RInv, ServingInv
  <2> QED
    BY <2>1, <2>2 DEF Session, Recovered
<1> QED
  BY <1>1, RInvAlways, PTL
=============================================================================
