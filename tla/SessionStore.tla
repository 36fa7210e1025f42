---------------------------- MODULE SessionStore ----------------------------
(***************************************************************************)
(* The private session directory of one entry: the file transactions of    *)
(* session.py, the login flow that drives them (config_flow.py,            *)
(* _credentials), and the setup of the entry that recovers an interrupted  *)
(* one (__init__.py, async_setup_entry).                                   *)
(*                                                                         *)
(* The files change one system call at a time, in a worker thread that     *)
(* holds the lock of the manager; the program may be killed between any    *)
(* two calls and a call may fail.  The flow and the setup are coroutines.  *)
(***************************************************************************)
EXTENDS Integers, Sequences

CONSTANTS
    Versions,    \* login sessions; the candidate of each flow is another one
    Nothing,
    Torn,        \* a directory that rmtree removed only in part
    OtherSetups, \* BOOLEAN: may Home Assistant set up the entry during a flow?
    MaxCrashes,  \* bounds of the runs
    MaxFaults

ASSUME SessionAssumption ==
    /\ Nothing \notin Versions \cup [had : BOOLEAN, cand : Versions] /\ Torn \notin Versions \cup {Nothing}
    /\ OtherSetups \in BOOLEAN
    /\ {MaxCrashes, MaxFaults} \subseteq Nat

VARIABLES
    dest, backup, \* the directories <key> and .backup-<key>: a version, Torn, Nothing
    cands,        \* versions with a directory .candidate-*
    journal,      \* Nothing, or the record in .transaction-<key>.json
    temp,         \* .journal-<key>.tmp exists
    work,          \* what the worker thread does for the holder of the lock
    lockq,        \* holder and waiters of the manager's lock, for this key
    other,        \* an operation on another key holds the lock
    flow,         \* where the flow is; "none": no transaction is live
    trial,        \* the candidate of the flow
    facts,        \* the local variables of the flow that are true
    minted,       \* versions used so far
    entry,        \* state of the config entry
    serving,      \* the session files the loaded runtime was built on
    crashes, faults

disk     == <<dest, backup, cands, journal, temp>>
flowVars == <<flow, trial, facts, minted>>
sessionVars == <<disk, work, lockq, other, flowVars, entry, serving, crashes, faults>>

Journals == [had : BOOLEAN, cand : Versions]
FileSteps == {"look", "clear", "restore", "drop", "unlink", "purge", "untemp",
          "temp", "journal", "keep", "publish", "accept", "sweep",
          "check", "wipe", "wipe backup", "wipe candidate", "wipe journal", "ended"}
Idle == [at |-> "idle"]
\* then: what follows when the files are as they were before a transaction.
FileJobs == [at : FileSteps, then : {"end", "commit", "raise"}, ok : BOOLEAN]
Flows == {"none", "open", "prepared", "commit", "undo", "update", "reload",
          "reloading", "finalize", "cleanup", "rollback", "discard", "restart",
          "restarting", "leave", "remove"}
Facts == {"committed", "unloaded", "updated", "finished", "pending", "cancelled"}

SessionTypeOK ==
    /\ {dest, backup} \subseteq Versions \cup {Nothing, Torn}
    /\ cands \subseteq Versions
    /\ journal \in Journals \cup {Nothing}
    /\ temp \in BOOLEAN
    /\ work \in FileJobs \cup {Idle}
    /\ lockq \in Seq({"flow", "setup"})
    /\ other \in BOOLEAN
    /\ flow \in Flows
    /\ trial \in Versions \cup {Nothing}
    /\ facts \subseteq Facts
    /\ minted \subseteq Versions
    /\ entry \in {"none", "loaded", "not_loaded", "recovering", "opening",
                  "failed_unload", "removed"}
    /\ serving \in Versions \cup {Nothing, Torn}
    /\ crashes \in 0..MaxCrashes /\ faults \in 0..MaxFaults

\* An entry that serves a session, or a flow about to create one.
SessionInit ==
    /\ \E v \in Versions :
         \/ entry = "loaded" /\ dest = v /\ serving = v /\ minted = {v}
         \/ entry = "none" /\ dest = Nothing /\ serving = Nothing /\ minted = {}
    /\ backup = Nothing /\ cands = {} /\ journal = Nothing /\ temp = FALSE
    /\ work = Idle /\ lockq = <<>> /\ other = FALSE
    /\ flow = "none" /\ trial = Nothing /\ facts = {}
    /\ crashes = 0 /\ faults = 0

-----------------------------------------------------------------------------
(***************************************************************************)
(* The worker thread.  Start(at, then) is a job from its first step.       *)
(***************************************************************************)
Start(at, then) == [at |-> at, then |-> then, ok |-> TRUE]
Ended(ok)       == [at |-> "ended", then |-> "end", ok |-> ok]
Goto(at)        == work' = [work EXCEPT !.at = at]

\* The rollback, or the recovery, is complete.
Resolved == work' = CASE work.then = "end"    -> Ended(TRUE)
                     [] work.then = "commit" -> Start("temp", "end")
                     [] work.then = "raise"  -> Ended(FALSE)

\* _recover: a journal means rollback; otherwise a backup that has no
\* successor is put back and another backup is removed.
LookNoJournal ==
    /\ work.at = "look"
    /\ Goto(IF backup # Nothing /\ dest = Nothing THEN "restore"
            ELSE IF backup # Nothing THEN "purge" ELSE "untemp")
    /\ UNCHANGED disk
Look ==
    /\ work.at = "look"
    /\ Goto(IF journal # Nothing THEN "clear"
            ELSE IF backup # Nothing /\ dest = Nothing THEN "restore"
            ELSE IF backup # Nothing THEN "purge" ELSE "untemp")
    /\ UNCHANGED disk

\* rmtree that raises on errors; an error leaves a torn directory.
Purge ==
    /\ work.at = "purge"
    /\ backup' = Nothing
    /\ Goto("untemp")
    /\ UNCHANGED <<dest, cands, journal, temp>>

UntempNot == work.at = "untemp" /\ Resolved /\ UNCHANGED disk
Untemp ==
    /\ work.at = "untemp"
    /\ temp' = FALSE
    /\ Resolved
    /\ UNCHANGED <<dest, backup, cands, journal>>

\* _rollback, the first removal: errors are ignored.
Replaced == backup # Nothing \/ ~journal.had
Clear(rest) ==
    /\ work.at = "clear"
    /\ rest = Torn => journal # Nothing /\ Replaced /\ dest # Nothing
    /\ IF journal = Nothing
       THEN Resolved /\ UNCHANGED dest        \* nothing to roll back
       ELSE /\ dest' = IF Replaced /\ dest # Nothing THEN rest ELSE dest
            /\ Goto(IF backup # Nothing THEN "restore" ELSE "drop")
    /\ UNCHANGED <<backup, cands, journal, temp>>

\* A directory cannot replace one that is not empty.
RestoreRetries ==
    /\ work.at = "restore"
    /\ IF dest = Nothing
       THEN /\ dest' = backup /\ backup' = Nothing
            /\ Goto(IF journal = Nothing THEN "untemp" ELSE "drop")
       ELSE UNCHANGED <<work, dest, backup>>
    /\ UNCHANGED <<cands, journal, temp>>
Restore ==
    /\ work.at = "restore"
    /\ IF dest = Nothing
       THEN /\ dest' = backup /\ backup' = Nothing
            /\ Goto(IF journal = Nothing THEN "untemp" ELSE "drop")
       ELSE work' = Ended(FALSE) /\ UNCHANGED <<dest, backup>>
    /\ UNCHANGED <<cands, journal, temp>>

Drop ==
    /\ work.at = "drop"
    /\ cands' = cands \ {journal.cand}
    /\ Goto("unlink")
    /\ UNCHANGED <<dest, backup, journal, temp>>

Unlink ==
    /\ work.at = "unlink"
    /\ journal' = Nothing
    /\ Resolved
    /\ UNCHANGED <<dest, backup, cands, temp>>

\* _commit: BUSY if a backup is left, FileExistsError if a temporary is.
WriteTemp ==
    /\ work.at = "temp"
    /\ IF backup # Nothing \/ temp
       THEN work' = Ended(FALSE) /\ UNCHANGED temp
       ELSE temp' = TRUE /\ Goto("journal")
    /\ UNCHANGED <<dest, backup, cands, journal>>

JournalPath ==
    /\ work.at = "journal" /\ Goto("keep")
    /\ journal' = [had |-> dest, cand |-> trial] /\ temp' = FALSE
    /\ UNCHANGED <<dest, backup, cands>>
WriteJournal ==
    /\ work.at = "journal"
    /\ journal' = [had |-> dest # Nothing, cand |-> trial]
    /\ temp' = FALSE
    /\ Goto("keep")
    /\ UNCHANGED <<dest, backup, cands>>

Keep ==
    /\ work.at = "keep"
    /\ IF dest # Nothing THEN backup' = dest /\ dest' = Nothing
                      ELSE UNCHANGED <<dest, backup>>
    /\ Goto("publish")
    /\ UNCHANGED <<cands, journal, temp>>

Publish ==
    /\ work.at = "publish"
    /\ dest' = trial
    /\ cands' = cands \ {trial}
    /\ work' = Ended(TRUE)
    /\ UNCHANGED <<backup, journal, temp>>

\* async_finalize: the commit point, then the sweep that ignores errors.
Accept ==
    /\ work.at = "accept"
    /\ journal' = Nothing
    /\ Goto("sweep")
    /\ UNCHANGED <<dest, backup, cands, temp>>

Sweep(rest) ==
    /\ work.at = "sweep"
    /\ rest = Torn => backup # Nothing
    /\ backup' = IF backup # Nothing THEN rest ELSE Nothing
    /\ work' = Ended(TRUE)
    /\ UNCHANGED <<dest, cands, journal, temp>>

\* async_remove: every directory must hold the session of the entry.
Check ==
    /\ work.at = "check"
    /\ IF Torn \in {dest, backup} THEN work' = Ended(FALSE) ELSE Goto("wipe")
    /\ UNCHANGED disk

Wipe ==
    \/ /\ work.at = "wipe" /\ dest' = Nothing /\ Goto("wipe backup")
       /\ UNCHANGED <<backup, cands, journal, temp>>
    \/ /\ work.at = "wipe backup" /\ backup' = Nothing /\ Goto("wipe candidate")
       /\ UNCHANGED <<dest, cands, journal, temp>>
    \/ /\ work.at = "wipe candidate"
       /\ cands' = IF journal = Nothing THEN cands ELSE cands \ {journal.cand}
       /\ Goto("wipe journal")
       /\ UNCHANGED <<dest, backup, journal, temp>>
    \/ /\ work.at = "wipe journal" /\ journal' = Nothing /\ temp' = FALSE
       /\ work' = Ended(TRUE)
       /\ UNCHANGED <<dest, backup, cands>>

\* A system call raises OSError.  commit rolls back once the journal is there;
\* rmtree leaves a torn directory, a failed write the temporary file.
Raise ==
    /\ work.at \in FileSteps \ {"ended", "look", "clear", "drop", "sweep", "check"}
    /\ work' = IF work.at \in {"keep", "publish"} THEN Start("clear", "raise")
              ELSE Ended(FALSE)
    /\ backup' = IF work.at = "purge" \/ (work.at = "wipe backup" /\ backup # Nothing)
                 THEN Torn ELSE backup
    /\ dest' = IF work.at = "wipe" /\ dest # Nothing THEN Torn ELSE dest
    /\ temp' = (temp \/ work.at = "temp")
    /\ UNCHANGED <<cands, journal>>

SystemCall ==
    \/ Look \/ Purge \/ Untemp \/ Clear(Nothing) \/ Restore \/ Drop \/ Unlink
    \/ WriteTemp \/ WriteJournal \/ Keep \/ Publish \/ Accept \/ Sweep(Nothing)
    \/ Check \/ Wipe

Fault ==
    /\ faults < MaxFaults
    /\ faults' = faults + 1
    /\ Clear(Torn) \/ Sweep(Torn) \/ Raise

Thread ==
    /\ work # Idle
    /\ (SystemCall /\ UNCHANGED faults) \/ Fault
    /\ UNCHANGED <<lockq, other, flowVars, entry, serving, crashes>>

-----------------------------------------------------------------------------
(***************************************************************************)
(* The lock of the manager, which serves its waiters in order.  Its holder *)
(* starts a thread, and releases the lock when it resumes after the job.   *)
(***************************************************************************)
Holds(p) == lockq # <<>> /\ Head(lockq) = p /\ ~other
Wait(p)  == lockq' = Append(lockq, p)
InTransaction     == flow # "none"
Over(p)  == Holds(p) /\ work.at = "ended"
\* A wait that is given up: the flow and the setup are each in the queue at most once.
Without(p) == IF lockq = <<>> THEN <<>> ELSE IF Head(lockq) = p THEN Tail(lockq) ELSE <<Head(lockq)>>
KeepLock == UNCHANGED lockq /\ work' = Idle
Release  == lockq' = Tail(lockq) /\ work' = Idle

Granted ==
    /\ work = Idle
    /\ \/ /\ Holds("setup") /\ work' = Start("look", "end")
       \/ /\ Holds("flow")
          /\ \/ flow = "commit"   /\ work' = Start("look", "commit")
             \/ flow = "rollback" /\ work' = Start("clear", "end")
             \/ flow = "finalize" /\ work' = Start("accept", "end")
             \/ flow = "remove"   /\ work' = Start("check", "end")
    /\ UNCHANGED <<disk, lockq, other, flowVars, entry, serving, crashes, faults>>

OtherKey ==
    /\ other' = ~other
    /\ other \/ lockq = <<>>
    /\ UNCHANGED <<disk, work, lockq, flowVars, entry, serving, crashes, faults>>

-----------------------------------------------------------------------------
(***************************************************************************)
(* The flow: _credentials, inside the transaction of the key.              *)
(***************************************************************************)
files == <<disk, other, crashes, faults>>

Begin(v) ==
    /\ flow = "none" /\ v \notin minted
    /\ \/ entry \in {"loaded", "not_loaded"}
       \/ entry \in {"recovering", "opening"} /\ OtherSetups
       \/ entry = "none" /\ minted = {}     \* a new entry has a key of its own
    /\ flow' = "open" /\ trial' = v /\ facts' = {} /\ minted' = minted \cup {v}
    /\ UNCHANGED <<files, work, lockq, entry, serving>>

Prepare ==
    /\ flow = "open"
    /\ cands' = cands \cup {trial}
    /\ flow' = "prepared"
    /\ UNCHANGED <<dest, backup, journal, temp, work, lockq, other, trial, facts,
                   minted, entry, serving, crashes, faults>>

\* The login fails, or the account is not the one of the entry.
Reject ==
    /\ flow \in {"open", "prepared"}
    /\ flow' = "cleanup"
    /\ UNCHANGED <<files, work, lockq, trial, facts, minted, entry, serving>>

UnloadsNot(ok) == entry = "loaded" /\ UNCHANGED <<entry, serving>>
Unloads(ok) ==
    /\ entry = "loaded"
    /\ entry' = IF ok THEN "not_loaded" ELSE "failed_unload"
    /\ serving' = IF ok THEN Nothing ELSE serving

UnloadOld ==
    /\ flow = "prepared"
    /\ \/ /\ entry # "loaded" /\ UNCHANGED <<entry, serving, facts>>
          /\ flow' = "commit" /\ Wait("flow")
       \/ /\ Unloads(TRUE) /\ facts' = facts \cup {"unloaded"}
          /\ flow' = "commit" /\ Wait("flow")
       \/ /\ Unloads(FALSE) /\ flow' = "cleanup" /\ UNCHANGED <<facts, lockq>>
    /\ UNCHANGED <<files, work, trial, minted>>

\* The commit is over; a cancelled flow undoes it under the same lock.
Committed ==
    /\ flow = "commit" /\ Over("flow")
    /\ \/ /\ "cancelled" \in facts
          /\ flow' = "undo" /\ work' = Start("clear", "end")
          /\ UNCHANGED <<lockq, facts>>
       \/ /\ "cancelled" \notin facts /\ work.ok
          /\ flow' = "update" /\ facts' = facts \cup {"committed"} /\ Release
       \/ /\ "cancelled" \notin facts /\ ~work.ok
          /\ flow' = "cleanup" /\ UNCHANGED facts /\ Release
    /\ UNCHANGED <<files, trial, minted, entry, serving>>

Undone ==
    /\ flow = "undo" /\ Over("flow")
    /\ flow' = "cleanup" /\ Release
    /\ UNCHANGED <<files, trial, facts, minted, entry, serving>>

\* The entry gets the data of the candidate; a new entry follows at the end.
Update ==
    /\ flow = "update"
    /\ IF entry = "none"
       THEN flow' = "finalize" /\ Wait("flow") /\ UNCHANGED facts
       ELSE flow' = "reload" /\ facts' = facts \cup {"updated"} /\ UNCHANGED lockq
    /\ UNCHANGED <<files, work, trial, minted, entry, serving>>

\* Home Assistant reloads the entry: it unloads a loaded one and sets it up.
\* During a transaction the setup recovers nothing.
After == IF flow \in {"reload", "reloading"} THEN "cleanup" ELSE "leave"

Reload ==
    /\ flow \in {"reload", "restart"}
    /\ \/ /\ Unloads(TRUE) /\ UNCHANGED flow
       \/ /\ Unloads(FALSE) /\ flow' = After
       \/ /\ entry = "failed_unload" /\ flow' = After /\ UNCHANGED <<entry, serving>>
       \/ /\ entry = "not_loaded" /\ entry' = "opening" /\ UNCHANGED serving
          /\ flow' = IF flow = "reload" THEN "reloading" ELSE "restarting"
    /\ UNCHANGED <<files, work, lockq, trial, facts, minted>>

Reloaded ==
    /\ flow \in {"reloading", "restarting"}
    /\ entry \notin {"recovering", "opening"}
    /\ IF flow = "reloading" /\ entry = "loaded"
       THEN flow' = "finalize" /\ Wait("flow")
       ELSE flow' = After /\ UNCHANGED lockq
    /\ UNCHANGED <<files, work, trial, facts, minted, entry, serving>>

Finalized ==
    /\ flow = "finalize" /\ Over("flow")
    /\ facts' = IF work.ok /\ "cancelled" \notin facts
                THEN (facts \ {"committed"}) \cup {"finished"} ELSE facts
    /\ flow' = "cleanup" /\ Release
    /\ UNCHANGED <<files, trial, minted, entry, serving>>

\* The finally clause: what was committed and is pending is rolled back, unless
\* a runtime that cannot be unloaded uses it.
UndoAlways == "committed" \in facts
MustUndo   == "committed" \in facts /\ journal # Nothing

Cleanup ==
    /\ flow = "cleanup"
    /\ IF MustUndo
       THEN \/ /\ entry # "loaded" /\ UNCHANGED <<entry, serving, facts>>
               /\ flow' = "rollback" /\ Wait("flow")
            \/ /\ Unloads(TRUE) /\ UNCHANGED facts
               /\ flow' = "rollback" /\ Wait("flow")
            \/ /\ Unloads(FALSE) /\ facts' = facts \cup {"pending"}
               /\ flow' = "discard" /\ UNCHANGED lockq
       ELSE /\ facts' = IF "committed" \in facts THEN facts \cup {"finished"} ELSE facts
            /\ flow' = "discard"
            /\ UNCHANGED <<entry, serving, lockq>>
    /\ UNCHANGED <<files, work, trial, minted>>

\* An error of the rollback leaves the finally clause at once.
RolledBack ==
    /\ flow = "rollback" /\ Over("flow")
    /\ flow' = IF work.ok THEN "discard" ELSE "leave"
    /\ Release
    /\ UNCHANGED <<files, trial, facts, minted, entry, serving>>

Discard ==
    /\ flow = "discard"
    /\ cands' = cands \ {trial}
    /\ flow' = IF /\ entry # "none"
                  /\ {"finished", "pending"} \cap facts = {}
                  /\ {"updated", "unloaded"} \cap facts # {}
               THEN "restart" ELSE "leave"
    /\ UNCHANGED <<dest, backup, journal, temp, work, lockq, other, trial, facts,
                   minted, entry, serving, crashes, faults>>

\* The transaction ends; a flow that was not cancelled returns its new entry.
FlowLeaves ==
    /\ flow = "leave"
    /\ flow' = "none" /\ trial' = Nothing /\ facts' = {}
    /\ entry' = IF entry = "none" /\ "finished" \in facts /\ "cancelled" \notin facts
                THEN "not_loaded" ELSE entry
    /\ UNCHANGED <<files, work, lockq, minted, serving>>

\* The flow is cancelled once, at an await.  A running job is awaited; a wait
\* for the lock is given up; a setup it awaits is aborted.
Cancel ==
    /\ "cancelled" \notin facts
    /\ flow \in {"open", "commit", "reload", "reloading", "finalize"}
    /\ facts' = facts \cup {"cancelled"}
    /\ IF flow \in {"commit", "finalize"} /\ Holds("flow") /\ work # Idle
       THEN UNCHANGED <<flow, lockq>>
       ELSE flow' = "cleanup" /\ lockq' = Without("flow")
    /\ entry' = IF flow = "reloading" /\ entry = "opening" THEN "not_loaded" ELSE entry
    /\ UNCHANGED <<files, work, trial, minted, serving>>

-----------------------------------------------------------------------------
(***************************************************************************)
(* Home Assistant and the setup of the entry.                              *)
(***************************************************************************)
ByOthers == ~InTransaction \/ OtherSetups

NeverSkip     == FALSE
AlwaysSkip    == TRUE
SkipsRecovery == InTransaction

SetupStart ==
    /\ entry = "not_loaded" /\ ByOthers
    /\ IF SkipsRecovery
       THEN entry' = "opening" /\ UNCHANGED lockq
       ELSE entry' = "recovering" /\ Wait("setup")
    /\ UNCHANGED <<files, work, flowVars, serving>>

SetupRecovered ==
    /\ entry = "recovering" /\ Over("setup")
    /\ entry' = IF work.ok THEN "opening" ELSE "not_loaded"
    /\ Release
    /\ UNCHANGED <<files, flowVars, serving>>

\* The session must be that of the entry (the tokens of a torn directory may
\* be there or not), and the first refresh may fail.
SetupOpens ==
    /\ entry = "opening"
    /\ \/ dest # Nothing /\ entry' = "loaded" /\ serving' = dest
       \/ entry' = "not_loaded" /\ UNCHANGED serving
    /\ UNCHANGED <<files, work, lockq, flowVars>>

Unload ==
    /\ ByOthers
    /\ \E ok \in BOOLEAN : Unloads(ok)
    /\ UNCHANGED <<files, work, lockq, flowVars>>

\* The entry is removed, unloaded or not; then async_remove has a transaction.
RemoveEntry ==
    /\ entry \in {"not_loaded", "failed_unload"} /\ flow = "none"
    /\ entry' = "removed" /\ serving' = Nothing
    /\ flow' = "remove" /\ Wait("flow")
    /\ UNCHANGED <<files, work, trial, facts, minted>>

Removed ==
    /\ flow = "remove" /\ Over("flow")
    /\ flow' = "none" /\ Release
    /\ UNCHANGED <<files, trial, facts, minted, entry, serving>>

\* Home Assistant stops or is killed between two system calls, and starts again.
Crash ==
    /\ crashes < MaxCrashes /\ crashes' = crashes + 1
    /\ flow' = "none" /\ trial' = Nothing /\ facts' = {}
    /\ work' = Idle /\ lockq' = <<>> /\ other' = FALSE
    /\ entry' = IF entry \in {"none", "removed"} THEN entry ELSE "not_loaded"
    /\ serving' = Nothing
    /\ UNCHANGED <<disk, minted, faults>>

-----------------------------------------------------------------------------
FlowStep ==
    \/ Prepare \/ Reject \/ UnloadOld \/ Committed \/ Undone \/ Update \/ Reload
    \/ Reloaded \/ Finalized \/ Cleanup \/ RolledBack \/ Discard \/ FlowLeaves

SessionNext ==
    \/ Thread \/ Granted \/ OtherKey
    \/ (\E v \in Versions : Begin(v)) \/ FlowStep \/ Cancel
    \/ SetupStart \/ SetupRecovered \/ SetupOpens \/ Unload
    \/ RemoveEntry \/ Removed \/ Crash

SessionSafe == SessionInit /\ [][SessionNext]_sessionVars

-----------------------------------------------------------------------------
(***************************************************************************)
(* What the files mean: the session that recovery would put in place.      *)
(***************************************************************************)
Recovered ==
    IF journal # Nothing
    THEN IF backup # Nothing THEN backup ELSE IF journal.had THEN dest ELSE Nothing
    ELSE IF backup # Nothing /\ dest = Nothing THEN backup ELSE dest

\* What is left of a directory is no session.
Session == IF entry = "removed" \/ Recovered = Torn THEN Nothing ELSE Recovered

\* Whatever calls fail and whenever the program is killed, the session of the
\* key is complete and changes only at the commit point of async_finalize, to
\* the candidate of the live transaction (_recover, _commit, _rollback).
Atomic == INSTANCE AtomicSession WITH session <- Session, offered <- trial
ImplementsAtomic == Atomic!Spec

\* What the flow reports is what happened: it ends with success if and only if
\* the candidate is the session of the key (the finally clause of _credentials,
\* with its committed, finished and pending cases).
OutcomeIsTrue ==
    flow \in {"restart", "leave"} => ("finished" \in facts <=> Session = trial)

\* "Never replace files under a live runtime" (config_flow.py:257): while a
\* runtime is loaded, or could not be unloaded, its directory stays.
RuntimeKeepsItsFiles ==
    [][(entry \in {"loaded", "failed_unload"} /\ entry' = entry) => dest' = dest]_sessionVars

\* A runtime outside a transaction uses the session of the key, unless a
\* rollback that failed left its journal to the next setup.
ServesTheSession ==
    entry = "loaded" /\ ~InTransaction /\ (journal = Nothing \/ faults = 0) => serving = Session

\* What an interrupted transaction left never blocks the next one: when commit
\* writes its journal, the recovery has removed the backup and the temporary.
CommitUnblocked == work.at = "temp" => backup = Nothing /\ ~temp

\* The rollback of a committed transaction finds its journal: nobody recovered
\* the key in between.
RollbackHasWork == flow = "rollback" /\ work.at = "clear" => journal # Nothing

(***************************************************************************)
(* Fairness: system calls return, the holder of the lock resumes, the      *)
(* operations on other keys end, the flow and a started setup go on.       *)
(***************************************************************************)
SessionSpec == /\ SessionSafe
        /\ WF_sessionVars(Thread) /\ SF_sessionVars(Granted) /\ WF_sessionVars(other /\ OtherKey)
        /\ SF_sessionVars(FlowStep) /\ WF_sessionVars(SetupRecovered) /\ WF_sessionVars(SetupOpens)
        /\ WF_sessionVars(Removed)

\* Every transaction ends, and so does every setup: the lock of the manager,
\* the transaction of the key and the reload inside it never block each other.
TransactionEnds == InTransaction ~> ~InTransaction
SetupEnds == entry \in {"recovering", "opening"} ~> entry \notin {"recovering", "opening"}

\* The transaction is never in its own way, nor in that of the next one, and its flow tells the truth.
TransactionIsSound == OutcomeIsTrue /\ CommitUnblocked /\ RollbackHasWork

\* Transactions and setups end; between them a runtime has the files of its session.
SessionsEnd == TransactionEnds /\ SetupEnds /\ []ServesTheSession /\ RuntimeKeepsItsFiles
=============================================================================
