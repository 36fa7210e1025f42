-------------------------- MODULE ArchiveExchange --------------------------
(***************************************************************************)
(* Exports and imports of archives by the options flow, and the private    *)
(* directories they work in (archive_options.py, archive_resources.py).    *)
(*                                                                         *)
(* A directory is made, filled and removed by workers outside of the event *)
(* loop.  A step that is cancelled waits for its worker before it gives    *)
(* anything back.  A finished package changes its owner: from the flow to  *)
(* the download, which ends with its timer or with Home Assistant.         *)
(***************************************************************************)
EXTENDS Integers, FiniteSets

CONSTANTS Exports,     \* flows that export
          MaxExports,  \* slots
          Packed,      \* accounts in the package that is imported
          MaxTries     \* bound on the steps of the flow that imports

ASSUME ArchiveExchangeAssumption == {MaxExports, MaxTries} \subseteq Nat \ {0}

VARIABLES
    export,     \* the exports
    pending,    \* PENDING_EXPORTS: tickets
    downloads,  \* DOWNLOADS
    import,     \* the flow that imports
    merged,     \* accounts whose archives have the package
    tries

exportVars == <<export, pending, downloads>>
importVars == <<import, merged, tries>>

\* dir: the directory is there; jobs: what threads do in it; cancelled: the step is.
NoExport == [pc |-> "idle", dir |-> FALSE, jobs |-> {}, cancelled |-> FALSE]
NoImport == [pc |-> "form", dir |-> FALSE, jobs |-> {}, cancelled |-> FALSE, owned |-> FALSE,
             next |-> "form", staged |-> FALSE, todo |-> {}, removed |-> FALSE, closing |-> FALSE]

ExchangeInit ==
    /\ export = [f \in Exports |-> NoExport] /\ pending = {} /\ downloads = {}
    /\ import = NoImport /\ merged = {} /\ tries = 0

----------------------------------------------------------------------------
\* Exports.

\* A thread is given work; it is done.
Works(x, pc) == [x EXCEPT !.pc = pc, !.jobs = @ \union {pc}]
After(x, j) ==
    [x EXCEPT !.jobs = @ \ {j},
              !.dir = (@ \/ j = "making") /\ j \notin {"clearing", "expiring", "cleaning"}]

\* export_workspace reserves before it waits.
Ticket(f) == pending' = pending \union {f}
Free == Cardinality(pending) + Cardinality(downloads) < MaxExports

BeginExport(f) ==
    /\ export[f].pc = "idle"
    /\ IF Free THEN export' = [export EXCEPT ![f] = Works(@, "making")] /\ Ticket(f)
       ELSE UNCHANGED <<export, pending>>
    /\ UNCHANGED downloads

\* Mutant: a cancelled step does not wait for its worker.
AtOnce(x) == x.cancelled \/ x.jobs = {}

\* async_drain
Drained(x) == x.jobs = {}

\* A worker ends: the directory is made, or something is written to it, or it is gone.
WorkerEnds(f) ==
    /\ \E j \in export[f].jobs : export' = [export EXCEPT ![f] = After(@, j)]
    /\ UNCHANGED <<pending, downloads>>

\* The step goes on: the accounts' snapshots, each under the lock of its account, then the package.
\* A step that fails or is cancelled takes its directory back.
ClearExport(f) ==
    /\ export' = [export EXCEPT ![f] = Works(@, "clearing")]
    /\ UNCHANGED <<pending, downloads>>
Continue(f) ==
    LET x == export[f] IN
    /\ x.pc \in {"making", "copying", "packing"} /\ Drained(x)
    /\ \/ ~x.cancelled /\ x.pc = "making"
          /\ export' = [export EXCEPT ![f] = Works(@, "copying")] /\ UNCHANGED <<pending, downloads>>
       \/ ~x.cancelled /\ x.pc = "copying"
          /\ export' = [export EXCEPT ![f] = Works(@, "packing")] /\ UNCHANGED <<pending, downloads>>
       \/ /\ ~x.cancelled /\ x.pc = "packing"
          /\ export' = [export EXCEPT ![f].pc = "published"]
          /\ downloads' = downloads \union {f} /\ pending' = pending \ {f}
       \/ ClearExport(f)

Cleared(f) ==
    /\ export[f].pc = "clearing" /\ Drained(export[f])
    /\ export' = [export EXCEPT ![f] = [NoExport EXCEPT !.pc = "over"]] /\ pending' = pending \ {f}
    /\ UNCHANGED downloads

CancelExport(f) ==
    /\ export[f].pc \in {"making", "copying", "packing"} /\ ~export[f].cancelled
    /\ export' = [export EXCEPT ![f].cancelled = TRUE]
    /\ UNCHANGED <<pending, downloads>>

\* cleanup, by the timer or by the end of Home Assistant, once.
Expire(f) ==
    /\ f \in downloads /\ downloads' = downloads \ {f}
    /\ export' = [export EXCEPT ![f] = Works(@, "expiring")]
    /\ UNCHANGED pending
Expired(f) ==
    /\ export[f].pc = "expiring" /\ Drained(export[f])
    /\ export' = [export EXCEPT ![f] = [NoExport EXCEPT !.pc = "over"]]
    /\ UNCHANGED <<pending, downloads>>

----------------------------------------------------------------------------
\* The import.  The flow is handed one step at a time; its removal may come within a step, and
\* closes the directory behind it, under the lock of the flow.

Forms == {"form", "confirm", "result"}
SetImport(x) == import' = x /\ UNCHANGED tries

\* _archive_cleanup, then the step is at pc "next".
Cleanup(x, next) ==
    IF x.owned THEN [Works(x, "cleaning") EXCEPT !.next = next, !.staged = FALSE]
    ELSE [x EXCEPT !.pc = next, !.staged = FALSE]

\* A file is uploaded; what was staged before goes first.
SubmitFile ==
    /\ import.pc \in {"form", "confirm"} /\ ~import.removed /\ tries < MaxTries /\ tries' = tries + 1
    /\ import' = IF import.owned THEN Cleanup(import, "making")
                 ELSE [Works(import, "making") EXCEPT !.owned = TRUE]
    /\ merged' = {}

ImportWorkerEnds ==
    /\ \E j \in import.jobs : SetImport(After(import, j))
    /\ UNCHANGED merged

\* The package is unpacked, and each archive in it brought to the present schema and inspected.
Stage ==
    /\ import.pc \in {"making", "unpacking", "inspecting"} /\ Drained(import)
    /\ \/ ~import.cancelled /\ import.pc = "making" /\ SetImport(Works(import, "unpacking"))
       \/ ~import.cancelled /\ import.pc = "unpacking" /\ SetImport([Works(import, "inspecting") EXCEPT !.staged = TRUE])
       \/ ~import.cancelled /\ import.pc = "inspecting" /\ SetImport([import EXCEPT !.pc = "confirm"])
       \/ import.cancelled /\ SetImport([Cleanup(import, "form") EXCEPT !.cancelled = FALSE])
       \/ ~import.cancelled /\ import.pc # "inspecting" /\ SetImport(Cleanup(import, "form"))
    /\ UNCHANGED merged

Cleaned ==
    /\ import.pc = "cleaning" /\ Drained(import)
    /\ SetImport(IF import.next = "making"
                 THEN Works([import EXCEPT !.next = "form"], "making")
                 ELSE [import EXCEPT !.pc = import.next, !.owned = FALSE, !.next = "form"])
    /\ UNCHANGED merged

\* The import is confirmed, with no backup active: one account after the other.
Confirm ==
    /\ import.pc = "confirm" /\ import.staged /\ ~import.removed /\ tries < MaxTries /\ tries' = tries + 1
    /\ import' = [Works(import, "merging") EXCEPT !.todo = Packed]
    /\ UNCHANGED merged

\* The step ends; what was merged stays, and the package can be confirmed again.
MergeRefused(x) == [x EXCEPT !.pc = "confirm", !.todo = {}]

MergeAccount ==
    /\ import.pc = "merging" /\ Drained(import)
    /\ \/ /\ ~import.cancelled /\ import.todo # {}
          /\ \E a \in import.todo :
                SetImport(Works([import EXCEPT !.todo = @ \ {a}], "merging")) /\ merged' = merged \union {a}
       \/ ~import.cancelled /\ import.todo # {} /\ SetImport(MergeRefused(import)) /\ UNCHANGED merged
       \/ ~import.cancelled /\ import.todo = {} /\ SetImport(Cleanup(import, "result")) /\ UNCHANGED merged
       \/ import.cancelled /\ SetImport([Cleanup(import, "form") EXCEPT !.cancelled = FALSE, !.todo = {}])
          /\ UNCHANGED merged

CancelImport ==
    /\ import.pc \in {"making", "unpacking", "inspecting", "merging"} /\ ~import.cancelled
    /\ SetImport([import EXCEPT !.cancelled = TRUE]) /\ UNCHANGED merged

\* async_remove schedules _archive_close.
Closes == import.owned

RemoveFlow ==
    /\ ~import.removed /\ SetImport([import EXCEPT !.removed = TRUE, !.closing = Closes])
    /\ UNCHANGED merged
CloseFlow ==
    /\ import.closing /\ import.pc \in Forms
    /\ SetImport([Cleanup(import, "form") EXCEPT !.closing = FALSE]) /\ UNCHANGED merged

----------------------------------------------------------------------------
ExportSteps(f) == WorkerEnds(f) \/ Continue(f) \/ Cleared(f) \/ Expire(f) \/ Expired(f)
ImportSteps == ImportWorkerEnds \/ Stage \/ Cleaned \/ MergeAccount \/ CloseFlow
ExportsNext == \E f \in Exports : ExportSteps(f) \/ BeginExport(f) \/ CancelExport(f)
ImportNext ==
    \/ ImportSteps \/ SubmitFile \/ Confirm \/ CancelImport \/ RemoveFlow
ExchangeNext ==
    \/ ExportsNext /\ UNCHANGED importVars
    \/ ImportNext /\ UNCHANGED exportVars

ExchangeSafe == ExchangeInit /\ [][ExchangeNext]_<<exportVars, importVars>>

----------------------------------------------------------------------------
ExchangeTypeOK ==
    /\ pending \subseteq Exports /\ downloads \subseteq Exports /\ merged \subseteq Packed
    /\ \A f \in Exports : DOMAIN export[f] = DOMAIN NoExport
    /\ DOMAIN import = DOMAIN NoImport

\* There are never more packages, finished or in the making, than slots: whatever awaits lie
\* between the admission of an export and its download (export_workspace).
SlotsBound ==
    Cardinality({f \in Exports : f \in downloads \/ export[f].pc \in {"making", "copying", "packing", "clearing"}})
        <= MaxExports

\* A directory has one owner as long as it is there, and is there as long as a thread works in it:
\* a step under way, a flow that was not removed, or the download whose package it holds
\* (finish_job, TemporaryWorkspace, ExportWorkspace.published, async_remove).
HasOwner ==
    /\ \A f \in Exports :
          /\ export[f].dir => export[f].pc # "over" /\ (export[f].pc = "published" <=> f \in downloads)
          /\ f \in downloads => export[f].dir
          /\ export[f].jobs \cap {"copying", "packing"} # {} => export[f].dir
    /\ import.dir => import.owned /\ (import.pc \in Forms => ~import.removed \/ import.closing)
    /\ import.jobs \cap {"unpacking", "inspecting", "merging"} # {} => import.dir

\* The flow says that a package was imported only when each account of it was, however often the
\* step was refused, cancelled and tried again (_archive_confirm).
ResultIsTrue == import.pc = "result" => merged = Packed

\* Packages and directories of an exchange are bounded, owned, and what the flow says of them.
ExchangeIsSound == SlotsBound /\ HasOwner /\ ResultIsTrue
=============================================================================
