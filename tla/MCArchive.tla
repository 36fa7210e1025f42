----------------------------- MODULE MCArchive -----------------------------
(***************************************************************************)
(* Parts of the archive, checked in one run: in every behaviour one of     *)
(* them moves and the others rest.                                         *)
(***************************************************************************)
EXTENDS ArchiveActors, RideStore, ArchiveFiles, ArchiveExchange

VARIABLE mover

MCAccount == [e \in Entries |-> IF e = 3 THEN 2 ELSE 1]
MCLists == {{1}, {1, 2}}
MCLedger == [ids |-> {1, 2}, known |-> {1}]
MCTimes == <<{2, 4}, {3}>>
MCQuality == <<0, 2, 1, 0>>
MCOldFiles ==
    {{}, {File("legacy", {2}), [kind |-> "legacy", facts |-> {3}, ok |-> FALSE]}}

NothingLeft == kept = {} /\ canon = NoCanon /\ search = FALSE

Init ==
    /\ mover \in {"actors", "store", "files", "exports", "imports"}
    /\ ActorsInit /\ StoreInit /\ FilesInit /\ ExchangeInit
    /\ mover # "files" => NothingLeft

\* One part moves by an action of its own.
Moves(ofActors, ofStore, ofFiles, ofExports, ofImports) ==
    \/ mover = "actors" /\ ofActors /\ UNCHANGED <<mover, storeVars, fileVars, exportVars, importVars>>
    \/ mover = "store" /\ ofStore /\ UNCHANGED <<mover, actorVars, fileVars, exportVars, importVars>>
    \/ mover = "files" /\ ofFiles /\ UNCHANGED <<mover, actorVars, storeVars, exportVars, importVars>>
    \/ mover = "exports" /\ ofExports /\ UNCHANGED <<mover, actorVars, storeVars, fileVars, importVars>>
    \/ mover = "imports" /\ ofImports /\ UNCHANGED <<mover, actorVars, storeVars, fileVars, exportVars>>

Next == Moves(ActorsNext, StoreNext, FilesNext, ExportsNext, ImportNext)

vars == <<mover, actorVars, storeVars, fileVars, exportVars, importVars>>

\* Threads and workers end what they do, the event loop runs a ready step, timers fire.
Fairness ==
    /\ \A e \in Entries : WF_vars(Moves(ThreadSteps(e), FALSE, FALSE, FALSE, FALSE))
    /\ WF_vars(Moves(BackupSteps, FALSE, StartSteps, FALSE, ImportSteps))
    /\ \A e \in Entries : WF_vars(Moves(EntrySteps(e), FALSE, FALSE, FALSE, FALSE))
    /\ \A f \in Exports : WF_vars(Moves(FALSE, FALSE, FALSE, ExportSteps(f), FALSE))

Spec == Init /\ [][Next]_vars /\ Fairness

\* The types of the parts.
TypeOK == ActorsTypeOK /\ StoreTypeOK /\ FilesTypeOK /\ ExchangeTypeOK

\* What was begun ends: the first hook of a backup has every actor still, a start has adopted what
\* there was or refused, every package is gone when its time is over, and no step of an import
\* hangs.
PartsEnd ==
    []<>/\ backup.phase \notin {"preparing", "waiting"}
        /\ start.pc \in {"off", "running", "writing", "refused"}
        /\ \A f \in Exports : ~export[f].dir
        /\ import.jobs = {}
=============================================================================
