---------------------------- MODULE ArchiveFiles ----------------------------
(***************************************************************************)
(* The files of an account: the archive itself, what older versions, past  *)
(* imports and interrupted work left beside it, and what a start makes of  *)
(* them (async_prepare_account, RideArchive._open, _migrate, recover,      *)
(* merge), with a crash between any two of its steps.                      *)
(*                                                                         *)
(* A file is known by the originals in it.  SQLite commits by a rollback   *)
(* journal: a crash within a commit leaves the old content and a journal,  *)
(* which only a connection that may write can roll back.                   *)
(***************************************************************************)
EXTENDS Integers, FiniteSets

CONSTANTS Facts,        \* originals
          OldFiles,     \* what older versions may have left: sets of files
          New, Late,    \* those of receipts, and those an older version writes at last
          MaxStarts, MaxCrashes, MaxOutside   \* bounds on starts, crashes, changes from outside

ManagedFiles ==
    [kind : {"none", "legacy", "schema", "recovery", "retained"}, facts : SUBSET Facts, ok : BOOLEAN]

ASSUME ArchiveFilesAssumption ==
    /\ {MaxStarts, MaxCrashes, MaxOutside} \subseteq Nat
    /\ New \union Late \subseteq Facts /\ OldFiles \subseteq SUBSET ManagedFiles

VARIABLES
    canon,     \* rides.sqlite3
    kept,      \* the other managed files
    strays,    \* temporary files a crash left in the directory of the account
    search,    \* a reconstruction or a search of copies is not finished (meta)
    start,     \* the setup of the entry, then its runtime
    starts, crashes, outside

fileVars == <<canon, kept, strays, search, start, starts, crashes, outside>>

NoCanon == [is |-> "none", old |-> FALSE, facts |-> {}, lost |-> {}, hot |-> FALSE]
NoFile == [kind |-> "none", facts |-> {}, ok |-> FALSE]
Off == [pc |-> "off", adopt |-> FALSE, todo |-> {}, src |-> NoFile, copy |-> NoFile, image |-> NoFile,
        failed |-> FALSE]
File(kind, facts) == [kind |-> kind, facts |-> facts, ok |-> TRUE]

FilesInit ==
    /\ kept \in OldFiles /\ strays = FALSE /\ start = Off
    /\ \E is \in {"none", "db"}, old, active \in BOOLEAN :
          /\ canon = [NoCanon EXCEPT !.is = is, !.old = old, !.facts = IF is = "db" THEN New ELSE {}]
          /\ search = active /\ (is = "none" => ~old /\ ~active)
    /\ starts = 0 /\ crashes = 0 /\ outside = 0

At(pc) == start.pc = pc
Go(pc) == start' = [start EXCEPT !.pc = pc]
Refuse == start' = [Off EXCEPT !.pc = "refused"]

----------------------------------------------------------------------------
\* The start.

StartSetup ==
    /\ At("off") /\ starts < MaxStarts /\ starts' = starts + 1 /\ Go("looking")
    /\ UNCHANGED <<canon, kept, strays, search, crashes, outside>>

\* _sources: a running repair owns its images; so it is taken where the archive cannot be read.
Protected(f) == f.kind = "recovery" /\ canon.is # "none" /\ (search \/ canon.hot \/ canon.is = "empty")
Sources == {f \in kept : ~Protected(f)}

\* async_prepare_account looks whether there is anything to adopt or to convert.
Look ==
    /\ At("looking")
    /\ IF Sources = {} /\ canon.hot THEN Refuse
       ELSE start' = [start EXCEPT !.pc = "opening",
                          !.adopt = Sources # {} \/ (canon.is # "none" /\ (canon.old \/ canon.is = "empty"))]
    /\ UNCHANGED <<canon, kept, strays, search, starts, crashes, outside>>

\* RideArchive._open, up to the steps that change a file: a new one is created, one that cannot be
\* read is refused, one that lacks originals is completed from images, or refused.
Images == {f \in kept : f.kind = "recovery" /\ f.ok}
Completes == canon.lost \subseteq UNION {f.facts : f \in Images}
Open ==
    /\ At("opening")
    /\ \/ canon.is = "none" /\ canon' = [canon EXCEPT !.is = "empty"] /\ Go("creating")
       \/ (canon.is = "empty" \/ canon.hot) /\ Refuse /\ UNCHANGED canon
       \/ /\ canon.is = "db" /\ ~canon.hot /\ UNCHANGED canon
          /\ IF canon.lost # {} THEN Refuse \/ (Completes /\ Go("preserving"))
             ELSE IF canon.old THEN Go("saving")
             ELSE IF start.adopt THEN start' = [start EXCEPT !.pc = "adopting", !.todo = Sources]
             ELSE start' = [Off EXCEPT !.pc = "running", !.failed = start.failed]
    /\ UNCHANGED <<kept, strays, search, starts, crashes, outside>>

\* The tables of the new file are committed.
Create ==
    /\ At("creating") /\ canon' = [canon EXCEPT !.is = "db"] /\ Go("opening")
    /\ UNCHANGED <<kept, strays, search, starts, crashes, outside>>

\* recover: the bytes there are become an image, then the completed copy takes their place.
Preserve ==
    /\ At("preserving") /\ kept' = kept \union {File("recovery", canon.facts \ canon.lost)}
    /\ Go("publishing") /\ UNCHANGED <<canon, strays, search, starts, crashes, outside>>
Publish ==
    /\ At("publishing") /\ canon' = [canon EXCEPT !.lost = {}] /\ Go("opening")
    /\ UNCHANGED <<kept, strays, search, starts, crashes, outside>>

\* _migrate: a copy first, unless there is one of the same bytes; or there is no room for it.
Saved == kept' = kept \union {File("schema", canon.facts)}
SaveSchema ==
    /\ At("saving")
    /\ \/ Saved /\ Go("converting")
       \/ Refuse /\ UNCHANGED kept
    /\ UNCHANGED <<canon, strays, search, starts, crashes, outside>>
Convert ==
    /\ At("converting")
    /\ IF ~canon.hot THEN canon' = [canon EXCEPT !.hot = TRUE] /\ UNCHANGED start
       ELSE canon' = [canon EXCEPT !.hot = FALSE, !.old = FALSE] /\ Go("opening")
    /\ UNCHANGED <<kept, strays, search, starts, crashes, outside>>

----------------------------------------------------------------------------
\* Adoption, source by source.

\* The next source; after the last the entry opens its own actor on the file.
NextSource ==
    /\ At("adopting")
    /\ IF start.todo = {} THEN start' = [Off EXCEPT !.pc = "opening", !.failed = start.failed]
       ELSE \E f \in start.todo :
               start' = [start EXCEPT !.pc = "copying", !.src = f, !.todo = @ \ {f}]
    /\ UNCHANGED <<canon, kept, strays, search, starts, crashes, outside>>

\* Mutant: nobody learns of the source that stays.
Passed == start' = [start EXCEPT !.pc = "adopting"]

\* Mutant: the source that failed is tried again in the same start.
FailedAgain == start' = [start EXCEPT !.pc = "adopting", !.failed = TRUE, !.todo = @ \union {start.src}]

\* The source stays, and the others are tried.
Failed == start' = [start EXCEPT !.pc = "adopting", !.failed = TRUE]

\* The files as they are after the source was named: the file itself, or what became of it.
Now(f) == {g \in kept : g.kind = f.kind /\ f.facts \subseteq g.facts}

\* A private copy is made and brought to the present schema, unless it cannot be read.
CopySource ==
    /\ At("copying")
    /\ \/ \E g \in Now(start.src) :
             g.ok /\ start' = [start EXCEPT !.pc = "imaging", !.copy = g]
       \/ Failed
    /\ UNCHANGED <<canon, kept, strays, search, starts, crashes, outside>>

\* merge: an image of the archive, the transaction, and the end of the image.  Sources that were
\* merged before change nothing.
Image ==
    /\ At("imaging")
    /\ LET image == File("recovery", canon.facts) IN
       /\ kept' = kept \union {image} /\ start' = [start EXCEPT !.pc = "merging", !.image = image]
    /\ UNCHANGED <<canon, strays, search, starts, crashes, outside>>
Merge ==
    /\ At("merging")
    /\ IF ~canon.hot THEN canon' = [canon EXCEPT !.hot = TRUE] /\ UNCHANGED start
       ELSE canon' = [canon EXCEPT !.hot = FALSE, !.facts = @ \union start.copy.facts] /\ Go("merged")
    /\ UNCHANGED <<kept, strays, search, starts, crashes, outside>>

\* The transaction fails: the image is kept as recovery.sqlite3, unless there is one.
MergeFails ==
    /\ At("merging")
    /\ canon' = [canon EXCEPT !.hot = FALSE]
    /\ kept' = LET rest == IF start.image \in start.todo \union {start.src} THEN kept ELSE kept \ {start.image} IN
               IF \E f \in rest : f.kind = "retained" THEN rest
               ELSE rest \union {File("retained", start.image.facts)}
    /\ Failed /\ UNCHANGED <<strays, search, starts, crashes, outside>>

EndImage ==
    /\ At("merged") /\ Go("discarding")
    /\ kept' = IF start.image \in start.todo \union {start.src} THEN kept ELSE kept \ {start.image}
    /\ UNCHANGED <<canon, strays, search, starts, crashes, outside>>

\* Mutant: the source goes as it is by now.
AnyIdentity == Now(start.src)

\* _discard: only the very file that was identified before it was copied.
Unchanged == {start.src} \cap kept

Discard ==
    /\ At("discarding")
    /\ IF Unchanged # {} THEN kept' = kept \ Unchanged /\ Go("adopting")
       ELSE UNCHANGED kept /\ Failed
    /\ UNCHANGED <<canon, strays, search, starts, crashes, outside>>

----------------------------------------------------------------------------
\* The runtime, the end of the process, and what comes from outside.

\* A receipt is written: a transaction, which may fail.
Record ==
    /\ At("running") /\ canon' = [canon EXCEPT !.hot = TRUE] /\ Go("writing")
    /\ UNCHANGED <<kept, strays, search, starts, crashes, outside>>
Recorded ==
    /\ At("writing") /\ Go("running")
    /\ \E f \in New : canon' = [canon EXCEPT !.hot = FALSE, !.facts = @ \union {f}]
    /\ UNCHANGED <<kept, strays, search, starts, crashes, outside>>

\* A reconstruction starts, with an image of its own, or ends.
Repair ==
    /\ At("running") /\ search' = ~search /\ (search \/ \A f \in kept : f.kind # "recovery")
    /\ kept' = IF search THEN kept ELSE kept \union {File("recovery", canon.facts)}
    /\ UNCHANGED <<canon, strays, start, starts, crashes, outside>>

Stop == /\ start.pc \in {"running", "refused"} /\ start' = Off
        /\ UNCHANGED <<canon, kept, strays, search, starts, crashes, outside>>

\* The process dies.  What it was writing is lost; a temporary copy stays where it was made, an
\* image that was being made is not readable.
Crash ==
    /\ crashes < MaxCrashes /\ start.pc \notin {"off", "refused"} /\ crashes' = crashes + 1
    /\ start' = Off
    /\ strays' = (strays \/ start.pc \in {"saving", "preserving", "publishing"})
    /\ \/ UNCHANGED kept
       \/ At("imaging") /\ kept' = kept \union {[kind |-> "recovery", facts |-> {}, ok |-> FALSE]}
    /\ UNCHANGED <<canon, search, starts, outside>>

\* An older version, or a copy, still writes a file that lies beside the archive.
Touch ==
    /\ outside < MaxOutside /\ outside' = outside + 1
    /\ \E f \in kept, x \in Late :
          /\ f.kind = "legacy" /\ f.ok /\ x \notin f.facts
          /\ kept' = (kept \ {f}) \union {[f EXCEPT !.facts = @ \union {x}]}
    /\ UNCHANGED <<canon, strays, search, start, starts, crashes>>

\* The disk loses an original of the archive.
Damage ==
    /\ outside < MaxOutside /\ outside' = outside + 1 /\ At("off") /\ ~canon.old
    /\ \E f \in canon.facts : canon' = [canon EXCEPT !.lost = @ \union {f}]
    /\ UNCHANGED <<kept, strays, search, start, starts, crashes>>

\* async_remove_account: all of it, or nothing where it finds a file it does not know.
RemoveFiles ==
    /\ At("off") /\ ~strays
    /\ canon' = NoCanon /\ kept' = {} /\ search' = FALSE
    /\ UNCHANGED <<strays, start, starts, crashes, outside>>

----------------------------------------------------------------------------
StartSteps ==
    \/ Look \/ Open \/ Create \/ Preserve \/ Publish \/ SaveSchema \/ Convert
    \/ NextSource \/ CopySource \/ Image \/ Merge \/ MergeFails \/ EndImage \/ Discard
FilesNext ==
    \/ StartSetup \/ StartSteps \/ Record \/ Recorded \/ Repair \/ Stop \/ Crash
    \/ Touch \/ Damage \/ RemoveFiles

FilesSafe == FilesInit /\ [][FilesNext]_fileVars

----------------------------------------------------------------------------
FilesTypeOK ==
    /\ canon.is \in {"none", "empty", "db"} /\ canon.lost \subseteq canon.facts /\ canon.facts \subseteq Facts
    /\ \A f \in kept : f.kind \in {"legacy", "schema", "recovery", "retained"} /\ f.facts \subseteq Facts

\* Every original that can still be read.
Held == (canon.facts \ canon.lost) \union UNION {f.facts : f \in {g \in kept : g.ok}}

\* Nothing a start does, wherever it is interrupted, costs an original: what it removes is in the
\* archive, or in another copy (async_prepare_account, _discard, merge, recover).
NothingIsLost == [][StartSteps \/ Crash => Held \subseteq Held']_fileVars

\* An archive is replaced or converted only beside a copy of what it was, and a running repair
\* keeps its rollback point (_migrate, recover, _sources).
OriginalsSurvive ==
    [][/\ canon.old /\ canon.is = "db" /\ ~canon'.old /\ canon'.is = "db" =>
             File("schema", canon.facts) \in kept'
       /\ Publish => File("recovery", canon.facts \ canon.lost) \in kept'
       /\ search /\ Discard => {f \in kept : f.kind = "recovery"} \subseteq kept']_fileVars

\* A start that reports no leftovers has left none: all that lies beside the archive is the image
\* of a repair (async_prepare_account, the repair archive_cleanup).
AdoptionIsWhole ==
    At("opening") /\ ~start.adopt /\ ~start.failed /\ outside = 0 =>
        \A f \in kept : f.facts \subseteq canon.facts \/ Protected(f)

\* The next start opens what this one was interrupted in; only what came from outside, or an old
\* archive there is no room to convert, is refused (README.md, docs/architecture.md).
CrashIsHarmless == At("refused") => outside > 0 \/ canon.old

\* No step costs an original, or the copy that would restore it.
StartsKeepOriginals == NothingIsLost /\ OriginalsSurvive
=============================================================================
