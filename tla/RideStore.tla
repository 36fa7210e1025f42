----------------------------- MODULE RideStore -----------------------------
(***************************************************************************)
(* What the archive holds of a vehicle, and how it changes: receipts of    *)
(* months and of details, in whatever order they arrive, the import of the *)
(* ledger of the first version, links restored from page evidence, and the *)
(* merge of another archive of the account.                                *)
(*                                                                         *)
(* Two archives are modelled, each of a system of its own; their exports   *)
(* are merged into the other.  An observation is named by its time, which  *)
(* also stands for its content: the value a ride has in it, and the digest *)
(* of its original.  A reader walks the current selection page by page.    *)
(***************************************************************************)
EXTENDS Integers, FiniteSets, FiniteSetsExt

CONSTANTS Stores,   \* archives of the account
          Trips,    \* ride identities of the vehicle, in the order of their starts
          Periods,  \* months
          Ledger,   \* what the ledger has: the rides its month 1 lists, and those it knows
          Times,    \* times of receipts from 2 on, for each archive; 1 is the ledger's
          Lists,    \* lists of a month that are tried
          WalkFrom, \* bound: a reader starts when at most so many receipts are to come
          Quality   \* quality of the track of a time's original: 0 none, 1 simplified, 2 full

ASSUME RideStoreAssumption ==
    /\ Trips \subseteq Nat \ {0} /\ IsFiniteSet(Trips)
    /\ \A s, o \in Stores : Times[s] \subseteq Nat \ {0, 1} /\ (s # o => Times[s] \cap Times[o] = {})
    /\ \A t \in {1} \union UNION {Times[s] : s \in Stores} : Quality[t] \in 0..2
    /\ Lists \subseteq SUBSET Trips /\ Ledger.ids \union Ledger.known \subseteq Trips
    /\ 1 \in Stores /\ 1 \in Periods

VARIABLES
    store,    \* the tables of each archive
    unused,   \* times no receipt has used
    walk      \* a reader of store 1

storeVars == <<store, unused, walk>>

NoMonth == [at |-> 0, ids |-> {}, complete |-> FALSE, src |-> 0]
NoTrip == [at |-> 0, value |-> 0]
NoDetail == [latest |-> 0, geometry |-> 0, at |-> 0]
Empty == [months |-> [m \in Periods |-> NoMonth],
          rides |-> [r \in Trips |-> NoTrip],
          member |-> {},                            \* membership: pairs of a month and a ride
          latest |-> {},                            \* those with latest = 1
          details |-> [r \in Trips |-> NoDetail],
          payloads |-> {},                          \* detail_payloads: pairs of a ride and a digest
          evidence |-> {},                          \* archive_evidence: originals of no live role
          imported |-> FALSE]                       \* legacy_import_sha
NoWalk == [on |-> FALSE, order |-> "asc", seen |-> {}, after |-> 0, valid |-> TRUE, done |-> FALSE]

StoreInit ==
    /\ store = [s \in Stores |-> Empty] /\ unused = UNION {Times[s] : s \in Stores}
    /\ walk = NoWalk

----------------------------------------------------------------------------
\* What the tables mean.

\* current_selection
Selection(a) ==
    {r \in Trips : a.rides[r].at # 0 /\ \E m \in Periods :
        \/ <<m, r>> \in a.latest
        \/ <<m, r>> \in a.member /\ a.months[m].at # 0 /\ ~a.months[m].complete}

\* Every original in the archive.
Originals(a) ==
    {<<"detail", p[1], p[2]>> : p \in a.payloads} \union a.evidence
    \union {<<"month", m, a.months[m].src>> : m \in {n \in Periods : a.months[n].src # 0}}

\* The catalog a reader of a date range sees; the triggers watch it.
Catalog(a) ==
    <<a.rides, [m \in Periods |-> [a.months[m] EXCEPT !.at = 0, !.src = 0]], a.member, a.latest,
      {r \in Trips : a.details[r].latest # 0}>>

\* A cursor stays good.  A reader that goes forward is fenced by the revision of the archive, one
\* that goes back by the version of the catalog.
StaysGood(order, a, after, bump) == IF order = "asc" THEN ~bump ELSE Catalog(after) = Catalog(a)

\* One transaction of store s.
Commit(s, after, bump) ==
    /\ store' = [store EXCEPT ![s] = after]
    /\ walk' = [walk EXCEPT !.valid = @ /\ (s # 1 \/ StaysGood(walk.order, store[1], after, bump))]

----------------------------------------------------------------------------
\* Receipts.

\* The lesser of two receipts lacks a fact that is optional.
Fact(t) == IF Quality[t] = 1 THEN 0 ELSE t

\* merged_ride: a fact the receipt does not carry stays.
Merged(before, value) == IF value # 0 THEN value ELSE before

\* Mutant: a receipt that was overtaken by a later one overwrites it.
NeverOutdated(at, t) == FALSE

\* A later receipt was stored before.
Outdated(at, t) == at > t

\* _upsert_ride
Upserted(row, t, value) ==
    IF Outdated(row.at, t) THEN row ELSE [at |-> t, value |-> Merged(row.value, value)]

\* Mutant: the rides that left the month stay in its latest list.
ListKept(a, m, ids) == a.latest \union ({m} \X ids)

\* membership.latest after the list of month m was replaced.
Relisted(a, m, ids) == {x \in a.latest : x[1] # m} \union ({m} \X ids)

\* What moves the revision of the account: a row of the month or of a ride that differs.
MonthChanges(a, after) == Catalog(a) # Catalog(after)

\* _record_month; a list that came with its source is bound to it, the poorest proves nothing.
RecordMonth(s, m, t, ids) ==
    LET a == store[s]
        after == [a EXCEPT
            !.months[m] = [at |-> t, ids |-> ids, complete |-> Quality[t] > 0,
                           src |-> IF Quality[t] > 0 THEN t ELSE @.src],
            !.rides = [r \in Trips |-> IF r \in ids THEN Upserted(a.rides[r], t, Fact(t)) ELSE a.rides[r]],
            !.member = @ \union ({m} \X ids),
            !.latest = Relisted(a, m, ids)]
    IN /\ t \in unused /\ unused' = unused \ {t}
       /\ IF Outdated(a.months[m].at, t) THEN UNCHANGED <<store, walk>>
          ELSE Commit(s, after, MonthChanges(a, after))

\* select_geometry, for tracks that differ in their quality only.
Adopt(old, new) == old = 0 \/ (Quality[new] # 0 /\ Quality[new] >= Quality[old])

\* _save_private_detail: the latest original and the selected track, no others.
WithDetail(a, r, t) ==
    LET old == a.details[r]
        geometry == IF Adopt(old.geometry, t) THEN t ELSE old.geometry
    IN IF Outdated(old.at, t) THEN a
       ELSE [a EXCEPT !.details[r] = [latest |-> t, geometry |-> geometry, at |-> t],
                      !.payloads = {p \in @ : p[1] # r \/ p[2] = geometry} \union {<<r, t>>}]

\* _record_detail, of a ride a month lists; its track is better or worse.
RecordDetail(s, r, t) ==
    LET a == store[s]
        after == WithDetail([a EXCEPT !.rides[r] = Upserted(@, t, Fact(t))], r, t)
    IN /\ t \in unused /\ unused' = unused \ {t}
       /\ \E m \in Periods : <<m, r>> \in a.member
       /\ IF Outdated(a.rides[r].at, t) THEN UNCHANGED <<store, walk>>
          ELSE Commit(s, after, Catalog(a) # Catalog(after) \/ a.details # after.details)

\* _apply_reconstruction with a link that page evidence proves; it takes the month's list as it is.
RestoreLink(s, m, r) ==
    LET a == store[s]
        after == [a EXCEPT !.member = @ \union {<<m, r>>},
                           !.latest = IF r \in a.months[m].ids THEN @ \union {<<m, r>>} ELSE @]
    IN /\ a.months[m].at # 0 /\ a.details[r].latest # 0 /\ <<m, r>> \notin a.member
       /\ Commit(s, after, TRUE) /\ UNCHANGED unused

\* _import_legacy, once: the ledger has no original and is no proof that a list is complete.
ImportLegacy(s) ==
    LET a == store[s]
        rides == [r \in Trips |-> IF r \in Ledger.known THEN Upserted(a.rides[r], 1, 1) ELSE a.rides[r]]
        listed == {1} \X {r \in Ledger.ids : rides[r].at # 0}
        imported == [a EXCEPT !.imported = TRUE, !.rides = rides]
        after == IF a.months[1].at >= 1 THEN imported
                 ELSE [imported EXCEPT
                    !.months[1] = [at |-> 1, ids |-> Ledger.ids, complete |-> FALSE, src |-> 0],
                    !.member = @ \union listed, !.latest = @ \union (listed \ a.member)]
    IN /\ ~a.imported /\ Commit(s, after, TRUE) /\ UNCHANGED unused

----------------------------------------------------------------------------
\* The merge of another archive: merge, _merge_rows, absorb and prune_duplicates, in one
\* transaction.

\* A ride both have: the older row yields the facts the newer lacks.
MergedTrip(old, new) ==
    IF old.at >= new.at THEN [at |-> old.at, value |-> Merged(new.value, old.value)]
    ELSE [at |-> new.at, value |-> Merged(old.value, new.value)]

MergedDetail(old, new) ==
    IF new.latest = 0 THEN old
    ELSE IF old.latest = 0 THEN new
    ELSE [latest |-> IF old.at >= new.at THEN old.latest ELSE new.latest,
          geometry |-> IF Adopt(old.geometry, new.geometry) THEN new.geometry ELSE old.geometry,
          at |-> IF old.at >= new.at THEN old.at ELSE new.at]

\* absorb and the evidence of the rows that were replaced: every original of both.
Absorbed(a, b) == Originals(a) \union Originals(b)

\* The marks of a month: those of the newer list.
MarksOf(a, b, m) ==
    IF b.months[m].at > a.months[m].at THEN {m} \X b.months[m].ids
    ELSE {x \in a.latest : x[1] = m}

MergeInto(a, b) ==
    LET details == [r \in Trips |-> MergedDetail(a.details[r], b.details[r])]
        newer(m) == b.months[m].at > a.months[m].at
        months == [m \in Periods |-> IF newer(m) THEN b.months[m] ELSE a.months[m]]
        payloads == {p \in a.payloads \union b.payloads :
                        p[2] \in {details[p[1]].latest, details[p[1]].geometry}}
        live == [a EXCEPT !.months = months, !.details = details, !.payloads = payloads,
            !.rides = [r \in Trips |-> IF b.rides[r].at = 0 THEN a.rides[r]
                                       ELSE MergedTrip(a.rides[r], b.rides[r])],
            !.member = a.member \union b.member
                       \union UNION {{m} \X months[m].ids : m \in {n \in Periods : newer(n)}},
            !.latest = UNION {MarksOf(a, b, m) : m \in Periods}]
    IN [live EXCEPT !.evidence = Absorbed(a, b) \ Originals([live EXCEPT !.evidence = {}])]

\* validate: what is merged refers to nothing it does not have.
Consistent(a) ==
    /\ \A x \in a.member : a.rides[x[2]].at # 0
    /\ a.latest \subseteq a.member
    /\ \A r \in Trips : a.details[r].latest # 0 =>
          {<<r, a.details[r].latest>>, <<r, a.details[r].geometry>>} \subseteq a.payloads

\* A month that lists rides the ledger lacks cannot be replayed into another archive: the
\* foreign key of membership fails, and the whole import with it.
Replayable(a, b) ==
    \A m \in Periods : b.months[m].at > a.months[m].at =>
        \A r \in b.months[m].ids : a.rides[r].at # 0 \/ b.rides[r].at # 0

MergeArchive(s, o) ==
    /\ s # o /\ Consistent(store[o]) /\ Replayable(store[s], store[o])
    /\ Commit(s, MergeInto(store[s], store[o]), TRUE)
    /\ UNCHANGED unused

----------------------------------------------------------------------------
\* A reader of store 1: pages of one ride.

Rest(seen, after, order) ==
    {r \in Selection(store[1]) : after = 0 \/ IF order = "asc" THEN r > after ELSE r < after}
FirstRow(rows, order) == IF order = "asc" THEN Min(rows) ELSE Max(rows)

StartWalk(order) ==
    /\ ~walk.on /\ Cardinality(unused) <= WalkFrom
    /\ walk' = [NoWalk EXCEPT !.on = TRUE, !.order = order]
    /\ UNCHANGED <<store, unused>>

\* recorded_page: a cursor of another revision is refused, and the reader starts again.
ReadPage ==
    LET rows == Rest(walk.seen, walk.after, walk.order) IN
    /\ walk.on /\ ~walk.done
    /\ walk' = IF walk.after # 0 /\ ~walk.valid THEN NoWalk
               ELSE IF rows = {} THEN [walk EXCEPT !.done = TRUE, !.valid = TRUE]
               ELSE LET r == FirstRow(rows, walk.order) IN
                    [walk EXCEPT !.seen = @ \union {r}, !.after = r, !.valid = TRUE,
                                 !.done = rows = {r}]
    /\ UNCHANGED <<store, unused>>

----------------------------------------------------------------------------
Receipts ==
    \E s \in Stores : \E t \in Times[s] :
       \/ \E m \in Periods, ids \in Lists : RecordMonth(s, m, t, ids)
       \/ \E r \in Trips : RecordDetail(s, r, t)
Repairs ==
    \E s \in Stores :
       \/ \E m \in Periods, r \in Trips : RestoreLink(s, m, r)
       \/ ImportLegacy(s)
Merges == \E s, o \in Stores : MergeArchive(s, o)
Reader == ReadPage \/ \E order \in {"asc", "desc"} : StartWalk(order)
StoreNext == Receipts \/ Repairs \/ Merges \/ Reader

StoreSafe == StoreInit /\ [][StoreNext]_storeVars

----------------------------------------------------------------------------
StoreTypeOK ==
    /\ unused \subseteq UNION {Times[s] : s \in Stores}
    /\ \A s \in Stores : DOMAIN store[s] = DOMAIN Empty /\ Consistent(store[s])

\* The marks in membership are the newest list of the month, all of it where the list is complete,
\* in whatever order lists, imports, repairs and merges came; only then may a ride that is not
\* marked be left out of the selection (_record_month, _merge_rows, _import_legacy,
\* _apply_reconstruction).
MarksAreTheList ==
    \A s \in Stores, m \in Periods :
        LET a == store[s] marked == {r \in Trips : <<m, r>> \in a.latest} IN
        marked \subseteq a.months[m].ids /\ (a.months[m].complete => marked = a.months[m].ids)

\* An import drops no original of either archive (_merge_rows, absorb, prune_duplicates).
ImportKeepsOriginals ==
    [][\A s, o \in Stores : MergeArchive(s, o) =>
          Originals(store[s]) \union Originals(store[o]) \subseteq Originals(store'[s])]_storeVars

\* A receipt that was overtaken, by another or by an import, never comes back; nor is a better
\* track exchanged for a worse one, or a known fact for none.
NothingRegresses ==
    [][\A s \in Stores, r \in Trips :
          LET a == store[s] b == store'[s] IN
          /\ a.rides[r].at <= b.rides[r].at /\ (a.rides[r].value # 0 => b.rides[r].value # 0)
          /\ a.details[r].at <= b.details[r].at
          /\ a.details[r].geometry # 0 => Quality[a.details[r].geometry] <= Quality[b.details[r].geometry]
          /\ \A m \in Periods : a.months[m].at <= b.months[m].at]_storeVars

\* The pages a reader was given, up to the last, are the selection as it is then: a change
\* between two of them is not passed over (archive_browse.recorded_page, archive_versions).
WalkIsOneSelection == walk'.done /\ ~walk.done => walk'.seen = Selection(store[1])

\* What is selected is one list at one time, in the marks and over the pages of a reader.
SelectionIsOne == [][MarksAreTheList' /\ WalkIsOneSelection]_storeVars

\* No write costs an original, or the newer of two receipts.
WritesKeepTheBest == ImportKeepsOriginals /\ NothingRegresses
=============================================================================
