---------------------------- MODULE HistoryAudit ----------------------------
(***************************************************************************)
(* The resumable check of stored payloads and what it certifies            *)
(* (archive_audit.py, object_checks.py, page_reference_audit.py,           *)
(* payload_inventory.py, background_audit.py).                             *)
(*                                                                         *)
(* A scan captures the highest row of each table and walks up to it, a     *)
(* batch per turn, while payloads are stored, dropped and repaired.  Each  *)
(* check leaves a receipt for the object, not for its row.  Between scans  *)
(* only objects without a receipt are checked, and a marker says when      *)
(* there are none.  One transaction per action: the archive has one        *)
(* actor.                                                                  *)
(***************************************************************************)
EXTENDS Integers, FiniteSets

CONSTANTS Objects,          \* payloads the cloud may send, by identity and digest
          Vehicle, Kind,    \* of an object: its vehicle; "detail" or "page"
          Conflicting,      \* pages whose index disagrees with their bytes
          Held,             \* what an earlier version left in the archive, without receipts
          BackgroundBatch, OwnerBatch,
          MaxWrites, MaxDecays   \* bounds on managed writes and on decayed bytes

ASSUME HistoryAuditAssumption ==
    /\ Objects \subseteq Nat /\ Held \subseteq Objects /\ IsFiniteSet(Held)
    /\ \A o \in Objects : Kind[o] \in {"detail", "page"}
    /\ {BackgroundBatch, OwnerBatch} \subseteq Nat \ {0} /\ {MaxWrites, MaxDecays} \subseteq Nat

VARIABLES
    rows,       \* of a kind: objects by row
    decayed,    \* objects whose bytes do not match their digest
    receipt,    \* payload_checks
    evidence,   \* payload_quarantine
    scan,       \* of a vehicle: history_audit
    links,      \* of a vehicle: page_reference_audit
    marker,     \* of a vehicle: history_delta_seen
    fence,      \* revision and history_payload_revision of the account, and of each vehicle
    auditTurn,  \* history_audit_vehicle
    due,        \* vehicles whose finished scan is a day old
    decays

auditVars == <<rows, decayed, receipt, evidence, scan, links, marker, fence, auditTurn, due, decays>>

Vehicles == {Vehicle[o] : o \in Objects}
Kinds == {"detail", "page"}
NoScan == [phase |-> "none", upper |-> [k \in Kinds |-> 0], total |-> 0, cut |-> <<0, 0>>, after |-> 0,
           checked |-> 0, invalid |-> 0, changed |-> FALSE]
NoLinks == [total |-> 0, checked |-> 0, conflicts |-> 0, unclear |-> 0, after |-> 0, cut |-> <<0, 0>>]
Never == -1
HeldOf(k) == {o \in Held : Kind[o] = k}
Ranked(S, n) == CHOOSE o \in S : Cardinality({x \in S : x <= o}) = n

AuditInit ==
    /\ rows = [k \in Kinds |-> [n \in 1 .. Cardinality(HeldOf(k)) |-> Ranked(HeldOf(k), n)]] /\ decayed = {}
    /\ receipt = [o \in Objects |-> "none"] /\ evidence = {}
    /\ scan = [v \in Vehicles |-> NoScan] /\ links = [v \in Vehicles |-> NoLinks]
    /\ marker = [v \in Vehicles |-> Never]
    /\ fence = [revision |-> 0, inventory |-> 0, of |-> [v \in Vehicles |-> 0]]
    /\ auditTurn = 0 /\ due = {} /\ decays = 0

----------------------------------------------------------------------------
\* What is stored.

Top(S) == IF S = {} THEN 0 ELSE CHOOSE n \in S : \A m \in S : m <= n
Present(v) == {o \in Objects : Vehicle[o] = v /\ \E n \in DOMAIN rows[Kind[o]] : rows[Kind[o]][n] = o}
RowsOf(v, k) == {n \in DOMAIN rows[k] : Vehicle[rows[k][n]] = v}
Pending(v) == {o \in Present(v) : receipt[o] = "none"}
Cut == <<fence.revision, fence.inventory>>

\* advance: both counters, in the transaction of the write.
Advance(v) == fence' = [fence EXCEPT !.inventory = @ + 1, !.of[v] = @ + 1]

MayWrite == fence.inventory + fence.revision < MaxWrites

\* A page is committed, or a detail; of the details of a ride only the latest and the best track
\* are retained, and receipts of what is dropped go with it.
Store(v) ==
    /\ MayWrite
    /\ \E o \in Objects : \E dropped \in {S \in SUBSET Present(v) : Cardinality(S) <= 1} :
          /\ Vehicle[o] = v /\ o \notin Present(v)
          /\ \A d \in dropped : Kind[d] = "detail" /\ Kind[o] = "detail"
          /\ LET k == Kind[o]
                 left == {n \in DOMAIN rows[k] : rows[k][n] \notin dropped}
                 at == Top(DOMAIN rows[k]) + 1
             IN  rows' = [rows EXCEPT ![k] = [n \in left \union {at} |-> IF n = at THEN o ELSE @[n]]]
          /\ decayed' = decayed \ (dropped \union {o})
          /\ receipt' = [x \in Objects |-> IF x \in dropped THEN "none" ELSE receipt[x]]
    /\ Advance(v)
    /\ UNCHANGED <<evidence, scan, links, marker, auditTurn, due, decays>>

\* A merge: whatever it brings, every receipt of the vehicle goes.
MergeIn(v) ==
    /\ MayWrite
    /\ receipt' = [o \in Objects |-> IF Vehicle[o] = v THEN "none" ELSE receipt[o]]
    /\ Advance(v) /\ UNCHANGED <<rows, decayed, evidence, scan, links, marker, auditTurn, due, decays>>

\* A decayed detail is restored from a copy; its bytes are kept as evidence, and it is checked.
RestoreBytes(v) ==
    /\ MayWrite
    /\ \E o \in Present(v) \cap decayed :
          /\ Kind[o] = "detail" /\ evidence' = evidence \union {o}
          /\ decayed' = decayed \ {o} /\ receipt' = [receipt EXCEPT ![o] = "verified"]
    /\ Advance(v) /\ UNCHANGED <<rows, scan, links, marker, auditTurn, due, decays>>

\* A write to the rest of the archive.
OtherWrite ==
    /\ MayWrite /\ fence' = [fence EXCEPT !.revision = @ + 1]
    /\ UNCHANGED <<rows, decayed, receipt, evidence, scan, links, marker, auditTurn, due, decays>>

\* Bytes decay on the medium; nothing is written.
Decay ==
    /\ decays < MaxDecays /\ decays' = decays + 1
    /\ \E v \in Vehicles : \E o \in Present(v) \ decayed : decayed' = decayed \union {o}
    /\ UNCHANGED <<rows, receipt, evidence, scan, links, marker, fence, auditTurn, due>>

\* A day passes after the end of a scan.
DayPasses(v) ==
    /\ scan[v].phase = "complete" /\ v \notin due /\ due' = due \union {v}
    /\ UNCHANGED <<rows, decayed, receipt, evidence, scan, links, marker, fence, auditTurn, decays>>

----------------------------------------------------------------------------
\* The scan.

\* start: the highest rows, how many there are, and the counters, at once.
Captured(v) ==
    [NoScan EXCEPT !.phase = "detail", !.cut = Cut, !.upper = [k \in Kinds |-> Top(RowsOf(v, k))],
                   !.total = Cardinality(RowsOf(v, "detail")) + Cardinality(RowsOf(v, "page"))]

StartedLinks(v, s) == [NoLinks EXCEPT !.cut = s.cut, !.total = Cardinality(RowsOf(v, "page"))]

\* Mutant: a scan that is asked for again begins again.
RestartAlways(v) == TRUE

\* A scan under way is never begun again.
Restartable(v) == scan[v].phase \in {"none", "complete"}

\* Rows the scan has before it, details first.
Remaining(v, s) ==
    LET from(k) == IF s.phase = k THEN s.after ELSE 0
        kinds == CASE s.phase = "detail" -> Kinds [] s.phase = "page" -> {"page"} [] OTHER -> {}
    IN  {x \in Kinds \X (1 .. Top(DOMAIN rows["detail"] \union DOMAIN rows["page"])) :
            /\ x[1] \in kinds /\ x[2] \in RowsOf(v, x[1])
            /\ from(x[1]) < x[2] /\ x[2] <= s.upper[x[1]]}
Precedes(x, y) == IF x[1] = y[1] THEN x[2] < y[2] ELSE x[1] = "detail"
FirstRows(S, n) == {x \in S : Cardinality({y \in S : Precedes(y, x)}) < n}
LastRow(S) == CHOOSE x \in S : \A y \in S : y = x \/ Precedes(y, x)
ObjectsOf(S) == {rows[x[1]][x[2]] : x \in S}

\* verify: the receipt of each object, and evidence of what does not match.
Verified(S) ==
    /\ receipt' = [o \in Objects |-> IF o \notin S THEN receipt[o]
                                     ELSE IF o \in decayed THEN "invalid" ELSE "verified"]
    /\ evidence' = evidence \union (S \cap decayed)

\* Writes since the capture, the scan's own included in none.
ChangedNow(s) == s.changed \/ s.cut # Cut

\* A scan that ends without the rows it captured does not certify them.
Settled(s) == [s EXCEPT !.changed = @ \/ s.checked > s.total \/ (s.phase = "complete" /\ s.checked # s.total)]

\* A batch: the rows it takes, and where the scan is then.
Walked(s, todo, taken, limit) ==
    LET last == LastRow(taken)
        place == IF taken = {} \/ (taken = todo /\ Cardinality(taken) < limit) THEN <<"complete", 0>>
                 ELSE IF last[2] # s.upper[last[1]] THEN last
                 ELSE IF last[1] = "detail" THEN <<"page", 0>> ELSE <<"complete", 0>>
    IN  Settled([s EXCEPT !.phase = place[1], !.after = place[2], !.checked = @ + Cardinality(taken),
                          !.invalid = @ + Cardinality(ObjectsOf(taken) \cap decayed),
                          !.changed = ChangedNow(s)])

\* observe: the pages of the batch, and what their index says.
Observed(l, taken) ==
    LET pages == {x \in taken : x[1] = "page"}
        sound == ObjectsOf(pages) \ decayed
    IN  [l EXCEPT !.checked = @ + Cardinality(pages), !.conflicts = @ + Cardinality(sound \cap Conflicting),
                  !.unclear = @ + Cardinality(ObjectsOf(pages) \cap decayed),
                  !.after = IF pages = {} THEN @ ELSE LastRow(pages)[2]]

\* step: a batch of the scan s; it may end early when it has taken long, never without a row.
Step(v, s, l, limit) ==
    LET todo == Remaining(v, s) IN
    \E n \in 1 .. limit :
       LET taken == FirstRows(todo, n) IN
       /\ scan' = [scan EXCEPT ![v] = Walked(s, todo, taken, IF taken = todo THEN limit ELSE n)]
       /\ links' = [links EXCEPT ![v] = IF l.cut = s.cut THEN Observed(l, taken) ELSE l]
       /\ Verified(ObjectsOf(taken))

\* Mutant: a full batch counts as the last one.
MarkedBlind(v, S) == S # {}

\* Nothing of the vehicle is without a receipt, once the batch is done.
NothingPends(v, S) == Pending(v) \subseteq S

\* delta_step: some objects without a receipt.
Delta(v) ==
    \E S \in SUBSET Pending(v) :
       /\ Cardinality(S) <= BackgroundBatch /\ (S = {} => Pending(v) = {})
       /\ Verified(S)
       /\ marker' = IF NothingPends(v, S) THEN [marker EXCEPT ![v] = fence.of[v]] ELSE marker
       /\ UNCHANGED <<scan, links, due>>

\* async_background_history_audit has something to do for the vehicle.
Wants(v) == ~(scan[v].phase = "complete" /\ v \notin due /\ marker[v] = fence.of[v])

AuditVehicle(v) ==
    /\ IF scan[v].phase = "complete" /\ v \notin due THEN Delta(v)
       ELSE LET s == IF Restartable(v) THEN Captured(v) ELSE scan[v]
                l == IF Restartable(v) THEN StartedLinks(v, s) ELSE links[v]
            IN  Step(v, s, l, BackgroundBatch) /\ due' = due \ {v} /\ UNCHANGED marker
    /\ auditTurn' = v

\* async_audit_order: after the vehicle of the last turn.
OrderOf(v) == IF v > auditTurn THEN v - 100 ELSE v

\* A turn serves the first vehicle that has something to do.
AuditTick ==
    /\ \E v \in Vehicles :
          /\ Wants(v) /\ \A u \in Vehicles : Wants(u) => OrderOf(v) <= OrderOf(u)
          /\ AuditVehicle(v)
    /\ UNCHANGED <<rows, decayed, fence, decays>>

\* The owner's "verify" and "verify_step".
OwnerVerify(v) ==
    /\ Restartable(v)
    /\ LET s == Captured(v) IN Step(v, s, StartedLinks(v, s), OwnerBatch)
    /\ due' = due \ {v} /\ UNCHANGED <<rows, decayed, marker, fence, auditTurn, decays>>
OwnerStep(v) ==
    /\ scan[v].phase \in Kinds /\ Step(v, scan[v], links[v], OwnerBatch)
    /\ UNCHANGED <<rows, decayed, marker, fence, auditTurn, due, decays>>

AuditNext ==
    \/ AuditTick \/ OtherWrite \/ Decay
    \/ \E v \in Vehicles :
          \/ Store(v) \/ MergeIn(v) \/ RestoreBytes(v) \/ DayPasses(v)
          \/ OwnerVerify(v) \/ OwnerStep(v)

----------------------------------------------------------------------------
AuditTypeOK ==
    /\ \A k \in Kinds : \A n \in DOMAIN rows[k] : Kind[rows[k][n]] = k
    /\ \A v \in Vehicles :
          /\ scan[v].phase \in Kinds \union {"none", "complete"}
          /\ scan[v].invalid <= scan[v].checked
          /\ links[v].conflicts + links[v].unclear <= links[v].checked
          \* restored() accepts it
          /\ scan[v].phase \in Kinds => scan[v].after <= scan[v].upper[scan[v].phase]
          /\ scan[v].checked > scan[v].total => scan[v].changed
          /\ scan[v].phase = "complete" /\ scan[v].checked # scan[v].total => scan[v].changed

\* What verify_status tells the owner.
Certified(v) ==
    LET s == scan[v] IN s.phase = "complete" /\ s.total > 0 /\ s.invalid = 0 /\ ~s.changed /\ s.cut = Cut
LinksCertified(v) ==
    LET l == links[v] IN
    /\ scan[v].phase = "complete" /\ l.checked = l.total /\ l.total > 0 /\ l.after = scan[v].upper["page"]
    /\ l.cut = Cut /\ ~scan[v].changed /\ l.conflicts = 0 /\ l.unclear = 0

\* What the owner is told to be verified is: each payload of the vehicle that is in the archive now
\* was checked and matched, each page agrees with its index, and the marker of the turns means that
\* no object is without a receipt, whatever was stored, dropped, merged and repaired while the scan
\* was resting between its batches (AuditPlan.payloads_verified, PageReferenceSummary,
\* history_delta_seen).
CertificatesAreTrue ==
    \A v \in Vehicles :
       /\ Certified(v) => Present(v) # {} /\ \A o \in Present(v) : receipt[o] = "verified"
       /\ LinksCertified(v) => \A o \in Present(v) : Kind[o] = "page" => o \notin Conflicting
       /\ marker[v] = fence.of[v] => Pending(v) = {}

\* A scan ends over the rows it captured: writes and requests, however many, neither begin it again
\* nor move its bounds (start, "never reset an active scan").
ActiveScanStands ==
    [][\A v \in Vehicles : scan[v].phase \in Kinds =>
          /\ scan'[v].upper = scan[v].upper /\ scan'[v].checked >= scan[v].checked
          /\ scan[v].phase = "page" => scan'[v].phase # "detail"]_auditVars
=============================================================================
