------------------------------ MODULE MCRecords ------------------------------
(***************************************************************************)
(* The session directory of an entry, the commands of a vehicle, the check *)
(* of stored payloads and the IDs of the entities, checked in one run: in  *)
(* every behaviour one of them moves and the others rest.                  *)
(***************************************************************************)
EXTENDS SessionStore, LockControl, HistoryAudit, EntityIdentity, TLC

VARIABLE mover

Alike == Permutations(Calls)

\* Vehicle 1 has two details and a page, vehicle 2 a page.
MCVehicle == <<1, 1, 1, 2>>
MCKind == <<"detail", "detail", "page", "page">>
\* Row 2 is to have the name of row 1.
MCOriginal == <<"a", "c">>
MCCanonical == <<"b", "a">>

\* A part that rests is in one of its initial states.
Init ==
    /\ mover \in {"session", "control", "audit", "identity"}
    /\ SessionInit /\ ControlInit /\ AuditInit /\ IdentityInit
    /\ mover # "session" => entry = "none"

\* One part moves by an action of its own.
Moves(ofSession, ofControl, ofAudit, ofIdentity) ==
    \/ mover = "session" /\ ofSession /\ UNCHANGED <<mover, controlVars, auditVars, idVars>>
    \/ mover = "control" /\ ofControl /\ UNCHANGED <<mover, sessionVars, auditVars, idVars>>
    \/ mover = "audit" /\ ofAudit /\ UNCHANGED <<mover, sessionVars, controlVars, idVars>>
    \/ mover = "identity" /\ ofIdentity /\ UNCHANGED <<mover, sessionVars, controlVars, auditVars>>

Next == Moves(SessionNext, ControlNext, AuditNext, IdentityNext)

vars == <<mover, sessionVars, controlVars, auditVars, idVars>>

Spec == Init /\ [][Next]_vars

\* The types of the part that moves; the others keep their initial state.
TypeOK ==
    CASE mover = "session" -> SessionTypeOK
      [] mover = "control" -> ControlTypeOK
      [] mover = "audit" -> AuditTypeOK
      [] mover = "identity" -> IdentityTypeOK
=============================================================================
