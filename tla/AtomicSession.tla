--------------------------- MODULE AtomicSession ---------------------------
(***************************************************************************)
(* What a session key promises: one complete login session, or none, that  *)
(* changes in one step, to the session a transaction in progress offers.   *)
(***************************************************************************)
CONSTANTS Versions, Nothing
VARIABLES
    session,    \* the login session of the key
    offered     \* the session a transaction in progress may put in its place

Init == session \in Versions \cup {Nothing} /\ offered = Nothing

Offer(v) == offered = Nothing /\ offered' = v /\ UNCHANGED session
Accept   == offered # Nothing /\ session' = offered /\ UNCHANGED offered
Withdraw == offered' = Nothing /\ UNCHANGED session
Forget   == offered = Nothing /\ session' = Nothing /\ UNCHANGED offered

Next == (\E v \in Versions : Offer(v)) \/ Accept \/ Withdraw \/ Forget

Spec == Init /\ [][Next]_<<session, offered>>
=============================================================================
