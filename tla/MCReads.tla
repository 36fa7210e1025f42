------------------------------ MODULE MCReads ------------------------------
(***************************************************************************)
(* The shared reads of a vehicle and the dispatcher of the periodic ones,  *)
(* checked in one run: in every behaviour one of them moves and the other  *)
(* rests.                                                                  *)
(***************************************************************************)
EXTENDS SharedReads, Polling

VARIABLE mover

MCGroups == <<{"status", "battery"}>>

Init == mover \in {"shared", "polling"} /\ ReadsInit /\ PollingInit

\* One part moves by an action of its own.
Moves(ofShared, ofPolling) ==
    \/ mover = "shared" /\ ofShared /\ UNCHANGED <<mover, pollVars>>
    \/ mover = "polling" /\ ofPolling /\ UNCHANGED <<mover, readsVars>>

Next == Moves(ReadsNext, PollingNext)

vars == <<mover, readsVars, pollVars>>

\* The event loop runs every task and a request ends within its deadline; timers fire, the budget
\* fills up, and cooldowns and commands end. Conditions of the two parts share a conjunct where
\* that is the same: one of the parts rests.
Fairness ==
    /\ \A g \in 0..MaxGeneration, b \in 0..MaxBarrier :
          LET k == [gen |-> g, bar |-> b] IN
          /\ WF_vars(Moves(RefreshStep(k), g = 0 /\ b = 0 /\ PollingSteps))
          /\ WF_vars(Moves(GroupStep(k), g = 0 /\ b = 0 /\ Refill))
    /\ WF_vars(Moves(FALSE, Warms))
    /\ \A k \in Wanted : WF_vars(Moves(FALSE, ReadSteps(k)))
    /\ \A c \in Cars : WF_vars(Moves(FALSE, ControlEnds(c)))

Spec == Init /\ [][Next]_vars /\ Fairness
\* RefreshesReturn and DueIsRead: every refresh returns, and every read that is due and may be
\* done is done.
ReadsEnd == \A k \in Wanted : []<>(NobodyWaits /\ Served(k))
=============================================================================
