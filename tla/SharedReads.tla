---------------------------- MODULE SharedReads ----------------------------
(***************************************************************************)
(* The status reads of one vehicle that several consumers share            *)
(* (coordinator.py): _shared keeps one task per key in a dictionary, the   *)
(* regular polls wait for the task of _group, a manual refresh or the      *)
(* readback of a command waits for a task of its own kind, which in turn   *)
(* waits for the task of _group.  The barrier in the key separates the     *)
(* reads before and after a command.                                       *)
(*                                                                         *)
(* A step is what a task does between two awaits.  A cancelled task stays  *)
(* in the dictionary until it has ended, which takes as long as the        *)
(* request on the wire needs to be given up.                               *)
(***************************************************************************)
EXTENDS Integers, FiniteSets

CONSTANTS
    Callers,    \* calls of async_refresh_vehicle
    Polls,      \* regular readers of the status
    None,
    MaxBarrier, MaxGeneration       \* bounds of the runs

ASSUME SharedAssumption ==
    /\ Callers \cap Polls = {} /\ IsFiniteSet(Polls)
    /\ {MaxBarrier, MaxGeneration} \subseteq Nat

Keys == [gen : 0..MaxGeneration, bar : 0..MaxBarrier]

ASSUME NoneAssumption == None \notin Keys /\ None \notin 0..MaxBarrier /\ Polls \cap Keys = {}

VARIABLES
    call,       \* what each caller of async_refresh_vehicle does
    poll,       \* the task each regular poll waits for, or the error it got
    refresh,    \* _refreshes: the refresh tasks by key
    group,      \* _groups: the read tasks by key
    barrier,    \* _barriers: the commands so far
    generation, authenticated, stopping

tasks   == <<refresh, group>>
account == <<generation, authenticated, stopping>>
readsVars    == <<call, poll, tasks, barrier, account>>

NoGroup   == [at |-> "none", force |-> FALSE, sent |-> None]
NoRefresh == [at |-> "none", on |-> None, auth |-> FALSE, sent |-> None]
NoPoll    == [on |-> None, auth |-> FALSE]
NoCall    == [at |-> "idle", key |-> None, since |-> 0, ret |-> "none", sent |-> None]

\* The barrier at which a request was sent.
Sends == 0..MaxBarrier \cup {None}

ReadsTypeOK ==
    /\ call \in [Callers ->
         [at : {"idle", "waits", "told"}, key : Keys \cup {None}, since : 0..MaxBarrier,
          ret : {"none", "yes", "no", "cancelled"}, sent : Sends]]
    /\ poll \in [Polls -> [on : Keys \cup {None}, auth : BOOLEAN]]
    /\ refresh \in [Keys ->
         [at : {"none", "new", "waits", "resumes", "cancelled", "reaps"},
          on : Keys \cup {None}, auth : BOOLEAN, sent : Sends]]
    /\ group \in [Keys ->
         [at : {"none", "new", "wire", "cancelled", "ended"},
          force : BOOLEAN, sent : Sends]]
    /\ barrier \in 0..MaxBarrier
    /\ generation \in 0..MaxGeneration
    /\ {authenticated, stopping} \subseteq BOOLEAN

ReadsInit ==
    /\ call = [c \in Callers |-> NoCall] /\ poll = [p \in Polls |-> NoPoll]
    /\ refresh = [k \in Keys |-> NoRefresh] /\ group = [k \in Keys |-> NoGroup]
    /\ barrier = 0
    /\ generation = 0 /\ authenticated = TRUE /\ stopping = FALSE

Owns(k) == ~stopping /\ authenticated /\ k.gen = generation

Unfenced == [gen |-> generation, bar |-> 0]
Key      == [gen |-> generation, bar |-> barrier]

Waits(r)   == refresh[r].at \in {"waits", "cancelled"} /\ refresh[r].on # None
Readers(k) == {p \in Polls : poll[p].on = k} \cup {r \in Keys : Waits(r) /\ refresh[r].on = k}
Waiters(r) == {c \in Callers : call[c].at = "waits" /\ call[c].key = r}

-----------------------------------------------------------------------------
(***************************************************************************)
(* _shared: the first reader of a key creates its task, others join it,    *)
(* the last one that leaves cancels it.  Only the creator's arguments      *)
(* count.                                                                  *)
(***************************************************************************)
Joined(k, force) ==
    IF group[k].at = "none"
    THEN [group EXCEPT ![k] = [NoGroup EXCEPT !.at = "new", !.force = force]]
    ELSE group

Abandoned(left) == left = {}
LeftBy(reader, k) ==
    IF Abandoned(Readers(k) \ {reader}) /\ group[k].at # "none"
    THEN [group EXCEPT ![k].at = "cancelled"] ELSE group

\* async_refresh_vehicle.
Call(c) ==
    /\ call[c].at = "idle" /\ ~stopping
    /\ call' = [call EXCEPT ![c].at = "waits", ![c].key = Key, ![c].since = barrier]
    /\ refresh' = IF refresh[Key].at = "none"
                  THEN [refresh EXCEPT ![Key].at = "new"] ELSE refresh
    /\ UNCHANGED <<poll, group, barrier, account>>

\* Task.cancel of a refresh task: it ends later.
Stopped(at) == IF at \in {"new", "waits", "resumes"} THEN "cancelled" ELSE at

\* The caller is cancelled.
CallerLeaves(c) ==
    LET r == call[c].key IN
    /\ call[c].at = "waits"
    /\ call' = [call EXCEPT ![c] = [NoCall EXCEPT !.at = "told"]]
    /\ refresh' = IF Abandoned(Waiters(r) \ {c})
                  THEN [refresh EXCEPT ![r].at = Stopped(@)]
                  ELSE refresh
    /\ UNCHANGED <<poll, group, barrier, account>>

\* The refresh task reads by force.
RefreshStarts(r) ==
    /\ refresh[r].at = "new"
    /\ refresh' = [refresh EXCEPT ![r].at = "waits", ![r].on = Key]
    /\ group' = Joined(Key, TRUE)
    /\ UNCHANGED <<call, poll, barrier, account>>

Told(r, ret) ==
    call' = [c \in Callers |-> IF c \notin Waiters(r) THEN call[c]
               ELSE IF ret = "yes" THEN [call[c] EXCEPT !.at = "told", !.key = None,
                                           !.ret = ret, !.sent = refresh[r].sent]
               ELSE [NoCall EXCEPT !.at = "told", !.ret = ret]]

\* Every reader that is told of a lost authentication invalidates it: a manual
\* one by _manual_auth_failure, a poll in _async_update_data.
InvalidateAuth ==
    /\ generation' = generation + 1
    /\ authenticated' = FALSE /\ UNCHANGED stopping
ToldOfAuth == {r \in Keys : refresh[r].at = "resumes" /\ refresh[r].auth}
                  \cup {p \in Polls : poll[p].auth}
\* Bound: no generation above MaxGeneration.
Room(n) == generation + Cardinality(ToldOfAuth) + n <= MaxGeneration

RefreshEnds(r) ==
    /\ refresh[r].at = "resumes"
    /\ refresh' = [refresh EXCEPT ![r] = NoRefresh]
    /\ IF refresh[r].auth
       THEN InvalidateAuth /\ Told(r, "no")
       ELSE Told(r, IF Owns(r) THEN "yes" ELSE "no") /\ UNCHANGED account
    /\ UNCHANGED <<poll, group, barrier>>

\* A cancelled refresh task leaves its read.  As the last reader it waits for
\* the end of that read, otherwise it ends here.
RefreshReaps(r) ==
    LET k == refresh[r].on IN
    /\ refresh[r].at = "cancelled" /\ k # None /\ Readers(k) = {r}
    /\ refresh' = [refresh EXCEPT ![r].at = "reaps"]
    /\ group' = LeftBy(r, k)
    /\ UNCHANGED <<call, poll, barrier, account>>

RefreshGone(r) ==
    /\ refresh[r].at = "cancelled"
    /\ refresh[r].on = None \/ Readers(refresh[r].on) # {r}
    /\ refresh' = [refresh EXCEPT ![r] = NoRefresh]
    /\ Told(r, "cancelled")
    /\ UNCHANGED <<poll, group, barrier, account>>

-----------------------------------------------------------------------------
(***************************************************************************)
(* _group and _group_update for the status.                                *)
(***************************************************************************)
PollJoins(p) ==
    /\ poll[p] = NoPoll /\ ~stopping /\ authenticated
    /\ poll' = [poll EXCEPT ![p].on = Key]
    /\ group' = Joined(Key, FALSE)
    /\ UNCHANGED <<call, refresh, barrier, account>>

PollLeaves(p) ==
    /\ poll[p].on # None
    /\ group' = LeftBy(p, poll[p].on)
    /\ poll' = [poll EXCEPT ![p] = NoPoll]
    /\ UNCHANGED <<call, refresh, barrier, account>>

PollAuth(p) ==
    /\ poll[p].auth
    /\ poll' = [poll EXCEPT ![p] = NoPoll]
    /\ InvalidateAuth
    /\ UNCHANGED <<call, refresh, group, barrier>>

\* The end of a read task: it leaves the dictionary, its readers resume.
Removed == NoGroup
Ends(k, sent, auth) ==
    /\ group' = [group EXCEPT ![k] = Removed]
    /\ poll' = [p \in Polls |-> IF poll[p].on = k
                  THEN [NoPoll EXCEPT !.auth = auth] ELSE poll[p]]
    /\ refresh' = [r \in Keys |->
         IF refresh[r].at = "waits" /\ refresh[r].on = k
         THEN [refresh[r] EXCEPT !.at = "resumes", !.on = None, !.auth = auth, !.sent = sent]
         ELSE IF Waits(r) /\ refresh[r].on = k THEN [refresh[r] EXCEPT !.on = None]
         ELSE refresh[r]]

\* Not due or not owned: the task ends without a request.
GroupSkips(k) ==
    /\ group[k].at = "new" /\ (~group[k].force \/ ~Owns(k))
    /\ Ends(k, None, FALSE)
    /\ UNCHANGED <<call, barrier, account>>

Sent(k) ==
    /\ group[k].at = "new" /\ Owns(k)
    /\ \A i \in Keys : group[i].at # "wire"
    /\ group' = [group EXCEPT ![k].at = "wire", ![k].sent = barrier]
    /\ UNCHANGED <<call, poll, refresh, barrier, account>>

\* The broker refuses the request, or it fails; the attempt is counted.
Failed(k) ==
    /\ group[k].at \in {"new", "wire"} /\ (group[k].at = "new" => Owns(k))
    /\ Ends(k, group[k].sent, FALSE)
    /\ UNCHANGED <<call, barrier, account>>

AuthFailed(k) ==
    /\ group[k].at = "wire" /\ Room(Cardinality(Readers(k)))
    /\ Ends(k, group[k].sent, TRUE)
    /\ UNCHANGED <<call, barrier, account>>

\* The response is committed, unless the owner of the key has changed.
Answered(k) ==
    /\ group[k].at = "wire"
    /\ Ends(k, group[k].sent, FALSE)
    /\ UNCHANGED <<call, barrier, account>>

\* The cancelled read task has ended; who joined it meanwhile is cancelled too.
GroupGone(k) ==
    /\ group[k].at = "cancelled"
    /\ group' = [group EXCEPT ![k] = Removed]
    /\ poll' = [p \in Polls |-> IF poll[p].on = k THEN NoPoll ELSE poll[p]]
    /\ refresh' = [r \in Keys |->
         IF refresh[r].on = k /\ refresh[r].at \in {"waits", "cancelled", "reaps"}
         THEN [refresh[r] EXCEPT !.at = "cancelled", !.on = None] ELSE refresh[r]]
    /\ UNCHANGED <<call, barrier, account>>

-----------------------------------------------------------------------------
\* A command, or an attempt of its observer, raises the barrier.
Fence ==
    /\ barrier < MaxBarrier
    /\ barrier' = barrier + 1
    /\ UNCHANGED <<call, poll, tasks, account>>

Reauthenticated ==
    /\ ~authenticated /\ ~stopping /\ authenticated' = TRUE
    /\ UNCHANGED <<call, poll, tasks, barrier, generation, stopping>>

\* async_close cancels the tasks it knows.
Close ==
    /\ ~stopping /\ stopping' = TRUE
    /\ Room(1) /\ generation' = generation + 1
    /\ refresh' = [r \in Keys |-> [refresh[r] EXCEPT !.at = Stopped(@)]]
    /\ group' = [k \in Keys |-> IF group[k].at = "none" THEN group[k]
                                ELSE [group[k] EXCEPT !.at = "cancelled"]]
    /\ UNCHANGED <<call, poll, barrier, authenticated>>

-----------------------------------------------------------------------------
RefreshStep(r) ==
    RefreshStarts(r) \/ RefreshEnds(r) \/ RefreshReaps(r) \/ RefreshGone(r)
GroupStep(k) ==
    \/ GroupSkips(k) \/ Sent(k) \/ Failed(k) \/ Answered(k)
    \/ GroupGone(k)

ReadsNext ==
    \/ \E c \in Callers : Call(c) \/ CallerLeaves(c)
    \/ \E p \in Polls : PollJoins(p) \/ PollLeaves(p) \/ PollAuth(p)
    \/ \E k \in Keys : RefreshStep(k) \/ GroupStep(k) \/ AuthFailed(k)
    \/ Fence \/ Reauthenticated \/ Close

ReadsSafe == ReadsInit /\ [][ReadsNext]_readsVars

\* The event loop runs every task; a request ends within its deadline.
ReadsSpec == /\ ReadsSafe
        /\ \A k \in Keys : WF_readsVars(RefreshStep(k)) /\ WF_readsVars(GroupStep(k))

-----------------------------------------------------------------------------
\* "Coalesce manual consumers, without reusing a pre-command request"
\* (coordinator.py:1517): a caller that came after a command never gets the
\* response of a request that was sent before the command.
NoPreCommandReuse ==
    \A c \in Callers : call[c].at = "told" /\ call[c].ret = "yes" /\ call[c].sent # None
        => call[c].sent >= call[c].since

\* "abandoned work is reclaimed" (docs/architecture.md:26): a read that nobody
\* waits for has been cancelled, through both levels of sharing.
AbandonedIsReclaimed ==
    \A k \in Keys : Readers(k) = {} => group[k].at \in {"none", "cancelled"}

\* Every refresh returns, through both levels of sharing: no task waits for
\* a read that nobody runs, or for one that was given up.
NobodyWaits == \A c \in Callers : call[c].at # "waits"
RefreshesReturn == []<>NobodyWaits      \* a caller calls once

\* "One cancelled reader does not cancel other consumers"
\* (docs/architecture.md:26).
OthersNotCancelled ==
    \A c \in Callers : call[c].ret = "cancelled" => stopping

\* A read is shared by those it may serve, and by as many as there are.
ReadsAreShared == NoPreCommandReuse /\ AbandonedIsReclaimed
=============================================================================
