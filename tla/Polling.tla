------------------------------ MODULE Polling ------------------------------
(***************************************************************************)
(* The periodic reads of an account (realtime.py, polling_activity.py and  *)
(* the polling half of coordinator.py).                                    *)
(*                                                                         *)
(* One timer wakes the dispatcher, which starts a task for each read that  *)
(* is due, as far as the budget admits.  Home Assistant's own refresh      *)
(* round dispatches too, and waits for the tasks it finds.  Explicit       *)
(* callers read beside them.  hass.async_create_task starts a task at once *)
(* (event_store.py asks for the opposite where it wants it), so that a     *)
(* coroutine without an await has ended when the call returns.             *)
(***************************************************************************)
EXTENDS Naturals, Sequences, FiniteSets

CONSTANTS Cars, GroupsOf,    \* vehicles, and the groups that are in demand of each
          MaxJobs, Capacity, \* MAX_DISPATCHED; admissions the budget saves up
          MaxChanges         \* bound on what is done to the account from outside

ASSUME PollingAssumption ==
    /\ Cars \subseteq Nat \ {0} /\ \A c \in Cars : GroupsOf[c] \subseteq {"status", "battery", "travel"}
    /\ {MaxJobs, Capacity, MaxChanges} \subseteq Nat

VARIABLES
    flags,     \* running, authenticated, stopping
    timer,     \* RealtimePolling.cancel is set
    task,      \* RealtimePolling.task: "none", or "done" when it holds a task that has ended
    streak, tokens,
    late,      \* keys whose deadline has passed, the earliest first
    reads,     \* <<key, by>>: by a task of the dispatcher ("job") or for others ("other")
    stale,     \* reads begun before authentication was lost
    suspect, proven,   \* cars missing from the last list; cars whose profile is fresh
    erring,    \* cars whose last status read failed
    held,      \* cars with a pending command
    cooling,   \* the broker's cooldown
    round, awaited,    \* Core's refresh round, and the reads it waits for
    changes

pollVars == <<flags, timer, task, streak, tokens, late, reads, stale, suspect, proven, erring, held,
              cooling, round, awaited, changes>>
listVars == <<suspect, proven, erring>>
roundVars == <<round, awaited>>

Profile == <<0, "profile">>
PollKeys == {Profile} \union {<<c, g>> : c \in Cars, g \in {"status", "battery", "travel"}}
Wanted == {k \in PollKeys : k = Profile \/ k[2] \in GroupsOf[k[1]]}
Jobs == {r \in reads : r[2] = "job"}
On == flags.running /\ flags.authenticated /\ ~flags.stopping

PollingInit ==
    /\ flags = [running |-> TRUE, authenticated |-> TRUE, stopping |-> FALSE]
    /\ timer = TRUE /\ task = "none" /\ streak = 0 /\ tokens = Capacity
    /\ late = <<>> /\ reads = {} /\ stale = {}
    /\ suspect = {} /\ proven = Cars /\ erring = {} /\ held = {} /\ cooling = FALSE
    /\ round = "idle" /\ awaited = {} /\ changes = 0

----------------------------------------------------------------------------
\* What may be read.

Pollable(c) == flags.authenticated /\ ~flags.stopping /\ (c \in suspect => c \in proven)
Recovering == Cars # {} /\ Cars \subseteq erring
Ready(c) == ~cooling /\ ~Recovering /\ c \in proven \ suspect

\* _busy
BeingRead(k) == \E by \in {"job", "other"} : <<k, by>> \in reads

InLate(k) == \E i \in DOMAIN late : late[i] = k

\* _deadlines: the keys it considers.
Free ==
    {k \in Wanted : /\ ~BeingRead(k)
                    /\ k # Profile =>
                          /\ Pollable(k[1])
                          /\ k[2] # "status" => Ready(k[1]) /\ k[1] \notin held}

\* schedule: the timer stands, unless polling is off, a wake is at work, or no task may be added.
CanArm == On /\ Cardinality(Jobs) < MaxJobs /\ Free # {}
Schedule == timer' = (task = "none" /\ CanArm')

----------------------------------------------------------------------------
\* The dispatcher.

\* Mutant: a status read always comes first.
NeverWaits(n) == FALSE

\* After three status reads another group goes first.
OthersTurn(n) == n >= 3

IsStatus(k) == k[2] = "status"
IsOther(k) == ~IsStatus(k)

\* The first of a pool leaves the queue, with a token.
Take(p) ==
    LET status == SelectSeq(p.late, IsStatus)
        other == SelectSeq(p.late, IsOther)
        k == Head(IF other # <<>> /\ (OthersTurn(p.streak) \/ status = <<>>) THEN other ELSE status)
        rest(x) == x # k
    IN  [late |-> SelectSeq(p.late, rest), jobs |-> p.jobs \union {<<k, "job">>}, tokens |-> p.tokens - 1,
         streak |-> IF IsStatus(k) THEN (IF p.streak < 3 THEN p.streak + 1 ELSE 3) ELSE 0]

\* The loop of dispatch.
Admitted(free) ==
    LET due(k) == k \in free
        go[n \in 0 .. MaxJobs] ==
            IF n = 0 THEN [late |-> SelectSeq(late, due), jobs |-> Jobs, tokens |-> tokens, streak |-> streak]
            ELSE LET p == go[n - 1] IN
                 IF p.late = <<>> \/ Cardinality(p.jobs) >= MaxJobs \/ p.tokens = 0 THEN p ELSE Take(p)
    IN  go[MaxJobs]

\* dispatch, without the scheduling that ends it.
Dispatch ==
    IF ~flags.authenticated \/ flags.stopping \/ cooling THEN UNCHANGED <<reads, tokens, streak>>
    ELSE \E p \in {Admitted(Free)} :
            reads' = reads \union p.jobs /\ tokens' = p.tokens /\ streak' = p.streak

\* _wake keeps the task it created, which has run to its end by then.
HeldTask == "done"

\* The timer fires: _wake, _run.
Wake ==
    /\ timer
    /\ UNCHANGED <<flags, late, stale, listVars, held, cooling, roundVars, changes>>
    /\ IF On /\ task = "none"
       THEN Dispatch /\ timer' = CanArm' /\ task' = HeldTask
       ELSE timer' = FALSE /\ UNCHANGED <<task, reads, tokens, streak>>

\* Core's refresh round: it dispatches and waits, or reads by itself.
RoundBegins ==
    /\ round = "idle" /\ ~flags.stopping
    /\ UNCHANGED <<flags, task, late, stale, listVars, held, cooling, changes>>
    /\ IF On THEN /\ Dispatch /\ round' = "waiting" /\ awaited' = {r \in reads' : r[2] = "job"}
                  /\ IF cooling THEN UNCHANGED timer ELSE Schedule
       ELSE round' = "full" /\ awaited' = {} /\ UNCHANGED <<reads, tokens, streak, timer>>

\* Outside of the dispatcher no token is asked for; what another reads is joined.
FullRead(k) ==
    /\ round = "full" /\ ~flags.stopping /\ k \in Wanted /\ InLate(k)
    /\ k # Profile => /\ Pollable(k[1])
                      /\ ~IsStatus(k) => k[1] \notin suspect /\ ~cooling /\ ~Recovering
    /\ <<k, "other">> \notin awaited
    /\ reads' = (IF BeingRead(k) THEN reads ELSE reads \union {<<k, "other">>})
    /\ awaited' = awaited \union {r \in reads' : r[1] = k}
    /\ UNCHANGED <<flags, timer, task, streak, tokens, late, stale, listVars, held, cooling, round, changes>>

\* _async_refresh_finished
RoundEnds ==
    /\ round \in {"waiting", "full"} /\ awaited = {} /\ round' = "idle"
    /\ UNCHANGED <<flags, task, streak, tokens, late, reads, stale, listVars, held, cooling, awaited, changes>>
    /\ Schedule

----------------------------------------------------------------------------
\* A read ends.

\* _owns: the account, the authentication and the car are those the read began with.
Owned(r) ==
    /\ r \notin stale /\ ~flags.stopping
    /\ r[1] # Profile => flags.authenticated /\ (r[1][1] \in suspect => IsStatus(r[1]))

NotThis(k) == LET other(x) == x # k IN SelectSeq(late, other)
Gone(r) == reads' = reads \ {r} /\ stale' = stale \ {r} /\ awaited' = awaited \ {r}

\* _attempt_finished: it has a later deadline.
Attempted(k) == late' = NotThis(k)

\* _list_update: the list is complete, or some car is missing from it.
ListRead(r) ==
    /\ r[1] = Profile /\ Owned(r) /\ Gone(r) /\ Attempted(Profile)
    /\ \E found \in SUBSET Cars :
          /\ suspect' = Cars \ found /\ proven' = proven \union found
    /\ flags' = [flags EXCEPT !.authenticated = TRUE]
    /\ UNCHANGED erring

\* An answer, which may bring the battery's deadline forward (_observe_activity).
GroupRead(r) ==
    /\ r[1] # Profile /\ Owned(r) /\ Gone(r)
    /\ \/ Attempted(r[1])
       \/ /\ IsStatus(r[1]) /\ <<r[1][1], "battery">> \in Wanted /\ ~InLate(<<r[1][1], "battery">>)
          /\ late' = Append(NotThis(r[1]), <<r[1][1], "battery">>)
    /\ erring' = (IF IsStatus(r[1]) THEN erring \ {r[1][1]} ELSE erring)
    /\ UNCHANGED <<flags, suspect, proven>>

\* An error, of the list or of a group.
ReadFails(r) ==
    /\ Owned(r) /\ Gone(r) /\ Attempted(r[1])
    /\ suspect' = (IF r[1] = Profile THEN Cars ELSE suspect)
    /\ erring' = (IF IsStatus(r[1]) THEN erring \union {r[1][1]} ELSE erring)
    /\ UNCHANGED <<flags, proven>>

\* A read that nobody owns any more moves no deadline, and neither does one that was overtaken by
\* another read of its key.
ReadDropped(r) == (Owned(r) => ~InLate(r[1])) /\ Gone(r) /\ UNCHANGED <<late, flags, listVars>>

ReadEnds(r) ==
    /\ r \in reads
    /\ ListRead(r) \/ GroupRead(r) \/ ReadFails(r) \/ ReadDropped(r)
    /\ UNCHANGED <<task, streak, tokens, held, cooling, round, changes>>
    /\ Schedule

\* The session is refused: _invalidate_auth stops the dispatcher; Core's own round, if the read is
\* its own, is not followed by another one.
AuthFails(r) ==
    /\ r \in reads /\ Owned(r) /\ changes < MaxChanges /\ changes' = changes + 1
    /\ flags' = [flags EXCEPT !.running = FALSE, !.authenticated = FALSE] /\ timer' = FALSE
    /\ reads' = reads \ {r} /\ stale' = reads \ {r} /\ awaited' = awaited \ {r}
    /\ round' = (IF round = "full" /\ r \in awaited THEN "stopped" ELSE round)
    /\ UNCHANGED <<task, streak, tokens, late, listVars, held, cooling>>

----------------------------------------------------------------------------
\* Time, and the rest of the account.

DeadlinePasses(k) ==
    /\ k \in Wanted /\ ~InLate(k) /\ late' = Append(late, k)
    /\ UNCHANGED <<flags, timer, task, streak, tokens, reads, stale, listVars, held, cooling, roundVars, changes>>

Refill ==
    /\ tokens < Capacity /\ tokens' = tokens + 1
    /\ UNCHANGED <<flags, timer, task, streak, late, reads, stale, listVars, held, cooling, roundVars, changes>>

Change == changes < MaxChanges /\ changes' = changes + 1

\* Three hours without the car in a list.
ProfileExpires(c) ==
    /\ Change /\ c \in proven /\ proven' = proven \ {c}
    /\ UNCHANGED <<flags, timer, task, streak, tokens, late, reads, stale, suspect, erring, held, cooling, roundVars>>

\* async_refresh_vehicle, and the observers of a command.
ExplicitRead(c) ==
    /\ Change /\ Pollable(c) /\ ~BeingRead(<<c, "status">>)
    /\ reads' = reads \union {<<<<c, "status">>, "other">>}
    /\ UNCHANGED <<flags, timer, task, streak, tokens, late, stale, listVars, held, cooling, roundVars>>

ControlBegins(c) ==
    /\ Change /\ On /\ c \notin held /\ held' = held \union {c}
    /\ UNCHANGED <<flags, timer, task, streak, tokens, late, reads, stale, listVars, cooling, roundVars>>
ControlEnds(c) ==
    /\ c \in held /\ held' = held \ {c}
    /\ UNCHANGED <<flags, task, streak, tokens, late, reads, stale, listVars, cooling, roundVars, changes>>
    /\ Schedule

Cools ==
    /\ Change /\ ~cooling /\ cooling' = TRUE
    /\ UNCHANGED <<flags, timer, task, streak, tokens, late, reads, stale, listVars, held, roundVars>>
Warms ==
    /\ cooling /\ cooling' = FALSE
    /\ UNCHANGED <<flags, timer, task, streak, tokens, late, reads, stale, listVars, held, roundVars, changes>>

\* async_reconfigure_polling: other intervals, counted from the last read.
Reconfigure ==
    /\ Change /\ ~flags.stopping
    /\ \E k \in Wanted \ {Profile} :
          late' = IF InLate(k) THEN NotThis(k) ELSE <<k>> \o late
    /\ UNCHANGED <<flags, task, streak, tokens, reads, stale, listVars, held, cooling, roundVars>>
    /\ Schedule

\* async_close
PollingCloses ==
    /\ Change /\ ~flags.stopping
    /\ flags' = [flags EXCEPT !.running = FALSE, !.stopping = TRUE] /\ timer' = FALSE
    /\ UNCHANGED <<task, streak, tokens, late, reads, stale, listVars, held, cooling, roundVars>>

PollReads == PollKeys \X {"job", "other"}

PollingNext ==
    \/ Wake \/ RoundBegins \/ RoundEnds \/ Refill \/ Cools \/ Warms \/ Reconfigure \/ PollingCloses
    \/ \E k \in PollKeys : FullRead(k) \/ DeadlinePasses(k)
    \/ \E r \in PollReads : ReadEnds(r) \/ AuthFails(r)
    \/ \E c \in Cars : ProfileExpires(c) \/ ExplicitRead(c) \/ ControlBegins(c) \/ ControlEnds(c)

\* Timers fire, the budget fills up, reads and commands end.
PollingSteps == Wake \/ RoundBegins \/ RoundEnds
ReadSteps(k) == \E by \in {"job", "other"} : ReadEnds(<<k, by>>)

----------------------------------------------------------------------------
PollingTypeOK ==
    /\ timer \in BOOLEAN /\ task \in {"none", "done"} /\ streak \in 0 .. 3 /\ tokens \in 0 .. Capacity
    /\ reads \subseteq PollReads /\ stale \subseteq reads /\ awaited \subseteq reads
    /\ Cardinality(Jobs) <= MaxJobs
    /\ round \in {"idle", "waiting", "full", "stopped"}

\* The account's timer: while polling is on, a task may be added, and the list or the status of a
\* car is not being read, a timer stands that will wake the dispatcher ("slow groups cannot hold the
\* account timer", realtime.py).
TimerIsNotHeld ==
    (On /\ Cardinality(Jobs) < MaxJobs /\ \E k \in Free : k = Profile \/ IsStatus(k)) => timer

\* What is due and may be read is read: whichever groups are late, however often status is late
\* again, whatever fails meanwhile, and though the tokens are few.
Served(k) == ~(On /\ InLate(k) /\ k \in Free)
DueIsRead == \A k \in Wanted : []<>Served(k)
=============================================================================
