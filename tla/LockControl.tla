------------------------------ MODULE LockControl ------------------------------
(***************************************************************************)
(* Remote commands to one vehicle of one account: async_control and what   *)
(* it starts (coordinator.py).  A command waits for the dispatch gate of   *)
(* the vehicle, which all accounts share, is sent once, and for a lock an  *)
(* observer task then reads the status until it shows the target.  A newer *)
(* command of the same lock replaces the observer.  Afterwards a follow-up *)
(* task looks for automatic relocking.                                     *)
(*                                                                         *)
(* A step is what a coroutine does between two awaits.  Each observer and  *)
(* follow-up reads the status on its own: its request has a barrier no     *)
(* other request has.  The account has one request on the wire at a time.  *)
(***************************************************************************)
EXTENDS Integers, Sequences, FiniteSets, TLC

CONSTANTS
    Calls,       \* calls of async_control
    Actions,        \* actions they may ask for
    NoOne,
    Polls, Others,  \* regular status queries; commands of other accounts
    MaxCalls,     \* calls at a time (4 in the code)
    Slots,          \* status reads of one observer (16 in the code)
    MaxRevision, MaxGeneration, MaxSerial   \* bounds of the runs

LockTargets == [a \in {"engine/start", "engine/stop", "buck"} |->
    CASE a = "engine/start" -> [lock |-> "vehicle_lock", state |-> "unlocked"]
      [] a = "engine/stop"  -> [lock |-> "vehicle_lock", state |-> "locked"]
      [] a = "buck"         -> [lock |-> "seat_lock",    state |-> "unlocked"]]

ASSUME ControlAssumption ==
    /\ Actions \subseteq DOMAIN LockTargets \cup {"bell"}
    /\ NoOne \notin Calls
    /\ (Calls \cup {NoOne}) \cap (Polls \cup Others \cup ({"observer", "followup"} \X Calls)) = {}
    /\ {MaxCalls, Slots, MaxRevision, MaxGeneration, MaxSerial} \subseteq Nat

VARIABLES
    cmd,            \* what each call does, and the record in ControlResults
    obs,            \* its observer task
    fol,            \* its follow-up task
    read,           \* the status requests of the tasks and of the regular poll
    gate,           \* the dispatch lock of the vehicle: holder and waiters
    wire,           \* the request of the account under way
    serial, versions,           \* _control_serial, _control_versions
    pending, shown, observer, followup, \* _pending_commands, pending_controls,
                                \* _control_observers, _control_followups
    feedback,       \* the seat is shown as unlocked for a while
    status, committed, revision,    \* last committed status, request counters
    generation, authenticated, stopping,
    sent, answered  \* commands that were on the wire, and back (history)

calls    == <<cmd, obs, fol>>
tables   == <<serial, versions, pending, shown, observer, followup>>
account  == <<generation, authenticated, stopping>>
reading  == <<read, status, committed>>
history  == <<sent, answered>>
controlVars     == <<calls, read, gate, wire, tables, feedback, status, committed,
              revision, account, history>>

Keys    == {"vehicle_lock", "seat_lock", "bell"}
Locks   == {LockTargets[a].lock : a \in Actions \ {"bell"}}
Readers == Polls \cup ({"observer", "followup"} \X Calls)
States  == {"locked", "unlocked"}      \* an unknown state is no target: not told apart
Errors  == {"none", "failed", "refused"} \* refused: AUTH, CLOSED or BUSY
Samples == [Locks -> States]

NoRead == [at |-> "none", gen |-> 0, rev |-> 0, got |-> "none", value |-> NoOne,
           after |-> {}]
ControlTypeOK ==
    /\ cmd \in [Calls ->
         [at : {"idle", "gate", "posted", "answered", "observe", "readback", "over", "done"},
          action : Actions \cup {NoOne}, serial : 0..MaxSerial, gen : 0..MaxGeneration,
          rev : 0..MaxRevision, reply : {"none", "ok", "error", "auth"},
          outcome : {"pending", "accepted", "uncertain", "auth", "rejected", "cancelled"},
          conf : {"not_requested", "pending", "confirmed", "observed_uncertain",
                  "unknown", "superseded", "cancelled"},
          ret : {"none", "ok", "error", "cancelled"}]]
    /\ obs \in [Calls ->
         [at : {"none", "slot", "read", "done", "cancelled"}, left : 0..Slots,
          prev : 0..MaxRevision, found : BOOLEAN]]
    /\ fol \in [Calls -> {"none", "slot", "read"}]
    /\ read \in [Readers -> [at : {"none", "queued", "wire", "parse", "back"},
                             gen : 0..MaxGeneration, rev : 0..MaxRevision,
                             got : Errors \cup {"auth"}, value : Samples \cup {NoOne},
                             after : SUBSET Calls]]
    /\ gate \in Seq(Calls \cup Others)
    /\ wire \in Calls \cup Readers \cup {NoOne}
    /\ serial \in 0..MaxSerial /\ versions \in [Keys -> 0..MaxSerial]
    /\ {pending[k] : k \in Keys} \cup {observer[k] : k \in Keys}
         \cup {shown, followup} \subseteq Calls \cup {NoOne}
    /\ feedback \in BOOLEAN
    /\ status \in [value : Samples, error : Errors, after : SUBSET Calls]
    /\ {committed, revision} \subseteq 0..MaxRevision
    /\ generation \in 0..MaxGeneration
    /\ {authenticated, stopping} \subseteq BOOLEAN
    /\ {sent, answered} \subseteq SUBSET Calls

NoCall == [at |-> "idle", action |-> NoOne, serial |-> 0, gen |-> 0, rev |-> 0,
           reply |-> "none", outcome |-> "pending", conf |-> "not_requested",
           ret |-> "none"]
NoObserver == [at |-> "none", left |-> 0, prev |-> 0, found |-> FALSE]

ControlInit ==
    /\ cmd = [c \in Calls |-> NoCall]
    /\ obs = [c \in Calls |-> NoObserver]
    /\ fol = [c \in Calls |-> "none"]
    /\ read = [r \in Readers |-> NoRead]
    /\ gate = <<>> /\ wire = NoOne
    /\ serial = 0 /\ versions = [k \in Keys |-> 0]
    /\ pending = [k \in Keys |-> NoOne] /\ observer = [k \in Keys |-> NoOne]
    /\ shown = NoOne /\ followup = NoOne /\ feedback = FALSE
    /\ status = [value |-> [l \in Locks |-> "locked"], error |-> "none", after |-> {}]
    /\ committed = 0 /\ revision = 0
    /\ generation = 0 /\ authenticated = TRUE /\ stopping = FALSE
    /\ sent = {} /\ answered = {}

-----------------------------------------------------------------------------
(***************************************************************************)
(* Ownership and the policy of commands.                                   *)
(***************************************************************************)
Owns(gen) == ~stopping /\ authenticated /\ gen = generation

\* Consent, the list of vehicles and the age of the data may also forbid it.
ControlsEnabled == ~stopping /\ authenticated /\ status.error = "none"

InvalidateAuth ==
    /\ authenticated' = FALSE /\ generation' = generation + 1 /\ feedback' = FALSE

Key(c)       == IF cmd[c].action \in DOMAIN LockTargets
                THEN LockTargets[cmd[c].action].lock ELSE cmd[c].action
IsLock(c)    == cmd[c].action \in DOMAIN LockTargets
Live(c)      == cmd[c].at \notin {"idle", "over", "done"}
Newest(c)    == versions[Key(c)] = cmd[c].serial
Observer(c)  == <<"observer", c>>
Follower(c)  == <<"followup", c>>

\* A cancelled task gives up the read it awaits, also one on the wire.
Dropped(rs) == [r \in Readers |-> IF r \in rs THEN NoRead ELSE read[r]]
FreeOf(rs)  == IF wire \in rs THEN NoOne ELSE wire

-----------------------------------------------------------------------------
(***************************************************************************)
(* async_control and _control                                              *)
(***************************************************************************)
\* The finally clause of async_control: each table entry only if it is own.
OwnOnly(c) ==
    /\ pending' = [k \in Keys |-> IF pending[k] = c THEN NoOne ELSE pending[k]]
    /\ shown' = IF shown = c THEN NoOne ELSE shown
AnyEntry(c) == pending' = [pending EXCEPT ![Key(c)] = NoOne] /\ shown' = NoOne
Finally(c) == OwnOnly(c)

Ends(c, outcome, conf, ret) ==
    /\ cmd' = [cmd EXCEPT ![c] = [@ EXCEPT !.at = "over", !.outcome = outcome, !.conf = conf, !.ret = ret]]
    /\ Finally(c)

\* Too many calls.
Busy(c, a) ==
    /\ cmd[c].at = "idle" /\ ~stopping
    /\ Cardinality({d \in Calls : Live(d)}) >= MaxCalls
    /\ cmd' = [cmd EXCEPT ![c].at = "over", ![c].action = a, ![c].ret = "error"]
    /\ UNCHANGED <<obs, fol, reading, gate, wire, tables, feedback, revision, account, history>>

\* A new version of the key: the older observer and the follow-up are cancelled.
Supersede(key) ==
    /\ serial < MaxSerial
    /\ serial' = serial + 1
    /\ versions' = [versions EXCEPT ![key] = serial + 1]
    /\ observer' = [observer EXCEPT ![key] = NoOne]
    /\ obs' = [c \in Calls |-> IF c = observer[key] /\ obs[c].at # "done"
                                  THEN [obs[c] EXCEPT !.at = "cancelled"] ELSE obs[c]]

Call(c, a) ==
    LET key == IF a \in DOMAIN LockTargets THEN LockTargets[a].lock ELSE a
        lost == {Observer(d) : d \in {observer[key]} \ {NoOne}}
                  \cup {Follower(d) : d \in {followup} \ {NoOne}}
    IN
    /\ cmd[c].at = "idle" /\ ~stopping
    /\ Cardinality({d \in Calls : Live(d)}) < MaxCalls
    /\ Supersede(key)
    /\ followup' = NoOne
    /\ fol' = [d \in Calls |-> IF d = followup THEN "none" ELSE fol[d]]
    /\ read' = Dropped(lost) /\ wire' = FreeOf(lost)
    /\ \/ /\ ControlsEnabled
          /\ cmd' = [cmd EXCEPT ![c].at = "gate", ![c].action = a,
                 ![c].serial = serial', ![c].gen = generation,
                 ![c].conf = IF a \in DOMAIN LockTargets THEN "pending" ELSE @]
          /\ IF a \in DOMAIN LockTargets
             THEN pending' = [pending EXCEPT ![key] = c] /\ shown' = c
             ELSE UNCHANGED <<pending, shown>>
          /\ gate' = Append(gate, c)
       \/ /\ cmd' = [cmd EXCEPT ![c].at = "over", ![c].action = a,
                 ![c].serial = serial', ![c].ret = "error"]
          /\ UNCHANGED <<pending, shown, gate>>
    /\ UNCHANGED <<feedback, status, committed, revision, account, history>>

\* The broker refuses the command before its operation starts: its queue is
\* full, it cools down, it is closed, or the guard fails.  The revision is 0.
Rejected(c) ==
    /\ cmd[c].at = "gate" /\ Head(gate) = c
    /\ cmd' = [cmd EXCEPT ![c].at = "answered", ![c].reply = "error"]
    /\ UNCHANGED <<obs, fol, reading, gate, wire, tables, feedback, revision, account, history>>

Unordered(c) == cmd[c].at = "gate"
MayPost(c)   == cmd[c].at = "gate" /\ Head(gate) = c
Posted(c) ==
    /\ MayPost(c)
    /\ wire = NoOne /\ Owns(cmd[c].gen) /\ ControlsEnabled
    /\ revision < MaxRevision
    /\ revision' = revision + 1
    /\ cmd' = [cmd EXCEPT ![c].at = "posted", ![c].rev = revision + 1]
    /\ wire' = c /\ sent' = sent \cup {c}
    /\ UNCHANGED <<obs, fol, reading, gate, tables, feedback, account, answered>>

\* The answer, an error of the request, or a refused login.
CommandAnswered(c, reply) ==
    /\ cmd[c].at = "posted"
    /\ cmd' = [cmd EXCEPT ![c].at = "answered", ![c].reply = reply]
    /\ wire' = NoOne
    /\ IF reply = "auth" THEN generation + 2 <= MaxGeneration /\ InvalidateAuth
       ELSE UNCHANGED <<generation, authenticated, feedback>>
    /\ answered' = answered \cup {c}
    /\ UNCHANGED <<obs, fol, reading, gate, tables, revision, stopping, sent>>

\* _control goes on: the gate is left, the result classified.
AnyError(c)       == cmd[c].reply = "error"
RejectedUnsent(c) == cmd[c].reply = "error" /\ cmd[c].rev = 0
InsistsOn(c)      == FALSE
MadeWay(c)        == IsLock(c) /\ ~Newest(c)
KeepGate(c)       == UNCHANGED gate
LeaveGate(c)      == gate' = Tail(gate)
ResumeFails(c) ==
    /\ \/ /\ cmd[c].reply = "auth" /\ InvalidateAuth
          /\ Ends(c, "auth", IF IsLock(c) THEN "unknown" ELSE "not_requested", "error")
       \/ /\ RejectedUnsent(c)
          /\ Ends(c, "rejected", "not_requested", "error")
          /\ UNCHANGED <<generation, authenticated, feedback>>
    /\ UNCHANGED <<obs, observer>>

ResumeGoesOn(c) ==
    LET outcome == IF cmd[c].reply = "ok" THEN "accepted" ELSE "uncertain" IN
    /\ cmd[c].reply # "auth" /\ ~RejectedUnsent(c)
    /\ IF MadeWay(c)
       THEN /\ Ends(c, outcome, "superseded", "ok")
            /\ UNCHANGED <<obs, observer>>
       ELSE /\ cmd' = [cmd EXCEPT ![c].outcome = outcome,
                         ![c].at = IF IsLock(c) THEN "observe" ELSE "readback"]
            /\ IF IsLock(c)
               THEN /\ observer' = [observer EXCEPT ![Key(c)] = c]
                    /\ obs' = [obs EXCEPT ![c].at = "slot", ![c].left = Slots]
               ELSE UNCHANGED <<obs, observer>>
            /\ UNCHANGED <<pending, shown>>
    /\ UNCHANGED <<generation, authenticated, feedback>>

Resume(c) ==
    /\ cmd[c].at = "answered" /\ ~stopping
    /\ LeaveGate(c)
    /\ ResumeFails(c) \/ ResumeGoesOn(c)
    /\ UNCHANGED <<fol, reading, wire, serial, versions, followup, revision,
                   stopping, history>>

\* A bell has no target: one status read reconciles (see StatusReads).
Readback(c) ==
    /\ cmd[c].at = "readback" /\ ~stopping
    /\ \E refreshed \in BOOLEAN :
         Ends(c, cmd[c].outcome, cmd[c].conf,
              IF refreshed /\ cmd[c].outcome = "accepted" THEN "ok" ELSE "error")
    /\ UNCHANGED <<obs, fol, reading, gate, wire, serial, versions, observer, followup,
                   feedback, revision, account, history>>
-----------------------------------------------------------------------------
(***************************************************************************)
(* _confirm_lock, the observer of a command.                               *)
(***************************************************************************)
Rest(c) == UNCHANGED <<cmd, fol, gate, serial, versions, pending, shown,
                       followup, revision, stopping, history>>

Concludes(c, found) == obs' = [obs EXCEPT ![c].at = "done", ![c].found = found]

AnySlot(c) == TRUE
HasSlot(c) == obs[c].left > 0

\* A slot is due: ask for the status, with a barrier of its own.
Attempt(c) ==
    /\ obs[c].at = "slot" /\ HasSlot(c) /\ Owns(cmd[c].gen)
    /\ obs' = [obs EXCEPT ![c].at = "read", ![c].left = @ - 1, ![c].prev = committed]
    /\ read' = [read EXCEPT ![Observer(c)] = [NoRead EXCEPT !.at = "queued", !.gen = generation]]
    /\ Rest(c) /\ UNCHANGED <<wire, observer, feedback, status, committed,
                              generation, authenticated>>

\* No slot is left, or the account is no longer the owner.
NoSlot(c) ==
    /\ obs[c].at = "slot" /\ (~HasSlot(c) \/ ~Owns(cmd[c].gen))
    /\ Concludes(c, FALSE)
    /\ cmd' = [cmd EXCEPT ![c].conf = "unknown"]
    /\ UNCHANGED <<fol, reading, gate, wire, tables, feedback, revision, account, history>>

\* The deadline of the observation passes while it sleeps or reads.
Deadline(c) ==
    /\ obs[c].at \in {"slot", "read"}
    /\ Concludes(c, FALSE)
    /\ cmd' = [cmd EXCEPT ![c].conf = "unknown"]
    /\ read' = Dropped({Observer(c)}) /\ wire' = FreeOf({Observer(c)})
    /\ UNCHANGED <<fol, gate, tables, feedback, status, committed, revision, account, history>>

Later(c, n) == IF n > cmd[c].rev THEN n ELSE cmd[c].rev
AnyCommit(c)  == committed > obs[c].prev
Advanced(c)   == committed > Later(c, obs[c].prev)
Shows(c) ==
    /\ status.error = "none" /\ Advanced(c)
    /\ status.value[Key(c)] = LockTargets[cmd[c].action].state

\* The read is over.  Cooling down ends the observation; so does an error that
\* says the account cannot read now.
Judge(c) ==
    /\ obs[c].at = "read" /\ read[Observer(c)].at = "back"
    /\ read' = Dropped({Observer(c)})
    /\ IF read[Observer(c)].got = "auth"
       THEN Concludes(c, FALSE) /\ cmd' = [cmd EXCEPT ![c].conf = "unknown"]
            /\ generation < MaxGeneration /\ InvalidateAuth
       ELSE /\ \/ /\ Owns(cmd[c].gen) /\ Shows(c)
                  /\ obs' = [obs EXCEPT ![c].at = "done", ![c].found = TRUE]
                  /\ cmd' = [cmd EXCEPT ![c].conf = IF cmd[c].outcome = "uncertain"
                               THEN "observed_uncertain" ELSE "confirmed"]
               \/ /\ Owns(cmd[c].gen) /\ ~Shows(c) /\ status.error # "refused"
                  /\ obs' = [obs EXCEPT ![c].at = "slot"] /\ UNCHANGED cmd
               \/ /\ ~Owns(cmd[c].gen) \/ ~Shows(c)
                  /\ Concludes(c, FALSE) /\ cmd' = [cmd EXCEPT ![c].conf = "unknown"]
            /\ UNCHANGED <<generation, authenticated, feedback>>
    /\ UNCHANGED <<fol, gate, wire, tables, status, committed, revision,
                   stopping, history>>

\* The command resumes when its observer has ended.  A verified unlock of the
\* seat is shown for a while; a follow-up is started unless the broker cools down.
FollowsUp(c) == fol' = [fol EXCEPT ![c] = "slot"] /\ followup' = c

Believes(c) == IF obs[c].found THEN "ok" ELSE "error"
Reports(c)  == IF obs[c].found /\ cmd[c].outcome = "accepted" THEN "ok" ELSE "error"

ObserverEnded(c) ==
    /\ cmd[c].at = "observe" /\ obs[c].at \in {"done", "cancelled"} /\ ~stopping
    /\ observer' = [k \in Keys |-> IF observer[k] = c THEN NoOne ELSE observer[k]]
    /\ obs' = [obs EXCEPT ![c] = NoObserver]
    /\ IF ~Newest(c)
       THEN /\ Ends(c, cmd[c].outcome, "superseded", "ok")
            /\ UNCHANGED <<fol, followup, feedback>>
       ELSE LET seat == cmd[c].action = "buck" IN
            /\ feedback' = (feedback \/ (seat /\ obs[c].found))
            /\ \/ /\ Owns(cmd[c].gen) /\ (seat => obs[c].found) /\ FollowsUp(c)
               \/ UNCHANGED <<fol, followup>>
            /\ Ends(c, cmd[c].outcome, cmd[c].conf, Reports(c))
    /\ UNCHANGED <<reading, gate, wire, serial, versions, revision, account, history>>

\* Whoever gives the gate up, or the wait for it, is in it once.
GateWithout(c) ==
    IF \A i \in DOMAIN gate : gate[i] # c THEN gate
    ELSE LET n == CHOOSE i \in DOMAIN gate : gate[i] = c
         IN  [i \in 1 .. Len(gate) - 1 |-> gate[IF i < n THEN i ELSE i + 1]]

\* The caller is cancelled, at whatever await it is; a superseded observation
\* returns all the same.
Cancelled(c) ==
    LET swallowed == cmd[c].at = "observe" /\ ~Newest(c)
        conf == IF swallowed THEN "superseded"
                ELSE IF cmd[c].conf = "pending" THEN "cancelled" ELSE cmd[c].conf
        outcome == IF cmd[c].outcome = "pending" THEN "cancelled" ELSE cmd[c].outcome
    IN
    /\ Live(c)
    /\ Ends(c, outcome, conf, IF swallowed THEN "ok" ELSE "cancelled")
    /\ gate' = GateWithout(c)
    /\ obs' = [obs EXCEPT ![c] = NoObserver]
    /\ observer' = [k \in Keys |-> IF observer[k] = c THEN NoOne ELSE observer[k]]
    /\ read' = Dropped({Observer(c)}) /\ wire' = FreeOf({Observer(c), c})
    /\ UNCHANGED <<fol, serial, versions, followup, feedback, status, committed,
                   revision, account, history>>

\* The caller takes the result: what follows needs only the owner of the call.
Return(c) ==
    /\ cmd[c].at = "over"
    /\ cmd' = [cmd EXCEPT ![c] = [NoCall EXCEPT !.at = "done", !.gen = cmd[c].gen]]
    /\ sent' = sent \ {c} /\ answered' = answered \ {c}
    /\ UNCHANGED <<obs, fol, reading, gate, wire, tables, feedback, revision, account>>

\* Locking the seat gives up the wait for its unlocking.
CancelSeatUnlockWait ==
    LET c == pending["seat_lock"]
        lost == {Observer(d) : d \in {observer["seat_lock"]} \ {NoOne}}
        displayed == IF feedback THEN "unlocked" ELSE status.value["seat_lock"]
    IN
    /\ c # NoOne /\ displayed # "unlocked"
    /\ Supersede("seat_lock")
    /\ read' = Dropped(lost) /\ wire' = FreeOf(lost)
    /\ pending' = [pending EXCEPT !["seat_lock"] = NoOne]
    /\ shown' = IF shown # NoOne /\ cmd[shown].action = "buck" THEN NoOne ELSE shown
    /\ UNCHANGED <<cmd, fol, gate, followup, feedback, status, committed,
                   revision, account, history>>

-----------------------------------------------------------------------------
(***************************************************************************)
(* Status requests (_group_update) of the tasks and of the regular poll.   *)
(***************************************************************************)
ReadRest == UNCHANGED <<calls, gate, tables, stopping, history>>
Sets(r, request) == read' = [read EXCEPT ![r] = request]
Back(r) == Sets(r, [NoRead EXCEPT !.at = IF r \in Polls THEN "none" ELSE "back"])

PollBegins(p) ==
    /\ read[p].at = "none" /\ ~stopping /\ authenticated
    /\ Sets(p, [NoRead EXCEPT !.at = "queued", !.gen = generation])
    /\ ReadRest /\ UNCHANGED <<wire, feedback, status, committed, revision,
                               generation, authenticated>>

\* The vehicle cannot be read now (it is suspect and its profile is old).
ReadSkipped(r) ==
    /\ read[r].at = "queued"
    /\ Back(r)
    /\ ReadRest /\ UNCHANGED <<wire, feedback, status, committed, revision,
                               generation, authenticated>>

ReadStarts(r) ==
    /\ read[r].at = "queued" /\ wire = NoOne /\ Owns(read[r].gen)
    /\ revision < MaxRevision /\ revision' = revision + 1
    /\ Sets(r, [read[r] EXCEPT !.at = "wire", !.rev = revision + 1, !.after = answered])
    /\ wire' = r
    /\ ReadRest /\ UNCHANGED <<feedback, status, committed, generation, authenticated>>

ReadAnswered(r) ==
    /\ read[r].at = "wire"
    /\ wire' = NoOne
    /\ \/ \E v \in Samples : Sets(r, [read[r] EXCEPT !.at = "parse", !.value = v])
          /\ UNCHANGED <<generation, authenticated, feedback>>
       \/ Sets(r, [read[r] EXCEPT !.at = "parse", !.got = "failed"])
          /\ UNCHANGED <<generation, authenticated, feedback>>
       \/ /\ generation + 2 <= MaxGeneration /\ InvalidateAuth
          /\ Sets(r, [NoRead EXCEPT !.at = "back", !.got = "auth"])
    /\ ReadRest /\ UNCHANGED <<status, committed, revision>>

\* The broker refuses the read: revision 0.
ReadRefused(r) ==
    /\ read[r].at = "queued"
    /\ Sets(r, [read[r] EXCEPT !.at = "parse", !.got = "refused"])
    /\ ReadRest /\ UNCHANGED <<wire, feedback, status, committed, revision,
                               generation, authenticated>>

Always(r) == TRUE
InTime(r) == read[r].rev = 0 \/ read[r].rev >= committed
Unlocks(v) == /\ "seat_lock" \in Locks /\ v["seat_lock"] = "unlocked"
              /\ status.value["seat_lock"] # "unlocked"

ReadCommits(r) ==
    /\ read[r].at = "parse"
    /\ Back(r)
    /\ IF ~Owns(read[r].gen) \/ ~InTime(r)
       THEN UNCHANGED <<status, committed, feedback>>
       ELSE IF read[r].got = "none"
       THEN /\ status' = [value |-> read[r].value, error |-> "none", after |-> read[r].after]
            /\ committed' = read[r].rev
            /\ feedback' = (feedback \/ Unlocks(read[r].value))
       ELSE /\ status' = [status EXCEPT !.error = read[r].got]
            /\ UNCHANGED <<committed, feedback>>
    /\ ReadRest /\ UNCHANGED <<wire, revision, generation, authenticated>>

\* The dispatcher of the poll meets a refused login: authentication is needed.
PollAuth(p) ==
    /\ read[p].at = "back" /\ read[p].got = "auth"
    /\ Sets(p, NoRead)
    /\ generation < MaxGeneration /\ InvalidateAuth
    /\ ReadRest /\ UNCHANGED <<wire, status, committed, revision>>

-----------------------------------------------------------------------------
(***************************************************************************)
(* _control_followup                                                       *)
(***************************************************************************)
FollowRest == UNCHANGED <<cmd, obs, gate, serial, versions, pending, shown, observer,
                          status, committed, revision, stopping, history>>
FollowOver(c) ==
    /\ fol' = [fol EXCEPT ![c] = "none"]
    /\ followup' = IF followup = c THEN NoOne ELSE followup
    /\ read' = Dropped({Follower(c)})

FollowAttempt(c) ==
    /\ fol[c] = "slot" /\ Owns(cmd[c].gen)
    /\ fol' = [fol EXCEPT ![c] = "read"]
    /\ read' = [read EXCEPT ![Follower(c)] = [NoRead EXCEPT !.at = "queued", !.gen = generation]]
    /\ FollowRest /\ UNCHANGED <<wire, followup, feedback, generation, authenticated>>

FollowJudge(c) ==
    /\ fol[c] = "read" /\ read[Follower(c)].at = "back"
    /\ IF read[Follower(c)].got = "auth"
       THEN generation < MaxGeneration /\ InvalidateAuth
       ELSE UNCHANGED <<generation, authenticated, feedback>>
    /\ IF Owns(cmd[c].gen) /\ status.error = "none" /\ read[Follower(c)].got # "auth"
       THEN /\ fol' = [fol EXCEPT ![c] = "slot"]
            /\ read' = Dropped({Follower(c)}) /\ UNCHANGED followup
       ELSE FollowOver(c)
    /\ FollowRest /\ UNCHANGED wire

\* Its last slot or its deadline, or an owner that changed.
FollowDisowned(c) ==
    /\ fol[c] # "none" /\ ~Owns(cmd[c].gen)
    /\ FollowOver(c) /\ wire' = FreeOf({Follower(c)})
    /\ FollowRest /\ UNCHANGED <<feedback, generation, authenticated>>
FollowEnds(c) ==
    /\ fol[c] # "none"
    /\ FollowOver(c) /\ wire' = FreeOf({Follower(c)})
    /\ FollowRest /\ UNCHANGED <<feedback, generation, authenticated>>

-----------------------------------------------------------------------------
(***************************************************************************)
(* The rest of the account and the other accounts.                         *)
(***************************************************************************)
World == <<calls, reading, wire, tables, revision, history>>

OtherEnters(o) ==
    /\ o \notin {gate[i] : i \in DOMAIN gate} /\ gate' = Append(gate, o)
    /\ UNCHANGED <<World, feedback, account>>

OtherLeaves(o) ==
    /\ gate # <<>> /\ Head(gate) = o /\ gate' = Tail(gate)
    /\ UNCHANGED <<World, feedback, account>>

\* A vehicle list that succeeds authenticates the account again.
Reauthenticated ==
    /\ ~stopping /\ authenticated' = TRUE
    /\ UNCHANGED <<World, gate, feedback, generation, stopping>>

FeedbackExpires ==
    /\ feedback /\ feedback' = FALSE
    /\ UNCHANGED <<World, gate, account>>

\* async_close cancels the callers (Cancelled) and the follow-up it knows.
ControlCloses ==
    /\ ~stopping /\ generation < MaxGeneration
    /\ stopping' = TRUE /\ generation' = generation + 1 /\ feedback' = FALSE
    /\ fol' = [c \in Calls |-> IF c = followup THEN "none" ELSE fol[c]]
    /\ followup' = NoOne
    /\ LET lost == {Follower(c) : c \in {followup} \ {NoOne}} IN
         read' = Dropped(lost) /\ wire' = FreeOf(lost)
    /\ UNCHANGED <<cmd, obs, gate, serial, versions, pending, shown, observer,
                   status, committed, revision, authenticated, history>>

-----------------------------------------------------------------------------
CommandStep(c) ==
    \/ \E a \in Actions : Call(c, a) \/ Busy(c, a)
    \/ Rejected(c) \/ Posted(c) \/ (\E p \in {"ok", "error", "auth"} : CommandAnswered(c, p))
    \/ Resume(c) \/ Readback(c) \/ ObserverEnded(c) \/ Cancelled(c) \/ Return(c)
    \/ Attempt(c) \/ NoSlot(c) \/ Deadline(c) \/ Judge(c)
    \/ FollowAttempt(c) \/ FollowJudge(c) \/ FollowEnds(c)

ReadStep(r) ==
    ReadSkipped(r) \/ ReadStarts(r) \/ ReadAnswered(r) \/ ReadRefused(r) \/ ReadCommits(r)

ControlNext ==
    \/ \E c \in Calls : CommandStep(c)
    \/ CancelSeatUnlockWait
    \/ (\E p \in Polls : PollBegins(p) \/ PollAuth(p)) \/ \E r \in Readers : ReadStep(r)
    \/ (\E o \in Others : OtherEnters(o) \/ OtherLeaves(o))
    \/ Reauthenticated \/ FeedbackExpires \/ ControlCloses

ControlSafe == ControlInit /\ [][ControlNext]_controlVars

-----------------------------------------------------------------------------
\* A command is reported as confirmed only by a status that was asked for after
\* its answer (the comparison of revisions in _confirm_lock).
ConfirmedByLaterRead ==
    [][\A c \in Calls :
         cmd'[c].conf \in {"confirmed", "observed_uncertain"} /\ cmd'[c].conf # cmd[c].conf
           => c \in status.after]_controlVars

\* The tables name the newest running call of each lock as long as it runs, and
\* nothing else; what an older call clears on its way out is its own (the
\* finally clause of async_control).
TablesNameNewest ==
    /\ \A k \in Keys : pending[k] # NoOne =>
         /\ Live(pending[k]) /\ Key(pending[k]) = k
         /\ \A c \in Calls : Live(c) /\ Key(c) = k => cmd[c].serial <= cmd[pending[k]].serial
    /\ \A c \in Calls : Live(c) /\ IsLock(c) /\ Newest(c) => pending[Key(c)] = c
    /\ shown # NoOne => Live(shown)

\* Only the newest command of a lock observes it.
OnlyNewestObserves ==
    \A k \in Keys : observer[k] # NoOne => Newest(observer[k]) /\ Key(observer[k]) = k

\* Commands of one lock reach the vehicle in the order of the calls
\* (_dispatch_control).
SentInOrder ==
    [][\A c, d \in Calls : c \in sent' \ sent /\ cmd[d].at = "gate"
         => cmd[c].serial <= cmd[d].serial]_controlVars

\* "No wire invocation occurred" (coordinator.py:1700) when a command is
\* reported as rejected.
RejectedNeverSent == \A c \in Calls : cmd[c].outcome = "rejected" => c \notin sent

\* A call that returns normally was confirmed, or made way for a newer one.
SuccessWasObserved ==
    \A c \in Calls : cmd[c].at = "over" /\ cmd[c].ret = "ok" /\ IsLock(c) =>
        \/ cmd[c].conf = "confirmed" /\ cmd[c].outcome = "accepted"
        \/ cmd[c].conf = "superseded" /\ ~Newest(c)

\* A response that comes late replaces no newer one, whether it is a status or
\* an error (the comparisons of revisions in _group_update).
LateResponsesLose ==
    [][/\ committed' >= committed
       /\ \A r \in Readers : read[r].at = "parse" /\ read'[r].at \in {"none", "back"}
            /\ read[r].rev \in 1..(committed - 1) => status' = status]_controlVars

\* "The whole follow-up ends [...] earlier on errors/unload/new commands"
\* (docs/guide.md:144).
NewCommandStopsFollowUps ==
    [][(\E c \in Calls : cmd[c].at = "idle" /\ cmd'[c].at = "gate")
         => \A c \in Calls : fol'[c] = "none"]_controlVars

(***************************************************************************)
(* Fairness: requests are answered within their deadline, tasks resume,    *)
(* deadlines pass, the commands of other accounts end.                     *)
(***************************************************************************)
Progress(c) ==
    \/ Rejected(c) \/ Posted(c) \/ (\E p \in {"ok", "error"} : CommandAnswered(c, p))
    \/ Resume(c) \/ Readback(c) \/ ObserverEnded(c) \/ (stopping /\ Cancelled(c))
    \/ NoSlot(c) \/ Deadline(c) \/ Judge(c)

ControlSpec == /\ ControlSafe
        /\ \A c \in Calls : WF_controlVars(Progress(c)) /\ WF_controlVars(FollowEnds(c))
        /\ \A o \in Others : WF_controlVars(OtherLeaves(o))

\* Every command returns to its caller, and every follow-up ends.
CommandReturns == \A c \in Calls : Live(c) ~> ~Live(c)
FollowUpsEnd   == \A c \in Calls : fol[c] # "none" ~> fol[c] = "none"

\* The tables of the coordinator and the results of its callers agree with what reached the vehicle.
ResultsAreTrue == TablesNameNewest /\ SuccessWasObserved /\ RejectedNeverSent

\* What is requested or answered out of order neither confirms a command nor replaces a newer status,
\* and commands of one lock are sent in the order of the calls.
OrderIsKept == ConfirmedByLaterRead /\ LateResponsesLose /\ SentInOrder

\* Every command returns, and what it started ends.
CommandsEnd == CommandReturns /\ FollowUpsEnd
=============================================================================
