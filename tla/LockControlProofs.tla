-------------------------- MODULE LockControlProofs --------------------------
(***************************************************************************)
(* The commands of a vehicle, for any number of calls, polls and other     *)
(* accounts: what the tables say, what a call reports, and in which order  *)
(* requests and answers count.                                             *)
(*                                                                         *)
(* Each call keeps to its course, the gate holds the calls in the order of *)
(* their serials, and the account has one request on the wire.  So a       *)
(* status that was asked for after a command was sent was asked for after  *)
(* its answer, which is what the comparison of revisions relies on.        *)
(*                                                                         *)
(* The completion events of its rides, for any number of rides: what was   *)
(* announced since the clock was last set back is known to every cursor    *)
(* there is, in memory, in the file or about to be saved.                  *)
(***************************************************************************)
EXTENDS LockControl, RideEvents, FiniteSetTheorems, SequenceTheorems, WellFoundedInduction, TLAPS

CmdStages == {"idle", "gate", "posted", "answered", "observe", "readback", "over", "done"}
CmdOutcomes == {"pending", "accepted", "uncertain", "auth", "rejected", "cancelled"}
CmdConfirmations == {"not_requested", "pending", "confirmed", "observed_uncertain",
                     "unknown", "superseded", "cancelled"}
Commands == [at : CmdStages, action : Actions \union {NoOne}, serial : Nat, gen : Nat, rev : Nat,
             reply : {"none", "ok", "error", "auth"}, outcome : CmdOutcomes,
             conf : CmdConfirmations, ret : {"none", "ok", "error", "cancelled"}]
Observers == [at : {"none", "slot", "read", "done", "cancelled"}, left : Nat, prev : Nat,
              found : BOOLEAN]
Requests == [at : {"none", "queued", "wire", "parse", "back"}, gen : Nat, rev : Nat,
             got : Errors \union {"auth"}, value : Samples \union {NoOne}, after : SUBSET Calls]

CommandsTyped ==
    /\ cmd \in [Calls -> Commands] /\ obs \in [Calls -> Observers]
    /\ serial \in Nat /\ versions \in [Keys -> Nat]
    /\ pending \in [Keys -> Calls \union {NoOne}] /\ shown \in Calls \union {NoOne}
    /\ observer \in [Keys -> Calls \union {NoOne}]
    /\ gate \in Seq(Calls \union Others) /\ generation \in Nat

RequestsTyped ==
    /\ read \in [Readers -> Requests] /\ wire \in Calls \union Readers \union {NoOne}
    /\ status \in [value : Samples \union {NoOne}, error : Errors \union {"auth"}, after : SUBSET Calls]
    /\ committed \in Nat /\ revision \in Nat /\ generation \in Nat
    /\ sent \in SUBSET Calls /\ answered \in SUBSET Calls
    /\ followup \in Calls \union {NoOne}

\* Serials are given once, in the order of the calls.
SerialInv ==
    /\ \A c \in Calls : cmd[c].serial <= serial
    /\ \A k \in Keys : versions[k] <= serial

\* The table entry of key k is the newest call under way; a bell has none.
Entered(k, p) ==
    /\ Live(p) /\ Key(p) = k
    /\ \A c \in Calls : Live(c) /\ Key(c) = k => cmd[c].serial <= cmd[p].serial
TablesInv ==
    /\ \A c \in Calls : Live(c) => cmd[c].action \in Actions
    /\ pending["bell"] = NoOne
    /\ \A k \in Keys, p \in Calls : pending[k] = p => Entered(k, p)
    /\ \A c \in Calls : Live(c) /\ IsLock(c) /\ Newest(c) => pending[Key(c)] = c
    /\ \A p \in Calls : shown = p => Live(p)

\* What a call has been through by the time it has come to a stage.
Course(c) ==
    /\ cmd[c].at \in {"idle", "gate"} =>
          cmd[c].outcome = "pending" /\ cmd[c].rev = 0 /\ c \notin sent
    /\ cmd[c].at = "posted" => cmd[c].rev > 0
    /\ cmd[c].at = "answered" /\ cmd[c].rev = 0 => cmd[c].reply = "error" /\ c \notin sent
    /\ cmd[c].at = "observe" =>
          IsLock(c) /\ cmd[c].rev > 0 /\ cmd[c].outcome \in {"accepted", "uncertain"}
    /\ cmd[c].at = "readback" => ~IsLock(c)
    /\ obs[c].at # "none" => cmd[c].at = "observe"
    /\ \A k \in Keys : observer[k] = c => cmd[c].at = "observe"
    /\ obs[c].found => 
          /\ obs[c].at = "done"
          /\ cmd[c].conf = IF cmd[c].outcome = "uncertain" THEN "observed_uncertain" ELSE "confirmed"
    /\ cmd[c].outcome = "rejected" => cmd[c].at = "over" /\ c \notin sent

\* Who is in the gate, in the order of the calls; who has sent is its holder.
GateStages == {"gate", "posted", "answered"}
AtGate(c) == cmd[c].at \in GateStages
GateInv ==
    /\ \A i \in 1 .. Len(gate) : gate[i] \in Calls => AtGate(gate[i])
    /\ \A i, j \in 1 .. Len(gate) :
          i < j /\ gate[i] \in Calls /\ gate[j] \in Calls => cmd[gate[i]].serial < cmd[gate[j]].serial
    /\ \A c \in Calls : AtGate(c) => \E i \in 1 .. Len(gate) : gate[i] = c
    /\ \A c \in Calls : cmd[c].at \in {"posted", "answered"} => gate[1] = c

\* Requests are numbered in the order they are sent; one is on the wire.
WireInv ==
    /\ \A c \in Calls : cmd[c].rev <= revision
    /\ \A r \in Readers : read[r].rev <= revision
    /\ committed <= revision
    /\ \A c \in Calls : cmd[c].at = "posted" => wire = c /\ cmd[c].rev = revision
    /\ \A r \in Readers : read[r].at = "wire" => wire = r /\ read[r].rev > 0
    /\ \A r \in Readers : read[r].at \in {"none", "queued", "back"} => read[r].rev = 0
    /\ \A r \in Readers : read[r].at = "parse" /\ read[r].got # "refused" => read[r].rev > 0

\* A status that was asked for after a command was sent was asked for after its answer.
AfterInv ==
    \A c \in Calls : cmd[c].at \in {"answered", "observe", "readback"} /\ cmd[c].rev > 0 =>
       /\ c \in answered
       /\ committed > cmd[c].rev => c \in status.after
       /\ \A r \in Readers :
             read[r].at \in {"wire", "parse"} /\ read[r].rev > cmd[c].rev => c \in read[r].after

Only(c) == \A d \in Calls \ {c} : cmd'[d] = cmd[d]
Same(c) == cmd'[c].action = cmd[c].action /\ cmd'[c].serial = cmd[c].serial /\ cmd'[c].gen = cmd[c].gen
SameRest(c) ==
    /\ cmd'[c].rev = cmd[c].rev /\ cmd'[c].reply = cmd[c].reply

LEMMA EndsDoes ==
    ASSUME CommandsTyped, NEW c \in Calls, NEW outcome \in CmdOutcomes,
           NEW conf \in CmdConfirmations, NEW ret \in {"none", "ok", "error", "cancelled"},
           Ends(c, outcome, conf, ret)
    PROVE  /\ cmd' \in [Calls -> Commands] /\ Only(c) /\ Same(c) /\ SameRest(c)
           /\ cmd'[c].at = "over" /\ cmd'[c].outcome = outcome /\ cmd'[c].conf = conf
           /\ cmd'[c].ret = ret /\ OwnOnly(c)
<1> DEFINE q == cmd[c]
           p == [q EXCEPT !.at = "over", !.outcome = outcome, !.conf = conf, !.ret = ret]
<1>1. q \in Commands
  BY DEF CommandsTyped
<1>2. /\ p \in Commands /\ p.action = q.action /\ p.serial = q.serial /\ p.gen = q.gen
      /\ p.rev = q.rev /\ p.reply = q.reply /\ p.at = "over" /\ p.outcome = outcome
      /\ p.conf = conf /\ p.ret = ret
  BY <1>1 DEF Commands, CmdStages
<1>3. cmd' = [cmd EXCEPT ![c] = p] /\ OwnOnly(c)
  BY DEF Ends, Finally
<1> HIDE DEF p
<1>4. cmd' \in [Calls -> Commands] /\ cmd'[c] = p /\ Only(c)
  BY <1>2, <1>3 DEF CommandsTyped, Only
<1> QED
  BY <1>2, <1>3, <1>4 DEF Same, SameRest

\* A call with a new record.
LEMMA NewCmd ==
    ASSUME CommandsTyped, NEW c \in Calls, NEW p \in Commands, cmd' = [cmd EXCEPT ![c] = p]
    PROVE  cmd' \in [Calls -> Commands] /\ cmd'[c] = p /\ Only(c)
BY DEF CommandsTyped, Only

LEMMA NewObs ==
    ASSUME CommandsTyped, NEW c \in Calls, NEW p \in Observers, obs' = [obs EXCEPT ![c] = p]
    PROVE  obs' \in [Calls -> Observers] /\ obs'[c] = p /\ \A d \in Calls \ {c} : obs'[d] = obs[d]
BY DEF CommandsTyped

LEMMA BusyDoes ==
    ASSUME CommandsTyped, NEW c \in Calls, NEW a \in Actions, Busy(c, a)
    PROVE  /\ cmd' \in [Calls -> Commands] /\ Only(c) /\ SameRest(c)
           /\ cmd'[c].at = "over" /\ cmd'[c].ret = "error" /\ cmd'[c].serial = cmd[c].serial
           /\ cmd'[c].outcome = cmd[c].outcome /\ cmd'[c].conf = cmd[c].conf
<1> DEFINE q == cmd[c]
           p == [q EXCEPT !.at = "over", !.action = a, !.ret = "error"]
<1>1. q \in Commands /\ cmd \in [Calls -> Commands]
  BY DEF CommandsTyped
<1>2. /\ p \in Commands /\ p.at = "over" /\ p.ret = "error" /\ p.serial = q.serial
      /\ p.outcome = q.outcome /\ p.conf = q.conf /\ p.rev = q.rev /\ p.reply = q.reply
  BY <1>1 DEF Commands, CmdStages
<1>3. cmd' = [cmd EXCEPT ![c].at = "over", ![c].action = a, ![c].ret = "error"]
  BY DEF Busy
<1>4. cmd' = [cmd EXCEPT ![c] = p]
  BY <1>1, <1>3, Zenon
<1> HIDE DEF p
<1> QED
  BY <1>2, <1>4, NewCmd DEF SameRest

\* A new version of a key.
LEMMA SupersedeDoes ==
    ASSUME CommandsTyped, NEW key \in Keys, Supersede(key)
    PROVE  /\ serial' = serial + 1 /\ versions' \in [Keys -> Nat]
           /\ versions'[key] = serial + 1 /\ \A k \in Keys \ {key} : versions'[k] = versions[k]
           /\ obs' \in [Calls -> Observers]
           /\ \A c \in Calls : \/ obs'[c] = obs[c]
                              \/ /\ c = observer[key] /\ obs[c].at # "done"
                                 /\ obs'[c].at = "cancelled" /\ obs'[c].found = obs[c].found
<1>1. /\ serial' = serial + 1 /\ versions' = [versions EXCEPT ![key] = serial + 1]
      /\ serial \in Nat /\ versions \in [Keys -> Nat] /\ obs \in [Calls -> Observers]
  BY DEF CommandsTyped, Supersede
<1>2. ASSUME NEW c \in Calls
      PROVE  /\ obs'[c] \in Observers
             /\ \/ obs'[c] = obs[c]
                \/ /\ c = observer[key] /\ obs[c].at # "done"
                   /\ obs'[c].at = "cancelled" /\ obs'[c].found = obs[c].found
  <2> DEFINE q == obs[c]
             p == [q EXCEPT !.at = "cancelled"]
  <2>1. q \in Observers
    BY <1>1
  <2>2. p \in Observers /\ p.at = "cancelled" /\ p.found = q.found
    BY <2>1 DEF Observers
  <2>3. obs'[c] = IF c = observer[key] /\ q.at # "done" THEN p ELSE q
    BY DEF Supersede
  <2> QED
    BY <2>1, <2>2, <2>3
<1>3. obs' = [c \in Calls |-> obs'[c]]
  BY DEF Supersede
<1> QED
  BY <1>1, <1>2, <1>3

LEMMA CallDoes ==
    ASSUME CommandsTyped, NEW c \in Calls, NEW a \in Actions, Call(c, a),
           cmd[c].at = "idle" => cmd[c].outcome = "pending"
    PROVE  /\ cmd[c].at = "idle"
           /\ cmd' \in [Calls -> Commands] /\ Only(c) /\ SameRest(c)
           /\ cmd'[c].action = a /\ cmd'[c].serial = serial + 1 /\ cmd'[c].outcome = cmd[c].outcome
           /\ \/ /\ cmd'[c].at = "gate" /\ gate' = Append(gate, c)
                 /\ IF a \in DOMAIN LockTargets
                    THEN pending' = [pending EXCEPT ![LockTargets[a].lock] = c] /\ shown' = c
                    ELSE UNCHANGED <<pending, shown>>
              \/ /\ cmd'[c].at = "over" /\ cmd'[c].ret = "error"
                 /\ UNCHANGED <<pending, shown, gate>>
<1> DEFINE q == cmd[c]
           conf == IF a \in DOMAIN LockTargets THEN "pending" ELSE q.conf
           n == serial + 1
           p == [q EXCEPT !.at = "gate", !.action = a, !.serial = n, !.gen = generation,
                          !.conf = conf]
           o == [q EXCEPT !.at = "over", !.action = a, !.serial = n, !.ret = "error"]
<1>1. q \in Commands /\ cmd \in [Calls -> Commands] /\ serial \in Nat /\ generation \in Nat
  BY DEF CommandsTyped
<1>2. conf \in CmdConfirmations /\ n \in Nat
  BY <1>1 DEF Commands, CmdConfirmations
<1> HIDE DEF conf, n
<1>3. /\ p \in Commands /\ p.at = "gate" /\ p.action = a /\ p.serial = n
      /\ p.outcome = q.outcome /\ p.rev = q.rev /\ p.reply = q.reply
  BY <1>1, <1>2 DEF Commands, CmdStages
<1>4. /\ o \in Commands /\ o.at = "over" /\ o.ret = "error" /\ o.action = a /\ o.serial = n
      /\ o.outcome = q.outcome /\ o.rev = q.rev /\ o.reply = q.reply
  <2>1. o \in Commands
    BY <1>1, <1>2 DEF Commands, CmdStages
  <2> QED
    BY <1>1, <1>2, <2>1 DEF Commands, CmdStages
<1>5. serial' = serial + 1 /\ cmd[c].at = "idle"
  BY DEF Call, Supersede
<1>6. CASE /\ cmd' = [cmd EXCEPT ![c].at = "gate", ![c].action = a,
                 ![c].serial = serial', ![c].gen = generation,
                 ![c].conf = IF a \in DOMAIN LockTargets THEN "pending" ELSE @]
           /\ IF a \in DOMAIN LockTargets
              THEN pending' = [pending EXCEPT ![LockTargets[a].lock] = c] /\ shown' = c
              ELSE UNCHANGED <<pending, shown>>
           /\ gate' = Append(gate, c)
  <2>1. cmd' = [cmd EXCEPT ![c] = p]
    BY <1>1, <1>5, <1>6 DEF conf, n
  <2> HIDE DEF p
  <2> QED
    BY <1>3, <1>5, <1>6, <2>1, NewCmd DEF SameRest, n
<1>7. CASE /\ cmd' = [cmd EXCEPT ![c].at = "over", ![c].action = a,
                 ![c].serial = serial', ![c].ret = "error"]
           /\ UNCHANGED <<pending, shown, gate>>
  <2>1. cmd' = [cmd EXCEPT ![c] = o]
    BY <1>1, <1>5, <1>7 DEF n
  <2> HIDE DEF o
  <2> QED
    BY <1>4, <1>5, <1>7, <2>1, NewCmd DEF SameRest, n
<1> QED
  BY <1>6, <1>7 DEF Call

LEMMA RejectedDoes ==
    ASSUME CommandsTyped, NEW c \in Calls, Rejected(c)
    PROVE  /\ cmd' \in [Calls -> Commands] /\ Only(c) /\ Same(c)
           /\ cmd'[c].at = "answered" /\ cmd'[c].reply = "error" /\ cmd'[c].rev = cmd[c].rev
           /\ cmd'[c].outcome = cmd[c].outcome /\ cmd'[c].conf = cmd[c].conf
<1> DEFINE q == cmd[c]
           p == [q EXCEPT !.at = "answered", !.reply = "error"]
<1>1. q \in Commands /\ cmd \in [Calls -> Commands]
  BY DEF CommandsTyped
<1>2. /\ p \in Commands /\ p.at = "answered" /\ p.reply = "error" /\ p.rev = q.rev
      /\ p.outcome = q.outcome /\ p.conf = q.conf
      /\ p.action = q.action /\ p.serial = q.serial /\ p.gen = q.gen
  BY <1>1 DEF Commands, CmdStages
<1>3. cmd' = [cmd EXCEPT ![c].at = "answered", ![c].reply = "error"]
  BY DEF Rejected
<1>4. cmd' = [cmd EXCEPT ![c] = p]
  BY <1>1, <1>3, Zenon
<1> HIDE DEF p
<1> QED
  BY <1>2, <1>4, NewCmd DEF Same

LEMMA PostedDoes ==
    ASSUME CommandsTyped, revision \in Nat, NEW c \in Calls, Posted(c)
    PROVE  /\ cmd' \in [Calls -> Commands] /\ Only(c) /\ Same(c)
           /\ cmd'[c].at = "posted" /\ cmd'[c].rev = revision + 1
           /\ cmd'[c].outcome = cmd[c].outcome /\ cmd'[c].conf = cmd[c].conf
<1> DEFINE q == cmd[c]
           n == revision + 1
           p == [q EXCEPT !.at = "posted", !.rev = n]
<1>1. q \in Commands /\ cmd \in [Calls -> Commands] /\ n \in Nat
  BY DEF CommandsTyped
<1> HIDE DEF n
<1>2. /\ p \in Commands /\ p.at = "posted" /\ p.rev = n
      /\ p.outcome = q.outcome /\ p.conf = q.conf
      /\ p.action = q.action /\ p.serial = q.serial /\ p.gen = q.gen
  BY <1>1 DEF Commands, CmdStages
<1>3. cmd' = [cmd EXCEPT ![c].at = "posted", ![c].rev = n]
  BY DEF Posted, n
<1>4. cmd' = [cmd EXCEPT ![c] = p]
  BY <1>1, <1>3, Zenon
<1> HIDE DEF p
<1> QED
  BY <1>2, <1>4, NewCmd DEF Same, n

LEMMA AnsweredDoes ==
    ASSUME CommandsTyped, NEW c \in Calls, NEW reply \in {"ok", "error", "auth"},
           CommandAnswered(c, reply)
    PROVE  /\ cmd' \in [Calls -> Commands] /\ Only(c) /\ Same(c)
           /\ cmd'[c].at = "answered" /\ cmd'[c].reply = reply /\ cmd'[c].rev = cmd[c].rev
           /\ cmd'[c].outcome = cmd[c].outcome /\ cmd'[c].conf = cmd[c].conf
<1> DEFINE q == cmd[c]
           p == [q EXCEPT !.at = "answered", !.reply = reply]
<1>1. q \in Commands /\ cmd \in [Calls -> Commands]
  BY DEF CommandsTyped
<1>2. /\ p \in Commands /\ p.at = "answered" /\ p.reply = reply /\ p.rev = q.rev
      /\ p.outcome = q.outcome /\ p.conf = q.conf
      /\ p.action = q.action /\ p.serial = q.serial /\ p.gen = q.gen
  BY <1>1 DEF Commands, CmdStages
<1>3. cmd' = [cmd EXCEPT ![c].at = "answered", ![c].reply = reply]
  BY DEF CommandAnswered
<1>4. cmd' = [cmd EXCEPT ![c] = p]
  BY <1>1, <1>3, Zenon
<1> HIDE DEF p
<1> QED
  BY <1>2, <1>4, NewCmd DEF Same

\* What the observer of a command changes of its record.
LEMMA ConfDoes ==
    ASSUME CommandsTyped, NEW c \in Calls, NEW conf \in CmdConfirmations,
           cmd' = [cmd EXCEPT ![c].conf = conf]
    PROVE  /\ cmd' \in [Calls -> Commands] /\ Only(c) /\ Same(c) /\ SameRest(c)
           /\ cmd'[c].at = cmd[c].at /\ cmd'[c].outcome = cmd[c].outcome
           /\ cmd'[c].conf = conf /\ cmd'[c].ret = cmd[c].ret
<1> DEFINE q == cmd[c]
           p == [q EXCEPT !.conf = conf]
<1>1. q \in Commands /\ cmd \in [Calls -> Commands]
  BY DEF CommandsTyped
<1>2. /\ p \in Commands /\ p.at = q.at /\ p.reply = q.reply /\ p.rev = q.rev
      /\ p.outcome = q.outcome /\ p.conf = conf /\ p.ret = q.ret
      /\ p.action = q.action /\ p.serial = q.serial /\ p.gen = q.gen
  BY <1>1 DEF Commands
<1>4. cmd' = [cmd EXCEPT ![c] = p]
  BY <1>1, Zenon
<1> HIDE DEF p
<1> QED
  BY <1>2, <1>4, NewCmd DEF Same, SameRest

LEMMA ObservesDoes ==
    ASSUME CommandsTyped, NEW c \in Calls, NEW outcome \in {"accepted", "uncertain"},
           NEW at \in {"observe", "readback"}, cmd' = [cmd EXCEPT ![c].outcome = outcome, ![c].at = at]
    PROVE  /\ cmd' \in [Calls -> Commands] /\ Only(c) /\ Same(c) /\ SameRest(c)
           /\ cmd'[c].at = at /\ cmd'[c].outcome = outcome
<1> DEFINE q == cmd[c]
           p == [q EXCEPT !.outcome = outcome, !.at = at]
<1>1. q \in Commands /\ cmd \in [Calls -> Commands]
  BY DEF CommandsTyped
<1>2. /\ p \in Commands /\ p.at = at /\ p.reply = q.reply /\ p.rev = q.rev
      /\ p.outcome = outcome
      /\ p.action = q.action /\ p.serial = q.serial /\ p.gen = q.gen
  BY <1>1 DEF Commands, CmdStages, CmdOutcomes
<1>4. cmd' = [cmd EXCEPT ![c] = p]
  BY <1>1, Zenon
<1> HIDE DEF p
<1> QED
  BY <1>2, <1>4, NewCmd DEF Same, SameRest

LEMMA ReturnDoes ==
    ASSUME CommandsTyped, NEW c \in Calls, Return(c)
    PROVE  /\ cmd' \in [Calls -> Commands] /\ Only(c)
           /\ cmd'[c].at = "done" /\ cmd'[c].serial = 0 /\ cmd'[c].rev = 0
           /\ cmd'[c].outcome = "pending"
<1> DEFINE q == cmd[c]
           p == [NoCall EXCEPT !.at = "done", !.gen = q.gen]
<1>1. q \in Commands /\ cmd \in [Calls -> Commands]
  BY DEF CommandsTyped
<1>2. /\ p \in Commands /\ p.at = "done" /\ p.serial = 0 /\ p.rev = 0
      /\ p.outcome = "pending"
  BY <1>1 DEF Commands, CmdStages, CmdOutcomes, CmdConfirmations, NoCall
<1>4. cmd' = [cmd EXCEPT ![c] = p]
  BY DEF Return
<1> HIDE DEF p
<1> QED
  BY <1>2, <1>4, NewCmd

-----------------------------------------------------------------------------
LEMMA TablesAreNamed ==
    ASSUME CommandsTyped, TablesInv PROVE TablesNameNewest
<1>1. \A k \in Keys : pending[k] # NoOne => Entered(k, pending[k])
  BY DEF CommandsTyped, TablesInv
<1>2. shown # NoOne => Live(shown)
  BY DEF CommandsTyped, TablesInv
<1> QED
  BY <1>1, <1>2 DEF TablesNameNewest, TablesInv, Entered

Tables == <<serial, versions, pending, shown>>

\* A lock's key.
LEMMA KeyIs ==
    ASSUME TablesInv, NEW c \in Calls, Live(c)
    PROVE  Key(c) \in Keys /\ (IsLock(c) => Key(c) \in Keys \ {"bell"}) /\ (~IsLock(c) => Key(c) = "bell")
BY ControlAssumption DEF TablesInv, Key, IsLock, Keys, LockTargets

LEMMA TablesRest ==
    ASSUME SerialInv, TablesInv, UNCHANGED Tables,
           \A d \in Calls : /\ cmd'[d].action = cmd[d].action /\ cmd'[d].serial = cmd[d].serial
                            /\ Live(d)' = Live(d)
    PROVE  SerialInv' /\ TablesInv'
<1>1. \A d \in Calls : Key(d)' = Key(d) /\ IsLock(d)' = IsLock(d) /\ Newest(d)' = Newest(d)
  BY DEF Key, IsLock, Newest, Tables
<1>2. SerialInv'
  BY DEF SerialInv, Tables
<1>3. \A k \in Keys, p \in Calls : Entered(k, p)' = Entered(k, p)
  BY <1>1 DEF Entered
<1> QED
  BY <1>1, <1>2, <1>3 DEF TablesInv, Tables

\* A command that ends takes its own entries with it.
LEMMA TablesEnd ==
    ASSUME CommandsTyped, NoOne \notin Calls, SerialInv, TablesInv, NEW c \in Calls, Only(c), Same(c),
           cmd'[c].at = "over", OwnOnly(c), UNCHANGED <<serial, versions>>
    PROVE  SerialInv' /\ TablesInv'
<1>1. \A d \in Calls : /\ Key(d)' = Key(d) /\ IsLock(d)' = IsLock(d) /\ Newest(d)' = Newest(d)
                       /\ Live(d)' => Live(d) /\ d # c
                       /\ d # c => Live(d)' = Live(d)
                       /\ cmd'[d].serial = cmd[d].serial /\ cmd'[d].action = cmd[d].action
  <2> TAKE d \in Calls
  <2>1. CASE d = c
    BY <2>1 DEF Key, IsLock, Newest, Live, Same
  <2>2. CASE d # c
    BY <2>2 DEF Key, IsLock, Newest, Live, Only
  <2> QED
    BY <2>1, <2>2
<1>2. /\ \A k \in Keys : pending'[k] = IF pending[k] = c THEN NoOne ELSE pending[k]
      /\ shown' = IF shown = c THEN NoOne ELSE shown
  BY DEF OwnOnly
<1>3. SerialInv'
  BY <1>1 DEF SerialInv
<1>4. \A k \in Keys, p \in Calls : pending'[k] = p => pending[k] = p /\ p # c
  BY <1>2
<1>5. \A k \in Keys, p \in Calls : Entered(k, p) /\ p # c => Entered(k, p)'
  BY <1>1 DEF Entered
<1>6. \A d \in Calls : Live(d)' /\ IsLock(d)' /\ Newest(d)' => pending'[Key(d)'] = d
  <2> TAKE d \in Calls
  <2> HAVE Live(d)' /\ IsLock(d)' /\ Newest(d)'
  <2>1. Live(d) /\ IsLock(d) /\ Newest(d) /\ d # c /\ Key(d)' = Key(d)
    BY <1>1
  <2>2. Key(d) \in Keys /\ pending[Key(d)] = d
    BY <2>1, KeyIs DEF TablesInv
  <2> QED
    BY <1>2, <2>1, <2>2
<1>7. \A p \in Calls : shown' = p => Live(p)'
  BY <1>1, <1>2 DEF TablesInv
<1> QED
  BY <1>1, <1>2, <1>3, <1>4, <1>5, <1>6, <1>7 DEF TablesInv, Keys

\* A call that neither was nor is under way is in no table.
LEMMA TablesOut ==
    ASSUME CommandsTyped, NoOne \notin Calls, SerialInv, TablesInv, NEW c \in Calls, Only(c),
           ~Live(c), ~Live(c)', cmd'[c].serial <= serial, UNCHANGED Tables
    PROVE  SerialInv' /\ TablesInv'
<1>1. \A d \in Calls : d # c => /\ Key(d)' = Key(d) /\ IsLock(d)' = IsLock(d) /\ Newest(d)' = Newest(d)
                       /\ Live(d)' = Live(d)
                       /\ cmd'[d].serial = cmd[d].serial /\ cmd'[d].action = cmd[d].action
  BY DEF Key, IsLock, Newest, Live, Only, Tables
<1>2. UNCHANGED <<pending, shown, serial, versions>>
  BY DEF Tables
<1>3. SerialInv'
  BY <1>1, <1>2 DEF SerialInv
<1>4. \A k \in Keys, p \in Calls : Entered(k, p) => Entered(k, p)'
  BY <1>1 DEF Entered
<1> QED
  BY <1>1, <1>2, <1>3, <1>4 DEF TablesInv

\* A new call is newer than every other.
LEMMA TablesCall ==
    ASSUME CommandsTyped, NoOne \notin Calls, SerialInv, TablesInv, NEW c \in Calls, NEW a \in Actions,
           Call(c, a), cmd[c].at = "idle" => cmd[c].outcome = "pending"
    PROVE  SerialInv' /\ TablesInv'
<1> DEFINE key == IF a \in DOMAIN LockTargets THEN LockTargets[a].lock ELSE a
<1>1. key \in Keys /\ (a \notin DOMAIN LockTargets => a = "bell" /\ key = "bell")
      /\ (a \in DOMAIN LockTargets => key # "bell")
  BY ControlAssumption DEF Keys, LockTargets
<1>2. Supersede(key)
  BY DEF Call
<1>3. /\ serial' = serial + 1 /\ versions' \in [Keys -> Nat]
      /\ versions'[key] = serial + 1 /\ \A k \in Keys \ {key} : versions'[k] = versions[k]
  BY <1>1, <1>2, SupersedeDoes
<1>4. /\ cmd[c].at = "idle" /\ cmd' \in [Calls -> Commands] /\ Only(c)
      /\ cmd'[c].action = a /\ cmd'[c].serial = serial + 1
      /\ \/ /\ cmd'[c].at = "gate"
            /\ IF a \in DOMAIN LockTargets THEN pending' = [pending EXCEPT ![key] = c] /\ shown' = c
               ELSE UNCHANGED <<pending, shown>>
         \/ cmd'[c].at = "over" /\ UNCHANGED <<pending, shown>>
  BY CallDoes
<1>5. serial \in Nat /\ \A d \in Calls : cmd[d].serial \in Nat
  BY DEF CommandsTyped, Commands
<1>6. SerialInv'
  <2>1. \A d \in Calls : cmd'[d].serial <= serial + 1
    BY <1>4, <1>5 DEF SerialInv, Only
  <2>2. ASSUME NEW k \in Keys PROVE versions'[k] <= serial + 1
    <3>1. versions[k] \in Nat /\ versions[k] <= serial
      BY DEF SerialInv, CommandsTyped
    <3> QED
      BY <1>3, <1>5, <3>1
  <2> QED
    BY <1>3, <2>1, <2>2 DEF SerialInv
<1>7. \A d \in Calls : d # c => /\ Key(d)' = Key(d) /\ IsLock(d)' = IsLock(d) /\ Live(d)' = Live(d)
                       /\ cmd'[d].serial = cmd[d].serial /\ cmd'[d].action = cmd[d].action
                       /\ cmd[d].serial < serial + 1
  BY <1>4, <1>5 DEF Key, IsLock, Live, Only, SerialInv
<1>8. Key(c)' = key /\ (IsLock(c)' <=> a \in DOMAIN LockTargets) /\ ~Live(c)
      /\ (Live(c)' <=> cmd'[c].at = "gate")
  BY <1>4 DEF Key, IsLock, Live
<1>9. \A d \in Calls : d # c /\ Live(d)' /\ Newest(d)' => Newest(d) /\ Key(d) # key
  <2> TAKE d \in Calls
  <2> HAVE d # c /\ Live(d)' /\ Newest(d)'
  <2>1. versions'[Key(d)] = cmd[d].serial /\ cmd[d].serial < serial + 1 /\ Live(d)
    BY <1>7 DEF Newest
  <2>2. Key(d) \in Keys
    BY <2>1, KeyIs
  <2> QED
    BY <1>3, <1>5, <2>1, <2>2 DEF Newest
<1>10. \A d \in Calls : Live(d)' => cmd'[d].action \in Actions
  BY <1>4, <1>7 DEF TablesInv
<1>11. CASE cmd'[c].at = "gate" /\ a \in DOMAIN LockTargets
  <2>1. pending' = [pending EXCEPT ![key] = c] /\ shown' = c /\ Live(c)'
    BY <1>4, <1>8, <1>11
  <2>2. Entered(key, c)'
    BY <1>4, <1>5, <1>7, <1>8, <2>1 DEF Entered
  <2>3. \A k \in Keys, p \in Calls : k # key /\ pending[k] = p => Entered(k, p)'
    <3> TAKE k \in Keys, p \in Calls
    <3> HAVE k # key /\ pending[k] = p
    <3>1. Entered(k, p) /\ p # c
      BY <1>8 DEF TablesInv, Entered
    <3> QED
      BY <1>7, <1>8, <3>1 DEF Entered
  <2>4. \A k \in Keys, p \in Calls : pending'[k] = p => Entered(k, p)'
    BY <2>1, <2>2, <2>3 DEF CommandsTyped
  <2>5. \A d \in Calls : Live(d)' /\ IsLock(d)' /\ Newest(d)' => pending'[Key(d)'] = d
    <3> TAKE d \in Calls
    <3> HAVE Live(d)' /\ IsLock(d)' /\ Newest(d)'
    <3>1. CASE d = c
      BY <1>1, <1>8, <2>1, <3>1 DEF CommandsTyped
    <3>2. CASE d # c
      BY <1>1, <1>7, <1>9, <2>1, <3>2, KeyIs DEF TablesInv, CommandsTyped
    <3> QED
      BY <3>1, <3>2
  <2>6. pending'["bell"] = NoOne
    BY <1>1, <1>11, <2>1 DEF TablesInv, CommandsTyped, Keys
  <2> QED
    BY <1>6, <1>10, <2>1, <2>4, <2>5, <2>6 DEF TablesInv
<1>12. CASE ~(cmd'[c].at = "gate" /\ a \in DOMAIN LockTargets)
  <2>1. UNCHANGED <<pending, shown>> /\ (Live(c)' => key = "bell" /\ ~IsLock(c)')
    BY <1>1, <1>4, <1>8, <1>12
  <2>3. \A k \in Keys, p \in Calls : pending[k] = p => Entered(k, p)'
    <3> TAKE k \in Keys, p \in Calls
    <3> HAVE pending[k] = p
    <3>1. Entered(k, p) /\ p # c
      BY <1>8 DEF TablesInv, Entered
    <3>2. k # "bell"
      BY DEF TablesInv
    <3> QED
      BY <1>7, <1>8, <2>1, <3>1, <3>2 DEF Entered
  <2>5. \A d \in Calls : Live(d)' /\ IsLock(d)' /\ Newest(d)' => pending'[Key(d)'] = d
    BY <1>7, <1>9, <2>1 DEF TablesInv
  <2>6. \A p \in Calls : shown' = p => Live(p)'
    BY <1>7, <1>8, <2>1 DEF TablesInv
  <2> QED
    BY <1>6, <1>10, <2>1, <2>3, <2>5, <2>6 DEF TablesInv
<1> QED
  BY <1>11, <1>12

\* Giving up the wait for the seat is a new version of its key.
LEMMA TablesSeat ==
    ASSUME CommandsTyped, NoOne \notin Calls, SerialInv, TablesInv, CancelSeatUnlockWait
    PROVE  SerialInv' /\ TablesInv'
<1>1. /\ cmd' = cmd /\ Supersede("seat_lock") /\ "seat_lock" \in Keys
      /\ pending' = [pending EXCEPT !["seat_lock"] = NoOne]
      /\ shown' = shown \/ shown' = NoOne
  BY DEF CancelSeatUnlockWait, Keys
<1>3. /\ serial' = serial + 1 /\ versions' \in [Keys -> Nat]
      /\ versions'["seat_lock"] = serial + 1
      /\ \A k \in Keys \ {"seat_lock"} : versions'[k] = versions[k]
  BY <1>1, SupersedeDoes
<1>5. serial \in Nat /\ \A d \in Calls : cmd[d].serial \in Nat
  BY DEF CommandsTyped, Commands
<1>6. SerialInv'
  <2>1. \A d \in Calls : cmd'[d].serial <= serial'
    BY <1>1, <1>3, <1>5 DEF SerialInv
  <2>2. ASSUME NEW k \in Keys PROVE versions'[k] <= serial'
    <3>1. versions[k] \in Nat /\ versions[k] <= serial
      BY DEF SerialInv, CommandsTyped
    <3> QED
      BY <1>3, <1>5, <3>1
  <2> QED
    BY <2>1, <2>2 DEF SerialInv
<1>7. \A d \in Calls : Key(d)' = Key(d) /\ IsLock(d)' = IsLock(d) /\ Live(d)' = Live(d)
  BY <1>1 DEF Key, IsLock, Live
<1>8. \A k \in Keys, p \in Calls : Entered(k, p)' = Entered(k, p)
  BY <1>1, <1>7 DEF Entered
<1>9. \A d \in Calls : Live(d)' /\ IsLock(d)' /\ Newest(d)' => pending'[Key(d)'] = d
  <2> TAKE d \in Calls
  <2> HAVE Live(d)' /\ IsLock(d)' /\ Newest(d)'
  <2>1. versions'[Key(d)] = cmd[d].serial /\ cmd[d].serial <= serial /\ Live(d) /\ IsLock(d)
    BY <1>1, <1>7 DEF Newest, SerialInv
  <2>2. Key(d) \in Keys \ {"seat_lock"}
    BY <1>3, <1>5, <2>1, KeyIs
  <2>3. Newest(d) /\ pending[Key(d)] = d
    BY <1>3, <2>1, <2>2 DEF Newest, TablesInv
  <2> QED
    BY <1>1, <1>7, <2>2, <2>3 DEF CommandsTyped
<1> QED
  BY <1>1, <1>6, <1>7, <1>8, <1>9 DEF TablesInv, CommandsTyped, Keys

-----------------------------------------------------------------------------
\* The course of a call, and what it returns.
SuccessOf(c) ==
    cmd[c].at = "over" /\ cmd[c].ret = "ok" /\ IsLock(c) =>
        \/ cmd[c].conf = "confirmed" /\ cmd[c].outcome = "accepted"
        \/ cmd[c].conf = "superseded" /\ ~Newest(c)
RunInv(c) == Course(c) /\ SuccessOf(c)

\* What the others do leaves a call in its course: they may cancel its observer, give its lock a
\* newer version, or give it up before it is observed.
LEMMA RunRests ==
    ASSUME CommandsTyped, SerialInv, TablesInv, NEW c \in Calls, RunInv(c), cmd'[c] = cmd[c],
           c \in sent' <=> c \in sent,
           \/ obs'[c] = obs[c]
           \/ /\ cmd[c].at = "observe" /\ obs[c].at # "done"
              /\ obs'[c].at = "cancelled" /\ obs'[c].found = obs[c].found,
           \A k \in Keys : observer'[k] = c => observer[k] = c,
           \A k \in Keys : versions'[k] = versions[k] \/ versions'[k] = serial + 1
    PROVE  RunInv(c)'
<1>1. Key(c)' = Key(c) /\ IsLock(c)' = IsLock(c)
  BY DEF Key, IsLock
<1>2. Course(c)'
  BY <1>1 DEF RunInv, Course
<1>3. SuccessOf(c)'
  <2> SUFFICES ASSUME cmd[c].at = "over", cmd[c].ret = "ok", IsLock(c)
               PROVE \/ cmd[c].conf = "confirmed" /\ cmd[c].outcome = "accepted"
                     \/ cmd[c].conf = "superseded" /\ ~Newest(c)'
    BY <1>1 DEF SuccessOf
  <2>1. CASE ~Newest(c) /\ cmd[c].conf = "superseded"
    <3>1. Key(c) \in Keys
      BY DEF Key, IsLock, Keys, LockTargets
    <3>2. cmd[c].serial <= serial /\ cmd[c].serial \in Nat /\ serial \in Nat
      BY DEF SerialInv, CommandsTyped, Commands
    <3> QED
      BY <1>1, <2>1, <3>1, <3>2 DEF Newest
  <2> QED
    BY <2>1 DEF RunInv, SuccessOf
<1> QED
  BY <1>2, <1>3 DEF RunInv

-----------------------------------------------------------------------------
\* The gate.
LEMMA GateIs ==
    ASSUME CommandsTyped
    PROVE  /\ Len(gate) \in Nat /\ DOMAIN gate = 1 .. Len(gate)
           /\ \A i \in 1 .. Len(gate) : gate[i] \in Calls \union Others
           /\ gate # <<>> => Head(gate) = gate[1] /\ Len(gate) > 0
           /\ Len(gate) > 0 => gate # <<>>
BY LenProperties DEF CommandsTyped

LEMMA GateRest ==
    ASSUME CommandsTyped, GateInv, UNCHANGED gate,
           \A d \in Calls : /\ AtGate(d)' = AtGate(d)
                            /\ AtGate(d) => cmd'[d].serial = cmd[d].serial
                            /\ cmd'[d].at \in {"posted", "answered"} =>
                                  cmd[d].at \in {"posted", "answered"} \/ gate[1] = d
    PROVE  GateInv'
BY GateIs DEF GateInv

\* The holder of the gate leaves it.
LEMMA GateLeft ==
    ASSUME CommandsTyped, GateInv, gate # <<>>, gate' = Tail(gate), 
           \A d \in Calls : d # gate[1] =>
               /\ cmd'[d].at = cmd[d].at /\ cmd'[d].serial = cmd[d].serial,
           \A d \in Calls : d = gate[1] => ~AtGate(d)'
    PROVE  GateInv' /\ gate' \in Seq(Calls \union Others)
<1>1. /\ Len(gate) \in Nat \ {0} /\ \A i \in 1 .. Len(gate) : gate[i] \in Calls \union Others
      /\ gate' \in Seq(Calls \union Others) /\ Len(gate') = Len(gate) - 1
      /\ \A i \in 1 .. Len(gate) - 1 : gate'[i] = gate[i + 1]
  BY GateIs, HeadTailProperties DEF CommandsTyped
<1>2. \A i \in 2 .. Len(gate) : gate[i] \in Calls => gate[i] # gate[1]
  <2> TAKE i \in 2 .. Len(gate)
  <2> HAVE gate[i] \in Calls
  <2> SUFFICES ASSUME gate[i] = gate[1] PROVE FALSE
    OBVIOUS
  <2>1. cmd[gate[1]].serial < cmd[gate[i]].serial
    BY <1>1 DEF GateInv
  <2>2. cmd[gate[1]].serial \in Nat
    BY DEF CommandsTyped, Commands
  <2> QED
    BY <2>1, <2>2
<1>3. \A d \in Calls : d # gate[1] => AtGate(d)' = AtGate(d)
  BY DEF AtGate
<1>4. \A i \in 1 .. Len(gate') : gate'[i] \in Calls => cmd'[gate'[i]].at \in GateStages
  <2> TAKE i \in 1 .. Len(gate')
  <2> HAVE gate'[i] \in Calls
  <2>1. PICK d \in Calls : d = gate'[i]
    OBVIOUS
  <2>2. d = gate[i + 1] /\ i + 1 \in 2 .. Len(gate)
    BY <1>1, <2>1
  <2>3. AtGate(d) /\ d # gate[1]
    BY <1>1, <1>2, <2>2 DEF GateInv
  <2>4. AtGate(d)'
    BY <1>3, <2>3
  <2> QED
    BY <2>1, <2>4 DEF AtGate
<1>5. \A i, j \in 1 .. Len(gate') :
          i < j /\ gate'[i] \in Calls /\ gate'[j] \in Calls
             => cmd'[gate'[i]].serial < cmd'[gate'[j]].serial
  <2> TAKE i, j \in 1 .. Len(gate')
  <2> HAVE i < j /\ gate'[i] \in Calls /\ gate'[j] \in Calls
  <2>1. /\ gate'[i] = gate[i + 1] /\ gate'[j] = gate[j + 1] /\ i + 1 < j + 1
        /\ i + 1 \in 2 .. Len(gate) /\ j + 1 \in 2 .. Len(gate)
    BY <1>1
  <2>2. cmd[gate[i + 1]].serial < cmd[gate[j + 1]].serial
    BY <1>1, <2>1 DEF GateInv
  <2> QED
    BY <1>2, <2>1, <2>2
<1>6. \A d \in Calls : AtGate(d)' => \E i \in 1 .. Len(gate') : gate'[i] = d
  <2> TAKE d \in Calls
  <2> HAVE AtGate(d)'
  <2>1. d # gate[1] /\ AtGate(d)
    BY <1>3
  <2>2. PICK j \in 1 .. Len(gate) : gate[j] = d
    BY <2>1 DEF GateInv
  <2>3. j - 1 \in 1 .. Len(gate') /\ gate'[j - 1] = d
    BY <1>1, <2>1, <2>2
  <2> QED
    BY <2>3
<1>7. \A d \in Calls : cmd'[d].at \in {"posted", "answered"} => gate'[1] = d
  <2> TAKE d \in Calls
  <2> HAVE cmd'[d].at \in {"posted", "answered"}
  <2>1. d # gate[1]
    BY DEF AtGate, GateStages
  <2> QED
    BY <2>1 DEF GateInv
<1> QED
  BY <1>1, <1>4, <1>5, <1>6, <1>7 DEF GateInv, AtGate

\* A call queues up behind the others.
LEMMA GateJoined ==
    ASSUME CommandsTyped, SerialInv, GateInv, NEW c \in Calls, ~AtGate(c), gate' = Append(gate, c), Only(c),
           cmd'[c].at = "gate", cmd'[c].serial = serial + 1
    PROVE  GateInv' /\ gate' \in Seq(Calls \union Others)
<1> DEFINE n == Len(gate) + 1
<1>1. /\ Len(gate) \in Nat /\ gate' \in Seq(Calls \union Others) /\ Len(gate') = n
      /\ \A i \in 1 .. Len(gate) : gate'[i] = gate[i]
      /\ gate'[n] = c
  BY GateIs, AppendProperties DEF CommandsTyped
<1>2. \A d \in Calls : d # c => AtGate(d)' = AtGate(d) /\ cmd'[d].serial = cmd[d].serial
  BY DEF AtGate, Only
<1>3. \A i \in 1 .. Len(gate) : gate[i] # c
  BY DEF GateInv
<1>4. AtGate(c)'
  BY DEF AtGate, GateStages
<1>5. \A i \in 1 .. Len(gate') : gate'[i] \in Calls => cmd'[gate'[i]].at \in GateStages
  <2> TAKE i \in 1 .. Len(gate')
  <2> HAVE gate'[i] \in Calls
  <2>1. PICK d \in Calls : d = gate'[i]
    OBVIOUS
  <2>2. AtGate(d)'
    <3>1. CASE i = n
      BY <1>1, <1>4, <2>1, <3>1
    <3>2. CASE i # n
      <4>1. i \in 1 .. Len(gate) /\ d = gate[i]
        BY <1>1, <2>1, <3>2
      <4> QED
        BY <1>2, <1>3, <4>1 DEF GateInv
    <3> QED
      BY <3>1, <3>2
  <2> QED
    BY <2>1, <2>2 DEF AtGate
<1>6. \A i, j \in 1 .. Len(gate') :
          i < j /\ gate'[i] \in Calls /\ gate'[j] \in Calls
             => cmd'[gate'[i]].serial < cmd'[gate'[j]].serial
  <2> TAKE i, j \in 1 .. Len(gate')
  <2> HAVE i < j /\ gate'[i] \in Calls /\ gate'[j] \in Calls
  <2>1. i \in 1 .. Len(gate) /\ gate'[i] = gate[i] /\ gate[i] # c
    BY <1>1, <1>3
  <2>2. CASE j = n
    <3>1. cmd[gate[i]].serial <= serial /\ cmd[gate[i]].serial \in Nat /\ serial \in Nat
      BY <2>1 DEF SerialInv, CommandsTyped, Commands
    <3> QED
      BY <1>1, <1>2, <2>1, <2>2, <3>1
  <2>3. CASE j # n
    <3>1. j \in 1 .. Len(gate) /\ gate'[j] = gate[j] /\ gate[j] # c
      BY <1>1, <1>3, <2>3
    <3> QED
      BY <1>2, <2>1, <3>1 DEF GateInv
  <2> QED
    BY <2>2, <2>3
<1>7. \A d \in Calls : AtGate(d)' => \E i \in 1 .. Len(gate') : gate'[i] = d
  <2> TAKE d \in Calls
  <2> HAVE AtGate(d)'
  <2>1. CASE d = c
    BY <1>1, <2>1
  <2>2. CASE d # c
    <3>1. PICK i \in 1 .. Len(gate) : gate[i] = d
      BY <1>2, <2>2 DEF GateInv
    <3> QED
      BY <1>1, <3>1
  <2> QED
    BY <2>1, <2>2
<1>8. \A d \in Calls : cmd'[d].at \in {"posted", "answered"} => gate'[1] = d
  <2> TAKE d \in Calls
  <2> HAVE cmd'[d].at \in {"posted", "answered"}
  <2>1. d # c /\ cmd[d].at \in {"posted", "answered"}
    BY DEF Only
  <2>2. gate[1] = d /\ \E i \in 1 .. Len(gate) : gate[i] = d
    BY <2>1 DEF GateInv, AtGate, GateStages
  <2> QED
    BY <1>1, <2>2
<1> QED
  BY <1>1, <1>5, <1>6, <1>7, <1>8 DEF GateInv, AtGate

LEMMA OtherJoins ==
    ASSUME CommandsTyped, GateInv, NEW o \in Others, Others \intersect Calls = {},
           gate' = Append(gate, o), UNCHANGED cmd
    PROVE  GateInv' /\ gate' \in Seq(Calls \union Others)
<1> DEFINE n == Len(gate) + 1
<1>1. /\ Len(gate) \in Nat /\ gate' \in Seq(Calls \union Others) /\ Len(gate') = n
      /\ \A i \in 1 .. Len(gate) : gate'[i] = gate[i]
      /\ gate'[n] = o /\ o \notin Calls
  BY GateIs, AppendProperties DEF CommandsTyped
<1>2. \A d \in Calls : AtGate(d)' = AtGate(d)
  BY DEF AtGate
<1>3. \A i \in 1 .. Len(gate') : gate'[i] \in Calls => i \in 1 .. Len(gate) /\ gate'[i] = gate[i]
  BY <1>1
<1>4. \A d \in Calls : AtGate(d)' => \E i \in 1 .. Len(gate') : gate'[i] = d
  BY <1>1, <1>2 DEF GateInv
<1>5. \A d \in Calls : cmd'[d].at \in {"posted", "answered"} => gate'[1] = d
  <2> TAKE d \in Calls
  <2> HAVE cmd'[d].at \in {"posted", "answered"}
  <2>1. gate[1] = d /\ \E i \in 1 .. Len(gate) : gate[i] = d
    BY DEF GateInv, AtGate, GateStages
  <2> QED
    BY <1>1, <2>1
<1>6. ASSUME NEW i \in 1 .. Len(gate'), gate'[i] \in Calls PROVE cmd'[gate'[i]].at \in GateStages
  <2>1. i \in 1 .. Len(gate) /\ gate'[i] = gate[i]
    BY <1>3, <1>6
  <2>2. AtGate(gate[i])
    BY <1>6, <2>1 DEF GateInv
  <2> QED
    BY <2>1, <2>2 DEF AtGate
<1>7. \A i, j \in 1 .. Len(gate') :
        i < j /\ gate'[i] \in Calls /\ gate'[j] \in Calls => cmd'[gate'[i]].serial < cmd'[gate'[j]].serial
  <2> SUFFICES ASSUME NEW i \in 1 .. Len(gate'), NEW j \in 1 .. Len(gate'),
                      i < j, gate'[i] \in Calls, gate'[j] \in Calls
               PROVE  cmd'[gate'[i]].serial < cmd'[gate'[j]].serial
    OBVIOUS
  <2>1. i \in 1 .. Len(gate) /\ j \in 1 .. Len(gate) /\ gate'[i] = gate[i] /\ gate'[j] = gate[j]
    BY <1>3
  <2> QED
    BY <2>1 DEF GateInv
<1>8. GateInv'
  BY <1>4, <1>5, <1>6, <1>7 DEF GateInv, AtGate
<1> QED
  BY <1>1, <1>8

LEMMA GateWithoutIs ==
    ASSUME CommandsTyped, NEW c \in Calls
    PROVE  \/ GateWithout(c) = gate /\ \A i \in 1 .. Len(gate) : gate[i] # c
           \/ \E n \in 1 .. Len(gate) :
                 /\ gate[n] = c /\ GateWithout(c) \in Seq(Calls \union Others)
                 /\ Len(GateWithout(c)) = Len(gate) - 1
                 /\ \A i \in 1 .. Len(gate) - 1 :
                       GateWithout(c)[i] = gate[IF i < n THEN i ELSE i + 1]
<1>1. /\ Len(gate) \in Nat /\ DOMAIN gate = 1 .. Len(gate)
      /\ \A i \in 1 .. Len(gate) : gate[i] \in Calls \union Others
  BY GateIs
<1>2. CASE \A i \in DOMAIN gate : gate[i] # c
  BY <1>1, <1>2 DEF GateWithout
<1>3. CASE \E i \in DOMAIN gate : gate[i] = c
  <2> DEFINE n == CHOOSE i \in DOMAIN gate : gate[i] = c
             e(i) == gate[IF i < n THEN i ELSE i + 1]
  <2>1. n \in 1 .. Len(gate) /\ gate[n] = c
    BY <1>1, <1>3
  <2>2. GateWithout(c) = [i \in 1 .. Len(gate) - 1 |-> e(i)]
    BY <1>3 DEF GateWithout
  <2> HIDE DEF n
  <2>3. \A i \in 1 .. Len(gate) - 1 : e(i) \in Calls \union Others
    BY <1>1, <2>1
  <2>4. Len(gate) - 1 \in Nat
    BY <1>1, <2>1
  <2> HIDE DEF e
  <2>5. GateWithout(c) \in [1 .. Len(gate) - 1 -> Calls \union Others]
    BY <2>2, <2>3
  <2>6. GateWithout(c) \in Seq(Calls \union Others)
    BY <2>4, <2>5
  <2>7. Len(GateWithout(c)) = Len(gate) - 1
    BY <2>2, <2>4
  <2>8. \A i \in 1 .. Len(gate) - 1 : GateWithout(c)[i] = gate[IF i < n THEN i ELSE i + 1]
    BY <2>2 DEF e
  <2> QED
    BY <2>1, <2>6, <2>7, <2>8
<1> QED
  BY <1>2, <1>3

\* A call that is cancelled gives up the gate or the wait for it.
LEMMA GateGivenUp ==
    ASSUME CommandsTyped, GateInv, NEW c \in Calls, gate' = GateWithout(c), Only(c), ~AtGate(c)'
    PROVE  GateInv' /\ gate' \in Seq(Calls \union Others)
<1>1. \A d \in Calls : d # c => /\ AtGate(d)' = AtGate(d) /\ cmd'[d].serial = cmd[d].serial
                                /\ cmd'[d].at = cmd[d].at
  BY DEF AtGate, Only
<1>2. Len(gate) \in Nat /\ gate \in Seq(Calls \union Others)
  BY GateIs DEF CommandsTyped
<1>3. CASE gate' = gate /\ \A i \in 1 .. Len(gate) : gate[i] # c
  <2>1. \A i \in 1 .. Len(gate) : gate[i] \in Calls => cmd'[gate[i]].at \in GateStages
    BY <1>3 DEF GateInv, AtGate, Only
  <2>2. \A i, j \in 1 .. Len(gate) : i < j /\ gate[i] \in Calls /\ gate[j] \in Calls
          => cmd'[gate[i]].serial < cmd'[gate[j]].serial
    BY <1>3 DEF GateInv, Only
  <2>3. \A d \in Calls : AtGate(d)' => \E i \in 1 .. Len(gate) : gate[i] = d
    BY <1>1 DEF GateInv
  <2>4. \A d \in Calls : cmd'[d].at \in {"posted", "answered"} => gate[1] = d
    BY <1>1 DEF GateInv, AtGate, GateStages
  <2> QED
    BY <1>2, <1>3, <2>1, <2>2, <2>3, <2>4 DEF GateInv, AtGate
<1>4. ASSUME NEW n \in 1 .. Len(gate), gate[n] = c, gate' \in Seq(Calls \union Others),
             Len(gate') = Len(gate) - 1,
             \A i \in 1 .. Len(gate) - 1 : gate'[i] = gate[IF i < n THEN i ELSE i + 1]
      PROVE  GateInv' /\ gate' \in Seq(Calls \union Others)
  <2> DEFINE m(i) == IF i < n THEN i ELSE i + 1
  <2>1. \A i \in 1 .. Len(gate') : /\ m(i) \in 1 .. Len(gate) /\ m(i) # n /\ gate'[i] = gate[m(i)]
    BY <1>2, <1>4
  <2>2. \A i, j \in 1 .. Len(gate') : i < j => m(i) < m(j)
    BY <1>2, <1>4
  <2>3. \A j \in 1 .. Len(gate) : j # n => \E i \in 1 .. Len(gate') : m(i) = j
    <3> TAKE j \in 1 .. Len(gate)
    <3> HAVE j # n
    <3>1. CASE j < n
      <4>1. j \in 1 .. Len(gate') /\ m(j) = j
        BY <1>2, <1>4, <3>1
      <4> QED
        BY <4>1
    <3>2. CASE j > n
      <4>1. j - 1 \in 1 .. Len(gate') /\ m(j - 1) = j
        BY <1>2, <1>4, <3>2
      <4> QED
        BY <4>1
    <3> QED
      BY <3>1, <3>2
  <2> HIDE DEF m
  <2>4. \A i \in 1 .. Len(gate) : i # n /\ gate[i] \in Calls => gate[i] # c
    <3> TAKE i \in 1 .. Len(gate)
    <3> HAVE i # n /\ gate[i] \in Calls
    <3> SUFFICES ASSUME gate[i] = c PROVE FALSE
      OBVIOUS
    <3>1. cmd[c].serial \in Nat
      BY DEF CommandsTyped, Commands
    <3>2. CASE i < n
      <4>1. cmd[gate[i]].serial < cmd[gate[n]].serial
        BY <1>4, <3>2 DEF GateInv
      <4> QED
        BY <1>4, <3>1, <4>1
    <3>3. CASE n < i
      <4>1. cmd[gate[n]].serial < cmd[gate[i]].serial
        BY <1>4, <3>3 DEF GateInv
      <4> QED
        BY <1>4, <3>1, <4>1
    <3> QED
      BY <1>2, <3>2, <3>3
  <2>5. \A i \in 1 .. Len(gate') : gate'[i] \in Calls => cmd'[gate'[i]].at \in GateStages
    <3> TAKE i \in 1 .. Len(gate')
    <3> HAVE gate'[i] \in Calls
    <3>1. gate'[i] = gate[m(i)] /\ m(i) \in 1 .. Len(gate) /\ m(i) # n
      BY <2>1
    <3> QED
      BY <2>4, <3>1 DEF GateInv, AtGate, Only
  <2>6. \A i, j \in 1 .. Len(gate') :
            i < j /\ gate'[i] \in Calls /\ gate'[j] \in Calls
               => cmd'[gate'[i]].serial < cmd'[gate'[j]].serial
    <3> TAKE i, j \in 1 .. Len(gate')
    <3> HAVE i < j /\ gate'[i] \in Calls /\ gate'[j] \in Calls
    <3>1. /\ gate'[i] = gate[m(i)] /\ m(i) \in 1 .. Len(gate) /\ m(i) # n
          /\ gate'[j] = gate[m(j)] /\ m(j) \in 1 .. Len(gate) /\ m(j) # n
          /\ m(i) < m(j)
      BY <2>1, <2>2
    <3>2. cmd[gate[m(i)]].serial < cmd[gate[m(j)]].serial
      BY <3>1 DEF GateInv
    <3>3. gate[m(i)] # c /\ gate[m(j)] # c
      BY <2>4, <3>1
    <3> QED
      BY <3>1, <3>2, <3>3 DEF Only
  <2>7. \A d \in Calls : AtGate(d)' => \E i \in 1 .. Len(gate') : gate'[i] = d
    <3> TAKE d \in Calls
    <3> HAVE AtGate(d)'
    <3>1. d # c /\ AtGate(d)
      BY <1>1
    <3>2. PICK j \in 1 .. Len(gate) : gate[j] = d
      BY <3>1 DEF GateInv
    <3>3. j # n
      BY <1>4, <3>1, <3>2
    <3> QED
      BY <2>1, <2>3, <3>2, <3>3
  <2>8. \A d \in Calls : cmd'[d].at \in {"posted", "answered"} => gate'[1] = d
    <3> TAKE d \in Calls
    <3> HAVE cmd'[d].at \in {"posted", "answered"}
    <3>1. d # c /\ gate[1] = d /\ AtGate(d)'
      BY <1>1 DEF GateInv, AtGate, GateStages
    <3>2. n # 1 /\ 1 \in 1 .. Len(gate) - 1
      BY <1>2, <1>4, <3>1
    <3> QED
      BY <1>4, <3>1, <3>2
  <2> QED
    BY <1>4, <2>5, <2>6, <2>7, <2>8 DEF GateInv, AtGate
<1> QED
  BY <1>3, <1>4, GateWithoutIs

-----------------------------------------------------------------------------
\* What holds of the calls between the steps.
CallsInv ==
    /\ CommandsTyped /\ SerialInv /\ TablesInv /\ GateInv
    /\ \A c \in Calls : RunInv(c)

LEMMA OthersRun ==
    ASSUME CallsInv, NEW c \in Calls, Only(c), sent' \ {c} = sent \ {c}, UNCHANGED versions,
           \A d \in Calls \ {c} : obs'[d] = obs[d],
           \A k \in Keys : observer'[k] = observer[k] \/ observer'[k] \in {c, NoOne}
    PROVE  \A d \in Calls \ {c} : RunInv(d)'
<1> TAKE d \in Calls \ {c}
<1>1. \A k \in Keys : observer'[k] = d => observer[k] = d
  BY ControlAssumption
<1>2. RunInv(d) /\ cmd'[d] = cmd[d] /\ obs'[d] = obs[d] /\ (d \in sent' <=> d \in sent)
  BY DEF CallsInv, Only
<1> QED
  BY <1>1, <1>2, RunRests DEF CallsInv

LEMMA RunEnds ==
    ASSUME NEW c \in Calls, cmd'[c].at = "over", cmd'[c].outcome = "rejected" => c \notin sent',
           obs'[c].at = "none", obs'[c].found = FALSE, \A k \in Keys : observer'[k] # c,
           SuccessOf(c)'
    PROVE  RunInv(c)'
BY DEF RunInv, Course

\* A call that is not observed has no observer.
LEMMA Unobserved ==
    ASSUME CallsInv, NEW c \in Calls, cmd[c].at # "observe"
    PROVE  obs[c].at = "none" /\ obs[c].found = FALSE /\ \A k \in Keys : observer[k] # c
<1>1. Course(c) /\ obs[c].found \in BOOLEAN
  BY DEF CallsInv, RunInv, CommandsTyped, Observers
<1> QED
  BY <1>1 DEF Course

LEMMA CallsRest ==
    ASSUME CallsInv, UNCHANGED <<cmd, obs, serial, versions, pending, shown, observer, gate, sent>>,
           generation' \in Nat
    PROVE  CallsInv'
<1>1. SerialInv' /\ TablesInv'
  BY TablesRest DEF CallsInv, Tables, Live
<1>2. GateInv'
  BY GateRest DEF CallsInv, AtGate
<1>3. \A c \in Calls : RunInv(c)'
  BY RunRests DEF CallsInv
<1> QED
  BY <1>1, <1>2, <1>3 DEF CallsInv, CommandsTyped

LEMMA BusyKeeps ==
    ASSUME CallsInv, NEW c \in Calls, NEW a \in Actions, Busy(c, a)
    PROVE  CallsInv' /\ sent' = sent
<1>1. /\ cmd' \in [Calls -> Commands] /\ Only(c)
      /\ cmd'[c].at = "over" /\ cmd'[c].ret = "error" /\ cmd'[c].serial = cmd[c].serial
      /\ cmd'[c].outcome = cmd[c].outcome
  BY BusyDoes DEF CallsInv
<1>2. /\ cmd[c].at = "idle"
      /\ UNCHANGED <<obs, serial, versions, pending, shown, observer, gate, sent, generation>>
  BY DEF Busy, tables, account, history
<1>3. SerialInv' /\ TablesInv'
  BY <1>1, <1>2, TablesOut, ControlAssumption DEF CallsInv, SerialInv, Live, Tables
<1>4. GateInv'
  BY <1>1, <1>2, GateRest DEF CallsInv, AtGate, Only, GateStages
<1>5. RunInv(c)'
  <2>1. obs[c].at = "none" /\ obs[c].found = FALSE /\ \A k \in Keys : observer[k] # c
    BY <1>2, Unobserved
  <2>2. c \notin sent
    BY <1>2 DEF CallsInv, RunInv, Course
  <2> QED
    BY <1>1, <1>2, <2>1, <2>2, RunEnds DEF SuccessOf
<1>6. \A d \in Calls \ {c} : RunInv(d)'
  BY <1>1, <1>2, OthersRun
<1> QED
  BY <1>1, <1>2, <1>3, <1>4, <1>5, <1>6 DEF CallsInv, CommandsTyped

LEMMA CallKeeps ==
    ASSUME CallsInv, NEW c \in Calls, NEW a \in Actions, Call(c, a)
    PROVE  CallsInv' /\ sent' = sent
<1> DEFINE key == IF a \in DOMAIN LockTargets THEN LockTargets[a].lock ELSE a
<1>1. key \in Keys /\ Supersede(key) /\ cmd[c].at = "idle"
  BY ControlAssumption DEF Keys, LockTargets, Call
<1>2. Course(c) /\ cmd[c].outcome = "pending" /\ cmd[c].rev = 0 /\ c \notin sent
  BY <1>1 DEF CallsInv, RunInv, Course
<1>3. /\ serial' = serial + 1 /\ versions' \in [Keys -> Nat]
      /\ versions'[key] = serial + 1 /\ \A k \in Keys \ {key} : versions'[k] = versions[k]
      /\ obs' \in [Calls -> Observers]
      /\ \A d \in Calls : \/ obs'[d] = obs[d]
                          \/ /\ d = observer[key] /\ obs[d].at # "done"
                             /\ obs'[d].at = "cancelled" /\ obs'[d].found = obs[d].found
      /\ observer' = [observer EXCEPT ![key] = NoOne]
  BY <1>1, SupersedeDoes DEF CallsInv, Supersede
<1>4. /\ cmd' \in [Calls -> Commands] /\ Only(c) /\ SameRest(c)
      /\ cmd'[c].action = a /\ cmd'[c].serial = serial + 1 /\ cmd'[c].outcome = cmd[c].outcome
      /\ \/ /\ cmd'[c].at = "gate" /\ gate' = Append(gate, c)
            /\ IF a \in DOMAIN LockTargets THEN pending' = [pending EXCEPT ![key] = c] /\ shown' = c
               ELSE UNCHANGED <<pending, shown>>
         \/ /\ cmd'[c].at = "over" /\ cmd'[c].ret = "error"
            /\ UNCHANGED <<pending, shown, gate>>
  BY <1>2, CallDoes DEF CallsInv
<1>5. UNCHANGED <<sent, generation>>
  BY DEF Call, history, account
<1>6. SerialInv' /\ TablesInv'
  BY <1>2, TablesCall, ControlAssumption DEF CallsInv
<1>7. \A k \in Keys : observer'[k] = observer[k] \/ observer'[k] = NoOne
  BY <1>3
<1>8. \A d \in Calls \ {c} : RunInv(d)'
  <2> TAKE d \in Calls \ {c}
  <2>1. RunInv(d) /\ cmd'[d] = cmd[d] /\ (d \in sent' <=> d \in sent)
    BY <1>4, <1>5 DEF CallsInv, Only
  <2>2. \A k \in Keys : observer'[k] = d => observer[k] = d
    BY <1>7, ControlAssumption
  <2>3. \/ obs'[d] = obs[d]
        \/ /\ cmd[d].at = "observe" /\ obs[d].at # "done"
           /\ obs'[d].at = "cancelled" /\ obs'[d].found = obs[d].found
    BY <1>1, <1>3, <2>1 DEF RunInv, Course
  <2>4. \A k \in Keys : versions'[k] = versions[k] \/ versions'[k] = serial + 1
    BY <1>3
  <2> QED
    BY <2>1, <2>2, <2>3, <2>4, RunRests DEF CallsInv
<1>9. RunInv(c)'
  <2>1. obs[c].at = "none" /\ obs[c].found = FALSE /\ \A k \in Keys : observer[k] # c
    BY <1>1, Unobserved
  <2>2. obs'[c] = obs[c]
    BY <1>1, <1>3, <2>1
  <2>3. \A k \in Keys : observer'[k] # c
    BY <1>7, <2>1, ControlAssumption
  <2>4. SuccessOf(c)'
    BY <1>4 DEF SuccessOf
  <2>5. cmd'[c].rev = 0 /\ cmd'[c].outcome = "pending" /\ c \notin sent'
    BY <1>2, <1>4, <1>5 DEF SameRest
  <2>6. cmd'[c].at \in {"gate", "over"} /\ obs'[c].at = "none" /\ obs'[c].found = FALSE
    BY <1>4, <2>1, <2>2
  <2>7. Course(c)'
    BY <2>3, <2>5, <2>6 DEF Course
  <2> QED
    BY <2>4, <2>7 DEF RunInv
<1>10. GateInv' /\ gate' \in Seq(Calls \union Others)
  <2>1. CASE cmd'[c].at = "gate" /\ gate' = Append(gate, c)
    BY <1>1, <1>4, <2>1, GateJoined DEF CallsInv, AtGate, GateStages
  <2>2. CASE cmd'[c].at = "over" /\ gate' = gate
    BY <1>1, <1>4, <2>2, GateRest DEF CallsInv, CommandsTyped, AtGate, Only, GateStages
  <2> QED
    BY <1>4, <2>1, <2>2
<1>11. pending' \in [Keys -> Calls \union {NoOne}] /\ shown' \in Calls \union {NoOne}
  BY <1>4 DEF CallsInv, CommandsTyped
<1>12. serial' \in Nat /\ generation' \in Nat
  BY <1>3, <1>5 DEF CallsInv, CommandsTyped
<1> QED
  BY <1>3, <1>4, <1>5, <1>6, <1>8, <1>9, <1>10, <1>11, <1>12 DEF CallsInv, CommandsTyped

\* A step of one call that stays under way and is not observed yet.
LEMMA SentSteps ==
    ASSUME CallsInv, NEW c \in Calls, Only(c), Same(c), cmd' \in [Calls -> Commands],
           cmd[c].at \in GateStages, cmd'[c].at \in {"posted", "answered"},
           cmd'[c].outcome = cmd[c].outcome, gate[1] = c,
           cmd'[c].at = "posted" => cmd'[c].rev > 0,
           cmd'[c].at = "answered" /\ cmd'[c].rev = 0 => cmd'[c].reply = "error" /\ c \notin sent',
           sent' \ {c} = sent \ {c}, generation' \in Nat,
           UNCHANGED <<obs, serial, versions, pending, shown, observer, gate>>
    PROVE  CallsInv'
<1>1. SerialInv' /\ TablesInv'
  <2>1. \A d \in Calls : /\ cmd'[d].action = cmd[d].action /\ cmd'[d].serial = cmd[d].serial
                         /\ Live(d)' = Live(d)
    BY DEF Only, Same, Live, GateStages
  <2> QED
    BY <2>1, TablesRest DEF CallsInv, Tables
<1>2. GateInv'
  <2>1. \A d \in Calls : /\ AtGate(d)' = AtGate(d) /\ cmd'[d].serial = cmd[d].serial
                         /\ cmd'[d].at \in {"posted", "answered"} =>
                               cmd[d].at \in {"posted", "answered"} \/ gate[1] = d
    BY DEF Only, Same, AtGate, GateStages
  <2> QED
    BY <2>1, GateRest DEF CallsInv
<1>3. \A d \in Calls \ {c} : RunInv(d)'
  BY OthersRun
<1>4. RunInv(c)'
  <2>1. obs[c].at = "none" /\ obs[c].found = FALSE /\ \A k \in Keys : observer[k] # c
    BY Unobserved DEF GateStages
  <2>2. cmd[c].outcome # "rejected"
    BY DEF CallsInv, RunInv, Course, GateStages
  <2> QED
    BY <2>1, <2>2 DEF RunInv, Course, SuccessOf
<1> QED
  BY <1>1, <1>2, <1>3, <1>4 DEF CallsInv, CommandsTyped

LEMMA GateHead ==
    ASSUME CallsInv, NEW c \in Calls, AtGate(c)
    PROVE  gate # <<>> /\ Head(gate) = gate[1]
<1>1. PICK i \in 1 .. Len(gate) : gate[i] = c
  BY DEF CallsInv, GateInv
<1> QED
  BY <1>1, GateIs DEF CallsInv

LEMMA RejectedKeeps ==
    ASSUME CallsInv, NEW c \in Calls, Rejected(c)
    PROVE  CallsInv' /\ sent' = sent
<1>1. /\ cmd' \in [Calls -> Commands] /\ Only(c) /\ Same(c)
      /\ cmd'[c].at = "answered" /\ cmd'[c].reply = "error" /\ cmd'[c].outcome = cmd[c].outcome
  BY RejectedDoes DEF CallsInv
<1>2. /\ cmd[c].at = "gate" /\ Head(gate) = c
      /\ UNCHANGED <<obs, serial, versions, pending, shown, observer, gate, sent, generation>>
  BY DEF Rejected, tables, account, history
<1>3. gate[1] = c
  BY <1>2, GateHead DEF AtGate, GateStages
<1>4. c \notin sent /\ generation \in Nat
  BY <1>2 DEF CallsInv, RunInv, Course, CommandsTyped
<1> QED
  BY <1>1, <1>2, <1>3, <1>4, SentSteps DEF GateStages

LEMMA PostedKeeps ==
    ASSUME CallsInv, revision \in Nat, NEW c \in Calls, Posted(c)
    PROVE  /\ CallsInv' /\ sent' = sent \union {c}
           /\ \A d \in Calls : cmd[d].at = "gate" => cmd[c].serial <= cmd[d].serial
<1>1. /\ cmd' \in [Calls -> Commands] /\ Only(c) /\ Same(c)
      /\ cmd'[c].at = "posted" /\ cmd'[c].rev = revision + 1 /\ cmd'[c].outcome = cmd[c].outcome
  BY PostedDoes DEF CallsInv
<1>2. /\ cmd[c].at = "gate" /\ Head(gate) = c /\ sent' = sent \union {c}
      /\ UNCHANGED <<obs, serial, versions, pending, shown, observer, gate, generation>>
  BY DEF Posted, MayPost, tables, account, history
<1>3. gate[1] = c
  BY <1>2, GateHead DEF AtGate, GateStages
<1>4. generation \in Nat /\ cmd'[c].rev > 0
  BY <1>1 DEF CallsInv, CommandsTyped
<1>5. CallsInv'
  BY <1>1, <1>2, <1>3, <1>4, SentSteps DEF GateStages
<1>6. ASSUME NEW d \in Calls, cmd[d].at = "gate" PROVE cmd[c].serial <= cmd[d].serial
  <2>1. PICK i \in 1 .. Len(gate) : gate[i] = d
    BY <1>6 DEF CallsInv, GateInv, AtGate, GateStages
  <2>2. cmd[c].serial \in Nat /\ cmd[d].serial \in Nat
    BY DEF CallsInv, CommandsTyped, Commands
  <2>3. CASE i = 1
    BY <1>3, <2>1, <2>2, <2>3
  <2>4. CASE i # 1
    <3>1. Len(gate) \in Nat /\ 1 \in 1 .. Len(gate) /\ 1 < i
      BY <2>1, <2>4, GateIs DEF CallsInv
    <3>2. cmd[gate[1]].serial < cmd[gate[i]].serial
      BY <1>3, <2>1, <3>1 DEF CallsInv, GateInv
    <3> QED
      BY <1>3, <2>1, <2>2, <3>2
  <2> QED
    BY <2>3, <2>4
<1> QED
  BY <1>2, <1>5, <1>6

LEMMA AnsweredKeeps ==
    ASSUME CallsInv, NEW c \in Calls, NEW reply \in {"ok", "error", "auth"}, CommandAnswered(c, reply)
    PROVE  CallsInv' /\ sent' = sent
<1>1. /\ cmd' \in [Calls -> Commands] /\ Only(c) /\ Same(c)
      /\ cmd'[c].at = "answered" /\ cmd'[c].rev = cmd[c].rev /\ cmd'[c].outcome = cmd[c].outcome
  BY AnsweredDoes DEF CallsInv
<1>2. /\ cmd[c].at = "posted" /\ sent' = sent
      /\ UNCHANGED <<obs, serial, versions, pending, shown, observer, gate>>
      /\ generation' = generation \/ generation' = generation + 1
  BY DEF CommandAnswered, tables, InvalidateAuth
<1>3. gate[1] = c /\ cmd[c].rev > 0
  BY <1>2 DEF CallsInv, GateInv, RunInv, Course
<1>4. generation' \in Nat /\ cmd[c].rev \in Nat
  BY <1>2 DEF CallsInv, CommandsTyped, Commands
<1>5. ~(cmd'[c].rev = 0)
  BY <1>1, <1>3, <1>4
<1> QED
  BY <1>1, <1>2, <1>3, <1>4, <1>5, SentSteps DEF GateStages

\* A command that ends takes its entries with it, and its observer is gone.
LEMMA EndKeeps ==
    ASSUME CallsInv, NEW c \in Calls, NEW outcome \in CmdOutcomes, NEW conf \in CmdConfirmations,
           NEW ret \in {"none", "ok", "error", "cancelled"}, Ends(c, outcome, conf, ret),
           outcome = "rejected" => c \notin sent,
           (ret = "ok" /\ IsLock(c)) => ((conf = "confirmed" /\ outcome = "accepted")
                                         \/ (conf = "superseded" /\ ~Newest(c))),
           serial' = serial, versions' = versions, sent' = sent, generation' \in Nat,
           obs' \in [Calls -> Observers], \A d \in Calls \ {c} : obs'[d] = obs[d],
           obs'[c].at = "none", obs'[c].found = FALSE, \A k \in Keys : observer'[k] # c,
           observer' \in [Keys -> Calls \union {NoOne}],
           \A k \in Keys : observer'[k] = observer[k] \/ observer'[k] = NoOne,
           GateInv', gate' \in Seq(Calls \union Others)
    PROVE  CallsInv'
<1>1. /\ cmd' \in [Calls -> Commands] /\ Only(c) /\ Same(c)
      /\ cmd'[c].at = "over" /\ cmd'[c].outcome = outcome /\ cmd'[c].conf = conf
      /\ cmd'[c].ret = ret /\ OwnOnly(c)
  BY EndsDoes DEF CallsInv
<1>2. SerialInv' /\ TablesInv'
  BY <1>1, TablesEnd, ControlAssumption DEF CallsInv
<1>3. \A d \in Calls \ {c} : RunInv(d)'
  BY <1>1, OthersRun
<1>4. SuccessOf(c)'
  <2>1. IsLock(c)' = IsLock(c) /\ Newest(c)' = Newest(c)
    BY <1>1 DEF IsLock, Newest, Key, Same
  <2> QED
    BY <1>1, <2>1 DEF SuccessOf
<1>5. RunInv(c)'
  BY <1>1, <1>4, RunEnds
<1>6. pending' \in [Keys -> Calls \union {NoOne}] /\ shown' \in Calls \union {NoOne}
  BY <1>1 DEF OwnOnly, CallsInv, CommandsTyped
<1> QED
  BY <1>1, <1>2, <1>3, <1>5, <1>6 DEF CallsInv, CommandsTyped

\* A command that ends outside of the gate leaves it as it is.
LEMMA GateAfterEnd ==
    ASSUME CallsInv, NEW c \in Calls, Only(c), cmd'[c].at = "over", ~AtGate(c), UNCHANGED gate
    PROVE  GateInv' /\ gate' \in Seq(Calls \union Others)
<1>1. \A d \in Calls : /\ AtGate(d)' = AtGate(d)
                       /\ AtGate(d) => cmd'[d].serial = cmd[d].serial
                       /\ cmd'[d].at \in {"posted", "answered"} =>
                             cmd[d].at \in {"posted", "answered"} \/ gate[1] = d
  BY DEF Only, AtGate, GateStages
<1> QED
  BY <1>1, GateRest DEF CallsInv, CommandsTyped

LEMMA ResumeEnds ==
    ASSUME CallsInv, NEW c \in Calls, NEW outcome \in CmdOutcomes, NEW conf \in CmdConfirmations,
           NEW ret \in {"none", "ok", "error", "cancelled"}, Ends(c, outcome, conf, ret),
           cmd[c].at = "answered", gate # <<>>, gate[1] = c, gate' = Tail(gate),
           outcome # "rejected" \/ c \notin sent,
           ret # "ok" \/ (conf = "superseded" /\ ~Newest(c)),
           obs' = obs, observer' = observer, serial' = serial, versions' = versions, sent' = sent,
           generation' \in Nat
    PROVE  CallsInv'
<1>1. Only(c) /\ cmd'[c].at = "over"
  BY EndsDoes DEF CallsInv
<1>2. GateInv' /\ gate' \in Seq(Calls \union Others)
  <2>1. \A d \in Calls : d # gate[1] => /\ cmd'[d].at = cmd[d].at /\ cmd'[d].serial = cmd[d].serial
    BY <1>1 DEF Only
  <2>2. \A d \in Calls : d = gate[1] => ~AtGate(d)'
    BY <1>1 DEF AtGate, GateStages
  <2> QED
    BY <2>1, <2>2, GateLeft DEF CallsInv
<1>3. obs[c].at = "none" /\ obs[c].found = FALSE /\ \A k \in Keys : observer[k] # c
  BY Unobserved
<1>4. /\ obs' \in [Calls -> Observers] /\ observer' \in [Keys -> Calls \union {NoOne}]
  BY DEF CallsInv, CommandsTyped
<1>5. /\ \A d \in Calls \ {c} : obs'[d] = obs[d]
      /\ obs'[c].at = "none" /\ obs'[c].found = FALSE /\ \A k \in Keys : observer'[k] # c
      /\ \A k \in Keys : observer'[k] = observer[k] \/ observer'[k] = NoOne
  BY <1>3
<1>6. /\ outcome = "rejected" => c \notin sent
      /\ (ret = "ok" /\ IsLock(c)) => ((conf = "confirmed" /\ outcome = "accepted")
                                       \/ (conf = "superseded" /\ ~Newest(c)))
  OBVIOUS
<1> QED
  BY <1>2, <1>4, <1>5, <1>6, EndKeeps, ZenonT(120)

LEMMA ResumeKeeps ==
    ASSUME CallsInv, NEW c \in Calls, Resume(c)
    PROVE  CallsInv' /\ sent' = sent
<1>1. /\ cmd[c].at = "answered" /\ gate' = Tail(gate) /\ gate[1] = c /\ gate # <<>>
      /\ UNCHANGED <<serial, versions, sent>>
  <2>1. cmd[c].at = "answered" /\ gate' = Tail(gate) /\ UNCHANGED <<serial, versions, sent>>
    BY DEF Resume, LeaveGate, history
  <2> QED
    BY <2>1, GateHead DEF CallsInv, GateInv, AtGate, GateStages
<1>2. generation' = generation \/ generation' = generation + 1
  BY DEF Resume, ResumeFails, ResumeGoesOn, InvalidateAuth
<1>3. generation' \in Nat
  BY <1>2 DEF CallsInv, CommandsTyped
<1>4. ASSUME Only(c), ~AtGate(c)' PROVE GateInv' /\ gate' \in Seq(Calls \union Others)
  <2>1. \A d \in Calls : d # gate[1] => /\ cmd'[d].at = cmd[d].at /\ cmd'[d].serial = cmd[d].serial
    BY <1>1, <1>4 DEF Only
  <2> QED
    BY <1>1, <1>4, <2>1, GateLeft DEF CallsInv
<1>5. obs[c].at = "none" /\ obs[c].found = FALSE /\ \A k \in Keys : observer[k] # c
  BY <1>1, Unobserved
<1>7. CASE ResumeFails(c)
  <2>1. /\ obs' = obs /\ observer' = observer
        /\ \/ Ends(c, "auth", IF IsLock(c) THEN "unknown" ELSE "not_requested", "error")
           \/ RejectedUnsent(c) /\ Ends(c, "rejected", "not_requested", "error")
    BY <1>7 DEF ResumeFails
  <2>2. RejectedUnsent(c) => c \notin sent
    BY <1>1 DEF CallsInv, RunInv, Course, RejectedUnsent
  <2> DEFINE conf == IF IsLock(c) THEN "unknown" ELSE "not_requested"
  <2>3. conf \in CmdConfirmations /\ "not_requested" \in CmdConfirmations
        /\ "auth" \in CmdOutcomes /\ "rejected" \in CmdOutcomes
    BY DEF CmdOutcomes, CmdConfirmations
  <2>4. CASE Ends(c, "auth", conf, "error")
    <3> HIDE DEF conf
    <3> QED
      BY <1>1, <1>3, <2>1, <2>3, <2>4, ResumeEnds
  <2>5. CASE RejectedUnsent(c) /\ Ends(c, "rejected", "not_requested", "error")
    BY <1>1, <1>3, <2>1, <2>2, <2>3, <2>5, ResumeEnds
  <2> QED
    BY <2>1, <2>4, <2>5
<1>8. CASE ResumeGoesOn(c)
  <2> DEFINE outcome == IF cmd[c].reply = "ok" THEN "accepted" ELSE "uncertain"
  <2>1. /\ cmd[c].reply # "auth" /\ ~RejectedUnsent(c)
        /\ IF MadeWay(c)
           THEN Ends(c, outcome, "superseded", "ok") /\ obs' = obs /\ observer' = observer
           ELSE /\ cmd' = [cmd EXCEPT ![c].outcome = outcome,
                             ![c].at = IF IsLock(c) THEN "observe" ELSE "readback"]
                /\ IF IsLock(c)
                   THEN /\ observer' = [observer EXCEPT ![Key(c)] = c]
                        /\ obs' = [obs EXCEPT ![c].at = "slot", ![c].left = Slots]
                   ELSE obs' = obs /\ observer' = observer
                /\ pending' = pending /\ shown' = shown
    BY <1>8 DEF ResumeGoesOn
  <2>2. outcome \in {"accepted", "uncertain"}
    OBVIOUS
  <2> HIDE DEF outcome
  <2>3. CASE MadeWay(c)
    <3>1. outcome \in CmdOutcomes /\ "superseded" \in CmdConfirmations /\ outcome # "rejected"
      BY <2>2 DEF CmdOutcomes, CmdConfirmations
    <3>2. ~Newest(c) /\ Ends(c, outcome, "superseded", "ok") /\ obs' = obs /\ observer' = observer
      BY <2>1, <2>3 DEF MadeWay
    <3> QED
      BY <1>1, <1>3, <3>1, <3>2, ResumeEnds
  <2>4. CASE ~MadeWay(c)
    <3> DEFINE at == IF IsLock(c) THEN "observe" ELSE "readback"
    <3>1. at \in {"observe", "readback"} /\ cmd' = [cmd EXCEPT ![c].outcome = outcome, ![c].at = at]
      BY <2>1, <2>4
    <3>2. /\ cmd' \in [Calls -> Commands] /\ Only(c) /\ Same(c) /\ SameRest(c)
          /\ cmd'[c].at = at /\ cmd'[c].outcome = outcome
      <4> HIDE DEF at
      <4> QED
        BY <2>2, <3>1, ObservesDoes DEF CallsInv
    <3>3. SerialInv' /\ TablesInv'
      <4>1. \A d \in Calls : /\ cmd'[d].action = cmd[d].action /\ cmd'[d].serial = cmd[d].serial
                             /\ Live(d)' = Live(d)
        BY <1>1, <3>1, <3>2 DEF Only, Same, Live
      <4> QED
        BY <1>1, <2>1, <2>4, <4>1, TablesRest DEF CallsInv, Tables
    <3>4. GateInv' /\ gate' \in Seq(Calls \union Others)
      BY <1>4, <3>1, <3>2 DEF AtGate, GateStages
    <3>5. /\ obs' \in [Calls -> Observers] /\ \A d \in Calls \ {c} : obs'[d] = obs[d]
          /\ obs'[c].found = FALSE
          /\ IsLock(c) \/ obs'[c].at = "none"
      <4>1. CASE IsLock(c)
        <5> DEFINE q == obs[c]
                   p == [q EXCEPT !.at = "slot", !.left = Slots]
        <5>1. q \in Observers /\ obs \in [Calls -> Observers] /\ Slots \in Nat
          BY ControlAssumption DEF CallsInv, CommandsTyped
        <5>2. p \in Observers /\ p.found = q.found
          BY <5>1 DEF Observers
        <5>3. obs' = [obs EXCEPT ![c].at = "slot", ![c].left = Slots]
          BY <2>1, <2>4, <4>1
        <5>4. obs' = [obs EXCEPT ![c] = p]
          BY <5>1, <5>3, Zenon
        <5> HIDE DEF p
        <5> QED
          BY <1>5, <4>1, <5>2, <5>4, NewObs DEF CallsInv
      <4>2. CASE ~IsLock(c)
        BY <1>5, <2>1, <2>4, <4>2 DEF CallsInv, CommandsTyped
      <4> QED
        BY <4>1, <4>2
    <3>6. /\ \A k \in Keys : observer'[k] = observer[k] \/ (IsLock(c) /\ observer'[k] = c)
          /\ observer' \in [Keys -> Calls \union {NoOne}]
      <4>1. CASE IsLock(c)
        <5>1. observer' = [observer EXCEPT ![Key(c)] = c]
          BY <2>1, <2>4, <4>1
        <5>2. observer \in [Keys -> Calls \union {NoOne}]
          BY DEF CallsInv, CommandsTyped
        <5> QED
          BY <4>1, <5>1, <5>2
      <4>2. CASE ~IsLock(c)
        <5>1. observer' = observer
          BY <2>1, <2>4, <4>2
        <5>2. observer \in [Keys -> Calls \union {NoOne}]
          BY DEF CallsInv, CommandsTyped
        <5> QED
          BY <5>1, <5>2
      <4> QED
        BY <4>1, <4>2
    <3>7. \A d \in Calls \ {c} : RunInv(d)'
      BY <1>1, <3>2, <3>5, <3>6, OthersRun
    <3>8. Course(c)'
      <4>1. IsLock(c)' = IsLock(c) /\ cmd'[c].at = at /\ (at = "observe" <=> IsLock(c))
            /\ (at = "readback" <=> ~IsLock(c))
        BY <3>2 DEF IsLock, Same
      <4>2. cmd'[c].rev > 0
        <5>1. Course(c) /\ cmd[c].rev \in Nat /\ cmd[c].reply \in {"none", "ok", "error", "auth"}
          BY DEF CallsInv, RunInv, CommandsTyped, Commands
        <5>2. cmd[c].rev # 0
          BY <1>1, <2>1, <5>1 DEF Course, RejectedUnsent
        <5> QED
          BY <3>2, <5>1, <5>2 DEF SameRest
      <4>3. \A k \in Keys : observer'[k] = c => IsLock(c)
        BY <1>5, <3>6
      <4> QED
        BY <2>2, <3>2, <3>5, <4>1, <4>2, <4>3 DEF Course
    <3>9. SuccessOf(c)'
      BY <3>1, <3>2 DEF SuccessOf
    <3> QED
      BY <1>1, <1>3, <2>1, <2>4, <3>2, <3>3, <3>4, <3>5, <3>6, <3>7, <3>8, <3>9
         DEF CallsInv, CommandsTyped, RunInv
  <2> QED
    BY <2>3, <2>4
<1> QED
  BY <1>1, <1>7, <1>8 DEF Resume

\* The reading of a bell ends it.
LEMMA ReadbackKeeps ==
    ASSUME CallsInv, NEW c \in Calls, Readback(c)
    PROVE  CallsInv' /\ sent' = sent
<1>1. /\ cmd[c].at = "readback"
      /\ UNCHANGED <<obs, gate, serial, versions, observer, generation, sent>>
  BY DEF Readback, account, history
<1>2. PICK refreshed \in BOOLEAN :
        Ends(c, cmd[c].outcome, cmd[c].conf,
             IF refreshed /\ cmd[c].outcome = "accepted" THEN "ok" ELSE "error")
  BY DEF Readback
<1> DEFINE outcome == cmd[c].outcome
           conf == cmd[c].conf
           ret == IF refreshed /\ cmd[c].outcome = "accepted" THEN "ok" ELSE "error"
<1>3. /\ outcome \in CmdOutcomes /\ conf \in CmdConfirmations
      /\ ret \in {"none", "ok", "error", "cancelled"} /\ Ends(c, outcome, conf, ret)
  BY <1>2 DEF CallsInv, CommandsTyped, Commands
<1>4. ~IsLock(c) /\ outcome # "rejected"
  BY <1>1 DEF CallsInv, RunInv, Course
<1> HIDE DEF outcome, conf, ret
<1>5. Only(c) /\ cmd'[c].at = "over"
  BY <1>3, EndsDoes DEF CallsInv
<1>6. GateInv' /\ gate' \in Seq(Calls \union Others)
  BY <1>1, <1>5, GateAfterEnd DEF AtGate, GateStages
<1>7. obs[c].at = "none" /\ obs[c].found = FALSE /\ \A k \in Keys : observer[k] # c
  BY <1>1, Unobserved
<1>8. /\ \A d \in Calls \ {c} : obs'[d] = obs[d]
      /\ obs'[c].at = "none" /\ obs'[c].found = FALSE /\ \A k \in Keys : observer'[k] # c
      /\ \A k \in Keys : observer'[k] = observer[k] \/ observer'[k] = NoOne
      /\ serial' = serial /\ versions' = versions /\ sent' = sent
  BY <1>1, <1>7
<1>9. /\ obs' \in [Calls -> Observers] /\ observer' \in [Keys -> Calls \union {NoOne}]
      /\ generation' \in Nat
  BY <1>1 DEF CallsInv, CommandsTyped
<1> QED
  BY <1>3, <1>4, <1>6, <1>8, <1>9, EndKeeps, ZenonT(60)

\* The observer of a command and its entry are taken away.
LEMMA ObserverGone ==
    ASSUME CallsInv, NEW c \in Calls, obs' = [obs EXCEPT ![c] = NoObserver],
           observer' = [k \in Keys |-> IF observer[k] = c THEN NoOne ELSE observer[k]]
    PROVE  /\ obs' \in [Calls -> Observers] /\ \A d \in Calls \ {c} : obs'[d] = obs[d]
           /\ obs'[c].at = "none" /\ obs'[c].found = FALSE /\ \A k \in Keys : observer'[k] # c
           /\ observer' \in [Keys -> Calls \union {NoOne}]
           /\ \A k \in Keys : observer'[k] = observer[k] \/ observer'[k] = NoOne
<1>1. NoObserver \in Observers /\ NoObserver.at = "none" /\ NoObserver.found = FALSE
  BY DEF NoObserver, Observers
<1>2. obs \in [Calls -> Observers] /\ observer \in [Keys -> Calls \union {NoOne}] /\ NoOne # c
  BY ControlAssumption DEF CallsInv, CommandsTyped
<1> QED
  BY <1>1, <1>2

LEMMA ObserverEndedKeeps ==
    ASSUME CallsInv, NEW c \in Calls, ObserverEnded(c)
    PROVE  CallsInv' /\ sent' = sent
<1>1. /\ cmd[c].at = "observe" /\ obs' = [obs EXCEPT ![c] = NoObserver]
      /\ observer' = [k \in Keys |-> IF observer[k] = c THEN NoOne ELSE observer[k]]
      /\ UNCHANGED <<gate, serial, versions, generation, sent>>
      /\ IF ~Newest(c) THEN Ends(c, cmd[c].outcome, "superseded", "ok")
         ELSE Ends(c, cmd[c].outcome, cmd[c].conf, Reports(c))
  BY DEF ObserverEnded, account, history
<1>2. PICK conf, ret :
        /\ Ends(c, cmd[c].outcome, conf, ret)
        /\ \/ conf = "superseded" /\ ret = "ok" /\ ~Newest(c)
           \/ conf = cmd[c].conf /\ ret = Reports(c)
  BY <1>1
<1> DEFINE outcome == cmd[c].outcome
<1>3. outcome \in CmdOutcomes /\ cmd[c].conf \in CmdConfirmations
      /\ outcome \in {"accepted", "uncertain"}
  BY <1>1 DEF CallsInv, CommandsTyped, Commands, RunInv, Course
<1>4. conf \in CmdConfirmations /\ ret \in {"none", "ok", "error", "cancelled"}
  BY <1>2, <1>3 DEF Reports, CmdConfirmations
<1>5. \/ ret # "ok" \/ (conf = "superseded" /\ ~Newest(c))
      \/ (conf = "confirmed" /\ outcome = "accepted")
  <2>1. CASE conf = cmd[c].conf /\ ret = Reports(c) /\ ret = "ok"
    BY <2>1 DEF Reports, CallsInv, RunInv, Course
  <2> QED
    BY <1>2, <2>1
<1>6. Ends(c, outcome, conf, ret)
  BY <1>2
<1> HIDE DEF outcome
<1>7. Only(c) /\ cmd'[c].at = "over"
  BY <1>3, <1>4, <1>6, EndsDoes DEF CallsInv
<1>8. GateInv' /\ gate' \in Seq(Calls \union Others)
  BY <1>1, <1>7, GateAfterEnd DEF AtGate, GateStages
<1>9. /\ obs' \in [Calls -> Observers] /\ \A d \in Calls \ {c} : obs'[d] = obs[d]
      /\ obs'[c].at = "none" /\ obs'[c].found = FALSE /\ \A k \in Keys : observer'[k] # c
      /\ observer' \in [Keys -> Calls \union {NoOne}]
      /\ \A k \in Keys : observer'[k] = observer[k] \/ observer'[k] = NoOne
  BY <1>1, ObserverGone
<1>10. serial' = serial /\ versions' = versions /\ sent' = sent /\ generation' \in Nat
  BY <1>1 DEF CallsInv, CommandsTyped
<1>11. outcome # "rejected"
  BY <1>3
<1> QED
  BY <1>3, <1>4, <1>5, <1>6, <1>8, <1>9, <1>10, <1>11, EndKeeps, ZenonT(60)

LEMMA CancelledKeeps ==
    ASSUME CallsInv, NEW c \in Calls, Cancelled(c)
    PROVE  CallsInv' /\ sent' = sent
<1> DEFINE swallowed == cmd[c].at = "observe" /\ ~Newest(c)
           conf == IF swallowed THEN "superseded"
                   ELSE IF cmd[c].conf = "pending" THEN "cancelled" ELSE cmd[c].conf
           outcome == IF cmd[c].outcome = "pending" THEN "cancelled" ELSE cmd[c].outcome
           ret == IF swallowed THEN "ok" ELSE "cancelled"
<1>1. /\ Live(c) /\ obs' = [obs EXCEPT ![c] = NoObserver]
      /\ observer' = [k \in Keys |-> IF observer[k] = c THEN NoOne ELSE observer[k]]
      /\ UNCHANGED <<serial, versions, generation, sent>> /\ gate' = GateWithout(c)
      /\ Ends(c, outcome, conf, ret)
  BY DEF Cancelled, account, history
<1>2. cmd[c].outcome \in CmdOutcomes /\ cmd[c].conf \in CmdConfirmations
  BY DEF CallsInv, CommandsTyped, Commands
<1>3. /\ outcome \in CmdOutcomes /\ conf \in CmdConfirmations
      /\ ret \in {"none", "ok", "error", "cancelled"}
  BY <1>2 DEF CmdOutcomes, CmdConfirmations
<1>4. ret # "ok" \/ (conf = "superseded" /\ ~Newest(c))
  OBVIOUS
<1>5. outcome # "rejected"
  BY <1>1 DEF CallsInv, RunInv, Course, Live
<1> HIDE DEF outcome, conf, ret
<1>7. Only(c) /\ cmd'[c].at = "over"
  BY <1>1, <1>3, EndsDoes DEF CallsInv
<1>8. GateInv' /\ gate' \in Seq(Calls \union Others)
  BY <1>1, <1>7, GateGivenUp DEF AtGate, GateStages, CallsInv
<1>9. /\ obs' \in [Calls -> Observers] /\ \A d \in Calls \ {c} : obs'[d] = obs[d]
      /\ obs'[c].at = "none" /\ obs'[c].found = FALSE /\ \A k \in Keys : observer'[k] # c
      /\ observer' \in [Keys -> Calls \union {NoOne}]
      /\ \A k \in Keys : observer'[k] = observer[k] \/ observer'[k] = NoOne
  BY <1>1, ObserverGone
<1>10. serial' = serial /\ versions' = versions /\ sent' = sent /\ generation' \in Nat
       /\ Ends(c, outcome, conf, ret)
  BY <1>1 DEF CallsInv, CommandsTyped
<1> QED
  BY <1>3, <1>4, <1>5, <1>8, <1>9, <1>10, EndKeeps, ZenonT(60)

LEMMA ReturnKeeps ==
    ASSUME CallsInv, NEW c \in Calls, Return(c)
    PROVE  CallsInv' /\ sent' = sent \ {c}
<1>1. /\ cmd' \in [Calls -> Commands] /\ Only(c)
      /\ cmd'[c].at = "done" /\ cmd'[c].serial = 0 /\ cmd'[c].rev = 0
      /\ cmd'[c].outcome = "pending"
  BY ReturnDoes DEF CallsInv
<1>2. /\ cmd[c].at = "over" /\ sent' = sent \ {c}
      /\ UNCHANGED <<obs, serial, versions, pending, shown, observer, gate, generation>>
  BY DEF Return, tables, account
<1>3. SerialInv' /\ TablesInv'
  <2>1. serial \in Nat
    BY DEF CallsInv, CommandsTyped
  <2> QED
    BY <1>1, <1>2, <2>1, TablesOut, ControlAssumption DEF CallsInv, Live, Tables
<1>4. GateInv'
  BY <1>1, <1>2, GateRest DEF CallsInv, AtGate, Only, GateStages
<1>5. \A d \in Calls \ {c} : RunInv(d)'
  BY <1>1, <1>2, OthersRun
<1>6. RunInv(c)'
  <2>1. obs[c].at = "none" /\ obs[c].found = FALSE /\ \A k \in Keys : observer[k] # c
    BY <1>2, Unobserved
  <2> QED
    BY <1>1, <1>2, <2>1 DEF RunInv, Course, SuccessOf
<1> QED
  BY <1>1, <1>2, <1>3, <1>4, <1>5, <1>6 DEF CallsInv, CommandsTyped

\* A step of the observer of a command.
LEMMA ObserverSteps ==
    ASSUME CallsInv, NEW c \in Calls, cmd[c].at = "observe",
           cmd' \in [Calls -> Commands], Only(c), Same(c), SameRest(c), cmd'[c].at = cmd[c].at,
           cmd'[c].outcome = cmd[c].outcome,
           NEW p \in Observers, obs' = [obs EXCEPT ![c] = p], p.at # "none",
           p.found => (p.at = "done" /\ cmd'[c].conf = IF cmd[c].outcome = "uncertain"
                                                      THEN "observed_uncertain" ELSE "confirmed"),
           generation' \in Nat,
           serial' = serial, versions' = versions, pending' = pending, shown' = shown,
           observer' = observer, gate' = gate, sent' = sent
    PROVE  CallsInv'
<1>1. obs' \in [Calls -> Observers] /\ obs'[c] = p /\ \A d \in Calls \ {c} : obs'[d] = obs[d]
  BY NewObs DEF CallsInv
<1>2. \A d \in Calls : /\ cmd'[d].action = cmd[d].action /\ cmd'[d].serial = cmd[d].serial
                       /\ cmd'[d].at = cmd[d].at
  BY DEF Only, Same
<1>3. SerialInv' /\ TablesInv'
  BY <1>2, TablesRest DEF CallsInv, Tables, Live
<1>4. GateInv'
  BY <1>2, GateRest DEF CallsInv, AtGate
<1>5. \A d \in Calls \ {c} : RunInv(d)'
  BY <1>1, OthersRun
<1>6. RunInv(c)'
  <2>1. Course(c) /\ IsLock(c)' = IsLock(c)
    BY <1>2 DEF CallsInv, RunInv, IsLock
  <2>2. Course(c)'
    BY <1>1, <2>1 DEF Course, SameRest
  <2> QED
    BY <2>2 DEF RunInv, SuccessOf
<1> QED
  BY <1>1, <1>3, <1>4, <1>5, <1>6 DEF CallsInv, CommandsTyped

LEMMA ObservesIt ==
    ASSUME CallsInv, NEW c \in Calls, obs[c].at # "none"
    PROVE  cmd[c].at = "observe" /\ obs[c] \in Observers /\ obs \in [Calls -> Observers]
<1>1. Course(c) /\ obs \in [Calls -> Observers]
  BY DEF CallsInv, RunInv, CommandsTyped
<1> QED
  BY <1>1 DEF Course

\* The observer gives up.
LEMMA GivesUpKeeps ==
    ASSUME CallsInv, NEW c \in Calls, obs[c].at # "none", Concludes(c, FALSE),
           cmd' = [cmd EXCEPT ![c].conf = "unknown"], generation' \in Nat,
           serial' = serial, versions' = versions, pending' = pending, shown' = shown,
           observer' = observer, gate' = gate, sent' = sent
    PROVE  CallsInv'
<1> DEFINE q == obs[c]
           p == [q EXCEPT !.at = "done", !.found = FALSE]
<1>1. cmd[c].at = "observe" /\ q \in Observers /\ obs \in [Calls -> Observers]
  BY ObservesIt
<1>2. p \in Observers /\ p.at = "done" /\ p.found = FALSE
  BY <1>1 DEF Observers
<1>3. obs' = [obs EXCEPT ![c].at = "done", ![c].found = FALSE]
  BY DEF Concludes
<1>4. obs' = [obs EXCEPT ![c] = p]
  BY <1>1, <1>3, Zenon
<1>5. "unknown" \in CmdConfirmations
  BY DEF CmdConfirmations
<1>6. /\ cmd' \in [Calls -> Commands] /\ Only(c) /\ Same(c) /\ SameRest(c)
      /\ cmd'[c].at = cmd[c].at /\ cmd'[c].outcome = cmd[c].outcome
  BY <1>5, ConfDoes DEF CallsInv
<1> HIDE DEF p
<1> QED
  BY <1>1, <1>2, <1>4, <1>6, ObserverSteps, ZenonT(60)

LEMMA AttemptKeeps ==
    ASSUME CallsInv, committed \in Nat, NEW c \in Calls, Attempt(c)
    PROVE  CallsInv' /\ sent' = sent
<1> DEFINE q == obs[c]
           n == q.left - 1
           p == [q EXCEPT !.at = "read", !.left = n, !.prev = committed]
<1>1. /\ q.at = "slot" /\ q.left > 0
      /\ obs' = [obs EXCEPT ![c].at = "read", ![c].left = @ - 1, ![c].prev = committed]
      /\ cmd' = cmd /\ generation' = generation /\ serial' = serial /\ versions' = versions
      /\ pending' = pending /\ shown' = shown /\ observer' = observer /\ gate' = gate /\ sent' = sent
  BY DEF Attempt, HasSlot, Rest, history
<1>2. cmd[c].at = "observe" /\ q \in Observers /\ obs \in [Calls -> Observers]
  BY <1>1, ObservesIt
<1>3. n \in Nat
  BY <1>1, <1>2 DEF Observers
<1>4. obs' = [obs EXCEPT ![c] = p]
  BY <1>1, <1>2
<1> HIDE DEF n
<1>5. p \in Observers /\ p.at = "read" /\ p.found = q.found
  BY <1>2, <1>3 DEF Observers
<1>6. q.found = FALSE /\ generation \in Nat /\ q.found \in BOOLEAN
  BY <1>1, <1>2 DEF CallsInv, RunInv, Course, CommandsTyped, Observers
<1>7. cmd' \in [Calls -> Commands] /\ Only(c) /\ Same(c) /\ SameRest(c)
      /\ cmd'[c].at = cmd[c].at /\ cmd'[c].outcome = cmd[c].outcome /\ generation' \in Nat
  BY <1>1, <1>6 DEF CallsInv, CommandsTyped, Only, Same, SameRest
<1>8. p.at # "none" /\ ~p.found
  BY <1>5, <1>6
<1> HIDE DEF p
<1> QED
  BY <1>1, <1>2, <1>4, <1>5, <1>7, <1>8, ObserverSteps, ZenonT(60)

LEMMA NoSlotKeeps ==
    ASSUME CallsInv, NEW c \in Calls, NoSlot(c)
    PROVE  CallsInv' /\ sent' = sent
<1>1. /\ obs[c].at # "none" /\ Concludes(c, FALSE) /\ cmd' = [cmd EXCEPT ![c].conf = "unknown"]
      /\ serial' = serial /\ versions' = versions /\ pending' = pending /\ shown' = shown
      /\ observer' = observer /\ gate' = gate /\ sent' = sent /\ generation' = generation
  BY DEF NoSlot, tables, account, history
<1>2. generation' \in Nat
  BY <1>1 DEF CallsInv, CommandsTyped
<1> QED
  BY <1>1, <1>2, GivesUpKeeps

LEMMA DeadlineKeeps ==
    ASSUME CallsInv, NEW c \in Calls, Deadline(c)
    PROVE  CallsInv' /\ sent' = sent
<1>1. /\ obs[c].at # "none" /\ Concludes(c, FALSE) /\ cmd' = [cmd EXCEPT ![c].conf = "unknown"]
      /\ serial' = serial /\ versions' = versions /\ pending' = pending /\ shown' = shown
      /\ observer' = observer /\ gate' = gate /\ sent' = sent /\ generation' = generation
  BY DEF Deadline, tables, account, history
<1>2. generation' \in Nat
  BY <1>1 DEF CallsInv, CommandsTyped
<1> QED
  BY <1>1, <1>2, GivesUpKeeps

\* What the observer makes of a reading.
JudgedAs(c) ==
    \/ obs' = [obs EXCEPT ![c].at = "slot"] /\ UNCHANGED cmd
    \/ Concludes(c, FALSE) /\ cmd' = [cmd EXCEPT ![c].conf = "unknown"]
    \/ /\ Shows(c) /\ obs' = [obs EXCEPT ![c].at = "done", ![c].found = TRUE]
       /\ cmd' = [cmd EXCEPT ![c].conf = IF cmd[c].outcome = "uncertain"
                     THEN "observed_uncertain" ELSE "confirmed"]

LEMMA JudgeDoes ==
    ASSUME NEW c \in Calls, Judge(c)
    PROVE  /\ obs[c].at = "read" /\ JudgedAs(c)
           /\ generation' = generation \/ generation' = generation + 1
           /\ serial' = serial /\ versions' = versions /\ pending' = pending /\ shown' = shown
           /\ observer' = observer /\ gate' = gate /\ sent' = sent
           /\ answered' = answered /\ wire' = wire /\ status' = status /\ committed' = committed
           /\ revision' = revision /\ read' = Dropped({Observer(c)})
BY DEF Judge, JudgedAs, InvalidateAuth, tables, history

LEMMA JudgeKeeps ==
    ASSUME CallsInv, NEW c \in Calls, Judge(c)
    PROVE  CallsInv' /\ sent' = sent
<1>1. /\ obs[c].at = "read" /\ JudgedAs(c)
      /\ serial' = serial /\ versions' = versions /\ pending' = pending /\ shown' = shown
      /\ observer' = observer /\ gate' = gate /\ sent' = sent
      /\ generation' = generation \/ generation' = generation + 1
  BY JudgeDoes
<1>2. generation' \in Nat
  BY <1>1 DEF CallsInv, CommandsTyped
<1> DEFINE q == obs[c]
<1>3. cmd[c].at = "observe" /\ q \in Observers /\ obs \in [Calls -> Observers]
      /\ q.at = "read" /\ q.at # "none"
  BY <1>1, ObservesIt
<1>4. q.found = FALSE
  BY <1>3 DEF CallsInv, RunInv, Course, Observers
<1>5. CASE obs' = [obs EXCEPT ![c].at = "slot"] /\ UNCHANGED cmd
  <2> DEFINE p == [q EXCEPT !.at = "slot"]
  <2>1. p \in Observers /\ p.at # "none" /\ ~p.found
    BY <1>3, <1>4 DEF Observers
  <2>2. obs' = [obs EXCEPT ![c] = p]
    BY <1>3, <1>5, Zenon
  <2>3. cmd' \in [Calls -> Commands] /\ Only(c) /\ Same(c) /\ SameRest(c)
        /\ cmd'[c].at = cmd[c].at /\ cmd'[c].outcome = cmd[c].outcome
    BY <1>5 DEF CallsInv, CommandsTyped, Only, Same, SameRest
  <2> HIDE DEF p, q
  <2> QED
    BY <1>1, <1>2, <1>3, <2>1, <2>2, <2>3, ObserverSteps, ZenonT(60)
<1>6. CASE Concludes(c, FALSE) /\ cmd' = [cmd EXCEPT ![c].conf = "unknown"]
  BY <1>1, <1>2, <1>3, <1>6, GivesUpKeeps
<1>7. CASE /\ obs' = [obs EXCEPT ![c].at = "done", ![c].found = TRUE]
           /\ cmd' = [cmd EXCEPT ![c].conf = IF cmd[c].outcome = "uncertain"
                     THEN "observed_uncertain" ELSE "confirmed"]
  <2> DEFINE p == [q EXCEPT !.at = "done", !.found = TRUE]
             conf == IF cmd[c].outcome = "uncertain" THEN "observed_uncertain" ELSE "confirmed"
  <2>1. p \in Observers /\ p.at # "none" /\ p.at = "done"
    BY <1>3 DEF Observers
  <2>2. obs' = [obs EXCEPT ![c] = p]
    BY <1>3, <1>7, Zenon
  <2>3. conf \in CmdConfirmations /\ cmd' = [cmd EXCEPT ![c].conf = conf]
    BY <1>7 DEF CmdConfirmations
  <2>4. cmd' \in [Calls -> Commands] /\ Only(c) /\ Same(c) /\ SameRest(c)
        /\ cmd'[c].at = cmd[c].at /\ cmd'[c].outcome = cmd[c].outcome /\ cmd'[c].conf = conf
    <3> HIDE DEF conf
    <3> QED
      BY <2>3, ConfDoes DEF CallsInv
  <2> HIDE DEF p, q
  <2> QED
    BY <1>1, <1>2, <1>3, <2>1, <2>2, <2>4, ObserverSteps, ZenonT(60)
<1> QED
  BY <1>1, <1>5, <1>6, <1>7 DEF JudgedAs

\* Giving up the wait for the seat cancels its observer.
LEMMA SeatKeeps ==
    ASSUME CallsInv, CancelSeatUnlockWait
    PROVE  CallsInv' /\ sent' = sent
<1>1. /\ cmd' = cmd /\ Supersede("seat_lock") /\ "seat_lock" \in Keys
      /\ pending' = [pending EXCEPT !["seat_lock"] = NoOne]
      /\ shown' = shown \/ shown' = NoOne
      /\ gate' = gate /\ sent' = sent /\ generation' = generation
  BY DEF CancelSeatUnlockWait, Keys, history, account
<1>2. /\ versions' \in [Keys -> Nat]
      /\ \A k \in Keys : versions'[k] = versions[k] \/ versions'[k] = serial + 1
      /\ obs' \in [Calls -> Observers] /\ serial' = serial + 1
      /\ \A d \in Calls : \/ obs'[d] = obs[d]
                          \/ /\ d = observer["seat_lock"] /\ obs[d].at # "done"
                             /\ obs'[d].at = "cancelled" /\ obs'[d].found = obs[d].found
      /\ observer' = [observer EXCEPT !["seat_lock"] = NoOne]
  BY <1>1, SupersedeDoes DEF CallsInv, Supersede
<1>3. SerialInv' /\ TablesInv'
  BY TablesSeat, ControlAssumption DEF CallsInv
<1>4. GateInv'
  BY <1>1, GateRest DEF CallsInv, AtGate
<1>5. \A d \in Calls : RunInv(d)'
  <2> TAKE d \in Calls
  <2>1. RunInv(d) /\ cmd'[d] = cmd[d] /\ (d \in sent' <=> d \in sent)
    BY <1>1 DEF CallsInv
  <2>2. \A k \in Keys : observer'[k] = d => observer[k] = d
    BY <1>2, ControlAssumption DEF CallsInv, CommandsTyped
  <2>3. \/ obs'[d] = obs[d]
        \/ /\ cmd[d].at = "observe" /\ obs[d].at # "done"
           /\ obs'[d].at = "cancelled" /\ obs'[d].found = obs[d].found
    BY <1>1, <1>2, <2>1 DEF RunInv, Course
  <2> QED
    BY <1>2, <2>1, <2>2, <2>3, RunRests DEF CallsInv
<1>6. /\ pending' \in [Keys -> Calls \union {NoOne}] /\ shown' \in Calls \union {NoOne}
      /\ observer' \in [Keys -> Calls \union {NoOne}] /\ serial' \in Nat /\ generation' \in Nat
  BY <1>1, <1>2 DEF CallsInv, CommandsTyped
<1> QED
  BY <1>1, <1>2, <1>3, <1>4, <1>5, <1>6 DEF CallsInv, CommandsTyped

\* What another account does at the gate.
LEMMA OtherKeeps ==
    ASSUME CallsInv, NEW o \in Others, OtherEnters(o) \/ OtherLeaves(o)
    PROVE  CallsInv' /\ sent' = sent
<1>1. /\ UNCHANGED <<cmd, obs, serial, versions, pending, shown, observer, sent, generation>>
  BY DEF OtherEnters, OtherLeaves, World, calls, tables, account, history
<1>2. o \notin Calls /\ Others \intersect Calls = {}
  BY ControlAssumption
<1>3. GateInv' /\ gate' \in Seq(Calls \union Others)
  <2>1. CASE OtherEnters(o)
    BY <1>1, <1>2, <2>1, OtherJoins DEF OtherEnters, CallsInv
  <2>2. CASE OtherLeaves(o)
    <3>1. gate # <<>> /\ gate[1] = o /\ gate' = Tail(gate)
      BY <2>2, GateIs DEF OtherLeaves, CallsInv
    <3> QED
      BY <1>1, <1>2, <3>1, GateLeft DEF CallsInv
  <2> QED
    BY <2>1, <2>2
<1>4. SerialInv' /\ TablesInv'
  BY <1>1, TablesRest DEF CallsInv, Tables, Live
<1>5. \A d \in Calls : RunInv(d)'
  BY <1>1, RunRests DEF CallsInv
<1> QED
  BY <1>1, <1>3, <1>4, <1>5 DEF CallsInv, CommandsTyped

-----------------------------------------------------------------------------
\* The requests of the account.
ReqInv == RequestsTyped /\ WireInv /\ AfterInv
AnsweredStages == {"answered", "observe", "readback"}

LEMMA Apart ==
    /\ NoOne \notin Calls /\ NoOne \notin Readers /\ \A r \in Readers : r \notin Calls
    /\ \A c \in Calls : Observer(c) \in Readers /\ Follower(c) \in Readers
BY ControlAssumption DEF Readers, Observer, Follower

LEMMA NoReadIs ==
    ASSUME RequestsTyped
    PROVE  NoRead \in Requests /\ NoRead.at = "none" /\ NoRead.rev = 0
BY DEF NoRead, Requests, Errors

\* No command starts, is answered or is confirmed.
NewlyConfirmed(d) ==
    cmd'[d].conf \in {"confirmed", "observed_uncertain"} /\ cmd'[d].conf # cmd[d].conf
CommandsMove ==
    \A d \in Calls :
       /\ cmd'[d].rev = cmd[d].rev \/ cmd'[d].rev = 0
       /\ cmd'[d].at = "posted" => cmd[d].at = "posted" /\ cmd'[d].rev = cmd[d].rev
       /\ cmd'[d].at \in AnsweredStages /\ cmd'[d].rev > 0 =>
             /\ cmd[d].at \in AnsweredStages /\ cmd'[d].rev = cmd[d].rev
             /\ d \in answered => d \in answered'

LEMMA CommandsStay ==
    ASSUME cmd' = cmd, answered' = answered
    PROVE  CommandsMove /\ \A d \in Calls : ~NewlyConfirmed(d)
BY DEF CommandsMove, NewlyConfirmed, AnsweredStages

LEMMA OneMoves ==
    ASSUME NEW c \in Calls, Only(c), cmd'[c].rev = cmd[c].rev \/ cmd'[c].rev = 0,
           cmd'[c].at # "posted",
           (cmd'[c].at \in AnsweredStages /\ cmd'[c].rev > 0)
              => (cmd[c].at \in AnsweredStages /\ cmd'[c].rev = cmd[c].rev),
           \/ answered' = answered
           \/ answered' = answered \ {c} /\ cmd'[c].at \notin AnsweredStages
    PROVE  CommandsMove
BY DEF CommandsMove, Only

LEMMA OneUnconfirmed ==
    ASSUME NEW c \in Calls, Only(c),
           cmd'[c].conf = cmd[c].conf \/ cmd'[c].conf \notin {"confirmed", "observed_uncertain"}
    PROVE  \A d \in Calls : ~NewlyConfirmed(d)
BY DEF NewlyConfirmed, Only

\* A request that goes on: it is given up, queued again or refused, or its answer is back.
ReadMoves(r) ==
    \/ read'[r] = read[r]
    \/ /\ read'[r].rev = 0
       /\ \/ read'[r].at \in {"none", "queued", "back"}
          \/ read'[r].at = "parse" /\ read'[r].got = "refused"
    \/ /\ read[r].at = "wire" /\ read'[r].at = "parse"
       /\ read'[r].rev = read[r].rev /\ read'[r].after = read[r].after
WireMoves ==
    /\ wire' = wire \/ wire' = NoOne
    /\ \A d \in Calls : cmd'[d].at = "posted" => wire' = wire
    /\ \A r \in Readers : read'[r].at = "wire" => wire' = wire

LEMMA RequestsKept ==
    ASSUME CommandsTyped, ReqInv, CommandsMove, WireMoves, \A r \in Readers : ReadMoves(r),
           cmd' \in [Calls -> Commands],
           read' \in [Readers -> Requests], generation' \in Nat,
           status' = status, committed' = committed, revision' = revision,
           sent' \in SUBSET Calls, answered' \in SUBSET Calls, followup' \in Calls \union {NoOne}
    PROVE  ReqInv'
<1>1. RequestsTyped'
  BY DEF ReqInv, RequestsTyped, WireMoves
<1>2. /\ revision \in Nat /\ committed \in Nat
      /\ \A d \in Calls : cmd[d].rev \in Nat
      /\ \A r \in Readers : read[r].rev \in Nat /\ read'[r].rev \in Nat
  BY DEF ReqInv, RequestsTyped, CommandsTyped, Commands, Requests
<1>3. WireInv'
  <2>1. /\ \A d \in Calls : cmd'[d].rev <= revision
        /\ \A d \in Calls : cmd'[d].at = "posted" => wire' = d /\ cmd'[d].rev = revision
    BY <1>2 DEF ReqInv, WireInv, CommandsMove, WireMoves
  <2>2. ASSUME NEW r \in Readers
        PROVE  /\ read'[r].rev <= revision
               /\ read'[r].at = "wire" => wire' = r /\ read'[r].rev > 0
               /\ read'[r].at \in {"none", "queued", "back"} => read'[r].rev = 0
               /\ read'[r].at = "parse" /\ read'[r].got # "refused" => read'[r].rev > 0
    <3>1. ReadMoves(r)
      OBVIOUS
    <3> QED
      BY <1>2, <3>1 DEF ReqInv, WireInv, WireMoves, ReadMoves
  <2> QED
    BY <2>1, <2>2 DEF ReqInv, WireInv
<1>4. AfterInv'
  <2> SUFFICES ASSUME NEW d \in Calls, cmd'[d].at \in AnsweredStages, cmd'[d].rev > 0
               PROVE  /\ d \in answered'
                      /\ committed > cmd'[d].rev => d \in status.after
                      /\ \A r \in Readers : read'[r].at \in {"wire", "parse"}
                            /\ read'[r].rev > cmd'[d].rev => d \in read'[r].after
    BY DEF AfterInv, AnsweredStages
  <2>1. /\ cmd[d].at \in AnsweredStages /\ cmd'[d].rev = cmd[d].rev
        /\ d \in answered => d \in answered'
    BY DEF CommandsMove
  <2>2. /\ d \in answered'
        /\ committed > cmd[d].rev => d \in status.after
        /\ \A r \in Readers : read[r].at \in {"wire", "parse"}
              /\ read[r].rev > cmd[d].rev => d \in read[r].after
    BY <2>1 DEF ReqInv, AfterInv, AnsweredStages
  <2>3. ASSUME NEW r \in Readers, read'[r].at \in {"wire", "parse"}, read'[r].rev > cmd'[d].rev
        PROVE  d \in read'[r].after
    <3>1. ReadMoves(r) /\ read'[r].rev # 0 /\ cmd'[d].rev \in Nat
      BY <1>2, <2>1, <2>3
    <3> QED
      BY <2>1, <2>2, <2>3, <3>1 DEF ReadMoves
  <2> QED
    BY <2>1, <2>2, <2>3
<1> QED
  BY <1>1, <1>3, <1>4 DEF ReqInv

\* Requests are given up, and whoever of them is on the wire leaves it.
LEMMA GivenUp ==
    ASSUME ReqInv, CommandsMove, NEW ds, NEW fs, read' = Dropped(ds), wire' = FreeOf(fs),
           \A d \in Calls : d \in fs => cmd'[d].at # "posted",
           \A r \in Readers : r \in fs => r \in ds
    PROVE  /\ WireMoves /\ read' \in [Readers -> Requests] /\ \A r \in Readers : ReadMoves(r)
<1>1. NoRead \in Requests /\ NoRead.at = "none" /\ NoRead.rev = 0
  BY NoReadIs DEF ReqInv
<1>2. read \in [Readers -> Requests]
  BY DEF ReqInv, RequestsTyped
<1>3. read' \in [Readers -> Requests]
      /\ \A r \in Readers : read'[r] = IF r \in ds THEN NoRead ELSE read[r]
  BY <1>1, <1>2 DEF Dropped
<1>4. \A d \in Calls : cmd'[d].at = "posted" => wire' = wire
  BY DEF CommandsMove, ReqInv, WireInv, FreeOf
<1>5. \A r \in Readers : read'[r].at = "wire" => wire' = wire
  BY <1>1, <1>3 DEF ReqInv, WireInv, FreeOf
<1> QED
  BY <1>1, <1>3, <1>4, <1>5 DEF WireMoves, ReadMoves, FreeOf

\* One request is given up, and the wire is left as it is.
LEMMA OneGivenUp ==
    ASSUME ReqInv, CommandsMove, NEW r, read' = Dropped({r}), wire' = FreeOf({})
    PROVE  /\ WireMoves /\ read' \in [Readers -> Requests] /\ \A q \in Readers : ReadMoves(q)
<1> DEFINE ds == {r}
           fs == {}
<1>1. read' = Dropped(ds) /\ wire' = FreeOf(fs)
  OBVIOUS
<1>2. /\ \A d \in Calls : d \in fs => cmd'[d].at # "posted"
      /\ \A q \in Readers : q \in fs => q \in ds
  OBVIOUS
<1> HIDE DEF ds, fs
<1> QED
  BY <1>1, <1>2, GivenUp

\* No request moves.
LEMMA ReadsStay ==
    ASSUME ReqInv, read' = read, wire' = wire
    PROVE  WireMoves /\ read' \in [Readers -> Requests] /\ \A r \in Readers : ReadMoves(r)
BY DEF WireMoves, ReadMoves, ReqInv, RequestsTyped

\* One request moves, and the wire does not.
LEMMA OneReadMoves ==
    ASSUME ReqInv, NEW q \in Readers, NEW p \in Requests, read' = [read EXCEPT ![q] = p], wire' = wire,
           p.rev = 0,
           p.at \in {"none", "queued", "back"} \/ (p.at = "parse" /\ p.got = "refused")
    PROVE  WireMoves /\ read' \in [Readers -> Requests] /\ \A r \in Readers : ReadMoves(r)
<1>1. read' \in [Readers -> Requests] /\ read'[q] = p /\ \A r \in Readers \ {q} : read'[r] = read[r]
  BY DEF ReqInv, RequestsTyped
<1> QED
  BY <1>1 DEF WireMoves, ReadMoves

LEMMA EndsMoves ==
    ASSUME CallsInv, NEW c \in Calls, NEW outcome \in CmdOutcomes, NEW conf \in CmdConfirmations,
           NEW ret \in {"none", "ok", "error", "cancelled"}, Ends(c, outcome, conf, ret),
           conf = cmd[c].conf \/ conf \notin {"confirmed", "observed_uncertain"},
           answered' = answered
    PROVE  /\ CommandsMove /\ cmd'[c].at = "over"
           /\ \A d \in Calls : ~NewlyConfirmed(d)
<1>1. /\ Only(c) /\ SameRest(c) /\ cmd'[c].at = "over" /\ cmd'[c].conf = conf
  BY EndsDoes DEF CallsInv
<1>2. cmd'[c].rev = cmd[c].rev
  BY <1>1 DEF SameRest
<1>3. CommandsMove
  BY <1>1, <1>2, OneMoves DEF AnsweredStages
<1>4. \A d \in Calls : ~NewlyConfirmed(d)
  BY <1>1, OneUnconfirmed
<1> QED
  BY <1>1, <1>3, <1>4

\* What a step leaves alone that commits no status.
Uncommitted == status' = status /\ committed' = committed /\ revision' = revision

LEMMA TypedAfter ==
    ASSUME CallsInv, CallsInv', ReqInv
    PROVE  /\ CommandsTyped /\ cmd' \in [Calls -> Commands] /\ generation' \in Nat
           /\ sent \in SUBSET Calls /\ answered \in SUBSET Calls /\ followup \in Calls \union {NoOne}
BY DEF CallsInv, CommandsTyped, ReqInv, RequestsTyped

\* A call that enters, or is turned away, or is refused before it was sent.
LEMMA EnterRequests ==
    ASSUME CallsInv, CallsInv', ReqInv, NEW c \in Calls, NEW a \in Actions,
           Call(c, a) \/ Busy(c, a)
    PROVE  ReqInv' /\ Uncommitted /\ \A d \in Calls : ~NewlyConfirmed(d)
<1> USE TypedAfter
<1>1. CASE Busy(c, a)
  <2>1. /\ Only(c) /\ SameRest(c) /\ cmd'[c].at = "over" /\ cmd'[c].conf = cmd[c].conf
    BY <1>1, BusyDoes
  <2>2. /\ read' = read /\ wire' = wire /\ Uncommitted /\ sent' = sent /\ answered' = answered
        /\ followup' = followup
    BY <1>1 DEF Busy, reading, history, tables, Uncommitted
  <2>3. CommandsMove /\ \A d \in Calls : ~NewlyConfirmed(d)
    BY <2>1, <2>2, OneMoves, OneUnconfirmed DEF SameRest, AnsweredStages
  <2>4. WireMoves /\ read' \in [Readers -> Requests] /\ \A r \in Readers : ReadMoves(r)
    BY <2>2, ReadsStay
  <2> QED
    BY <2>2, <2>3, <2>4, RequestsKept DEF Uncommitted
<1>2. CASE Call(c, a)
  <2> DEFINE key == IF a \in DOMAIN LockTargets THEN LockTargets[a].lock ELSE a
             lost == {Observer(d) : d \in {observer[key]} \ {NoOne}}
                  \cup {Follower(d) : d \in {followup} \ {NoOne}}
  <2>1. /\ read' = Dropped(lost) /\ wire' = FreeOf(lost) /\ Uncommitted
        /\ sent' = sent /\ answered' = answered /\ cmd[c].at = "idle" /\ followup' = NoOne
    BY <1>2 DEF Call, history, Uncommitted
  <2>2. /\ Only(c) /\ SameRest(c) /\ cmd'[c].at \in {"gate", "over"}
        /\ cmd'[c].conf = cmd[c].conf \/ cmd'[c].conf = "pending"
    <3>1. cmd[c].at = "idle" => cmd[c].outcome = "pending"
      BY DEF CallsInv, RunInv, Course
    <3>2. Only(c) /\ SameRest(c) /\ cmd'[c].at \in {"gate", "over"}
      BY <1>2, <3>1, CallDoes
    <3>3. \/ cmd'[c].conf = IF a \in DOMAIN LockTargets THEN "pending" ELSE cmd[c].conf
          \/ cmd'[c].conf = cmd[c].conf
      BY <1>2 DEF Call, CommandsTyped, Commands
    <3> QED
      BY <3>2, <3>3
  <2>3. CommandsMove /\ \A d \in Calls : ~NewlyConfirmed(d)
    BY <2>1, <2>2, OneMoves, OneUnconfirmed DEF SameRest, AnsweredStages
  <2>4. \A d \in Calls : d \notin lost
    <3>1. key \in Keys
      BY ControlAssumption DEF Keys, LockTargets
    <3>2. observer[key] \in Calls \union {NoOne}
      BY <3>1 DEF CommandsTyped
    <3> HIDE DEF key
    <3>3. \A x \in lost : x \in Readers
      BY <3>2, Apart
    <3> QED
      BY <3>3, Apart
  <2> HIDE DEF lost
  <2>5. WireMoves /\ read' \in [Readers -> Requests] /\ \A r \in Readers : ReadMoves(r)
    BY <2>1, <2>3, <2>4, GivenUp
  <2> QED
    BY <2>1, <2>3, <2>5, RequestsKept DEF Uncommitted
<1> QED
  BY <1>1, <1>2

LEMMA RejectedRequests ==
    ASSUME CallsInv, CallsInv', ReqInv, NEW c \in Calls, Rejected(c)
    PROVE  ReqInv' /\ Uncommitted /\ \A d \in Calls : ~NewlyConfirmed(d)
<1> USE TypedAfter
<1>1. /\ Only(c) /\ cmd'[c].at = "answered" /\ cmd'[c].rev = cmd[c].rev /\ cmd'[c].conf = cmd[c].conf
  BY RejectedDoes
<1>2. /\ read' = read /\ wire' = wire /\ Uncommitted /\ sent' = sent /\ answered' = answered
      /\ followup' = followup /\ cmd[c].at = "gate"
  BY DEF Rejected, reading, history, tables, Uncommitted
<1>3. cmd[c].rev = 0
  BY <1>2 DEF CallsInv, RunInv, Course
<1>4. CommandsMove /\ \A d \in Calls : ~NewlyConfirmed(d)
  BY <1>1, <1>2, <1>3, OneMoves, OneUnconfirmed
<1>5. WireMoves /\ read' \in [Readers -> Requests] /\ \A r \in Readers : ReadMoves(r)
  BY <1>2, ReadsStay
<1> QED
  BY <1>2, <1>4, <1>5, RequestsKept DEF Uncommitted

\* A command goes on the wire: its revision is the newest.
LEMMA PostedRequests ==
    ASSUME CallsInv, CallsInv', ReqInv, NEW c \in Calls, Posted(c)
    PROVE  /\ ReqInv' /\ status' = status /\ committed' = committed
           /\ \A d \in Calls : ~NewlyConfirmed(d)
<1>1. /\ Only(c) /\ cmd'[c].at = "posted" /\ cmd'[c].rev = revision + 1 /\ cmd'[c].conf = cmd[c].conf
  BY PostedDoes DEF CallsInv, ReqInv, RequestsTyped
<1>2. /\ read' = read /\ wire = NoOne /\ wire' = c /\ revision' = revision + 1
      /\ status' = status /\ committed' = committed /\ sent' = sent \union {c}
      /\ answered' = answered /\ followup' = followup
  BY DEF Posted, reading, tables
<1>3. \A d \in Calls : ~NewlyConfirmed(d)
  BY <1>1, OneUnconfirmed
<1>4. RequestsTyped'
  BY <1>2, TypedAfter DEF ReqInv, RequestsTyped
<1>5. /\ revision \in Nat /\ committed \in Nat
      /\ \A d \in Calls : cmd[d].rev \in Nat
      /\ \A r \in Readers : read[r].rev \in Nat
  BY DEF ReqInv, RequestsTyped, CallsInv, CommandsTyped, Commands, Requests
<1>6. /\ \A d \in Calls \ {c} : cmd'[d] = cmd[d] /\ cmd[d].at # "posted"
      /\ \A r \in Readers : read[r].at # "wire"
  BY <1>1, <1>2, Apart DEF Only, ReqInv, WireInv
<1>7. WireInv'
  <2>1. \A d \in Calls : cmd'[d].rev <= revision + 1
    BY <1>1, <1>5, <1>6 DEF ReqInv, WireInv
  <2>2. \A r \in Readers : read[r].rev <= revision + 1
    BY <1>5 DEF ReqInv, WireInv
  <2>3. committed <= revision + 1
    BY <1>5 DEF ReqInv, WireInv
  <2>4. \A d \in Calls : cmd'[d].at = "posted" => (wire' = d /\ cmd'[d].rev = revision + 1)
    BY <1>1, <1>2, <1>6
  <2> QED
    BY <1>2, <1>6, <2>1, <2>2, <2>3, <2>4 DEF ReqInv, WireInv
<1>8. AfterInv'
  BY <1>1, <1>2, <1>6 DEF ReqInv, AfterInv
<1> QED
  BY <1>2, <1>3, <1>4, <1>7, <1>8 DEF ReqInv

\* Its answer comes before any request that is sent after it.
LEMMA AnsweredRequests ==
    ASSUME CallsInv, CallsInv', ReqInv, NEW c \in Calls, NEW reply \in {"ok", "error", "auth"},
           CommandAnswered(c, reply)
    PROVE  ReqInv' /\ Uncommitted /\ \A d \in Calls : ~NewlyConfirmed(d)
<1>1. /\ Only(c) /\ cmd'[c].at = "answered" /\ cmd'[c].rev = cmd[c].rev /\ cmd'[c].conf = cmd[c].conf
  BY AnsweredDoes DEF CallsInv
<1>2. /\ read' = read /\ wire' = NoOne /\ Uncommitted /\ sent' = sent
      /\ answered' = answered \union {c} /\ followup' = followup /\ cmd[c].at = "posted"
  BY DEF CommandAnswered, reading, tables, Uncommitted
<1>3. \A d \in Calls : ~NewlyConfirmed(d)
  BY <1>1, OneUnconfirmed
<1>4. RequestsTyped'
  BY <1>2, TypedAfter DEF ReqInv, RequestsTyped, Uncommitted
<1>5. /\ revision \in Nat /\ committed \in Nat
      /\ \A d \in Calls : cmd[d].rev \in Nat
      /\ \A r \in Readers : read[r].rev \in Nat
  BY DEF ReqInv, RequestsTyped, CallsInv, CommandsTyped, Commands, Requests
<1>6. /\ \A d \in Calls \ {c} : cmd'[d] = cmd[d] /\ cmd[d].at # "posted"
      /\ \A r \in Readers : read[r].at # "wire"
      /\ cmd[c].rev = revision /\ wire = c
  BY <1>1, <1>2, Apart DEF Only, ReqInv, WireInv
<1>7. WireInv'
  BY <1>1, <1>2, <1>6 DEF ReqInv, WireInv, Uncommitted
<1>8. AfterInv'
  <2>1. committed <= cmd'[c].rev /\ \A r \in Readers : read[r].rev <= cmd'[c].rev
    BY <1>1, <1>6 DEF ReqInv, WireInv
  <2>2. /\ ~(committed > cmd'[c].rev)
        /\ \A r \in Readers : ~(read[r].rev > cmd'[c].rev)
    BY <1>1, <1>5, <2>1
  <2> QED
    BY <1>1, <1>2, <1>6, <2>2 DEF ReqInv, AfterInv, Uncommitted
<1> QED
  BY <1>2, <1>3, <1>4, <1>7, <1>8 DEF ReqInv

\* The command resumes, in its course.
LEMMA ResumeRequests ==
    ASSUME CallsInv, CallsInv', ReqInv, NEW c \in Calls, Resume(c)
    PROVE  ReqInv' /\ Uncommitted /\ \A d \in Calls : ~NewlyConfirmed(d)
<1> USE TypedAfter
<1>1. /\ cmd[c].at = "answered" /\ (ResumeFails(c) \/ ResumeGoesOn(c))
      /\ read' = read /\ wire' = wire /\ Uncommitted /\ sent' = sent /\ answered' = answered
      /\ followup' = followup
  BY DEF Resume, reading, history, Uncommitted
<1>2. WireMoves /\ read' \in [Readers -> Requests] /\ \A r \in Readers : ReadMoves(r)
  BY <1>1, ReadsStay
<1>3. CommandsMove /\ \A d \in Calls : ~NewlyConfirmed(d)
  <2>1. CASE \E outcome \in CmdOutcomes, conf \in {"unknown", "not_requested", "superseded"},
                ret \in {"ok", "error"} : Ends(c, outcome, conf, ret)
    <3>1. PICK outcome \in CmdOutcomes, conf \in {"unknown", "not_requested", "superseded"},
                ret \in {"ok", "error"} : Ends(c, outcome, conf, ret)
      BY <2>1
    <3>2. /\ conf \in CmdConfirmations /\ ret \in {"none", "ok", "error", "cancelled"}
          /\ conf = cmd[c].conf \/ conf \notin {"confirmed", "observed_uncertain"}
      BY DEF CmdConfirmations
    <3>3. answered' = answered
      BY <1>1
    <3> QED
      BY <3>1, <3>2, <3>3, EndsMoves, ZenonT(60)
  <2>2. CASE \E outcome \in {"accepted", "uncertain"}, at \in {"observe", "readback"} :
                cmd' = [cmd EXCEPT ![c].outcome = outcome, ![c].at = at]
    <3>1. PICK outcome \in {"accepted", "uncertain"}, at \in {"observe", "readback"} :
                cmd' = [cmd EXCEPT ![c].outcome = outcome, ![c].at = at]
      BY <2>2
    <3>2. Only(c) /\ SameRest(c) /\ cmd'[c].at \in {"observe", "readback"}
      BY <3>1, ObservesDoes
    <3>3. cmd'[c].conf = cmd[c].conf
      BY <3>1 DEF CommandsTyped, Commands
    <3>4. /\ cmd'[c].rev = cmd[c].rev /\ cmd'[c].at # "posted" /\ cmd[c].at \in AnsweredStages
          /\ answered' = answered
      BY <1>1, <3>2 DEF SameRest, AnsweredStages
    <3>5. CommandsMove
      BY <3>2, <3>4, OneMoves
    <3>6. \A d \in Calls : ~NewlyConfirmed(d)
      BY <3>2, <3>3, OneUnconfirmed
    <3> QED
      BY <3>5, <3>6
  <2>3. ResumeFails(c) => \E outcome \in CmdOutcomes, conf \in {"unknown", "not_requested", "superseded"},
                ret \in {"ok", "error"} : Ends(c, outcome, conf, ret)
    BY DEF ResumeFails, CmdOutcomes
  <2>4. ResumeGoesOn(c) =>
           \/ \E outcome \in CmdOutcomes, conf \in {"unknown", "not_requested", "superseded"},
                ret \in {"ok", "error"} : Ends(c, outcome, conf, ret)
           \/ \E outcome \in {"accepted", "uncertain"}, at \in {"observe", "readback"} :
                cmd' = [cmd EXCEPT ![c].outcome = outcome, ![c].at = at]
    BY DEF ResumeGoesOn, CmdOutcomes
  <2> QED
    BY <1>1, <2>1, <2>2, <2>3, <2>4
<1> QED
  BY <1>1, <1>2, <1>3, RequestsKept DEF Uncommitted

\* A command that ends, is cancelled, or is given back to its caller.
LEMMA EndRequests ==
    ASSUME CallsInv, CallsInv', ReqInv, NEW c \in Calls,
           Readback(c) \/ ObserverEnded(c) \/ Cancelled(c)
    PROVE  ReqInv' /\ Uncommitted /\ \A d \in Calls : ~NewlyConfirmed(d)
<1> USE TypedAfter
<1>1. /\ Uncommitted /\ sent' = sent /\ answered' = answered
      /\ followup' = followup \/ followup' = c
  BY DEF Readback, ObserverEnded, Cancelled, FollowsUp, reading, history, Uncommitted
<1>2. cmd[c].outcome \in CmdOutcomes /\ cmd[c].conf \in CmdConfirmations
  BY DEF CommandsTyped, Commands
<1>3. \E outcome \in CmdOutcomes, conf \in {cmd[c].conf, "cancelled", "superseded"},
         ret \in {"ok", "error", "cancelled"} : Ends(c, outcome, conf, ret)
  <2>1. CASE Readback(c)
    BY <1>2, <2>1 DEF Readback
  <2>2. CASE ObserverEnded(c)
    BY <1>2, <2>2 DEF ObserverEnded, Reports
  <2>3. CASE Cancelled(c)
    BY <1>2, <2>3 DEF Cancelled, CmdOutcomes
  <2> QED
    BY <2>1, <2>2, <2>3
<1>4. CommandsMove /\ cmd'[c].at = "over" /\ \A d \in Calls : ~NewlyConfirmed(d)
  <2>1. PICK outcome \in CmdOutcomes, conf \in {cmd[c].conf, "cancelled", "superseded"},
         ret \in {"ok", "error", "cancelled"} : Ends(c, outcome, conf, ret)
    BY <1>3
  <2>2. /\ conf \in CmdConfirmations /\ ret \in {"none", "ok", "error", "cancelled"}
        /\ conf = cmd[c].conf \/ conf \notin {"confirmed", "observed_uncertain"}
    BY <1>2 DEF CmdConfirmations
  <2>3. answered' = answered
    BY <1>1
  <2> QED
    BY <2>1, <2>2, <2>3, EndsMoves, ZenonT(60)
<1>5. WireMoves /\ read' \in [Readers -> Requests] /\ \A r \in Readers : ReadMoves(r)
  <2>1. CASE Readback(c) \/ ObserverEnded(c)
    BY <2>1, ReadsStay DEF Readback, ObserverEnded, reading
  <2>2. CASE Cancelled(c)
    <3> DEFINE ds == {Observer(c)}
               fs == {Observer(c), c}
    <3>1. read' = Dropped(ds) /\ wire' = FreeOf(fs)
      BY <2>2 DEF Cancelled
    <3>2. \A d \in Calls : d \in fs => d = c
      BY Apart
    <3>3. \A r \in Readers : r \in fs => r \in ds
      BY Apart
    <3> HIDE DEF ds, fs
    <3> QED
      BY <1>4, <3>1, <3>2, <3>3, GivenUp
  <2> QED
    BY <2>1, <2>2
<1> QED
  BY <1>1, <1>4, <1>5, RequestsKept DEF Uncommitted

LEMMA ReturnRequests ==
    ASSUME CallsInv, CallsInv', ReqInv, NEW c \in Calls, Return(c)
    PROVE  ReqInv' /\ Uncommitted /\ \A d \in Calls : ~NewlyConfirmed(d)
<1> USE TypedAfter
<1>1. /\ Only(c) /\ cmd'[c].at = "done" /\ cmd'[c].rev = 0
  BY ReturnDoes
<1>2. cmd'[c].conf = "not_requested"
  BY DEF Return, NoCall, CommandsTyped
<1>3. /\ read' = read /\ wire' = wire /\ Uncommitted /\ sent' = sent \ {c}
      /\ answered' = answered \ {c} /\ followup' = followup
  BY DEF Return, reading, tables, Uncommitted
<1>4. CommandsMove /\ \A d \in Calls : ~NewlyConfirmed(d)
  BY <1>1, <1>2, <1>3, OneMoves, OneUnconfirmed DEF AnsweredStages
<1>5. WireMoves /\ read' \in [Readers -> Requests] /\ \A r \in Readers : ReadMoves(r)
  BY <1>3, ReadsStay
<1> QED
  BY <1>3, <1>4, <1>5, RequestsKept DEF Uncommitted

\* A request that is asked for, by reader r.
LEMMA AskedIs ==
    ASSUME ReqInv
    PROVE  /\ [NoRead EXCEPT !.at = "queued", !.gen = generation] \in Requests
           /\ [NoRead EXCEPT !.at = "queued", !.gen = generation].rev = 0
           /\ [NoRead EXCEPT !.at = "queued", !.gen = generation].at = "queued"
BY DEF NoRead, Requests, Errors, ReqInv, RequestsTyped

\* The observer asks, and gives up.
LEMMA AttemptRequests ==
    ASSUME CallsInv, CallsInv', ReqInv, NEW c \in Calls, Attempt(c)
    PROVE  ReqInv' /\ Uncommitted /\ \A d \in Calls : ~NewlyConfirmed(d)
<1> USE TypedAfter
<1> DEFINE p == [NoRead EXCEPT !.at = "queued", !.gen = generation]
<1>1. /\ cmd' = cmd /\ wire' = wire /\ Uncommitted /\ sent' = sent /\ answered' = answered
      /\ followup' = followup /\ read' = [read EXCEPT ![Observer(c)] = p]
  BY DEF Attempt, Rest, history, Uncommitted
<1>2. p \in Requests /\ p.rev = 0 /\ p.at = "queued"
  BY AskedIs
<1> HIDE DEF p
<1>3. CommandsMove /\ \A d \in Calls : ~NewlyConfirmed(d)
  BY <1>1, CommandsStay
<1>4. WireMoves /\ read' \in [Readers -> Requests] /\ \A r \in Readers : ReadMoves(r)
  BY <1>1, <1>2, Apart, OneReadMoves
<1> QED
  BY <1>1, <1>3, <1>4, RequestsKept DEF Uncommitted

\* What an observer changes of its command's record.
LEMMA ConfMoves ==
    ASSUME CallsInv, NEW c \in Calls, NEW conf \in CmdConfirmations,
           cmd' = [cmd EXCEPT ![c].conf = conf], answered' = answered
    PROVE  /\ CommandsMove /\ \A d \in Calls : NewlyConfirmed(d) => d = c
           /\ conf \notin {"confirmed", "observed_uncertain"} => \A d \in Calls : ~NewlyConfirmed(d)
<1>1. /\ Only(c) /\ SameRest(c) /\ cmd'[c].at = cmd[c].at /\ cmd'[c].conf = conf
  BY ConfDoes DEF CallsInv
<1>2. \A d \in Calls : /\ cmd'[d].rev = cmd[d].rev /\ cmd'[d].at = cmd[d].at
                       /\ d # c => cmd'[d].conf = cmd[d].conf
  BY <1>1 DEF Only, SameRest
<1> QED
  BY <1>1, <1>2 DEF CommandsMove, NewlyConfirmed

LEMMA GivesUpRequests ==
    ASSUME CallsInv, CallsInv', ReqInv, NEW c \in Calls, NoSlot(c) \/ Deadline(c)
    PROVE  ReqInv' /\ Uncommitted /\ \A d \in Calls : ~NewlyConfirmed(d)
<1> USE TypedAfter
<1>1. /\ Uncommitted /\ sent' = sent /\ answered' = answered /\ followup' = followup
      /\ cmd' = [cmd EXCEPT ![c].conf = "unknown"]
  BY DEF NoSlot, Deadline, reading, tables, history, Uncommitted
<1>2. CommandsMove /\ \A d \in Calls : ~NewlyConfirmed(d)
  <2>1. "unknown" \in CmdConfirmations
    BY DEF CmdConfirmations
  <2> QED
    BY <1>1, <2>1, ConfMoves
<1>3. WireMoves /\ read' \in [Readers -> Requests] /\ \A r \in Readers : ReadMoves(r)
  <2>1. CASE NoSlot(c)
    BY <2>1, ReadsStay DEF NoSlot, reading
  <2>2. CASE Deadline(c)
    <3>1. read' = Dropped({Observer(c)}) /\ wire' = FreeOf({Observer(c)})
      BY <2>2 DEF Deadline
    <3> QED
      BY <1>2, <3>1, Apart, GivenUp
  <2> QED
    BY <2>1, <2>2
<1> QED
  BY <1>1, <1>2, <1>3, RequestsKept DEF Uncommitted

\* A reading that shows the target was asked for after the answer of the command.
LEMMA JudgeRequests ==
    ASSUME CallsInv, CallsInv', ReqInv, NEW c \in Calls, Judge(c)
    PROVE  ReqInv' /\ Uncommitted /\ \A d \in Calls : NewlyConfirmed(d) => d \in status.after
<1> USE TypedAfter
<1>1. /\ obs[c].at = "read" /\ JudgedAs(c) /\ Uncommitted /\ sent' = sent /\ answered' = answered
      /\ wire' = wire /\ read' = Dropped({Observer(c)})
  BY JudgeDoes DEF Uncommitted
<1>2. followup' = followup
  BY DEF Judge, tables
<1>3. CommandsMove /\ \A d \in Calls : NewlyConfirmed(d) => d \in status.after
  <2>1. CASE cmd' = cmd
    BY <1>1, <2>1, CommandsStay
  <2>2. CASE cmd' = [cmd EXCEPT ![c].conf = "unknown"]
    <3>1. "unknown" \in CmdConfirmations
      BY DEF CmdConfirmations
    <3> QED
      BY <1>1, <2>2, <3>1, ConfMoves
  <2>3. CASE Shows(c) /\ cmd' = [cmd EXCEPT ![c].conf = IF cmd[c].outcome = "uncertain"
                     THEN "observed_uncertain" ELSE "confirmed"]
    <3> DEFINE conf == IF cmd[c].outcome = "uncertain" THEN "observed_uncertain" ELSE "confirmed"
    <3>1. conf \in CmdConfirmations
      BY DEF CmdConfirmations
    <3>2. CommandsMove /\ \A d \in Calls : NewlyConfirmed(d) => d = c
      <4>1. cmd' = [cmd EXCEPT ![c].conf = conf]
        BY <2>3
      <4> HIDE DEF conf
      <4> QED
        BY <1>1, <3>1, <4>1, ConfMoves
    <3>3. cmd[c].at = "observe" /\ obs[c] \in Observers
      BY <1>1, ObservesIt
    <3>4. cmd[c].rev > 0 /\ cmd[c].rev \in Nat /\ obs[c].prev \in Nat /\ committed \in Nat
      <4>1. Course(c) /\ cmd[c] \in Commands
        BY DEF CallsInv, RunInv, CommandsTyped
      <4> QED
        BY <3>3, <4>1 DEF Course, Commands, Observers, ReqInv, RequestsTyped
    <3>5. committed > cmd[c].rev
      BY <2>3, <3>4 DEF Shows, Advanced, Later
    <3>6. c \in status.after
      BY <3>3, <3>4, <3>5 DEF ReqInv, AfterInv
    <3> QED
      BY <3>2, <3>6
  <2> QED
    BY <1>1, <2>1, <2>2, <2>3 DEF JudgedAs
<1>4. WireMoves /\ read' \in [Readers -> Requests] /\ \A r \in Readers : ReadMoves(r)
  <2>1. wire' = FreeOf({}) /\ read' = Dropped({Observer(c)}) /\ CommandsMove
    BY <1>1, <1>3 DEF FreeOf
  <2> QED
    BY <2>1, OneGivenUp
<1> QED
  BY <1>1, <1>2, <1>3, <1>4, RequestsKept DEF Uncommitted

LEMMA SeatRequests ==
    ASSUME CallsInv, CallsInv', ReqInv, CancelSeatUnlockWait
    PROVE  ReqInv' /\ Uncommitted /\ \A d \in Calls : ~NewlyConfirmed(d)
<1> USE TypedAfter
<1> DEFINE lost == {Observer(d) : d \in {observer["seat_lock"]} \ {NoOne}}
<1>1. /\ cmd' = cmd /\ read' = Dropped(lost) /\ wire' = FreeOf(lost) /\ Uncommitted
      /\ sent' = sent /\ answered' = answered /\ followup' = followup
  BY DEF CancelSeatUnlockWait, history, Uncommitted
<1>2. CommandsMove /\ \A d \in Calls : ~NewlyConfirmed(d)
  BY <1>1, CommandsStay
<1>3. \A d \in Calls : d \notin lost
  <2>1. observer["seat_lock"] \in Calls \union {NoOne}
    BY DEF CommandsTyped, Keys
  <2>2. \A x \in lost : x \in Readers
    BY <2>1, Apart
  <2> QED
    BY <2>2, Apart
<1> HIDE DEF lost
<1>4. WireMoves /\ read' \in [Readers -> Requests] /\ \A r \in Readers : ReadMoves(r)
  BY <1>1, <1>2, <1>3, GivenUp
<1> QED
  BY <1>1, <1>2, <1>4, RequestsKept DEF Uncommitted

-----------------------------------------------------------------------------
\* The status requests and the follow-ups leave the calls alone.
CallsAlone == UNCHANGED <<cmd, obs, serial, versions, pending, shown, observer, gate, sent, answered>>
GenerationGrows == generation' = generation \/ generation' = generation + 1

LEMMA AloneKeeps ==
    ASSUME CallsInv, CallsAlone, GenerationGrows
    PROVE  /\ CallsInv' /\ sent' = sent /\ CommandsMove
           /\ \A d \in Calls : ~NewlyConfirmed(d)
<1>1. generation' \in Nat
  BY DEF CallsInv, CommandsTyped, GenerationGrows
<1>2. CallsInv'
  BY <1>1, CallsRest DEF CallsAlone
<1> QED
  BY <1>2, CommandsStay DEF CallsAlone

\* A request that goes on without a commit.
LEMMA ReadsRequests ==
    ASSUME CallsInv, ReqInv, CallsAlone, GenerationGrows, Uncommitted,
           followup' \in Calls \union {NoOne},
           WireMoves, read' \in [Readers -> Requests], \A r \in Readers : ReadMoves(r)
    PROVE  ReqInv'
<1>1. CommandsMove /\ CallsInv'
  BY AloneKeeps
<1>2. /\ CommandsTyped /\ cmd' \in [Calls -> Commands] /\ generation' \in Nat
      /\ sent' \in SUBSET Calls /\ answered' \in SUBSET Calls
  BY <1>1, TypedAfter DEF CallsAlone
<1> QED
  BY <1>1, <1>2, RequestsKept DEF Uncommitted

LEMMA BackIs ==
    ASSUME ReqInv, NEW r \in Readers, Back(r)
    PROVE  \E p \in Requests : /\ read' = [read EXCEPT ![r] = p] /\ p.rev = 0
                               /\ p.at \in {"none", "back"}
<1> DEFINE p == [NoRead EXCEPT !.at = IF r \in Polls THEN "none" ELSE "back"]
<1>1. p \in Requests /\ p.rev = 0 /\ p.at \in {"none", "back"}
  BY DEF NoRead, Requests, Errors
<1>2. read' = [read EXCEPT ![r] = p]
  BY DEF Back, Sets
<1> QED
  BY <1>1, <1>2

LEMMA PollsAreReaders == \A p \in Polls : p \in Readers
BY DEF Readers

LEMMA QueuedRequests ==
    ASSUME CallsInv, ReqInv, NEW r \in Readers,
           (r \in Polls /\ (PollBegins(r) \/ PollAuth(r))) \/ ReadSkipped(r) \/ ReadRefused(r)
    PROVE  CallsAlone /\ GenerationGrows /\ Uncommitted /\ ReqInv'
<1>1. CallsAlone /\ GenerationGrows /\ Uncommitted /\ wire' = wire /\ followup' = followup
  BY DEF PollBegins, PollAuth, ReadSkipped, ReadRefused, ReadRest, calls, tables, history,
         CallsAlone, GenerationGrows, Uncommitted, InvalidateAuth
<1>2. \E p \in Requests :
         /\ read' = [read EXCEPT ![r] = p] /\ p.rev = 0
         /\ p.at \in {"none", "queued", "back"} \/ (p.at = "parse" /\ p.got = "refused")
  <2>1. CASE PollBegins(r)
    BY <2>1, AskedIs DEF PollBegins, Sets
  <2>2. CASE PollAuth(r)
    BY <2>2, NoReadIs DEF PollAuth, Sets, ReqInv
  <2>3. CASE ReadSkipped(r)
    BY <2>3, BackIs DEF ReadSkipped
  <2>4. CASE ReadRefused(r)
    <3> DEFINE q == read[r]
               p == [q EXCEPT !.at = "parse", !.got = "refused"]
    <3>1. q \in Requests /\ q.rev = 0
      BY <2>4 DEF ReadRefused, ReqInv, RequestsTyped, WireInv
    <3>2. p \in Requests /\ p.rev = 0 /\ p.at = "parse" /\ p.got = "refused"
      BY <3>1 DEF Requests, Errors
    <3>3. read' = [read EXCEPT ![r] = p]
      BY <2>4 DEF ReadRefused, Sets
    <3> HIDE DEF p
    <3> QED
      BY <3>2, <3>3
  <2> QED
    BY <2>1, <2>2, <2>3, <2>4
<1>3. WireMoves /\ read' \in [Readers -> Requests] /\ \A q \in Readers : ReadMoves(q)
  BY <1>1, <1>2, OneReadMoves
<1>4. followup' \in Calls \union {NoOne}
  BY <1>1 DEF ReqInv, RequestsTyped
<1> QED
  BY <1>1, <1>3, <1>4, ReadsRequests

\* A request goes on the wire after every answer so far.
LEMMA StartedRequests ==
    ASSUME CallsInv, ReqInv, NEW r \in Readers, ReadStarts(r)
    PROVE  /\ CallsAlone /\ GenerationGrows /\ ReqInv'
           /\ status' = status /\ committed' = committed
<1> DEFINE q == read[r]
           n == revision + 1
           p == [q EXCEPT !.at = "wire", !.rev = n, !.after = answered]
<1>1. /\ CallsAlone /\ GenerationGrows /\ status' = status /\ committed' = committed
      /\ followup' = followup /\ wire = NoOne /\ wire' = r /\ revision' = n /\ generation' = generation
  BY DEF ReadStarts, ReadRest, calls, tables, history, CallsAlone, GenerationGrows
<1>2. /\ revision \in Nat /\ committed \in Nat
      /\ \A d \in Calls : cmd[d].rev \in Nat
      /\ \A x \in Readers : read[x].rev \in Nat
      /\ q \in Requests /\ read \in [Readers -> Requests] /\ answered \in SUBSET Calls
  BY DEF ReqInv, RequestsTyped, CallsInv, CommandsTyped, Commands, Requests
<1>3. n \in Nat /\ n > 0 /\ revision < n
  BY <1>2
<1>4. read' = [read EXCEPT ![r] = p]
  BY DEF ReadStarts, Sets
<1>5. /\ \A d \in Calls : cmd[d].rev <= n
      /\ \A x \in Readers : read[x].rev <= n
      /\ committed <= n
  BY <1>2 DEF ReqInv, WireInv
<1> HIDE DEF n
<1>6. p \in Requests /\ p.at = "wire" /\ p.rev = n /\ p.after = answered
  BY <1>2, <1>3 DEF Requests
<1> HIDE DEF p
<1>7. /\ read' \in [Readers -> Requests] /\ read'[r] = p
      /\ \A x \in Readers \ {r} : read'[x] = read[x] /\ read[x].at # "wire"
      /\ \A d \in Calls : cmd[d].at # "posted"
  BY <1>1, <1>2, <1>4, <1>6, Apart DEF ReqInv, WireInv
<1>8. RequestsTyped'
  BY <1>1, <1>2, <1>3, <1>7 DEF ReqInv, RequestsTyped, CallsAlone
<1>9. cmd' = cmd /\ answered' = answered
  BY <1>1 DEF CallsAlone
<1>10. WireInv'
  <2>1. \A x \in Readers : /\ read'[x].rev <= n
                           /\ read'[x].at = "wire" => (wire' = x /\ read'[x].rev > 0)
                           /\ read'[x].at \in {"none", "queued", "back"} => read'[x].rev = 0
                           /\ (read'[x].at = "parse" /\ read'[x].got # "refused") => read'[x].rev > 0
    <3> TAKE x \in Readers
    <3>1. CASE x = r
      BY <1>1, <1>3, <1>6, <1>7, <3>1
    <3>2. CASE x # r
      BY <1>5, <1>7, <3>2 DEF ReqInv, WireInv
    <3> QED
      BY <3>1, <3>2
  <2> QED
    BY <1>1, <1>5, <1>7, <1>9, <2>1 DEF WireInv
<1>11. AfterInv'
  <2> SUFFICES ASSUME NEW d \in Calls, cmd[d].at \in {"answered", "observe", "readback"}, cmd[d].rev > 0
               PROVE  /\ d \in answered
                      /\ committed > cmd[d].rev => d \in status.after
                      /\ \A x \in Readers : read'[x].at \in {"wire", "parse"}
                            /\ read'[x].rev > cmd[d].rev => d \in read'[x].after
    BY <1>1, <1>9 DEF AfterInv
  <2> QED
    BY <1>6, <1>7 DEF ReqInv, AfterInv
<1> QED
  BY <1>1, <1>8, <1>10, <1>11 DEF ReqInv

\* Its answer comes back.
LEMMA BackRequests ==
    ASSUME CallsInv, ReqInv, NEW r \in Readers, ReadAnswered(r)
    PROVE  CallsAlone /\ GenerationGrows /\ Uncommitted /\ ReqInv'
<1>1. /\ CallsAlone /\ GenerationGrows /\ Uncommitted /\ followup' = followup
      /\ wire' = NoOne /\ read[r].at = "wire"
  BY DEF ReadAnswered, ReadRest, calls, tables, history, CallsAlone, GenerationGrows,
         Uncommitted, InvalidateAuth
<1>2. read[r] \in Requests /\ read \in [Readers -> Requests] /\ wire = r
  BY <1>1 DEF ReqInv, RequestsTyped, WireInv
<1>3. \E p \in Requests :
        /\ read' = [read EXCEPT ![r] = p]
        /\ \/ p.at = "back" /\ p.rev = 0
           \/ p.at = "parse" /\ p.rev = read[r].rev /\ p.after = read[r].after
  <2> DEFINE q == read[r]
  <2>1. CASE \E v \in Samples : Sets(r, [read[r] EXCEPT !.at = "parse", !.value = v])
    <3>1. PICK v \in Samples : Sets(r, [read[r] EXCEPT !.at = "parse", !.value = v])
      BY <2>1
    <3> DEFINE p == [q EXCEPT !.at = "parse", !.value = v]
    <3>2. p \in Requests /\ p.at = "parse" /\ p.rev = q.rev /\ p.after = q.after
      BY <1>2 DEF Requests
    <3>3. read' = [read EXCEPT ![r] = p]
      BY <3>1 DEF Sets
    <3> HIDE DEF p
    <3> QED
      BY <3>2, <3>3
  <2>2. CASE Sets(r, [read[r] EXCEPT !.at = "parse", !.got = "failed"])
    <3> DEFINE p == [q EXCEPT !.at = "parse", !.got = "failed"]
    <3>2. p \in Requests /\ p.at = "parse" /\ p.rev = q.rev /\ p.after = q.after
      BY <1>2 DEF Requests, Errors
    <3>3. read' = [read EXCEPT ![r] = p]
      BY <2>2 DEF Sets
    <3> HIDE DEF p
    <3> QED
      BY <3>2, <3>3
  <2>3. CASE Sets(r, [NoRead EXCEPT !.at = "back", !.got = "auth"])
    <3> DEFINE p == [NoRead EXCEPT !.at = "back", !.got = "auth"]
    <3>2. p \in Requests /\ p.at = "back" /\ p.rev = 0
      BY DEF Requests, Errors, NoRead
    <3>3. read' = [read EXCEPT ![r] = p]
      BY <2>3 DEF Sets
    <3> HIDE DEF p
    <3> QED
      BY <3>2, <3>3
  <2> QED
    BY <2>1, <2>2, <2>3 DEF ReadAnswered
<1>4. PICK p \in Requests :
        /\ read' = [read EXCEPT ![r] = p]
        /\ \/ p.at = "back" /\ p.rev = 0
           \/ p.at = "parse" /\ p.rev = read[r].rev /\ p.after = read[r].after
  BY <1>3
<1>5. /\ read' \in [Readers -> Requests] /\ read'[r] = p
      /\ \A x \in Readers \ {r} : read'[x] = read[x] /\ read[x].at # "wire"
      /\ \A d \in Calls : cmd[d].at # "posted"
  BY <1>2, <1>4, Apart DEF ReqInv, WireInv
<1>6. \A x \in Readers : ReadMoves(x)
  BY <1>1, <1>4, <1>5 DEF ReadMoves
<1>7. WireMoves
  <2>1. \A d \in Calls : cmd'[d].at # "posted"
    BY <1>1, <1>5 DEF CallsAlone
  <2>2. \A x \in Readers : read'[x].at # "wire"
    BY <1>4, <1>5
  <2> QED
    BY <1>1, <2>1, <2>2 DEF WireMoves
<1>8. followup' \in Calls \union {NoOne}
  BY <1>1 DEF ReqInv, RequestsTyped
<1> QED
  BY <1>1, <1>5, <1>6, <1>7, <1>8, ReadsRequests

\* An answer in time is committed; it is not older than what it replaces.
LEMMA CommitRequests ==
    ASSUME CallsInv, ReqInv, NEW r \in Readers, ReadCommits(r)
    PROVE  /\ CallsAlone /\ GenerationGrows /\ ReqInv' /\ committed' >= committed
           /\ \A x \in Readers : (read[x].at = "parse" /\ read'[x].at \in {"none", "back"}
                 /\ read[x].rev \in 1 .. (committed - 1)) => status' = status
<1>1. /\ CallsAlone /\ GenerationGrows /\ revision' = revision /\ followup' = followup
      /\ wire' = wire /\ generation' = generation /\ read[r].at = "parse" /\ Back(r)
  BY DEF ReadCommits, ReadRest, calls, tables, history, CallsAlone, GenerationGrows
<1>2. /\ revision \in Nat /\ committed \in Nat
      /\ read[r] \in Requests /\ read \in [Readers -> Requests]
      /\ status \in [value : Samples \union {NoOne}, error : Errors \union {"auth"}, after : SUBSET Calls]
  BY DEF ReqInv, RequestsTyped
<1>3. PICK p \in Requests : /\ read' = [read EXCEPT ![r] = p] /\ p.rev = 0 /\ p.at \in {"none", "back"}
  BY <1>1, BackIs
<1>4. /\ read' \in [Readers -> Requests] /\ read'[r] = p
      /\ \A x \in Readers \ {r} : read'[x] = read[x]
  BY <1>2, <1>3
<1> DEFINE sample == [value |-> read[r].value, error |-> "none", after |-> read[r].after]
           failure == [status EXCEPT !.error = read[r].got]
           Commits == /\ InTime(r) /\ read[r].got = "none"
                      /\ status' = sample /\ committed' = read[r].rev
<1>5. \/ Commits
      \/ committed' = committed /\ status' = status
      \/ committed' = committed /\ status' = failure /\ InTime(r)
  BY DEF ReadCommits
<1>6. sample.after = read[r].after /\ failure.after = status.after
  BY <1>2
<1>7. /\ sample \in [value : Samples \union {NoOne}, error : Errors \union {"auth"}, after : SUBSET Calls]
      /\ failure \in [value : Samples \union {NoOne}, error : Errors \union {"auth"}, after : SUBSET Calls]
  BY <1>2 DEF Requests, Errors
<1>8. read[r].rev \in Nat /\ read[r].rev <= revision
  BY <1>2 DEF ReqInv, WireInv, Requests
<1>9. Commits => read[r].rev > 0 /\ read[r].rev >= committed
  BY <1>1, <1>2, <1>8 DEF InTime, ReqInv, WireInv
<1>10. committed' \in Nat /\ committed' <= revision /\ committed' >= committed
  BY <1>2, <1>5, <1>8, <1>9 DEF ReqInv, WireInv
<1> HIDE DEF sample, failure
<1>11. RequestsTyped'
  BY <1>1, <1>4, <1>5, <1>7, <1>10 DEF ReqInv, RequestsTyped, CallsAlone
<1>12. WireInv'
  <2>1. \A x \in Readers : ReadMoves(x) /\ (read'[x] = read[x] \/ (read'[x].rev = 0 /\ read'[x].at \in {"none", "back"}))
    BY <1>3, <1>4 DEF ReadMoves
  <2>2. /\ cmd' = cmd /\ wire' = wire /\ revision' = revision
    BY <1>1 DEF CallsAlone
  <2> QED
    BY <1>2, <1>10, <2>1, <2>2 DEF ReqInv, WireInv
<1>13. AfterInv'
  <2> SUFFICES ASSUME NEW d \in Calls, cmd[d].at \in {"answered", "observe", "readback"}, cmd[d].rev > 0
               PROVE  /\ d \in answered
                      /\ committed' > cmd[d].rev => d \in status'.after
                      /\ \A x \in Readers : read'[x].at \in {"wire", "parse"}
                            /\ read'[x].rev > cmd[d].rev => d \in read'[x].after
    BY <1>1 DEF AfterInv, CallsAlone
  <2>1. /\ d \in answered
        /\ committed > cmd[d].rev => d \in status.after
        /\ \A x \in Readers : read[x].at \in {"wire", "parse"}
              /\ read[x].rev > cmd[d].rev => d \in read[x].after
    BY DEF ReqInv, AfterInv
  <2>2. committed' > cmd[d].rev => d \in status'.after
    BY <1>1, <1>5, <1>6, <2>1
  <2>3. \A x \in Readers : (read'[x].at \in {"wire", "parse"} /\ read'[x].rev > cmd[d].rev) => d \in read'[x].after
    BY <1>3, <1>4, <2>1
  <2> QED
    BY <2>1, <2>2, <2>3
<1>14. ASSUME NEW x \in Readers, read[x].at = "parse", read'[x].at \in {"none", "back"},
              read[x].rev \in 1 .. (committed - 1)
       PROVE  status' = status
  <2>1. x = r
    BY <1>4, <1>14
  <2>2. ~InTime(r)
    BY <1>2, <1>14, <2>1 DEF InTime
  <2> QED
    BY <1>5, <2>2
<1> QED
  BY <1>1, <1>10, <1>11, <1>12, <1>13, <1>14 DEF ReqInv

\* The follow-up of a command.
LEMMA FollowRequests ==
    ASSUME CallsInv, ReqInv, NEW c \in Calls, FollowAttempt(c) \/ FollowJudge(c) \/ FollowEnds(c)
    PROVE  CallsAlone /\ GenerationGrows /\ Uncommitted /\ ReqInv'
<1>1. CallsAlone /\ GenerationGrows /\ Uncommitted /\ (followup' = followup \/ followup' = NoOne)
  BY DEF FollowAttempt, FollowJudge, FollowEnds, FollowOver, FollowRest, history, InvalidateAuth,
         CallsAlone, GenerationGrows, Uncommitted
<1>2. followup' \in Calls \union {NoOne} /\ CommandsMove
  BY <1>1, AloneKeeps DEF ReqInv, RequestsTyped
<1>3. WireMoves /\ read' \in [Readers -> Requests] /\ \A r \in Readers : ReadMoves(r)
  <2>1. CASE FollowAttempt(c)
    <3> DEFINE p == [NoRead EXCEPT !.at = "queued", !.gen = generation]
    <3>1. read' = [read EXCEPT ![Follower(c)] = p] /\ wire' = wire
      BY <2>1 DEF FollowAttempt
    <3>2. p \in Requests /\ p.rev = 0 /\ p.at = "queued"
      BY AskedIs
    <3> HIDE DEF p
    <3> QED
      BY <3>1, <3>2, Apart, OneReadMoves
  <2>2. CASE FollowJudge(c)
    <3>1. read' = Dropped({Follower(c)}) /\ wire' = FreeOf({})
      BY <2>2 DEF FollowJudge, FollowOver, FreeOf
    <3> QED
      BY <1>2, <3>1, GivenUp
  <2>3. CASE FollowEnds(c)
    <3>1. read' = Dropped({Follower(c)}) /\ wire' = FreeOf({Follower(c)})
      BY <2>3 DEF FollowEnds, FollowOver
    <3> QED
      BY <1>2, <3>1, Apart, GivenUp
  <2> QED
    BY <2>1, <2>2, <2>3
<1> QED
  BY <1>1, <1>2, <1>3, ReadsRequests

\* The rest of the account.
LEMMA AccountRequests ==
    ASSUME CallsInv, ReqInv, Reauthenticated \/ FeedbackExpires \/ ControlCloses
    PROVE  CallsAlone /\ GenerationGrows /\ Uncommitted /\ ReqInv'
<1>1. CallsAlone /\ GenerationGrows /\ Uncommitted /\ (followup' = followup \/ followup' = NoOne)
  BY DEF Reauthenticated, FeedbackExpires, ControlCloses, World, calls, reading, tables, account,
         history, CallsAlone, GenerationGrows, Uncommitted
<1>2. followup' \in Calls \union {NoOne} /\ CommandsMove /\ followup \in Calls \union {NoOne}
  BY <1>1, AloneKeeps DEF ReqInv, RequestsTyped
<1>3. WireMoves /\ read' \in [Readers -> Requests] /\ \A r \in Readers : ReadMoves(r)
  <2>1. CASE Reauthenticated \/ FeedbackExpires
    BY <2>1, ReadsStay DEF Reauthenticated, FeedbackExpires, World, reading
  <2>2. CASE ControlCloses
    <3> DEFINE lost == {Follower(c) : c \in {followup} \ {NoOne}}
    <3>1. read' = Dropped(lost) /\ wire' = FreeOf(lost)
      BY <2>2 DEF ControlCloses
    <3>2. \A d \in Calls : d \notin lost
      BY <1>2, Apart
    <3> HIDE DEF lost
    <3> QED
      BY <1>2, <3>1, <3>2, GivenUp
  <2> QED
    BY <2>1, <2>2
<1> QED
  BY <1>1, <1>2, <1>3, ReadsRequests

\* What other accounts do at the gate.
LEMMA OtherRequests ==
    ASSUME CallsInv, CallsInv', ReqInv, NEW o \in Others, OtherEnters(o) \/ OtherLeaves(o)
    PROVE  ReqInv' /\ Uncommitted /\ \A d \in Calls : ~NewlyConfirmed(d)
<1> USE TypedAfter
<1>1. /\ cmd' = cmd /\ read' = read /\ wire' = wire /\ Uncommitted /\ sent' = sent
      /\ answered' = answered /\ followup' = followup
  BY DEF OtherEnters, OtherLeaves, World, calls, reading, tables, history, Uncommitted
<1>2. CommandsMove /\ \A d \in Calls : ~NewlyConfirmed(d)
  BY <1>1, CommandsStay
<1>3. WireMoves /\ read' \in [Readers -> Requests] /\ \A r \in Readers : ReadMoves(r)
  BY <1>1, ReadsStay
<1> QED
  BY <1>1, <1>2, <1>3, RequestsKept DEF Uncommitted

-----------------------------------------------------------------------------
\* The invariant of the commands, and what none of their steps does.
ControlInv == CallsInv /\ ReqInv

Orderly ==
    /\ \A d \in Calls : NewlyConfirmed(d) => d \in status.after
    /\ committed' >= committed
    /\ \A r \in Readers : (read[r].at = "parse" /\ read'[r].at \in {"none", "back"}
          /\ read[r].rev \in 1 .. (committed - 1)) => status' = status
    /\ \A c, d \in Calls : (c \in sent' \ sent /\ cmd[d].at = "gate")
          => cmd[c].serial <= cmd[d].serial

LEMMA QuietIsOrderly ==
    ASSUME ReqInv, status' = status, committed' = committed, sent' \subseteq sent,
           \A d \in Calls : NewlyConfirmed(d) => d \in status.after
    PROVE  Orderly
BY DEF Orderly, ReqInv, RequestsTyped

LEMMA CommandStepKeeps ==
    ASSUME ControlInv, NEW c \in Calls, CommandStep(c)
    PROVE  ControlInv' /\ Orderly
<1>1. CallsInv /\ ReqInv /\ revision \in Nat /\ committed \in Nat
  BY DEF ControlInv, ReqInv, RequestsTyped
<1>2. CASE \E a \in Actions : Call(c, a) \/ Busy(c, a)
  <2>1. PICK a \in Actions : Call(c, a) \/ Busy(c, a)
    BY <1>2
  <2>2. CallsInv' /\ sent' = sent
    BY <1>1, <2>1, CallKeeps, BusyKeeps
  <2>3. ReqInv' /\ Uncommitted /\ \A d \in Calls : ~NewlyConfirmed(d)
    BY <1>1, <2>1, <2>2, EnterRequests
  <2> QED
    BY <1>1, <2>2, <2>3, QuietIsOrderly DEF ControlInv, Uncommitted
<1>3. CASE Rejected(c)
  <2>2. CallsInv' /\ sent' = sent
    BY <1>1, <1>3, RejectedKeeps
  <2>3. ReqInv' /\ Uncommitted /\ \A d \in Calls : ~NewlyConfirmed(d)
    BY <1>1, <1>3, <2>2, RejectedRequests
  <2> QED
    BY <1>1, <2>2, <2>3, QuietIsOrderly DEF ControlInv, Uncommitted
<1>4. CASE Posted(c)
  <2>2. /\ CallsInv' /\ sent' = sent \union {c}
        /\ \A d \in Calls : cmd[d].at = "gate" => cmd[c].serial <= cmd[d].serial
    BY <1>1, <1>4, PostedKeeps
  <2>3. ReqInv' /\ status' = status /\ committed' = committed /\ \A d \in Calls : ~NewlyConfirmed(d)
    BY <1>1, <1>4, <2>2, PostedRequests
  <2> QED
    BY <1>1, <2>2, <2>3 DEF ControlInv, Orderly
<1>5. CASE \E p \in {"ok", "error", "auth"} : CommandAnswered(c, p)
  <2>1. PICK p \in {"ok", "error", "auth"} : CommandAnswered(c, p)
    BY <1>5
  <2>2. CallsInv' /\ sent' = sent
    BY <1>1, <2>1, AnsweredKeeps
  <2>3. ReqInv' /\ Uncommitted /\ \A d \in Calls : ~NewlyConfirmed(d)
    BY <1>1, <2>1, <2>2, AnsweredRequests
  <2> QED
    BY <1>1, <2>2, <2>3, QuietIsOrderly DEF ControlInv, Uncommitted
<1>6. CASE Resume(c)
  <2>2. CallsInv' /\ sent' = sent
    BY <1>1, <1>6, ResumeKeeps
  <2>3. ReqInv' /\ Uncommitted /\ \A d \in Calls : ~NewlyConfirmed(d)
    BY <1>1, <1>6, <2>2, ResumeRequests
  <2> QED
    BY <1>1, <2>2, <2>3, QuietIsOrderly DEF ControlInv, Uncommitted
<1>7. CASE Readback(c) \/ ObserverEnded(c) \/ Cancelled(c)
  <2>2. CallsInv' /\ sent' = sent
    BY <1>1, <1>7, ReadbackKeeps, ObserverEndedKeeps, CancelledKeeps
  <2>3. ReqInv' /\ Uncommitted /\ \A d \in Calls : ~NewlyConfirmed(d)
    BY <1>1, <1>7, <2>2, EndRequests
  <2> QED
    BY <1>1, <2>2, <2>3, QuietIsOrderly DEF ControlInv, Uncommitted
<1>8. CASE Return(c)
  <2>2. CallsInv' /\ sent' = sent \ {c}
    BY <1>1, <1>8, ReturnKeeps
  <2>3. ReqInv' /\ Uncommitted /\ \A d \in Calls : ~NewlyConfirmed(d)
    BY <1>1, <1>8, <2>2, ReturnRequests
  <2> QED
    BY <1>1, <2>2, <2>3, QuietIsOrderly DEF ControlInv, Uncommitted
<1>9. CASE Attempt(c)
  <2>2. CallsInv' /\ sent' = sent
    BY <1>1, <1>9, AttemptKeeps
  <2>3. ReqInv' /\ Uncommitted /\ \A d \in Calls : ~NewlyConfirmed(d)
    BY <1>1, <1>9, <2>2, AttemptRequests
  <2> QED
    BY <1>1, <2>2, <2>3, QuietIsOrderly DEF ControlInv, Uncommitted
<1>10. CASE NoSlot(c) \/ Deadline(c)
  <2>2. CallsInv' /\ sent' = sent
    BY <1>1, <1>10, NoSlotKeeps, DeadlineKeeps
  <2>3. ReqInv' /\ Uncommitted /\ \A d \in Calls : ~NewlyConfirmed(d)
    BY <1>1, <1>10, <2>2, GivesUpRequests
  <2> QED
    BY <1>1, <2>2, <2>3, QuietIsOrderly DEF ControlInv, Uncommitted
<1>11. CASE Judge(c)
  <2>2. CallsInv' /\ sent' = sent
    BY <1>1, <1>11, JudgeKeeps
  <2>3. ReqInv' /\ Uncommitted /\ \A d \in Calls : NewlyConfirmed(d) => d \in status.after
    BY <1>1, <1>11, <2>2, JudgeRequests
  <2> QED
    BY <1>1, <2>2, <2>3, QuietIsOrderly DEF ControlInv, Uncommitted
<1>12. CASE FollowAttempt(c) \/ FollowJudge(c) \/ FollowEnds(c)
  <2>1. CallsAlone /\ GenerationGrows /\ Uncommitted /\ ReqInv'
    BY <1>1, <1>12, FollowRequests
  <2>2. CallsInv' /\ sent' = sent /\ \A d \in Calls : ~NewlyConfirmed(d)
    BY <1>1, <2>1, AloneKeeps
  <2> QED
    BY <1>1, <2>1, <2>2, QuietIsOrderly DEF ControlInv, Uncommitted
<1> QED
  BY <1>2, <1>3, <1>4, <1>5, <1>6, <1>7, <1>8, <1>9, <1>10, <1>11, <1>12 DEF CommandStep

LEMMA ReadStepKeeps ==
    ASSUME ControlInv, NEW r \in Readers,
           ReadStep(r) \/ (r \in Polls /\ (PollBegins(r) \/ PollAuth(r)))
    PROVE  ControlInv' /\ Orderly
<1>1. CallsInv /\ ReqInv /\ committed \in Nat
  BY DEF ControlInv, ReqInv, RequestsTyped
<1>2. CASE ReadStarts(r)
  <2>1. CallsAlone /\ GenerationGrows /\ ReqInv' /\ status' = status /\ committed' = committed
    BY <1>1, <1>2, StartedRequests
  <2>2. CallsInv' /\ sent' = sent /\ \A d \in Calls : ~NewlyConfirmed(d)
    BY <1>1, <2>1, AloneKeeps
  <2> QED
    BY <1>1, <2>1, <2>2, QuietIsOrderly DEF ControlInv
<1>3. CASE ReadCommits(r)
  <2>1. /\ CallsAlone /\ GenerationGrows /\ ReqInv' /\ committed' >= committed
        /\ \A x \in Readers : (read[x].at = "parse" /\ read'[x].at \in {"none", "back"}
              /\ read[x].rev \in 1 .. (committed - 1)) => status' = status
    BY <1>1, <1>3, CommitRequests
  <2>2. CallsInv' /\ sent' = sent /\ \A d \in Calls : ~NewlyConfirmed(d)
    BY <1>1, <2>1, AloneKeeps
  <2> QED
    BY <2>1, <2>2 DEF ControlInv, Orderly
<1>4. CASE ReadAnswered(r) \/ ReadSkipped(r) \/ ReadRefused(r)
           \/ (r \in Polls /\ (PollBegins(r) \/ PollAuth(r)))
  <2>1. CallsAlone /\ GenerationGrows /\ Uncommitted /\ ReqInv'
    BY <1>1, <1>4, QueuedRequests, BackRequests
  <2>2. CallsInv' /\ sent' = sent /\ \A d \in Calls : ~NewlyConfirmed(d)
    BY <1>1, <2>1, AloneKeeps
  <2> QED
    BY <1>1, <2>1, <2>2, QuietIsOrderly DEF ControlInv, Uncommitted
<1> QED
  BY <1>2, <1>3, <1>4 DEF ReadStep

\* Every step keeps the invariant and is orderly.
LEMMA ControlStep ==
    ASSUME ControlInv, ControlNext
    PROVE  ControlInv' /\ Orderly
<1>1. CallsInv /\ ReqInv
  BY DEF ControlInv
<1>2. CASE CancelSeatUnlockWait
  <2>2. CallsInv' /\ sent' = sent
    BY <1>1, <1>2, SeatKeeps
  <2>3. ReqInv' /\ Uncommitted /\ \A d \in Calls : ~NewlyConfirmed(d)
    BY <1>1, <1>2, <2>2, SeatRequests
  <2> QED
    BY <1>1, <2>2, <2>3, QuietIsOrderly DEF ControlInv, Uncommitted
<1>3. CASE \E o \in Others : OtherEnters(o) \/ OtherLeaves(o)
  <2>1. PICK o \in Others : OtherEnters(o) \/ OtherLeaves(o)
    BY <1>3
  <2>2. CallsInv' /\ sent' = sent
    BY <1>1, <2>1, OtherKeeps
  <2>3. ReqInv' /\ Uncommitted /\ \A d \in Calls : ~NewlyConfirmed(d)
    BY <1>1, <2>1, <2>2, OtherRequests
  <2> QED
    BY <1>1, <2>2, <2>3, QuietIsOrderly DEF ControlInv, Uncommitted
<1>4. CASE Reauthenticated \/ FeedbackExpires \/ ControlCloses
  <2>1. CallsAlone /\ GenerationGrows /\ Uncommitted /\ ReqInv'
    BY <1>1, <1>4, AccountRequests
  <2>2. CallsInv' /\ sent' = sent /\ \A d \in Calls : ~NewlyConfirmed(d)
    BY <1>1, <2>1, AloneKeeps
  <2> QED
    BY <1>1, <2>1, <2>2, QuietIsOrderly DEF ControlInv, Uncommitted
<1> QED
  BY <1>2, <1>3, <1>4, CommandStepKeeps, ReadStepKeeps, PollsAreReaders DEF ControlNext

LEMMA ControlRests ==
    ASSUME ControlInv, UNCHANGED controlVars
    PROVE  ControlInv' /\ Orderly
<1>1. CallsAlone /\ GenerationGrows /\ Uncommitted /\ read' = read /\ wire' = wire
      /\ followup' = followup
  BY DEF controlVars, calls, tables, history, account, CallsAlone, GenerationGrows, Uncommitted
<1>2. CallsInv' /\ sent' = sent /\ \A d \in Calls : ~NewlyConfirmed(d)
  BY <1>1, AloneKeeps DEF ControlInv
<1>3. ReqInv'
  BY <1>1, ReadsStay, ReadsRequests DEF ControlInv, ReqInv, RequestsTyped
<1> QED
  BY <1>1, <1>2, <1>3, QuietIsOrderly DEF ControlInv, Uncommitted

LEMMA ControlStarts ==
    ASSUME ControlInit
    PROVE  ControlInv
<1>1. NoCall \in Commands /\ NoObserver \in Observers /\ NoRead \in Requests
  BY DEF NoCall, NoObserver, NoRead, Commands, Observers, Requests, CmdStages, CmdOutcomes,
         CmdConfirmations, Errors
<1>2. /\ cmd = [c \in Calls |-> NoCall] /\ obs = [c \in Calls |-> NoObserver]
      /\ read = [r \in Readers |-> NoRead] /\ gate = <<>> /\ wire = NoOne
      /\ serial = 0 /\ versions = [k \in Keys |-> 0]
      /\ pending = [k \in Keys |-> NoOne] /\ observer = [k \in Keys |-> NoOne]
      /\ shown = NoOne /\ followup = NoOne /\ committed = 0 /\ revision = 0 /\ generation = 0
      /\ sent = {} /\ answered = {}
      /\ status = [value |-> [l \in Locks |-> "locked"], error |-> "none", after |-> {}]
  BY DEF ControlInit
<1>3. CommandsTyped
  BY <1>1, <1>2 DEF CommandsTyped
<1>4. /\ \A c \in Calls : cmd[c].at = "idle" /\ cmd[c].serial = 0 /\ cmd[c].rev = 0
                          /\ cmd[c].outcome = "pending" /\ obs[c].at = "none" /\ obs[c].found = FALSE
      /\ \A k \in Keys : versions[k] = 0 /\ pending[k] = NoOne /\ observer[k] = NoOne
      /\ \A r \in Readers : read[r].at = "none" /\ read[r].rev = 0
  BY <1>2 DEF NoCall, NoObserver, NoRead
<1>5. SerialInv
  BY <1>2, <1>4 DEF SerialInv
<1>6. TablesInv
  BY <1>2, <1>4, Apart DEF TablesInv, Live, Keys
<1>7. GateInv
  BY <1>2, <1>4 DEF GateInv, AtGate, GateStages
<1>8. \A c \in Calls : RunInv(c)
  BY <1>2, <1>4, Apart DEF RunInv, Course, SuccessOf
<1>9. RequestsTyped
  <2>1. status \in [value : Samples \union {NoOne}, error : Errors \union {"auth"}, after : SUBSET Calls]
    BY <1>2 DEF Samples, States, Errors
  <2> QED
    BY <1>1, <1>2, <2>1 DEF RequestsTyped
<1>10. WireInv /\ AfterInv
  BY <1>2, <1>4 DEF WireInv, AfterInv
<1> QED
  BY <1>3, <1>5, <1>6, <1>7, <1>8, <1>9, <1>10 DEF ControlInv, CallsInv, ReqInv

\* What the invariant says of the results.
LEMMA ControlIsTrue ==
    ASSUME ControlInv
    PROVE  ResultsAreTrue
<1>1. TablesNameNewest
  BY TablesAreNamed DEF ControlInv, CallsInv
<1>2. SuccessWasObserved
  BY DEF ControlInv, CallsInv, RunInv, SuccessOf, SuccessWasObserved
<1>3. RejectedNeverSent
  BY DEF ControlInv, CallsInv, RunInv, Course, RejectedNeverSent
<1> QED
  BY <1>1, <1>2, <1>3 DEF ResultsAreTrue

LEMMA ControlInvariant == ControlSafe => []ControlInv
<1>1. ControlInv /\ [ControlNext]_controlVars => ControlInv'
  BY ControlStep, ControlRests
<1> QED
  BY <1>1, ControlStarts, PTL DEF ControlSafe

\* The pending controls name the newest call of each lock as long as it is under way and nothing
\* else (the finally clause of async_control clears only what is its own), a call that returns
\* normally was confirmed by a status or made way for a newer one, and what is reported as rejected
\* was never sent (_dispatch_control), for any number of calls, readers and other accounts.
THEOREM ResultsHold == ControlSafe => []ResultsAreTrue
<1>1. ControlInv => ResultsAreTrue
  BY ControlIsTrue
<1> QED
  BY <1>1, ControlInvariant, PTL

\* A command is confirmed only by a status that was asked for after its answer (_confirm_lock), no
\* late status or error replaces a newer status (_group_update), and the calls of an account are
\* sent in the order in which they came (_dispatch_control).
THEOREM OrderHolds == ControlSafe => OrderIsKept
<1>1. ControlInv /\ [ControlNext]_controlVars => Orderly
  BY ControlStep, ControlRests
<1>2. Orderly => /\ [\A c \in Calls :
                        cmd'[c].conf \in {"confirmed", "observed_uncertain"} /\ cmd'[c].conf # cmd[c].conf
                          => c \in status.after]_controlVars
                 /\ [/\ committed' >= committed
                     /\ \A r \in Readers : read[r].at = "parse" /\ read'[r].at \in {"none", "back"}
                          /\ read[r].rev \in 1..(committed - 1) => status' = status]_controlVars
                 /\ [\A c, d \in Calls : c \in sent' \ sent /\ cmd[d].at = "gate"
                       => cmd[c].serial <= cmd[d].serial]_controlVars
  BY DEF Orderly, NewlyConfirmed
<1> QED
  BY <1>1, <1>2, ControlInvariant, PTL DEF ControlSafe, OrderIsKept, ConfirmedByLaterRead,
     LateResponsesLose, SentInOrder

-----------------------------------------------------------------------------
\* Completion events.

\* A cursor as RideCursor.restore accepts it.
Accepted(c) ==
    /\ c \in Cursors
    /\ c.base <= c.at /\ c.high <= c.at /\ c.floor <= c.high
    /\ \A r \in c.seen : End(r) <= c.high
    /\ Cardinality(c.seen) <= SeenLimit

Saves == [at : {"write", "read"}, by : {"task", "subscribe"}, cursor : Cursors,
          found : SUBSET Rides, received : Times \union {Never}]
Snapshots == [received : Times \union {Never}, rides : SUBSET Rides, complete : BOOLEAN,
              valid : BOOLEAN]
Saved == work.at \in {"write", "read"}

EventTypes ==
    /\ now \in Times /\ setBack \in 0..MaxSteps
    /\ cloud \subseteq Rides /\ snapshot \in Snapshots
    /\ loaded \in BOOLEAN /\ healthy \in BOOLEAN /\ closed \in BOOLEAN
    /\ callback \in BOOLEAN /\ listening \in BOOLEAN
    /\ Accepted(cursor) /\ Accepted(disk)
    /\ work \in {Idle, Scheduled} \union Saves /\ (Saved => Accepted(work.cursor))
    /\ completed \in [Rides -> Nat]

\* A ride that was announced since the clock was last set back has ended, and is known to every
\* cursor there is.
Known(r) ==
    /\ completed[r] <= 1 + setBack
    /\ completed[r] > setBack =>
          /\ End(r) <= now /\ Remembers(cursor, r) /\ Remembers(disk, r)
          /\ Saved => Remembers(work.cursor, r)

\* A ride about to be announced was not, on this clock.
Unannounced(r) ==
    /\ completed[r] <= setBack /\ (completed[r] = setBack => End(r) <= now)
    /\ r \in work.cursor.seen

EventsInv ==
    /\ EventTypes
    /\ \A r \in Rides : Known(r)
    /\ Saved => \A r \in work.found : Unannounced(r)
    /\ (listening => callback) /\ NewestIsProcessed
\* A set of natural numbers has a least element.
LEMMA LeastIs ==
    ASSUME NEW T \in SUBSET Nat, T # {}
    PROVE  \E x \in T : \A y \in T : x <= y
<1>1. PICK x \in T : \A y \in T : ~(<<y, x>> \in OpToRel(<, Nat))
  BY NatLessThanWellFounded, WFMin, Zenon
<1>2. \A y \in T : ~(y < x)
  BY <1>1 DEF OpToRel
<1> QED
  BY <1>2

\* A finite set of numbers has a greatest element.
LEMMA MaxIs ==
    ASSUME NEW S \in SUBSET Int, IsFiniteSet(S), S # {}
    PROVE  Max(S) \in S /\ \A y \in S : Max(S) >= y
<1> DEFINE Greatest(X) == \E x \in X : \A y \in X : x >= y
           Sizes == {n \in Nat : \E X \in SUBSET S : IsFiniteSet(X) /\ Cardinality(X) = n /\ X # {} /\ ~Greatest(X)}
<1>1. ASSUME Sizes # {} PROVE FALSE
  <2>1. PICK n \in Sizes : \A m \in Sizes : n <= m
    BY <1>1, LeastIs
  <2>2. PICK X \in SUBSET S : IsFiniteSet(X) /\ Cardinality(X) = n /\ X # {} /\ ~Greatest(X)
    BY <2>1
  <2>3. PICK x \in X : TRUE
    BY <2>2
  <2>4. IsFiniteSet(X \ {x}) /\ Cardinality(X \ {x}) = n - 1 /\ n - 1 \in Nat
    <3>1. n \in Nat /\ n # 0
      BY <2>1, <2>2, FS_EmptySet
    <3>2. IsFiniteSet(X \ {x}) /\ Cardinality(X \ {x}) = n - 1
      BY <2>2, <2>3, FS_RemoveElement
    <3> QED
      BY <3>1, <3>2
  <2>5. X \ {x} = {} \/ Greatest(X \ {x})
    BY <2>1, <2>4
  <2>6. CASE X \ {x} = {}
    BY <2>2, <2>3, <2>6
  <2>7. CASE Greatest(X \ {x})
    <3>1. PICK m \in X \ {x} : \A y \in X \ {x} : m >= y
      BY <2>7
    <3>2. m \in Int /\ x \in Int /\ X \in SUBSET Int
      BY <2>2, <2>3, <3>1
    <3>3. CASE m >= x
      BY <2>2, <3>1, <3>2, <3>3
    <3>4. CASE x >= m
      BY <2>2, <2>3, <3>1, <3>2, <3>4
    <3> QED
      BY <3>2, <3>3, <3>4
  <2> QED
    BY <2>5, <2>6, <2>7
<1>2. Greatest(S)
  BY <1>1, FS_CardinalityType
<1> QED
  BY <1>2 DEF Max

\* The rides' ends and what is chosen by them.
LEMMA LatestIs ==
    ASSUME NEW X \in SUBSET Rides
    PROVE  /\ Latest(X) \in Int /\ Latest(X) >= Never /\ \A r \in X : End(r) <= Latest(X)
           /\ Latest(X) = Never \/ \E r \in X : Latest(X) = End(r)
<1> DEFINE EndTimes == {End(r) : r \in X}
<1>1. IsFiniteSet(X)
  BY RideEventsAssumption, FS_Subset
<1>2. IsFiniteSet(EndTimes)
  <2> DEFINE f == [r \in X |-> End(r)]
  <2>1. f \in Surjection(X, EndTimes)
    BY DEF Surjection
  <2> QED
    BY <1>1, <2>1, FS_Surjection
<1>3. IsFiniteSet({Never} \union EndTimes) /\ {Never} \union EndTimes \in SUBSET Int
  BY <1>2, FS_AddElement, FS_Singleton, FS_Union, RideEventsAssumption DEF Never
<1>4. /\ Max({Never} \union EndTimes) \in {Never} \union EndTimes
      /\ \A y \in {Never} \union EndTimes : Max({Never} \union EndTimes) >= y
  BY <1>3, MaxIs
<1> QED
  BY <1>3, <1>4, RideEventsAssumption DEF Latest, Never

LEMMA MaxOfTwo ==
    ASSUME NEW a \in Int, NEW b \in Int
    PROVE  Max({a, b}) \in {a, b} /\ Max({a, b}) >= a /\ Max({a, b}) >= b
<1>1. IsFiniteSet({a, b})
  <2>1. {a, b} = {a} \cup {b}
    OBVIOUS
  <2>2. IsFiniteSet({a})
    BY FS_Singleton
  <2> QED
    BY <2>1, <2>2, FS_AddElement
<1> QED
  BY <1>1, MaxIs

\* There are rides with the lowest ends, however many are asked for.
LEMMA LowestExist ==
    ASSUME NEW X \in SUBSET Rides, NEW k \in 0..Cardinality(X)
    PROVE  \E s \in kSubset(k, X) : \A r \in s, q \in X \ s : End(r) <= End(q)
<1> DEFINE Low(s) == \A r \in s, q \in X \ s : End(r) <= End(q)
           Missing == {n \in 0..Cardinality(X) : ~\E s \in SUBSET X : Cardinality(s) = n /\ Low(s)}
<1>0. IsFiniteSet(X) /\ Cardinality(X) \in Nat
  BY RideEventsAssumption, FS_Subset, FS_CardinalityType
<1>1. ASSUME Missing # {} PROVE FALSE
  <2>0. Missing \in SUBSET Nat
    BY <1>0
  <2>1. PICK n \in Missing : \A m \in Missing : n <= m
    BY <1>1, <2>0, LeastIs
  <2>2. n # 0
    <3>1. {} \in SUBSET X /\ Cardinality({}) = 0 /\ Low({})
      BY FS_EmptySet
    <3> QED
      BY <2>1, <3>1
  <2>3. PICK s \in SUBSET X : Cardinality(s) = n - 1 /\ Low(s)
    BY <1>0, <2>1, <2>2
  <2>4. X \ s # {} /\ IsFiniteSet(s)
    BY <1>0, <2>0, <2>1, <2>3, FS_Subset
  <2> DEFINE EndTimes == {End(r) : r \in X \ s}
  <2>5. EndTimes \in SUBSET Nat /\ EndTimes # {}
    BY <2>4, RideEventsAssumption
  <2>6. PICK e \in EndTimes : \A y \in EndTimes : e <= y
    BY <2>5, LeastIs
  <2>7. PICK x \in X \ s : \A q \in X \ s : End(x) <= End(q)
    BY <2>6
  <2>8. s \cup {x} \in SUBSET X /\ Cardinality(s \cup {x}) = n
    <3>1. n \in Nat /\ x \notin s /\ s \cup {x} \in SUBSET X
      BY <2>0, <2>1, <2>3, <2>7
    <3>2. Cardinality(s \cup {x}) = Cardinality(s) + 1
      BY <2>4, <3>1, FS_AddElement
    <3> QED
      BY <2>3, <3>1, <3>2
  <2>9. Low(s \cup {x})
    BY <2>3, <2>7
  <2> QED
    BY <2>1, <2>8, <2>9
<1>2. k \notin Missing
  BY <1>1
<1> QED
  BY <1>2 DEF kSubset

\* Whatever is evicted from a cursor is below its new floor, and what is left has room.
LEMMA RetainDoes ==
    ASSUME NEW c \in Cursors, NEW rides \in SUBSET Rides, c.base <= c.at, c.high <= c.at, c.floor <= c.high,
           \A r \in rides : End(r) <= c.high
    PROVE  /\ Accepted(Retain(c, rides))
           /\ Retain(c, rides).base = c.base /\ Retain(c, rides).at = c.at
           /\ Retain(c, rides).floor >= c.floor
           /\ Retain(c, rides).seen = {r \in rides : End(r) > Retain(c, rides).floor}
<1> DEFINE above == {r \in rides : End(r) > c.floor}
           surplus == Max({0, Cardinality(above) - SeenLimit})
           evicted == CHOOSE s \in kSubset(surplus, above) :
                        \A r \in s, q \in above \ s : End(r) <= End(q)
           floor == Max({c.floor, Latest(evicted)})
<1>1. above \in SUBSET Rides /\ IsFiniteSet(above) /\ Cardinality(above) \in Nat
  BY RideEventsAssumption, FS_Subset, FS_CardinalityType
<1>2. c.floor \in Int /\ c.high \in Times \union {Never} /\ SeenLimit \in Nat /\ SeenLimit # 0
  BY RideEventsAssumption DEF Cursors, Times, Never
<1>3. /\ surplus \in 0..Cardinality(above) /\ surplus >= Cardinality(above) - SeenLimit
  <2>1. 0 \in Int /\ Cardinality(above) - SeenLimit \in Int
    BY <1>1, <1>2
  <2>2. surplus \in {0, Cardinality(above) - SeenLimit} /\ surplus >= 0 /\ surplus >= Cardinality(above) - SeenLimit
    BY <2>1, MaxOfTwo
  <2> HIDE DEF surplus
  <2> QED
    BY <1>1, <1>2, <2>2
<1>4. evicted \in kSubset(surplus, above)
  <2> HIDE DEF above, surplus
  <2>1. \E s \in kSubset(surplus, above) : \A r \in s, q \in above \ s : End(r) <= End(q)
    BY <1>1, <1>3, LowestExist
  <2> QED
    BY <2>1
<1>5. evicted \in SUBSET above /\ Cardinality(evicted) = surplus
  BY <1>4 DEF kSubset
<1> HIDE DEF evicted
<1>6. /\ Latest(evicted) \in Int /\ \A r \in evicted : End(r) <= Latest(evicted)
      /\ Latest(evicted) = Never \/ \E r \in evicted : Latest(evicted) = End(r)
  <2>1. evicted \in SUBSET Rides
    BY <1>5
  <2> QED
    BY <2>1, LatestIs
<1>7. floor \in {c.floor, Latest(evicted)} /\ floor >= c.floor /\ floor >= Latest(evicted)
  BY <1>2, <1>6, MaxOfTwo
<1>8. floor \in Times \union {Never} /\ floor <= c.high
  <2>1. CASE floor = c.floor
    BY <2>1 DEF Cursors
  <2>2. CASE floor = Latest(evicted) /\ floor # c.floor /\ Latest(evicted) = Never
    <3>1. c.floor \in Times \union {Never}
      BY DEF Cursors
    <3> QED
      BY <1>7, <2>2, <3>1 DEF Never, Times
  <2>3. CASE floor = Latest(evicted) /\ Latest(evicted) # Never
    <3>1. PICK r \in evicted : Latest(evicted) = End(r)
      BY <1>6, <2>3
    <3>2. r \in rides /\ End(r) <= c.high /\ End(r) \in Nat
      BY <1>5, <3>1, RideEventsAssumption
    <3> QED
      BY <1>2, <2>3, <3>1, <3>2, RideEventsAssumption DEF Times, Never
  <2> QED
    BY <1>7, <2>1, <2>2, <2>3
<1> DEFINE seen == {r \in above : End(r) > floor}
<1>9. Retain(c, rides) = [c EXCEPT !.floor = floor, !.seen = seen]
  BY DEF Retain, evicted
<1>10. Cardinality(seen) <= SeenLimit
  <2>1. seen \in SUBSET (above \ evicted)
    <3>1. \A r \in above : End(r) \in Nat
      BY <1>1, RideEventsAssumption
    <3>2. floor \in Int
      BY <1>2, <1>6, <1>7
    <3>3. floor >= Latest(evicted) /\ Latest(evicted) \in Int /\ \A r \in evicted : End(r) <= Latest(evicted)
      BY <1>6, <1>7
    <3> HIDE DEF floor, above
    <3>4. ASSUME NEW r \in above, End(r) > floor PROVE r \notin evicted
      BY <3>1, <3>2, <3>3, <3>4
    <3> QED
      BY <3>4
  <2>2. IsFiniteSet(above \ evicted) /\ IsFiniteSet(evicted)
    BY <1>1, <1>5, FS_Subset
  <2>3. Cardinality(above) = Cardinality(above \ evicted) + Cardinality(evicted)
    <3>1. (above \ evicted) \cup evicted = above /\ (above \ evicted) \cap evicted = {}
      BY <1>5
    <3>2. Cardinality((above \ evicted) \cup evicted)
            = Cardinality(above \ evicted) + Cardinality(evicted) - Cardinality((above \ evicted) \cap evicted)
      BY <2>2, FS_Union
    <3>3. Cardinality(above \ evicted) \in Nat /\ Cardinality(evicted) \in Nat /\ Cardinality({}) = 0
      BY <2>2, FS_CardinalityType, FS_EmptySet
    <3> DEFINE rest == above \ evicted
    <3>4. rest \cup evicted = above /\ rest \cap evicted = {} /\ Cardinality(rest) \in Nat
          /\ Cardinality(rest \cup evicted) = Cardinality(rest) + Cardinality(evicted) - Cardinality(rest \cap evicted)
      BY <3>1, <3>2, <3>3
    <3>5. Cardinality(above) = Cardinality(rest) + Cardinality(evicted)
      <4> HIDE DEF above, rest
      <4>1. Cardinality(above) = Cardinality(rest) + Cardinality(evicted) - 0
        BY <3>3, <3>4, Zenon
      <4> QED
        BY <3>3, <3>4, <4>1
    <3> QED
      BY <3>5
  <2>4. IsFiniteSet(seen) /\ Cardinality(seen) <= Cardinality(above \ evicted)
    BY <2>1, <2>2, FS_Subset
  <2>5. Cardinality(seen) \in Nat /\ Cardinality(above \ evicted) \in Nat
    BY <2>2, <2>4, FS_CardinalityType
  <2> HIDE DEF above, seen, surplus
  <2> QED
    BY <1>1, <1>2, <1>3, <1>5, <2>3, <2>4, <2>5
<1>11. seen = {r \in rides : End(r) > floor}
  <2>1. \A r \in rides : End(r) \in Nat
    BY RideEventsAssumption
  <2>2. floor \in Int
    BY <1>2, <1>6, <1>7
  <2> HIDE DEF floor
  <2> QED
    BY <1>2, <1>7, <2>1, <2>2
<1>12. seen \in SUBSET Rides /\ \A r \in seen : End(r) <= c.high
  OBVIOUS
<1> HIDE DEF floor, seen
<1>13. /\ Retain(c, rides).base = c.base /\ Retain(c, rides).at = c.at /\ Retain(c, rides).high = c.high
       /\ Retain(c, rides).floor = floor /\ Retain(c, rides).seen = seen /\ Retain(c, rides) \in Cursors
  BY <1>8, <1>9, <1>12 DEF Cursors
<1> QED
  BY <1>7, <1>8, <1>10, <1>11, <1>12, <1>13 DEF Accepted

\* A baseline is taken at its time, or not yet.
LEMMA BaselineDoes ==
    ASSUME NEW t \in Times, NEW valid \in SUBSET Rides, \A r \in valid : End(r) <= t, NEW empty \in BOOLEAN
    PROVE  Accepted(Baseline(valid, empty, t)) /\ Baseline(valid, empty, t).base \in {t, Never}
<1>1. Never \in Int /\ Never < 0 /\ t \in Nat /\ NoCursor \in Cursors /\ Accepted(NoCursor)
  BY FS_EmptySet, RideEventsAssumption DEF Never, Times, NoCursor, Cursors, Accepted
<1> DEFINE fresh == [NoCursor EXCEPT !.base = t, !.at = t, !.high = Latest(valid)]
<1>2. /\ Latest(valid) \in Times \union {Never} /\ Latest(valid) >= Never /\ Latest(valid) <= t
      /\ \A r \in valid : End(r) <= Latest(valid)
  <2>1. /\ Latest(valid) \in Int /\ Latest(valid) >= Never /\ \A r \in valid : End(r) <= Latest(valid)
        /\ Latest(valid) = Never \/ \E r \in valid : Latest(valid) = End(r)
    BY LatestIs
  <2>2. CASE Latest(valid) = Never
    BY <1>1, <2>1, <2>2
  <2>3. CASE \E r \in valid : Latest(valid) = End(r)
    BY <1>1, <2>1, <2>3, RideEventsAssumption DEF Times, Never
  <2> QED
    BY <2>1, <2>2, <2>3
<1>3. /\ fresh \in Cursors /\ fresh.base = t /\ fresh.at = t /\ fresh.high = Latest(valid)
      /\ fresh.floor = Never
  BY <1>1, <1>2 DEF Cursors, NoCursor
<1>4. Baseline(valid, empty, t) = IF valid # {} \/ empty THEN Retain(fresh, valid) ELSE NoCursor
  BY DEF Baseline
<1> HIDE DEF fresh
<1>5. Accepted(Retain(fresh, valid)) /\ Retain(fresh, valid).base = t
  BY <1>1, <1>2, <1>3, RetainDoes
<1> QED
  BY <1>1, <1>4, <1>5 DEF NoCursor

\* An observation forgets nothing that the cursor knew, and finds what it did not know and now does.
LEMMA DiscoverDoes ==
    ASSUME NEW c, Accepted(c), NEW t \in Times, ~NeedsBaseline(c, t),
           NEW valid \in SUBSET Rides, \A r \in valid : End(r) <= t
    PROVE  /\ Accepted(Discover(c, valid, t).cursor)
           /\ \A r \in Rides : Remembers(c, r) => Remembers(Discover(c, valid, t).cursor, r)
           /\ \A r \in Discover(c, valid, t).found :
                r \in valid /\ ~Remembers(c, r) /\ r \in Discover(c, valid, t).cursor.seen
<1> DEFINE high == Max({c.high, Latest(valid)})
           d == [c EXCEPT !.at = t, !.high = high]
           u == Retain(d, c.seen \union valid)
<1>1. /\ c \in Cursors /\ c.base \in Times \union {Never} /\ c.at \in Times \union {Never}
      /\ c.high \in Times \union {Never} /\ c.floor \in Times \union {Never} /\ c.seen \in SUBSET Rides
  BY DEF Accepted, Cursors
<1>2. /\ c.base # Never /\ c.at <= t /\ c.base <= c.at /\ c.high <= c.at /\ c.floor <= c.high
      /\ \A r \in c.seen : End(r) <= c.high
  BY <1>1, RideEventsAssumption DEF NeedsBaseline, Accepted, Times, Never
<1>3. /\ Latest(valid) \in Int /\ \A r \in valid : End(r) <= Latest(valid)
      /\ Latest(valid) = Never \/ \E r \in valid : Latest(valid) = End(r)
  BY LatestIs
<1>4. c.high \in Int /\ t \in Nat /\ Never \in Int /\ Never < 0 /\ c.floor \in Int /\ MaxTime \in Nat
      /\ c.at \in Int /\ c.base \in Int
  BY <1>1, RideEventsAssumption DEF Times, Never
<1>5. high \in {c.high, Latest(valid)} /\ high >= c.high /\ high >= Latest(valid)
  BY <1>3, <1>4, MaxOfTwo
<1>6. high \in Times \union {Never} /\ high <= t /\ high \in Int
  <2>1. CASE high = c.high
    BY <1>1, <1>2, <1>4, <2>1
  <2>2. CASE high = Latest(valid) /\ Latest(valid) = Never
    BY <1>4, <2>2
  <2>3. CASE high = Latest(valid) /\ \E r \in valid : Latest(valid) = End(r)
    <3>1. PICK r \in valid : Latest(valid) = End(r)
      BY <2>3
    <3>2. End(r) \in Nat /\ End(r) <= t
      BY <3>1, RideEventsAssumption
    <3> QED
      BY <1>4, <2>3, <3>1, <3>2 DEF Times
  <2> QED
    BY <1>3, <1>5, <2>1, <2>2, <2>3
<1>7. Discover(c, valid, t).cursor = u
  BY DEF Discover
<1>8. \A r \in Discover(c, valid, t).found :
        r \in valid \ c.seen /\ End(r) > c.base /\ End(r) > c.floor /\ r \in u.seen
  BY DEF Discover
<1> HIDE DEF high
<1>9. /\ d \in Cursors /\ d.base = c.base /\ d.at = t /\ d.high = high /\ d.floor = c.floor
  BY <1>1, <1>6 DEF Cursors
<1>10. c.seen \union valid \in SUBSET Rides /\ \A r \in c.seen \union valid : End(r) <= d.high
  <2>1. \A r \in Rides : End(r) \in Nat
    BY RideEventsAssumption
  <2> QED
    BY <1>1, <1>2, <1>3, <1>4, <1>5, <1>6, <1>9, <2>1
<1>11. d.base <= d.at /\ d.high <= d.at /\ d.floor <= d.high
  BY <1>2, <1>4, <1>5, <1>6, <1>9
<1> HIDE DEF d
<1>12. /\ Accepted(u) /\ u.base = c.base /\ u.floor >= c.floor
       /\ u.seen = {r \in c.seen \union valid : End(r) > u.floor}
  BY <1>9, <1>10, <1>11, RetainDoes
<1> HIDE DEF u
<1>13. ASSUME NEW r \in Rides, Remembers(c, r) PROVE Remembers(u, r)
  <2>1. End(r) \in Nat /\ u.floor \in Int
    BY <1>12, RideEventsAssumption DEF Accepted, Cursors, Times, Never
  <2>2. CASE r \in c.seen
    BY <1>12, <2>1, <2>2 DEF Remembers
  <2>3. CASE End(r) <= c.base \/ End(r) <= c.floor
    BY <1>4, <1>12, <2>1, <2>3 DEF Remembers
  <2> QED
    BY <1>2, <1>13, <2>2, <2>3 DEF Remembers
<1>14. ASSUME NEW r \in Discover(c, valid, t).found
       PROVE  r \in valid /\ ~Remembers(c, r) /\ r \in u.seen
  <2>1. End(r) \in Nat /\ r \in valid \ c.seen /\ End(r) > c.base /\ End(r) > c.floor /\ r \in u.seen
    BY <1>8, <1>14, RideEventsAssumption
  <2> QED
    BY <1>2, <1>4, <2>1 DEF Remembers
<1> QED
  BY <1>7, <1>12, <1>13, <1>14

\* What is to be saved for the current snapshot.
LEMMA ResultDoes ==
    ASSUME EventTypes, NEW baseline \in BOOLEAN
    PROVE  /\ Accepted(Result(baseline).cursor) /\ Result(baseline).found \subseteq Rides
           /\ \A r \in Rides : End(r) <= now /\ (baseline \/ Remembers(cursor, r))
                => Remembers(Result(baseline).cursor, r)
           /\ \A r \in Result(baseline).found :
                End(r) <= now /\ ~Remembers(cursor, r) /\ r \in Result(baseline).cursor.seen
<1> DEFINE valid == Reported(snapshot.rides, now)
           stable == {r \in valid : Stable(lifecycle[r])}
           used == IF baseline THEN valid ELSE stable
           empty == snapshot.complete /\ snapshot.rides = {}
<1>1. now \in Times /\ Accepted(cursor) /\ snapshot.rides \in SUBSET Rides /\ empty \in BOOLEAN
  BY DEF EventTypes, Snapshots
<1>2. /\ used \in SUBSET Rides /\ stable \in SUBSET Rides
      /\ (\A r \in used : End(r) <= now) /\ (\A q \in stable : End(q) <= now)
  BY <1>1 DEF Reported
<1>3. Result(baseline) = IF baseline \/ NeedsBaseline(cursor, now)
                         THEN [cursor |-> Baseline(used, empty, now), found |-> {}]
                         ELSE Discover(cursor, stable, now)
  BY DEF Result
<1> HIDE DEF used, stable, empty
<1>4. CASE baseline \/ NeedsBaseline(cursor, now)
  <2>1. \A r \in used : End(r) <= now
    BY <1>2
  <2>2. Accepted(Baseline(used, empty, now)) /\ Baseline(used, empty, now).base \in {now, Never}
    BY <1>1, <1>2, <2>1, BaselineDoes
  <2>3. \A r \in Rides : End(r) <= now => Remembers(Baseline(used, empty, now), r)
    BY <2>2 DEF Remembers
  <2>4. Result(baseline).cursor = Baseline(used, empty, now) /\ Result(baseline).found = {}
    BY <1>3, <1>4
  <2> QED
    BY <2>2, <2>3, <2>4
<1>5. CASE ~baseline /\ ~NeedsBaseline(cursor, now)
  <2>1. \A q \in stable : End(q) <= now
    BY <1>1 DEF stable, Reported
  <2>2. /\ Accepted(Discover(cursor, stable, now).cursor)
        /\ \A r \in Rides : Remembers(cursor, r) => Remembers(Discover(cursor, stable, now).cursor, r)
        /\ \A r \in Discover(cursor, stable, now).found :
             r \in stable /\ ~Remembers(cursor, r) /\ r \in Discover(cursor, stable, now).cursor.seen
    BY <1>1, <1>2, <1>5, <2>1, DiscoverDoes
  <2>3. Result(baseline) = Discover(cursor, stable, now)
    BY <1>3, <1>5
  <2> QED
    BY <1>2, <1>5, <2>1, <2>2, <2>3
<1> QED
  BY <1>4, <1>5

-----------------------------------------------------------------------------
LEMMA WorkForms ==
    /\ Idle.at = "idle" /\ Scheduled.at = "scheduled" /\ Idle # Scheduled
    /\ \A w \in Saves : w.at \in {"write", "read"} /\ w # Idle /\ w # Scheduled
BY DEF Idle, Scheduled, Saves

\* Nobody's knowledge changes, and no work with a cursor begins or ends.
LEMMA KnowledgeStays ==
    ASSUME EventsInv, UNCHANGED <<cursor, disk, completed, setBack>>, now' >= now, now' \in Times,
           UNCHANGED work \/ work' \in {Idle, Scheduled}
    PROVE  /\ (\A r \in Rides : Known(r)') /\ (Saved' => \A r \in work'.found : Unannounced(r)')
           /\ (Saved' => Accepted(work.cursor)')
<1>1. /\ EventTypes /\ (\A r \in Rides : Known(r)) /\ (Saved => \A r \in work.found : Unannounced(r))
      /\ now \in Int /\ now' \in Int /\ \A r \in Rides : End(r) \in Int
  BY RideEventsAssumption DEF EventsInv, EventTypes, Times
<1>2. CASE UNCHANGED work
  <2>1. ASSUME NEW r \in Rides PROVE Known(r)'
    BY <1>1, <1>2 DEF Known, Remembers, Saved
  <2>2. ASSUME Saved', NEW r \in work'.found PROVE Unannounced(r)'
    <3>1. Saved /\ r \in work.found /\ work.found \subseteq Rides
      BY <1>1, <1>2, <2>2, WorkForms DEF Saved, EventTypes, Saves
    <3> QED
      BY <1>1, <1>2, <3>1 DEF Unannounced
  <2>3. Saved' => Accepted(work.cursor)'
    BY <1>1, <1>2 DEF EventTypes, Accepted, Saved
  <2> QED
    BY <2>1, <2>2, <2>3
<1>3. CASE work' \in {Idle, Scheduled}
  <2>1. ~Saved'
    BY <1>3, WorkForms DEF Saved
  <2>2. ASSUME NEW r \in Rides PROVE Known(r)'
    BY <1>1, <2>1 DEF Known, Remembers
  <2> QED
    BY <2>1, <2>2
<1> QED
  BY <1>2, <1>3

\* The clock, the cloud and the polls.
LEMMA TickKeeps == ASSUME EventsInv, Tick PROVE EventsInv'
<1>1. /\ UNCHANGED <<cursor, disk, completed, setBack, work>> /\ now' \in Times /\ now' >= now
      /\ UNCHANGED <<cloud, snapshot, lifecycle, loaded, healthy, closed, callback, listening, processed>>
  BY RideEventsAssumption DEF EventsInv, EventTypes, Tick, Times, pipeline
<1>2. EventTypes'
  BY <1>1, KnowledgeStays DEF EventsInv, EventTypes, Accepted, Saved
<1> QED
  BY <1>1, <1>2, KnowledgeStays DEF EventsInv, NewestIsProcessed, Available

LEMMA SetBackKeeps == ASSUME EventsInv, SetBack PROVE EventsInv'
<1>1. /\ UNCHANGED <<cursor, disk, completed, work, cloud, snapshot, loaded, healthy, closed, callback,
                     listening, processed>>
      /\ now' \in Times /\ setBack' = setBack + 1 /\ setBack' \in 0..MaxSteps
      /\ setBack \in Nat /\ \A r \in Rides : completed[r] \in Nat
  BY RideEventsAssumption DEF EventsInv, EventTypes, SetBack, Times, pipeline
<1>2. EventTypes'
  BY <1>1 DEF EventsInv, EventTypes, Accepted, Saved
<1>3. ASSUME NEW r \in Rides PROVE Known(r)'
  <2>1. completed[r] <= 1 + setBack
    BY DEF EventsInv, Known
  <2>2. completed'[r] <= setBack'
    BY <1>1, <2>1
  <2> QED
    BY <1>1, <2>2 DEF Known
<1>4. ASSUME Saved', NEW r \in work'.found PROVE Unannounced(r)'
  <2>1. Saved /\ r \in work.found /\ work.found \subseteq Rides
    BY <1>1, <1>4, WorkForms DEF Saved, EventsInv, EventTypes, Saves
  <2>2. Unannounced(r)
    BY <2>1 DEF EventsInv
  <2>3. completed'[r] < setBack' /\ r \in work'.cursor.seen /\ completed'[r] \in Nat /\ setBack' \in Nat
    BY <1>1, <2>1, <2>2 DEF Unannounced
  <2> QED
    BY <2>3 DEF Unannounced
<1> QED
  BY <1>1, <1>2, <1>3, <1>4 DEF EventsInv, NewestIsProcessed, Available

LEMMA PollKeeps ==
    ASSUME EventsInv, NEW r, NEW b \in BOOLEAN, NEW rs \in SUBSET Rides,
           (r \in Rides /\ Upload(r)) \/ Poll(b, rs) \/ Lapse
    PROVE  EventsInv'
<1>1. /\ UNCHANGED <<cursor, disk, completed, setBack, now, loaded, healthy, closed, callback, listening, processed>>
      /\ now \in Int /\ now \in Times
      /\ work' = work \/ work' = Scheduled
      /\ snapshot' = snapshot \/ ~(listening /\ Available /\ callback /\ work = Idle) \/ work' = Scheduled
  BY DEF EventsInv, EventTypes, Upload, Poll, Lapse, Notify, pipeline, environment, Times
<1>2. cloud' \subseteq Rides /\ snapshot' \in Snapshots
  <2>1. cloud \subseteq Rides /\ snapshot \in Snapshots
    BY DEF EventsInv, EventTypes
  <2>2. CASE r \in Rides /\ Upload(r)
    BY <2>1, <2>2 DEF Upload
  <2>3. CASE Poll(b, rs)
    BY <1>1, <2>1, <2>3 DEF Poll, Snapshots
  <2>4. CASE Lapse
    BY <2>1, <2>4 DEF Lapse, environment, Snapshots, NoSnapshot
  <2> QED
    BY <2>2, <2>3, <2>4
<1>3. /\ (\A q \in Rides : Known(q)') /\ (Saved' => \A q \in work'.found : Unannounced(q)')
      /\ (Saved' => Accepted(work.cursor)')
  BY <1>1, KnowledgeStays
<1>4. EventTypes'
  BY <1>1, <1>2, <1>3 DEF EventsInv, EventTypes, Accepted
<1>5. NewestIsProcessed'
  BY <1>1, WorkForms DEF EventsInv, NewestIsProcessed, Available
<1> QED
  BY <1>1, <1>3, <1>4, <1>5 DEF EventsInv

-----------------------------------------------------------------------------
\* The pipeline.
LEMMA SubscribeKeeps == ASSUME EventsInv, NEW b \in BOOLEAN, Subscribe(b) PROVE EventsInv'
<1>0. EventTypes /\ (\A r \in Rides : Known(r)) /\ (listening => callback)
  BY DEF EventsInv
<1>1. /\ work = Idle /\ ~callback /\ callback' = TRUE /\ loaded' = TRUE /\ cursor' \in {cursor, disk, NoCursor}
      /\ healthy' \in BOOLEAN
      /\ UNCHANGED <<now, setBack, cloud, snapshot, disk, closed, processed, completed>>
  BY <1>0 DEF Subscribe, environment, EventTypes
<1>2. /\ listening' \in BOOLEAN
      /\ \/ /\ work' = Saving("write", "subscribe", Result(TRUE).cursor, Result(TRUE).found, snapshot.received)
            /\ listening' = listening
         \/ listening' = TRUE /\ (IF healthy' THEN work' = Scheduled ELSE work' = Idle)
  BY <1>0 DEF Subscribe, EventTypes
<1>3. Accepted(NoCursor) /\ \A r \in Rides : Remembers(NoCursor, r)
  BY FS_EmptySet, RideEventsAssumption DEF Accepted, NoCursor, Cursors, Remembers, Never
<1>4. Accepted(cursor') /\ \A r \in Rides : completed[r] > setBack => End(r) <= now /\ Remembers(cursor', r)
  BY <1>0, <1>1, <1>3 DEF EventTypes, Known
<1>5. CASE work' = Saving("write", "subscribe", Result(TRUE).cursor, Result(TRUE).found, snapshot.received)
           /\ listening' = listening
  <2>1. /\ Accepted(Result(TRUE).cursor) /\ Result(TRUE).found \subseteq Rides
        /\ (\A r \in Rides : End(r) <= now => Remembers(Result(TRUE).cursor, r))
        /\ \A r \in Result(TRUE).found :
             End(r) <= now /\ ~Remembers(cursor, r) /\ r \in Result(TRUE).cursor.seen
    BY <1>0, ResultDoes
  <2>2. /\ work'.at = "write" /\ work'.cursor = Result(TRUE).cursor /\ work'.found = Result(TRUE).found
        /\ work' \in Saves
    BY <1>0, <1>5, <2>1 DEF Saving, Saves, Accepted, EventTypes, Snapshots
  <2>3. EventTypes'
    BY <1>0, <1>1, <1>2, <1>4, <2>1, <2>2 DEF EventTypes, Accepted
  <2>4. ASSUME NEW r \in Rides PROVE Known(r)'
    BY <1>0, <1>1, <1>4, <2>1, <2>2 DEF Known, Remembers
  <2>5. ASSUME NEW r \in work'.found PROVE Unannounced(r)'
    <3>1. r \in Rides /\ ~Remembers(cursor, r) /\ End(r) <= now /\ r \in work'.cursor.seen
      BY <2>1, <2>2, <2>5
    <3>2. completed[r] <= setBack
      BY <1>0, <3>1 DEF Known, EventTypes
    <3> QED
      BY <1>1, <3>1, <3>2 DEF Unannounced
  <2>6. NewestIsProcessed'
    BY <1>0, <1>1, <1>5, <2>2, WorkForms DEF NewestIsProcessed
  <2> QED
    BY <1>0, <1>1, <1>5, <2>3, <2>4, <2>5, <2>6 DEF EventsInv
<1>6. CASE listening' = TRUE /\ (IF healthy' THEN work' = Scheduled ELSE work' = Idle)
  <2>1. work' \in {Idle, Scheduled} /\ ~Saved'
    BY <1>6, WorkForms DEF Saved
  <2>2. EventTypes'
    BY <1>0, <1>1, <1>4, <1>6, <2>1 DEF EventTypes, Accepted
  <2>3. ASSUME NEW r \in Rides PROVE Known(r)'
    BY <1>0, <1>1, <1>4, <2>1 DEF Known, Remembers
  <2>4. NewestIsProcessed'
    BY <1>6, WorkForms DEF NewestIsProcessed, Available
  <2> QED
    BY <1>1, <2>1, <2>2, <2>3, <2>4 DEF EventsInv
<1> QED
  BY <1>2, <1>5, <1>6

LEMMA BeginKeeps == ASSUME EventsInv, Begin PROVE EventsInv'
<1>0. EventTypes /\ (\A r \in Rides : Known(r)) /\ (listening => callback)
  BY DEF EventsInv
<1>1. /\ work = Scheduled
      /\ UNCHANGED <<now, setBack, cloud, snapshot, cursor, disk, loaded, healthy, closed, callback,
                     listening, processed, completed>>
      /\ \/ work' = Saving("write", "task", Result(FALSE).cursor, Result(FALSE).found, snapshot.received)
         \/ work' = Idle /\ ~Readable(FALSE)
  BY DEF Begin, environment
<1>2. CASE work' = Saving("write", "task", Result(FALSE).cursor, Result(FALSE).found, snapshot.received)
  <2>1. /\ Accepted(Result(FALSE).cursor) /\ Result(FALSE).found \subseteq Rides
        /\ (\A r \in Rides : End(r) <= now /\ Remembers(cursor, r) => Remembers(Result(FALSE).cursor, r))
        /\ \A r \in Result(FALSE).found :
             End(r) <= now /\ ~Remembers(cursor, r) /\ r \in Result(FALSE).cursor.seen
    BY <1>0, ResultDoes
  <2>2. /\ work'.at = "write" /\ work'.cursor = Result(FALSE).cursor /\ work'.found = Result(FALSE).found
        /\ work' \in Saves
    BY <1>0, <1>2, <2>1 DEF Saving, Saves, Accepted, EventTypes, Snapshots
  <2>3. EventTypes'
    BY <1>0, <1>1, <2>1, <2>2 DEF EventTypes, Accepted
  <2>4. ASSUME NEW r \in Rides PROVE Known(r)'
    BY <1>0, <1>1, <2>1, <2>2 DEF Known, Remembers
  <2>5. ASSUME NEW r \in work'.found PROVE Unannounced(r)'
    <3>1. r \in Rides /\ ~Remembers(cursor, r) /\ End(r) <= now /\ r \in work'.cursor.seen
      BY <2>1, <2>2, <2>5
    <3>2. completed[r] <= setBack
      <4>1. completed[r] \in Int /\ setBack \in Int /\ Known(r)
        BY <1>0, <3>1 DEF EventTypes
      <4> QED
        BY <3>1, <4>1 DEF Known
    <3> QED
      BY <1>1, <3>1, <3>2 DEF Unannounced
  <2>6. NewestIsProcessed'
    BY <2>2, WorkForms DEF NewestIsProcessed
  <2> QED
    BY <1>0, <1>1, <2>3, <2>4, <2>5, <2>6 DEF EventsInv
<1>3. CASE work' = Idle /\ ~Readable(FALSE)
  <2>1. /\ now \in Int /\ now \in Times /\ ~Saved'
    BY <1>0, <1>3, WorkForms DEF EventTypes, Times, Saved
  <2>2. EventTypes'
    BY <1>0, <1>1, <1>3, <2>1 DEF EventTypes, Accepted
  <2>3. ASSUME NEW r \in Rides PROVE Known(r)'
    BY <1>0, <1>1, <2>1 DEF Known, Remembers
  <2>4. NewestIsProcessed'
    BY <1>0, <1>1, <1>3 DEF NewestIsProcessed, Readable, Available
  <2> QED
    BY <1>0, <1>1, <2>1, <2>2, <2>3, <2>4 DEF EventsInv
<1> QED
  BY <1>1, <1>2, <1>3

LEMMA WriteKeeps == ASSUME EventsInv, NEW b \in BOOLEAN, Write(b) PROVE EventsInv'
<1>0. EventTypes /\ (\A r \in Rides : Known(r)) /\ (Saved => \A r \in work.found : Unannounced(r))
      /\ (listening => callback)
  BY DEF EventsInv
<1>1. /\ work.at = "write" /\ work' = [work EXCEPT !.at = "read"] /\ disk' \in {disk, work.cursor}
      /\ UNCHANGED <<now, setBack, cloud, snapshot, cursor, loaded, healthy, closed, callback,
                     listening, processed, completed>>
  BY DEF Write, environment
<1>2. work \in Saves /\ Saved /\ Accepted(work.cursor)
  BY <1>0, <1>1, WorkForms DEF EventTypes, Saved
<1>3. work' \in Saves /\ work'.at = "read" /\ work'.cursor = work.cursor /\ work'.found = work.found
  BY <1>1, <1>2 DEF Saves
<1>4. EventTypes'
  BY <1>0, <1>1, <1>2, <1>3 DEF EventTypes, Accepted
<1>5. ASSUME NEW r \in Rides PROVE Known(r)'
  <2>1. CASE disk' = disk
    BY <1>0, <1>1, <1>2, <1>3, <2>1 DEF Known, Remembers
  <2>2. CASE disk' = work.cursor
    BY <1>0, <1>1, <1>2, <1>3, <2>2 DEF Known, Remembers
  <2> QED
    BY <1>1, <2>1, <2>2
<1>6. \A r \in work'.found : Unannounced(r)'
  BY <1>0, <1>1, <1>2, <1>3 DEF Unannounced
<1>7. NewestIsProcessed'
  BY <1>3, WorkForms DEF NewestIsProcessed
<1> QED
  BY <1>0, <1>1, <1>4, <1>5, <1>6, <1>7 DEF EventsInv

LEMMA AcknowledgeKeeps == ASSUME EventsInv, NEW b \in BOOLEAN, Acknowledge(b) PROVE EventsInv'
<1>0. EventTypes /\ (\A r \in Rides : Known(r)) /\ (Saved => \A r \in work.found : Unannounced(r))
      /\ (listening => callback)
  BY DEF EventsInv
<1>1. /\ work.at = "read" /\ disk = work.cursor /\ cursor' = work.cursor /\ processed' = work.received
      /\ completed' = [r \in Rides |-> IF MayEmit(b) /\ r \in work.found
                                       THEN completed[r] + 1 ELSE completed[r]]
      /\ UNCHANGED <<now, setBack, cloud, snapshot, disk, loaded, healthy, closed, callback>>
  BY DEF Acknowledge, environment
<1>2. work \in Saves /\ Saved /\ Accepted(work.cursor)
  BY <1>0, <1>1, WorkForms DEF EventTypes, Saved
<1>3. \/ work' = Scheduled /\ listening' = listening
      \/ (work.by = "task" => ~Again(work.received)) /\ Ended(work.by, healthy)
  BY DEF Acknowledge
<1>4. /\ work' \in {Idle, Scheduled} /\ ~Saved' /\ listening' \in BOOLEAN /\ (listening' => callback)
  BY <1>0, <1>3, WorkForms DEF Ended, Saved, EventTypes
<1>5. completed' \in [Rides -> Nat] /\ \A r \in Rides : completed[r] \in Nat /\ setBack \in Nat
  BY <1>0, <1>1 DEF EventTypes
<1>6. EventTypes'
  BY <1>0, <1>1, <1>2, <1>4, <1>5 DEF EventTypes, Accepted
<1>7. ASSUME NEW r \in Rides PROVE Known(r)'
  <2>1. CASE completed'[r] = completed[r]
    BY <1>0, <1>1, <1>2, <1>4, <2>1 DEF Known, Remembers
  <2>2. CASE r \in work.found /\ completed'[r] = completed[r] + 1
    <3>1. completed[r] <= setBack /\ (completed[r] = setBack => End(r) <= now) /\ r \in work.cursor.seen
      BY <1>0, <1>2, <2>2 DEF Unannounced
    <3>2. Remembers(work.cursor, r)
      BY <3>1 DEF Remembers
    <3>3. Remembers(cursor, r)' /\ Remembers(disk, r)'
      BY <1>1, <3>2 DEF Remembers
    <3> QED
      BY <1>1, <1>4, <1>5, <2>2, <3>1, <3>3 DEF Known
  <2> QED
    BY <1>1, <2>1, <2>2
<1>8. NewestIsProcessed'
  <2>1. CASE work' = Scheduled
    BY <2>1, WorkForms DEF NewestIsProcessed
  <2>2. CASE work.by = "task" /\ ~Again(work.received) /\ Ended(work.by, healthy)
    BY <1>0, <1>1, <1>4, <2>2 DEF NewestIsProcessed, Again, Available
  <2>3. CASE work.by # "task" /\ Ended(work.by, healthy)
    <3>1. work.by = "subscribe"
      BY <1>2, <2>3 DEF Saves
    <3> QED
      BY <1>0, <1>1, <1>4, <2>3, <3>1, WorkForms DEF NewestIsProcessed, Available, Ended
  <2> QED
    BY <1>3, <2>1, <2>2, <2>3
<1> QED
  BY <1>1, <1>4, <1>6, <1>7, <1>8 DEF EventsInv

LEMMA StopKeeps == ASSUME EventsInv, Distrust \/ Unsubscribe \/ Close PROVE EventsInv'
<1>0. EventTypes /\ (\A r \in Rides : Known(r)) /\ (Saved => \A r \in work.found : Unannounced(r))
      /\ (listening => callback)
  BY DEF EventsInv
<1>1. UNCHANGED <<now, setBack, cloud, snapshot, cursor, loaded, completed>>
  BY DEF Distrust, Unsubscribe, Close, environment
<1>2. /\ healthy' \in BOOLEAN /\ closed' \in BOOLEAN /\ callback' \in BOOLEAN /\ listening' \in BOOLEAN
      /\ (listening' => callback' /\ ~healthy')
      /\ \/ work' = Idle /\ disk' \in {disk} \union (IF work.at = "write" THEN {work.cursor} ELSE {})
         \/ UNCHANGED <<work, disk>>
  <2>1. CASE Distrust
    BY <1>0, <2>1 DEF Distrust, Ended, EventTypes
  <2>2. CASE Unsubscribe
    BY <1>0, <2>2 DEF Unsubscribe, EventTypes
  <2>3. CASE Close
    BY <1>0, <2>3 DEF Close, EventTypes
  <2> QED
    BY <2>1, <2>2, <2>3
<1>3. NewestIsProcessed'
  BY <1>2 DEF NewestIsProcessed, Available
<1>4. CASE work' = Idle /\ disk' \in {disk} \union (IF work.at = "write" THEN {work.cursor} ELSE {})
  <2>1. disk' = disk \/ (disk' = work.cursor /\ Saved)
    <3>1. CASE work.at = "write"
      BY <1>4, <3>1 DEF Saved
    <3>2. CASE work.at # "write"
      BY <1>4, <3>2
    <3> QED
      BY <3>1, <3>2
  <2>2. ~Saved' /\ Accepted(disk')
    BY <1>0, <1>4, <2>1, WorkForms DEF Saved, EventTypes
  <2>3. EventTypes'
    BY <1>0, <1>1, <1>2, <1>4, <2>2 DEF EventTypes, Accepted
  <2>4. ASSUME NEW r \in Rides PROVE Known(r)'
    BY <1>0, <1>1, <2>1, <2>2 DEF Known, Remembers
  <2> QED
    BY <1>2, <1>3, <2>2, <2>3, <2>4 DEF EventsInv
<1>5. CASE UNCHANGED <<work, disk>>
  <2>1. now \in Int /\ now \in Times /\ now' >= now
    BY <1>0, <1>1 DEF EventTypes, Times
  <2>2. /\ (\A r \in Rides : Known(r)') /\ (Saved' => \A r \in work'.found : Unannounced(r)')
        /\ (Saved' => Accepted(work.cursor)')
    BY <1>1, <1>5, <2>1, KnowledgeStays
  <2>3. EventTypes'
    BY <1>0, <1>1, <1>2, <1>5, <2>2 DEF EventTypes, Accepted
  <2> QED
    BY <1>2, <1>3, <2>2, <2>3 DEF EventsInv
<1> QED
  BY <1>2, <1>4, <1>5

\* Only the file stays; an empty cursor takes a baseline before it reports anything.
LEMMA RestartKeeps == ASSUME EventsInv, Restart PROVE EventsInv'
<1>0. EventTypes /\ \A r \in Rides : Known(r)
  BY DEF EventsInv
<1>1. /\ UNCHANGED <<now, setBack, cloud, disk, completed>> /\ snapshot' = NoSnapshot /\ cursor' = NoCursor
      /\ loaded' = FALSE /\ healthy' = TRUE /\ closed' = FALSE /\ callback' = FALSE /\ listening' = FALSE
      /\ work' = Idle
  BY DEF Restart, environment
<1>2. Accepted(NoCursor) /\ NoSnapshot \in Snapshots /\ ~Saved' /\ \A r \in Rides : Remembers(NoCursor, r)
  BY <1>1, FS_EmptySet, RideEventsAssumption, WorkForms
     DEF Accepted, NoCursor, Cursors, Never, Times, NoSnapshot, Snapshots, Saved, Remembers
<1>3. EventTypes'
  BY <1>0, <1>1, <1>2 DEF EventTypes, Accepted
<1>4. ASSUME NEW r \in Rides PROVE Known(r)'
  BY <1>0, <1>1, <1>2 DEF Known, Remembers
<1> QED
  BY <1>1, <1>2, <1>3, <1>4 DEF EventsInv, NewestIsProcessed

LEMMA EventsInvariant == Spec => []EventsInv
<1>1. Init => EventsInv
  <2> SUFFICES ASSUME Init PROVE EventsInv
    OBVIOUS
  <2>1. Accepted(NoCursor) /\ NoSnapshot \in Snapshots /\ ~Saved
    BY FS_EmptySet, RideEventsAssumption, WorkForms
       DEF Accepted, NoCursor, Cursors, Never, Times, NoSnapshot, Snapshots, Saved, Init
  <2>2. 0 \in Times /\ 0 \in 0..MaxSteps
    BY RideEventsAssumption DEF Times
  <2>3. EventTypes
    BY <2>1, <2>2 DEF Init, EventTypes
  <2>4. \A r \in Rides : Known(r)
    BY DEF Init, Known
  <2> QED
    BY <2>1, <2>3, <2>4 DEF Init, EventsInv, NewestIsProcessed
<1>2. EventsInv /\ [Next]_vars => EventsInv'
  <2>1. ASSUME EventsInv, Next PROVE EventsInv'
    <3>1. CASE \E r \in Rides : Upload(r)
      BY <2>1, <3>1, PollKeeps
    <3>2. CASE \E b \in BOOLEAN, rs \in SUBSET Rides : Poll(b, rs)
      BY <2>1, <3>2, PollKeeps, Zenon
    <3>3. CASE Lapse
      BY <2>1, <3>3, PollKeeps
    <3> QED
      BY <2>1, <3>1, <3>2, <3>3, TickKeeps, SetBackKeeps, SubscribeKeeps, WriteKeeps, AcknowledgeKeeps,
         BeginKeeps, StopKeeps, RestartKeeps DEF Next
  <2>2. ASSUME EventsInv, UNCHANGED vars PROVE EventsInv'
    <3>1. now \in Int /\ now \in Times /\ now' >= now
      BY <2>2 DEF EventsInv, EventTypes, Times, vars
    <3>2. /\ (\A r \in Rides : Known(r)') /\ (Saved' => \A r \in work'.found : Unannounced(r)')
          /\ (Saved' => Accepted(work.cursor)')
      BY <2>2, <3>1, KnowledgeStays DEF vars
    <3>3. EventTypes'
      BY <2>2, <3>2 DEF EventsInv, EventTypes, Accepted, vars
    <3> QED
      BY <2>2, <3>2, <3>3 DEF EventsInv, NewestIsProcessed, Available, vars
  <2> QED
    BY <2>1, <2>2
<1> QED
  BY <1>1, <1>2, PTL DEF Spec

\* Whatever crashes, failed saves, evictions and new subscriptions happen, a ride completes at most
\* once, and once more only for each time the clock was set back; what was announced is known to
\* the file and to the cursor (discover_rides, _retain, _process_locked), for any rides, windows
\* and size of the ledger.
THEOREM EventsGoOutOnce == Spec => []EventsAreOnce
<1>1. EventsInv => EventsAreOnce
  <2> SUFFICES ASSUME EventsInv PROVE EventsAreOnce
    OBVIOUS
  <2>1. (\A r \in Rides : Known(r)) /\ completed \in [Rides -> Nat]
    BY DEF EventsInv, EventTypes
  <2> QED
    BY <2>1 DEF EventsAreOnce, CompletedOncePerClock, AnnouncedIsOnFile, Known
<1> QED
  BY <1>1, EventsInvariant, PTL

\* No snapshot is overlooked, however polls, saves and subscriptions interleave: when no task runs,
\* the pipeline has processed the one that is there (_schedule, _process_locked).
THEOREM SnapshotsAreProcessed == Spec => []NewestIsProcessed
BY EventsInvariant, PTL DEF EventsInv

\* Every cursor the pipeline keeps or saves is one that RideCursor.restore accepts: no later than its
\* observation, its floor no higher than its high-water mark, and with no more entries than
\* SEEN_LIMIT, whatever _retain evicts.
THEOREM CursorsRestore == Spec => []TypeOK
<1>1. EventsInv => TypeOK
  <2> SUFFICES ASSUME EventsInv PROVE TypeOK
    OBVIOUS
  <2>1. EventTypes
    BY DEF EventsInv
  <2>2. work.at \in {"idle", "scheduled", "write", "read"}
    BY <2>1, WorkForms DEF EventTypes
  <2> QED
    BY <2>1, <2>2 DEF EventTypes, TypeOK, Accepted
<1> QED
  BY <1>1, EventsInvariant, PTL
=============================================================================
