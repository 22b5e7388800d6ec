------------------------- MODULE ControlPlaneProofs -------------------------
(***************************************************************************)
(* Proofs about the management API, for every number of requests, devices  *)
(* and codes, every lifetime, window and limit.                            *)
(***************************************************************************)
EXTENDS ControlPlane, FiniteSetTheorems, SequenceTheorems, TLAPS

-----------------------------------------------------------------------------
(* The inductive invariant *)

\* Which requests a handler's stage may belong to.
Staged ==
    \A q \in Requests :
        /\ req[q].pc \in {"rotate"} => req[q].op = "session"
        /\ req[q].pc = "exchange" => req[q].op = "exchange"
        /\ req[q].pc = "auth" => req[q].op # "exchange"
        /\ req[q].pc \in {"rate", "select", "insert"} => req[q].op # "session"
        /\ req[q].pc = "act" => req[q].op \in Commands
        /\ req[q].pc # "unsent" /\ req[q].op # "exchange" => req[q].device \in Devices
        /\ req[q].op = "reserve_report" => req[q].target <= MaxClock

\* A session does not outlive a record that is made now, and the code it came from
\* cannot be used again.
SessionsFromCodes ==
    \A d \in Devices :
        /\ device[d].until <= clock + SessionTTL
        /\ device[d].code # None => code[device[d].code].status \in {"consumed", "gone"}

\* A session that no request will be authenticated with any more.
Dead(d) ==
    \/ device[d].status \in {"revoked", "gone"}
    \/ device[d].status = "live" /\ device[d].until <= clock

\* A stale request meets a dead session, or a CSRF token newer than its own.
StaleCaught ==
    \A q \in Requests : req[q].stale =>
        /\ req[q].op \in Commands /\ req[q].pc # "unsent" /\ req[q].pc # "act"
        /\ q \notin applied
        /\ req[q].pc = "auth" =>
              /\ device[req[q].device].status # "absent"
              /\ Dead(req[q].device) \/ req[q].csrf < device[req[q].device].csrf
        /\ req[q].pc \in {"rate", "select", "insert"} => req[q].csrf # req[q].seen

\* The record of a command lives as long as its session.
Recorded(q) ==
    \/ device[req[q].device].status = "gone"
    \/ \E r \in records : SameKey(r, q) /\ device[req[q].device].until <= r.until

AppliedRecorded ==
    \A q \in applied : req[q].pc = "done" /\ req[q].device \in Devices /\ Recorded(q)

\* A rate-limit transaction goes by a time that is past, by Delay at most.
Timely == \A q \in Requests : req[q].pc \in InLimit => req[q].now <= clock /\ clock <= req[q].now + Delay

\* The requests of a scope that have passed the rate limit.
Passers(s) == {q \in Requests : passed[q] # Never /\ ScopeOf(q) = s}
Since(s, t) == {q \in Passers(s) : passed[q] >= t}
Between(s, t) == {q \in Passers(s) : passed[q] >= t /\ passed[q] + Delay < t + Window}

PassedOnce ==
    \A q \in Requests :
        /\ req[q].pc \in {"unsent", "auth", "rate", "select", "insert"} => passed[q] = Never
        /\ passed[q] # Never => passed[q] <= clock

\* The last window of a scope is over: its first request passed long ago, so the
\* recent ones do not fill the limit.
WindowClosed(s) ==
    \A t \in Nat : t + Window > clock + Delay => Cardinality(Since(s, t)) < Limit

\* The row was made at time c, with the time its transaction had read.  It counts
\* those that are not old, one of which passed then; the old ones had passed by
\* then, and the recent among them do not fill the limit.
OpenedAt(s, c, old) ==
    /\ c <= clock /\ c <= rate[s].start + Delay
    /\ \A q \in old : passed[q] <= c
    /\ Cardinality(Passers(s) \ old) <= rate[s].count
    /\ \A t \in Nat : t > c => Cardinality(Since(s, t) \ old) < rate[s].count
    /\ \A t \in Nat : t + Window > c + Delay => Cardinality(Since(s, t) \cap old) < Limit

WindowOpen(s) == \E c \in Nat, old \in SUBSET Passers(s) : OpenedAt(s, c, old)

\* WindowBounded in these terms.
Bounded == \A s \in Scopes, t \in 0 .. MaxClock : Cardinality(Between(s, t)) < 2 * Limit

Counts == \A s \in Scopes : IF rate[s].count = 0 THEN WindowClosed(s) ELSE WindowOpen(s)

Inv ==
    /\ TypeOK
    /\ Staged
    /\ SessionsFromCodes
    /\ PairedOnce
    /\ StaleCaught
    /\ AppliedRecorded
    /\ AppliedOnce
    /\ Timely
    /\ PassedOnce
    /\ Counts
    /\ Bounded

-----------------------------------------------------------------------------
(* Rows *)

LEMMA Constants ==
    /\ CodeTTL \in Nat /\ SessionTTL \in Nat /\ RecordTTL \in Nat /\ SessionTTL <= RecordTTL
    /\ Window \in Nat /\ Window > 0 /\ Delay \in Nat /\ Limit \in Nat /\ Limit > 0 /\ MaxClock \in Nat
    /\ None \notin Devices /\ None \notin Codes /\ Never \in Nat /\ Never > MaxClock
BY ControlPlaneAssumption DEF Never

\* The stages of a request keep what it is.
LEMMA DoneRow ==
    ASSUME TypeOK, NEW q \in Requests, Done(q)
    PROVE  /\ req' \in [Requests -> RequestRow]
           /\ req'[q].pc = "done" /\ req'[q].op = req[q].op /\ req'[q].device = req[q].device
           /\ req'[q].key = req[q].key /\ req'[q].stale = req[q].stale /\ req'[q].target = 0
           /\ \A p \in Requests : p # q => req'[p] = req[p]
<1> DEFINE row == [pc |-> "done", op |-> req[q].op, device |-> req[q].device, key |-> req[q].key,
                   csrf |-> 0, seen |-> 0, target |-> 0, body |-> NoBody, stale |-> req[q].stale,
                   again |-> FALSE, now |-> 0]
<1>1. req \in [Requests -> RequestRow] /\ req' = [req EXCEPT ![q] = row]
  BY DEF Done, TypeOK
<1>2. row \in RequestRow
  BY <1>1 DEF RequestRow, Stages, NoBody
<1>3. /\ row.pc = "done" /\ row.op = req[q].op /\ row.device = req[q].device
      /\ row.key = req[q].key /\ row.stale = req[q].stale /\ row.target = 0
  BY Zenon
<1> HIDE DEF row
<1>4. req' \in [Requests -> RequestRow] /\ req'[q] = row /\ \A p \in Requests : p # q => req'[p] = req[p]
  BY <1>1, <1>2
<1> QED BY <1>3, <1>4, Zenon

LEMMA GotoRow ==
    ASSUME TypeOK, NEW q \in Requests, NEW pc \in Stages, NEW now \in Nat, Goto(q, pc, now)
    PROVE  /\ req' \in [Requests -> RequestRow]
           /\ req'[q].pc = pc /\ req'[q].op = req[q].op /\ req'[q].device = req[q].device
           /\ req'[q].key = req[q].key /\ req'[q].stale = req[q].stale
           /\ req'[q].csrf = req[q].csrf /\ req'[q].seen = req[q].seen /\ req'[q].target = req[q].target
           /\ req'[q].now = now
           /\ \A p \in Requests : p # q => req'[p] = req[p]
BY DEF Goto, TypeOK, RequestRow

LEMMA KeptDevice ==
    ASSUME NEW row \in DeviceRow
    PROVE  /\ Kept(row) \in DeviceRow
           /\ Kept(row).until = row.until /\ Kept(row).csrf = row.csrf /\ Kept(row).code = row.code
           /\ Kept(row).status = IF row.status # "absent" /\ Expired(row) THEN "gone" ELSE row.status
BY DEF Kept, DeviceRow

LEMMA KeptCode ==
    ASSUME NEW row \in CodeRow
    PROVE  /\ Kept(row) \in CodeRow
           /\ Kept(row).status = IF row.status # "absent" /\ Expired(row) THEN "gone" ELSE row.status
BY DEF Kept, CodeRow

\* The device rows that the cleanup leaves.
LEMMA CurrentType ==
    ASSUME TypeOK
    PROVE  /\ CurrentDevices \in [Devices -> DeviceRow]
           /\ \A d \in Devices :
                 /\ CurrentDevices[d].until = device[d].until
                 /\ CurrentDevices[d].csrf = device[d].csrf
                 /\ CurrentDevices[d].code = device[d].code
                 /\ CurrentDevices[d].status =
                       IF device[d].status # "absent" /\ device[d].until <= clock THEN "gone"
                       ELSE device[d].status
BY KeptDevice DEF TypeOK, CurrentDevices, Expired

\* What the cleanup does to codes and rate limits.
LEMMA CleanupOthersType ==
    ASSUME TypeOK, CleanupOthers
    PROVE  /\ code' \in [Codes -> CodeRow] /\ rate' \in [Scopes -> RateRow]
           /\ \A c \in Codes : code'[c].status = code[c].status \/ code'[c].status = "gone"
           /\ \A s \in Scopes : rate'[s] = rate[s] \/
                 (rate'[s] = NoWindow /\ rate[s].count > 0 /\ rate[s].start + Window <= clock)
<1>1. code' \in [Codes -> CodeRow] /\ \A c \in Codes : code'[c].status = code[c].status \/ code'[c].status = "gone"
  BY KeptCode DEF CleanupOthers, TypeOK
<1>2. NoWindow \in RateRow
  BY Constants DEF NoWindow, RateRow
<1>3. rate' \in [Scopes -> RateRow]
  BY <1>2 DEF CleanupOthers, TypeOK
<1>4. \A s \in Scopes : rate'[s] = rate[s] \/
         (rate'[s] = NoWindow /\ rate[s].count > 0 /\ rate[s].start + Window <= clock)
  BY DEF CleanupOthers, WindowOver
<1> QED BY <1>1, <1>3, <1>4

\* A record that the cleanup removes goes with its session.
LEMMA CleanRecordsType ==
    ASSUME TypeOK
    PROVE  /\ CleanRecords \subseteq records
           /\ \A r \in CleanRecords : CurrentDevices[r.device].status \in {"live", "revoked"}
           /\ \A r \in records \ CleanRecords :
                 device[r.device].until <= r.until => CurrentDevices[r.device].status = "gone"
<1>1. \A r \in records : /\ r.device \in Devices /\ r.until \in Nat
                         /\ device[r.device].status \in {"live", "revoked"}
                         /\ device[r.device].until \in Nat
  BY DEF TypeOK, Record, DeviceRow
<1>2. clock \in Nat
  BY Constants DEF TypeOK
<1>3. CleanRecords \subseteq records /\ \A r \in CleanRecords : CurrentDevices[r.device].status \in {"live", "revoked"}
  BY DEF CleanRecords, Exists
<1>4. ASSUME NEW r \in records \ CleanRecords, device[r.device].until <= r.until
      PROVE  CurrentDevices[r.device].status = "gone"
  <2>1. CurrentDevices[r.device].status =
           IF device[r.device].status # "absent" /\ device[r.device].until <= clock THEN "gone"
           ELSE device[r.device].status
    BY <1>1, CurrentType
  <2>2. r.until <= clock \/ CurrentDevices[r.device].status \notin {"live", "revoked"}
    BY <1>4 DEF CleanRecords, Expired, Exists
  <2> QED BY <1>1, <1>2, <1>4, <2>1, <2>2
<1> QED BY <1>3, <1>4

LEMMA SendRow ==
    ASSUME TypeOK, NEW q \in Requests, NEW op \in Ops, NEW d \in Devices \cup {None}, NEW key \in Keys,
           NEW csrf \in Nat, NEW target \in Nat, NEW body \in SUBSET UNION Batches,
           Send(q, op, d, key, csrf, target, body)
    PROVE  /\ req' \in [Requests -> RequestRow]
           /\ req'[q].pc = (IF op = "exchange" THEN "rate" ELSE "auth")
           /\ req'[q].op = op /\ req'[q].device = d /\ req'[q].csrf = csrf /\ req'[q].target = target
           /\ req'[q].stale = (op \in Commands /\ (CurrentDevices[d].status # "live" \/ device[d].csrf # csrf))
           /\ \A p \in Requests : p # q => req'[p] = req[p]
<1> DEFINE stale == op \in Commands /\ (CurrentDevices[d].status # "live" \/ device[d].csrf # csrf)
           row == [pc |-> IF op = "exchange" THEN "rate" ELSE "auth", op |-> op, device |-> d,
                   key |-> key, csrf |-> csrf, seen |-> 0, target |-> target, body |-> body,
                   stale |-> stale, again |-> FALSE, now |-> 0]
<1>1. req \in [Requests -> RequestRow] /\ req' = [req EXCEPT ![q] = row]
  BY Zenon DEF Send, TypeOK
<1>2. stale \in BOOLEAN
  BY Zenon
<1>3. /\ row.pc = (IF op = "exchange" THEN "rate" ELSE "auth")
      /\ row.op = op /\ row.device = d /\ row.csrf = csrf /\ row.target = target /\ row.stale = stale
  BY Zenon
<1> HIDE DEF stale
<1>4. row \in RequestRow
  BY <1>2 DEF RequestRow, Stages
<1> HIDE DEF row
<1>5. req' \in [Requests -> RequestRow] /\ req'[q] = row /\ \A p \in Requests : p # q => req'[p] = req[p]
  BY <1>1, <1>4
<1> QED BY <1>3, <1>5, Zenon DEF stale

\* What a client sends.
LEMMA SentRow ==
    ASSUME TypeOK, NEW q \in Requests,
           \/ SendExchange(q)
           \/ \E d \in Devices : SendSession(q, d) \/ SendCommand(q, d)
    PROVE  /\ req' \in [Requests -> RequestRow] /\ req[q].pc = "unsent"
           /\ UNCHANGED <<clock, code, device, rate, records, commandVars, historyVars>>
           /\ \A p \in Requests : p # q => req'[p] = req[p]
           /\ \/ req'[q].op = "exchange" /\ req'[q].pc = "rate" /\ req'[q].stale = FALSE
              \/ /\ req'[q].op # "exchange" /\ req'[q].pc = "auth"
                 /\ req'[q].device \in Devices /\ device[req'[q].device].status # "absent"
                 /\ req'[q].csrf <= device[req'[q].device].csrf
                 /\ req'[q].op = "reserve_report" => req'[q].target <= MaxClock
                 /\ req'[q].stale => req'[q].op \in Commands /\
                       (CurrentDevices[req'[q].device].status # "live"
                          \/ device[req'[q].device].csrf # req'[q].csrf)
<1>0. {} \in SUBSET UNION Batches /\ req[q].key \in Keys
  BY DEF TypeOK, RequestRow
<1>1. CASE SendExchange(q)
  <2>1. "exchange" \in Ops /\ "exchange" \notin Commands
    BY DEF Ops, Commands
  <2>2. Send(q, "exchange", None, req[q].key, 0, 0, {})
    BY <1>1 DEF SendExchange, NoBody
  <2>3. /\ req' \in [Requests -> RequestRow]
        /\ req'[q].pc = "rate" /\ req'[q].op = "exchange"
        /\ req'[q].stale = ("exchange" \in Commands
              /\ (CurrentDevices[None].status # "live" \/ device[None].csrf # 0))
        /\ \A p \in Requests : p # q => req'[p] = req[p]
    BY <1>0, <2>1, <2>2, SendRow
  <2>4. req'[q].stale = FALSE
    BY <2>1, <2>3, Zenon
  <2>5. req[q].pc = "unsent" /\ UNCHANGED <<clock, code, device, rate, records, commandVars, historyVars>>
    BY <2>2 DEF Send
  <2> QED BY <2>3, <2>4, <2>5
<1>2. ASSUME NEW d \in Devices, NEW op \in Ops, op # "exchange", NEW key \in Keys,
             NEW csrf \in Nat, csrf <= device[d].csrf \/ op \notin Commands,
             NEW target \in Nat, op = "reserve_report" => target <= MaxClock,
             NEW body \in SUBSET UNION Batches, device[d].status # "absent",
             csrf <= device[d].csrf,
             Send(q, op, d, key, csrf, target, body)
      PROVE  /\ req' \in [Requests -> RequestRow] /\ req[q].pc = "unsent"
             /\ UNCHANGED <<clock, code, device, rate, records, commandVars, historyVars>>
             /\ \A p \in Requests : p # q => req'[p] = req[p]
             /\ req'[q].op # "exchange" /\ req'[q].pc = "auth"
             /\ req'[q].device \in Devices /\ device[req'[q].device].status # "absent"
             /\ req'[q].csrf <= device[req'[q].device].csrf
             /\ req'[q].op = "reserve_report" => req'[q].target <= MaxClock
             /\ req'[q].stale => req'[q].op \in Commands /\
                   (CurrentDevices[req'[q].device].status # "live"
                      \/ device[req'[q].device].csrf # req'[q].csrf)
  <2>1. /\ req' \in [Requests -> RequestRow] /\ req'[q].pc = "auth"
        /\ req'[q].op = op /\ req'[q].device = d /\ req'[q].csrf = csrf /\ req'[q].target = target
        /\ req'[q].stale = (op \in Commands /\ (CurrentDevices[d].status # "live" \/ device[d].csrf # csrf))
        /\ \A p \in Requests : p # q => req'[p] = req[p]
    BY <1>2, SendRow
  <2>2. req[q].pc = "unsent" /\ UNCHANGED <<clock, code, device, rate, records, commandVars, historyVars>>
    BY <1>2 DEF Send
  <2> QED BY <1>2, <2>1, <2>2, Zenon
<1>3. ASSUME NEW d \in Devices PROVE device[d].csrf \in Nat
  BY DEF TypeOK, DeviceRow
<1>4. ASSUME NEW d \in Devices, SendSession(q, d)
      PROVE  \E op \in Ops : op # "exchange" /\ op # "reserve_report" /\ device[d].status # "absent"
                /\ Send(q, op, d, req[q].key, 0, 0, {})
  BY <1>4 DEF SendSession, NoBody, Ops
<1>5. ASSUME NEW d \in Devices, SendCommand(q, d)
      PROVE  \E op \in Ops, key \in Keys, csrf \in Nat, target \in Nat, body \in SUBSET UNION Batches :
                /\ op # "exchange" /\ csrf <= device[d].csrf /\ device[d].status # "absent"
                /\ op = "reserve_report" => target <= MaxClock
                /\ Send(q, op, d, key, csrf, target, body)
  <2>1. PICK op \in Commands, key \in Keys, csrf \in 0 .. device[d].csrf :
           \E target \in Targets(op), body \in (IF op = "views" THEN Batches ELSE {NoBody}) :
              device[d].status # "absent" /\ Send(q, op, d, key, csrf, target, body)
    BY <1>5 DEF SendCommand
  <2>2. PICK target \in Targets(op), body \in (IF op = "views" THEN Batches ELSE {NoBody}) :
              device[d].status # "absent" /\ Send(q, op, d, key, csrf, target, body)
    BY <2>1
  <2>3. op \in Ops /\ op # "exchange"
    BY DEF Commands, Ops
  <2>4. target \in Nat /\ (op = "reserve_report" => target <= MaxClock)
    <3>1. DOMAIN logins \subseteq Nat /\ DOMAIN runs \subseteq Nat
      BY LenProperties DEF TypeOK
    <3>2. CASE op = "cancel_login"
      BY <3>1, <3>2 DEF Targets
    <3>3. CASE op = "cancel_run"
      BY <3>1, <3>3 DEF Targets
    <3>4. CASE op = "reserve_report"
      BY <3>4, Constants DEF Targets
    <3>5. CASE op \notin {"cancel_login", "cancel_run", "reserve_report"}
      BY <3>5 DEF Targets
    <3> QED BY <3>2, <3>3, <3>4, <3>5
  <2>5. body \in SUBSET UNION Batches
    BY DEF NoBody
  <2>6. csrf \in Nat /\ csrf <= device[d].csrf
    BY <1>3
  <2> QED BY <2>2, <2>3, <2>4, <2>5, <2>6
<1>6. CASE \E d \in Devices : SendSession(q, d)
  BY <1>0, <1>2, <1>3, <1>4, <1>6
<1>7. CASE \E d \in Devices : SendCommand(q, d)
  BY <1>2, <1>5, <1>7
<1> QED BY <1>1, <1>6, <1>7

-----------------------------------------------------------------------------
(* What a step does to a request *)

\* The handler of a request that was sent keeps what the client sent.
SameRequest(q) ==
    /\ req'[q].op = req[q].op /\ req'[q].device = req[q].device /\ req'[q].key = req[q].key
    /\ req'[q].stale = req[q].stale

LEMMA PassesRow ==
    ASSUME TypeOK, NEW q \in Requests, Passes(q)
    PROVE  /\ req' \in [Requests -> RequestRow] /\ SameRequest(q)
           /\ passed' = [passed EXCEPT ![q] = clock]
           /\ req'[q].target = req[q].target \/ req'[q].target = 0
           /\ \A p \in Requests : p # q => req'[p] = req[p]
           /\ \/ req'[q].pc = "exchange" /\ req[q].op = "exchange"
              \/ req'[q].pc = "act" /\ req[q].op # "exchange" /\ req[q].csrf = req[q].seen
              \/ req'[q].pc = "done"
<1>0. passed' = [passed EXCEPT ![q] = clock]
  BY DEF Passes
<1>1. CASE req[q].op = "exchange" /\ Goto(q, "exchange", 0)
  BY <1>0, <1>1, GotoRow DEF SameRequest, Stages
<1>2. CASE req[q].op # "exchange" /\ req[q].csrf = req[q].seen /\ Goto(q, "act", 0)
  BY <1>0, <1>2, GotoRow DEF SameRequest, Stages
<1>3. CASE Done(q)
  BY <1>0, <1>3, DoneRow DEF SameRequest
<1> QED BY <1>1, <1>2, <1>3, Zenon DEF Passes

LEMMA CollidedRow ==
    ASSUME TypeOK, NEW q \in Requests, Collided(q)
    PROVE  /\ req' \in [Requests -> RequestRow] /\ SameRequest(q) /\ passed' = passed
           /\ req'[q].target = req[q].target \/ req'[q].target = 0
           /\ \A p \in Requests : p # q => req'[p] = req[p]
           /\ \/ req'[q].pc = "rate" /\ req'[q].csrf = req[q].csrf /\ req'[q].seen = req[q].seen
              \/ req'[q].pc = "done"
<1>0. passed' = passed
  BY DEF Collided
<1>1. CASE Done(q)
  BY <1>0, <1>1, DoneRow DEF SameRequest
<1>2. CASE req' = [req EXCEPT ![q] = [req[q] EXCEPT !.pc = "rate", !.again = TRUE, !.now = 0]]
  <2> DEFINE row == [req[q] EXCEPT !.pc = "rate", !.again = TRUE, !.now = 0]
  <2>1. req \in [Requests -> RequestRow] /\ req[q] \in RequestRow
    BY DEF TypeOK
  <2>2. row \in RequestRow
    BY <2>1 DEF RequestRow, Stages
  <2>3. /\ row.pc = "rate" /\ row.op = req[q].op /\ row.device = req[q].device
        /\ row.key = req[q].key /\ row.stale = req[q].stale /\ row.target = req[q].target
        /\ row.csrf = req[q].csrf /\ row.seen = req[q].seen
    BY <2>1 DEF RequestRow
  <2> HIDE DEF row
  <2>4. /\ req' \in [Requests -> RequestRow] /\ req'[q] = row
        /\ \A p \in Requests : p # q => req'[p] = req[p]
    BY <1>2, <2>1, <2>2 DEF row
  <2> QED BY <1>0, <2>3, <2>4 DEF SameRequest
<1> QED BY <1>1, <1>2, Zenon DEF Collided

\* An authenticated request goes on with the CSRF token of its session.
LEMMA AuthenticateRow ==
    ASSUME TypeOK, Staged, NEW q \in Requests, Authenticate(q)
    PROVE  /\ req' \in [Requests -> RequestRow] /\ SameRequest(q)
           /\ req'[q].target = req[q].target \/ req'[q].target = 0
           /\ \A p \in Requests : p # q => req'[p] = req[p]
           /\ \/ /\ req'[q].pc = IF req[q].op = "session" THEN "rotate" ELSE "rate"
                 /\ req'[q].csrf = req[q].csrf /\ req'[q].seen = device[req[q].device].csrf
                 /\ CurrentDevices[req[q].device].status = "live"
                 /\ Cleanup
              \/ req'[q].pc = "done" /\ UNCHANGED <<device, records, code, rate>>
<1>1. CASE Found(req[q].device)
  <2> DEFINE row == [req[q] EXCEPT !.pc = IF req[q].op = "session" THEN "rotate" ELSE "rate",
                                   !.seen = device[req[q].device].csrf]
  <2>1. req' = [req EXCEPT ![q] = row]
    BY <1>1 DEF Authenticate
  <2>2. req[q].device \in Devices
    BY DEF Authenticate, Staged
  <2>3. device[req[q].device].csrf \in Nat
    BY <2>2 DEF TypeOK, DeviceRow
  <2>4. CurrentDevices[req[q].device].status = "live" /\ Cleanup
    BY <1>1 DEF Authenticate, Found
  <2>5. req \in [Requests -> RequestRow]
    BY DEF TypeOK
  <2>6. /\ row \in RequestRow /\ row.pc = IF req[q].op = "session" THEN "rotate" ELSE "rate"
        /\ row.op = req[q].op /\ row.device = req[q].device /\ row.key = req[q].key
        /\ row.stale = req[q].stale /\ row.csrf = req[q].csrf /\ row.target = req[q].target
        /\ row.seen = device[req[q].device].csrf
    BY <2>3, <2>5 DEF RequestRow, Stages
  <2> HIDE DEF row
  <2>7. req' \in [Requests -> RequestRow] /\ req'[q] = row /\ \A p \in Requests : p # q => req'[p] = req[p]
    BY <2>1, <2>5, <2>6
  <2> QED BY <2>4, <2>6, <2>7, Zenon DEF SameRequest
<1>2. CASE ~Found(req[q].device)
  <2>1. Done(q) /\ UNCHANGED <<device, records, code, rate>>
    BY <1>2 DEF Authenticate
  <2> QED BY <2>1, DoneRow DEF SameRequest
<1> QED BY <1>1, <1>2

-----------------------------------------------------------------------------
(* What a step does to the rows of sessions, codes and records *)

\* A session row keeps its expiry and code; it is revoked, or removed once expired.
DeviceKept(d) ==
    /\ device'[d].until = device[d].until /\ device'[d].code = device[d].code
    /\ device'[d].csrf >= device[d].csrf
    /\ \/ device'[d].status = device[d].status
       \/ device[d].status = "live" /\ device'[d].status = "revoked"
       \/ device[d].status # "absent" /\ device[d].until <= clock /\ device'[d].status = "gone"

DevicesKept == device' \in [Devices -> DeviceRow] /\ \A d \in Devices : DeviceKept(d)

CodesKept ==
    /\ code' \in [Codes -> CodeRow]
    /\ \A c \in Codes : code[c].status \in {"consumed", "gone"} => code'[c].status \in {"consumed", "gone"}

\* The cleanup of a transaction: the expired sessions are gone, and the records
\* that are left belong to sessions that exist.
Swept ==
    /\ \A d \in Devices : CurrentDevices[d].status = "gone" => device'[d].status = "gone"
    /\ \A d \in Devices : CurrentDevices[d].status \in {"live", "revoked"} =>
                             device'[d].status \in {"live", "revoked"}

LEMMA SameDevices ==
    ASSUME TypeOK, device' = device
    PROVE  DevicesKept
BY DEF TypeOK, DevicesKept, DeviceKept, DeviceRow

LEMMA SameCodes ==
    ASSUME TypeOK, code' = code
    PROVE  CodesKept
BY DEF TypeOK, CodesKept

LEMMA CleanDevices ==
    ASSUME TypeOK, device' = CurrentDevices
    PROVE  DevicesKept /\ Swept
<1>1. /\ CurrentDevices \in [Devices -> DeviceRow]
      /\ \A d \in Devices :
            /\ CurrentDevices[d].until = device[d].until
            /\ CurrentDevices[d].csrf = device[d].csrf
            /\ CurrentDevices[d].code = device[d].code
            /\ CurrentDevices[d].status =
                  IF device[d].status # "absent" /\ device[d].until <= clock THEN "gone"
                  ELSE device[d].status
  BY CurrentType
<1>2. \A d \in Devices : device[d].csrf \in Nat
  BY DEF TypeOK, DeviceRow
<1>3. ASSUME NEW d \in Devices PROVE DeviceKept(d)
  BY <1>1, <1>2 DEF DeviceKept
<1> QED BY <1>1, <1>3 DEF DevicesKept, Swept

LEMMA CleanCodes ==
    ASSUME TypeOK, CleanupOthers
    PROVE  CodesKept
BY CleanupOthersType DEF CodesKept

\* _revoke_locked after the cleanup.
LEMMA RevokeDevices ==
    ASSUME TypeOK, NEW q \in Requests, req[q].device \in Devices, Exists(req[q].device), Revoke(q)
    PROVE  DevicesKept /\ Swept
<1> DEFINE e == req[q].device
<1>1. /\ CurrentDevices \in [Devices -> DeviceRow]
      /\ \A d \in Devices :
            /\ CurrentDevices[d].until = device[d].until
            /\ CurrentDevices[d].csrf = device[d].csrf
            /\ CurrentDevices[d].code = device[d].code
            /\ CurrentDevices[d].status =
                  IF device[d].status # "absent" /\ device[d].until <= clock THEN "gone"
                  ELSE device[d].status
  BY CurrentType
<1>2. device' = [CurrentDevices EXCEPT ![e].status = "revoked"]
  BY DEF Revoke
<1>3. \A d \in Devices : device[d].csrf \in Nat
  BY DEF TypeOK, DeviceRow
<1>4. CurrentDevices[e].status \in {"live", "revoked"}
  BY DEF Exists
<1>5. device' \in [Devices -> DeviceRow] /\ \A d \in Devices : d # e => device'[d] = CurrentDevices[d]
  BY <1>1, <1>2 DEF DeviceRow
<1>6. /\ device'[e].status = "revoked" /\ device'[e].until = CurrentDevices[e].until
      /\ device'[e].csrf = CurrentDevices[e].csrf /\ device'[e].code = CurrentDevices[e].code
  BY <1>1, <1>2 DEF DeviceRow
<1>7. ASSUME NEW d \in Devices PROVE DeviceKept(d)
  BY <1>1, <1>3, <1>4, <1>5, <1>6 DEF DeviceKept
<1>8. Swept
  BY <1>4, <1>5, <1>6 DEF Swept
<1> QED BY <1>5, <1>7, <1>8 DEF DevicesKept

\* A command is carried out for a session that exists, with its record.
LEMMA PerformRows ==
    ASSUME TypeOK, Staged, NEW q \in Requests, Perform(q)
    PROVE  /\ DevicesKept /\ Swept /\ CodesKept
           /\ records' = CleanRecords \cup {RecordOf(q)} /\ RecordOf(q) \in Record
           /\ req[q].device \in Devices /\ CurrentDevices[req[q].device].status \in {"live", "revoked"}
           /\ req[q].op \in Commands
<1>1. req[q].op \in Commands /\ req[q].device \in Devices
  BY DEF Perform, Staged, Commands
<1>2. CodesKept /\ Exists(req[q].device) /\ CurrentDevices[req[q].device].status \in {"live", "revoked"}
  BY CleanCodes DEF Perform, Exists
<1>3. RecordOf(q) \in Record
  <2>1. /\ req[q].key \in Keys /\ req[q].target \in Nat /\ req[q].body \in SUBSET UNION Batches
        /\ clock + RecordTTL \in Nat
    BY Constants DEF TypeOK, RequestRow
  <2>2. Fingerprint(q) \in Nat \X SUBSET UNION Batches
    BY <2>1 DEF Fingerprint
  <2> QED BY <1>1, <2>1, <2>2 DEF RecordOf, RecordUntil, Record
<1>4. records' = CleanRecords \cup {RecordOf(q)}
  BY DEF Perform
<1>5. CASE req[q].op = "revoke"
  <2>1. Revoke(q)
    BY <1>5 DEF Perform, Command
  <2>2. DevicesKept /\ Swept
    BY <1>1, <1>2, <2>1, RevokeDevices
  <2> QED BY <1>1, <1>2, <1>3, <1>4, <2>2
<1>6. CASE req[q].op # "revoke"
  <2>1. DevicesKept /\ Swept
    BY <1>6, CleanDevices DEF Perform
  <2> QED BY <1>1, <1>2, <1>3, <1>4, <2>1
<1> QED BY <1>5, <1>6

-----------------------------------------------------------------------------
(* Types *)

\* Replacing an element of a sequence, if there is one.
LEMMA ExceptType ==
    ASSUME NEW S, NEW seq \in Seq(S), NEW i, NEW x \in S
    PROVE  [seq EXCEPT ![i] = x] \in Seq(S)
<1>1. CASE i \in DOMAIN seq
  BY <1>1, ExceptSeq
<1>2. CASE i \notin DOMAIN seq
  <2>1. [seq EXCEPT ![i] = x] = seq
    BY <1>2
  <2> QED BY <2>1
<1> QED BY <1>1, <1>2

LEMMA CommandTypes ==
    ASSUME TypeOK, Staged, NEW q \in Requests, Command(q)
    PROVE  /\ account' \in {"disconnected", "connecting", "connected"}
           /\ logins' \in Seq({"open", "closed"}) /\ runs' \in Seq(RunStatuses)
           /\ reserve' \in 0 .. MaxClock /\ viewed' \subseteq UNION Batches
<1>0. /\ account \in {"disconnected", "connecting", "connected"}
      /\ logins \in Seq({"open", "closed"}) /\ runs \in Seq(RunStatuses)
      /\ reserve \in 0 .. MaxClock /\ viewed \subseteq UNION Batches
      /\ clock \in 0 .. MaxClock /\ req[q].body \subseteq UNION Batches /\ req[q].target \in Nat
  BY DEF TypeOK, RequestRow
<1>1. CASE CreateLogin(q)
  <2>1. logins' \in Seq({"open", "closed"})
    BY <1>0, <1>1, AppendProperties DEF CreateLogin
  <2> QED BY <1>0, <1>1, <2>1 DEF CreateLogin
<1>2. CASE CancelLogin(q)
  <2>1. logins' \in Seq({"open", "closed"})
    BY <1>0, <1>2, ExceptType DEF CancelLogin
  <2> QED BY <1>0, <1>2, <2>1 DEF CancelLogin
<1>3. CASE CreateRun(q)
  <2>1. runs' \in Seq(RunStatuses)
    BY <1>0, <1>3, AppendProperties DEF CreateRun, RunStatuses
  <2> QED BY <1>0, <1>3, <2>1 DEF CreateRun
<1>4. CASE CancelRun(q)
  <2> DEFINE new == IF runs[req[q].target] \in {"queued", "terminal"} THEN "terminal" ELSE "cancelling"
  <2>1. new \in RunStatuses
    BY DEF RunStatuses
  <2>2. runs' = [runs EXCEPT ![req[q].target] = new]
    BY <1>4 DEF CancelRun
  <2> HIDE DEF new
  <2>3. runs' \in Seq(RunStatuses)
    BY <1>0, <2>1, <2>2, ExceptType
  <2> QED BY <1>0, <1>4, <2>3 DEF CancelRun
<1>5. CASE Revoke(q) \/ UpdateSettings(q)
  BY <1>0, <1>5 DEF Revoke, UpdateSettings, commandVars
<1>6. CASE req[q].op \in {"reserve_settings", "reserve_report"} /\ UpdateReserve(q)
  <2>1. req[q].op = "reserve_report" => req[q].target \in 0 .. MaxClock
    BY <1>0, Constants DEF Staged
  <2>2. reserve' \in 0 .. MaxClock
    BY <1>0, <1>6, <2>1 DEF UpdateReserve
  <2> QED BY <1>0, <1>6, <2>2 DEF UpdateReserve
<1>7. CASE SyncViewed(q)
  BY <1>0, <1>7 DEF SyncViewed
<1> QED BY <1>1, <1>2, <1>3, <1>4, <1>5, <1>6, <1>7 DEF Command

\* The records that are left, and the new one, belong to sessions that exist.
LEMMA SweptRecords ==
    ASSUME TypeOK, Swept, NEW new \in SUBSET Record,
           \A r \in new : CurrentDevices[r.device].status \in {"live", "revoked"},
           records' = CleanRecords \cup new
    PROVE  records' \subseteq Record /\ \A r \in records' : device'[r.device].status \in {"live", "revoked"}
<1>1. CleanRecords \subseteq Record /\ \A r \in CleanRecords : CurrentDevices[r.device].status \in {"live", "revoked"}
  BY CleanRecordsType DEF TypeOK
<1>2. \A r \in records' : r.device \in Devices /\ CurrentDevices[r.device].status \in {"live", "revoked"}
  BY <1>1 DEF Record
<1> QED BY <1>1, <1>2 DEF Swept

\* Records stay where sessions are neither removed nor added to.
LEMMA KeptRecords ==
    ASSUME TypeOK, records' = records,
           \A d \in Devices : device[d].status \in {"live", "revoked"} => device'[d].status \in {"live", "revoked"}
    PROVE  records' \subseteq Record /\ \A r \in records' : device'[r.device].status \in {"live", "revoked"}
BY DEF TypeOK, Record

LEMMA CleanupTypes ==
    ASSUME TypeOK, Cleanup
    PROVE  /\ device' \in [Devices -> DeviceRow]
           /\ records' \subseteq Record /\ \A r \in records' : device'[r.device].status \in {"live", "revoked"}
           /\ code' \in [Codes -> CodeRow] /\ rate' \in [Scopes -> RateRow]
<1>1. device' \in [Devices -> DeviceRow] /\ Swept
  BY CleanDevices DEF Cleanup, DevicesKept
<1>2. records' \subseteq Record /\ \A r \in records' : device'[r.device].status \in {"live", "revoked"}
  <2> DEFINE new == {}
  <2>1. /\ new \in SUBSET Record /\ records' = CleanRecords \cup new
        /\ \A r \in new : CurrentDevices[r.device].status \in {"live", "revoked"}
    BY DEF Cleanup
  <2> HIDE DEF new
  <2> QED BY <1>1, <2>1, SweptRecords, Zenon
<1>3. code' \in [Codes -> CodeRow] /\ rate' \in [Scopes -> RateRow]
  BY CleanupOthersType DEF Cleanup
<1> QED BY <1>1, <1>2, <1>3

\* A new CSRF token is newer than the last one.
LEMMA RotateDevices ==
    ASSUME TypeOK, Staged, NEW q \in Requests, Rotate(q)
    PROVE  DevicesKept /\ \A e \in Devices : device'[e].status = device[e].status
<1> DEFINE d == req[q].device
<1>1. d \in Devices
  BY DEF Rotate, Staged
<1>2. CASE device' = device
  BY <1>2, SameDevices
<1>3. CASE device' = [device EXCEPT ![d].csrf = device[d].csrf + 1]
  <2>1. device \in [Devices -> DeviceRow] /\ device[d].csrf \in Nat
    BY <1>1 DEF TypeOK, DeviceRow
  <2> DEFINE row == [device[d] EXCEPT !.csrf = device[d].csrf + 1]
  <2>2. /\ row \in DeviceRow /\ row.until = device[d].until /\ row.code = device[d].code
        /\ row.status = device[d].status /\ row.csrf = device[d].csrf + 1
    BY <1>1, <2>1 DEF DeviceRow
  <2>3. device' = [device EXCEPT ![d] = row]
    BY <1>3
  <2> HIDE DEF row
  <2>4. device' \in [Devices -> DeviceRow] /\ device'[d] = row /\ \A e \in Devices : e # d => device'[e] = device[e]
    BY <1>1, <2>1, <2>2, <2>3
  <2>5. \A e \in Devices : device[e].csrf \in Nat
    BY <2>1 DEF DeviceRow
  <2> QED BY <2>1, <2>2, <2>4, <2>5 DEF DevicesKept, DeviceKept
<1> QED BY <1>2, <1>3 DEF Rotate

LEMMA RevokedRow ==
    ASSUME NEW row \in DeviceRow
    PROVE  LET new == [row EXCEPT !.status = "revoked"]
           IN  /\ new \in DeviceRow /\ new.status = "revoked"
               /\ new.until = row.until /\ new.csrf = row.csrf /\ new.code = row.code
BY DEF DeviceRow

LEMMA RevokeAllDevices ==
    ASSUME TypeOK, RevokeAll
    PROVE  /\ DevicesKept
           /\ \A d \in Devices : device[d].status \in {"live", "revoked"} => device'[d].status \in {"live", "revoked"}
<1> DEFINE Revoked(d) == [device[d] EXCEPT !.status = "revoked"]
<1>0. device' = [d \in Devices |-> IF device[d].status = "live" THEN Revoked(d) ELSE device[d]]
  BY DEF RevokeAll
<1>1. \A d \in Devices :
         /\ device[d] \in DeviceRow /\ Revoked(d) \in DeviceRow /\ Revoked(d).status = "revoked"
         /\ Revoked(d).until = device[d].until /\ Revoked(d).csrf = device[d].csrf
         /\ Revoked(d).code = device[d].code /\ device[d].csrf \in Nat
  BY RevokedRow DEF TypeOK, DeviceRow
<1> HIDE DEF Revoked
<1>2. device' \in [Devices -> DeviceRow]
  BY <1>0, <1>1
<1>3. \A d \in Devices : DeviceKept(d)
  BY <1>0, <1>1 DEF DeviceKept
<1>4. \A d \in Devices : device[d].status \in {"live", "revoked"} => device'[d].status \in {"live", "revoked"}
  BY <1>0, <1>1
<1> QED BY <1>2, <1>3, <1>4 DEF DevicesKept

LEMMA CountedType ==
    ASSUME TypeOK, NEW s \in Scopes, NEW now \in Nat, rate[s].count > 0,
           WindowOver(rate[s], now) \/ rate[s].count < Limit
    PROVE  Counted(rate[s], now) \in RateRow
<1>1. rate[s].count \in 0 .. Limit /\ rate[s].start \in Nat
  BY Constants DEF TypeOK, RateRow
<1>2. CASE WindowOver(rate[s], now)
  BY <1>1, <1>2, Constants DEF Counted, RateRow
<1>3. CASE ~WindowOver(rate[s], now)
  BY <1>1, <1>3, Constants DEF Counted, RateRow
<1> QED BY <1>2, <1>3

LEMMA ScopeType ==
    ASSUME Staged, NEW q \in Requests, req[q].pc # "unsent"
    PROVE  ScopeOf(q) \in Scopes
BY DEF Staged, ScopeOf, Scopes

LEMMA TypeStep ==
    ASSUME TypeOK, Staged, Next
    PROVE  TypeOK'
<1> USE DEF commandVars, historyVars
<1>0. clock \in Nat /\ passed \in [Requests -> Nat]
  BY Constants DEF TypeOK
<1>1. ASSUME NEW c \in Codes, CreatePairing(c) PROVE TypeOK'
  <2>1. code' \in [Codes -> CodeRow]
    BY <1>0, <1>1, Constants DEF CreatePairing, TypeOK, CodeRow
  <2> QED BY <1>1, <2>1 DEF CreatePairing, TypeOK
<1>2. CASE RevokeAll
  <2>1. /\ device' \in [Devices -> DeviceRow]
        /\ \A d \in Devices : device[d].status \in {"live", "revoked"} => device'[d].status \in {"live", "revoked"}
    BY <1>2, RevokeAllDevices DEF DevicesKept
  <2>3. records' \subseteq Record /\ \A r \in records' : device'[r.device].status \in {"live", "revoked"}
    BY <1>2, <2>1, KeptRecords DEF RevokeAll
  <2> QED BY <1>2, <2>1, <2>3 DEF RevokeAll, TypeOK
<1>3. CASE Tick
  BY <1>3, Constants DEF Tick, TypeOK
<1>4. CASE Elsewhere
  <2>1. /\ account' \in {"disconnected", "connecting", "connected"}
        /\ logins' \in Seq({"open", "closed"}) /\ runs' \in Seq(RunStatuses)
    <3>1. CASE /\ account' \in {"connected", "disconnected"}
               /\ logins' = [i \in DOMAIN logins |-> "closed"] /\ runs' = runs
      <4>1. Len(logins) \in Nat /\ DOMAIN logins = 1 .. Len(logins)
        BY LenProperties DEF TypeOK
      <4>2. logins' \in Seq({"open", "closed"})
        BY <3>1, <4>1, IsASeq
      <4> QED BY <3>1, <4>2 DEF TypeOK
    <3>2. CASE /\ \E i \in DOMAIN runs : runs[i] # "terminal" /\
                     \E status \in (IF runs[i] = "queued" THEN {"running"} ELSE {"terminal"}) :
                         runs' = [runs EXCEPT ![i] = status]
               /\ UNCHANGED <<account, logins>>
      <4>1. runs \in Seq(RunStatuses)
        BY DEF TypeOK
      <4>2. PICK i \in DOMAIN runs, status \in RunStatuses : runs' = [runs EXCEPT ![i] = status]
        BY <3>2 DEF RunStatuses
      <4>3. runs' \in Seq(RunStatuses)
        BY <4>1, <4>2, ExceptType
      <4> QED BY <3>2, <4>3 DEF TypeOK
    <3> QED BY <1>4, <3>1, <3>2 DEF Elsewhere
  <2> QED BY <1>4, <2>1 DEF Elsewhere, TypeOK
<1>5. ASSUME NEW q \in Requests,
             SendExchange(q) \/ \E d \in Devices : SendSession(q, d) \/ SendCommand(q, d)
      PROVE  TypeOK'
  <2>1. /\ req' \in [Requests -> RequestRow]
        /\ UNCHANGED <<clock, code, device, rate, records, commandVars, historyVars>>
    BY <1>5, SentRow
  <2> QED BY <2>1 DEF TypeOK
<1>6. ASSUME NEW q \in Requests, Authenticate(q) PROVE TypeOK'
  <2>1. req' \in [Requests -> RequestRow] /\ (Cleanup \/ UNCHANGED <<device, records, code, rate>>)
    BY <1>6, AuthenticateRow
  <2>2. UNCHANGED <<clock, commandVars, historyVars>>
    BY <1>6 DEF Authenticate
  <2>3. CASE Cleanup
    BY <2>1, <2>2, <2>3, CleanupTypes DEF TypeOK
  <2>4. CASE UNCHANGED <<device, records, code, rate>>
    BY <2>1, <2>2, <2>4 DEF TypeOK
  <2> QED BY <2>1, <2>3, <2>4
<1>7. ASSUME NEW q \in Requests, RateLimit(q) PROVE TypeOK'
  <2>0. ScopeOf(q) \in Scopes /\ req[q].now \in Nat
    BY <1>7, ScopeType DEF RateLimit, TypeOK, RequestRow
  <2>1. UNCHANGED <<clock, code, device, records, commandVars, applied>>
    BY <1>7 DEF RateLimit
  <2>2. CASE Goto(q, "insert", req[q].now) /\ UNCHANGED <<rate, passed>>
    <3>1. req' \in [Requests -> RequestRow]
      BY <2>0, <2>2, GotoRow DEF Stages
    <3> QED BY <2>1, <2>2, <3>1 DEF TypeOK
  <2>3. CASE /\ rate[ScopeOf(q)].count > 0
             /\ WindowOver(rate[ScopeOf(q)], req[q].now) \/ rate[ScopeOf(q)].count < Limit
             /\ rate' = [rate EXCEPT ![ScopeOf(q)] = Counted(rate[ScopeOf(q)], req[q].now)]
             /\ Passes(q)
    <3>1. Counted(rate[ScopeOf(q)], req[q].now) \in RateRow
      BY <2>0, <2>3, CountedType
    <3>2. rate' \in [Scopes -> RateRow]
      BY <2>3, <3>1 DEF TypeOK
    <3>3. req' \in [Requests -> RequestRow] /\ passed' \in [Requests -> Nat]
      BY <1>0, <2>3, PassesRow
    <3> QED BY <2>1, <3>2, <3>3 DEF TypeOK
  <2>4. CASE Done(q) /\ UNCHANGED <<rate, passed>>
    <3>1. req' \in [Requests -> RequestRow]
      BY <2>4, DoneRow
    <3> QED BY <2>1, <2>4, <3>1 DEF TypeOK
  <2> QED BY <1>7, <2>2, <2>3, <2>4 DEF RateLimit
<1>8. ASSUME NEW q \in Requests, RateInsert(q) PROVE TypeOK'
  <2>1. UNCHANGED <<clock, code, device, records, commandVars, applied>>
    BY <1>8 DEF RateInsert
  <2>2. CASE rate' = [rate EXCEPT ![ScopeOf(q)] = [count |-> 1, start |-> req[q].now]] /\ Passes(q)
    <3>1. [count |-> 1, start |-> req[q].now] \in RateRow
      BY Constants DEF TypeOK, RequestRow, RateRow
    <3>2. rate' \in [Scopes -> RateRow]
      BY <2>2, <3>1 DEF TypeOK
    <3>3. req' \in [Requests -> RequestRow] /\ passed' \in [Requests -> Nat]
      BY <1>0, <2>2, PassesRow
    <3> QED BY <2>1, <3>2, <3>3 DEF TypeOK
  <2>3. CASE Collided(q) /\ UNCHANGED rate
    <3>1. req' \in [Requests -> RequestRow] /\ passed' = passed
      BY <2>3, CollidedRow
    <3> QED BY <2>1, <2>3, <3>1 DEF TypeOK
  <2> QED BY <1>8, <2>2, <2>3 DEF RateInsert
<1>9. ASSUME NEW q \in Requests, Exchange(q) PROVE TypeOK'
  <2>1. req' \in [Requests -> RequestRow] /\ UNCHANGED <<clock, rate, records, commandVars, historyVars>>
    BY <1>9, DoneRow DEF Exchange
  <2>2. ASSUME NEW c \in Codes, NEW d \in Devices, device[d].status = "absent",
               code' = [code EXCEPT ![c] = [status |-> "consumed", until |-> code[c].until]],
               device' = [device EXCEPT ![d] =
                             [status |-> "live", until |-> clock + SessionTTL, csrf |-> 0, code |-> c]]
        PROVE  TypeOK'
    <3>1. code' \in [Codes -> CodeRow]
      BY <2>2 DEF TypeOK, CodeRow
    <3>2. device' \in [Devices -> DeviceRow]
      BY <1>0, <2>2, Constants DEF TypeOK, DeviceRow
    <3>3. \A e \in Devices : device[e].status \in {"live", "revoked"} => device'[e].status \in {"live", "revoked"}
      BY <2>2 DEF TypeOK
    <3>4. records' \subseteq Record /\ \A r \in records' : device'[r.device].status \in {"live", "revoked"}
      BY <2>1, <3>3, KeptRecords
    <3> QED BY <2>1, <3>1, <3>2, <3>4 DEF TypeOK
  <2>3. CASE UNCHANGED <<code, device>>
    BY <2>1, <2>3 DEF TypeOK
  <2> QED BY <1>9, <2>2, <2>3 DEF Exchange
<1>10. ASSUME NEW q \in Requests, Rotate(q) PROVE TypeOK'
  <2>1. req' \in [Requests -> RequestRow] /\ UNCHANGED <<clock, code, rate, records, commandVars, historyVars>>
    BY <1>10, DoneRow DEF Rotate
  <2>2. device' \in [Devices -> DeviceRow] /\ \A e \in Devices : device'[e].status = device[e].status
    BY <1>10, RotateDevices DEF DevicesKept
  <2>3. records' \subseteq Record /\ \A r \in records' : device'[r.device].status \in {"live", "revoked"}
    BY <2>1, <2>2, KeptRecords
  <2> QED BY <2>1, <2>2, <2>3 DEF TypeOK
<1>11. ASSUME NEW q \in Requests, Perform(q) PROVE TypeOK'
  <2>1. /\ req' \in [Requests -> RequestRow] /\ UNCHANGED <<clock, passed>>
        /\ applied' \subseteq Requests /\ Command(q)
    BY <1>11, DoneRow DEF Perform, TypeOK
  <2>2. /\ device' \in [Devices -> DeviceRow] /\ Swept
        /\ records' = CleanRecords \cup {RecordOf(q)} /\ RecordOf(q) \in Record
        /\ CurrentDevices[req[q].device].status \in {"live", "revoked"}
    BY <1>11, PerformRows DEF DevicesKept
  <2>3. RecordOf(q).device = req[q].device
    BY DEF RecordOf
  <2>4. records' \subseteq Record /\ \A r \in records' : device'[r.device].status \in {"live", "revoked"}
    <3> DEFINE new == {RecordOf(q)}
    <3>1. /\ new \in SUBSET Record /\ records' = CleanRecords \cup new
          /\ \A r \in new : CurrentDevices[r.device].status \in {"live", "revoked"}
      BY <2>2, <2>3
    <3> HIDE DEF new
    <3> QED BY <2>2, <3>1, SweptRecords, Zenon
  <2>5. code' \in [Codes -> CodeRow] /\ rate' \in [Scopes -> RateRow]
    BY <1>11, CleanupOthersType DEF Perform
  <2>6. /\ account' \in {"disconnected", "connecting", "connected"}
        /\ logins' \in Seq({"open", "closed"}) /\ runs' \in Seq(RunStatuses)
        /\ reserve' \in 0 .. MaxClock /\ viewed' \subseteq UNION Batches
    BY <2>1, CommandTypes
  <2> QED BY <2>1, <2>2, <2>4, <2>5, <2>6 DEF TypeOK
<1>12. ASSUME NEW q \in Requests, Replay(q) PROVE TypeOK'
  <2>1. req' \in [Requests -> RequestRow] /\ UNCHANGED <<clock, commandVars, historyVars>> /\ Cleanup
    BY <1>12, DoneRow DEF Replay
  <2> QED BY <2>1, CleanupTypes DEF TypeOK
<1>13. ASSUME NEW q \in Requests, Refuse(q) PROVE TypeOK'
  <2>1. req' \in [Requests -> RequestRow] /\ UNCHANGED <<clock, code, device, rate, records, commandVars, historyVars>>
    BY <1>13, DoneRow DEF Refuse
  <2> QED BY <2>1 DEF TypeOK
<1>14. ASSUME NEW q \in Requests, RateRead(q) PROVE TypeOK'
  <2>1. req' \in [Requests -> RequestRow] /\ UNCHANGED <<clock, code, device, rate, records, commandVars, historyVars>>
    BY <1>0, <1>14, GotoRow DEF RateRead, Stages
  <2> QED BY <2>1 DEF TypeOK
<1> QED BY <1>1, <1>2, <1>3, <1>4, <1>5, <1>6, <1>7, <1>8, <1>9, <1>10, <1>11, <1>12, <1>13, <1>14 DEF Next

-----------------------------------------------------------------------------
(* What a step does, in the terms of the invariant *)

Sends(q) == SendExchange(q) \/ \E d \in Devices : SendSession(q, d) \/ SendCommand(q, d)

Handles(q) ==
    \/ Authenticate(q) \/ RateRead(q) \/ RateLimit(q) \/ RateInsert(q)
    \/ Exchange(q) \/ Rotate(q) \/ Perform(q) \/ Replay(q) \/ Refuse(q)

Unasked == (\E c \in Codes : CreatePairing(c)) \/ RevokeAll \/ Tick \/ Elsewhere

LEMMA NextKinds ==
    ASSUME Next
    PROVE  Unasked \/ \E q \in Requests : Sends(q) \/ Handles(q)
BY Zenon DEF Next, Unasked, Sends, Handles

LEMMA UnaskedRow ==
    ASSUME Unasked
    PROVE  UNCHANGED <<req, rate, records, applied, passed>>
BY Zenon DEF Unasked, CreatePairing, RevokeAll, Tick, Elsewhere, historyVars

LEMMA HandlerRow ==
    ASSUME TypeOK, Staged, NEW q \in Requests, Handles(q)
    PROVE  /\ SameRequest(q) /\ req[q].pc \notin {"unsent", "done"}
           /\ req'[q].target = req[q].target \/ req'[q].target = 0
           /\ req'[q].pc \in InLimit =>
                 req'[q].now = clock \/ (req[q].pc \in InLimit /\ req'[q].now = req[q].now)
           /\ \A p \in Requests : p # q => req'[p] = req[p]
           /\ \/ req'[q].pc = "done"
              \/ req'[q].pc = "rotate" /\ req[q].op = "session"
              \/ /\ req[q].pc = "auth" /\ req'[q].pc = "rate" /\ req[q].op # "session"
                 /\ req'[q].csrf = req[q].csrf /\ req'[q].seen = device[req[q].device].csrf
                 /\ CurrentDevices[req[q].device].status = "live"
              \/ /\ req[q].pc \in {"rate", "select", "insert"} /\ req'[q].pc \in {"rate", "select", "insert"}
                 /\ req'[q].csrf = req[q].csrf /\ req'[q].seen = req[q].seen
              \/ req[q].pc \in {"rate", "select", "insert"} /\ req'[q].pc = "exchange" /\ req[q].op = "exchange"
              \/ /\ req[q].pc \in {"rate", "select", "insert"} /\ req'[q].pc = "act"
                 /\ req[q].op # "exchange" /\ req[q].csrf = req[q].seen
<1>1. CASE Authenticate(q)
  <2>1. req[q].pc = "auth"
    BY <1>1 DEF Authenticate
  <2> QED BY <1>1, <2>1, AuthenticateRow DEF InLimit
<1>5. CASE RateRead(q)
  <2>1. req[q].pc = "rate" /\ Goto(q, "select", clock) /\ clock \in Nat
    BY <1>5, Constants DEF RateRead, TypeOK
  <2> QED BY <2>1, GotoRow DEF Stages, SameRequest
<1>2. CASE RateLimit(q)
  <2>1. /\ req[q].pc = "select" /\ (Goto(q, "insert", req[q].now) \/ Passes(q) \/ Done(q))
        /\ req[q].now \in Nat
    BY <1>2 DEF RateLimit, TypeOK, RequestRow
  <2>2. CASE Goto(q, "insert", req[q].now)
    BY <2>1, <2>2, GotoRow DEF Stages, SameRequest, InLimit
  <2>3. CASE Passes(q)
    BY <2>1, <2>3, PassesRow DEF InLimit
  <2>4. CASE Done(q)
    BY <2>1, <2>4, DoneRow DEF SameRequest, InLimit
  <2> QED BY <2>1, <2>2, <2>3, <2>4
<1>3. CASE RateInsert(q)
  <2>1. req[q].pc = "insert" /\ (Passes(q) \/ Collided(q))
    BY <1>3 DEF RateInsert
  <2>2. CASE Passes(q)
    BY <2>1, <2>2, PassesRow DEF InLimit
  <2>3. CASE Collided(q)
    BY <2>1, <2>3, CollidedRow DEF InLimit
  <2> QED BY <2>1, <2>2, <2>3
<1>4. CASE Exchange(q) \/ Rotate(q) \/ Perform(q) \/ Replay(q) \/ Refuse(q)
  <2>1. Done(q) /\ req[q].pc \in {"exchange", "rotate", "act"}
    BY <1>4 DEF Exchange, Rotate, Perform, Replay, Refuse
  <2> QED BY <2>1, DoneRow DEF SameRequest, InLimit
<1> QED BY <1>1, <1>2, <1>3, <1>4, <1>5 DEF Handles

\* A code is exchanged for a new session.
Exchanged(c, d) ==
    /\ code[c].status = "fresh" /\ device[d].status = "absent"
    /\ code' = [code EXCEPT ![c] = [status |-> "consumed", until |-> code[c].until]]
    /\ device' = [device EXCEPT ![d] =
                    [status |-> "live", until |-> clock + SessionTTL, csrf |-> 0, code |-> c]]
    /\ clock' = clock /\ records' = records

LEMMA RowsStep ==
    ASSUME TypeOK, Staged, Next
    PROVE  /\ clock' = clock \/ clock' = clock + 1
           /\ (DevicesKept /\ CodesKept) \/ \E c \in Codes, d \in Devices : Exchanged(c, d)
           /\ records' = records \/ (Swept /\ CleanRecords \subseteq records')
<1> USE DEF commandVars, historyVars
<1>1. ASSUME NEW c \in Codes, CreatePairing(c)
      PROVE  clock' = clock /\ DevicesKept /\ CodesKept /\ records' = records
  <2>1. CodesKept
    <3>1. code' = [code EXCEPT ![c] = [status |-> "fresh", until |-> clock + CodeTTL]] /\ code[c].status = "absent"
      BY <1>1 DEF CreatePairing
    <3>2. code \in [Codes -> CodeRow] /\ [status |-> "fresh", until |-> clock + CodeTTL] \in CodeRow
      BY Constants DEF TypeOK, CodeRow
    <3> QED BY <3>1, <3>2 DEF CodesKept
  <2> QED BY <1>1, <2>1, SameDevices DEF CreatePairing
<1>2. CASE RevokeAll
  BY <1>2, RevokeAllDevices, SameCodes DEF RevokeAll
<1>3. CASE Tick \/ Elsewhere
  BY <1>3, SameDevices, SameCodes DEF Tick, Elsewhere
<1>4. ASSUME NEW q \in Requests, Sends(q) PROVE UNCHANGED <<clock, device, code, records>>
  BY <1>4, SentRow DEF Sends
<1>5. ASSUME Cleanup
      PROVE  DevicesKept /\ CodesKept /\ Swept /\ CleanRecords \subseteq records'
  BY <1>5, CleanDevices, CleanCodes DEF Cleanup
<1>6. ASSUME NEW q \in Requests, Authenticate(q)
      PROVE  clock' = clock /\ (Cleanup \/ UNCHANGED <<device, records, code>>)
  BY <1>6, AuthenticateRow DEF Authenticate
<1>7. ASSUME NEW q \in Requests, RateRead(q) \/ RateLimit(q) \/ RateInsert(q) \/ Refuse(q)
      PROVE UNCHANGED <<clock, device, code, records>>
  BY <1>7 DEF RateRead, RateLimit, RateInsert, Refuse
<1>8. ASSUME NEW q \in Requests, Exchange(q)
      PROVE \/ \E c \in Codes, d \in Devices : Exchanged(c, d)
            \/ UNCHANGED <<clock, device, code, records>>
  BY <1>8 DEF Exchange, Usable, Exchanged
<1>9. ASSUME NEW q \in Requests, Rotate(q)
      PROVE clock' = clock /\ DevicesKept /\ CodesKept /\ records' = records
  BY <1>9, RotateDevices, SameCodes DEF Rotate
<1>10. ASSUME NEW q \in Requests, Perform(q)
       PROVE  clock' = clock /\ DevicesKept /\ CodesKept /\ Swept /\ CleanRecords \subseteq records'
  <2>1. clock' = clock
    BY <1>10 DEF Perform
  <2> QED BY <1>10, <2>1, PerformRows
<1>11. ASSUME NEW q \in Requests, Replay(q) PROVE clock' = clock /\ Cleanup
  BY <1>11 DEF Replay
<1>12. ASSUME UNCHANGED <<clock, device, code, records>>
       PROVE  clock' = clock /\ DevicesKept /\ CodesKept /\ records' = records
  BY <1>12, SameDevices, SameCodes
<1>13. CASE Unasked
  <2>1. records' = records
    BY <1>13, UnaskedRow
  <2>2. clock' = clock \/ clock' = clock + 1
    BY <1>13 DEF Unasked, CreatePairing, RevokeAll, Tick, Elsewhere
  <2> QED BY <1>1, <1>2, <1>3, <1>13, <2>1, <2>2 DEF Unasked
<1>14. ASSUME NEW q \in Requests, Handles(q)
       PROVE  /\ clock' = clock
              /\ (DevicesKept /\ CodesKept) \/ \E c \in Codes, d \in Devices : Exchanged(c, d)
              /\ records' = records \/ (Swept /\ CleanRecords \subseteq records')
  <2>1. CASE Authenticate(q)
    BY <1>5, <1>6, <1>12, <2>1, Zenon
  <2>2. CASE RateRead(q) \/ RateLimit(q) \/ RateInsert(q) \/ Refuse(q)
    BY <1>7, <1>12, <2>2, Zenon
  <2>3. CASE Exchange(q)
    <3>1. clock' = clock /\ records' = records
      BY <2>3 DEF Exchange
    <3> QED BY <1>8, <1>12, <2>3, <3>1, Zenon
  <2>4. CASE Rotate(q)
    BY <1>9, <2>4, Zenon
  <2>5. CASE Perform(q)
    BY <1>10, <2>5, Zenon
  <2>6. CASE Replay(q)
    BY <1>5, <1>11, <2>6, Zenon
  <2> QED BY <1>14, <2>1, <2>2, <2>3, <2>4, <2>5, <2>6 DEF Handles
<1> QED BY <1>4, <1>12, <1>13, <1>14, NextKinds, Zenon

-----------------------------------------------------------------------------
(* Stages, sessions and codes *)

LEMMA StagedStep ==
    ASSUME TypeOK, Staged, Next
    PROVE  Staged'
<1>1. CASE Unasked
  BY <1>1, UnaskedRow DEF Staged
<1>2. ASSUME NEW q \in Requests, Sends(q) PROVE Staged'
  <2>1. /\ \A p \in Requests : p # q => req'[p] = req[p]
        /\ \/ req'[q].op = "exchange" /\ req'[q].pc = "rate"
           \/ /\ req'[q].op # "exchange" /\ req'[q].pc = "auth" /\ req'[q].device \in Devices
              /\ req'[q].op = "reserve_report" => req'[q].target <= MaxClock
    BY <1>2, SentRow DEF Sends
  <2> QED BY <2>1 DEF Staged
<1>3. ASSUME NEW q \in Requests, Handles(q) PROVE Staged'
  <2>1. /\ SameRequest(q) /\ req[q].pc \notin {"unsent", "done"}
        /\ req'[q].target = req[q].target \/ req'[q].target = 0
        /\ \A p \in Requests : p # q => req'[p] = req[p]
        /\ \/ req'[q].pc = "done"
           \/ req'[q].pc = "rotate" /\ req[q].op = "session"
           \/ req[q].pc = "auth" /\ req'[q].pc = "rate" /\ req[q].op # "session"
           \/ req[q].pc \in {"rate", "select", "insert"} /\ req'[q].pc \in {"rate", "select", "insert"}
           \/ req[q].pc \in {"rate", "select", "insert"} /\ req'[q].pc = "exchange" /\ req[q].op = "exchange"
           \/ req[q].pc \in {"rate", "select", "insert"} /\ req'[q].pc = "act" /\ req[q].op # "exchange"
    BY <1>3, HandlerRow
  <2>2. req[q].op \in Ops /\ MaxClock \in Nat
    BY Constants DEF TypeOK, RequestRow
  <2>3. req'[q].op = "reserve_report" => req'[q].target <= MaxClock
    <3>1. req[q].op = "reserve_report" => req[q].target <= MaxClock
      BY DEF Staged
    <3>2. 0 <= MaxClock
      BY <2>2
    <3> QED BY <2>1, <3>1, <3>2, Zenon DEF SameRequest
  <2>4. req'[q].pc = "act" => req'[q].op \in Commands
    BY <2>1, <2>2 DEF Staged, SameRequest, Ops
  <2> QED BY <2>1, <2>3, <2>4 DEF Staged, SameRequest
<1> QED BY <1>1, <1>2, <1>3, NextKinds

LEMMA PairedStep ==
    ASSUME TypeOK, Staged, SessionsFromCodes, PairedOnce, Next
    PROVE  SessionsFromCodes' /\ PairedOnce'
<1>0. clock \in Nat /\ clock' \in Nat /\ clock <= clock' /\ SessionTTL \in Nat
  BY RowsStep, Constants DEF TypeOK
<1>1. \A d \in Devices : device[d].until \in Nat /\ device[d].code \in Codes \cup {None}
  BY DEF TypeOK, DeviceRow
<1>2. CASE DevicesKept /\ CodesKept
  <2>1. \A d \in Devices : device'[d].until = device[d].until /\ device'[d].code = device[d].code
    BY <1>2 DEF DevicesKept, DeviceKept
  <2>2. \A d \in Devices : device'[d].until <= clock' + SessionTTL
    BY <1>0, <1>1, <2>1 DEF SessionsFromCodes
  <2>3. \A d \in Devices : device'[d].code # None => code'[device'[d].code].status \in {"consumed", "gone"}
    BY <1>1, <1>2, <2>1 DEF SessionsFromCodes, CodesKept
  <2> QED BY <2>1, <2>2, <2>3 DEF SessionsFromCodes, PairedOnce
<1>3. ASSUME NEW c \in Codes, NEW d \in Devices, Exchanged(c, d) PROVE SessionsFromCodes' /\ PairedOnce'
  <2>1. /\ device'[d].until = clock + SessionTTL /\ device'[d].code = c
        /\ \A e \in Devices : e # d => device'[e] = device[e]
        /\ code'[c].status = "consumed" /\ \A b \in Codes : b # c => code'[b] = code[b]
    BY <1>3 DEF Exchanged, TypeOK
  <2>2. \A e \in Devices : device[e].code # c
    <3>1. code[c].status = "fresh" /\ c # None
      BY <1>3, Constants DEF Exchanged
    <3> QED BY <3>1 DEF SessionsFromCodes
  <2>3. \A e \in Devices : device'[e].until <= clock' + SessionTTL
    BY <1>0, <1>1, <2>1 DEF SessionsFromCodes
  <2>4. \A e \in Devices : device'[e].code # None => code'[device'[e].code].status \in {"consumed", "gone"}
    BY <1>1, <2>1, <2>2 DEF SessionsFromCodes
  <2> QED BY <2>1, <2>2, <2>3, <2>4 DEF SessionsFromCodes, PairedOnce
<1> QED BY <1>2, <1>3, RowsStep

-----------------------------------------------------------------------------
(* Stale requests, and commands that are carried out once *)

\* A dead session stays dead.
LEMMA DeadStays ==
    ASSUME TypeOK, Staged, Next, NEW d \in Devices, device[d].status # "absent"
    PROVE  /\ device'[d].status # "absent" /\ device'[d].csrf >= device[d].csrf
           /\ device'[d].until = device[d].until
           /\ device[d].status = "gone" => device'[d].status = "gone"
           /\ Dead(d) => Dead(d)'
<1>0. clock \in Nat /\ clock' \in Nat /\ clock <= clock' /\ device[d].until \in Nat /\ device[d].csrf \in Nat
  BY RowsStep, Constants DEF TypeOK, DeviceRow
<1>1. DeviceKept(d) \/ device'[d] = device[d]
  BY RowsStep DEF DevicesKept, Exchanged, TypeOK
<1>2. CASE device'[d] = device[d]
  BY <1>0, <1>2 DEF Dead
<1>3. CASE DeviceKept(d)
  BY <1>0, <1>3 DEF DeviceKept, Dead
<1> QED BY <1>1, <1>2, <1>3

\* Who is carried out was at its last stage, and nothing else is added to applied.
LEMMA AppliedRow ==
    ASSUME TypeOK, Next
    PROVE  applied' = applied \/ \E q \in Requests : Perform(q) /\ applied' = applied \cup {q}
<1>1. CASE Unasked
  BY <1>1, UnaskedRow
<1>2. ASSUME NEW q \in Requests, Sends(q) PROVE applied' = applied
  BY <1>2, SentRow DEF Sends, historyVars
<1>3. ASSUME NEW q \in Requests, Handles(q)
      PROVE  applied' = applied \/ (Perform(q) /\ applied' = applied \cup {q})
  BY <1>3, Zenon DEF Handles, Authenticate, RateRead, RateLimit, RateInsert, Exchange, Rotate, Perform, Replay,
     Refuse, historyVars
<1> QED BY <1>1, <1>2, <1>3, NextKinds

LEMMA StaleStep ==
    ASSUME TypeOK, Staged, StaleCaught, AppliedRecorded, Next
    PROVE  StaleCaught'
<1> DEFINE Caught(q) ==
      /\ req[q].op \in Commands /\ req[q].pc # "unsent" /\ req[q].pc # "act"
      /\ req[q].pc = "auth" =>
            /\ device[req[q].device].status # "absent"
            /\ Dead(req[q].device) \/ req[q].csrf < device[req[q].device].csrf
      /\ req[q].pc \in {"rate", "select", "insert"} => req[q].csrf # req[q].seen
<1>0. \A q \in Requests : req[q].stale => q \notin applied /\ Caught(q)
  BY DEF StaleCaught
<1>t. TypeOK' /\ Staged'
  BY TypeStep, StagedStep
<1>1. \A q \in Requests : req[q].stale => q \notin applied'
  <2>1. \A q \in Requests : Perform(q) => req[q].pc = "act"
    BY DEF Perform
  <2> QED BY <1>0, <2>1, AppliedRow
<1>2. ASSUME NEW q \in Requests, req'[q] = req[q], req[q].stale PROVE Caught(q)'
  <2>1. CASE req[q].pc = "auth"
    <3>0. req[q].device \in Devices
      BY <1>0, <1>2, <2>1 DEF Staged, Commands
    <3> PICK d \in Devices : d = req[q].device
      BY <3>0
    <3>1. req[q].csrf \in Nat /\ device[d].csrf \in Nat
      BY DEF TypeOK, RequestRow, DeviceRow
    <3>2. req'[q].device = d /\ req'[q].csrf = req[q].csrf
      BY <1>2
    <3>3. device'[d].csrf \in Nat
      BY <3>1, <1>t DEF TypeOK, DeviceRow
    <3>4. device[d].status # "absent" /\ (Dead(d) \/ req[q].csrf < device[d].csrf)
      BY <1>0, <1>2, <2>1
    <3>5. device'[d].status # "absent" /\ device'[d].csrf >= device[d].csrf /\ (Dead(d) => Dead(d)')
      BY <3>1, <3>4, DeadStays
    <3>6. Dead(d)' \/ req[q].csrf < device'[d].csrf
      BY <3>1, <3>3, <3>4, <3>5
    <3>7. Dead(d)' => Dead(req[q].device)'
      BY <3>2 DEF Dead
    <3> QED BY <1>0, <1>2, <2>1, <3>2, <3>5, <3>6, <3>7
  <2>2. CASE req[q].pc # "auth"
    BY <1>0, <1>2, <2>2
  <2> QED BY <2>1, <2>2
<1>3. ASSUME \A q \in Requests : req'[q].stale => (req[q].stale \/ q \notin applied') /\ Caught(q)'
      PROVE  StaleCaught'
  BY <1>1, <1>3 DEF StaleCaught
<1> HIDE DEF Caught
<1>4. CASE Unasked
  <2>1. req' = req
    BY <1>4, UnaskedRow
  <2> QED BY <1>2, <1>3, <2>1
<1>5. ASSUME NEW q \in Requests, Sends(q) PROVE StaleCaught'
  <2>1. /\ req[q].pc = "unsent" /\ \A p \in Requests : p # q => req'[p] = req[p]
        /\ UNCHANGED <<clock, device, applied>>
        /\ \/ req'[q].stale = FALSE
           \/ /\ req'[q].pc = "auth"
              /\ req'[q].device \in Devices /\ device[req'[q].device].status # "absent"
              /\ req'[q].csrf <= device[req'[q].device].csrf
              /\ req'[q].stale => req'[q].op \in Commands /\
                    (CurrentDevices[req'[q].device].status # "live"
                       \/ device[req'[q].device].csrf # req'[q].csrf)
    BY <1>5, SentRow DEF Sends, historyVars
  <2>2. q \notin applied'
    BY <2>1 DEF AppliedRecorded
  <2>3. ASSUME req'[q].stale PROVE Caught(q)'
    <3> DEFINE d == req'[q].device
    <3>1. /\ d \in Devices /\ device[d].status # "absent" /\ req'[q].csrf <= device[d].csrf
          /\ req'[q].pc = "auth" /\ req'[q].op \in Commands
          /\ CurrentDevices[d].status # "live" \/ device[d].csrf # req'[q].csrf
      BY <2>1, <2>3, Zenon
    <3>2. req'[q].csrf \in Nat /\ device[d].csrf \in Nat /\ device[d].until \in Nat /\ clock \in Nat
          /\ device[d].status \in {"absent", "live", "revoked", "gone"}
      <4>1. req'[q] \in RequestRow
        BY <1>t DEF TypeOK
      <4>2. device[d] \in DeviceRow
        BY <1>t, <3>1 DEF TypeOK
      <4>3. clock \in Nat
        BY <1>t, Constants DEF TypeOK
      <4>4. req'[q].csrf \in Nat
        BY <4>1 DEF RequestRow
      <4>5. device[d].csrf \in Nat /\ device[d].until \in Nat
            /\ device[d].status \in {"absent", "live", "revoked", "gone"}
        <5> HIDE DEF d
        <5> QED BY <4>2 DEF DeviceRow
      <4> QED BY <4>3, <4>4, <4>5
    <3>3. CurrentDevices[d].status = IF device[d].status # "absent" /\ device[d].until <= clock THEN "gone"
                                     ELSE device[d].status
      BY <3>1, CurrentType
    <3>4. Dead(d) \/ req'[q].csrf < device[d].csrf
      BY <3>1, <3>2, <3>3 DEF Dead
    <3> QED BY <2>1, <3>1, <3>4 DEF Caught, Dead
  <2> QED BY <1>2, <1>3, <2>1, <2>2, <2>3
<1>6. ASSUME NEW q \in Requests, Handles(q) PROVE StaleCaught'
  <2>1. /\ SameRequest(q) /\ req[q].pc \notin {"unsent", "done"}
        /\ \A p \in Requests : p # q => req'[p] = req[p]
        /\ \/ req'[q].pc = "done"
           \/ req'[q].pc = "rotate" /\ req[q].op = "session"
           \/ /\ req[q].pc = "auth" /\ req'[q].pc = "rate" /\ req[q].op # "session"
              /\ req'[q].csrf = req[q].csrf /\ req'[q].seen = device[req[q].device].csrf
              /\ CurrentDevices[req[q].device].status = "live"
           \/ /\ req[q].pc \in {"rate", "select", "insert"} /\ req'[q].pc \in {"rate", "select", "insert"}
              /\ req'[q].csrf = req[q].csrf /\ req'[q].seen = req[q].seen
           \/ req[q].pc \in {"rate", "select", "insert"} /\ req'[q].pc = "exchange" /\ req[q].op = "exchange"
           \/ /\ req[q].pc \in {"rate", "select", "insert"} /\ req'[q].pc = "act"
              /\ req[q].op # "exchange" /\ req[q].csrf = req[q].seen
    BY <1>6, HandlerRow
  <2>2. ASSUME req'[q].stale PROVE Caught(q)'
    <3>1. req[q].stale /\ Caught(q)
      BY <1>0, <2>1, <2>2 DEF SameRequest
    <3>2. req[q].op \in Commands /\ req'[q].op = req[q].op /\ req[q].op # "exchange" /\ req[q].op # "session"
      BY <2>1, <3>1 DEF Caught, SameRequest, Commands
    <3>3. CASE req[q].pc = "auth" /\ req'[q].pc = "rate"
      <4> DEFINE d == req[q].device
      <4>1. d \in Devices
        BY <3>2, <3>3 DEF Staged
      <4>2. /\ CurrentDevices[d].status = "live"
            /\ req'[q].csrf = req[q].csrf /\ req'[q].seen = device[d].csrf
        BY <2>1, <3>3
      <4>3. ~Dead(d)
        BY <4>1, <4>2, CurrentType DEF Dead
      <4>4. req[q].csrf < device[d].csrf
        BY <3>1, <3>3, <4>3 DEF Caught
      <4>5. req[q].csrf \in Nat /\ device[d].csrf \in Nat
        BY <4>1 DEF TypeOK, RequestRow, DeviceRow
      <4> QED BY <3>2, <3>3, <4>2, <4>4, <4>5 DEF Caught
    <3>4. CASE req[q].pc \in {"rate", "select", "insert"}
      BY <2>1, <3>1, <3>2, <3>4 DEF Caught
    <3>5. CASE req'[q].pc = "done"
      BY <3>2, <3>5 DEF Caught
    <3> QED BY <2>1, <3>2, <3>3, <3>4, <3>5
  <2>3. \A p \in Requests : req'[p].stale = req[p].stale
    BY <2>1 DEF SameRequest
  <2> QED BY <1>2, <1>3, <2>1, <2>2, <2>3
<1> QED BY <1>4, <1>5, <1>6, NextKinds

\* A request that was answered is never looked at again.
LEMMA AnsweredStays ==
    ASSUME TypeOK, Staged, Next, NEW q \in Requests, req[q].pc = "done"
    PROVE  req'[q] = req[q]
<1>1. CASE Unasked
  BY <1>1, UnaskedRow
<1>2. ASSUME NEW p \in Requests, Sends(p) PROVE req'[q] = req[q]
  BY <1>2, SentRow DEF Sends
<1>3. ASSUME NEW p \in Requests, Handles(p) PROVE req'[q] = req[q]
  BY <1>3, HandlerRow
<1> QED BY <1>1, <1>2, <1>3, NextKinds

\* A record is removed only with its session.
LEMMA RecordedStays ==
    ASSUME TypeOK, Staged, AppliedRecorded, Next, NEW q \in applied
    PROVE  /\ req'[q] = req[q] /\ Recorded(q)'
<1>1. q \in Requests /\ req[q].pc = "done" /\ req[q].device \in Devices /\ Recorded(q)
  BY DEF AppliedRecorded, TypeOK
<1>2. req'[q] = req[q]
  BY <1>1, AnsweredStays
<1> PICK d \in Devices : d = req[q].device
  BY <1>1
<1>3. req'[q].device = d
  BY <1>2
<1>4. CASE device[d].status = "gone"
  <2>1. device'[d].status = "gone"
    BY <1>4, DeadStays
  <2> QED BY <1>2, <1>3, <2>1 DEF Recorded
<1>5. CASE \E r \in records : SameKey(r, q) /\ device[d].until <= r.until
  <2> PICK r \in records : SameKey(r, q) /\ device[d].until <= r.until
    BY <1>5
  <2>1. r.device = d /\ device[d].status # "absent"
    BY DEF SameKey, TypeOK
  <2>2. device'[d].until = device[d].until
    BY <2>1, DeadStays
  <2>3. CASE r \in records'
    <3>1. SameKey(r, q)'
      BY <1>2 DEF SameKey
    <3> QED BY <1>2, <1>3, <2>2, <2>3, <3>1 DEF Recorded
  <2>4. CASE r \notin records'
    <3>1. Swept /\ r \notin CleanRecords
      BY <2>4, RowsStep
    <3>2. CurrentDevices[d].status = "gone"
      BY <2>1, <3>1, CleanRecordsType
    <3>3. device'[d].status = "gone"
      BY <3>1, <3>2 DEF Swept
    <3> QED BY <1>2, <1>3, <3>3 DEF Recorded
  <2> QED BY <2>3, <2>4
<1> QED BY <1>1, <1>2, <1>4, <1>5 DEF Recorded

LEMMA AppliedStep ==
    ASSUME TypeOK, Staged, SessionsFromCodes, AppliedRecorded, AppliedOnce, Next
    PROVE  AppliedRecorded' /\ AppliedOnce'
<1>1. \A q \in applied : req'[q] = req[q] /\ Recorded(q)'
  BY RecordedStays
<1>2. CASE applied' = applied
  BY <1>1, <1>2 DEF AppliedRecorded, AppliedOnce
<1>3. ASSUME NEW q \in Requests, Perform(q), applied' = applied \cup {q}
      PROVE  AppliedRecorded' /\ AppliedOnce'
  <2>1. /\ DevicesKept /\ records' = CleanRecords \cup {RecordOf(q)}
        /\ req[q].device \in Devices /\ CurrentDevices[req[q].device].status \in {"live", "revoked"}
    BY <1>3, PerformRows
  <2>2. /\ req'[q].pc = "done" /\ req'[q].op = req[q].op /\ req'[q].device = req[q].device
        /\ req'[q].key = req[q].key
    BY <1>3, DoneRow DEF Perform
  <2> PICK d \in Devices : d = req[q].device
    BY <2>1
  <2>3. Recorded(q)'
    <3> DEFINE r == RecordOf(q)
    <3>0. r.device = req[q].device /\ r.op = req[q].op /\ r.key = req[q].key /\ r.until = clock + RecordTTL
      BY DEF RecordOf, RecordUntil
    <3>1. PICK rec \in records' :
             rec.device = req[q].device /\ rec.op = req[q].op /\ rec.key = req[q].key
               /\ rec.until = clock + RecordTTL
      BY <2>1, <3>0
    <3>2. SameKey(rec, q)'
      BY <2>2, <3>1 DEF SameKey
    <3>3. device'[d].until = device[d].until
      BY <2>1 DEF DevicesKept, DeviceKept
    <3>4. device[d].until <= clock + SessionTTL /\ device[d].until \in Nat /\ clock \in Nat
      BY Constants DEF SessionsFromCodes, TypeOK, DeviceRow
    <3>5. device'[d].until <= rec.until
      BY <3>1, <3>3, <3>4, Constants
    <3> QED BY <2>2, <3>2, <3>5 DEF Recorded
  <2>4. AppliedRecorded'
    BY <1>1, <1>3, <2>1, <2>2, <2>3 DEF AppliedRecorded
  <2>5. ASSUME NEW p \in applied,
               req[p].device = req[q].device, req[p].op = req[q].op, req[p].key = req[q].key
        PROVE  FALSE
    <3>1. Recorded(p)
      BY DEF AppliedRecorded
    <3>2. CASE device[d].status = "gone"
      BY <2>1, <3>2, CurrentType
    <3>3. CASE \E r \in records : SameKey(r, p) /\ device[d].until <= r.until
      <4> PICK r \in records : SameKey(r, p) /\ device[d].until <= r.until
        BY <3>3
      <4>1. SameKey(r, q) /\ r.device = d
        BY <2>5 DEF SameKey
      <4>2. r \notin CleanRecords
        BY <1>3, <4>1 DEF Perform
      <4>3. CurrentDevices[d].status = "gone"
        BY <4>1, <4>2, CleanRecordsType
      <4> QED BY <2>1, <4>3
    <3> QED BY <2>5, <3>1, <3>2, <3>3 DEF Recorded
  <2>6. AppliedOnce'
    <3>1. \A p \in applied : req'[p] = req[p]
      BY <1>1
    <3> QED BY <1>3, <2>2, <2>5, <3>1 DEF AppliedOnce
  <2> QED BY <2>4, <2>6
<1> QED BY <1>2, <1>3, AppliedRow

-----------------------------------------------------------------------------
(* The rate limit *)

LEMMA SubsetCard ==
    ASSUME NEW S \in SUBSET Requests
    PROVE  IsFiniteSet(S) /\ Cardinality(S) \in Nat
<1>1. IsFiniteSet(Requests)
  BY ControlPlaneAssumption
<1>2. IsFiniteSet(S)
  BY <1>1, FS_Subset
<1> QED BY <1>2, FS_CardinalityType

LEMMA SmallerCard ==
    ASSUME NEW S \in SUBSET Requests, NEW T \in SUBSET S, NEW n \in Nat, Cardinality(S) <= n
    PROVE  Cardinality(T) <= n
<1>1. IsFiniteSet(S) /\ Cardinality(S) \in Nat /\ Cardinality(T) \in Nat
  BY SubsetCard
<1>2. Cardinality(T) <= Cardinality(S)
  BY <1>1, FS_Subset
<1> QED BY <1>1, <1>2

\* One element more.
LEMMA OneMore ==
    ASSUME NEW S \in SUBSET Requests, NEW x \in Requests, NEW T \in SUBSET (S \cup {x}), NEW n \in Nat,
           Cardinality(S) <= n
    PROVE  Cardinality(T) <= n + 1
<1>1. IsFiniteSet(S) /\ Cardinality(S) \in Nat /\ S \cup {x} \in SUBSET Requests
  BY SubsetCard
<1>2. \/ Cardinality(S \cup {x}) = Cardinality(S)
      \/ Cardinality(S \cup {x}) = Cardinality(S) + 1
  BY <1>1, FS_AddElement, Zenon
<1>3. Cardinality(S \cup {x}) <= n + 1 /\ n + 1 \in Nat
  BY <1>1, <1>2
<1> QED BY <1>1, <1>3, SmallerCard

\* A set in two parts is no larger than both.
LEMMA TwoParts ==
    ASSUME NEW S \in SUBSET Requests, NEW T \in SUBSET Requests, NEW U \in SUBSET (S \cup T)
    PROVE  Cardinality(U) \in Nat /\ Cardinality(U) <= Cardinality(S) + Cardinality(T)
<1>1. /\ IsFiniteSet(S) /\ Cardinality(S) \in Nat /\ IsFiniteSet(T) /\ Cardinality(T) \in Nat
      /\ Cardinality(S \cap T) \in Nat
  BY SubsetCard
<1>2. IsFiniteSet(S \cup T) /\ Cardinality(S \cup T) = Cardinality(S) + Cardinality(T) - Cardinality(S \cap T)
  BY <1>1, FS_Union
<1>3. Cardinality(U) <= Cardinality(S \cup T) /\ Cardinality(U) \in Nat
  BY <1>2, FS_Subset, SubsetCard
<1> QED BY <1>1, <1>2, <1>3

\* A request passes the limit of its scope.
Passing(q) ==
    LET row == rate[ScopeOf(q)]
    IN  /\ passed[q] = Never /\ passed' = [passed EXCEPT ![q] = clock]
        /\ ScopeOf(q) \in Scopes /\ clock' = clock
        /\ \/ /\ row.count = 0 \/ (row.count > 0 /\ WindowOver(row, req[q].now))
              /\ rate' = [rate EXCEPT ![ScopeOf(q)] = [count |-> 1, start |-> req[q].now]]
           \/ /\ row.count > 0 /\ ~WindowOver(row, req[q].now) /\ row.count < Limit
              /\ rate' = [rate EXCEPT ![ScopeOf(q)] = [count |-> row.count + 1, start |-> row.start]]

\* Nobody passes; rows whose window is over may go.
NobodyPasses ==
    /\ passed' = passed
    /\ clock' = clock \/ (clock' = clock + 1 /\ rate' = rate)
    /\ \A s \in Scopes : rate'[s] = rate[s] \/
          (rate'[s] = NoWindow /\ rate[s].count > 0 /\ rate[s].start + Window <= clock)

LEMMA PassKinds ==
    ASSUME TypeOK, Staged, PassedOnce, Next
    PROVE  /\ \A q \in Requests : req[q].pc # "unsent" => ScopeOf(q)' = ScopeOf(q)
           /\ NobodyPasses \/ \E q \in Requests : req[q].pc \in InLimit /\ Passing(q)
<1> USE DEF historyVars
<1>1. CASE Unasked
  <2>1. UNCHANGED <<req, rate, passed>>
    BY <1>1, UnaskedRow
  <2>2. clock' = clock \/ clock' = clock + 1
    BY RowsStep
  <2> QED BY <2>1, <2>2 DEF ScopeOf, NobodyPasses
<1>2. ASSUME NEW q \in Requests, Sends(q)
      PROVE  /\ \A p \in Requests : req[p].pc # "unsent" => ScopeOf(p)' = ScopeOf(p)
             /\ NobodyPasses
  <2>1. /\ UNCHANGED <<clock, rate, passed>> /\ req[q].pc = "unsent"
        /\ \A p \in Requests : p # q => req'[p] = req[p]
    BY <1>2, SentRow DEF Sends
  <2> QED BY <2>1 DEF ScopeOf, NobodyPasses
<1>3. ASSUME NEW q \in Requests, Handles(q)
      PROVE  \A p \in Requests : req[p].pc # "unsent" => ScopeOf(p)' = ScopeOf(p)
  <2>1. SameRequest(q) /\ \A p \in Requests : p # q => req'[p] = req[p]
    BY <1>3, HandlerRow
  <2> QED BY <2>1 DEF ScopeOf, SameRequest
<1>4. ASSUME NEW q \in Requests, RateLimit(q) PROVE NobodyPasses \/ (req[q].pc \in InLimit /\ Passing(q))
  <2>1. req[q].pc = "select" /\ clock' = clock
    BY <1>4 DEF RateLimit
  <2>2. passed[q] = Never /\ ScopeOf(q) \in Scopes
    BY <2>1, ScopeType DEF PassedOnce
  <2>3. CASE UNCHANGED <<rate, passed>>
    BY <2>1, <2>3 DEF NobodyPasses
  <2>4. CASE LET row == rate[ScopeOf(q)]
             IN  /\ row.count > 0 /\ (WindowOver(row, req[q].now) \/ row.count < Limit)
                 /\ rate' = [rate EXCEPT ![ScopeOf(q)] = Counted(row, req[q].now)]
                 /\ Passes(q)
    <3>1. passed' = [passed EXCEPT ![q] = clock]
      BY <2>4 DEF Passes
    <3>2. CASE WindowOver(rate[ScopeOf(q)], req[q].now)
      BY <2>1, <2>2, <2>4, <3>1, <3>2 DEF Passing, Counted, InLimit
    <3>3. CASE ~WindowOver(rate[ScopeOf(q)], req[q].now)
      BY <2>1, <2>2, <2>4, <3>1, <3>3 DEF Passing, Counted, InLimit
    <3> QED BY <3>2, <3>3
  <2> QED BY <1>4, <2>3, <2>4 DEF RateLimit
<1>5. ASSUME NEW q \in Requests, RateInsert(q) PROVE NobodyPasses \/ (req[q].pc \in InLimit /\ Passing(q))
  <2>1. req[q].pc = "insert" /\ clock' = clock
    BY <1>5 DEF RateInsert
  <2>2. passed[q] = Never /\ ScopeOf(q) \in Scopes
    BY <2>1, ScopeType DEF PassedOnce
  <2>3. CASE Collided(q) /\ UNCHANGED rate
    BY <2>1, <2>3 DEF NobodyPasses, Collided
  <2>4. CASE /\ rate[ScopeOf(q)].count = 0
             /\ rate' = [rate EXCEPT ![ScopeOf(q)] = [count |-> 1, start |-> req[q].now]]
             /\ Passes(q)
    BY <2>1, <2>2, <2>4 DEF Passing, Passes, InLimit
  <2> QED BY <1>5, <2>3, <2>4 DEF RateInsert
<1>6. ASSUME CleanupOthers, clock' = clock, passed' = passed PROVE NobodyPasses
  BY <1>6, CleanupOthersType DEF NobodyPasses
<1>7. ASSUME UNCHANGED <<rate, clock, passed>> PROVE NobodyPasses
  BY <1>7 DEF NobodyPasses
<1>8. ASSUME NEW q \in Requests, Authenticate(q) PROVE NobodyPasses
  <2>1. clock' = clock /\ passed' = passed /\ (Cleanup \/ rate' = rate)
    BY <1>8, AuthenticateRow DEF Authenticate
  <2> QED BY <1>6, <1>7, <2>1 DEF Cleanup
<1>11. ASSUME NEW q \in Requests, RateRead(q) PROVE NobodyPasses
  BY <1>7, <1>11 DEF RateRead
<1>9. ASSUME NEW q \in Requests, Exchange(q) \/ Rotate(q) \/ Perform(q) \/ Replay(q) \/ Refuse(q)
      PROVE NobodyPasses
  <2>1. clock' = clock /\ passed' = passed /\ (CleanupOthers \/ rate' = rate)
    BY <1>9 DEF Exchange, Rotate, Perform, Replay, Refuse, Cleanup
  <2> QED BY <1>6, <1>7, <2>1
<1>10. ASSUME NEW q \in Requests, Handles(q)
       PROVE  NobodyPasses \/ (req[q].pc \in InLimit /\ Passing(q))
  BY <1>4, <1>5, <1>8, <1>9, <1>10, <1>11 DEF Handles
<1> QED BY <1>1, <1>2, <1>3, <1>10, NextKinds, Zenon

\* Time does not pass a rate-limit transaction by.
LEMMA TimelyStep ==
    ASSUME TypeOK, Staged, Timely, Next
    PROVE  Timely'
<1>0. clock \in Nat /\ Delay \in Nat /\ \A q \in Requests : req[q].now \in Nat
  BY Constants DEF TypeOK, RequestRow
<1>1. CASE Tick
  BY <1>0, <1>1 DEF Tick, Timely
<1>2. CASE Unasked /\ ~Tick
  <2>1. clock' = clock /\ req' = req
    BY <1>2, UnaskedRow DEF Unasked, CreatePairing, RevokeAll, Elsewhere
  <2> QED BY <2>1 DEF Timely
<1>3. ASSUME NEW q \in Requests, Sends(q) PROVE Timely'
  <2>1. /\ clock' = clock /\ req'[q].pc \notin InLimit
        /\ \A p \in Requests : p # q => req'[p] = req[p]
    BY <1>3, SentRow DEF Sends, InLimit
  <2> QED BY <2>1 DEF Timely
<1>4. ASSUME NEW q \in Requests, Handles(q) PROVE Timely'
  <2>1. /\ req'[q].pc \in InLimit =>
             req'[q].now = clock \/ (req[q].pc \in InLimit /\ req'[q].now = req[q].now)
        /\ \A p \in Requests : p # q => req'[p] = req[p]
    BY <1>4, HandlerRow
  <2>2. clock' = clock
    BY <1>4 DEF Handles, Authenticate, RateRead, RateLimit, RateInsert, Exchange, Rotate, Perform, Replay,
       Refuse
  <2> QED BY <1>0, <2>1, <2>2 DEF Timely
<1> QED BY <1>1, <1>2, <1>3, <1>4, NextKinds

LEMMA PassedOnceStep ==
    ASSUME TypeOK, Staged, PassedOnce, Next
    PROVE  PassedOnce'
<1>0. clock \in Nat /\ clock' \in Nat /\ clock <= clock' /\ \A q \in Requests : passed[q] \in Nat
  BY RowsStep, Constants DEF TypeOK
<1> DEFINE Early(q) == req[q].pc \in {"unsent", "auth", "rate", "select", "insert"}
<1>1. \A q \in Requests : Early(q)' => Early(q)
  <2>1. CASE Unasked
    BY <2>1, UnaskedRow
  <2>2. ASSUME NEW p \in Requests, Sends(p) PROVE \A q \in Requests : Early(q)' => Early(q)
    BY <2>2, SentRow DEF Sends
  <2>3. ASSUME NEW p \in Requests, Handles(p) PROVE \A q \in Requests : Early(q)' => Early(q)
    BY <2>3, HandlerRow
  <2> QED BY <2>1, <2>2, <2>3, NextKinds
<1>2. CASE passed' = passed
  BY <1>0, <1>1, <1>2 DEF PassedOnce
<1>3. ASSUME NEW q \in Requests, Passing(q), ~Early(q)' PROVE PassedOnce'
  BY <1>0, <1>1, <1>3 DEF PassedOnce, Passing, TypeOK
<1>4. passed' = passed \/ \E q \in Requests : Passing(q) /\ ~Early(q)'
  <2>1. CASE Unasked \/ \E q \in Requests : Sends(q)
    BY <2>1, UnaskedRow, SentRow DEF Sends, historyVars
  <2>2. ASSUME NEW q \in Requests, Handles(q), passed' # passed PROVE ~Early(q)' /\ Passes(q)
    <3>1. Passes(q)
      BY <2>2, Zenon DEF Handles, Authenticate, RateRead, RateLimit, RateInsert, Collided, Exchange, Rotate,
         Perform, Replay, Refuse, historyVars
    <3> QED BY <3>1, PassesRow
  <2>3. ASSUME NEW q \in Requests, Handles(q), passed' # passed PROVE Passing(q)
    <3>1. PICK p \in Requests : Passing(p)
      BY <2>3, PassKinds DEF NobodyPasses
    <3>2. Passes(q)
      BY <2>2, <2>3
    <3>3. passed' = [passed EXCEPT ![p] = clock] /\ passed' = [passed EXCEPT ![q] = clock] /\ passed[p] = Never
      BY <3>1, <3>2 DEF Passing, Passes
    <3>4. clock # Never
      BY Constants DEF TypeOK
    <3>5. p = q
      BY <3>3, <3>4 DEF TypeOK
    <3> QED BY <3>1, <3>5
  <2> QED BY <2>1, <2>2, <2>3, NextKinds
<1> QED BY <1>2, <1>3, <1>4

LEMMA PasserSets ==
    ASSUME NEW s
    PROVE  /\ Passers(s) \in SUBSET Requests
           /\ \A t : Since(s, t) \in SUBSET Passers(s) /\ Between(s, t) \in SUBSET Since(s, t)
BY DEF Since, Between, Passers

\* Who has passed stays in the sets.
LEMMA SamePassers ==
    ASSUME TypeOK, Staged, PassedOnce, Next, passed' = passed, NEW s
    PROVE  /\ Passers(s)' = Passers(s)
           /\ \A t : Since(s, t)' = Since(s, t) /\ Between(s, t)' = Between(s, t)
<1>1. \A q \in Requests : passed[q] # Never => ScopeOf(q)' = ScopeOf(q)
  BY PassKinds DEF PassedOnce
<1>2. Passers(s)' = Passers(s)
  BY <1>1 DEF Passers, Never
<1> QED BY <1>2 DEF Since, Between

\* The passing request is added to the passers of its scope.
LEMMA NewPasser ==
    ASSUME TypeOK, Staged, PassedOnce, Next, NEW q \in Requests, req[q].pc # "unsent", Passing(q), NEW s
    PROVE  /\ q \notin Passers(s)
           /\ Passers(s)' = IF s = ScopeOf(q) THEN Passers(s) \cup {q} ELSE Passers(s)
           /\ \A p \in Passers(s) : passed'[p] = passed[p]
           /\ passed'[q] = clock
<1>0. clock \in Nat /\ passed \in [Requests -> Nat] /\ clock # Never
  BY Constants DEF TypeOK
<1>1. \A p \in Requests : passed[p] # Never => ScopeOf(p)' = ScopeOf(p)
  BY PassKinds DEF PassedOnce
<1>2. ScopeOf(q)' = ScopeOf(q)
  BY PassKinds
<1>3. /\ passed[q] = Never /\ passed'[q] = clock
      /\ \A p \in Requests : p # q => passed'[p] = passed[p]
  BY <1>0 DEF Passing
<1>4. \A p \in Requests :
         p \in Passers(s)' <=> p \in Passers(s) \/ (p = q /\ s = ScopeOf(q))
  BY <1>0, <1>1, <1>2, <1>3 DEF Passers, Never
<1>5. q \notin Passers(s) /\ Passers(s) \subseteq Requests /\ Passers(s)' \subseteq Requests
  BY <1>3 DEF Passers
<1> HIDE DEF Passers
<1>6. \A p \in Passers(s) : passed'[p] = passed[p]
  BY <1>3, <1>5
<1>7. Passers(s)' = IF s = ScopeOf(q) THEN Passers(s) \cup {q} ELSE Passers(s)
  BY <1>4, <1>5
<1> QED BY <1>3, <1>5, <1>6, <1>7

\* The sets of the other scopes stay as they are.
LEMMA OtherPassers ==
    ASSUME TypeOK, Staged, PassedOnce, Next, NEW q \in Requests, req[q].pc # "unsent", Passing(q), NEW s,
           s # ScopeOf(q)
    PROVE  \A t : Since(s, t)' = Since(s, t) /\ Between(s, t)' = Between(s, t)
<1>1. Passers(s)' = Passers(s) /\ \A p \in Passers(s) : passed'[p] = passed[p]
  BY NewPasser
<1> QED BY <1>1 DEF Since, Between

\* It is added to the sets that the present time is in.
LEMMA RecentPassers ==
    ASSUME TypeOK, Staged, PassedOnce, Next, NEW q \in Requests, req[q].pc # "unsent", Passing(q), NEW s,
           s = ScopeOf(q), NEW t \in Nat
    PROVE  /\ Since(s, t)' \in SUBSET (Since(s, t) \cup {q})
           /\ t > clock => Since(s, t)' = Since(s, t)
           /\ clock + Delay >= t + Window => Between(s, t)' = Between(s, t)
<1>0. clock \in Nat /\ Delay \in Nat /\ Window \in Nat
  BY Constants DEF TypeOK
<1>1. /\ Passers(s)' = Passers(s) \cup {q} /\ q \notin Passers(s)
      /\ \A p \in Passers(s) : passed'[p] = passed[p]
      /\ passed'[q] = clock
  BY NewPasser
<1> HIDE DEF Passers
<1>2. Since(s, t)' \in SUBSET (Since(s, t) \cup {q})
  BY <1>1 DEF Since
<1>3. ASSUME t > clock PROVE Since(s, t)' = Since(s, t)
  <2>1. ~(clock >= t)
    BY <1>0, <1>3
  <2> QED BY <1>1, <2>1 DEF Since
<1>4. ASSUME clock + Delay >= t + Window PROVE Between(s, t)' = Between(s, t)
  <2>1. ~(clock + Delay < t + Window)
    BY <1>0, <1>4
  <2> QED BY <1>1, <2>1 DEF Between
<1> QED BY <1>2, <1>3, <1>4

\* A window that is over is closed: its first request passed at least its length,
\* less the delay, ago.
LEMMA OverClosed ==
    ASSUME TypeOK, NEW s \in Scopes, WindowOpen(s), rate[s].start + Window <= clock
    PROVE  WindowClosed(s)
<1>0. /\ clock \in Nat /\ passed \in [Requests -> Nat] /\ rate[s].start \in Nat
      /\ rate[s].count \in Nat /\ rate[s].count <= Limit /\ Window \in Nat /\ Limit \in Nat /\ Delay \in Nat
  BY Constants DEF TypeOK, RateRow
<1>1. PICK c \in Nat, old \in SUBSET Passers(s) : OpenedAt(s, c, old)
  BY DEF WindowOpen
<1>2. ASSUME NEW t \in Nat, t + Window > clock + Delay PROVE Cardinality(Since(s, t)) < Limit
  <2>1. t > c
    BY <1>0, <1>1, <1>2 DEF OpenedAt
  <2>2. Since(s, t) \ old = Since(s, t)
    <3>1. \A q \in old : q \in Requests /\ passed[q] <= c
      BY <1>1, PasserSets DEF OpenedAt
    <3> QED BY <1>0, <2>1, <3>1 DEF Since
  <2>3. Cardinality(Since(s, t)) < rate[s].count
    BY <1>1, <2>1, <2>2 DEF OpenedAt
  <2>4. Cardinality(Since(s, t)) \in Nat
    BY PasserSets, SubsetCard
  <2> QED BY <1>0, <2>3, <2>4
<1> QED BY <1>2 DEF WindowClosed

\* Time only goes on.
LEMMA Later ==
    ASSUME NEW c \in Nat, NEW d \in Nat, NEW e \in Nat, c <= d
    PROVE  /\ \A x \in Nat : x > d + e => x > c + e
           /\ e <= c => e <= d
OBVIOUS

\* A row that nobody passes counts on.
LEMMA SameCounts ==
    ASSUME TypeOK, Counts, clock' \in Nat, clock <= clock', NEW s \in Scopes, rate'[s] = rate[s],
           Passers(s)' = Passers(s), \A t \in Nat : Since(s, t)' = Since(s, t),
           \A q \in Passers(s) : passed'[q] = passed[q]
    PROVE  IF rate'[s].count = 0 THEN WindowClosed(s)' ELSE WindowOpen(s)'
<1>0. clock \in Nat /\ Window \in Nat /\ Delay \in Nat
  BY Constants DEF TypeOK
<1>1. CASE rate[s].count = 0
  <2>1. WindowClosed(s)
    BY <1>1 DEF Counts
  <2> PICK c, d \in Nat : c = clock /\ d = clock'
    BY <1>0
  <2>2. ASSUME NEW t \in Nat, t + Window > d + Delay PROVE Cardinality(Since(s, t)') < Limit
    <3>1. c <= d /\ t + Window \in Nat
      BY <1>0
    <3>2. t + Window > c + Delay
      BY <1>0, <2>2, <3>1, Later
    <3> QED BY <2>1, <3>2 DEF WindowClosed
  <2> QED BY <1>1, <2>2 DEF WindowClosed
<1>2. CASE rate[s].count # 0
  <2>1. PICK c \in Nat, old \in SUBSET Passers(s) : OpenedAt(s, c, old)
    BY <1>2 DEF Counts, WindowOpen
  <2>2. c <= clock'
    BY <1>0, <2>1, Later DEF OpenedAt
  <2>3. rate'[s].start = rate[s].start /\ rate'[s].count = rate[s].count
    OBVIOUS
  <2>4. \A q \in old : passed'[q] <= c
    BY <2>1 DEF OpenedAt
  <2>5. Cardinality(Passers(s)' \ old) <= rate'[s].count
    BY <2>1, <2>3 DEF OpenedAt
  <2>6. \A t \in Nat : t > c => Cardinality(Since(s, t)' \ old) < rate'[s].count
    BY <2>1, <2>3 DEF OpenedAt
  <2>7. \A t \in Nat : t + Window > c + Delay => Cardinality(Since(s, t)' \cap old) < Limit
    BY <2>1 DEF OpenedAt
  <2>8. OpenedAt(s, c, old)'
    BY <2>1, <2>2, <2>3, <2>4, <2>5, <2>6, <2>7 DEF OpenedAt
  <2>9. WindowOpen(s)'
    BY <2>8 DEF WindowOpen
  <2> QED BY <1>2, <2>9
<1> QED BY <1>1, <1>2

\* The cleanup removes rows whose window is over.
LEMMA QuietCounts ==
    ASSUME TypeOK, Staged, PassedOnce, Counts, Next, NobodyPasses
    PROVE  Counts'
<1> SUFFICES ASSUME NEW s \in Scopes
             PROVE  IF rate'[s].count = 0 THEN WindowClosed(s)' ELSE WindowOpen(s)'
  BY DEF Counts, Scopes
<1>0. clock \in Nat /\ clock' \in Nat /\ clock <= clock' /\ passed' = passed
  BY RowsStep, Constants DEF TypeOK, NobodyPasses
<1>1. Passers(s)' = Passers(s) /\ \A t : Since(s, t)' = Since(s, t)
  BY <1>0, SamePassers
<1>2. CASE rate'[s] = rate[s]
  BY <1>0, <1>1, <1>2, SameCounts
<1>3. CASE rate'[s] = NoWindow /\ rate[s].count > 0 /\ rate[s].start + Window <= clock
  <2>0. rate[s].count \in Nat /\ Window \in Nat /\ Delay \in Nat
    BY Constants DEF TypeOK, RateRow
  <2>1. WindowOpen(s)
    BY <1>3, <2>0 DEF Counts
  <2>2. WindowClosed(s)
    BY <1>3, <2>1, OverClosed
  <2>3. ASSUME NEW t \in Nat, t + Window > clock' + Delay PROVE Cardinality(Since(s, t)') < Limit
    <3>1. t + Window > clock + Delay
      BY <1>0, <2>0, <2>3
    <3> QED BY <1>1, <2>2, <3>1 DEF WindowClosed
  <2>4. rate'[s].count = 0
    BY <1>3 DEF NoWindow
  <2> QED BY <2>3, <2>4 DEF WindowClosed
<1> QED BY <1>2, <1>3 DEF NobodyPasses

\* A request that passes is counted in a new window, or in the open one.
LEMMA PassingCounts ==
    ASSUME TypeOK, Staged, Timely, PassedOnce, Counts, Next,
           NEW q \in Requests, req[q].pc \in InLimit, Passing(q)
    PROVE  Counts'
<1> SUFFICES ASSUME NEW s \in Scopes
             PROVE  IF rate'[s].count = 0 THEN WindowClosed(s)' ELSE WindowOpen(s)'
  BY DEF Counts, Scopes
<1>0. /\ clock \in Nat /\ clock' = clock /\ Window \in Nat /\ Window > 0 /\ Limit \in Nat /\ Limit > 0
      /\ Delay \in Nat /\ rate \in [Scopes -> RateRow] /\ \A p \in Requests : passed[p] \in Nat
      /\ req[q].pc # "unsent"
  BY Constants DEF TypeOK, Passing, InLimit
<1>n. req[q].now \in Nat /\ req[q].now <= clock /\ clock <= req[q].now + Delay
  BY DEF Timely, TypeOK, RequestRow
<1>p. /\ q \notin Passers(s)
      /\ \A p \in Passers(s) : passed'[p] = passed[p]
      /\ passed'[q] = clock
  BY <1>0, NewPasser
<1>2. CASE s # ScopeOf(q)
  <2>1. rate'[s] = rate[s]
    BY <1>0, <1>2 DEF Passing
  <2>2. Passers(s)' = Passers(s) /\ \A t \in Nat : Since(s, t)' = Since(s, t)
    BY <1>0, <1>2, NewPasser, OtherPassers
  <2> QED BY <1>0, <1>p, <2>1, <2>2, SameCounts
<1>s. ASSUME s = ScopeOf(q)
      PROVE  /\ Passers(s)' = Passers(s) \cup {q}
             /\ \A t \in Nat : /\ Since(s, t)' \in SUBSET (Since(s, t) \cup {q})
                               /\ t > clock => Since(s, t)' = Since(s, t)
  <2>1. Passers(s)' = Passers(s) \cup {q}
    BY <1>0, <1>s, NewPasser
  <2> QED BY <1>0, <1>s, <2>1, RecentPassers
<1>3. CASE s = ScopeOf(q) /\ (rate[s].count = 0 \/ (rate[s].count > 0 /\ WindowOver(rate[s], req[q].now)))
  <2>1. rate'[s].count = 1 /\ rate'[s].start = req[q].now
    BY <1>0, <1>3 DEF Passing
  <2>2. WindowClosed(s)
    <3>1. CASE rate[s].count = 0
      BY <3>1 DEF Counts
    <3>2. CASE rate[s].count > 0 /\ WindowOver(rate[s], req[q].now)
      <4>1. rate[s].start \in Nat /\ rate[s].count \in Nat
        BY <1>0 DEF RateRow
      <4>2. WindowOpen(s) /\ rate[s].start + Window <= clock
        BY <1>0, <1>n, <3>2, <4>1 DEF Counts, WindowOver
      <4> QED BY <4>2, OverClosed
    <3> QED BY <1>3, <3>1, <3>2
  <2> PICK old : old = Passers(s)
    OBVIOUS
  <2>3. old \in SUBSET Requests /\ q \notin old /\ Passers(s)' = old \cup {q}
    BY <1>3, <1>p, <1>s, PasserSets
  <2>4. \A p \in old : passed'[p] <= clock
    BY <1>0, <1>p, <2>3 DEF PassedOnce, Passers
  <2>5. Cardinality(Passers(s)' \ old) <= 1
    <3>1. Passers(s)' \ old = {q}
      BY <2>3
    <3> QED BY <3>1, FS_Singleton
  <2>6. ASSUME NEW t \in Nat, t > clock PROVE Cardinality(Since(s, t)' \ old) < 1
    <3>1. Since(s, t)' \ old = {}
      BY <1>3, <1>s, <2>6, PasserSets
    <3> QED BY <3>1, FS_EmptySet
  <2>7. ASSUME NEW t \in Nat, t + Window > clock + Delay PROVE Cardinality(Since(s, t)' \cap old) < Limit
    <3>1. Since(s, t)' \cap old \in SUBSET Since(s, t)
      BY <1>3, <1>s, <2>3
    <3>2. Cardinality(Since(s, t)) < Limit /\ Since(s, t) \in SUBSET Requests
      BY <2>2, <2>7, PasserSets DEF WindowClosed
    <3>3. Cardinality(Since(s, t)) \in Nat /\ Cardinality(Since(s, t)' \cap old) \in Nat
      BY <3>1, <3>2, SubsetCard
    <3>4. Cardinality(Since(s, t)' \cap old) <= Cardinality(Since(s, t))
      BY <3>1, <3>2, <3>3, SmallerCard
    <3> QED BY <1>0, <3>2, <3>3, <3>4
  <2>8. OpenedAt(s, clock, old)'
    <3>1. clock <= req[q].now + Delay /\ clock <= clock
      BY <1>0, <1>n
    <3> QED BY <1>0, <2>1, <2>4, <2>5, <2>6, <2>7, <3>1 DEF OpenedAt
  <2>9. WindowOpen(s)'
    BY <1>0, <2>3, <2>8 DEF WindowOpen
  <2> QED BY <2>1, <2>9
<1>4. CASE s = ScopeOf(q) /\ rate[s].count > 0 /\ ~WindowOver(rate[s], req[q].now)
  <2>1. /\ rate'[s].count = rate[s].count + 1 /\ rate'[s].start = rate[s].start
        /\ rate[s].count \in Nat
    BY <1>0, <1>4 DEF Passing, RateRow
  <2>2. PICK c \in Nat, old \in SUBSET Passers(s) : OpenedAt(s, c, old)
    BY <1>4, <2>1 DEF Counts, WindowOpen
  <2>3. Passers(s)' = Passers(s) \cup {q} /\ q \notin Passers(s) /\ Passers(s) \in SUBSET Requests
    BY <1>4, <1>p, <1>s, PasserSets
  <2>4. \A p \in old : passed'[p] <= c
    BY <1>p, <2>2 DEF OpenedAt
  <2>5. Cardinality(Passers(s)' \ old) <= rate[s].count + 1
    <3> PICK S : S = Passers(s) \ old
      OBVIOUS
    <3>1. S \in SUBSET Requests /\ Passers(s)' \ old \in SUBSET (S \cup {q}) /\ Cardinality(S) <= rate[s].count
      BY <2>2, <2>3 DEF OpenedAt
    <3> QED BY <2>1, <3>1, OneMore
  <2>6. ASSUME NEW t \in Nat, t > c PROVE Cardinality(Since(s, t)' \ old) < rate[s].count + 1
    <3> PICK S : S = Since(s, t) \ old
      OBVIOUS
    <3>1. S \in SUBSET Requests /\ Since(s, t)' \ old \in SUBSET (S \cup {q}) /\ Cardinality(S) < rate[s].count
      BY <1>4, <1>s, <2>2, <2>3, <2>6, PasserSets DEF OpenedAt
    <3>2. PICK n \in Nat : rate[s].count = n + 1
      <4>1. rate[s].count - 1 \in Nat
        BY <1>4, <2>1
      <4> QED BY <2>1, <4>1
    <3>3. Cardinality(S) <= n
      BY <3>1, <3>2, SubsetCard
    <3>4. Cardinality(Since(s, t)' \ old) <= n + 1
      BY <3>1, <3>3, OneMore
    <3>5. Cardinality(Since(s, t)' \ old) \in Nat
      <4>1. Since(s, t)' \ old \in SUBSET Requests
        BY <3>1
      <4> QED BY <4>1, SubsetCard
    <3> QED BY <3>2, <3>4, <3>5
  <2>7. ASSUME NEW t \in Nat, t + Window > c + Delay PROVE Cardinality(Since(s, t)' \cap old) < Limit
    <3>1. Since(s, t)' \cap old \in SUBSET (Since(s, t) \cap old) /\ Since(s, t) \cap old \in SUBSET Requests
      BY <1>4, <1>s, <2>3, PasserSets
    <3>2. Cardinality(Since(s, t) \cap old) < Limit
      BY <2>2, <2>7 DEF OpenedAt
    <3>3. Cardinality(Since(s, t) \cap old) \in Nat /\ Cardinality(Since(s, t)' \cap old) \in Nat
      BY <3>1, SubsetCard
    <3>4. Cardinality(Since(s, t)' \cap old) <= Cardinality(Since(s, t) \cap old)
      BY <3>1, <3>3, SmallerCard
    <3> QED BY <1>0, <3>2, <3>3, <3>4
  <2>8. OpenedAt(s, c, old)'
    <3>1. c <= clock' /\ c <= rate'[s].start + Delay
      BY <1>0, <2>1, <2>2 DEF OpenedAt
    <3> QED BY <2>1, <2>4, <2>5, <2>6, <2>7, <3>1 DEF OpenedAt
  <2>9. WindowOpen(s)'
    BY <2>3, <2>8 DEF WindowOpen
  <2> QED BY <2>1, <2>9
<1> QED BY <1>0, <1>2, <1>3, <1>4 DEF RateRow

\* An interval shorter than a window by the delay meets the open window and those
\* before it that do not fill a limit.
LEMMA BoundedStep ==
    ASSUME TypeOK, Staged, Timely, PassedOnce, Counts, Bounded, Next
    PROVE  Bounded'
<1>0. /\ clock \in Nat /\ Window \in Nat /\ Limit \in Nat /\ MaxClock \in Nat /\ Delay \in Nat
  BY Constants DEF TypeOK
<1>t. TypeOK'
  BY TypeStep
<1> SUFFICES ASSUME NEW s \in Scopes, NEW t \in 0 .. MaxClock
             PROVE  Cardinality(Between(s, t)') < 2 * Limit
  BY DEF Bounded, Scopes
<1>1. Cardinality(Between(s, t)) < 2 * Limit /\ t \in Nat
  BY <1>0 DEF Bounded
<1>2. CASE NobodyPasses
  BY <1>1, <1>2, SamePassers DEF NobodyPasses
<1>3. ASSUME NEW q \in Requests, req[q].pc \in InLimit, Passing(q)
      PROVE  Cardinality(Between(s, t)') < 2 * Limit
  <2>0. req[q].pc # "unsent" /\ clock' = clock
    BY <1>3 DEF InLimit, Passing
  <2>1. CASE s # ScopeOf(q) \/ clock + Delay >= t + Window
    <3>1. ASSUME s # ScopeOf(q) PROVE Between(s, t)' = Between(s, t)
      BY <1>3, <2>0, <3>1, OtherPassers
    <3>2. ASSUME s = ScopeOf(q), clock + Delay >= t + Window PROVE Between(s, t)' = Between(s, t)
      BY <1>1, <1>3, <2>0, <3>2, RecentPassers
    <3>3. Between(s, t)' = Between(s, t)
      BY <2>1, <3>1, <3>2
    <3> QED BY <1>1, <3>3
  <2>2. CASE s = ScopeOf(q) /\ t + Window > clock + Delay
    <3>1. rate'[s] \in RateRow /\ rate'[s].count \in Nat /\ rate'[s].count <= Limit
      BY <1>0, <1>t DEF TypeOK, RateRow
    <3>2. rate'[s].count # 0
      <4>1. rate \in [Scopes -> RateRow] /\ rate[s].count \in Nat
        BY <1>0 DEF TypeOK, RateRow
      <4>2. CASE rate' = [rate EXCEPT ![s] = [count |-> 1, start |-> req[q].now]]
        BY <4>1, <4>2
      <4>3. CASE rate' = [rate EXCEPT ![s] = [count |-> rate[s].count + 1, start |-> rate[s].start]]
        BY <4>1, <4>3
      <4> QED BY <1>3, <2>2, <4>2, <4>3 DEF Passing
    <3>3. Counts'
      BY <1>3, PassingCounts
    <3>4. PICK c \in Nat, old \in SUBSET Passers(s)' : OpenedAt(s, c, old)'
      BY <3>2, <3>3 DEF Counts, WindowOpen
    <3> PICK new, recent : new = Passers(s)' \ old /\ recent = Since(s, t)' \cap old
      OBVIOUS
    <3>5. /\ Passers(s)' \in SUBSET Requests /\ Since(s, t)' \in SUBSET Passers(s)'
          /\ Between(s, t)' \in SUBSET Since(s, t)'
      BY DEF Since, Between, Passers
    <3>6. new \in SUBSET Requests /\ recent \in SUBSET Requests /\ Between(s, t)' \in SUBSET (new \cup recent)
      BY <3>5
    <3>7. Cardinality(new) <= rate'[s].count
      BY <3>4 DEF OpenedAt
    <3>8. Cardinality(recent) < Limit
      <4>1. t + Window > c + Delay
        BY <1>0, <1>1, <2>0, <2>2, <3>4 DEF OpenedAt
      <4> QED BY <1>1, <3>4, <4>1 DEF OpenedAt
    <3>9. Cardinality(new) \in Nat /\ Cardinality(recent) \in Nat
      BY <3>6, SubsetCard
    <3>10. Cardinality(Between(s, t)') <= Cardinality(new) + Cardinality(recent)
           /\ Cardinality(Between(s, t)') \in Nat
      BY <3>6, TwoParts
    <3> QED BY <1>0, <3>1, <3>7, <3>8, <3>9, <3>10
  <2> QED BY <1>0, <1>1, <2>1, <2>2
<1> QED BY <1>2, <1>3, PassKinds

-----------------------------------------------------------------------------
(* The theorems *)

LEMMA InitInv == Init => Inv
<1> SUFFICES ASSUME Init PROVE Inv
  OBVIOUS
<1> USE DEF Init
<1>0. (CHOOSE k \in Keys : TRUE) \in Keys
  BY ControlPlaneAssumption
<1>1. NoRequest \in RequestRow /\ NoRequest.pc = "unsent" /\ NoRequest.op = "session" /\ NoRequest.stale = FALSE
  BY <1>0 DEF NoRequest, RequestRow, Stages, Ops, NoBody
<1>2. NoCode \in CodeRow /\ NoDevice \in DeviceRow /\ NoWindow \in RateRow /\ NoDevice.code = None
      /\ NoDevice.until = 0 /\ NoWindow.count = 0
  BY Constants DEF NoCode, CodeRow, NoDevice, DeviceRow, NoWindow, RateRow
<1>3. TypeOK
  <2>1. logins \in Seq({"open", "closed"}) /\ runs \in Seq(RunStatuses)
    BY EmptySeq
  <2>2. /\ code \in [Codes -> CodeRow] /\ device \in [Devices -> DeviceRow] /\ rate \in [Scopes -> RateRow]
        /\ req \in [Requests -> RequestRow] /\ passed \in [Requests -> Nat]
    BY <1>1, <1>2, Constants
  <2>3. clock \in 0 .. MaxClock /\ reserve \in 0 .. MaxClock
    BY Constants
  <2> QED BY <2>1, <2>2, <2>3 DEF TypeOK
<1>4. Staged /\ StaleCaught /\ Timely
  BY <1>1 DEF Staged, StaleCaught, Timely, InLimit
<1>5. SessionsFromCodes /\ PairedOnce
  BY <1>2, Constants DEF SessionsFromCodes, PairedOnce
<1>6. AppliedRecorded /\ AppliedOnce /\ PassedOnce
  BY DEF AppliedRecorded, AppliedOnce, PassedOnce
<1>7. \A s : Passers(s) = {}
  BY DEF Passers
<1>8. Counts
  <2>1. \A s, t : Since(s, t) = {}
    BY <1>7 DEF Since
  <2>2. \A s \in Scopes : WindowClosed(s)
    BY <2>1, FS_EmptySet, Constants DEF WindowClosed
  <2> QED BY <1>2, <2>2 DEF Counts
<1>9. Bounded
  <2>1. \A s, t : Between(s, t) = {}
    BY <1>7 DEF Between
  <2>2. Cardinality({}) = 0
    BY FS_EmptySet
  <2>3. 0 < 2 * Limit
    BY Constants
  <2>4. \A s, t : Cardinality(Between(s, t)) < 2 * Limit
    BY <2>1, <2>2, <2>3
  <2> QED BY <2>4 DEF Bounded
<1> QED BY <1>3, <1>4, <1>5, <1>6, <1>8, <1>9 DEF Inv

LEMMA StutterInv == Inv /\ UNCHANGED vars => Inv'
<1> SUFFICES ASSUME Inv, UNCHANGED vars PROVE Inv'
  OBVIOUS
<1> USE DEF vars, Inv
<1>1. TypeOK' /\ Staged' /\ SessionsFromCodes' /\ PairedOnce'
  BY DEF TypeOK, Staged, SessionsFromCodes, PairedOnce
<1>2. StaleCaught'
  BY DEF StaleCaught, Dead
<1>3. AppliedRecorded' /\ AppliedOnce' /\ PassedOnce'
  BY DEF AppliedRecorded, Recorded, SameKey, AppliedOnce, PassedOnce, Never
<1>4. Counts' /\ Bounded' /\ Timely'
  <2>1. \A s, t : /\ Passers(s)' = Passers(s)
                  /\ Since(s, t)' = Since(s, t) /\ Between(s, t)' = Between(s, t)
    BY DEF Since, Between, Passers, ScopeOf, Never
  <2>2. \A s : WindowClosed(s)' = WindowClosed(s)
    BY <2>1 DEF WindowClosed
  <2>3. \A s, c, old : OpenedAt(s, c, old)' = OpenedAt(s, c, old)
    BY <2>1 DEF OpenedAt
  <2>4. \A s : WindowOpen(s)' = WindowOpen(s)
    BY <2>1, <2>3 DEF WindowOpen
  <2>5. Counts'
    BY <2>2, <2>4 DEF Counts, Scopes
  <2> QED BY <2>1, <2>5 DEF Bounded, Timely, Scopes
<1> QED BY <1>1, <1>2, <1>3, <1>4

\* The inductive invariant of the management API (management.py).
THEOREM Invariance == Spec => []Inv
<1>1. Init => Inv
  BY InitInv
<1>2. Inv /\ [Next]_vars => Inv'
  <2> SUFFICES ASSUME Inv, [Next]_vars PROVE Inv'
    OBVIOUS
  <2>1. CASE Next
    <3> USE <2>1 DEF Inv
    <3>1. TypeOK' /\ Staged'
      BY TypeStep, StagedStep
    <3>2. SessionsFromCodes' /\ PairedOnce'
      BY PairedStep
    <3>3. StaleCaught'
      BY StaleStep
    <3>4. AppliedRecorded' /\ AppliedOnce'
      BY AppliedStep
    <3>5. PassedOnce' /\ Bounded' /\ Timely'
      BY PassedOnceStep, BoundedStep, TimelyStep
    <3>6. Counts'
      BY PassKinds, QuietCounts, PassingCounts
    <3> QED BY <3>1, <3>2, <3>3, <3>4, <3>5, <3>6
  <2>2. CASE UNCHANGED vars
    BY <2>2, StutterInv
  <2> QED BY <2>1, <2>2
<1> QED BY <1>1, <1>2, PTL DEF Spec

\* Every variable keeps its type, and no record outlives the session it is of.
THEOREM TypeCorrect == Spec => []TypeOK
<1>1. Inv => TypeOK
  BY DEF Inv
<1> QED BY <1>1, Invariance, PTL

\* Of the requests with one session, operation and key at most one is carried out
\* (_idempotent).
THEOREM AlwaysAppliedOnce == Spec => []AppliedOnce
<1>1. Inv => AppliedOnce
  BY DEF Inv
<1> QED BY <1>1, Invariance, PTL

\* A pairing code makes one session (exchange_pairing).
THEOREM AlwaysPairedOnce == Spec => []PairedOnce
<1>1. Inv => PairedOnce
  BY DEF Inv
<1> QED BY <1>1, Invariance, PTL

\* A request sent without a session or token in force is never carried out
\* (_get_current_session, require_mutation).
THEOREM StaleAlwaysRefused == Spec => []StaleRefused
<1>1. Inv => StaleRefused
  BY DEF Inv, TypeOK, StaleCaught, StaleRefused
<1> QED BY <1>1, Invariance, PTL

\* Within a window's length, less the time a transaction may take, fewer requests
\* pass than twice the limit (_enforce_rate_limit).
THEOREM WindowAlwaysBounded == Spec => []WindowBounded
<1>1. Inv => WindowBounded
  <2> SUFFICES ASSUME Inv, NEW s \in Scopes, NEW t \in 0 .. MaxClock
               PROVE  Cardinality({q \in Requests : req[q].pc # "unsent" /\ ScopeOf(q) = s /\ passed[q] >= t
                                     /\ passed[q] + Delay < t + Window}) < 2 * Limit
    BY DEF WindowBounded
  <2> DEFINE S == {q \in Requests : req[q].pc # "unsent" /\ ScopeOf(q) = s /\ passed[q] >= t
                                       /\ passed[q] + Delay < t + Window}
  <2>1. /\ Window \in Nat /\ Delay \in Nat /\ MaxClock \in Nat /\ Limit \in Nat
        /\ \A q \in Requests : passed[q] \in Nat
    BY Constants DEF Inv, TypeOK
  <2>2. \A q \in S : q \in Passers(s) /\ passed[q] >= t /\ passed[q] + Delay < t + Window
    BY <2>1 DEF Passers, Never
  <2>3. S \in SUBSET Between(s, t)
    BY <2>2 DEF Between
  <2>4. Cardinality(Between(s, t)) < 2 * Limit
    BY DEF Inv, Bounded
  <2> HIDE DEF S
  <2>5. Between(s, t) \in SUBSET Requests /\ S \in SUBSET Requests
    BY <2>3, PasserSets
  <2>6. Cardinality(Between(s, t)) \in Nat /\ Cardinality(S) \in Nat
    BY <2>5, SubsetCard
  <2>7. Cardinality(S) <= Cardinality(Between(s, t))
    BY <2>3, <2>5, <2>6, SmallerCard
  <2>8. Cardinality(S) < 2 * Limit
    BY <2>1, <2>4, <2>6, <2>7
  <2> QED BY <2>8 DEF S
<1> QED BY <1>1, Invariance, PTL
=============================================================================
