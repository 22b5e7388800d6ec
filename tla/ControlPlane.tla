---------------------------- MODULE ControlPlane ----------------------------
(***************************************************************************)
(* The management API of one account (api/management.py) and the operator  *)
(* commands beside it (scripts/management.py): pairing codes, device       *)
(* sessions and their CSRF tokens, the rate limit, the idempotency records *)
(* and the commands they protect.                                          *)
(*                                                                         *)
(* A request is sent once, and a client that got no answer sends another   *)
(* one with the same key.  Its handler runs several transactions, each one *)
(* step here: what one of them has read may be stale in the next.          *)
(***************************************************************************)
EXTENDS Naturals, Sequences, FiniteSets

CONSTANTS
    Requests,    \* HTTP requests, each sent once
    Devices,     \* device sessions
    Codes,       \* pairing codes
    None,        \* no device, no code
    Keys,        \* idempotency keys
    Batches,     \* what a view report may name: sets of Reels
    Owned,       \* the ready Reels that the account has collected
    CodeTTL,     \* lifetime of a pairing code
    SessionTTL,  \* management_session_ttl_minutes
    RecordTTL,   \* IDEMPOTENCY_TTL
    Window,      \* the minute of the rate limit
    Limit,       \* requests in one window
    Delay,       \* bound: the time from a rate-limit transaction's now() to its end
    MaxClock     \* bound: the clock

\* The settings allow a session at most the lifetime of an idempotency record.
ASSUME ControlPlaneAssumption ==
    /\ None \notin Devices \cup Codes
    /\ {CodeTTL, SessionTTL, RecordTTL, Window, Limit, MaxClock} \subseteq Nat \ {0}
    /\ Delay \in Nat
    /\ SessionTTL <= RecordTTL
    /\ IsFiniteSet(Requests) /\ Keys # {}

VARIABLES
    clock,
    code,      \* ManagementPairingChallenge rows
    device,    \* ManagementDeviceSession rows
    rate,      \* ManagementRateLimit rows
    records,   \* ManagementIdempotencyRecord rows
    account,   \* InstagramAccount.status
    logins,    \* the login sessions created here, and whether they are open
    runs,      \* the collection runs created here
    reserve,   \* reported_at of the device's reserve row
    viewed,    \* InstagramReelView rows
    req,       \* the handlers
    applied,   \* history: requests whose command was carried out
    passed     \* history: when each request passed the rate limit

vars == <<clock, code, device, rate, records, account, logins, runs, reserve, viewed,
          req, applied, passed>>
commandVars == <<account, logins, runs, reserve, viewed>>
historyVars == <<applied, passed>>

Scopes == {"pairing"} \cup Devices
Commands == {"create_login", "cancel_login", "create_run", "cancel_run", "revoke",
             "settings", "reserve_settings", "reserve_report", "views"}
Ops == Commands \cup {"exchange", "session"}
Stages == {"unsent", "auth", "rate", "select", "insert", "exchange", "rotate", "act", "done"}
InLimit == {"select", "insert"}   \* the stages of an open rate-limit transaction
RunStatuses == {"queued", "running", "cancelling", "terminal"}
NoBody == {}

CodeRow == [status : {"absent", "fresh", "consumed", "gone"}, until : Nat]
DeviceRow == [status : {"absent", "live", "revoked", "gone"}, until : Nat, csrf : Nat,
              code : Codes \cup {None}]
RateRow == [count : 0 .. Limit, start : Nat]
Record == [device : Devices, op : Commands, key : Keys, until : Nat,
           fingerprint : Nat \X SUBSET UNION Batches]
RequestRow == [pc : Stages, op : Ops, device : Devices \cup {None}, key : Keys, csrf : Nat,
               seen : Nat, target : Nat, body : SUBSET UNION Batches, stale : BOOLEAN,
               again : BOOLEAN, now : Nat]

TypeOK ==
    /\ clock \in 0 .. MaxClock
    /\ code \in [Codes -> CodeRow]
    /\ device \in [Devices -> DeviceRow]
    /\ rate \in [Scopes -> RateRow]
    /\ records \subseteq Record
    /\ \A r \in records : device[r.device].status \in {"live", "revoked"}
    /\ account \in {"disconnected", "connecting", "connected"}
    /\ logins \in Seq({"open", "closed"}) /\ runs \in Seq(RunStatuses)
    /\ reserve \in 0 .. MaxClock /\ viewed \subseteq UNION Batches
    /\ req \in [Requests -> RequestRow]
    /\ applied \subseteq Requests
    /\ passed \in [Requests -> Nat]

-----------------------------------------------------------------------------
(* Rows and their expiry *)

NoCode == [status |-> "absent", until |-> 0]
NoDevice == [status |-> "absent", until |-> 0, csrf |-> 0, code |-> None]
NoWindow == [count |-> 0, start |-> 0]

\* _is_expired
Expired(row) == row.until <= clock

Kept(row) == IF row.status # "absent" /\ Expired(row) THEN [row EXCEPT !.status = "gone"] ELSE row

\* The rows that _cleanup_expired_locked leaves.  A record goes with its session.
CurrentDevices == [d \in Devices |-> Kept(device[d])]
Exists(d) == CurrentDevices[d].status \in {"live", "revoked"}
CleanRecords == {r \in records : ~Expired(r) /\ Exists(r.device)}

WindowOver(row, now) == row.start + Window <= now

CleanupOthers ==
    /\ code' = [c \in Codes |-> Kept(code[c])]
    /\ rate' = [s \in Scopes |-> IF rate[s].count > 0 /\ WindowOver(rate[s], clock) THEN NoWindow ELSE rate[s]]

\* _cleanup_expired_locked
Cleanup == device' = CurrentDevices /\ records' = CleanRecords /\ CleanupOthers

Never == MaxClock + Window
NoRequest == [pc |-> "unsent", op |-> "session", device |-> None, key |-> CHOOSE k \in Keys : TRUE,
              csrf |-> 0, seen |-> 0, target |-> 0, body |-> NoBody, stale |-> FALSE, again |-> FALSE,
              now |-> 0]

Init ==
    /\ clock = 0
    /\ code = [c \in Codes |-> NoCode]
    /\ device = [d \in Devices |-> NoDevice]
    /\ rate = [s \in Scopes |-> NoWindow]
    /\ records = {}
    /\ account \in {"disconnected", "connected"}
    /\ logins = <<>> /\ runs = <<>> /\ reserve = 0 /\ viewed = {}
    /\ req = [q \in Requests |-> NoRequest]
    /\ applied = {}
    /\ passed = [q \in Requests |-> Never]

Goto(q, pc, now) == req' = [req EXCEPT ![q] = [req[q] EXCEPT !.pc = pc, !.now = now]]

\* The request is answered; what it carried is of no more interest.
Done(q) ==
    req' = [req EXCEPT ![q] =
              [pc |-> "done", op |-> req[q].op, device |-> req[q].device, key |-> req[q].key,
               csrf |-> 0, seen |-> 0, target |-> 0, body |-> NoBody, stale |-> req[q].stale,
               again |-> FALSE, now |-> 0]]

-----------------------------------------------------------------------------
(* The operator, and time *)

CreatePairing(c) ==
    /\ code[c].status = "absent"
    /\ code' = [code EXCEPT ![c] = [status |-> "fresh", until |-> clock + CodeTTL]]
    /\ UNCHANGED <<clock, device, rate, records, commandVars, req, historyVars>>

\* revoke-all
RevokeAll ==
    /\ \E d \in Devices : device[d].status = "live"
    /\ device' = [d \in Devices |->
                    IF device[d].status = "live" THEN [device[d] EXCEPT !.status = "revoked"]
                    ELSE device[d]]
    /\ UNCHANGED <<clock, code, rate, records, commandVars, req, historyVars>>

\* No rate-limit transaction takes longer than Delay.
Tick ==
    /\ clock < MaxClock
    /\ \A q \in Requests : req[q].pc \in InLimit => clock < req[q].now + Delay
    /\ clock' = clock + 1
    /\ UNCHANGED <<code, device, rate, records, commandVars, req, historyVars>>

\* The other components move what the commands work on: a login connects the
\* account or ends, a Collector takes up a run or ends it.
Elsewhere ==
    /\ \/ /\ account = "connecting" /\ account' \in {"connected", "disconnected"}
          /\ logins' = [i \in DOMAIN logins |-> "closed"]
          /\ UNCHANGED runs
       \/ /\ \E i \in DOMAIN runs : runs[i] # "terminal" /\
                \E status \in (IF runs[i] = "queued" THEN {"running"} ELSE {"terminal"}) :
                    runs' = [runs EXCEPT ![i] = status]
          /\ UNCHANGED <<account, logins>>
    /\ UNCHANGED <<clock, code, device, rate, records, reserve, viewed, req, historyVars>>

-----------------------------------------------------------------------------
(* A request: session, rate limit, CSRF token *)

\* A client sends a request with a session and a CSRF token it once received.
\* The history remembers if they were not in force any more.
Send(q, op, d, key, csrf, target, body) ==
    /\ req[q].pc = "unsent"
    /\ req' = [req EXCEPT ![q] =
                 [pc |-> IF op = "exchange" THEN "rate" ELSE "auth", op |-> op, device |-> d,
                  key |-> key, csrf |-> csrf, seen |-> 0, target |-> target, body |-> body,
                  stale |-> op \in Commands /\ (CurrentDevices[d].status # "live" \/ device[d].csrf # csrf),
                  again |-> FALSE, now |-> 0]]
    /\ UNCHANGED <<clock, code, device, rate, records, commandVars, historyVars>>

SendExchange(q) == Send(q, "exchange", None, req[q].key, 0, 0, NoBody)
SendSession(q, d) == device[d].status # "absent" /\ Send(q, "session", d, req[q].key, 0, 0, NoBody)

\* What each command is called with: the login or run it cancels, the timestamp
\* of a report, the Reels that were viewed.
Targets(op) ==
    CASE op = "cancel_login" -> DOMAIN logins
      [] op = "cancel_run" -> DOMAIN runs
      [] op = "reserve_report" -> 0 .. MaxClock
      [] OTHER -> {0}

SendCommand(q, d) ==
    \E op \in Commands, key \in Keys, csrf \in 0 .. device[d].csrf :
        \E target \in Targets(op), body \in (IF op = "views" THEN Batches ELSE {NoBody}) :
            device[d].status # "absent" /\ Send(q, op, d, key, csrf, target, body)

\* Mutant: a revoked session is found like any other.
FoundAnyRow(d) == Exists(d)

\* _get_current_session finds the session.
Found(d) == CurrentDevices[d].status = "live"

\* require_management_session: the handler goes on with a copy of the row.  A
\* refusal rolls the cleanup back.
Authenticate(q) ==
    /\ req[q].pc = "auth"
    /\ IF Found(req[q].device)
       THEN /\ Cleanup
            /\ req' = [req EXCEPT ![q] = [req[q] EXCEPT !.pc = IF req[q].op = "session" THEN "rotate" ELSE "rate",
                                                        !.seen = device[req[q].device].csrf]]
       ELSE Done(q) /\ UNCHANGED <<device, records, code, rate>>
    /\ UNCHANGED <<clock, commandVars, historyVars>>

ScopeOf(q) == IF req[q].op = "exchange" THEN "pairing" ELSE req[q].device

\* After the rate limit: the exchange goes on, a command needs the CSRF token of
\* the copy.
Passes(q) ==
    /\ passed' = [passed EXCEPT ![q] = clock]
    /\ IF req[q].op = "exchange" THEN Goto(q, "exchange", 0)
       ELSE IF req[q].csrf = req[q].seen THEN Goto(q, "act", 0) ELSE Done(q)

\* Mutant: a new window goes on counting.
CountedOn(row, now) ==
    [count |-> row.count + 1, start |-> IF WindowOver(row, now) THEN now ELSE row.start]

Counted(row, now) ==
    IF WindowOver(row, now) THEN [count |-> 1, start |-> now]
    ELSE [count |-> row.count + 1, start |-> row.start]

\* _enforce_rate_limit: the transaction reads the time before it waits for the row.
RateRead(q) ==
    /\ req[q].pc = "rate"
    /\ Goto(q, "select", clock)
    /\ UNCHANGED <<clock, code, device, rate, records, commandVars, historyVars>>

\* The row is locked and counted up by that time, or it is not there and will be
\* inserted.
RateLimit(q) ==
    LET row == rate[ScopeOf(q)]
        now == req[q].now
    IN  /\ req[q].pc = "select"
        /\ \/ /\ row.count = 0 /\ Goto(q, "insert", now) /\ UNCHANGED <<rate, passed>>
           \/ /\ row.count > 0 /\ (WindowOver(row, now) \/ row.count < Limit)
              /\ rate' = [rate EXCEPT ![ScopeOf(q)] = Counted(row, now)]
              /\ Passes(q)
           \/ /\ row.count > 0 /\ ~WindowOver(row, now) /\ row.count >= Limit
              /\ Done(q) /\ UNCHANGED <<rate, passed>>
        /\ UNCHANGED <<clock, code, device, records, commandVars, applied>>

\* Mutant: a request whose insert collided passes.
CollidedPasses(q) == Passes(q)

\* The first IntegrityError starts over, the second one refuses.
Collided(q) ==
    /\ IF req[q].again THEN Done(q)
       ELSE req' = [req EXCEPT ![q] = [req[q] EXCEPT !.pc = "rate", !.again = TRUE, !.now = 0]]
    /\ UNCHANGED passed

\* The insert succeeds, with the time that was read, or collides with the one of
\* another handler.
RateInsert(q) ==
    /\ req[q].pc = "insert"
    /\ \/ /\ rate[ScopeOf(q)].count = 0
          /\ rate' = [rate EXCEPT ![ScopeOf(q)] = [count |-> 1, start |-> req[q].now]]
          /\ Passes(q)
       \/ rate[ScopeOf(q)].count > 0 /\ Collided(q) /\ UNCHANGED rate
    /\ UNCHANGED <<clock, code, device, records, commandVars, applied>>

-----------------------------------------------------------------------------
(* Sessions *)

\* Mutant: an unexpired code is taken, consumed or not.
UsableTwice(c) == code[c].status \in {"fresh", "consumed"} /\ ~Expired(code[c])

Usable(c) == code[c].status = "fresh" /\ ~Expired(code[c])

\* exchange_pairing
Exchange(q) ==
    /\ req[q].pc = "exchange"
    /\ \/ \E c \in Codes, d \in Devices :
             /\ Usable(c) /\ device[d].status = "absent"
             /\ code' = [code EXCEPT ![c] = [status |-> "consumed", until |-> code[c].until]]
             /\ device' = [device EXCEPT ![d] =
                             [status |-> "live", until |-> clock + SessionTTL, csrf |-> 0, code |-> c]]
       \/ UNCHANGED <<code, device>>
    /\ Done(q)
    /\ UNCHANGED <<clock, rate, records, commandVars, historyVars>>

\* current_session: a new CSRF token, if the session is still there.
Rotate(q) ==
    /\ req[q].pc = "rotate"
    /\ LET d == req[q].device
       IN  IF Found(d) THEN device' = [device EXCEPT ![d].csrf = device[d].csrf + 1]
           ELSE UNCHANGED device
    /\ Done(q)
    /\ UNCHANGED <<clock, code, rate, records, commandVars, historyVars>>

-----------------------------------------------------------------------------
(* The commands.  Each refuses by an exception that rolls everything back. *)

IsActive(run) == run # "terminal"

\* create_login_session; LoginSessionService is the subject of Connection.
CreateLogin(q) ==
    /\ account = "disconnected" /\ \A i \in DOMAIN logins : logins[i] = "closed"
    /\ account' = "connecting" /\ logins' = Append(logins, "open")
    /\ UNCHANGED <<runs, reserve, viewed>>

\* cancel_login_session: a closed one stays as it is.
CancelLogin(q) ==
    LET i == req[q].target
    IN  /\ logins' = [logins EXCEPT ![i] = "closed"]
        /\ account' = IF logins[i] = "open" THEN "disconnected" ELSE account
        /\ UNCHANGED <<runs, reserve, viewed>>

\* create_collection_run
CreateRun(q) ==
    /\ account = "connected" /\ \A i \in DOMAIN runs : ~IsActive(runs[i])
    /\ runs' = Append(runs, "queued")
    /\ UNCHANGED <<account, logins, reserve, viewed>>

\* cancel_collection_run: a queued run is over, a running one is asked to stop.
CancelRun(q) ==
    LET i == req[q].target
    IN  /\ runs' = [runs EXCEPT ![i] = IF runs[i] \in {"queued", "terminal"} THEN "terminal"
                                       ELSE "cancelling"]
        /\ UNCHANGED <<account, logins, reserve, viewed>>

\* _revoke_locked
Revoke(q) ==
    /\ device' = [CurrentDevices EXCEPT ![req[q].device].status = "revoked"]
    /\ UNCHANGED commandVars

\* update_collection_settings: values that no component reads.
UpdateSettings(q) == UNCHANGED commandVars

\* _upsert_reserve_device_locked: a report older than the row changes nothing;
\* the settings are stamped by the server.
UpdateReserve(q) ==
    LET at == IF req[q].op = "reserve_settings" THEN clock ELSE req[q].target
    IN  /\ reserve' = IF at >= reserve THEN at ELSE reserve
        /\ UNCHANGED <<account, logins, runs, viewed>>

\* sync_viewed_reels: all of the batch, or none if one Reel is not the account's.
SyncViewed(q) ==
    /\ req[q].body \subseteq Owned
    /\ viewed' = viewed \cup req[q].body
    /\ UNCHANGED <<account, logins, runs, reserve>>

Command(q) ==
    \/ req[q].op = "create_login" /\ CreateLogin(q)
    \/ req[q].op = "cancel_login" /\ CancelLogin(q)
    \/ req[q].op = "create_run" /\ CreateRun(q)
    \/ req[q].op = "cancel_run" /\ CancelRun(q)
    \/ req[q].op = "revoke" /\ Revoke(q)
    \/ req[q].op = "settings" /\ UpdateSettings(q)
    \/ req[q].op \in {"reserve_settings", "reserve_report"} /\ UpdateReserve(q)
    \/ req[q].op = "views" /\ SyncViewed(q)

-----------------------------------------------------------------------------
(* _idempotent *)

SameKey(r, q) == r.device = req[q].device /\ r.op = req[q].op /\ r.key = req[q].key

\* The fingerprint covers the body only: the login or run that a cancellation
\* names is part of the path.
Fingerprint(q) ==
    <<IF req[q].op = "reserve_report" THEN req[q].target ELSE 0, req[q].body>>

\* Mutant: the record is kept for one unit of time.
RecordUntilSoon == clock + 1

RecordUntil == clock + RecordTTL

RecordOf(q) ==
    [device |-> req[q].device, op |-> req[q].op, key |-> req[q].key,
     fingerprint |-> Fingerprint(q), until |-> RecordUntil]

\* The first request with its key: the cleanup, the command and the record, in
\* one transaction.
Perform(q) ==
    /\ req[q].pc = "act"
    /\ \A r \in CleanRecords : ~SameKey(r, q)
    /\ Exists(req[q].device)
    /\ CleanupOthers
    /\ Command(q)
    /\ records' = CleanRecords \cup {RecordOf(q)}
    /\ req[q].op # "revoke" => device' = CurrentDevices
    /\ Done(q)
    /\ applied' = applied \cup {q}
    /\ UNCHANGED <<clock, passed>>

\* A request that is answered from the record of an earlier one, without its
\* launch token.  The cleanup is committed with it.
Replay(q) ==
    /\ req[q].pc = "act"
    /\ \E r \in CleanRecords : SameKey(r, q) /\ r.fingerprint = Fingerprint(q)
    /\ Cleanup
    /\ Done(q)
    /\ UNCHANGED <<clock, commandVars, historyVars>>

\* A repetition with another body; a command that refuses; a record that the
\* database refuses because the session is gone, or another transaction was
\* first (503).  The exception rolls the cleanup back.
Refuse(q) ==
    /\ req[q].pc = "act"
    /\ Done(q)
    /\ UNCHANGED <<clock, code, device, rate, records, commandVars, historyVars>>

Next ==
    \/ \E c \in Codes : CreatePairing(c)
    \/ RevokeAll \/ Tick \/ Elsewhere
    \/ \E q \in Requests :
          \/ SendExchange(q)
          \/ \E d \in Devices : SendSession(q, d) \/ SendCommand(q, d)
          \/ Authenticate(q) \/ RateRead(q) \/ RateLimit(q) \/ RateInsert(q)
          \/ Exchange(q) \/ Rotate(q) \/ Perform(q) \/ Replay(q) \/ Refuse(q)

Spec == Init /\ [][Next]_vars

-----------------------------------------------------------------------------
\* Of the requests with one session, operation and key at most one is carried
\* out, as long as that session lives, whatever is repeated, delayed or cleaned
\* up in between (_idempotent; the lifetimes of records and sessions).
AppliedOnce ==
    \A q, r \in applied :
        req[q].device = req[r].device /\ req[q].op = req[r].op /\ req[q].key = req[r].key => q = r

\* A pairing code makes one device session, however many exchanges of it run
\* (exchange_pairing).
PairedOnce ==
    \A d, e \in Devices : device[d].code = device[e].code /\ device[d].code # None => d = e

\* A request that was sent without a session in force, or with a CSRF token that
\* had been replaced by then, is never carried out (_get_current_session,
\* require_mutation).
StaleRefused == \A q \in applied : ~req[q].stale

\* Within a window's length, less the time a transaction may take, fewer requests
\* of one scope pass than twice the limit: a window starts at the time that its
\* transaction read, so it ends early by as long as that transaction waited, and
\* then the one that opened it is as far back.  Rows are inserted by two handlers
\* at once and deleted by the cleanup (_enforce_rate_limit).
WindowBounded ==
    \A s \in Scopes, t \in 0 .. MaxClock :
        Cardinality({q \in Requests : req[q].pc # "unsent" /\ ScopeOf(q) = s /\ passed[q] >= t
                                        /\ passed[q] + Delay < t + Window}) < 2 * Limit
=============================================================================
