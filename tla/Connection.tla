----------------------------- MODULE Connection -----------------------------
(***************************************************************************)
(* How an Instagram account is connected and who may use its browser       *)
(* profile: login sessions (instagram/login_sessions.py), the gateway that *)
(* serves them (login_gateway.py), the login browser                       *)
(* (login-browser/browser_service.py), the lock both browsers take         *)
(* (runtime/profile_lock.py), the status changes of a Collector process    *)
(* (runtime/operator.py), its operator handoff (runtime/handoff_state.py)  *)
(* and the profile reset.  One account.                                    *)
(*                                                                         *)
(* A database transaction is one step.  The gateway is one event loop: its *)
(* handlers interleave at their awaits only, with each other; the files of *)
(* a handoff are read and written by two processes without a lock.         *)
(***************************************************************************)
EXTENDS Naturals, FiniteSets

CONSTANTS
    Sessions,   \* login sessions
    Kinds,      \* what the Collector process runs: "plain" or "handoff" scripts
    Resets,     \* bound: profile resets
    MaxLost     \* bound: lost replies and gateway restarts

ASSUME ConnectionAssumption ==
    Kinds \subseteq {"plain", "handoff"} /\ Resets \in Nat /\ MaxLost \in Nat

VARIABLES
    account,   \* InstagramAccount.status
    login,     \* InstagramLoginSession rows
    browser,   \* the login browser: how far it is up or down, or what readiness() answers
    request,   \* how far the `state' handler of each session has come
    verifying, \* the sessions whose verify_profile call is on its way
    started,   \* profile_verifications_started
    navs,      \* history: verification navigations of each session
    lost,      \* history: lost replies and restarts
    inode,     \* the lock file in the profile directory
    held,      \* the lock file each process holds, 0 for none
    worker,    \* the Collector process
    handoff,   \* the file of the handoff
    decision,  \* what the gateway is about to write to it
    confirmed, \* history: has the operator confirmed this handoff?
    meddled,   \* history: has a Collector or a reset moved the account?
    reset      \* the profile reset job

vars == <<account, login, browser, request, verifying, started, navs, lost,
          inode, held, worker, handoff, decision, confirmed, meddled, reset>>
gatewayVars == <<request, verifying, started, navs, lost>>
lockVars == <<inode, held>>
handoffVars == <<handoff, decision, confirmed>>

Accounts == {"disconnected", "connecting", "connected", "reauth_required",
             "temporarily_limited"}
Open == {"pending", "active"}
Closed == {"completed", "cancelled", "expired"}
Logins == [status : {"none"} \cup Open \cup Closed, prior : Accounts, due : BOOLEAN]
Processes == {"browser", "collector"}
\* The browsers between their lock and their Chromium, up or down.
BrowserUp == {"login", "connected", "stopping"}
BrowserStates == {"down", "starting", "stopped"} \cup BrowserUp
Holding == {"launch", "current", "poll", "expire", "wait", "ready", "confirm", "collect", "close"}
WorkerLabels == {"off", "open", "begin", "undo", "failed", "unlock"} \cup Holding
Handoffs == {"none", "pending", "active", "confirmed", "cancelled", "expired"}

TypeOK ==
    /\ account \in Accounts
    /\ login \in [Sessions -> Logins]
    /\ browser \in BrowserStates
    /\ request \in [Sessions -> {"idle", "readiness", "complete", "close"}]
    /\ verifying \subseteq Sessions
    /\ started \subseteq Sessions
    /\ navs \in [Sessions -> Nat] /\ lost \in Nat
    /\ inode \in Nat \ {0} /\ held \in [Processes -> Nat]
    /\ worker \in [pc : WorkerLabels, kind : {"plain", "handoff"}]
    /\ handoff \in [state : Handoffs, due : BOOLEAN]
    /\ decision \in Handoffs
    /\ confirmed \in BOOLEAN /\ meddled \in BOOLEAN
    /\ reset \in {"idle", "delete", "update"}

-----------------------------------------------------------------------------
(* Accounts and login sessions *)

\* ACCOUNT_TRANSITIONS
Transitions ==
    [disconnected |-> {"connecting"},
     connecting |-> {"connected", "disconnected", "reauth_required", "temporarily_limited"},
     connected |-> {"disconnected", "reauth_required", "temporarily_limited"},
     reauth_required |-> {"connecting", "disconnected"},
     temporarily_limited |-> {"connecting", "disconnected"}]

\* A status may be set when it is the current one or a legal next one; else
\* require_transition raises and the transaction is rolled back.
Settable(from, to) == from = to \/ to \in Transitions[from]

IsOpen(s) == login[s].status \in Open

\* _expire_locked finds the session overdue.
Overdue(s) == IsOpen(s) /\ login[s].due

\* Mutant: the two statuses of the row are mixed up.
EndedSwapped(s, status) == [login EXCEPT ![s] = [status |-> login[s].prior, prior |-> status, due |-> FALSE]]

\* The expiry of a closed session is never looked at again.
Ended(s, status) == [login EXCEPT ![s] = [status |-> status, prior |-> login[s].prior, due |-> FALSE]]

\* Mutant: a login that ends without success leaves the account alone.
RestoredNot(s) == UNCHANGED account

\* _restore_account
Restored(s) == Settable(account, login[s].prior) /\ account' = login[s].prior

\* The session is expired in this transaction, and the account restored.
Expire(s) == login' = Ended(s, "expired") /\ Restored(s)

Init ==
    /\ account = "disconnected"
    /\ login = [s \in Sessions |-> [status |-> "none", prior |-> "disconnected", due |-> FALSE]]
    /\ browser = "down"
    /\ request = [s \in Sessions |-> "idle"]
    /\ verifying = {} /\ started = {}
    /\ navs = [s \in Sessions |-> 0] /\ lost = 0
    /\ inode = 1 /\ held = [p \in Processes |-> 0]
    /\ worker = [pc |-> "off", kind |-> "plain"]
    /\ handoff = [state |-> "none", due |-> FALSE]
    /\ decision = "none" /\ confirmed = FALSE
    /\ meddled = FALSE
    /\ reset = "idle"

\* create_in_transaction: an overdue session is expired first; another open one,
\* or a status that no login starts from, refuses the request.
Create(s, check) ==
    LET others == {o \in Sessions : IsOpen(o)}
        before == IF others = {} THEN account ELSE login[CHOOSE o \in others : TRUE].prior
        swept == [o \in Sessions |->
                    IF o \in others
                    THEN [status |-> "expired", prior |-> login[o].prior, due |-> FALSE]
                    ELSE login[o]]
    IN  /\ login[s].status = "none"
        /\ \A o \in others : Overdue(o) /\ Settable(account, login[o].prior)
        /\ before \in {"disconnected", "reauth_required"} \cup (IF check THEN {"connected"} ELSE {})
        /\ account' = IF before = "connected" THEN before ELSE "connecting"
        /\ login' = [swept EXCEPT ![s] = [status |-> "pending", prior |-> before, due |-> FALSE]]
        /\ UNCHANGED <<browser, gatewayVars, lockVars, worker, handoffVars, meddled, reset>>

\* activate with the token of the session.  An overdue one is refused, and its
\* expiry is rolled back with the transaction.
Activate(s) ==
    /\ login[s].status = "pending" /\ ~login[s].due
    /\ login' = Ended(s, "active")
    /\ UNCHANGED <<account, browser, gatewayVars, lockVars, worker, handoffVars, meddled, reset>>

\* status(): every page of the gateway and the status command expire an overdue
\* session on the way.
Status(s) ==
    /\ Overdue(s) /\ Expire(s)
    /\ UNCHANGED <<browser, gatewayVars, lockVars, worker, handoffVars, meddled, reset>>

\* cancel(), from the management API or the operator command.
Cancel(s) ==
    /\ IsOpen(s)
    /\ login' = Ended(s, IF login[s].due THEN "expired" ELSE "cancelled")
    /\ Restored(s)
    /\ UNCHANGED <<browser, gatewayVars, lockVars, worker, handoffVars, meddled, reset>>

ExpiryPasses(s) ==
    /\ IsOpen(s) /\ ~login[s].due
    /\ login' = [login EXCEPT ![s] = [status |-> login[s].status, prior |-> login[s].prior, due |-> TRUE]]
    /\ UNCHANGED <<account, browser, gatewayVars, lockVars, worker, handoffVars, meddled, reset>>

-----------------------------------------------------------------------------
(* The profile lock *)

\* flock, without waiting, of the lock file that is in the profile directory now.
Take(p) ==
    /\ \A q \in Processes : held[q] # inode
    /\ held' = [held EXCEPT ![p] = inode]
    /\ UNCHANGED inode

Release(p) == held' = [held EXCEPT ![p] = 0] /\ UNCHANGED inode

-----------------------------------------------------------------------------
(* The login browser, and the user in it *)

browserFrame == <<account, login, gatewayVars, worker, handoffVars, meddled, reset>>

\* start(): the lock, ...
BrowserStart ==
    /\ browser = "down"
    /\ Take("browser")
    /\ browser' = "starting"
    /\ UNCHANGED browserFrame

\* ... then Chromium, or an error before it (a stale file, Xvfb).
BrowserLaunch ==
    /\ browser = "starting"
    /\ browser' \in {"login", "stopped"}
    /\ UNCHANGED <<lockVars, browserFrame>>

\* Mutant: the lock is released as stop() begins.
BrowserStopUnlocked ==
    /\ browser \in {"login", "connected"}
    /\ browser' = "stopping"
    /\ Release("browser")
    /\ UNCHANGED browserFrame

\* stop(), called by a signal, by an error of start() or by a shutdown command of
\* the operator; from now on readiness() answers "preparing".
BrowserStop ==
    /\ browser \in {"login", "connected"}
    /\ browser' = "stopping"
    /\ UNCHANGED <<lockVars, browserFrame>>

\* Chromium is closed, or terminated and waited for, ...
ChromiumGone ==
    /\ browser = "stopping"
    /\ browser' = "stopped"
    /\ UNCHANGED <<lockVars, browserFrame>>

\* ... before the lock is released.
BrowserRelease ==
    /\ browser = "stopped"
    /\ browser' = "down"
    /\ Release("browser")
    /\ UNCHANGED browserFrame

\* The container of the login browser is killed, and Chromium with it.
BrowserKilled ==
    /\ browser # "down"
    /\ browser' = "down"
    /\ Release("browser")
    /\ UNCHANGED browserFrame

\* The user signs in on the Reels page or leaves it; open-login navigates away
\* from it.  Every answer of readiness() but "connected" is one value.
Browse ==
    /\ browser \in {"login", "connected"}
    /\ browser' \in {"login", "connected"} \ {browser}
    /\ UNCHANGED <<lockVars, browserFrame>>

-----------------------------------------------------------------------------
(* The gateway *)

\* verify-profile, once for each session of a connected profile.
VerifyProfile(s) ==
    /\ login[s].status = "active" /\ ~login[s].due /\ login[s].prior = "connected"
    /\ s \notin started
    /\ started' = started \cup {s}
    /\ verifying' = verifying \cup {s}
    /\ UNCHANGED <<account, login, browser, request, navs, lost, lockVars, worker,
                   handoffVars, meddled, reset>>

\* Mutant: a call is forgotten although it navigated and was answered.
VerifyAgain(s, navigated, answered) == started' = started \ {s} /\ UNCHANGED lost

\* The session may be verified again if the call failed or its reply was lost.
VerifyOutcome(s, navigated, answered) ==
    /\ started' = IF navigated /\ answered THEN started ELSE started \ {s}
    /\ lost' = IF navigated /\ ~answered THEN lost + 1 ELSE lost

\* The browser navigates, or it does not; the reply arrives, or it does not.
VerifyReply(s) ==
    /\ s \in verifying
    /\ \E navigated, answered \in BOOLEAN :
          /\ navigated => browser \in BrowserUp
          /\ answered \/ lost < MaxLost
          /\ navs' = IF navigated THEN [navs EXCEPT ![s] = navs[s] + 1] ELSE navs
          /\ VerifyOutcome(s, navigated, answered)
    /\ verifying' = verifying \ {s}
    /\ UNCHANGED <<account, login, browser, request, lockVars, worker, handoffVars, meddled, reset>>

\* The `state' handler: the durable status, ...
StateAsked(s) ==
    /\ request[s] = "idle"
    /\ login[s].status = "active" /\ ~login[s].due
    /\ request' = [request EXCEPT ![s] = "readiness"]
    /\ UNCHANGED <<account, login, browser, verifying, started, navs, lost, lockVars,
                   worker, handoffVars, meddled, reset>>

\* ... then what the browser answers, ...  (readiness() never answers
\* "verifying", so the handler never starts a verification.)
StateReadiness(s) ==
    /\ request[s] = "readiness"
    /\ request' = [request EXCEPT ![s] = IF browser = "connected" THEN "complete" ELSE "idle"]
    /\ UNCHANGED <<account, login, browser, verifying, started, navs, lost, lockVars,
                   worker, handoffVars, meddled, reset>>

\* Mutant: the session is completed whatever became of it.
CompletedAnyway(s) ==
    /\ login' = Ended(s, "completed")
    /\ account' = "connected"

\* complete(): a session that is no longer active stays as it is; an overdue one
\* expires.
CompletedOrNot(s) ==
    IF Overdue(s) THEN Expire(s)
    ELSE IF login[s].status # "active" THEN UNCHANGED <<account, login>>
    ELSE /\ Settable(account, "connected")
         /\ account' = "connected"
         /\ login' = Ended(s, "completed")

\* ... then the completion, or an exception of it (an illegal transition, or the
\* database is away), ...
StateComplete(s) ==
    /\ request[s] = "complete"
    /\ \/ CompletedOrNot(s) /\ request' = [request EXCEPT ![s] = "close"]
       \/ UNCHANGED <<account, login>> /\ request' = [request EXCEPT ![s] = "idle"]
    /\ UNCHANGED <<browser, verifying, started, navs, lost, lockVars, worker, handoffVars,
                   meddled, reset>>

\* ... and the shutdown of the browser, which only begins with the request; the
\* request may be lost.
StateClose(s) ==
    /\ request[s] = "close"
    /\ request' = [request EXCEPT ![s] = "idle"]
    /\ \/ browser \in {"login", "connected"} /\ browser' = "stopping"
       \/ UNCHANGED browser
    /\ UNCHANGED <<account, login, verifying, started, navs, lost, lockVars, worker,
                   handoffVars, meddled, reset>>

\* A new gateway process remembers no verification and no handler; a call on its
\* way may still have navigated.
GatewayRestart ==
    /\ lost < MaxLost
    /\ lost' = lost + 1
    /\ request' = [s \in Sessions |-> "idle"]
    /\ verifying' = {} /\ started' = {}
    /\ \/ UNCHANGED navs
       \/ /\ browser \in BrowserUp
          /\ navs' = [s \in Sessions |-> IF s \in verifying THEN navs[s] + 1 ELSE navs[s]]
    /\ decision' = "none"
    /\ UNCHANGED <<account, login, browser, lockVars, worker, handoff, confirmed, meddled, reset>>

-----------------------------------------------------------------------------
(* The operator handoff of a Collector process *)

\* Mutant: a handoff that was activated does not expire.
LiveOnceActive(h) == h.state = "active" \/ (h.state = "pending" /\ ~h.due)

\* _expire
Live(h) == h.state \in {"pending", "active"} /\ ~h.due

\* _write; the expiry of a decided handoff is never looked at again.
Written(state) == [state |-> state, due |-> handoff.due /\ state \in {"pending", "active"}]

\* What activate and resolve require of the file they have read.
MayBecome(to) == Live(handoff) /\ handoff.state = (IF to = "active" THEN "pending" ELSE "active")

\* The gateway reads the file in a request for the page, an activation with the
\* token, or a decision of the operator, and knows what it will write.
HandoffAsked ==
    /\ decision = "none"
    /\ \/ \E to \in {"active", "confirmed", "cancelled"} :
             /\ MayBecome(to)
             /\ decision' = to /\ confirmed' = (confirmed \/ to = "confirmed")
       \/ /\ handoff.state \in {"pending", "active"} /\ handoff.due
          /\ decision' = "expired" /\ UNCHANGED confirmed
    /\ UNCHANGED <<account, login, browser, gatewayVars, lockVars, worker, handoff, meddled, reset>>

\* The gateway replaces the file, whatever it holds by now.
HandoffAnswered ==
    /\ decision # "none"
    /\ handoff' = Written(decision)
    /\ decision' = "none"
    /\ UNCHANGED <<account, login, browser, gatewayVars, lockVars, worker, confirmed, meddled, reset>>

HandoffDue ==
    /\ handoff.state \in {"pending", "active"} /\ ~handoff.due
    /\ handoff' = [state |-> handoff.state, due |-> TRUE]
    /\ UNCHANGED <<account, login, browser, gatewayVars, lockVars, worker, decision, confirmed,
                   meddled, reset>>

-----------------------------------------------------------------------------
(* The Collector process: run_stage_3b, and the handoff script around it *)

workerFrame == <<login, browser, gatewayVars, reset>>
Goto(pc) == worker' = [pc |-> pc, kind |-> worker.kind]

WorkerLeaves == worker' = [pc |-> "off", kind |-> "plain"]

\* set_account_status
SetAccount(status) ==
    /\ Settable(account, status)
    /\ account' = status
    /\ meddled' = (meddled \/ account # status)

\* _set_safe_account_state: a status the reason calls for, unless the transition
\* is illegal; most reasons call for none.
SafeState ==
    \/ UNCHANGED <<account, meddled>>
    \/ \E status \in {"reauth_required", "temporarily_limited"} : SetAccount(status)

WorkerStart ==
    /\ worker.pc = "off"
    /\ \/ "plain" \in Kinds /\ worker' = [pc |-> "begin", kind |-> "plain"]
       \/ "handoff" \in Kinds /\ worker' = [pc |-> "open", kind |-> "handoff"]
    /\ UNCHANGED <<account, meddled, lockVars, handoffVars, workerFrame>>

\* The account is marked connecting before the feed is opened; a handoff has its
\* feed already.
WorkerBegin ==
    /\ worker.pc = "begin"
    /\ IF account = "connected" THEN UNCHANGED <<account, meddled>> ELSE SetAccount("connecting")
    /\ Goto(IF worker.kind = "handoff" THEN "ready" ELSE "open")
    /\ UNCHANGED <<lockVars, handoffVars, workerFrame>>

\* PlaywrightReelsFeed.open: the lock, ...
WorkerOpen ==
    /\ worker.pc = "open"
    /\ Take("collector")
    /\ Goto("launch")
    /\ UNCHANGED <<account, meddled, handoffVars, workerFrame>>

\* ... then Chromium and the Reels page, ...
WorkerLaunch ==
    /\ worker.pc = "launch"
    /\ Goto(IF worker.kind = "handoff" THEN "current" ELSE "wait")
    /\ UNCHANGED <<account, meddled, lockVars, handoffVars, workerFrame>>

\* ... or an error of either, at which _close_runtime closes what is open.
WorkerLaunchFails ==
    /\ worker.pc = "launch"
    /\ Goto("undo")
    /\ UNCHANGED <<account, meddled, lockVars, handoffVars, workerFrame>>

\* The profile is in use, or the browser did not come up: whoever holds the lock
\* keeps it, and a plain run has no other trace than the account.
WorkerOpenFails ==
    /\ worker.pc \in {"open", "failed"}
    /\ WorkerLeaves
    /\ IF worker.kind = "plain" THEN SafeState ELSE UNCHANGED <<account, meddled>>
    /\ UNCHANGED <<lockVars, handoffVars, workerFrame>>

\* The script of the handoff finds the current Reel and offers the handoff.
HandoffCreate ==
    /\ worker.pc = "current"
    /\ \/ /\ handoff' = [state |-> "pending", due |-> FALSE]
          /\ decision' = "none" /\ confirmed' = FALSE
          /\ Goto("poll")
       \/ Goto("close") /\ UNCHANGED handoffVars
    /\ UNCHANGED <<account, meddled, lockVars, workerFrame>>

\* Mutant: an activated handoff counts as a confirmed one.
GrantedWhenActive(state) == state \in {"active", "confirmed"}

Granted(state) == state = "confirmed"

\* The script polls the file: an overdue handoff is written back as expired, an
\* open one is polled again, only a confirmed one lets the run begin.
HandoffPoll ==
    /\ worker.pc = "poll"
    /\ \/ ~Live(handoff) /\ handoff.state \in {"pending", "active"} /\ Goto("expire")
       \/ Granted(handoff.state) /\ Goto("begin")
       \/ handoff.state \in {"cancelled", "expired"} /\ Goto("close")
    /\ UNCHANGED <<account, meddled, lockVars, handoffVars, workerFrame>>

HandoffExpire ==
    /\ worker.pc = "expire"
    /\ handoff' = Written("expired")
    /\ Goto("close")
    /\ UNCHANGED <<account, meddled, decision, confirmed, lockVars, workerFrame>>

\* The operator is ready in time, or is not.
WorkerReady ==
    /\ worker.pc = "wait"
    /\ \E pc \in {"ready", "close"} : Goto(pc)
    /\ UNCHANGED <<account, meddled, lockVars, handoffVars, workerFrame>>

\* The account is marked connected when the feed shows a Reel; a runtime error
\* leaves a safe state, any other exception leaves the account alone.
WorkerConnected ==
    /\ worker.pc = "ready"
    /\ \/ SetAccount("connected") /\ Goto("confirm")
       \/ SafeState /\ Goto("close")
    /\ UNCHANGED <<lockVars, handoffVars, workerFrame>>

\* A handoff confirms the run by itself.
WorkerConfirm ==
    /\ worker.pc = "confirm"
    /\ \/ Goto("collect")
       \/ worker.kind = "plain" /\ Goto("close")
    /\ UNCHANGED <<account, meddled, lockVars, handoffVars, workerFrame>>

\* engine.collect has ended (module Collector), with or without a stop reason.
WorkerCollected ==
    /\ worker.pc = "collect"
    /\ SafeState
    /\ Goto("close")
    /\ UNCHANGED <<lockVars, handoffVars, workerFrame>>

\* feed.close() in the finally block: Chromium first, ...
WorkerClose ==
    /\ worker.pc = "close"
    /\ Goto("unlock")
    /\ UNCHANGED <<account, meddled, lockVars, handoffVars, workerFrame>>

\* ... then the lock; a run whose browser did not come up marks the account next.
WorkerUnlock ==
    /\ worker.pc \in {"unlock", "undo"}
    /\ Release("collector")
    /\ IF worker.pc = "undo" THEN Goto("failed") ELSE WorkerLeaves
    /\ UNCHANGED <<account, meddled, handoffVars, workerFrame>>

\* The container of the process is killed, or the process raises where nothing is
\* caught; its lock and its Chromium go with it.
WorkerKilled ==
    /\ worker.pc # "off"
    /\ WorkerLeaves
    /\ Release("collector")
    /\ UNCHANGED <<account, meddled, handoffVars, workerFrame>>

-----------------------------------------------------------------------------
(* The profile reset *)

\* No open session: ...
ResetAsked ==
    /\ reset = "idle" /\ inode <= Resets
    /\ \A s \in Sessions : ~IsOpen(s)
    /\ reset' = "delete"
    /\ UNCHANGED <<account, login, browser, gatewayVars, lockVars, worker, handoffVars, meddled>>

\* ... the profile is deleted with its lock file, ...
ResetDeletes ==
    /\ reset = "delete"
    /\ inode' = inode + 1
    /\ reset' = "update"
    /\ UNCHANGED <<account, login, browser, gatewayVars, held, worker, handoffVars, meddled>>

\* ... and the account is disconnected, from any status.
ResetUpdates ==
    /\ reset = "update"
    /\ SetAccount("disconnected")
    /\ reset' = "idle"
    /\ UNCHANGED <<login, browser, gatewayVars, lockVars, worker, handoffVars>>

-----------------------------------------------------------------------------
LoginNext ==
    \E s \in Sessions :
        \/ \E check \in BOOLEAN : Create(s, check)
        \/ Activate(s) \/ Status(s) \/ Cancel(s) \/ ExpiryPasses(s)
        \/ VerifyProfile(s) \/ VerifyReply(s)
        \/ StateAsked(s) \/ StateReadiness(s) \/ StateComplete(s) \/ StateClose(s)

BrowserNext ==
    \/ BrowserStart \/ BrowserLaunch \/ Browse \/ BrowserStop
    \/ ChromiumGone \/ BrowserRelease \/ BrowserKilled
    \/ GatewayRestart

WorkerNext ==
    \/ WorkerStart \/ WorkerBegin
    \/ WorkerOpen \/ WorkerLaunch \/ WorkerLaunchFails \/ WorkerOpenFails
    \/ WorkerReady \/ WorkerConnected \/ WorkerConfirm \/ WorkerCollected
    \/ WorkerClose \/ WorkerUnlock \/ WorkerKilled

HandoffNext ==
    \/ HandoffCreate \/ HandoffPoll \/ HandoffExpire
    \/ HandoffAsked \/ HandoffAnswered \/ HandoffDue

ResetNext == ResetAsked \/ ResetDeletes \/ ResetUpdates

Next == LoginNext \/ BrowserNext \/ WorkerNext \/ HandoffNext \/ ResetNext

Spec == Init /\ [][Next]_vars

\* The Collector process polls as long as it runs, and the clock does not stop.
FairSpec == Spec /\ WF_vars(HandoffPoll \/ HandoffExpire) /\ WF_vars(HandoffDue)

-----------------------------------------------------------------------------
\* A session that was completed, cancelled or has expired is never opened or
\* closed again, whatever a handler still holds of it (complete after readiness,
\* cancel and status, login_sessions.py).
ClosedStays ==
    [][\A s \in Sessions : login[s].status \in Closed => login'[s].status = login[s].status]_vars

\* At most one login session is open, and unless a Collector or a reset has moved
\* the account, it is "connecting" exactly as long as a session of a profile that
\* was not connected is open: every end of a session gives the account back
\* (_restore_account, create_in_transaction).
LoginOwnsAccount ==
    /\ \A s, t \in Sessions : IsOpen(s) /\ IsOpen(t) => s = t
    /\ meddled \/ (account = "connecting" <=>
                     \E s \in Sessions : IsOpen(s) /\ login[s].prior # "connected")

\* A session's profile is verified by one navigation, and by one more for every
\* reply that was lost and every restart of the gateway
\* (profile_verifications_started, login_gateway.py).
VerifiedOnce == \A s \in Sessions : navs[s] <= 1 + lost

\* A run that a handoff was offered for begins only after the operator's
\* confirmation of that handoff, although both processes write its file
\* (run_instagram_collector_handoff.py).
HandoffConfirmed ==
    worker.kind = "handoff" /\ worker.pc \in {"begin", "ready", "confirm", "collect"} => confirmed

\* The steps of a Collector process at which its Chromium may be up; a handoff
\* has its browser before the run begins.
CollectorUp == worker.pc \in Holding \/ (worker.pc = "begin" /\ worker.kind = "handoff")

\* The login browser and the Collector have Chromium on the profile at the same
\* time only if a reset has deleted the lock file that one of them still holds:
\* each has its lock before its Chromium comes up and until it is gone, through
\* failed starts, shutdowns and kills (BrowserRuntime.start and stop,
\* PlaywrightReelsFeed.open, _close_runtime, ProfileLock).
ExclusiveProfile ==
    browser \in BrowserUp /\ CollectorUp => \E p \in Processes : held[p] \in 1 .. inode - 1

\* A Collector process that waits for the operator stops waiting: the handoff is
\* decided or expires (handoff_state.py).
HandoffEnds == worker.pc = "poll" ~> worker.pc # "poll"
=============================================================================
